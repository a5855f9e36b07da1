------------------------------ MODULE Identity ------------------------------
(***************************************************************************)
(* Presence under a claimed callsign: the clients of Presence belong to    *)
(* pdn users, and a tab or a request is one of THE callsign's if, when it  *)
(* came in, its user held the claim to it (requireViewer, resolveViewer in *)
(* web/claims.go).  It looks that up once: a stream goes on under the      *)
(* callsign it started with, whatever its user claims afterwards.          *)
(***************************************************************************)
EXTENDS Presence

CONSTANTS
  PdnUsers, Owner,    \* pdn users, and [Tabs \cup Requests -> PdnUsers]
  Calls, TheCall,     \* callsigns, and the one Presence is about
  Posts, By, None     \* of Claims

Web == Tabs \cup Requests

ASSUME IdentityAssumption ==
  /\ Owner \in [Web -> PdnUsers] /\ By \in [Posts -> PdnUsers]
  /\ TheCall \in Calls /\ None \notin Calls \cup {"ok", "conflict", "failed"}

VARIABLES
  claims, post,   \* of Claims
  viewer,         \* tabs and requests that go under the callsign
  movedOn         \* users who claimed another one while a client of theirs did

C == INSTANCE Claims

allVars == <<vars, claims, post, viewer, movedOn>>

InitAll ==
  /\ Init /\ C!Init
  /\ viewer = {} /\ movedOn = {}

OwnersOf(cs) == {Owner[c] : c \in cs}

(* resolveViewer.  A user without a claim is refused, one with another     *)
(* callsign is not one of these clients.                                   *)
Resolve(c) ==
  /\ pc[c] = "idle" /\ c \notin viewer
  /\ claims[Owner[c]] = TheCall
  /\ viewer' = viewer \cup {c}
  /\ UNCHANGED <<vars, claims, post, movedOn>>

(* A step of Presence, by a session or by a client that has been resolved; *)
(* the client of a handler that returns is resolved anew.                  *)
Present(c) ==
  /\ c \in Web => c \in viewer
  /\ Step(c)
  /\ viewer' = IF pc'[c] = "idle" THEN viewer \ {c} ELSE viewer
  /\ movedOn' = movedOn \cap OwnersOf(viewer')
  /\ UNCHANGED <<claims, post>>

ClaimStep ==
  /\ C!Next
  /\ movedOn' = movedOn \cup {p \in OwnersOf(viewer) : claims[p] = TheCall /\ claims'[p] # TheCall}
  /\ UNCHANGED <<vars, viewer>>

NextAll == ClaimStep \/ (\E c \in Web : Resolve(c)) \/ \E c \in Clients : Present(c)

SpecAll == InitAll /\ [][NextAll]_allVars

-----------------------------------------------------------------------------
(* See Claims.                                                             *)
ClaimsAtomic == C!ClaimsAtomic

(* "a callsign can't be claimed by two web identities" (sqlite.go:77), and *)
(* so two pdn users never speak under one callsign at once, as long as     *)
(* neither claims another one with a stream or a request under way: that   *)
(* frees the callsign while the stream goes on under it.                   *)
OneIdentity == Cardinality(OwnersOf(viewer) \ movedOn) <= 1
=============================================================================
