------------------------------ MODULE Presence ------------------------------
(***************************************************************************)
(* How one callsign of our own node comes to be in the hub, and leaves:    *)
(* its browser tabs (web/handlers.go handleEvents), which are counted      *)
(* (web/presence.go); its requests (handleSend, handleDM, handleSettings), *)
(* which are counted only when they found nobody there; and its RF         *)
(* sessions (session/session.go), which are not counted.  All of them      *)
(* share one user of the hub.                                              *)
(*                                                                         *)
(* Each HTTP handler runs in its own goroutine; the hub is called after    *)
(* the count's lock has been released, so every call is a step.  What the  *)
(* count cannot see (calls that overlap, sessions, a request that found    *)
(* the user there) can upset it: upset records that, until all are gone.   *)
(***************************************************************************)
EXTENDS Naturals, FiniteSets

CONSTANTS
  Tabs, Requests, Sessions,  \* clients of the one callsign
  Absent     \* the hub does not know the callsign

Clients == Tabs \cup Requests \cup Sessions
Users   == [name : BOOLEAN, flags : BOOLEAN]  \* TRUE: as the viewer set it

ASSUME PresenceAssumption ==
  /\ Absent \notin Users
  /\ IsFiniteSet(Tabs) /\ IsFiniteSet(Requests)
  /\ Tabs \cap Requests = {} /\ (Tabs \cup Requests) \cap Sessions = {}

VARIABLES
  ref,     \* presence.ref of the callsign
  user,    \* its user in the hub, or Absent
  pc,      \* where each client is
  saved,   \* settings have been confirmed since the user was last absent
  upset    \* the count has missed something (see above)

vars == <<ref, user, pc, saved, upset>>

Steps == {"idle", "enter", "joining", "in", "half", "acted", "leaving",
          "act", "acthalf"}

TypeOK ==
  /\ ref \in Nat
  /\ user \in Users \cup {Absent}
  /\ pc \in [Clients -> Steps]
  /\ saved \in BOOLEAN /\ upset \in BOOLEAN

Init ==
  /\ ref = 0 /\ user = Absent
  /\ pc = [c \in Clients |-> "idle"]
  /\ saved = FALSE /\ upset = FALSE

-----------------------------------------------------------------------------
Go(c, step) == pc' = [pc EXCEPT ![c] = step]

(* Hub.Join makes a fresh user, whatever was there; Hub.Leave deletes it.  *)
Fresh     == [name |-> FALSE, flags |-> FALSE]

Changing == {c \in Clients : pc[c] \in {"joining", "leaving"}}
Holders  == {c \in Tabs \cup Requests : pc[c] \in {"joining", "in", "half", "acted"}}
Acting   == {r \in Requests : pc[r] \in {"act", "acthalf"}}
OnAir    == {s \in Sessions : pc[s] = "in"}
Active   == Changing \cup Holders \cup Acting \cup OnAir

Upset(b) == upset' = ((upset /\ Active # {}) \/ b)

(* presence.enter, under its lock: the first one is to join ...            *)

FirstAlways == TRUE
First       == ref = 0

Enter(c) ==
  /\ \/ c \in Tabs /\ pc[c] = "idle"
     \/ c \in Requests /\ pc[c] = "enter"
  /\ ref' = ref + 1
  /\ Go(c, IF First THEN "joining" ELSE "in")
  /\ Upset(Changing \cup OnAir # {})
  /\ UNCHANGED <<user, saved>>

(* ... and does, after it.                                                 *)
EnterJoin(c) ==
  /\ pc[c] = "joining"
  /\ user' = Fresh
  /\ Go(c, "in")
  /\ UNCHANGED <<ref, saved, upset>>

(* presence.leave, under its lock: the last one is to leave the hub ...    *)
LastNever(n) == FALSE
LastBelow(n) == n <= 1
Last(n)      == n = 0

Exit(c) ==
  LET n == IF ref > 0 THEN ref - 1 ELSE 0
  IN  /\ \/ c \in Tabs /\ pc[c] = "in"
         \/ c \in Requests /\ pc[c] = "acted"
      /\ ref' = n
      /\ Go(c, IF Last(n) THEN "leaving" ELSE "idle")
      /\ Upset(Changing \cup OnAir # {})
      /\ UNCHANGED <<user, saved>>

(* ... and does, after it.                                                 *)
ExitLeave(c) ==
  /\ pc[c] = "leaving"
  /\ user' = Absent /\ saved' = FALSE
  /\ Go(c, "idle")
  /\ Upset(Acting # {})
  /\ UNCHANGED ref

-----------------------------------------------------------------------------
(* A request looks whether its user is in the hub, and enters if not.      *)
Look(r) ==
  /\ r \in Requests /\ pc[r] = "idle"
  /\ Go(r, IF user = Absent THEN "enter" ELSE "act")
  /\ UNCHANGED <<ref, user, saved, upset>>

Entered(r) == pc[r] \in {"in", "half"}

Done(r) == Go(r, IF Entered(r) THEN "acted" ELSE "idle")

Refuse(r) ==
  /\ user = Absent
  /\ Done(r)
  /\ UNCHANGED <<ref, user, saved, upset>>

(* It posts, sends a private message, or reads its settings.               *)
Post(r) ==
  /\ r \in Requests /\ pc[r] \in {"in", "act"}
  /\ \/ Refuse(r)
     \/ user # Absent /\ Done(r) /\ UNCHANGED <<ref, user, saved, upset>>

(* It writes its settings, in two calls.                                   *)
SetInfo(r) ==
  /\ r \in Requests /\ pc[r] \in {"in", "act"}
  /\ \/ Refuse(r)
     \/ /\ user # Absent
        /\ user' = [user EXCEPT !.name = TRUE]
        /\ Go(r, IF Entered(r) THEN "half" ELSE "acthalf")
        /\ UNCHANGED <<ref, saved, upset>>

SetFlags(r) ==
  /\ r \in Requests /\ pc[r] \in {"half", "acthalf"}
  /\ \/ Refuse(r)
     \/ /\ user # Absent
        /\ user' = [user EXCEPT !.flags = TRUE]
        /\ saved' = TRUE
        /\ Done(r)
        /\ UNCHANGED <<ref, upset>>

-----------------------------------------------------------------------------
(* An RF session joins in New and leaves in end, without the count.        *)
New(s) ==
  /\ s \in Sessions /\ pc[s] = "idle"
  /\ user' = Fresh
  /\ Go(s, "in")
  /\ Upset(Active # {})
  /\ UNCHANGED <<ref, saved>>

End(s) ==
  /\ s \in Sessions /\ pc[s] = "in"
  /\ user' = Absent /\ saved' = FALSE
  /\ Go(s, "idle")
  /\ Upset(Active # {s})
  /\ UNCHANGED ref

Step(c) ==
  \/ Enter(c) \/ EnterJoin(c) \/ Exit(c) \/ ExitLeave(c)
  \/ Look(c) \/ Post(c) \/ SetInfo(c) \/ SetFlags(c)
  \/ New(c) \/ End(c)

Next == \E c \in Clients : Step(c)

Spec == Init /\ [][Next]_vars

-----------------------------------------------------------------------------
(* "the last to close leaves them" (presence.go:10): with every client     *)
(* gone, however they overlapped, no ghost user is left behind.            *)
AbsentAtRest == Active = {} => user = Absent

(* "the first stream joins them, the last to close leaves them"            *)
(* (presence.go:10): unless the count was upset, whoever has entered and   *)
(* every session is in the hub, so that no entered request is refused.     *)
PresentWhileOpen ==
  ~upset /\ Changing = {} /\ Holders \cup OnAir # {} => user # Absent

(* Settings are "the ONE persisted identity every plane (RF, web, mesh)    *)
(* observes for that user" (settings.go:37), written by two calls with     *)
(* other handlers in between: unless the count was upset, confirmed        *)
(* settings are whole and stay until the user leaves.                      *)
SettingsWhole == ~upset /\ saved => user = [name |-> TRUE, flags |-> TRUE]
=============================================================================
