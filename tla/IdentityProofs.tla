--------------------------- MODULE IdentityProofs ---------------------------
(***************************************************************************)
(* Proofs about Identity, for every set of pdn users, callsigns, clients   *)
(* and requests.  Two theorems rest on the unique index: a callsign has    *)
(* one holder.  With that, the statements of Store.Claim implement the     *)
(* register, and two users can go under one callsign only if one of them   *)
(* has given it up meanwhile.  The others are about the presence of one    *)
(* callsign, and rest on the count being the number of those inside.       *)
(***************************************************************************)
EXTENDS Identity, FiniteSetTheorems, TLAPS

(* A callsign has one holder. *)
OneHolder == \A p, q \in PdnUsers : claims[p] = claims[q] /\ claims[p] # None => p = q

(* A request has a callsign from its start to its end, and an answer at    *)
(* its end.                                                                *)
Request ==
  {v \in [at: {"idle", "read", "lookup", "write", "done"}, call: Calls \cup {None},
          answer: {None, "ok", "conflict", "failed"}] :
     (v.call = None <=> v.at = "idle") /\ (v.answer = None <=> v.at # "done")}

ClaimInv ==
  /\ claims \in [PdnUsers -> Calls \cup {None}]
  /\ post \in [Posts -> Request]
  /\ OneHolder

(* Who goes under the callsign has claimed it, or has moved on. *)
ViewerHolds ==
  /\ viewer \subseteq Web
  /\ \A c \in viewer : Owner[c] \notin movedOn => claims[Owner[c]] = TheCall

IInv == ClaimInv /\ ViewerHolds

-----------------------------------------------------------------------------
LEMMA ClaimInit == C!Init => ClaimInv
  BY IdentityAssumption DEF C!Init, C!Idle, ClaimInv, OneHolder, Request

(* What the steps of a request do to it.                                   *)
LEMMA Moves ==
  ASSUME ClaimInv, NEW r \in Posts, post[r].at # "idle"
  PROVE  /\ \A s \in {"lookup", "write"} :
              post[r].at # "done" /\ C!Goes(r, s) => post' \in [Posts -> Request]
         /\ \A a \in {"ok", "conflict", "failed"} :
              C!Answers(r, a) => post' \in [Posts -> Request]
<1> USE IdentityAssumption DEF ClaimInv
<1>1. post[r] \in Request /\ post[r].call \in Calls
  BY DEF Request
<1>2. ASSUME NEW s \in {"lookup", "write"}, post[r].at # "done", C!Goes(r, s)
      PROVE  post' \in [Posts -> Request]
  <2>1. [post[r] EXCEPT !.at = s] \in Request
    BY <1>1, <1>2 DEF Request
  <2> QED BY <1>2, <2>1 DEF C!Goes
<1>3. ASSUME NEW a \in {"ok", "conflict", "failed"}, C!Answers(r, a)
      PROVE  post' \in [Posts -> Request]
  <2>1. [post[r] EXCEPT !.at = "done", !.answer = a] \in Request
    BY Zenon, <1>1 DEF Request
  <2>2. post' = [post EXCEPT ![r] = [post[r] EXCEPT !.at = "done", !.answer = a]]
    BY Zenon, <1>1, <1>3 DEF C!Answers, Request
  <2> QED BY <2>1, <2>2
<1> QED BY <1>2, <1>3

LEMMA ClaimNext == ClaimInv /\ C!Next => ClaimInv'
<1> SUFFICES ASSUME ClaimInv, NEW r \in Posts,
                    \/ \E c \in Calls : C!handleClaim(r, c)
                    \/ C!ReadOwn(r) \/ C!Lookup(r) \/ C!Upsert(r) \/ C!Fails(r) \/ C!Reply(r)
             PROVE  ClaimInv'
  BY DEF C!Next
<1> USE IdentityAssumption
<1>a. ASSUME UNCHANGED claims, post' \in [Posts -> Request] PROVE ClaimInv'
  BY <1>a DEF ClaimInv, OneHolder
<1>1. ASSUME NEW c \in Calls, C!handleClaim(r, c) PROVE ClaimInv'
  <2>1. [C!Idle EXCEPT !.at = "read", !.call = c] \in Request
    BY DEF Request, C!Idle
  <2> QED BY Zenon, <1>1, <1>a, <2>1 DEF C!handleClaim, ClaimInv
<1>2. CASE C!ReadOwn(r)
  BY <1>2, <1>a, Moves DEF C!ReadOwn, C!At
<1>3. CASE C!Lookup(r)
  BY <1>3, <1>a, Moves DEF C!Lookup, C!At
<1>4. CASE C!Upsert(r)
  <2>1. CASE C!Unique(By[r], post[r].call)
    BY <1>4, <1>a, <2>1, Moves DEF C!Upsert, C!At, C!Refused
  <2>2. CASE ~C!Unique(By[r], post[r].call)
    <3>1. /\ post[r].at = "write" /\ C!Answers(r, "ok")
          /\ claims' = [claims EXCEPT ![By[r]] = post[r].call]
          /\ \A q \in PdnUsers \ {By[r]} : claims[q] # post[r].call
      BY <1>4, <2>2 DEF C!Upsert, C!At, C!Unique, C!HeldByOther
    <3>2. post[r].call \in Calls
      BY <3>1 DEF ClaimInv, Request
    <3>3. post' \in [Posts -> Request]
      BY <3>1, Moves
    <3>4. OneHolder'
      BY <3>1, <3>2 DEF ClaimInv, OneHolder
    <3> QED BY <3>1, <3>2, <3>3, <3>4 DEF ClaimInv
  <2> QED BY <2>1, <2>2
<1>5. CASE C!Fails(r)
  BY <1>5, <1>a, Moves DEF C!Fails
<1>6. CASE C!Reply(r)
  <2>1. C!Idle \in Request
    BY DEF Request, C!Idle
  <2> QED BY <1>6, <1>a, <2>1 DEF C!Reply, ClaimInv
<1> QED BY <1>1, <1>2, <1>3, <1>4, <1>5, <1>6

-----------------------------------------------------------------------------
(* The claims' part of a behaviour is one of Claims, with stuttering.      *)
LEMMA ClaimPart == [NextAll]_allVars => [C!Next]_(C!vars)
  BY DEF NextAll, ClaimStep, Resolve, Present, allVars, C!vars

LEMMA ClaimAlways == SpecAll => []ClaimInv
<1>1. InitAll => ClaimInv
  BY ClaimInit DEF InitAll
<1>2. ClaimInv /\ [NextAll]_allVars => ClaimInv'
  <2> SUFFICES ASSUME ClaimInv, [C!Next]_(C!vars) PROVE ClaimInv'
    BY ClaimPart
  <2>1. CASE C!Next
    BY <2>1, ClaimNext
  <2>2. CASE UNCHANGED C!vars
    BY <2>2 DEF C!vars, ClaimInv, OneHolder
  <2> QED BY <2>1, <2>2
<1> QED BY <1>1, <1>2, PTL DEF SpecAll

(* Each step of a request is a step of the register, or none.  Its answer  *)
(* is the decision: an answer by ReadOwn is one because the callsign has   *)
(* no other holder.                                                        *)
LEMMA ClaimSimulates == ClaimInv /\ C!Next => [C!Register!Next]_(C!Register!vars)
<1> SUFFICES ASSUME ClaimInv, NEW r \in Posts,
                    \/ \E c \in Calls : C!handleClaim(r, c)
                    \/ C!ReadOwn(r) \/ C!Lookup(r) \/ C!Upsert(r) \/ C!Fails(r) \/ C!Reply(r)
             PROVE  [C!Register!Next]_(C!Register!vars)
  BY DEF C!Next
<1> USE IdentityAssumption
<1> DEFINE asked  == [s \in Posts |-> post[s].call]
           answer == [s \in Posts |-> post[s].answer]
<1>a. post[r] \in Request /\ post \in [Posts -> Request]
  BY DEF ClaimInv
<1>b. ASSUME NEW s, C!Goes(r, s) PROVE UNCHANGED <<asked, answer>>
  BY <1>a, <1>b DEF C!Goes, Request
<1>c. ASSUME NEW v, C!Answers(r, v) PROVE UNCHANGED asked /\ answer' = [answer EXCEPT ![r] = v]
  BY Zenon, <1>a, <1>c DEF C!Answers, Request
<1>d. ASSUME NEW v, C!Answers(r, v), post[r].at \in {"read", "lookup", "write"},
             \/ /\ v = "ok" /\ ~C!Register!HeldByOther(By[r], post[r].call)
                /\ claims' = [claims EXCEPT ![By[r]] = post[r].call]
             \/ v = "conflict" /\ C!Register!HeldByOther(By[r], post[r].call) /\ UNCHANGED claims
             \/ v = "failed" /\ UNCHANGED claims
      PROVE  C!Register!Decide(r)
  <2>1. asked[r] = post[r].call /\ asked[r] # None /\ answer[r] = None
    BY <1>a, <1>d DEF Request
  <2> HIDE DEF asked, answer
  <2>2. UNCHANGED asked /\ answer' = [answer EXCEPT ![r] = v]
    BY <1>c, <1>d
  <2> QED BY Zenon, <1>d, <2>1, <2>2 DEF C!Register!Decide, C!Register!Answered, asked, answer
<1>1. ASSUME NEW c \in Calls, C!handleClaim(r, c) PROVE C!Register!Ask(r, c)
  BY Zenon, <1>1, <1>a DEF C!handleClaim, C!At, C!Idle, C!Register!Ask, Request
<1>2. CASE C!ReadOwn(r)
  <2>1. CASE claims[By[r]] = post[r].call
    <3>1. ~C!Register!HeldByOther(By[r], post[r].call)
      BY <1>2, <1>a, <2>1 DEF C!Register!HeldByOther, ClaimInv, OneHolder, C!ReadOwn, C!At, Request
    <3>2. claims' = [claims EXCEPT ![By[r]] = post[r].call]
      BY <1>2, <2>1 DEF C!ReadOwn, ClaimInv
    <3>3. C!Register!Decide(r)
      BY Zenon, <1>2, <1>d, <2>1, <3>1, <3>2 DEF C!ReadOwn, C!At
    <3> QED BY <3>3 DEF C!Register!Next
  <2>2. CASE claims[By[r]] # post[r].call
    BY <1>2, <1>b, <2>2 DEF C!ReadOwn, C!Register!vars
  <2> QED BY <2>1, <2>2
<1>3. CASE C!Lookup(r)
  <2>1. CASE C!HeldByOther(By[r], post[r].call)
    <3>1. C!Register!Decide(r)
      BY <1>3, <1>d, <2>1 DEF C!Lookup, C!At, C!HeldByOther, C!Register!HeldByOther
    <3> QED BY <3>1 DEF C!Register!Next
  <2>2. CASE ~C!HeldByOther(By[r], post[r].call)
    BY <1>3, <1>b, <2>2 DEF C!Lookup, C!Register!vars
  <2> QED BY <2>1, <2>2
<1>4. CASE C!Upsert(r)
  <2>1. C!Register!Decide(r)
    BY <1>4, <1>d DEF C!Upsert, C!At, C!Refused, C!Unique, C!HeldByOther, C!Register!HeldByOther
  <2> QED BY <2>1 DEF C!Register!Next
<1>5. CASE C!Fails(r)
  <2>1. C!Register!Decide(r)
    BY <1>5, <1>d DEF C!Fails
  <2> QED BY <2>1 DEF C!Register!Next
<1>6. CASE C!Reply(r)
  <2>1. C!Register!Reply(r)
    BY Zenon, <1>6, <1>a DEF C!Reply, C!At, C!Idle, C!Register!Reply, Request
  <2> QED BY <2>1 DEF C!Register!Next
<1>7. ASSUME NEW c \in Calls, C!handleClaim(r, c) PROVE C!Register!Next
  BY <1>1, <1>7 DEF C!Register!Next
<1> QED BY <1>2, <1>3, <1>4, <1>5, <1>6, <1>7

(* The statements of Store.Claim, in any interleaving, implement the       *)
(* register: what the users see is decided at one moment.                  *)
THEOREM ClaimsAreAtomic == SpecAll => ClaimsAtomic
<1>1. InitAll => C!Register!Init
  BY DEF InitAll, C!Init, C!Idle, C!Register!Init
<1>2. ClaimInv /\ [NextAll]_allVars => [C!Register!Next]_(C!Register!vars)
  <2> SUFFICES ASSUME ClaimInv, [C!Next]_(C!vars) PROVE [C!Register!Next]_(C!Register!vars)
    BY ClaimPart
  <2>1. CASE UNCHANGED C!vars
    BY <2>1 DEF C!vars, C!Register!vars
  <2> QED BY <2>1, ClaimSimulates
<1> QED BY <1>1, <1>2, ClaimAlways, PTL DEF SpecAll, ClaimsAtomic, C!ClaimsAtomic, C!Register!Spec

-----------------------------------------------------------------------------
LEMMA ViewerNext == IInv /\ [NextAll]_allVars => ViewerHolds'
<1> SUFFICES ASSUME IInv, [NextAll]_allVars PROVE ViewerHolds'
  OBVIOUS
<1> USE IdentityAssumption DEF IInv, ViewerHolds
<1>1. CASE UNCHANGED allVars
  BY <1>1 DEF allVars
<1>2. CASE ClaimStep
  <2>1. UNCHANGED viewer
    BY <1>2 DEF ClaimStep
  <2>2. ASSUME NEW c \in viewer, Owner[c] \notin movedOn' PROVE claims'[Owner[c]] = TheCall
    BY <1>2, <2>2 DEF ClaimStep, OwnersOf
  <2> QED BY <2>1, <2>2
<1>3. ASSUME NEW c \in Web, Resolve(c) PROVE ViewerHolds'
  BY <1>3 DEF Resolve
<1>4. ASSUME NEW c \in Clients, Present(c) PROVE ViewerHolds'
  <2>1. viewer' \subseteq viewer /\ UNCHANGED claims
    BY <1>4 DEF Present
  <2>2. ASSUME NEW d \in viewer', Owner[d] \notin movedOn' PROVE Owner[d] \notin movedOn
    BY <1>4, <2>2 DEF Present, OwnersOf
  <2> QED BY <2>1, <2>2
<1> QED BY <1>1, <1>2, <1>3, <1>4 DEF NextAll

(* Two pdn users never speak under one callsign, unless one of them has    *)
(* claimed another with a stream or a request of theirs under way.         *)
THEOREM NobodySharesACallsign == SpecAll => []OneIdentity
<1>1. InitAll => IInv
  BY ClaimInit DEF InitAll, IInv, ViewerHolds
<1>2. ClaimInv' /\ IInv /\ [NextAll]_allVars => IInv'
  BY ViewerNext DEF IInv
<1>3. IInv => OneIdentity
  <2> SUFFICES ASSUME IInv PROVE Cardinality(OwnersOf(viewer) \ movedOn) <= 1
    BY DEF OneIdentity
  <2> DEFINE S == OwnersOf(viewer) \ movedOn
  <2>1. \A p \in S : p \in PdnUsers /\ claims[p] = TheCall
    BY IdentityAssumption DEF IInv, ViewerHolds, OwnersOf
  <2>2. \A p, q \in S : p = q
    BY <2>1, IdentityAssumption DEF IInv, ClaimInv, OneHolder
  <2> HIDE DEF S
  <2>3. CASE S = {}
    BY <2>3, FS_EmptySet DEF S
  <2>4. CASE S # {}
    <3>1. PICK p : S = {p}
      BY <2>2, <2>4
    <3> QED BY <3>1, FS_Singleton DEF S
  <2> QED BY <2>3, <2>4
<1> QED BY <1>1, <1>2, <1>3, ClaimAlways, PTL DEF SpecAll

-----------------------------------------------------------------------------
(* Presence.  The count is right, whatever happens: it is the number of    *)
(* tabs and requests that have entered and not left.                       *)
CountInv ==
  /\ TypeOK
  /\ \A s \in Sessions : pc[s] \in {"idle", "in"}
  /\ \A t \in Tabs : pc[t] \in {"idle", "joining", "in", "leaving"}
  /\ ref = Cardinality(Holders)

(* The user is in the hub only while somebody is there who is to take it   *)
(* out again; with it go the settings.                                     *)
RestInv ==
  /\ user # Absent => Changing \cup Holders \cup OnAir # {}
  /\ user = Absent => saved = FALSE

(* Unless the count was upset, who is there is one of: nobody; one who is  *)
(* about to join, alone; some who entered; one who is about to leave,      *)
(* alone; or one session.                                                  *)
AboutToJoin(c)  == pc[c] = "joining" /\ Changing = {c} /\ Holders = {c} /\ OnAir = {}
AboutToLeave(c) == pc[c] = "leaving" /\ Changing = {c} /\ Holders = {} /\ OnAir = {}
SomeEntered     == Changing = {} /\ Holders # {} /\ OnAir = {}
OneSession      == Changing = {} /\ Holders = {} /\ \E s \in Sessions : OnAir = {s}

Calm ==
  /\ \/ user = Absent /\ Changing \cup Holders \cup OnAir = {}
     \/ user = Absent /\ \E c \in Web : AboutToJoin(c)
     \/ user # Absent /\ \E c \in Web : AboutToLeave(c)
     \/ user # Absent /\ (SomeEntered \/ OneSession)
  /\ user = Absent => Acting = {}
  /\ saved = TRUE => user = [name |-> TRUE, flags |-> TRUE]
  /\ \A r \in Requests : pc[r] \in {"half", "acthalf"} =>
       user # Absent /\ user.name = TRUE

CalmInv == upset = FALSE => Calm

PresenceInv == CountInv /\ RestInv /\ CalmInv

(* What a step of one client does to who is where.                         *)
LEMMA Moved ==
  ASSUME pc \in [Clients -> Steps], NEW c \in Clients, NEW s \in Steps, Go(c, s)
  PROVE  /\ Changing' = IF s \in {"joining", "leaving"} THEN Changing \cup {c}
                        ELSE Changing \ {c}
         /\ Holders' = IF c \in Web /\ s \in {"joining", "in", "half", "acted"}
                         THEN Holders \cup {c} ELSE Holders \ {c}
         /\ Acting' = IF c \in Requests /\ s \in {"act", "acthalf"} THEN Acting \cup {c}
                      ELSE Acting \ {c}
         /\ OnAir' = IF c \in Sessions /\ s = "in" THEN OnAir \cup {c} ELSE OnAir \ {c}
         /\ pc' \in [Clients -> Steps] /\ pc'[c] = s
         /\ \A d \in Clients : d # c => pc'[d] = pc[d]
<1>1. pc' = [pc EXCEPT ![c] = s]
  BY DEF Go
<1> USE <1>1 DEF Clients, Web
<1>2. Changing' = IF s \in {"joining", "leaving"} THEN Changing \cup {c} ELSE Changing \ {c}
  BY DEF Changing
<1>3. Holders' = IF c \in Web /\ s \in {"joining", "in", "half", "acted"}
                   THEN Holders \cup {c} ELSE Holders \ {c}
  BY DEF Holders
<1>4. Acting' = IF c \in Requests /\ s \in {"act", "acthalf"} THEN Acting \cup {c}
                ELSE Acting \ {c}
  BY DEF Acting
<1>5. OnAir' = IF c \in Sessions /\ s = "in" THEN OnAir \cup {c} ELSE OnAir \ {c}
  BY DEF OnAir
<1> QED BY <1>2, <1>3, <1>4, <1>5

(* Who is where, from where each client is.                                *)
LEMMA Places ==
  ASSUME NEW c \in Clients
  PROVE  /\ c \in Changing <=> pc[c] \in {"joining", "leaving"}
         /\ c \in Holders <=> c \in Web /\ pc[c] \in {"joining", "in", "half", "acted"}
         /\ c \in Acting <=> c \in Requests /\ pc[c] \in {"act", "acthalf"}
         /\ c \in OnAir <=> c \in Sessions /\ pc[c] = "in"
  BY DEF Changing, Holders, Acting, OnAir, Web

LEMMA HoldersFinite == IsFiniteSet(Holders) /\ Cardinality(Holders) \in Nat
<1>1. IsFiniteSet(Tabs \cup Requests)
  BY Zenon, PresenceAssumption, FS_Union
<1>2. Holders \subseteq Tabs \cup Requests
  BY DEF Holders
<1> QED BY <1>1, <1>2, FS_Subset, FS_CardinalityType

(* The users of the hub.                                                   *)
LEMMA FreshUser == Fresh \in Users /\ Fresh # Absent
<1>1. Fresh \in Users
  BY DEF Users, Fresh
<1> QED BY <1>1, PresenceAssumption

LEMMA UserSet ==
  ASSUME NEW v \in Users
  PROVE  [v EXCEPT !.name = TRUE] \in Users /\ [v EXCEPT !.flags = TRUE] \in Users
  BY Zenon DEF Users

(* What a step does to the state of one client.                            *)
LEMMA StepShape ==
  ASSUME CountInv, NEW c \in Clients, Step(c)
  PROVE  \E s \in Steps :
           /\ Go(c, s)
           /\ c \in Sessions => s \in {"idle", "in"}
           /\ c \in Tabs => s \in {"idle", "joining", "in", "leaving"}
  BY PresenceAssumption
  DEF CountInv, TypeOK, Step, Enter, EnterJoin, Exit, ExitLeave, Look, Post, SetInfo, SetFlags,
      New, End, Refuse, Done, Clients, Steps

(* Every step keeps the types.                                             *)
LEMMA PlacesStep ==
  ASSUME CountInv, NEW c \in Clients, Step(c)
  PROVE  /\ pc' \in [Clients -> Steps]
         /\ \A s \in Sessions : pc'[s] \in {"idle", "in"}
         /\ \A t \in Tabs : pc'[t] \in {"idle", "joining", "in", "leaving"}
<1>1. PICK s \in Steps : /\ Go(c, s)
                         /\ c \in Sessions => s \in {"idle", "in"}
                         /\ c \in Tabs => s \in {"idle", "joining", "in", "leaving"}
  BY StepShape
<1> QED BY <1>1 DEF CountInv, TypeOK, Go, Clients

(* Every step keeps the count: only enter and leave change who is counted. *)
LEMMA CountStep ==
  ASSUME CountInv, NEW c \in Clients, Step(c)
  PROVE  CountInv'
<1> USE DEF Steps
<1>0. /\ ref \in Nat /\ ref = Cardinality(Holders) /\ pc \in [Clients -> Steps]
      /\ user \in Users \cup {Absent} /\ saved \in BOOLEAN /\ upset \in BOOLEAN
      /\ c \in Sessions => pc[c] \in {"idle", "in"}
      /\ c \in Tabs => pc[c] \in {"idle", "joining", "in", "leaving"}
  BY DEF CountInv, TypeOK
<1>1. /\ c \in Changing <=> pc[c] \in {"joining", "leaving"}
      /\ c \in Holders <=> c \in Web /\ pc[c] \in {"joining", "in", "half", "acted"}
  BY Places
<1>2. c \in Tabs \cup Requests <=> c \in Web /\ c \notin Sessions
  BY PresenceAssumption DEF Web
<1>3. user' \in Users \cup {Absent} /\ saved' \in BOOLEAN /\ upset' \in BOOLEAN
  <2>1. user' \in {user, Fresh, Absent} \/ (user # Absent /\ user' = [user EXCEPT !.name = TRUE])
        \/ (user # Absent /\ user' = [user EXCEPT !.flags = TRUE])
    BY DEF Step, Enter, EnterJoin, Exit, ExitLeave, Look, Post, SetInfo, SetFlags, New, End, Refuse
  <2>2. user' \in Users \cup {Absent}
    BY Zenon, <1>0, <2>1, FreshUser, UserSet
  <2>3. saved' \in {saved, TRUE, FALSE}
    BY Zenon DEF Step, Enter, EnterJoin, Exit, ExitLeave, Look, Post, SetInfo, SetFlags, New, End, Refuse
  <2>4. upset' \in BOOLEAN
    BY <1>0 DEF Step, Enter, EnterJoin, Exit, ExitLeave, Look, Post, SetInfo, SetFlags, New, End,
                Refuse, Upset
  <2> QED BY Zenon, <1>0, <2>2, <2>3, <2>4
<1>4. ref' \in Nat /\ ref' = Cardinality(Holders')
  <2>1. CASE Enter(c)
    <3>1. c \in Web /\ c \notin Holders /\ ref' = ref + 1
      BY <2>1, <1>0, <1>1, <1>2 DEF Enter
    <3>2. Holders' = Holders \cup {c}
      BY <2>1, <1>0, <3>1, Moved DEF Enter
    <3>3. Cardinality(Holders \cup {c}) = Cardinality(Holders) + 1
      BY Zenon, <3>1, HoldersFinite, FS_AddElement
    <3> QED BY <1>0, <3>1, <3>2, <3>3
  <2>2. CASE Exit(c)
    <3>1. c \in Holders
      BY <2>2, <1>0, <1>1, <1>2 DEF Exit
    <3>2. Holders' = Holders \ {c}
      BY <2>2, <1>0, <3>1, Moved DEF Exit
    <3>3. Cardinality(Holders \ {c}) = Cardinality(Holders) - 1 /\ Holders # {}
      BY Zenon, <3>1, HoldersFinite, FS_RemoveElement
    <3>4. Cardinality(Holders \ {c}) \in Nat
      BY HoldersFinite, FS_Subset, FS_CardinalityType, FS_RemoveElement
    <3>5. ref' = IF ref > 0 THEN ref - 1 ELSE 0
      BY <2>2 DEF Exit
    <3> QED BY <1>0, <3>2, <3>3, <3>4, <3>5
  <2>3. CASE ~Enter(c) /\ ~Exit(c)
    <3>1. Holders' = Holders
      <4>1. CASE EnterJoin(c) \/ ExitLeave(c)
        BY <4>1, <1>0, <1>1, <1>2, Moved DEF EnterJoin, ExitLeave, Clients
      <4>2. CASE Look(c)
        BY <4>2, <1>0, <1>1, <1>2, Moved DEF Look
      <4>3. CASE Post(c) \/ SetInfo(c) \/ SetFlags(c)
        <5>1. CASE Entered(c)
          <6>1. c \in Web /\ c \in Holders /\ \E s \in {"half", "acted"} : Go(c, s)
            BY <4>3, <5>1, <1>1, <1>2 DEF Post, SetInfo, SetFlags, Refuse, Done, Entered
          <6> QED BY <6>1, <1>0, Moved
        <5>2. CASE ~Entered(c)
          <6>1. c \notin Holders /\ \E s \in {"idle", "acthalf"} : Go(c, s)
            BY <4>3, <5>2, <1>1, <1>2 DEF Post, SetInfo, SetFlags, Refuse, Done, Entered
          <6> QED BY <6>1, <1>0, Moved
        <5> QED BY <5>1, <5>2
      <4>4. CASE New(c) \/ End(c)
        <5>1. c \notin Web /\ c \notin Holders /\ \E s \in {"in", "idle"} : Go(c, s)
          BY <4>4, <1>1, <1>2, PresenceAssumption DEF New, End, Web
        <5> QED BY <5>1, <1>0, Moved
      <4> QED BY <2>3, <4>1, <4>2, <4>3, <4>4 DEF Step
    <3>2. ref' = ref
      BY <2>3 DEF Step, EnterJoin, ExitLeave, Look, Post, SetInfo, SetFlags, New, End, Refuse
    <3> QED BY <1>0, <3>1, <3>2
  <2> QED BY <2>1, <2>2, <2>3
<1> QED BY <1>3, <1>4, PlacesStep DEF CountInv, TypeOK

(* With nobody there all is calm, whatever was before.                     *)
LEMMA AtRest ==
  ASSUME CountInv, RestInv, Active = {}
  PROVE  Calm
<1>1. user = Absent /\ saved = FALSE /\ Changing \cup Holders \cup OnAir = {} /\ Acting = {}
  BY DEF RestInv, Active
<1>2. ASSUME NEW r \in Requests PROVE pc[r] \notin {"half", "acthalf"}
  BY <1>1, Places DEF Clients, Web
<1> QED BY <1>1, <1>2 DEF Calm

LEMMA NoHolders == ASSUME CountInv PROVE ref = 0 <=> Holders = {}
  BY HoldersFinite, FS_EmptySet DEF CountInv

(* Every step keeps the user in the hub only while somebody is there.      *)
LEMMA RestStep ==
  ASSUME CountInv, RestInv, NEW c \in Clients, Step(c)
  PROVE  RestInv'
<1> USE DEF Steps
<1>0. /\ pc \in [Clients -> Steps]
      /\ c \in Sessions => pc[c] \in {"idle", "in"}
      /\ c \in Tabs => pc[c] \in {"idle", "joining", "in", "leaving"}
      /\ c \in Sessions <=> c \notin Web
  BY PresenceAssumption DEF CountInv, TypeOK, Clients, Web
<1>1. CASE Enter(c) \/ EnterJoin(c)
  <2>1. c \in Web /\ (Go(c, "joining") \/ Go(c, "in"))
    BY <1>1, <1>0 DEF Enter, EnterJoin, Web
  <2>2. c \in Holders' /\ saved' = saved /\ (user' = user \/ user' = Fresh)
    BY <1>1, <1>0, <2>1, Moved DEF Enter, EnterJoin
  <2> QED BY <2>2, FreshUser DEF RestInv
<1>2. CASE Exit(c)
  <2>1. c \in Holders /\ c \notin Sessions
    BY <1>2, <1>0, Places DEF Exit, Web
  <2>2. CASE Go(c, "leaving")
    <3>1. c \in Changing'
      BY <1>0, <2>2, Moved
    <3> QED BY <1>2, <3>1 DEF Exit, RestInv
  <2>3. CASE ~Go(c, "leaving")
    <3>1. ref' # 0
      BY <1>2, <2>3 DEF Exit, Last
    <3>2. CountInv'
      BY CountStep
    <3>3. ref' = Cardinality(Holders')
      BY <3>2 DEF CountInv
    <3>4. Holders' # {}
      BY <3>1, <3>3, FS_EmptySet
    <3> QED BY <1>2, <3>4 DEF Exit, RestInv
  <2> QED BY <2>2, <2>3
<1>3. CASE ExitLeave(c) \/ End(c)
  BY <1>3 DEF ExitLeave, End, RestInv
<1>4. CASE Look(c)
  <2>1. Changing' \cup Holders' \cup OnAir' = Changing \cup Holders \cup OnAir
    BY <1>4, <1>0, Moved, Places DEF Look, Web
  <2> QED BY <1>4, <2>1 DEF Look, RestInv
<1>5. CASE Post(c) \/ SetInfo(c) \/ SetFlags(c)
  <2>1. c \in Web /\ c \notin Sessions /\ c \notin OnAir /\ c \notin Changing
    BY <1>5, <1>0, Places DEF Post, SetInfo, SetFlags, Web
  <2>2. Changing' \cup Holders' \cup OnAir' = Changing \cup Holders \cup OnAir
    <3>1. CASE Entered(c)
      <4>1. c \in Holders /\ \E s \in {"half", "acted"} : Go(c, s)
        BY <1>5, <2>1, <3>1, Places DEF Post, SetInfo, SetFlags, Refuse, Done, Entered
      <4> QED BY <1>0, <2>1, <4>1, Moved
    <3>2. CASE ~Entered(c)
      <4>1. c \notin Holders /\ \E s \in {"idle", "acthalf"} : Go(c, s)
        BY <1>5, <2>1, <3>2, Places DEF Post, SetInfo, SetFlags, Refuse, Done, Entered
      <4> QED BY <1>0, <2>1, <4>1, Moved
    <3> QED BY <3>1, <3>2
  <2>3. (user' = Absent <=> user = Absent) /\ (saved' = saved \/ user # Absent)
    <3>1. user # Absent => user \in Users
      BY DEF CountInv, TypeOK
    <3> QED BY Zenon, <1>5, <3>1, UserSet, PresenceAssumption DEF Post, SetInfo, SetFlags, Refuse
  <2> QED BY <2>2, <2>3 DEF RestInv
<1>6. CASE New(c)
  <2>1. c \in OnAir'
    BY <1>6, <1>0, Moved DEF New
  <2> QED BY <1>6, <2>1, FreshUser DEF New, RestInv
<1> QED BY <1>1, <1>2, <1>3, <1>4, <1>5, <1>6 DEF Step

(* What setting one field does to a user.                                  *)
LEMMA Fields ==
  ASSUME NEW v \in Users, NEW t
  PROVE  /\ [v EXCEPT !.flags = t] = [name |-> v.name, flags |-> t]
         /\ [v EXCEPT !.name = t] = [name |-> t, flags |-> v.flags]
<1>1. [v EXCEPT !.flags = t] = [name |-> v.name, flags |-> t]
  BY DEF Users
<1>2. [v EXCEPT !.name = t] = [name |-> t, flags |-> v.flags]
  BY DEF Users
<1> QED BY <1>1, <1>2

LEMMA Pair ==
  ASSUME NEW a, NEW b
  PROVE  [name |-> a, flags |-> b].name = a /\ [name |-> a, flags |-> b].flags = b
  OBVIOUS

LEMMA Whole ==
  ASSUME NEW v \in Users
  PROVE  /\ [v EXCEPT !.name = TRUE].name = TRUE /\ [v EXCEPT !.flags = TRUE].name = v.name
         /\ v = [name |-> TRUE, flags |-> TRUE] =>
              [v EXCEPT !.name = TRUE] = v /\ [v EXCEPT !.flags = TRUE] = v
         /\ v.name = TRUE => [v EXCEPT !.flags = TRUE] = [name |-> TRUE, flags |-> TRUE]
<1>1. [v EXCEPT !.name = TRUE] = [name |-> TRUE, flags |-> v.flags]
  BY Fields, Zenon
<1>2. [v EXCEPT !.flags = TRUE] = [name |-> v.name, flags |-> TRUE]
  BY Fields, Zenon
<1>3. ASSUME v = [name |-> TRUE, flags |-> TRUE] PROVE v.name = TRUE /\ v.flags = TRUE
  BY <1>3, Pair, Zenon
<1>4. ASSUME v = [name |-> TRUE, flags |-> TRUE]
      PROVE  [v EXCEPT !.name = TRUE] = v /\ [v EXCEPT !.flags = TRUE] = v
  BY <1>1, <1>2, <1>3, <1>4, Zenon
<1>5. v.name = TRUE => [v EXCEPT !.flags = TRUE] = [name |-> TRUE, flags |-> TRUE]
  BY <1>2, Zenon
<1> QED BY <1>1, <1>2, <1>4, <1>5, Pair, Zenon

(* Every step that leaves the count in order leaves all calm.              *)
LEMMA CalmStep ==
  ASSUME PresenceInv, NEW c \in Clients, Step(c)
  PROVE  CalmInv'
<1> SUFFICES ASSUME upset' = FALSE PROVE Calm'
  BY Zenon DEF CalmInv
<1> USE DEF Steps
<1>0. /\ pc \in [Clients -> Steps] /\ user \in Users \cup {Absent} /\ upset \in BOOLEAN
      /\ c \in Sessions => pc[c] \in {"idle", "in"}
      /\ c \in Tabs => pc[c] \in {"idle", "joining", "in", "leaving"}
      /\ c \in Sessions <=> c \notin Web
      /\ Web \subseteq Clients /\ Requests \subseteq Web
      /\ CountInv /\ RestInv
  BY PresenceAssumption DEF PresenceInv, CountInv, TypeOK, Clients, Web
<1>1. Calm
  <2>1. upset = FALSE \/ Active = {}
    BY <1>0 DEF Step, Enter, EnterJoin, Exit, ExitLeave, Look, Post, SetInfo, SetFlags, New, End,
           Refuse, Upset
  <2> QED BY <1>0, <2>1, AtRest DEF PresenceInv, CalmInv
<1>2. ASSUME NEW r \in Requests, pc[r] \in {"half", "acthalf"} PROVE r \in Holders \cup Acting
  BY <1>0, <1>2, Places
<1>3. CASE Enter(c)
  <2>1. Changing = {} /\ OnAir = {}
    BY Zenon, <1>3 DEF Enter, Upset
  <2>2. c \in Web /\ pc[c] \in {"idle", "enter"} /\ (ref = 0 <=> Holders = {})
    BY <1>3, <1>0, NoHolders DEF Enter, Web
  <2>3. Go(c, IF Holders = {} THEN "joining" ELSE "in") /\ UNCHANGED <<user, saved>>
    BY <1>3, <2>2 DEF Enter, First
  <2>4. /\ Holders' = Holders \cup {c} /\ OnAir' = {} /\ Acting' = Acting
        /\ Changing' = (IF Holders = {} THEN {c} ELSE {})
        /\ pc'[c] = (IF Holders = {} THEN "joining" ELSE "in")
        /\ \A r \in Requests : pc'[r] \in {"half", "acthalf"} => pc[r] = pc'[r]
    BY <1>0, <2>1, <2>2, <2>3, Moved, Places
  <2> QED BY <1>1, <2>1, <2>2, <2>3, <2>4
          DEF Calm, AboutToJoin, AboutToLeave, SomeEntered, OneSession
<1>4. CASE EnterJoin(c)
  <2>1. c \in Changing /\ pc[c] = "joining" /\ Go(c, "in") /\ user' = Fresh /\ saved' = saved
    BY <1>4, Places DEF EnterJoin
  <2>2. user = Absent /\ Changing = {c} /\ Holders = {c} /\ OnAir = {} /\ c \in Web
    BY <1>1, <2>1 DEF Calm, AboutToJoin, AboutToLeave, SomeEntered, OneSession
  <2>3. saved = FALSE /\ Acting = {}
    BY <1>0, <1>1, <2>2 DEF RestInv, Calm
  <2>4. /\ Changing' = {} /\ Holders' = {c} /\ OnAir' = {} /\ pc'[c] = "in"
        /\ \A r \in Requests : r # c => pc'[r] = pc[r]
    BY <1>0, <2>1, <2>2, Moved
  <2>5. \A r \in Requests : pc'[r] \notin {"half", "acthalf"}
    BY <1>2, <2>2, <2>3, <2>4
  <2> QED BY <2>1, <2>3, <2>4, <2>5, FreshUser DEF Calm, SomeEntered
<1>5. CASE Exit(c)
  <2>1. Changing = {} /\ OnAir = {} /\ UNCHANGED <<user, saved>>
    BY Zenon, <1>5 DEF Exit, Upset
  <2>2. c \in Web /\ c \in Holders /\ pc[c] \in {"in", "acted"} /\ c \notin Acting
    BY <1>5, <1>0, Places DEF Exit, Web
  <2>3. user # Absent
    BY <1>1, <2>1, <2>2 DEF Calm, AboutToJoin, AboutToLeave, SomeEntered, OneSession
  <2>4. ref' = Cardinality(Holders') /\ (ref' = 0 <=> Holders' = {})
    <3>1. ref' = Cardinality(Holders') /\ Holders' \subseteq Holders
      BY <1>0, <1>5, CountStep, Moved DEF CountInv, Exit
    <3> QED BY <3>1, HoldersFinite, FS_Subset, FS_EmptySet
  <2>5. Go(c, IF Holders' = {} THEN "leaving" ELSE "idle")
    BY <1>5, <2>4 DEF Exit, Last
  <2>6. /\ OnAir' = {} /\ Changing' = (IF Holders' = {} THEN {c} ELSE {})
        /\ pc'[c] = (IF Holders' = {} THEN "leaving" ELSE "idle")
        /\ \A r \in Requests : r # c => pc'[r] = pc[r]
    BY <1>0, <2>1, <2>2, <2>5, Moved
  <2> QED BY <1>1, <2>1, <2>2, <2>3, <2>6 DEF Calm, AboutToLeave, SomeEntered
<1>6. CASE ExitLeave(c)
  <2>1. c \in Changing /\ pc[c] = "leaving" /\ Go(c, "idle") /\ user' = Absent /\ saved' = FALSE
        /\ Acting = {}
    BY Zenon, <1>6, Places DEF ExitLeave, Upset
  <2>2. Changing = {c} /\ Holders = {} /\ OnAir = {}
    BY <1>1, <2>1 DEF Calm, AboutToJoin, AboutToLeave, SomeEntered, OneSession
  <2>3. /\ Changing' = {} /\ Holders' = {} /\ OnAir' = {} /\ Acting' = {} /\ pc'[c] = "idle"
        /\ \A r \in Requests : r # c => pc'[r] = pc[r]
    BY <1>0, <2>1, <2>2, Moved
  <2>4. \A r \in Requests : pc'[r] \notin {"half", "acthalf"}
    BY <1>2, <2>1, <2>2, <2>3
  <2> QED BY <2>1, <2>3, <2>4 DEF Calm
<1>7. ASSUME c \in Requests, pc[c] \notin {"joining", "leaving"}, NEW s \in Steps, Go(c, s),
             pc[c] \in {"in", "half", "acted"} <=> s \in {"half", "acted"},
             s \in {"idle", "enter", "half", "acted", "act", "acthalf"},
             user' = Absent <=> user = Absent,
             user = Absent => s \notin {"half", "acthalf", "act"} /\ saved' = saved,
             saved' = TRUE => user' = [name |-> TRUE, flags |-> TRUE],
             s \in {"half", "acthalf"} => user' # Absent /\ user'.name = TRUE,
             user # Absent /\ user.name = TRUE => user'.name = TRUE
      PROVE  Calm'
  <2>0. /\ c \in Requests /\ pc[c] \notin {"joining", "leaving"} /\ Go(c, s)
        /\ pc[c] \in {"in", "half", "acted"} <=> s \in {"half", "acted"}
        /\ s \in {"idle", "enter", "half", "acted", "act", "acthalf"}
    BY <1>7
  <2>1. c \notin Changing /\ c \notin OnAir /\ c \notin Sessions /\ c \in Web
    BY <1>0, <2>0, Places
  <2>2. Changing' = Changing /\ OnAir' = OnAir
    <3>1. Changing' = Changing \ {c} /\ OnAir' = OnAir \ {c}
      BY <1>0, <2>0, <2>1, Moved
    <3> QED BY <2>1, <3>1
  <2>3. Holders' = Holders
    <3>1. c \in Holders <=> s \in {"half", "acted"}
      BY <2>0, <2>1, Places
    <3>2. Holders' = IF s \in {"half", "acted"} THEN Holders \cup {c} ELSE Holders \ {c}
      BY <1>0, <2>0, <2>1, Moved
    <3> QED BY <3>1, <3>2
  <2>4. user = Absent => Acting' \subseteq Acting
    BY <1>0, <1>7, Moved
  <2>5. pc'[c] = s /\ \A d \in Clients : d # c => pc'[d] = pc[d]
    BY <1>0, <1>7, Moved
  <2>6. \A d \in Web : (AboutToJoin(d) => AboutToJoin(d)') /\ (AboutToLeave(d) => AboutToLeave(d)')
    BY <1>0, <1>7, <2>2, <2>3, <2>5 DEF AboutToJoin, AboutToLeave
  <2>7. (SomeEntered => SomeEntered') /\ (OneSession => OneSession')
    BY <2>2, <2>3 DEF SomeEntered, OneSession
  <2>8. \A r \in Requests : pc'[r] \in {"half", "acthalf"} => user' # Absent /\ user'.name = TRUE
    BY <1>0, <1>1, <1>7, <2>5 DEF Calm
  <2> QED BY <1>1, <1>7, <2>2, <2>3, <2>4, <2>6, <2>7, <2>8 DEF Calm
<1>8. CASE Look(c)
  BY Zenon, <1>0, <1>1, <1>7, <1>8 DEF Look, Calm
<1>9. CASE Post(c)
  BY Zenon, <1>0, <1>1, <1>7, <1>9 DEF Post, Refuse, Done, Entered, Calm
<1>10. CASE SetInfo(c)
  <2>1. CASE Refuse(c)
    BY Zenon, <1>0, <1>1, <1>7, <1>10, <2>1 DEF SetInfo, Refuse, Done, Entered, Calm
  <2>2. CASE ~Refuse(c)
    <3>1. /\ user # Absent /\ user' = [user EXCEPT !.name = TRUE] /\ saved' = saved
          /\ c \in Requests /\ pc[c] \in {"in", "act"}
          /\ Go(c, IF pc[c] = "in" THEN "half" ELSE "acthalf")
      BY <1>10, <2>2 DEF SetInfo, Entered
    <3>2. /\ user' # Absent /\ user'.name = TRUE
          /\ saved = TRUE => user' = [name |-> TRUE, flags |-> TRUE]
      BY <1>0, <1>1, <3>1, Whole, UserSet, PresenceAssumption, Zenon DEF Calm
    <3> QED BY Zenon, <1>7, <3>1, <3>2
  <2> QED BY <2>1, <2>2
<1>11. CASE SetFlags(c)
  <2>1. CASE Refuse(c)
    BY <1>0, <1>1, <1>7, <1>11, <2>1 DEF SetFlags, Refuse, Done, Entered, Calm
  <2>2. CASE ~Refuse(c)
    <3>1. /\ user # Absent /\ user' = [user EXCEPT !.flags = TRUE] /\ saved' = TRUE
          /\ c \in Requests /\ pc[c] \in {"half", "acthalf"}
          /\ Go(c, IF pc[c] = "half" THEN "acted" ELSE "idle")
      BY <1>11, <2>2 DEF SetFlags, Done, Entered
    <3>2. /\ user.name = TRUE /\ user' # Absent /\ user'.name = TRUE
          /\ user' = [name |-> TRUE, flags |-> TRUE]
      <4>1. user.name = TRUE /\ user \in Users
        BY <1>0, <1>1, <3>1 DEF Calm
      <4> QED BY <3>1, <4>1, Whole, UserSet, PresenceAssumption, Zenon
    <3> QED BY Zenon, <1>7, <3>1, <3>2
  <2> QED BY <2>1, <2>2
<1>12. CASE New(c)
  <2>1. Active = {} /\ c \in Sessions /\ Go(c, "in") /\ user' = Fresh /\ saved' = saved
    BY Zenon, <1>12 DEF New, Upset
  <2>2. Changing = {} /\ Holders = {} /\ OnAir = {} /\ Acting = {} /\ saved = FALSE
    BY <1>0, <2>1 DEF Active, RestInv
  <2>3. /\ Changing' = {} /\ Holders' = {} /\ OnAir' = {c} /\ pc'[c] = "in"
        /\ \A r \in Requests : r # c => pc'[r] = pc[r]
    BY Zenon, <1>0, <2>1, <2>2, Moved
  <2>4. \A r \in Requests : pc'[r] \notin {"half", "acthalf"}
    BY <1>2, <2>2, <2>3
  <2> QED BY <2>1, <2>2, <2>3, <2>4, FreshUser DEF Calm, OneSession
<1>13. CASE End(c)
  <2>1. Active = {c} /\ c \in Sessions /\ Go(c, "idle") /\ user' = Absent /\ saved' = FALSE
    BY Zenon, <1>13 DEF End, Upset
  <2>2. c \notin Web /\ Changing \subseteq {c} /\ Holders = {} /\ OnAir \subseteq {c} /\ Acting = {}
    BY <1>0, <2>1, Places DEF Active, Acting, Holders, Web
  <2>3. /\ Changing' = {} /\ Holders' = {} /\ OnAir' = {} /\ Acting' = {} /\ pc'[c] = "idle"
        /\ \A r \in Requests : r # c => pc'[r] = pc[r]
    BY <1>0, <2>1, <2>2, Moved
  <2>4. \A r \in Requests : pc'[r] \notin {"half", "acthalf"}
    BY <1>2, <2>2, <2>3
  <2> QED BY <2>1, <2>3, <2>4 DEF Calm
<1> QED BY <1>3, <1>4, <1>5, <1>6, <1>8, <1>9, <1>10, <1>11, <1>12, <1>13 DEF Step

(* The clients' part of a behaviour is one of Presence, with stuttering.   *)
LEMMA PresencePart == [NextAll]_allVars => [Next]_vars
  BY DEF NextAll, ClaimStep, Resolve, Present, allVars, Next

LEMMA PresenceAlways == SpecAll => []PresenceInv
<1>1. InitAll => PresenceInv
  <2> SUFFICES ASSUME Init PROVE PresenceInv
    BY DEF InitAll
  <2>1. Changing = {} /\ Holders = {} /\ Acting = {} /\ OnAir = {}
    BY DEF Init, Changing, Holders, Acting, OnAir, Clients
  <2>2. CountInv
    BY <2>1, FS_EmptySet DEF Init, CountInv, TypeOK, Clients, Steps
  <2>3. RestInv
    BY <2>1 DEF Init, RestInv
  <2> QED BY <2>1, <2>2, <2>3, AtRest DEF PresenceInv, CalmInv, Active
<1>2. PresenceInv /\ [NextAll]_allVars => PresenceInv'
  <2> SUFFICES ASSUME PresenceInv, [Next]_vars PROVE PresenceInv'
    BY PresencePart
  <2>1. CASE Next
    BY <2>1, CountStep, RestStep, CalmStep DEF Next, PresenceInv
  <2>2. CASE UNCHANGED vars
    BY <2>2 DEF vars, PresenceInv, CountInv, TypeOK, RestInv, CalmInv, Calm, AboutToJoin,
                AboutToLeave, SomeEntered, OneSession, Changing, Holders, Acting, OnAir
  <2> QED BY <2>1, <2>2
<1> QED BY <1>1, <1>2, PTL DEF SpecAll

(* web/presence.go: the count of tabs and requests, with the sessions that *)
(* do not count, leaves no ghost user behind when all of them are gone, in *)
(* any interleaving of their calls.                                        *)
THEOREM NoGhostAtRest == SpecAll => []AbsentAtRest
<1>1. PresenceInv => AbsentAtRest
  BY DEF PresenceInv, RestInv, AbsentAtRest, Active
<1> QED BY <1>1, PresenceAlways, PTL

(* PresentWhileOpen: unless the count missed something, whoever entered    *)
(* (presence.enter) and has not left is in the hub.                        *)
THEOREM PresentWhileCounted == SpecAll => []PresentWhileOpen
<1>1. PresenceInv => PresentWhileOpen
  <2> SUFFICES ASSUME PresenceInv, ~upset, Changing = {}, Holders \cup OnAir # {}
               PROVE  user # Absent
    BY DEF PresentWhileOpen
  <2>1. Calm
    BY DEF PresenceInv, CountInv, TypeOK, CalmInv
  <2> QED BY <2>1, Zenon DEF Calm, AboutToJoin, AboutToLeave
<1> QED BY <1>1, PresenceAlways, PTL

(* SettingsWhole: what settings.set confirmed is there whole.              *)
THEOREM WrittenWhole == SpecAll => []SettingsWhole
<1>1. PresenceInv => SettingsWhole
  BY DEF PresenceInv, CountInv, TypeOK, CalmInv, Calm, SettingsWhole
<1> QED BY <1>1, PresenceAlways, PTL
=============================================================================
