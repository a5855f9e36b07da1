---------------------------- MODULE ClaimRegister ---------------------------
(***************************************************************************)
(* What the store promises of claims (web/claims.go, ClaimStore): a map    *)
(* from pdn users to callsigns in which a callsign has one holder.  A      *)
(* request is decided at one moment between the question and the answer:   *)
(* it takes effect and is confirmed, or finds another holder and is told   *)
(* of the conflict, or fails without effect.                               *)
(***************************************************************************)
CONSTANTS PdnUsers, Calls, Posts, By, None

VARIABLES claims, asked, answer

vars == <<claims, asked, answer>>

HeldByOther(p, c) == \E q \in PdnUsers \ {p} : claims[q] = c

Init ==
  /\ claims = [p \in PdnUsers |-> None]
  /\ asked  = [r \in Posts |-> None]
  /\ answer = [r \in Posts |-> None]

Ask(r, c) ==
  /\ asked[r] = None
  /\ asked' = [asked EXCEPT ![r] = c]
  /\ UNCHANGED <<claims, answer>>

Answered(r, a) == answer' = [answer EXCEPT ![r] = a]

Decide(r) ==
  /\ asked[r] # None /\ answer[r] = None
  /\ \/ /\ ~HeldByOther(By[r], asked[r])
        /\ claims' = [claims EXCEPT ![By[r]] = asked[r]]
        /\ Answered(r, "ok")
     \/ /\ HeldByOther(By[r], asked[r])
        /\ Answered(r, "conflict") /\ UNCHANGED claims
     \/ Answered(r, "failed") /\ UNCHANGED claims
  /\ UNCHANGED asked

Reply(r) ==
  /\ answer[r] # None
  /\ asked'  = [asked EXCEPT ![r] = None]
  /\ answer' = [answer EXCEPT ![r] = None]
  /\ UNCHANGED claims

Next == \E r \in Posts : (\E c \in Calls : Ask(r, c)) \/ Decide(r) \/ Reply(r)

Spec == Init /\ [][Next]_vars
=============================================================================
