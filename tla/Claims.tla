------------------------------- MODULE Claims -------------------------------
(***************************************************************************)
(* The claim of a callsign by a pdn user: handleClaim (web/claims.go) and  *)
(* Store.Claim (store/sqlite), which makes three statements of it.  Each   *)
(* request has a goroutine of its own, and the statements of others, also  *)
(* of the same user, come in between.  Callsigns are normalised and valid: *)
(* another one is refused before the store is asked.                       *)
(***************************************************************************)
CONSTANTS
  PdnUsers, Calls,
  Posts, By,    \* claim requests, and [Posts -> PdnUsers]
  None          \* no claim

VARIABLES
  claims,   \* the table: user -> callsign or None
  post      \* request -> how far it is, for which callsign, and its answer

vars == <<claims, post>>

Idle == [at |-> "idle", call |-> None, answer |-> None]

TypeOK ==
  /\ claims \in [PdnUsers -> Calls \cup {None}]
  /\ post \in [Posts -> [at: {"idle", "read", "lookup", "write", "done"},
                         call: Calls \cup {None}, answer: {None, "ok", "conflict", "failed"}]]

Init ==
  /\ claims = [p \in PdnUsers |-> None]
  /\ post = [r \in Posts |-> Idle]

HeldByOther(p, c) == \E q \in PdnUsers \ {p} : claims[q] = c

At(r, step)       == post[r].at = step
Goes(r, step)     == post' = [post EXCEPT ![r].at = step]
Answers(r, a)     == post' = [post EXCEPT ![r].at = "done", ![r].answer = a]

handleClaim(r, c) ==
  /\ At(r, "idle")
  /\ post' = [post EXCEPT ![r] = [Idle EXCEPT !.at = "read", !.call = c]]
  /\ UNCHANGED claims

(* ClaimedCall: a claim of one's own current callsign succeeds at once.    *)
ReadOwn(r) ==
  /\ At(r, "read")
  /\ IF claims[By[r]] = post[r].call THEN Answers(r, "ok") ELSE Goes(r, "lookup")
  /\ UNCHANGED claims

(* The lookup of the holder: another one is a conflict.                    *)
Lookup(r) ==
  /\ At(r, "lookup")
  /\ IF HeldByOther(By[r], post[r].call) THEN Answers(r, "conflict") ELSE Goes(r, "write")
  /\ UNCHANGED claims

(* The upsert; the unique index refuses a second holder, which is the      *)
(* conflict again.                                                         *)
UniqueNot(p, c) == FALSE
Unique(p, c)    == HeldByOther(p, c)

RefusedOk(r) == "ok"
Refused(r)   == "conflict"

Upsert(r) ==
  /\ At(r, "write")
  /\ IF Unique(By[r], post[r].call)
       THEN Answers(r, Refused(r)) /\ UNCHANGED claims
       ELSE /\ Answers(r, "ok")
            /\ claims' = [claims EXCEPT ![By[r]] = post[r].call]

(* A statement fails, with no effect.                                      *)
Fails(r) ==
  /\ post[r].at \in {"read", "lookup", "write"}
  /\ Answers(r, "failed")
  /\ UNCHANGED claims

Reply(r) ==
  /\ At(r, "done")
  /\ post' = [post EXCEPT ![r] = Idle]
  /\ UNCHANGED claims

Next ==
  \E r \in Posts :
    \/ \E c \in Calls : handleClaim(r, c)
    \/ ReadOwn(r) \/ Lookup(r) \/ Upsert(r) \/ Fails(r) \/ Reply(r)

Spec == Init /\ [][Next]_vars

Register == INSTANCE ClaimRegister WITH
  asked  <- [r \in Posts |-> post[r].call],
  answer <- [r \in Posts |-> post[r].answer]

(* However the statements of requests come between each other, what the    *)
(* users see is a register that decides each request at one moment.        *)
ClaimsAtomic == Register!Spec
=============================================================================
