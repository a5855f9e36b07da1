------------------------------ MODULE SeenSet ------------------------------
(***************************************************************************)
(* chat.SeenSet (internal/chat/seen.go): the content-id de-duplication set *)
(* with a time to live, called by the hub for its own messages and by the  *)
(* goroutine of every peer link for the records it receives.               *)
(*                                                                         *)
(* Seen reads the clock BEFORE it takes s.mu, so a call is two steps and a *)
(* goroutine may enter the critical section with an old reading.  Delay is *)
(* the longest time between the two: scheduling and waiting for s.mu.      *)
(***************************************************************************)
EXTENDS Naturals

CONSTANTS
  Ids,       \* synthetic ids
  Procs,     \* goroutines
  TTL,       \* ticks an id is remembered
  Delay,     \* longest wait between the clock reading and the lock
  MaxClock,  \* where the clock stops (bound of the model)
  None       \* no id (a Len call), no reading, no call

ASSUME SeenAssumption ==
  /\ TTL \in Nat \ {0} /\ Delay \in Nat /\ MaxClock \in Nat
  /\ None \notin Ids /\ None \notin Nat

VARIABLES
  now,      \* the clock
  entries,  \* id -> expiry, None when it is not in the map
  call,     \* goroutine -> the call it is in: [id, t], t the reading; or None
  result,   \* goroutine -> what its last Seen returned
  last,     \* id -> the reading of the last Seen for it
  fresh     \* id -> the reading of the last Seen for it that returned false

vars == <<now, entries, call, result, last, fresh>>

TypeOK ==
  /\ now \in Nat
  /\ entries \in [Ids -> Nat \cup {None}]
  /\ call \in [Procs -> [id: Ids \cup {None}, t: Nat] \cup {None}]
  /\ result \in [Procs -> BOOLEAN]
  /\ last \in [Ids -> Nat \cup {None}]
  /\ fresh \in [Ids -> Nat \cup {None}]

Init ==
  /\ now = 0
  /\ entries = [i \in Ids |-> None]
  /\ call = [p \in Procs |-> None]
  /\ result = [p \in Procs |-> FALSE]
  /\ last = [i \in Ids |-> None]
  /\ fresh = [i \in Ids |-> None]

Tick ==
  /\ now < MaxClock
  /\ \A p \in Procs : call[p] # None => now < call[p].t + Delay
  /\ now' = now + 1
  /\ UNCHANGED <<entries, call, result, last, fresh>>

(* now := s.clock()                                                        *)
ReadClock(p, i) ==
  /\ call[p] = None
  /\ call' = [call EXCEPT ![p] = [id |-> i, t |-> now]]
  /\ UNCHANGED <<now, entries, result, last, fresh>>

(* Faulty variants of the definitions below, kept to show that the         *)
(* properties catch them.                                                  *)
PrunedNever(t) == entries
PrunedEarly(t) ==
  [i \in Ids |-> IF entries[i] # None /\ ~(t + 1 < entries[i]) THEN None ELSE entries[i]]

Pruned(t) ==
  [i \in Ids |-> IF entries[i] # None /\ ~(t < entries[i]) THEN None ELSE entries[i]]

NewExpiryNoRefresh(i, t, hit) == IF hit THEN entries[i] ELSE t + TTL

(* A new id and a repeated one get the same expiry: a repeat refreshes it. *)
NewExpiry(i, t, hit) == t + TTL

(* The critical section: prune, look up, record or refresh.                *)
Seen(p) ==
  LET i   == call[p].id
      t   == call[p].t
      hit == Pruned(t)[i] # None
  IN  /\ call[p] # None /\ i # None
      /\ entries' = [Pruned(t) EXCEPT ![i] = NewExpiry(i, t, hit)]
      /\ result'  = [result EXCEPT ![p] = hit]
      /\ last'    = [last EXCEPT ![i] = t]
      /\ fresh'   = IF hit THEN fresh ELSE [fresh EXCEPT ![i] = t]
      /\ call'    = [call EXCEPT ![p] = None]
      /\ UNCHANGED now

(* Len prunes as well.                                                     *)
SeenLen(p) ==
  /\ call[p] # None /\ call[p].id = None
  /\ entries' = Pruned(call[p].t)
  /\ call'    = [call EXCEPT ![p] = None]
  /\ UNCHANGED <<now, result, last, fresh>>

Next ==
  \/ Tick
  \/ \E p \in Procs : \/ \E i \in Ids \cup {None} : ReadClock(p, i)
                      \/ Seen(p)
                      \/ SeenLen(p)

Spec == Init /\ [][Next]_vars

-----------------------------------------------------------------------------
(* p's Seen returns in this step, with the given verdict.                  *)
Returns(p, verdict) ==
  /\ call[p] # None /\ call[p].id # None /\ call'[p] = None
  /\ result'[p] = verdict

(* A record is suppressed only as a repeat: Seen returns true only for an  *)
(* id recorded before, less than TTL before the reading of this call.      *)
SuppressSound ==
  [][\A p \in Procs : Returns(p, TRUE) =>
       /\ last[call[p].id] # None
       /\ call[p].t < last[call[p].id] + TTL]_vars

(* The refresh "keep[s] a still-circulating id alive" (seen.go:50): Seen    *)
(* returns false for a known id only TTL after the last call for it,       *)
(* whatever other goroutines pruned in between.                            *)
StillCirculating ==
  [][\A p \in Procs : Returns(p, FALSE) /\ last[call[p].id] # None =>
       now >= last[call[p].id] + TTL]_vars

(* An id is let through twice only TTL apart, less the time a goroutine    *)
(* may hold an old reading: a late call sets the expiry back to its own    *)
(* reading, so the slack is real.                                          *)
FreshFarApart ==
  [][\A p \in Procs : Returns(p, FALSE) /\ fresh[call[p].id] # None =>
       now + Delay >= fresh[call[p].id] + TTL]_vars
=============================================================================
