-------------------------- MODULE FederationProofs --------------------------
(***************************************************************************)
(* Proofs about the two sets every link of the federation consults: the    *)
(* ids already seen (SeenSet), for any ids, goroutines, TTL, delay and     *)
(* clock bound, and the peers let in (AllowList), for any callsigns and    *)
(* any number of edits, failed writes and restarts.                        *)
(***************************************************************************)
EXTENDS SeenSet, AllowList, TLAPS

-----------------------------------------------------------------------------
(* SeenSet: an entry is either the last call's reading plus TTL or has     *)
(* been pruned, which takes a reading at or past that time; a call's       *)
(* reading is at most Delay behind the clock.                              *)

(* A reading is at most Delay old when its goroutine gets the lock.        *)
ReadingsRecent ==
  \A p \in Procs : call[p] # None => call[p].t <= now /\ now <= call[p].t + Delay

(* An entry is the expiry of the last call, and goes only once it is past. *)
EntriesOfLast ==
  \A i \in Ids : IF last[i] = None
                   THEN entries[i] = None /\ fresh[i] = None
                   ELSE /\ entries[i] # None => entries[i] = last[i] + TTL
                        /\ entries[i] = None => now >= last[i] + TTL

(* No later call has a reading more than Delay older than the last one     *)
(* that returned false.                                                    *)
FreshOfLast ==
  \A i \in Ids : fresh[i] # None =>
    last[i] # None /\ fresh[i] <= now /\ fresh[i] <= last[i] + Delay

IInv == TypeOK /\ ReadingsRecent /\ EntriesOfLast /\ FreshOfLast

USE SeenAssumption
-----------------------------------------------------------------------------
LEMMA PrunedOK ==
  ASSUME TypeOK, EntriesOfLast, NEW t \in Nat, t <= now
  PROVE  /\ Pruned(t) \in [Ids -> Nat \cup {None}]
         /\ \A i \in Ids : /\ last[i] = None => Pruned(t)[i] = None
                           /\ last[i] # None /\ Pruned(t)[i] # None =>
                                Pruned(t)[i] = last[i] + TTL /\ t < last[i] + TTL
                           /\ last[i] # None /\ Pruned(t)[i] = None => now >= last[i] + TTL
<1>1. Pruned(t) \in [Ids -> Nat \cup {None}]
  BY DEF Pruned, TypeOK
<1>2. ASSUME NEW i \in Ids
      PROVE  /\ last[i] = None => Pruned(t)[i] = None
             /\ last[i] # None /\ Pruned(t)[i] # None =>
                  Pruned(t)[i] = last[i] + TTL /\ t < last[i] + TTL
             /\ last[i] # None /\ Pruned(t)[i] = None => now >= last[i] + TTL
  <2>1. /\ entries[i] \in Nat \cup {None} /\ last[i] \in Nat \cup {None} /\ now \in Nat
        /\ Pruned(t)[i] = IF entries[i] # None /\ ~(t < entries[i]) THEN None ELSE entries[i]
    BY DEF TypeOK, Pruned
  <2>2. IF last[i] = None
          THEN entries[i] = None
          ELSE /\ entries[i] # None => entries[i] = last[i] + TTL
               /\ entries[i] = None => now >= last[i] + TTL
    BY DEF EntriesOfLast
  <2>3. QED
    BY <2>1, <2>2
<1>3. QED
  BY <1>1, <1>2

LEMMA InitInv == Init => IInv
BY DEF Init, IInv, TypeOK, ReadingsRecent, EntriesOfLast, FreshOfLast

LEMMA TickInv == IInv /\ Tick => IInv'
<1> SUFFICES ASSUME IInv, Tick PROVE IInv'
  OBVIOUS
<1>1. TypeOK'
  BY DEF IInv, TypeOK, Tick
<1>2. ReadingsRecent'
  <2> SUFFICES ASSUME NEW p \in Procs, call[p] # None
               PROVE  call[p].t <= now + 1 /\ now + 1 <= call[p].t + Delay
    BY DEF ReadingsRecent, Tick
  <2>1. call[p].t \in Nat /\ now \in Nat
    BY DEF IInv, TypeOK
  <2>2. call[p].t <= now /\ now < call[p].t + Delay
    BY DEF IInv, ReadingsRecent, Tick
  <2>3. QED
    BY <2>1, <2>2
<1>3. EntriesOfLast' /\ FreshOfLast'
  BY DEF IInv, TypeOK, EntriesOfLast, FreshOfLast, Tick
<1>4. QED
  BY <1>1, <1>2, <1>3 DEF IInv

LEMMA ReadClockInv ==
  ASSUME IInv, NEW p \in Procs, NEW i \in Ids \cup {None}, ReadClock(p, i)
  PROVE  IInv'
<1>1. TypeOK'
  BY DEF IInv, TypeOK, ReadClock
<1>2. ReadingsRecent'
  <2>1. call'[p] = [id |-> i, t |-> now] /\ \A q \in Procs \ {p} : call'[q] = call[q]
    BY DEF IInv, TypeOK, ReadClock
  <2>2. now' = now /\ now \in Nat
    BY DEF IInv, TypeOK, ReadClock
  <2>3. ReadingsRecent
    BY DEF IInv
  <2>4. ASSUME NEW q \in Procs, call'[q] # None
        PROVE  call'[q].t <= now /\ now <= call'[q].t + Delay
    <3>1. CASE q = p
      BY <2>1, <2>2, <3>1
    <3>2. CASE q # p
      BY <2>1, <2>3, <2>4, <3>2 DEF ReadingsRecent
    <3>3. QED
      BY <3>1, <3>2
  <2>5. QED
    BY <2>2, <2>4 DEF ReadingsRecent
<1>3. EntriesOfLast' /\ FreshOfLast'
  BY DEF IInv, EntriesOfLast, FreshOfLast, ReadClock
<1>4. QED
  BY <1>1, <1>2, <1>3 DEF IInv

(* The facts about the critical section that the invariant and the three   *)
(* properties need.                                                        *)
LEMMA SeenFacts ==
  ASSUME IInv, NEW p \in Procs, Seen(p)
  PROVE  /\ call[p].id \in Ids /\ call[p].t \in Nat
         /\ call[p].t <= now /\ now <= call[p].t + Delay
         /\ result'[p] = (Pruned(call[p].t)[call[p].id] # None)
         /\ Pruned(call[p].t) \in [Ids -> Nat \cup {None}]
<1>1. call[p] # None /\ call[p].id # None
  BY DEF Seen
<1>2. call[p].id \in Ids /\ call[p].t \in Nat
  BY <1>1 DEF IInv, TypeOK
<1>3. call[p].t <= now /\ now <= call[p].t + Delay
  BY <1>1 DEF IInv, ReadingsRecent
<1>4. result'[p] = (Pruned(call[p].t)[call[p].id] # None)
  BY DEF Seen, IInv, TypeOK
<1>5. Pruned(call[p].t) \in [Ids -> Nat \cup {None}]
  BY <1>2, <1>3, PrunedOK DEF IInv
<1>6. QED
  BY <1>2, <1>3, <1>4, <1>5

LEMMA SeenInv ==
  ASSUME IInv, NEW p \in Procs, Seen(p)
  PROVE  IInv'
<1> DEFINE i == call[p].id
           t == call[p].t
           pr == Pruned(t)
<1>1. /\ i \in Ids /\ t \in Nat /\ t <= now /\ now <= t + Delay
      /\ pr \in [Ids -> Nat \cup {None}]
  BY SeenFacts
<1>2. /\ entries' = [pr EXCEPT ![i] = t + TTL]
      /\ last' = [last EXCEPT ![i] = t]
      /\ fresh' = fresh \/ fresh' = [fresh EXCEPT ![i] = t]
      /\ pr[i] = None => fresh' = [fresh EXCEPT ![i] = t]
      /\ call' = [call EXCEPT ![p] = None]
      /\ now' = now
  BY DEF Seen, NewExpiry
<1>3. /\ now \in Nat /\ entries \in [Ids -> Nat \cup {None}] /\ last \in [Ids -> Nat \cup {None}]
      /\ fresh \in [Ids -> Nat \cup {None}]
  BY DEF IInv, TypeOK
<1>4. TypeOK'
  <2>1. result' \in [Procs -> BOOLEAN] /\ call' \in [Procs -> [id: Ids \cup {None}, t: Nat] \cup {None}]
    BY DEF Seen, IInv, TypeOK
  <2> HIDE DEF i, t, pr
  <2>2. QED
    BY <1>1, <1>2, <1>3, <2>1 DEF TypeOK
<1>5. ReadingsRecent'
  BY <1>2 DEF IInv, TypeOK, ReadingsRecent
<1>6. \A j \in Ids : /\ last[j] = None => pr[j] = None
                     /\ last[j] # None /\ pr[j] # None => pr[j] = last[j] + TTL
                     /\ last[j] # None /\ pr[j] = None => now >= last[j] + TTL
  BY <1>1, PrunedOK DEF IInv
<1>7. \A j \in Ids : /\ last[j] = None => fresh[j] = None
                     /\ fresh[j] # None =>
                          last[j] # None /\ fresh[j] <= now /\ fresh[j] <= last[j] + Delay
  BY DEF IInv, EntriesOfLast, FreshOfLast
<1> HIDE DEF i, t, pr
<1>8. EntriesOfLast'
  <2> SUFFICES ASSUME NEW j \in Ids
               PROVE  IF last'[j] = None
                        THEN entries'[j] = None /\ fresh'[j] = None
                        ELSE /\ entries'[j] # None => entries'[j] = last'[j] + TTL
                             /\ entries'[j] = None => now >= last'[j] + TTL
    BY <1>2 DEF EntriesOfLast
  <2>1. CASE j = i
    BY <1>1, <1>2, <1>3, <2>1
  <2>2. CASE j # i
    <3>1. entries'[j] = pr[j] /\ last'[j] = last[j] /\ fresh'[j] = fresh[j]
      BY <1>1, <1>2, <1>3, <2>2
    <3>2. QED
      BY <1>6, <1>7, <3>1
  <2>3. QED
    BY <2>1, <2>2
<1>9. FreshOfLast'
  <2> SUFFICES ASSUME NEW j \in Ids, fresh'[j] # None
               PROVE  last'[j] # None /\ fresh'[j] <= now /\ fresh'[j] <= last'[j] + Delay
    BY <1>2 DEF FreshOfLast
  <2>1. CASE j = i
    <3>1. last'[i] = t
      BY <1>1, <1>2, <1>3
    <3>2. fresh'[i] = fresh[i] \/ fresh'[i] = t
      BY <1>1, <1>2, <1>3
    <3>3. CASE fresh'[i] = t
      BY <1>1, <2>1, <3>1, <3>3
    <3>4. CASE fresh'[i] = fresh[i]
      <4>1. fresh[i] \in Nat /\ fresh[i] <= now
        BY <1>1, <1>3, <1>7, <2>1, <3>4
      <4>2. QED
        BY <1>1, <1>3, <2>1, <3>1, <3>4, <4>1
    <3>5. QED
      BY <3>2, <3>3, <3>4
  <2>2. CASE j # i
    <3>1. last'[j] = last[j] /\ fresh'[j] = fresh[j]
      BY <1>1, <1>2, <1>3, <2>2
    <3>2. QED
      BY <1>7, <3>1
  <2>3. QED
    BY <2>1, <2>2
<1>10. QED
  BY <1>4, <1>5, <1>8, <1>9 DEF IInv

LEMMA SeenLenInv ==
  ASSUME IInv, NEW p \in Procs, SeenLen(p)
  PROVE  IInv'
<1> DEFINE t == call[p].t
<1>1. t \in Nat /\ t <= now
  BY DEF IInv, TypeOK, ReadingsRecent, SeenLen
<1>2. /\ entries' = Pruned(t) /\ call' = [call EXCEPT ![p] = None]
      /\ UNCHANGED <<now, result, last, fresh>>
  BY DEF SeenLen
<1>3. /\ Pruned(t) \in [Ids -> Nat \cup {None}]
      /\ \A i \in Ids : /\ last[i] = None => Pruned(t)[i] = None
                        /\ last[i] # None /\ Pruned(t)[i] # None => Pruned(t)[i] = last[i] + TTL
                        /\ last[i] # None /\ Pruned(t)[i] = None => now >= last[i] + TTL
  BY <1>1, PrunedOK DEF IInv
<1> HIDE DEF t
<1>4. TypeOK'
  BY <1>2, <1>3 DEF IInv, TypeOK
<1>5. ReadingsRecent'
  BY <1>2 DEF IInv, TypeOK, ReadingsRecent
<1>6. EntriesOfLast' /\ FreshOfLast'
  BY <1>2, <1>3 DEF IInv, EntriesOfLast, FreshOfLast
<1>7. QED
  BY <1>4, <1>5, <1>6 DEF IInv

LEMMA NextInv == IInv /\ [Next]_vars => IInv'
<1> SUFFICES ASSUME IInv, [Next]_vars PROVE IInv'
  OBVIOUS
<1>1. CASE Tick
  BY <1>1, TickInv
<1>2. ASSUME NEW p \in Procs, NEW i \in Ids \cup {None}, ReadClock(p, i) PROVE IInv'
  BY <1>2, ReadClockInv
<1>3. ASSUME NEW p \in Procs, Seen(p) \/ SeenLen(p) PROVE IInv'
  BY <1>3, SeenInv, SeenLenInv
<1>4. CASE UNCHANGED vars
  BY <1>4 DEF vars, IInv, TypeOK, ReadingsRecent, EntriesOfLast, FreshOfLast
<1>5. QED
  BY <1>1, <1>2, <1>3, <1>4 DEF Next

(* A goroutine's Seen returns only in its own critical section.            *)
LEMMA ReturnsIsSeen ==
  ASSUME IInv, [Next]_vars, NEW p \in Procs, NEW verdict, Returns(p, verdict)
  PROVE  Seen(p)
<1>1. call[p] # None /\ call[p].id # None /\ call'[p] = None
  BY DEF Returns
<1>2. ~Tick /\ ~UNCHANGED vars
  BY <1>1 DEF Tick, vars
<1>3. ASSUME NEW q \in Procs, NEW i \in Ids \cup {None}, ReadClock(q, i) PROVE FALSE
  <2>1. call' = [call EXCEPT ![q] = [id |-> i, t |-> now]] /\ call[q] = None
    BY <1>3 DEF ReadClock
  <2>2. QED
    BY <1>1, <2>1 DEF IInv, TypeOK
<1>4. ASSUME NEW q \in Procs, q # p, Seen(q) \/ SeenLen(q) PROVE FALSE
  <2>1. call' = [call EXCEPT ![q] = None]
    BY <1>4 DEF Seen, SeenLen
  <2>2. QED
    BY <1>1, <1>4, <2>1 DEF IInv, TypeOK
<1>5. ~SeenLen(p)
  BY <1>1 DEF SeenLen
<1>6. QED
  BY <1>2, <1>3, <1>4, <1>5 DEF Next

-----------------------------------------------------------------------------
THEOREM Invariance == Spec => []IInv
BY InitInv, NextInv, PTL DEF Spec

(* Seen suppresses only repeats: true means the id was recorded less than  *)
(* TTL before this call's clock reading, for any number of goroutines.     *)
THEOREM SuppressionIsSound == Spec => SuppressSound
<1>1. ASSUME IInv, [Next]_vars, NEW p \in Procs, Returns(p, TRUE)
      PROVE  last[call[p].id] # None /\ call[p].t < last[call[p].id] + TTL
  <2>1. Seen(p)
    BY <1>1, ReturnsIsSeen
  <2>2. /\ call[p].id \in Ids /\ call[p].t \in Nat /\ call[p].t <= now
        /\ Pruned(call[p].t)[call[p].id] # None
    BY <1>1, <2>1, SeenFacts DEF Returns
  <2>3. QED
    BY <1>1, <2>2, PrunedOK DEF IInv
<1>2. IInv /\ [Next]_vars =>
        [\A p \in Procs : Returns(p, TRUE) =>
           /\ last[call[p].id] # None
           /\ call[p].t < last[call[p].id] + TTL]_vars
  BY <1>1
<1>3. QED
  BY <1>2, Invariance, PTL DEF Spec, SuppressSound

(* An id that keeps arriving is never taken for new: false for a known id  *)
(* means a full TTL has passed since the last call for it.                 *)
THEOREM RefreshKeepsAlive == Spec => StillCirculating
<1>1. ASSUME IInv, [Next]_vars, NEW p \in Procs, Returns(p, FALSE), last[call[p].id] # None
      PROVE  now >= last[call[p].id] + TTL
  <2>1. Seen(p)
    BY <1>1, ReturnsIsSeen
  <2>2. /\ call[p].id \in Ids /\ call[p].t \in Nat /\ call[p].t <= now
        /\ Pruned(call[p].t)[call[p].id] = None
    BY <1>1, <2>1, SeenFacts DEF Returns
  <2>3. QED
    BY <1>1, <2>2, PrunedOK DEF IInv
<1>2. IInv /\ [Next]_vars =>
        [\A p \in Procs : Returns(p, FALSE) /\ last[call[p].id] # None =>
           now >= last[call[p].id] + TTL]_vars
  BY <1>1
<1>3. QED
  BY <1>2, Invariance, PTL DEF Spec, StillCirculating

(* The same id is let through twice only TTL - Delay apart, so a record    *)
(* going round a cycle faster than that is delivered once.                 *)
THEOREM LetThroughOncePerTTL == Spec => FreshFarApart
<1>1. ASSUME IInv, [Next]_vars, NEW p \in Procs, Returns(p, FALSE), fresh[call[p].id] # None
      PROVE  now + Delay >= fresh[call[p].id] + TTL
  <2> DEFINE i == call[p].id
  <2>1. Seen(p)
    BY <1>1, ReturnsIsSeen
  <2>2. /\ i \in Ids /\ call[p].t \in Nat /\ call[p].t <= now
        /\ Pruned(call[p].t)[i] = None
    BY <1>1, <2>1, SeenFacts DEF Returns
  <2>3. last[i] # None /\ fresh[i] <= last[i] + Delay
    BY <1>1, <2>2 DEF IInv, FreshOfLast
  <2>4. now >= last[i] + TTL
    BY <1>1, <2>2, <2>3, PrunedOK DEF IInv
  <2>5. now \in Nat /\ last[i] \in Nat /\ fresh[i] \in Nat
    BY <1>1, <2>2, <2>3 DEF IInv, TypeOK
  <2> HIDE DEF i
  <2>6. now + Delay >= fresh[i] + TTL
    BY <2>3, <2>4, <2>5
  <2>7. QED
    BY <2>6 DEF i
<1>2. IInv /\ [Next]_vars =>
        [\A p \in Procs : Returns(p, FALSE) /\ fresh[call[p].id] # None =>
           now + Delay >= fresh[call[p].id] + TTL]_vars
  BY <1>1
<1>3. QED
  BY <1>2, Invariance, PTL DEF Spec, FreshFarApart

-----------------------------------------------------------------------------
(* AllowList: what is trusted, and what of it is stored.                   *)

(* Whatever is live, read back or stored came from the seed or an edit.    *)
TrustInv ==
  /\ snap \in [Editors -> SUBSET (Seed \cup added)]
  /\ allowed \subseteq Seed \cup added
  /\ stored \subseteq Seed \cup added
  /\ pinned = Dialled

(* A stored value is not the absence of one.                               *)
LEMMA LoadedStored == \A s \in SUBSET Calls : Loaded(s) = s
  BY AllowAssumption DEF Loaded

LEMMA AllowTypes == AllowSpec => []AllowTypeOK
<1>1. AllowInit => AllowTypeOK
  BY AllowAssumption DEF AllowInit, AllowTypeOK, Loaded
<1>2. AllowTypeOK /\ [AllowNext]_allowVars => AllowTypeOK'
  <2> SUFFICES ASSUME AllowTypeOK, [AllowNext]_allowVars PROVE AllowTypeOK'
    OBVIOUS
  <2> USE DEF AllowTypeOK
  <2>1. CASE Restart
    BY <2>1, AllowAssumption, LoadedStored DEF Restart
  <2>2. ASSUME NEW e \in Editors, NEW c \in Calls, NEW b \in BOOLEAN, Begin(e, c, b)
        PROVE  /\ step' \in [Editors -> {"idle", "changed", "read"}] /\ on' \in [Editors -> Calls]
               /\ confirmed' \subseteq Calls /\ torn' \in BOOLEAN /\ UNCHANGED <<stored, snap>>
    BY <2>2 DEF Begin
  <2>3. ASSUME NEW e \in Editors, NEW c \in Calls, Add(e, c) PROVE AllowTypeOK'
    <3>1. (c \notin allowed) \in BOOLEAN
      OBVIOUS
    <3> QED BY <2>2, <2>3, <3>1 DEF Add
  <2>4. ASSUME NEW e \in Editors, NEW c \in Calls, Remove(e, c) PROVE AllowTypeOK'
    <3>1. (c \in allowed) \in BOOLEAN
      OBVIOUS
    <3> QED BY <2>2, <2>4, <3>1 DEF Remove
  <2>5. ASSUME NEW e \in Editors, ReadEntries(e) PROVE AllowTypeOK'
    BY <2>5 DEF ReadEntries, Entries
  <2>6. ASSUME NEW e \in Editors, SetConfig(e) PROVE AllowTypeOK'
    BY <2>6 DEF SetConfig, Answer
  <2>7. ASSUME NEW e \in Editors, SetConfigFails(e) PROVE AllowTypeOK'
    BY <2>7 DEF SetConfigFails, Answer
  <2>8. CASE UNCHANGED allowVars
    BY <2>8 DEF allowVars
  <2> QED BY <2>1, <2>3, <2>4, <2>5, <2>6, <2>7, <2>8 DEF AllowNext
<1> QED BY <1>1, <1>2, PTL DEF AllowSpec

-----------------------------------------------------------------------------
(* The peers we dial stay trusted; everything else that is trusted, or     *)
(* stored, an operator has seeded or added.                                *)
THEOREM TrustComesFromOperators == AllowSpec => []TrustIsOperators
<1>1. AllowInit => TrustInv
  BY DEF AllowInit, TrustInv, Loaded
<1>2. AllowTypeOK /\ TrustInv /\ [AllowNext]_allowVars => TrustInv'
  <2> SUFFICES ASSUME AllowTypeOK, TrustInv, [AllowNext]_allowVars PROVE TrustInv'
    OBVIOUS
  <2> USE DEF TrustInv
  <2>1. CASE Restart
    BY <2>1, LoadedStored DEF Restart, AllowTypeOK
  <2>2. ASSUME NEW e \in Editors, NEW c \in Calls, Add(e, c) PROVE TrustInv'
    BY <2>2 DEF Add, Begin
  <2>3. ASSUME NEW e \in Editors, NEW c \in Calls, Remove(e, c) PROVE TrustInv'
    BY <2>3 DEF Remove, Begin
  <2>4. ASSUME NEW e \in Editors, ReadEntries(e) PROVE TrustInv'
    BY <2>4 DEF ReadEntries, Entries
  <2>5. ASSUME NEW e \in Editors, SetConfig(e) PROVE TrustInv'
    BY <2>5 DEF SetConfig, Answer
  <2>6. ASSUME NEW e \in Editors, SetConfigFails(e) PROVE TrustInv'
    BY <2>6 DEF SetConfigFails, Answer
  <2>7. CASE UNCHANGED allowVars
    BY <2>7 DEF allowVars
  <2> QED BY <2>1, <2>2, <2>3, <2>4, <2>5, <2>6, <2>7 DEF AllowNext
<1>3. TrustInv => TrustIsOperators
  BY DEF TrustInv, TrustIsOperators, Allowed
<1> QED BY <1>1, <1>2, <1>3, AllowTypes, PTL DEF AllowSpec

-----------------------------------------------------------------------------
(* Of an untorn list at most one edit is under way, and the store differs  *)
(* from the live list in the callsign of that edit only, which is not      *)
(* confirmed; what the edit has read back is the live list.                *)
Alone(e)    == \A f \in Editors : step[f] # "idle" => f = e
AllIdle     == \A e \in Editors : step[e] = "idle"
ButFor(e)   == \A c \in Calls : c # on[e] => (c \in stored <=> c \in allowed)

StoreInv ==
  ~torn =>
    /\ AllIdle => stored = allowed
    /\ \A e \in Editors : step[e] # "idle" =>
         /\ Alone(e) /\ ButFor(e) /\ on[e] \notin confirmed
         /\ step[e] = "read" => snap[e] = allowed

LEMMA BeginKeeps ==
  ASSUME AllowTypeOK, StoreInv, NEW e \in Editors, NEW c \in Calls,
         \/ Add(e, c) \/ Remove(e, c)
  PROVE  StoreInv'
<1> SUFFICES ASSUME ~torn' PROVE StoreInv'
  BY DEF StoreInv
<1>1. /\ on' = [on EXCEPT ![e] = c] /\ ~torn /\ AllIdle
      /\ stored' = stored /\ stored = allowed /\ snap' = snap
  BY DEF Add, Remove, Begin, AllIdle, StoreInv
<1>2. CASE allowed' = allowed
  <2>1. step' = [step EXCEPT ![e] = "idle"]
    BY <1>2 DEF Add, Remove, Begin, AllowTypeOK
  <2>2. \A f \in Editors : step'[f] = "idle"
    BY <1>1, <2>1 DEF AllIdle, AllowTypeOK
  <2> QED BY <1>1, <1>2, <2>2 DEF StoreInv
<1>3. CASE allowed' # allowed
  <2>1. /\ step' = [step EXCEPT ![e] = "changed"] /\ confirmed' = confirmed \ {c}
        /\ \A d \in Calls : d # c => (d \in allowed' <=> d \in allowed)
    BY <1>3 DEF Add, Remove, Begin, AllowTypeOK
  <2>2. step'[e] = "changed" /\ \A f \in Editors : f # e => step'[f] = "idle"
    BY <1>1, <2>1 DEF AllIdle, AllowTypeOK
  <2>3. on'[e] = c
    BY <1>1 DEF AllowTypeOK
  <2>4. Alone(e)' /\ ButFor(e)' /\ on'[e] \notin confirmed'
    BY <1>1, <2>1, <2>2, <2>3 DEF Alone, ButFor
  <2>5. ~AllIdle'
    BY <2>2 DEF AllIdle
  <2> QED BY <2>2, <2>4, <2>5 DEF StoreInv
<1> QED BY <1>2, <1>3

(* A callsign whose last edit was confirmed is stored as it is live, until *)
(* edits overlap or a write fails.                                         *)
THEOREM ConfirmedEditsSurvive == AllowSpec => []ConfirmedIsStored
<1>1. AllowInit => StoreInv
  BY DEF AllowInit, StoreInv
<1>2. AllowTypeOK /\ StoreInv /\ [AllowNext]_allowVars => StoreInv'
  <2> SUFFICES ASSUME AllowTypeOK, StoreInv, [AllowNext]_allowVars PROVE StoreInv'
    OBVIOUS
  <2>1. CASE Restart
    BY <2>1, LoadedStored DEF Restart, AllowTypeOK, StoreInv
  <2>2. ASSUME NEW e \in Editors, NEW c \in Calls, Add(e, c) \/ Remove(e, c) PROVE StoreInv'
    BY <2>2, BeginKeeps
  <2>3. ASSUME NEW e \in Editors, ReadEntries(e) PROVE StoreInv'
    BY <2>3 DEF ReadEntries, Entries, StoreInv, Alone, AllIdle, ButFor, AllowTypeOK
  <2>4. ASSUME NEW e \in Editors, SetConfig(e) PROVE StoreInv'
    <3> SUFFICES ASSUME ~torn' PROVE StoreInv'
      BY DEF StoreInv
    <3>1. ~torn /\ step[e] = "read" /\ stored' = snap[e] /\ allowed' = allowed
          /\ step' = [step EXCEPT ![e] = "idle"]
      BY <2>4 DEF SetConfig, Answer
    <3>2. stored' = allowed' /\ \A f \in Editors : step'[f] = "idle"
      BY <3>1 DEF StoreInv, Alone, AllowTypeOK
    <3> QED BY <3>2 DEF StoreInv
  <2>5. ASSUME NEW e \in Editors, SetConfigFails(e) PROVE StoreInv'
    BY <2>5 DEF SetConfigFails, StoreInv
  <2>6. CASE UNCHANGED allowVars
    BY <2>6 DEF allowVars, StoreInv, Alone, AllIdle, ButFor
  <2> QED BY <2>1, <2>2, <2>3, <2>4, <2>5, <2>6 DEF AllowNext
<1>3. AllowTypeOK /\ StoreInv => ConfirmedIsStored
  BY DEF AllowTypeOK, StoreInv, ConfirmedIsStored, AllIdle, ButFor
<1> QED BY <1>1, <1>2, <1>3, AllowTypes, PTL DEF AllowSpec
=============================================================================
