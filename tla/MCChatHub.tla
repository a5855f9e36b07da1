---------------------------- MODULE MCChatHub ----------------------------
(* ChatHub with the topic names of the run ("dx" and "DX" are one topic),  *)
(* at most MaxCalls calls, and a record of whether two goroutines have     *)
(* ever had events of the same user waiting to be emitted.                 *)
EXTENDS ChatHub, TLC

CONSTANT MaxCalls

VARIABLES calls, crossed

MCNames     == {"General", "DX", "dx"}
MCTopicKeys == {"general", "dx"}
MCnormTopicKey == [n \in MCNames |-> IF n = "General" THEN "general" ELSE "dx"]

UserEventsOf(p) == {pend[p].events[i].key : i \in
                     {j \in DOMAIN pend[p].events : "key" \in DOMAIN pend[p].events[j]}}

Crossing == \E p, q \in Procs : p # q /\ UserEventsOf(p) \cap UserEventsOf(q) # {}

Symmetry == Permutations(Procs) \cup Permutations(Calls)

MCInit == Init /\ calls = 0 /\ crossed = FALSE

MCNext ==
  /\ \/ \E p \in Procs : \/ calls < MaxCalls /\ Call(p) /\ calls' = calls + 1
                         \/ (Save(p) \/ Emit(p)) /\ UNCHANGED calls
     \/ /\ \E s \in Subs : Subscribe(s) \/ Snapshot(s) \/ Receive(s) \/ Cancel(s)
        /\ UNCHANGED calls
  /\ crossed' = (crossed \/ Crossing')

MCSpec == MCInit /\ [][MCNext]_<<vars, calls, crossed>>

(* A subscriber that lost nothing and has caught up believes exactly what  *)
(* the hub holds: it subscribes before it takes its snapshot, so that no   *)
(* change falls between.  That needs the calls about one user not to       *)
(* overlap: events are emitted after h.mu is released (hub.go:141), so two *)
(* of them may come out in the other order.                                *)
StreamAgrees ==
  ~crossed => \A s \in Subs : CaughtUp(s) => view[s] = UsersNow
=============================================================================
