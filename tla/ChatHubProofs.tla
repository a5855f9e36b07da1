--------------------------- MODULE ChatHubProofs ---------------------------
(***************************************************************************)
(* Proofs about ChatHub, for any sets of calls, nodes, topic names,        *)
(* goroutines and subscribers and any channel capacity: the users, topics  *)
(* and member sets, the messages a subscriber gets, and what it believes   *)
(* of the users (that one of MCChatHub, for any number of calls).          *)
(***************************************************************************)
EXTENDS MCChatHub, TLAPS

(* What a goroutine has left to do: a single message while it saves, and   *)
(* at least one event while it emits.                                      *)
PendShape ==
  \A p \in Procs :
    /\ pend[p].stage = "save" => \E e \in Events : IsMessage(e) /\ pend[p].events = <<e>>
    /\ pend[p].stage = "emit" => pend[p].events # <<>>

(* The ids of the messages in a sequence of events.                        *)
IDs(q) == {q[i].id : i \in {j \in DOMAIN q : IsMessage(q[j])}}

(* Nothing reaches a consumer unsaved.                                     *)
OnlySaved ==
  /\ \A p \in Procs : pend[p].stage = "emit" => IDs(pend[p].events) \subseteq store
  /\ \A s \in Subs : IDs(queue[s]) \subseteq store /\ got[s] \subseteq store

(* A saved message is with the consumer, in its channel, or still being    *)
(* emitted by the goroutine that saved it.                                 *)
NothingMissed ==
  \A s \in Subs : sub[s] = "live" /\ ~lost[s] =>
    \A m \in store : \/ m \in got[s]
                     \/ m \in IDs(queue[s])
                     \/ \E p \in Procs : pend[p].stage = "emit" /\ m \in IDs(pend[p].events)

MapInv == NamesFold /\ UserInItsTopic
MsgInv == OnlySaved /\ NothingMissed
IInv   == TypeOK /\ PendShape /\ MapInv /\ MsgInv

USE HubAssumption
-----------------------------------------------------------------------------
(* Finitely many users are learned via a node, so an order of them is a    *)
(* sequence (the UserLeft events of UnlinkNode).                           *)
LEMMA OrderIsSeq ==
  ASSUME NEW S \in SUBSET Keys, NEW order \in Orders(S)
  PROVE  order \in Seq(S)
<1>1. PICK n \in 0..Cardinality(S) : order \in [1..n -> S]
  BY DEF Orders, Bijection, Injection
<1>2. n \in Nat
  OBVIOUS
<1>3. QED
  BY <1>1, <1>2

-----------------------------------------------------------------------------
(* A call that starts on an idle goroutine keeps the types of pend and its *)
(* shape when the work it leaves is well formed.                           *)
WorkOK(w) ==
  /\ w \in [stage: {"idle", "save", "emit"}, events: Seq(Events)]
  /\ w.stage = "save" => \E e \in Events : IsMessage(e) /\ w.events = <<e>>
  /\ w.stage = "emit" => w.events # <<>>

LEMMA StartsOK ==
  ASSUME TypeOK, PendShape, NEW p \in Procs, NEW w, WorkOK(w), Starts(p, w)
  PROVE  /\ pend' \in [Procs -> [stage: {"idle", "save", "emit"}, events: Seq(Events)]]
         /\ PendShape'
BY DEF TypeOK, PendShape, WorkOK, Starts

(* A presence or node event alone is well-formed work without messages.    *)
LEMMA EmittingOK ==
  ASSUME NEW e \in Events, ~IsMessage(e)
  PROVE  WorkOK(Emitting(<<e>>)) /\ IDs(Emitting(<<e>>).events) = {}
BY DEF WorkOK, Emitting, IDs

LEMMA SavingOK ==
  ASSUME NEW e \in Events, IsMessage(e)
  PROVE  WorkOK(Saving(e)) /\ Saving(e).stage = "save"
BY DEF WorkOK, Saving

LEMMA UserEventOK ==
  ASSUME NEW k \in Keys, NEW u \in Users,
         NEW type \in {"UserJoined", "UserLeft", "TopicChanged", "UserInfoChanged"}
  PROVE  UserEvent(type, k, u) \in Events /\ ~IsMessage(UserEvent(type, k, u))
BY DEF UserEvent, Events, Users, IsMessage

(* Starting a call whose work emits no message disturbs neither half of    *)
(* the message invariant.                                                  *)
LEMMA StartsMsgInv ==
  ASSUME TypeOK, MsgInv, NEW p \in Procs, NEW w, Starts(p, w),
         w.stage = "emit" => IDs(w.events) = {},
         UNCHANGED <<store, subVars>>
  PROVE  MsgInv'
<1>1. pend[p].stage = "idle" /\ pend' = [pend EXCEPT ![p] = w]
  BY DEF Starts
<1>2. pend \in [Procs -> [stage: {"idle", "save", "emit"}, events: Seq(Events)]]
  BY DEF TypeOK
<1>3. UNCHANGED <<store, sub, queue, got, lost>>
  BY DEF subVars
<1>4. OnlySaved'
  <2>1. ASSUME NEW q \in Procs, pend'[q].stage = "emit"
        PROVE  IDs(pend'[q].events) \subseteq store
    BY <1>1, <1>2, <2>1 DEF MsgInv, OnlySaved
  <2>2. QED
    BY <1>3, <2>1 DEF MsgInv, OnlySaved
<1>5. NothingMissed'
  <2> SUFFICES ASSUME NEW s \in Subs, sub[s] = "live", ~lost[s], NEW m \in store,
                      m \notin got[s], m \notin IDs(queue[s])
               PROVE  \E q \in Procs : pend'[q].stage = "emit" /\ m \in IDs(pend'[q].events)
    BY <1>3 DEF NothingMissed
  <2>1. PICK q \in Procs : pend[q].stage = "emit" /\ m \in IDs(pend[q].events)
    BY DEF MsgInv, NothingMissed
  <2>2. q # p /\ pend'[q] = pend[q]
    BY <1>1, <1>2, <2>1
  <2>3. QED
    BY <2>1, <2>2
<1>6. QED
  BY <1>4, <1>5 DEF MsgInv

(* Canon gives a name that folds to the same key, and is the topic's name. *)
LEMMA CanonOK ==
  ASSUME TypeOK, NamesFold, NEW name \in Names
  PROVE  /\ Canon(name) \in Names
         /\ normTopicKey[Canon(name)] = normTopicKey[name]
BY DEF TypeOK, NamesFold, Canon

-----------------------------------------------------------------------------
(* One lemma per operation: it keeps the inductive invariant.              *)

LEMMA JoinInv ==
  ASSUME IInv, NEW p \in Procs, NEW k \in Keys, NEW l \in LinksOf(k), NEW i \in Infos,
         Join(p, k, l, i)
  PROVE  IInv'
<1> DEFINE u == [topic |-> Canon(DefaultTopic), link |-> l, info |-> i, flags |-> NoFlags]
<1>0. TypeOK /\ PendShape /\ NamesFold /\ UserInItsTopic /\ MsgInv
  BY DEF IInv, MapInv
<1>1. /\ Canon(DefaultTopic) \in Names
      /\ normTopicKey[Canon(DefaultTopic)] = normTopicKey[DefaultTopic]
  BY <1>0, CanonOK
<1>2. u \in Users
  BY <1>1 DEF Users, LinksOf
<1>3. /\ Starts(p, Emitting(<<UserEvent("UserJoined", k, u)>>))
      /\ users'  = [users EXCEPT ![k] = u]
      /\ member' = [member EXCEPT ![normTopicKey[DefaultTopic]] = @ \cup {k}]
      /\ topics' = [topics EXCEPT ![normTopicKey[DefaultTopic]] = Canon(DefaultTopic)]
      /\ UNCHANGED <<nodes, store, subMu, sub, queue, view, got, lost>>
  BY <1>1 DEF Join, EnsureTopic, subVars
<1>4. /\ WorkOK(Emitting(<<UserEvent("UserJoined", k, u)>>))
      /\ IDs(Emitting(<<UserEvent("UserJoined", k, u)>>).events) = {}
  BY <1>2, UserEventOK, EmittingOK
<1>5. TypeOK' /\ PendShape'
  <2>1. /\ pend' \in [Procs -> [stage: {"idle", "save", "emit"}, events: Seq(Events)]]
        /\ PendShape'
    BY <1>0, <1>3, <1>4, StartsOK
  <2>2. QED
    BY <1>0, <1>1, <1>2, <1>3, <2>1 DEF TypeOK
<1>6. MsgInv'
  BY <1>0, <1>3, <1>4, StartsMsgInv DEF subVars
<1>7. NamesFold'
  BY <1>0, <1>1, <1>3 DEF NamesFold, TypeOK
<1>8. UserInItsTopic'
  <2> SUFFICES ASSUME NEW j \in Keys, users'[j] # Null
               PROVE  /\ topics'[normTopicKey[users'[j].topic]] = users'[j].topic
                      /\ j \in member'[normTopicKey[users'[j].topic]]
    BY DEF UserInItsTopic, Present
  <2>1. CASE j = k
    BY <1>0, <1>1, <1>3, <2>1 DEF TypeOK
  <2>2. CASE j # k
    <3>1. /\ users'[j] = users[j] /\ users[j] \in Users
          /\ topics[normTopicKey[users[j].topic]] = users[j].topic
          /\ j \in member[normTopicKey[users[j].topic]]
      BY <1>0, <1>3, <2>2 DEF TypeOK, UserInItsTopic, Present
    <3>2. users[j].topic \in Names /\ users[j].topic # Null
      BY <3>1 DEF Users
    <3>3. normTopicKey[users[j].topic] = normTopicKey[DefaultTopic]
            => Canon(DefaultTopic) = users[j].topic
      BY <3>1, <3>2 DEF Canon
    <3>4. QED
      BY <1>0, <1>3, <3>1, <3>2, <3>3 DEF TypeOK
  <2>3. QED
    BY <2>1, <2>2
<1>9. QED
  BY <1>5, <1>6, <1>7, <1>8 DEF IInv, MapInv

LEMMA LeaveInv ==
  ASSUME IInv, NEW p \in Procs, NEW k \in Keys, Leave(p, k)
  PROVE  IInv'
<1>0. TypeOK /\ PendShape /\ NamesFold /\ UserInItsTopic /\ MsgInv
  BY DEF IInv, MapInv
<1>1. users[k] \in Users /\ users[k].topic \in Names
  BY <1>0 DEF Leave, Present, TypeOK, Users
<1>2. /\ WorkOK(Emitting(<<UserEvent("UserLeft", k, users[k])>>))
      /\ IDs(Emitting(<<UserEvent("UserLeft", k, users[k])>>).events) = {}
  BY <1>1, UserEventOK, EmittingOK
<1>3. TypeOK' /\ PendShape'
  <2>1. /\ pend' \in [Procs -> [stage: {"idle", "save", "emit"}, events: Seq(Events)]]
        /\ PendShape'
    BY <1>0, <1>2, StartsOK DEF Leave
  <2>2. QED
    BY <1>0, <1>1, <2>1 DEF TypeOK, Leave, MembersWithout, subVars
<1>4. MsgInv'
  BY <1>0, <1>2, StartsMsgInv DEF Leave
<1>5. NamesFold'
  BY <1>0 DEF NamesFold, Leave
<1>6. UserInItsTopic'
  BY <1>0, <1>1 DEF UserInItsTopic, Leave, MembersWithout, Present, TypeOK
<1>7. QED
  BY <1>3, <1>4, <1>5, <1>6 DEF IInv, MapInv

LEMMA SetTopicInv ==
  ASSUME IInv, NEW p \in Procs, NEW k \in Keys, NEW name \in Names, SetTopic(p, k, name)
  PROVE  IInv'
<1> DEFINE from == normTopicKey[users[k].topic]
           to   == normTopicKey[name]
           u    == [users[k] EXCEPT !.topic = Canon(name)]
<1>0. TypeOK /\ PendShape /\ NamesFold /\ UserInItsTopic /\ MsgInv
  BY DEF IInv, MapInv
<1>1. Canon(name) \in Names /\ normTopicKey[Canon(name)] = to
  BY <1>0, CanonOK
<1>2. users[k] \in Users /\ users[k].topic \in Names /\ u \in Users /\ u.topic = Canon(name)
  <2>1. users[k] \in Users
    BY <1>0 DEF SetTopic, Present, TypeOK
  <2>2. QED
    BY <1>1, <2>1 DEF Users
<1>3. /\ Starts(p, Emitting(<<UserEvent("TopicChanged", k, u)>>))
      /\ users'  = [users EXCEPT ![k] = u]
      /\ member' = [member EXCEPT ![from] = @ \ {k}, ![to] = @ \cup {k}]
      /\ topics' = [topics EXCEPT ![to] = Canon(name)]
      /\ from # to
      /\ UNCHANGED <<nodes, store, subMu, sub, queue, view, got, lost>>
  BY DEF SetTopic, EnsureTopic, subVars
<1>4. /\ WorkOK(Emitting(<<UserEvent("TopicChanged", k, u)>>))
      /\ IDs(Emitting(<<UserEvent("TopicChanged", k, u)>>).events) = {}
  BY <1>2, UserEventOK, EmittingOK
<1>5. TypeOK' /\ PendShape'
  <2>1. /\ pend' \in [Procs -> [stage: {"idle", "save", "emit"}, events: Seq(Events)]]
        /\ PendShape'
    BY <1>0, <1>3, <1>4, StartsOK
  <2>2. QED
    BY Zenon, <1>0, <1>1, <1>2, <1>3, <2>1 DEF TypeOK
<1>6. MsgInv'
  BY <1>0, <1>3, <1>4, StartsMsgInv DEF subVars
<1>7. NamesFold'
  BY <1>0, <1>1, <1>3 DEF NamesFold, TypeOK
<1>8. UserInItsTopic'
  <2> SUFFICES ASSUME NEW j \in Keys, users'[j] # Null
               PROVE  /\ topics'[normTopicKey[users'[j].topic]] = users'[j].topic
                      /\ j \in member'[normTopicKey[users'[j].topic]]
    BY DEF UserInItsTopic, Present
  <2>1. CASE j = k
    <3>1. users'[j] = u
      BY <1>0, <1>3, <2>1 DEF TypeOK
    <3>2. to \in TopicKeys /\ k \in member'[to] /\ topics'[to] = Canon(name)
      BY <1>0, <1>3 DEF TypeOK
    <3>3. QED
      BY <1>1, <1>2, <2>1, <3>1, <3>2
  <2>2. CASE j # k
    <3>1. /\ users'[j] = users[j] /\ users[j] \in Users
          /\ topics[normTopicKey[users[j].topic]] = users[j].topic
          /\ j \in member[normTopicKey[users[j].topic]]
      BY <1>0, <1>3, <2>2 DEF TypeOK, UserInItsTopic, Present
    <3>2. users[j].topic \in Names /\ users[j].topic # Null
      BY <3>1 DEF Users
    <3>3. normTopicKey[users[j].topic] = to => Canon(name) = users[j].topic
      BY <3>1, <3>2 DEF Canon
    <3>4. j \in member'[normTopicKey[users[j].topic]]
      <4>1. member \in [TopicKeys -> SUBSET Keys] /\ from \in TopicKeys /\ to \in TopicKeys
        BY <1>0, <1>2 DEF TypeOK
      <4>2. \A t \in TopicKeys : j \in member[t] => j \in member'[t]
        <5> HIDE DEF from, to
        <5> QED BY <1>3, <2>2, <4>1
      <4>3. QED
        BY <3>1, <3>2, <4>2
    <3>5. QED
      BY <1>0, <1>3, <3>1, <3>2, <3>3, <3>4 DEF TypeOK
  <2>3. QED
    BY <2>1, <2>2
<1>9. QED
  BY <1>5, <1>6, <1>7, <1>8 DEF IInv, MapInv

(* SetInfo and SetFlags replace a field that no part of MapInv reads.      *)
LEMMA SetInfoInv ==
  ASSUME IInv, NEW p \in Procs, NEW k \in Keys,
         \/ \E i \in Infos : SetInfo(p, k, i)
         \/ \E f \in FlagSets : SetFlags(p, k, f)
  PROVE  IInv'
<1>0. TypeOK /\ PendShape /\ NamesFold /\ UserInItsTopic /\ MsgInv
  BY DEF IInv, MapInv
<1>1. users[k] \in Users
  BY <1>0 DEF SetInfo, SetFlags, Present, TypeOK
<1>2. /\ Starts(p, Emitting(<<UserEvent("UserInfoChanged", k, users[k])>>))
      /\ UNCHANGED <<topics, member, nodes, store, subMu, sub, queue, view, got, lost>>
  BY DEF SetInfo, SetFlags, subVars
<1>3. PICK u \in Users : users' = [users EXCEPT ![k] = u] /\ u.topic = users[k].topic
  <2>1. CASE \E i \in Infos : SetInfo(p, k, i)
    <3>1. PICK i \in Infos : users' = [users EXCEPT ![k].info = i]
      BY Zenon, <2>1 DEF SetInfo
    <3>2. [users[k] EXCEPT !.info = i] \in Users /\ [users[k] EXCEPT !.info = i].topic = users[k].topic
      BY <1>1 DEF Users
    <3>3. QED
      BY Zenon, <1>0, <3>1, <3>2 DEF TypeOK
  <2>2. CASE \E f \in FlagSets : SetFlags(p, k, f)
    <3>1. PICK f \in FlagSets : users' = [users EXCEPT ![k].flags = f]
      BY <2>2 DEF SetFlags
    <3>2. [users[k] EXCEPT !.flags = f] \in Users /\ [users[k] EXCEPT !.flags = f].topic = users[k].topic
      BY <1>1 DEF Users
    <3>3. QED
      BY Zenon, <1>0, <3>1, <3>2 DEF TypeOK
  <2>3. QED
    BY <2>1, <2>2
<1>4. /\ WorkOK(Emitting(<<UserEvent("UserInfoChanged", k, users[k])>>))
      /\ IDs(Emitting(<<UserEvent("UserInfoChanged", k, users[k])>>).events) = {}
  BY <1>1, UserEventOK, EmittingOK
<1>5. TypeOK' /\ PendShape'
  <2>1. /\ pend' \in [Procs -> [stage: {"idle", "save", "emit"}, events: Seq(Events)]]
        /\ PendShape'
    BY <1>0, <1>2, <1>4, StartsOK
  <2>2. QED
    BY Zenon, <1>0, <1>2, <1>3, <2>1 DEF TypeOK
<1>6. MsgInv'
  BY <1>0, <1>2, <1>4, StartsMsgInv DEF subVars
<1>7. NamesFold'
  BY <1>0, <1>2 DEF NamesFold
<1>8. UserInItsTopic'
  <2>1. Present(k)
    BY DEF SetInfo, SetFlags
  <2>2. QED
    BY <1>0, <1>2, <1>3, <2>1 DEF UserInItsTopic, Present, TypeOK
<1>9. QED
  BY <1>5, <1>6, <1>7, <1>8 DEF IInv, MapInv

(* Post and Private change nothing but what the caller has left to do.     *)
LEMMA PostInv ==
  ASSUME IInv, NEW p \in Procs, NEW k \in Keys, NEW text \in Texts,
         Post(p, k, text) \/ \E to \in Calls : Private(p, k, to, text)
  PROVE  IInv'
<1>0. TypeOK /\ PendShape /\ NamesFold /\ UserInItsTopic /\ MsgInv
  BY DEF IInv, MapInv
<1>1. UNCHANGED <<users, topics, member, nodes, store, subMu, sub, queue, view, got, lost>>
  BY Zenon DEF Post, Private, mapVars, subVars
<1>2. PICK e \in Events : IsMessage(e) /\ Starts(p, Saving(e))
  <2>1. CASE Post(p, k, text)
    <3>1. users[k].topic \in Names
      BY <1>0, <2>1 DEF Post, Present, TypeOK, Users
    <3>2. SynthID(k, "topic", normTopicKey[users[k].topic], text) \in MessageIDs
      BY <3>1 DEF SynthID, MessageIDs
    <3>3. QED
      BY <2>1, <3>2 DEF Post, Events, IsMessage
  <2>2. ASSUME NEW to \in Calls, Private(p, k, to, text)
        PROVE  \E e \in Events : IsMessage(e) /\ Starts(p, Saving(e))
    <3>1. SynthID(k, "private", to, text) \in MessageIDs
      BY DEF SynthID, MessageIDs
    <3>2. QED
      BY <2>2, <3>1 DEF Private, Events, IsMessage
  <2>3. QED
    BY <2>1, <2>2
<1>3. WorkOK(Saving(e)) /\ Saving(e).stage = "save"
  BY Zenon, <1>2, SavingOK
<1>4. TypeOK' /\ PendShape'
  <2>1. /\ pend' \in [Procs -> [stage: {"idle", "save", "emit"}, events: Seq(Events)]]
        /\ PendShape'
    BY <1>0, <1>2, <1>3, StartsOK
  <2>2. QED
    BY <1>0, <1>1, <2>1 DEF TypeOK
<1>5. MsgInv'
  BY Zenon, <1>0, <1>1, <1>2, <1>3, StartsMsgInv DEF subVars
<1>6. QED
  BY <1>0, <1>1, <1>4, <1>5 DEF IInv, MapInv, NamesFold, UserInItsTopic, Present

LEMMA LinkNodeInv ==
  ASSUME IInv, NEW p \in Procs, NEW n \in Nodes, LinkNode(p, n)
  PROVE  IInv'
<1> DEFINE e == [type |-> "NodeLinked", node |-> n]
<1>0. TypeOK /\ PendShape /\ NamesFold /\ UserInItsTopic /\ MsgInv
  BY DEF IInv, MapInv
<1>1. e \in Events /\ ~IsMessage(e)
  BY DEF Events, IsMessage
<1>2. WorkOK(Emitting(<<e>>)) /\ IDs(Emitting(<<e>>).events) = {}
  BY <1>1, EmittingOK
<1>3. TypeOK' /\ PendShape'
  <2>1. /\ pend' \in [Procs -> [stage: {"idle", "save", "emit"}, events: Seq(Events)]]
        /\ PendShape'
    BY Zenon, <1>0, <1>2, StartsOK DEF LinkNode
  <2>2. QED
    BY <1>0, <2>1 DEF TypeOK, LinkNode, subVars
<1>4. MsgInv'
  BY <1>0, <1>2, StartsMsgInv DEF LinkNode
<1>5. QED
  BY <1>0, <1>3, <1>4 DEF IInv, MapInv, NamesFold, UserInItsTopic, Present, LinkNode

LEMMA UnlinkNodeInv ==
  ASSUME IInv, NEW p \in Procs, NEW n \in Nodes, UnlinkNode(p, n)
  PROVE  IInv'
<1> DEFINE left == LearnedVia(n)
           gone(order) == [i \in DOMAIN order |-> UserEvent("UserLeft", order[i], users[order[i]])]
           work(order) == Emitting(Append(gone(order), [type |-> "NodeUnlinked", node |-> n]))
<1>0. TypeOK /\ PendShape /\ NamesFold /\ UserInItsTopic /\ MsgInv
  BY DEF IInv, MapInv
<1>1. left \subseteq Keys /\ \A k \in left : users[k] \in Users
  BY <1>0 DEF LearnedVia, Present, TypeOK
<1>2. PICK order \in Orders(left) : Starts(p, work(order))
  BY Zenon DEF UnlinkNode, UnlinkEvents
<1>3. order \in Seq(left)
  BY <1>1, OrderIsSeq
<1>4. gone(order) \in Seq(Events) /\ \A i \in DOMAIN gone(order) : ~IsMessage(gone(order)[i])
  <2>1. \A i \in DOMAIN order : /\ UserEvent("UserLeft", order[i], users[order[i]]) \in Events
                                /\ ~IsMessage(UserEvent("UserLeft", order[i], users[order[i]]))
    BY <1>1, <1>3, UserEventOK
  <2>2. DOMAIN order = 1..Len(order) /\ Len(order) \in Nat
    BY <1>3
  <2>3. QED
    BY <2>1, <2>2
<1>5. WorkOK(work(order)) /\ IDs(work(order).events) = {}
  <2> DEFINE e == [type |-> "NodeUnlinked", node |-> n]
             evs == Append(gone(order), e)
  <2>1. e \in Events /\ ~IsMessage(e)
    BY DEF Events, IsMessage
  <2> HIDE DEF gone, e
  <2>2. evs \in Seq(Events) /\ evs # <<>> /\ \A i \in DOMAIN evs : ~IsMessage(evs[i])
    BY <1>4, <2>1
  <2>3. work(order).stage = "emit" /\ work(order).events = evs
        /\ work(order) \in [stage: {"idle", "save", "emit"}, events: Seq(Events)]
    BY <2>2 DEF Emitting, e
  <2> HIDE DEF evs, work
  <2>4. QED
    BY <2>2, <2>3 DEF WorkOK, IDs
<1> HIDE DEF work, gone
<1>6. /\ nodes'  = nodes \ {n}
      /\ users'  = [k \in Keys |-> IF k \in left THEN Null ELSE users[k]]
      /\ member' = [t \in TopicKeys |->
                      member[t] \ {k \in left : normTopicKey[users[k].topic] = t}]
      /\ UNCHANGED <<topics, store, subMu, sub, queue, view, got, lost>>
  BY DEF UnlinkNode, subVars
<1> HIDE DEF left
<1>7. TypeOK' /\ PendShape'
  <2>1. /\ pend' \in [Procs -> [stage: {"idle", "save", "emit"}, events: Seq(Events)]]
        /\ PendShape'
    BY <1>0, <1>2, <1>5, StartsOK
  <2>2. QED
    BY Zenon, <1>0, <1>1, <1>6, <2>1 DEF TypeOK
<1>8. MsgInv'
  BY Zenon, <1>0, <1>2, <1>5, <1>6, StartsMsgInv DEF subVars
<1>9. NamesFold'
  BY Zenon, <1>0, <1>6 DEF NamesFold
<1>10. UserInItsTopic'
  <2> SUFFICES ASSUME NEW j \in Keys, users'[j] # Null
               PROVE  /\ topics'[normTopicKey[users'[j].topic]] = users'[j].topic
                      /\ j \in member'[normTopicKey[users'[j].topic]]
    BY DEF UserInItsTopic, Present
  <2>1. j \notin left /\ users'[j] = users[j]
    BY <1>6
  <2>2. /\ topics[normTopicKey[users[j].topic]] = users[j].topic
        /\ j \in member[normTopicKey[users[j].topic]]
        /\ normTopicKey[users[j].topic] \in TopicKeys
    BY <1>0, <2>1 DEF UserInItsTopic, Present, TypeOK, Users
  <2>3. QED
    BY <1>6, <2>1, <2>2
<1>11. QED
  BY <1>7, <1>8, <1>9, <1>10 DEF IInv, MapInv

-----------------------------------------------------------------------------
(* The message ids of a sequence of events, taken apart and put together.  *)

LEMMA HeadTail ==
  ASSUME NEW S, NEW q \in Seq(S), q # <<>>
  PROVE  /\ Head(q) \in S /\ Tail(q) \in Seq(S)
         /\ Len(q) = 1 => Tail(q) = <<>>
         /\ Len(q) # 1 => Tail(q) # <<>>
<1>1. Len(q) \in Nat /\ Len(q) # 0
  OBVIOUS
<1>2. Head(q) \in S /\ Tail(q) \in Seq(S) /\ Len(Tail(q)) = Len(q) - 1
  OBVIOUS
<1>3. \A t \in Seq(S) : t = <<>> <=> Len(t) = 0
  OBVIOUS
<1>4. Tail(q) = <<>> <=> Len(Tail(q)) = 0
  BY Zenon, <1>2, <1>3
<1> QED
  BY <1>1, <1>2, <1>4

LEMMA IDsTail ==
  ASSUME NEW q \in Seq(Events), q # <<>>
  PROVE  IDs(q) = (IF IsMessage(Head(q)) THEN {Head(q).id} ELSE {}) \cup IDs(Tail(q))
<1>1. Len(q) \in Nat /\ Len(q) >= 1 /\ DOMAIN q = 1..Len(q) /\ Head(q) = q[1]
  OBVIOUS
<1>2. DOMAIN Tail(q) = 1..(Len(q) - 1) /\ \A i \in 1..(Len(q) - 1) : Tail(q)[i] = q[i + 1]
  BY <1>1
<1>3. ASSUME NEW m \in IDs(q), m \notin IDs(Tail(q))
      PROVE  IsMessage(Head(q)) /\ m = Head(q).id
  <2>1. PICK i \in 1..Len(q) : IsMessage(q[i]) /\ m = q[i].id
    BY <1>1, <1>3 DEF IDs
  <2>2. CASE i = 1
    BY <1>1, <2>1, <2>2
  <2>3. CASE i # 1
    <3>1. i - 1 \in 1..(Len(q) - 1) /\ Tail(q)[i - 1] = q[i]
      BY <1>1, <1>2, <2>3
    <3>2. m \in IDs(Tail(q))
      BY Zenon, <1>2, <2>1, <3>1 DEF IDs
    <3>3. QED
      BY <1>3, <3>2
  <2>4. QED
    BY <2>2, <2>3
<1>4. IDs(Tail(q)) \subseteq IDs(q)
  <2>1. \A i \in 1..(Len(q) - 1) : i + 1 \in 1..Len(q)
    BY <1>1
  <2>2. QED
    BY <1>1, <1>2, <2>1 DEF IDs
<1>5. IsMessage(Head(q)) => Head(q).id \in IDs(q)
  BY <1>1 DEF IDs
<1>6. QED
  BY <1>3, <1>4, <1>5

LEMMA IDsAppend ==
  ASSUME NEW q \in Seq(Events), NEW e \in Events
  PROVE  IDs(Append(q, e)) = IDs(q) \cup (IF IsMessage(e) THEN {e.id} ELSE {})
<1>1. Len(q) \in Nat /\ DOMAIN q = 1..Len(q)
  OBVIOUS
<1>2. /\ DOMAIN Append(q, e) = 1..(Len(q) + 1)
      /\ Append(q, e)[Len(q) + 1] = e
      /\ \A i \in 1..Len(q) : Append(q, e)[i] = q[i]
  BY <1>1
<1>3. 1..(Len(q) + 1) = 1..Len(q) \cup {Len(q) + 1}
  BY <1>1
<1>4. QED
  BY <1>1, <1>2, <1>3 DEF IDs

LEMMA IDsType ==
  ASSUME NEW e \in Events, IsMessage(e)
  PROVE  e.id \in MessageIDs
BY DEF Events, IsMessage

LEMMA SaveInv ==
  ASSUME IInv, NEW p \in Procs, Save(p)
  PROVE  IInv'
<1>0. TypeOK /\ PendShape /\ NamesFold /\ UserInItsTopic /\ OnlySaved /\ NothingMissed
  BY DEF IInv, MapInv, MsgInv
<1>1. PICK e \in Events : IsMessage(e) /\ pend[p].events = <<e>> /\ pend[p].stage = "save"
  BY <1>0 DEF Save, PendShape
<1>2. e.id \in MessageIDs /\ IDs(<<e>>) = {e.id} /\ Head(<<e>>) = e
  BY <1>1, IDsType DEF IDs
<1>3. pend \in [Procs -> [stage: {"idle", "save", "emit"}, events: Seq(Events)]]
  BY <1>0 DEF TypeOK
<1>4. UNCHANGED <<users, topics, member, nodes, subMu, sub, queue, view, got, lost>>
  BY DEF Save, mapVars, subVars
<1>5. MapInv'
  BY <1>0, <1>4 DEF MapInv, NamesFold, UserInItsTopic, Present
<1>6. CASE store' = store \cup {e.id} /\ pend' = [pend EXCEPT ![p].stage = "emit"]
  <2>1. /\ \A q \in Procs \ {p} : pend'[q] = pend[q]
        /\ pend'[p].stage = "emit" /\ pend'[p].events = <<e>>
        /\ pend' \in [Procs -> [stage: {"idle", "save", "emit"}, events: Seq(Events)]]
    BY <1>1, <1>3, <1>6
  <2>2. TypeOK'
    BY <1>0, <1>2, <1>4, <1>6, <2>1 DEF TypeOK
  <2>3. PendShape'
    <3>1. <<e>> # <<>>
      OBVIOUS
    <3>2. QED
      BY <1>0, <2>1, <3>1, Zenon DEF PendShape
  <2>4. OnlySaved'
    BY <1>0, <1>2, <1>4, <1>6, <2>1 DEF OnlySaved
  <2>5. NothingMissed'
    <3> SUFFICES ASSUME NEW s \in Subs, sub[s] = "live", ~lost[s], NEW m \in store',
                        m \notin got[s], m \notin IDs(queue[s])
                 PROVE  \E q \in Procs : pend'[q].stage = "emit" /\ m \in IDs(pend'[q].events)
      BY <1>4 DEF NothingMissed
    <3>1. CASE m = e.id
      BY <1>2, <2>1, <3>1
    <3>2. CASE m # e.id
      <4>1. PICK q \in Procs : pend[q].stage = "emit" /\ m \in IDs(pend[q].events)
        BY <1>0, <1>6, <3>2 DEF NothingMissed
      <4>2. pend'[q] = pend[q]
        BY <1>1, <2>1, <4>1
      <4>3. QED
        BY <4>1, <4>2
    <3>3. QED
      BY <3>1, <3>2
  <2>6. QED
    BY <1>5, <2>2, <2>3, <2>4, <2>5 DEF IInv, MsgInv
<1>7. CASE store' = store /\ pend' = [pend EXCEPT ![p] = Idle]
  <2>1. /\ \A q \in Procs \ {p} : pend'[q] = pend[q]
        /\ pend'[p].stage = "idle"
        /\ pend' \in [Procs -> [stage: {"idle", "save", "emit"}, events: Seq(Events)]]
    BY <1>1, <1>3, <1>7 DEF Idle
  <2>2. TypeOK'
    BY <1>0, <1>4, <1>7, <2>1 DEF TypeOK
  <2>3. PendShape'
    BY <1>0, <2>1 DEF PendShape
  <2>4. OnlySaved'
    BY Zenon, <1>0, <1>4, <1>7, <2>1 DEF OnlySaved
  <2>5. NothingMissed'
    <3> SUFFICES ASSUME NEW s \in Subs, sub[s] = "live", ~lost[s], NEW m \in store,
                        m \notin got[s], m \notin IDs(queue[s])
                 PROVE  \E q \in Procs : pend'[q].stage = "emit" /\ m \in IDs(pend'[q].events)
      BY Zenon, <1>4, <1>7 DEF NothingMissed
    <3>1. PICK q \in Procs : pend[q].stage = "emit" /\ m \in IDs(pend[q].events)
      BY Zenon, <1>0 DEF NothingMissed
    <3>2. pend'[q] = pend[q]
      BY <1>1, <2>1, <3>1
    <3>3. QED
      BY <3>1, <3>2
  <2>6. QED
    BY <1>5, <2>2, <2>3, <2>4, <2>5 DEF IInv, MsgInv
<1>8. QED
  BY <1>1, <1>2, <1>6, <1>7 DEF Save

(* The event moves from the goroutine to every open channel with room; a   *)
(* subscriber whose channel has none is marked as having lost it.          *)
LEMMA EmitInv ==
  ASSUME IInv, NEW p \in Procs, Emit(p)
  PROVE  IInv'
<1> DEFINE evs == pend[p].events
           ids(e) == IF IsMessage(e) THEN {e.id} ELSE {}
<1>0. TypeOK /\ PendShape /\ NamesFold /\ UserInItsTopic /\ OnlySaved /\ NothingMissed
  BY DEF IInv, MapInv, MsgInv
<1>1. pend[p].stage = "emit" /\ evs \in Seq(Events) /\ evs # <<>>
  BY Zenon, <1>0 DEF Emit, TypeOK, PendShape
<1>2. /\ Head(evs) \in Events /\ Tail(evs) \in Seq(Events)
      /\ IDs(evs) = ids(Head(evs)) \cup IDs(Tail(evs))
      /\ Len(evs) = 1 => Tail(evs) = <<>>
      /\ Len(evs) # 1 => Tail(evs) # <<>>
  <2>1. IDs(evs) = ids(Head(evs)) \cup IDs(Tail(evs))
    BY <1>1, IDsTail
  <2>2. QED
    BY <1>1, <2>1, HeadTail
<1>3. IDs(<<>>) = {}
  BY DEF IDs
<1>4. UNCHANGED <<users, topics, member, nodes, store, sub, view, got>>
  BY DEF Emit, mapVars
<1>5. MapInv'
  BY <1>0, <1>4 DEF MapInv, NamesFold, UserInItsTopic, Present
<1>6. pend \in [Procs -> [stage: {"idle", "save", "emit"}, events: Seq(Events)]]
  BY <1>0 DEF TypeOK
<1>7. /\ pend' \in [Procs -> [stage: {"idle", "save", "emit"}, events: Seq(Events)]]
      /\ \A q \in Procs \ {p} : pend'[q] = pend[q]
      /\ \/ pend'[p].stage = "idle" /\ IDs(Tail(evs)) = {}
         \/ pend'[p].stage = "emit" /\ pend'[p].events = Tail(evs) /\ Tail(evs) # <<>>
      /\ subMu' \in Procs \cup {Null}
  <2>1. /\ Len(evs) = 1 => pend' = [pend EXCEPT ![p] = Idle] /\ subMu' = Null
        /\ Len(evs) # 1 => pend' = [pend EXCEPT ![p].events = Tail(evs)] /\ subMu' = p
    BY DEF Emit
  <2> HIDE DEF evs, ids
  <2>2. CASE Len(evs) = 1
    <3>1. IDs(Tail(evs)) = {}
      BY Zenon, <1>2, <1>3, <2>2
    <3>2. pend' = [pend EXCEPT ![p] = Idle] /\ subMu' = Null
      BY <2>1, <2>2
    <3>3. QED
      BY <1>6, <3>1, <3>2 DEF Idle
  <2>3. CASE Len(evs) # 1
    <3>1. pend' = [pend EXCEPT ![p].events = Tail(evs)] /\ subMu' = p
      BY <2>1, <2>3
    <3>2. QED
      BY <1>1, <1>2, <1>6, <2>3, <3>1
  <2>4. QED
    BY <2>2, <2>3
<1>8. ASSUME NEW s \in Subs
      PROVE  /\ queue'[s] \in Seq(Events) /\ lost'[s] \in BOOLEAN
             /\ ~lost'[s] => ~lost[s]
             /\ \/ queue'[s] = queue[s]
                \/ IDs(queue'[s]) = IDs(queue[s]) \cup ids(Head(evs))
             /\ sub[s] = "live" /\ ~lost'[s]
                  => IDs(queue'[s]) = IDs(queue[s]) \cup ids(Head(evs))
  <2>1. queue[s] \in Seq(Events) /\ lost[s] \in BOOLEAN
    BY <1>0 DEF TypeOK
  <2>2. /\ queue'[s] = IF Subscribed(s) /\ HasRoom(s) THEN Append(queue[s], Head(evs)) ELSE queue[s]
        /\ lost'[s] = (lost[s] \/ (Subscribed(s) /\ ~HasRoom(s)))
    BY DEF Emit
  <2>3. Append(queue[s], Head(evs)) \in Seq(Events)
    BY <1>2, <2>1
  <2>4. IDs(Append(queue[s], Head(evs))) = IDs(queue[s]) \cup ids(Head(evs))
    BY <1>2, <2>1, IDsAppend
  <2>5. sub[s] = "live" => Subscribed(s)
    BY DEF Subscribed
  <2> HIDE DEF evs, ids
  <2>6. QED
    BY Zenon, <2>1, <2>2, <2>3, <2>4, <2>5
<1>9. TypeOK'
  <2>1. queue' \in [Subs -> Seq(Events)] /\ lost' \in [Subs -> BOOLEAN]
    <3>1. DOMAIN queue' = Subs /\ DOMAIN lost' = Subs
          /\ queue' = [s \in Subs |-> queue'[s]] /\ lost' = [s \in Subs |-> lost'[s]]
      BY DEF Emit
    <3>2. QED
      BY <1>8, <3>1
  <2>2. QED
    BY Zenon, <1>0, <1>4, <1>7, <2>1 DEF TypeOK
<1>10. PendShape'
  BY Zenon, <1>0, <1>7 DEF PendShape
<1> HIDE DEF evs, ids
<1>11. OnlySaved'
  <2>1. ids(Head(evs)) \subseteq store /\ IDs(Tail(evs)) \subseteq store
    BY <1>0, <1>1, <1>2 DEF OnlySaved, evs
  <2>2. ASSUME NEW q \in Procs, pend'[q].stage = "emit"
        PROVE  IDs(pend'[q].events) \subseteq store
    BY Zenon, <1>0, <1>7, <2>1, <2>2 DEF OnlySaved
  <2>3. ASSUME NEW s \in Subs
        PROVE  IDs(queue'[s]) \subseteq store /\ got[s] \subseteq store
    BY <1>0, <1>8, <2>1 DEF OnlySaved
  <2>4. QED
    BY <1>4, <2>2, <2>3 DEF OnlySaved
<1>12. NothingMissed'
  <2> SUFFICES ASSUME NEW s \in Subs, sub[s] = "live", ~lost'[s], NEW m \in store,
                      m \notin got[s], m \notin IDs(queue'[s])
               PROVE  \E q \in Procs : pend'[q].stage = "emit" /\ m \in IDs(pend'[q].events)
    BY Zenon, <1>4 DEF NothingMissed
  <2>1. ~lost[s] /\ m \notin IDs(queue[s]) /\ m \notin ids(Head(evs))
    BY Zenon, <1>8
  <2>2. PICK q \in Procs : pend[q].stage = "emit" /\ m \in IDs(pend[q].events)
    BY <1>0, <2>1 DEF NothingMissed
  <2>3. CASE q = p
    BY Zenon, <1>2, <1>7, <2>1, <2>2, <2>3 DEF evs
  <2>4. CASE q # p
    BY <1>7, <2>2, <2>4
  <2>5. QED
    BY <2>3, <2>4
<1>13. QED
  BY <1>5, <1>9, <1>10, <1>11, <1>12 DEF IInv, MsgInv

LEMMA SubscribeInv ==
  ASSUME IInv, NEW s \in Subs, Subscribe(s)
  PROVE  IInv'
<1>0. TypeOK /\ PendShape /\ NamesFold /\ UserInItsTopic /\ OnlySaved /\ NothingMissed
  BY DEF IInv, MapInv, MsgInv
<1>1. UNCHANGED <<users, topics, member, nodes, store, pend, subMu, queue, view, got, lost>>
  BY DEF Subscribe, mapVars
<1>2. TypeOK'
  BY Zenon, <1>0, <1>1 DEF TypeOK, Subscribe
<1>3. PendShape' /\ MapInv' /\ OnlySaved'
  BY Zenon, <1>0, <1>1 DEF PendShape, MapInv, NamesFold, UserInItsTopic, Present, OnlySaved
<1>4. NothingMissed'
  <2>1. \A r \in Subs : sub'[r] = "live" => sub[r] = "live"
    BY <1>0 DEF Subscribe, TypeOK
  <2>2. QED
    BY <1>0, <1>1, <2>1 DEF NothingMissed
<1>5. QED
  BY <1>2, <1>3, <1>4 DEF IInv, MsgInv

(* The history is read after the channel is open, so every message saved   *)
(* later finds the channel open when it is emitted.                        *)
LEMMA SnapshotInv ==
  ASSUME IInv, NEW s \in Subs, Snapshot(s)
  PROVE  IInv'
<1>0. TypeOK /\ PendShape /\ NamesFold /\ UserInItsTopic /\ OnlySaved /\ NothingMissed
  BY DEF IInv, MapInv, MsgInv
<1>1. UNCHANGED <<users, topics, member, nodes, store, pend, subMu, queue, lost>>
  BY DEF Snapshot, mapVars
<1>2. /\ sub' = [sub EXCEPT ![s] = "live"]
      /\ got' = [got EXCEPT ![s] = store]
      /\ view' = [view EXCEPT ![s] = UsersNow]
  BY DEF Snapshot
<1>3. UsersNow \in [Keys -> Names \cup {Null}]
  <2>1. \A k \in Keys : users[k] # Null => users[k].topic \in Names
    BY <1>0 DEF TypeOK, Users
  <2>2. QED
    BY <2>1 DEF UsersNow, Present
<1>4. TypeOK'
  BY Zenon, <1>0, <1>1, <1>2, <1>3 DEF TypeOK
<1>5. PendShape' /\ MapInv'
  BY <1>0, <1>1 DEF PendShape, MapInv, NamesFold, UserInItsTopic, Present
<1>6. OnlySaved'
  BY <1>0, <1>1, <1>2 DEF OnlySaved, TypeOK
<1>7. NothingMissed'
  <2> SUFFICES ASSUME NEW r \in Subs, sub'[r] = "live", ~lost[r], NEW m \in store
               PROVE  \/ m \in got'[r] \/ m \in IDs(queue[r])
                      \/ \E p \in Procs : pend[p].stage = "emit" /\ m \in IDs(pend[p].events)
    BY Zenon, <1>1 DEF NothingMissed
  <2>1. CASE r = s
    BY <1>0, <1>2, <2>1 DEF TypeOK
  <2>2. CASE r # s
    <3>1. sub[r] = "live" /\ got'[r] = got[r]
      BY <1>0, <1>2, <2>2 DEF TypeOK
    <3>2. QED
      BY Zenon, <1>0, <3>1 DEF NothingMissed
  <2>3. QED
    BY Zenon, <2>1, <2>2
<1>8. QED
  BY <1>4, <1>5, <1>6, <1>7 DEF IInv, MsgInv

LEMMA ReceiveInv ==
  ASSUME IInv, NEW s \in Subs, Receive(s)
  PROVE  IInv'
<1> DEFINE e == Head(queue[s])
           ids == IF IsMessage(e) THEN {e.id} ELSE {}
<1>0. TypeOK /\ PendShape /\ NamesFold /\ UserInItsTopic /\ OnlySaved /\ NothingMissed
  BY DEF IInv, MapInv, MsgInv
<1>1. UNCHANGED <<users, topics, member, nodes, store, pend, subMu, sub, lost>>
  BY Zenon DEF Receive, mapVars
<1>2. queue[s] \in Seq(Events) /\ queue[s] # <<>>
  BY Zenon, <1>0 DEF Receive, TypeOK
<1>3. e \in Events /\ Tail(queue[s]) \in Seq(Events) /\ IDs(queue[s]) = ids \cup IDs(Tail(queue[s]))
  <2>1. e \in Events /\ Tail(queue[s]) \in Seq(Events)
    BY Zenon, <1>2, HeadTail
  <2>2. IDs(queue[s]) = ids \cup IDs(Tail(queue[s]))
    BY Zenon, <1>2, IDsTail
  <2> QED BY <2>1, <2>2
<1>4. /\ queue' = [queue EXCEPT ![s] = Tail(queue[s])]
      /\ view'  = [view EXCEPT ![s] = Learn(view[s], e)]
      /\ got'   = [got EXCEPT ![s] = got[s] \cup ids]
  BY DEF Receive
<1>5. ids \subseteq MessageIDs
  BY <1>3, IDsType
<1>6. Learn(view[s], e) \in [Keys -> Names \cup {Null}]
  <2>1. view[s] \in [Keys -> Names \cup {Null}]
    BY <1>0 DEF TypeOK
  <2>2. e.type \in {"UserJoined", "TopicChanged", "UserLeft"} => e.key \in Keys /\ e.topic \in Names
    BY <1>3 DEF Events
  <2> HIDE DEF e
  <2>3. QED
    BY <2>1, <2>2 DEF Learn
<1> HIDE DEF e, ids
<1>7. TypeOK'
  <2>1. queue' \in [Subs -> Seq(Events)] /\ got' \in [Subs -> SUBSET MessageIDs]
    BY <1>0, <1>3, <1>4, <1>5 DEF TypeOK
  <2>2. view' \in [Subs -> [Keys -> Names \cup {Null}]]
    BY <1>0, <1>4, <1>6 DEF TypeOK
  <2>3. QED
    BY Zenon, <1>0, <1>1, <2>1, <2>2 DEF TypeOK
<1>8. PendShape' /\ MapInv'
  BY <1>0, <1>1 DEF PendShape, MapInv, NamesFold, UserInItsTopic, Present
<1>9. ASSUME NEW r \in Subs
      PROVE  got'[r] \cup IDs(queue'[r]) = got[r] \cup IDs(queue[r])
  <2>1. CASE r = s
    BY <1>0, <1>3, <1>4, <2>1 DEF TypeOK
  <2>2. CASE r # s
    BY <1>0, <1>4, <2>2 DEF TypeOK
  <2>3. QED
    BY <2>1, <2>2
<1>10. OnlySaved'
  BY Zenon, <1>0, <1>1, <1>9 DEF OnlySaved
<1>11. NothingMissed'
  BY Zenon, <1>0, <1>1, <1>9 DEF NothingMissed
<1>12. QED
  BY <1>7, <1>8, <1>10, <1>11 DEF IInv, MsgInv

LEMMA CancelInv ==
  ASSUME IInv, NEW s \in Subs, Cancel(s)
  PROVE  IInv'
<1>0. TypeOK /\ PendShape /\ NamesFold /\ UserInItsTopic /\ OnlySaved /\ NothingMissed
  BY DEF IInv, MapInv, MsgInv
<1>1. UNCHANGED <<users, topics, member, nodes, store, pend, subMu, view, got, lost>>
  BY Zenon DEF Cancel, mapVars
<1>2. /\ sub' = [sub EXCEPT ![s] = "closed"] /\ queue' = [queue EXCEPT ![s] = <<>>]
      /\ IDs(<<>>) = {}
  BY DEF Cancel, IDs
<1>3. TypeOK'
  <2>1. sub' \in [Subs -> {"none", "open", "live", "closed"}]
    BY <1>0, <1>2 DEF TypeOK
  <2>2. queue' \in [Subs -> Seq(Events)]
    <3>1. <<>> \in Seq(Events) /\ queue \in [Subs -> Seq(Events)]
      BY <1>0 DEF TypeOK
    <3>2. QED
      BY <3>1, <1>2
  <2>3. QED
    BY <1>0, <1>1, <2>1, <2>2, Zenon DEF TypeOK
<1>4. PendShape' /\ MapInv'
  BY Zenon, <1>0, <1>1 DEF PendShape, MapInv, NamesFold, UserInItsTopic, Present
<1>5. OnlySaved'
  BY <1>0, <1>1, <1>2 DEF OnlySaved, TypeOK
<1>6. NothingMissed'
  <2>1. \A r \in Subs : sub'[r] = "live" => r # s /\ sub[r] = "live" /\ queue'[r] = queue[r]
    BY <1>0, <1>2 DEF TypeOK
  <2>2. QED
    BY Zenon, <1>0, <1>1, <2>1 DEF NothingMissed
<1>7. QED
  BY <1>3, <1>4, <1>5, <1>6 DEF IInv, MsgInv

-----------------------------------------------------------------------------
LEMMA InitInv == Init => IInv
<1> SUFFICES ASSUME Init PROVE IInv
  BY Zenon
<1>1. TypeOK
  <2>1. Idle \in [stage: {"idle", "save", "emit"}, events: Seq(Events)]
    BY DEF Idle
  <2> QED BY <2>1 DEF Init, TypeOK
<1>2. PendShape
  <2>1. \A p \in Procs : pend[p].stage = "idle"
    BY DEF Init, Idle
  <2>2. QED
    BY <2>1 DEF PendShape
<1>3. MapInv
  BY Zenon DEF Init, MapInv, NamesFold, UserInItsTopic, Present
<1>4. MsgInv
  <2>1. store = {} /\ \A s \in Subs : queue[s] = <<>> /\ got[s] = {}
    BY DEF Init
  <2>2. \A p \in Procs : pend[p].stage # "emit"
    BY DEF Init, Idle
  <2>3. IDs(<<>>) = {}
    BY DEF IDs
  <2>4. OnlySaved
    BY <2>1, <2>2, <2>3 DEF OnlySaved
  <2>5. NothingMissed
    BY <2>1 DEF NothingMissed
  <2>6. QED
    BY <2>4, <2>5 DEF MsgInv
<1>5. QED
  BY <1>1, <1>2, <1>3, <1>4 DEF IInv

LEMMA CallInv ==
  ASSUME IInv, NEW p \in Procs, Call(p)
  PROVE  IInv'
<1>1. ASSUME NEW k \in Keys, NEW l \in LinksOf(k), NEW i \in InfosOf(k), Join(p, k, l, i)
      PROVE  IInv'
  <2>1. i \in Infos
    BY HubAssumption DEF InfosOf
  <2> QED BY <1>1, <2>1, JoinInv
<1>2. ASSUME NEW k \in Keys, Leave(p, k) PROVE IInv'
  BY <1>2, LeaveInv
<1>3. ASSUME NEW k \in Keys, NEW name \in Names, SetTopic(p, k, name) PROVE IInv'
  BY <1>3, SetTopicInv
<1>4. ASSUME NEW k \in Keys, \/ \E i \in Infos : SetInfo(p, k, i)
                             \/ \E f \in FlagSets : SetFlags(p, k, f)
      PROVE  IInv'
  BY <1>4, SetInfoInv
<1>5. ASSUME NEW k \in Keys, NEW text \in Texts,
             Post(p, k, text) \/ \E to \in Calls : Private(p, k, to, text)
      PROVE  IInv'
  BY <1>5, PostInv
<1>6. ASSUME NEW n \in Nodes, LinkNode(p, n) PROVE IInv'
  BY <1>6, LinkNodeInv
<1>7. ASSUME NEW n \in Nodes, UnlinkNode(p, n) PROVE IInv'
  BY <1>7, UnlinkNodeInv
<1>8. QED
  BY <1>1, <1>2, <1>3, <1>4, <1>5, <1>6, <1>7 DEF Call

LEMMA NextInv == IInv /\ [Next]_vars => IInv'
<1> SUFFICES ASSUME IInv, [Next]_vars PROVE IInv'
  OBVIOUS
<1>1. ASSUME NEW p \in Procs, Call(p) \/ Save(p) \/ Emit(p) PROVE IInv'
  BY <1>1, CallInv, SaveInv, EmitInv
<1>2. ASSUME NEW s \in Subs, Subscribe(s) \/ Snapshot(s) \/ Receive(s) \/ Cancel(s)
      PROVE  IInv'
  BY <1>2, SubscribeInv, SnapshotInv, ReceiveInv, CancelInv
<1>3. CASE UNCHANGED vars
  <2>1. UNCHANGED <<users, topics, member, nodes, store, pend, subMu, sub, queue, view, got, lost>>
    BY <1>3 DEF vars, mapVars, subVars
  <2>2. TypeOK' /\ PendShape'
    BY Zenon, <2>1 DEF IInv, TypeOK, PendShape
  <2>3. MapInv' /\ MsgInv'
    BY Zenon, <2>1 DEF IInv, MapInv, NamesFold, UserInItsTopic, Present,
                MsgInv, OnlySaved, NothingMissed
  <2>4. QED
    BY <2>2, <2>3 DEF IInv
<1>4. QED
  BY <1>1, <1>2, <1>3 DEF Next

-----------------------------------------------------------------------------
THEOREM Invariance == Spec => []IInv
BY InitInv, NextInv, PTL DEF Spec

(* Every reachable state of the hub is well typed: no call, in any         *)
(* interleaving, stores a value of the wrong kind in its maps, channels or *)
(* store.                                                                  *)
THEOREM TypeCorrect == Spec => []TypeOK
<1>1. IInv => TypeOK
  BY DEF IInv
<1>2. QED
  BY <1>1, Invariance, PTL

(* Every present user is in an existing topic under its one display name   *)
(* and in that topic's member set, after any calls of any goroutines.      *)
THEOREM TopicsConsistent == Spec => [](UserInItsTopic /\ NamesFold)
<1>1. IInv => UserInItsTopic /\ NamesFold
  BY DEF IInv, MapInv
<1>2. QED
  BY <1>1, Invariance, PTL

(* A subscriber that lost nothing and is caught up while no call is in     *)
(* flight has been given exactly the saved messages: subscribing before    *)
(* reading the history leaves no gap, however calls interleave.            *)
THEOREM NoGap == Spec => []NoMessageGap
<1>1. IInv => NoMessageGap
  <2> SUFFICES ASSUME IInv, NEW s \in Subs, CaughtUp(s) PROVE got[s] = store
    BY DEF NoMessageGap
  <2>1. /\ sub[s] = "live" /\ queue[s] = <<>> /\ ~lost[s]
        /\ \A p \in Procs : pend[p].stage # "emit"
    BY DEF CaughtUp, Idle
  <2>2. IDs(<<>>) = {}
    BY DEF IDs
  <2>3. got[s] \subseteq store
    BY Zenon DEF IInv, MsgInv, OnlySaved
  <2>4. store \subseteq got[s]
    BY <2>1, <2>2 DEF IInv, MsgInv, NothingMissed
  <2>5. QED
    BY Zenon, <2>3, <2>4
<1>2. QED
  BY <1>1, Invariance, PTL

-----------------------------------------------------------------------------
(* The member sets.  What a call does to the set of a topic t, and to the  *)
(* topic of k, if it is not a Join.                                        *)
LEMMA NoStaleByOthers ==
  ASSUME TypeOK, NamesFold,
         NEW p \in Procs, NEW j \in Keys, NEW k \in Keys, NEW t \in TopicKeys,
         \/ Leave(p, j)
         \/ \E name \in Names : SetTopic(p, j, name)
         \/ \E i \in Infos : SetInfo(p, j, i)
         \/ \E f \in FlagSets : SetFlags(p, j, f),
         Stale(k, t)'
  PROVE  Stale(k, t)
<1>0. /\ users \in [Keys -> Users \cup {Null}] /\ member \in [TopicKeys -> SUBSET Keys]
      /\ users[j] # Null /\ users[j] \in Users /\ normTopicKey[users[j].topic] \in TopicKeys
      /\ k \in member'[t] /\ (users'[k] # Null => normTopicKey[users'[k].topic] # t)
  BY Zenon DEF TypeOK, Leave, SetTopic, SetInfo, SetFlags, Present, Stale, Users
<1>1. CASE Leave(p, j)
  <2>1. /\ users' = [users EXCEPT ![j] = Null]
        /\ member' = [member EXCEPT ![normTopicKey[users[j].topic]] = @ \ {j}]
    BY Zenon, <1>1 DEF Leave, MembersWithout
  <2>2. k \in member[t] /\ (k = j => normTopicKey[users[j].topic] # t)
    BY <1>0, <2>1
  <2>3. k # j => users'[k] = users[k]
    BY <1>0, <2>1
  <2> QED BY <1>0, <2>2, <2>3 DEF Stale, Present
<1>2. ASSUME NEW name \in Names, SetTopic(p, j, name) PROVE Stale(k, t)
  <2> DEFINE from == normTopicKey[users[j].topic]
             to   == normTopicKey[name]
             u    == [users[j] EXCEPT !.topic = Canon(name)]
  <2>1. /\ users' = [users EXCEPT ![j] = u] /\ from # to
        /\ member' = [member EXCEPT ![from] = @ \ {j}, ![to] = @ \cup {j}]
    BY <1>2 DEF SetTopic
  <2>2. Canon(name) \in Names /\ normTopicKey[Canon(name)] = to
    BY CanonOK
  <2>3. u \in Users /\ u.topic = Canon(name) /\ u # Null
    BY <1>0, <2>2 DEF Users
  <2> HIDE DEF u
  <2>4. to \in TopicKeys /\ from \in TopicKeys /\ users'[j] = u
    BY <1>0, <2>1
  <2>5. k = j => t # to
    BY <1>0, <2>2, <2>3, <2>4
  <2>6. k # j => users'[k] = users[k]
    BY <1>0, <2>1
  <2> HIDE DEF from, to
  <2>7. k \in member[t] /\ (k = j => t # from)
    BY <1>0, <2>1, <2>4, <2>5
  <2> QED BY <1>0, <2>6, <2>7 DEF Stale, Present, from
<1>3. CASE (\E i \in Infos : SetInfo(p, j, i)) \/ \E f \in FlagSets : SetFlags(p, j, f)
  <2>1. member' = member
    BY <1>3 DEF SetInfo, SetFlags
  <2>2. PICK u : users' = [users EXCEPT ![j] = u] /\ u \in Users /\ u.topic = users[j].topic
    <3>1. ASSUME NEW i \in Infos, SetInfo(p, j, i)
          PROVE  \E u : users' = [users EXCEPT ![j] = u] /\ u \in Users /\ u.topic = users[j].topic
      <4>1. users' = [users EXCEPT ![j] = [users[j] EXCEPT !.info = i]]
        BY <3>1 DEF SetInfo
      <4>2. [users[j] EXCEPT !.info = i] \in Users /\ [users[j] EXCEPT !.info = i].topic = users[j].topic
        BY <1>0 DEF Users
      <4> QED BY Zenon, <4>1, <4>2
    <3>2. ASSUME NEW f \in FlagSets, SetFlags(p, j, f)
          PROVE  \E u : users' = [users EXCEPT ![j] = u] /\ u \in Users /\ u.topic = users[j].topic
      <4>1. users' = [users EXCEPT ![j] = [users[j] EXCEPT !.flags = f]]
        BY <3>2 DEF SetFlags
      <4>2. [users[j] EXCEPT !.flags = f] \in Users /\ [users[j] EXCEPT !.flags = f].topic = users[j].topic
        BY <1>0 DEF Users
      <4> QED BY Zenon, <4>1, <4>2
    <3> QED BY <1>3, <3>1, <3>2
  <2>3. users'[k] = IF k = j THEN u ELSE users[k]
    BY Zenon, <1>0, <2>2
  <2> QED BY <1>0, <2>1, <2>2, <2>3 DEF Stale, Present
<1> QED BY <1>1, <1>2, <1>3

LEMMA NoStaleByUnlink ==
  ASSUME TypeOK, NEW p \in Procs, NEW n \in Nodes, UnlinkNode(p, n),
         NEW k \in Keys, NEW t \in TopicKeys, Stale(k, t)'
  PROVE  Stale(k, t)
<1> DEFINE left == LearnedVia(n)
<1>1. /\ users' = [j \in Keys |-> IF j \in left THEN Null ELSE users[j]]
      /\ member' = [s \in TopicKeys |->
                      member[s] \ {j \in left : normTopicKey[users[j].topic] = s}]
  BY Zenon DEF UnlinkNode
<1> HIDE DEF left
<1>2. k \in member[t] /\ ~(k \in left /\ normTopicKey[users[k].topic] = t)
  BY <1>1 DEF Stale
<1> QED BY <1>1, <1>2 DEF Stale, Present

(* A Join strands the key only in the topic the user was in.               *)
LEMMA StaleByJoin ==
  ASSUME TypeOK, NamesFold, NEW p \in Procs, NEW j \in Keys, NEW l \in LinksOf(j), NEW i \in Infos,
         Join(p, j, l, i), NEW k \in Keys, NEW t \in TopicKeys, Stale(k, t)', ~Stale(k, t)
  PROVE  Present(k) /\ JoinStep(k)
<1> DEFINE u == [topic |-> Canon(DefaultTopic), link |-> l, info |-> i, flags |-> NoFlags]
           d == normTopicKey[DefaultTopic]
<1>1. Canon(DefaultTopic) \in Names /\ normTopicKey[Canon(DefaultTopic)] = d
  BY CanonOK
<1>2. u \in Users /\ u.topic = Canon(DefaultTopic) /\ u # Null
  BY <1>1 DEF Users, LinksOf
<1>3. /\ Starts(p, Emitting(<<UserEvent("UserJoined", j, u)>>))
      /\ users' = [users EXCEPT ![j] = u]
      /\ member' = [member EXCEPT ![d] = @ \cup {j}]
  BY <1>1 DEF Join
<1>4. d \in TopicKeys /\ member \in [TopicKeys -> SUBSET Keys]
      /\ users \in [Keys -> Users \cup {Null}]
  BY DEF TypeOK
<1>5. JoinStep(j)
  <2> DEFINE e == UserEvent("UserJoined", j, u)
  <2>1. e.type = "UserJoined" /\ e.key = j
    BY DEF UserEvent
  <2> HIDE DEF e
  <2>2. pend[p].stage = "idle" /\ pend' = [pend EXCEPT ![p] = Emitting(<<e>>)]
    BY <1>3 DEF Starts, e
  <2>3. pend'[p] = Emitting(<<e>>)
    BY <2>2 DEF TypeOK
  <2>4. pend'[p].stage = "emit" /\ Head(pend'[p].events) = e
    <3>1. Emitting(<<e>>).stage = "emit" /\ Emitting(<<e>>).events = <<e>>
      BY DEF Emitting
    <3>2. Head(<<e>>) = e
      OBVIOUS
    <3> QED BY Zenon, <2>3, <3>1, <3>2
  <2> QED BY Zenon, <2>1, <2>2, <2>4 DEF JoinStep
<1> HIDE DEF u, d
<1>6. k = j
  <2> SUFFICES ASSUME k # j PROVE FALSE
    OBVIOUS
  <2>1. users'[k] = users[k] /\ (k \in member'[t] <=> k \in member[t])
    BY <1>3, <1>4
  <2> QED BY Zenon, <2>1 DEF Stale, Present
<1>7. users'[k] = u /\ t # d
  BY Zenon, <1>1, <1>2, <1>3, <1>4, <1>6 DEF Stale, Present
<1>8. k \in member[t]
  BY Zenon, <1>3, <1>4, <1>7 DEF Stale
<1> QED BY Zenon, <1>5, <1>6, <1>8 DEF Stale

(* hub.go Join, Leave, SetTopic, UnlinkNode: no call but the Join of a     *)
(* user who is present leaves a key behind in the member set of a topic.   *)
THEOREM OnlyRejoinStrands == Spec => StaleOnlyByRejoin
<1>1. ASSUME IInv, Next, NEW k \in Keys, NEW t \in TopicKeys, Stale(k, t)', ~Stale(k, t)
      PROVE  Present(k) /\ JoinStep(k)
  <2>0. TypeOK /\ NamesFold
    BY <1>1 DEF IInv, MapInv
  <2>1. UNCHANGED <<users, member>> => (Stale(k, t)' <=> Stale(k, t))
    BY DEF Stale, Present
  <2>2. ASSUME NEW p \in Procs, Call(p) PROVE Present(k) /\ JoinStep(k)
    <3>1. ASSUME NEW j \in Keys, NEW l \in LinksOf(j), NEW i \in InfosOf(j), Join(p, j, l, i)
          PROVE  Present(k) /\ JoinStep(k)
      <4>1. i \in Infos
        BY DEF InfosOf
      <4> QED BY <1>1, <2>0, <3>1, <4>1, StaleByJoin
    <3>2. ASSUME NEW j \in Keys, \/ Leave(p, j)
                                 \/ \E name \in Names : SetTopic(p, j, name)
                                 \/ \E i \in Infos : SetInfo(p, j, i)
                                 \/ \E f \in FlagSets : SetFlags(p, j, f)
          PROVE  FALSE
      BY <1>1, <2>0, <3>2, NoStaleByOthers
    <3>3. ASSUME NEW j \in Keys, \/ \E text \in Texts : Post(p, j, text)
                                 \/ \E to \in Calls, text \in Texts : Private(p, j, to, text)
          PROVE  FALSE
      BY Zenon, <1>1, <2>1, <3>3 DEF Post, Private, mapVars
    <3>4. ASSUME NEW n \in Nodes, LinkNode(p, n) PROVE FALSE
      BY <1>1, <2>1, <3>4 DEF LinkNode
    <3>5. ASSUME NEW n \in Nodes, UnlinkNode(p, n) PROVE FALSE
      BY <1>1, <2>0, <3>5, NoStaleByUnlink
    <3> QED BY <2>2, <3>1, <3>2, <3>3, <3>4, <3>5 DEF Call
  <2>3. ASSUME NEW p \in Procs, Save(p) \/ Emit(p) PROVE FALSE
    BY <1>1, <2>1, <2>3 DEF Save, Emit, mapVars
  <2>4. ASSUME NEW s \in Subs, Subscribe(s) \/ Snapshot(s) \/ Receive(s) \/ Cancel(s) PROVE FALSE
    BY <1>1, <2>1, <2>4 DEF Subscribe, Snapshot, Receive, Cancel, mapVars
  <2> QED BY <1>1, <2>2, <2>3, <2>4 DEF Next
<1>2. IInv /\ [Next]_vars =>
        [\A k \in Keys, t \in TopicKeys :
           Stale(k, t)' /\ ~Stale(k, t) => Present(k) /\ JoinStep(k)]_vars
  BY <1>1
<1> QED BY <1>2, Invariance, PTL DEF Spec, StaleOnlyByRejoin

-----------------------------------------------------------------------------
(* What a subscriber believes.                                             *)

(* The event says where user k is (or that the user is gone), and what.    *)
Tells(e, k) == e.type \in {"UserJoined", "TopicChanged", "UserLeft"} /\ e.key = k
Value(e)    == IF e.type = "UserLeft" THEN Null ELSE e.topic

(* A consumer that believes w of user k believes x once it has heard q.    *)
EndsAt(q, k, w, x) ==
  \/ \E i \in DOMAIN q : /\ Tells(q[i], k) /\ Value(q[i]) = x
                         /\ \A j \in DOMAIN q : j > i => ~Tells(q[j], k)
  \/ (\A i \in DOMAIN q : ~Tells(q[i], k)) /\ w = x

(* A goroutine has an event about k to emit.                               *)
ToTell(p, k) == \E i \in DOMAIN pend[p].events : Tells(pend[p].events[i], k)

(* Before its snapshot a consumer believes nothing yet; the snapshot will  *)
(* be of what the hub then holds.                                          *)
Belief(s, k) == IF sub[s] = "live" THEN view[s][k] ELSE UsersNow[k]

(* What waits to be emitted about a user is what the hub holds ...         *)
NewsIsTrue ==
  \A p \in Procs, k \in Keys : \A i \in DOMAIN pend[p].events :
    Tells(pend[p].events[i], k) => Value(pend[p].events[i]) = UsersNow[k]

(* ... and when nothing waits, a subscriber that lost nothing will believe *)
(* what the hub holds once it has read its channel.                        *)
NewsIsOut ==
  \A s \in Subs, k \in Keys :
    Subscribed(s) /\ ~lost[s] /\ (\A p \in Procs : ~ToTell(p, k))
      => EndsAt(queue[s], k, Belief(s, k), UsersNow[k])

AtRest == /\ \A p \in Procs : pend[p].stage = "idle" => pend[p].events = <<>>
          /\ \A s \in Subs : sub[s] = "none" => queue[s] = <<>>

StreamInv == AtRest /\ (~crossed => NewsIsTrue /\ NewsIsOut)

(* A goroutine with no events left has nothing to tell.                    *)
LEMMA NoneInEmpty == DOMAIN <<>> = {}
OBVIOUS

(* What waits to be emitted by a goroutine that a step leaves alone.       *)
LEMMA NewsKept ==
  ASSUME NewsIsTrue, NEW q \in Procs, NEW k \in Keys, pend'[q] = pend[q],
         UsersNow'[k] = UsersNow[k], NEW i \in DOMAIN pend'[q].events,
         Tells(pend'[q].events[i], k)
  PROVE  Value(pend'[q].events[i]) = UsersNow'[k]
<1>1. i \in DOMAIN pend[q].events /\ Tells(pend[q].events[i], k)
  BY Zenon DEF Tells
<1>2. Value(pend[q].events[i]) = UsersNow[k]
  BY Zenon, <1>1 DEF NewsIsTrue
<1>3. pend'[q].events[i] = pend[q].events[i]
  OBVIOUS
<1> QED BY Zenon, <1>2, <1>3

(* A channel's contents, put together and taken apart.                     *)
LEMMA EndsEmpty ==
  ASSUME NEW k, NEW w, NEW x
  PROVE  EndsAt(<<>>, k, w, x) <=> w = x
BY DEF EndsAt

LEMMA EndsAppend ==
  ASSUME NEW q \in Seq(Events), NEW e \in Events, NEW k, NEW w, NEW x,
         \/ Tells(e, k) /\ Value(e) = x
         \/ ~Tells(e, k) /\ EndsAt(q, k, w, x)
  PROVE  EndsAt(Append(q, e), k, w, x)
<1> DEFINE r == Append(q, e)
<1>1. /\ Len(q) \in Nat /\ DOMAIN q = 1..Len(q) /\ DOMAIN r = 1..(Len(q) + 1)
      /\ \A i \in 1..Len(q) : r[i] = q[i]
      /\ r[Len(q) + 1] = e
  OBVIOUS
<1> HIDE DEF r
<1>2. CASE Tells(e, k) /\ Value(e) = x
  <2>1. Len(q) + 1 \in DOMAIN r /\ \A j \in DOMAIN r : ~(j > Len(q) + 1)
    BY <1>1
  <2> QED BY <1>1, <1>2, <2>1 DEF EndsAt, r
<1>3. CASE ~Tells(e, k) /\ EndsAt(q, k, w, x)
  <2>1. \A j \in DOMAIN r : Tells(r[j], k) => j \in DOMAIN q /\ r[j] = q[j]
    <3> SUFFICES ASSUME NEW j \in DOMAIN r, Tells(r[j], k) PROVE j \in DOMAIN q /\ r[j] = q[j]
      OBVIOUS
    <3>1. j # Len(q) + 1
      BY <1>1, <1>3
    <3> QED BY <1>1, <3>1
  <2>2. \A j \in DOMAIN q : j \in DOMAIN r /\ r[j] = q[j]
    BY <1>1
  <2>3. CASE (\A i \in DOMAIN q : ~Tells(q[i], k)) /\ w = x
    BY <2>1, <2>3 DEF EndsAt, r
  <2>4. ASSUME NEW i \in DOMAIN q, Tells(q[i], k), Value(q[i]) = x,
               \A j \in DOMAIN q : j > i => ~Tells(q[j], k)
        PROVE  EndsAt(r, k, w, x)
    <3>1. \A j \in DOMAIN r : j > i => ~Tells(r[j], k)
      BY Zenon, <2>1, <2>4
    <3>2. i \in DOMAIN r /\ Tells(r[i], k) /\ Value(r[i]) = x
      BY Zenon, <2>2, <2>4
    <3> QED BY Zenon, <3>1, <3>2 DEF EndsAt
  <2> QED BY Zenon, <1>3, <2>3, <2>4 DEF EndsAt, r
<1> QED BY <1>2, <1>3

LEMMA EndsTail ==
  ASSUME NEW q \in Seq(Events), q # <<>>, NEW k, NEW w, NEW x, EndsAt(q, k, w, x)
  PROVE  EndsAt(Tail(q), k, IF Tells(Head(q), k) THEN Value(Head(q)) ELSE w, x)
<1> DEFINE r == Tail(q)
<1>1. /\ Len(q) \in Nat \ {0} /\ DOMAIN q = 1..Len(q)
      /\ r \in Seq(Events) /\ Len(r) = Len(q) - 1 /\ DOMAIN r = 1..(Len(q) - 1)
      /\ \A i \in 1..(Len(q) - 1) : r[i] = q[i + 1]
      /\ Head(q) = q[1]
  <2>1. Len(q) \in Nat /\ Len(q) # 0 /\ DOMAIN q = 1..Len(q) /\ Head(q) = q[1]
    OBVIOUS
  <2>2. r \in Seq(Events) /\ Len(r) = Len(q) - 1 /\ \A i \in 1..Len(r) : r[i] = q[i + 1]
    OBVIOUS
  <2>3. DOMAIN r = 1..Len(r)
    BY <2>2
  <2> QED BY <2>1, <2>2, <2>3
<1> HIDE DEF r
<1>2. \A i \in DOMAIN r : i \in Nat /\ i + 1 \in DOMAIN q /\ r[i] = q[i + 1]
  BY <1>1
<1>3. \A i \in DOMAIN q : i \in Nat /\ (i # 1 => i - 1 \in DOMAIN r /\ i - 1 \in Nat /\ q[i] = r[i - 1])
  BY <1>1
<1>4. 1 \in DOMAIN q
  BY <1>1
<1>5. CASE (\A i \in DOMAIN q : ~Tells(q[i], k)) /\ w = x
  <2>1. ~Tells(Head(q), k) /\ \A i \in DOMAIN r : ~Tells(r[i], k)
    BY <1>1, <1>2, <1>4, <1>5
  <2> QED BY <1>5, <2>1 DEF EndsAt, r
<1>6. ASSUME NEW i \in DOMAIN q, Tells(q[i], k), Value(q[i]) = x,
             \A j \in DOMAIN q : j > i => ~Tells(q[j], k)
      PROVE  EndsAt(r, k, IF Tells(Head(q), k) THEN Value(Head(q)) ELSE w, x)
  <2>1. ASSUME NEW j \in DOMAIN r, j + 1 > i PROVE ~Tells(r[j], k)
    BY <1>2, <1>6, <2>1
  <2>2. CASE i = 1
    <3>1. \A j \in DOMAIN r : j + 1 > i
      BY <1>1, <2>2
    <3>2. \A j \in DOMAIN r : ~Tells(r[j], k)
      BY <2>1, <3>1
    <3>3. Tells(Head(q), k) /\ Value(Head(q)) = x
      BY <1>1, <1>6, <2>2
    <3> QED BY <3>2, <3>3 DEF EndsAt
  <2>3. CASE i # 1
    <3>1. i - 1 \in DOMAIN r /\ q[i] = r[i - 1]
      BY <1>3, <2>3
    <3>2. \A j \in DOMAIN r : j > i - 1 => j + 1 > i
      BY <1>2, <1>3
    <3>3. \A j \in DOMAIN r : j > i - 1 => ~Tells(r[j], k)
      BY <2>1, <3>2
    <3> QED BY <1>6, <3>1, <3>3 DEF EndsAt
  <2> QED BY <2>2, <2>3
<1> QED BY <1>5, <1>6 DEF EndsAt, r

(* An event that tells something of a user names the user.                 *)
LEMMA TellsNames ==
  ASSUME NEW e \in Events, NEW k, Tells(e, k)
  PROVE  "key" \in DOMAIN e /\ e.key = k /\ k \in Keys
BY DEF Tells, Events

LEMMA UserNamed ==
  ASSUME NEW evs \in Seq(Events), NEW i \in DOMAIN evs, NEW k, Tells(evs[i], k)
  PROVE  k \in {evs[j].key : j \in {l \in DOMAIN evs : "key" \in DOMAIN evs[l]}}
<1>1. evs[i] \in Events
  OBVIOUS
<1>2. "key" \in DOMAIN evs[i] /\ evs[i].key = k
  BY <1>1, TellsNames
<1> QED BY <1>2

(* A call whose events tell of every user it changes, and truly, keeps the *)
(* invariant unless it crosses another call about the same user.           *)
LEMMA NewsOfCall ==
  ASSUME TypeOK, TypeOK', AtRest, NewsIsTrue, NewsIsOut, ~Crossing',
         NEW p \in Procs, NEW w, Starts(p, w), w.stage # "idle", UNCHANGED subVars,
         \A k \in Keys : UsersNow'[k] # UsersNow[k] => \E i \in DOMAIN w.events : Tells(w.events[i], k),
         \A k \in Keys : \A i \in DOMAIN w.events :
           Tells(w.events[i], k) => Value(w.events[i]) = UsersNow'[k]
  PROVE  NewsIsTrue' /\ NewsIsOut'
<1>1. /\ pend'[p] = w /\ \A q \in Procs : q # p => pend'[q] = pend[q]
      /\ pend[p].events = <<>>
      /\ \A q \in Procs : pend'[q].events \in Seq(Events)
  BY Zenon DEF TypeOK, Starts, AtRest
<1>2. UNCHANGED <<sub, queue, view, lost>>
  BY DEF subVars
<1>3. ASSUME NEW k \in Keys, UsersNow'[k] # UsersNow[k], NEW q \in Procs, q # p,
             NEW j \in DOMAIN pend'[q].events, Tells(pend'[q].events[j], k)
      PROVE  FALSE
  <2>1. PICK i \in DOMAIN w.events : Tells(w.events[i], k)
    BY Zenon, <1>3
  <2>2. k \in UserEventsOf(p)'
    BY Zenon, <1>1, <2>1, UserNamed DEF UserEventsOf
  <2>3. k \in UserEventsOf(q)'
    BY Zenon, <1>1, <1>3, UserNamed DEF UserEventsOf
  <2> QED BY Zenon, <1>3, <2>2, <2>3 DEF Crossing
<1>4. NewsIsTrue'
  <2> SUFFICES ASSUME NEW q \in Procs, NEW k \in Keys, NEW i \in DOMAIN pend'[q].events,
                      Tells(pend'[q].events[i], k)
               PROVE  Value(pend'[q].events[i]) = UsersNow'[k]
    BY Zenon DEF NewsIsTrue
  <2>1. CASE q = p
    BY Zenon, <1>1, <2>1
  <2>2. CASE q # p
    <3>1. UsersNow'[k] = UsersNow[k]
      BY Zenon, <1>3, <2>2
    <3>2. pend'[q] = pend[q]
      BY Zenon, <1>1, <2>2
    <3>3. pend'[q].events = pend[q].events
      BY Zenon, <3>2
    <3>4. i \in DOMAIN pend[q].events /\ Tells(pend[q].events[i], k)
      BY Zenon, <3>3
    <3>5. Value(pend[q].events[i]) = UsersNow[k]
      BY Zenon, <3>4 DEF NewsIsTrue
    <3> QED BY Zenon, <3>1, <3>3, <3>5
  <2> QED BY Zenon, <2>1, <2>2
<1>5. NewsIsOut'
  <2> SUFFICES ASSUME NEW s \in Subs, NEW k \in Keys, Subscribed(s)', ~lost'[s],
                      \A q \in Procs : ~ToTell(q, k)'
               PROVE  EndsAt(queue'[s], k, Belief(s, k)', UsersNow'[k])
    BY Zenon DEF NewsIsOut
  <2>1. UsersNow'[k] = UsersNow[k]
    BY Zenon, <1>1 DEF ToTell
  <2>2. \A q \in Procs : ~ToTell(q, k)
    <3>1. ~ToTell(p, k)
      <4>1. pend[p].events = <<>>
        BY Zenon, <1>1
      <4> QED BY Zenon, <4>1, NoneInEmpty DEF ToTell
    <3> QED BY Zenon, <1>1, <3>1 DEF ToTell
  <2>3. Subscribed(s) /\ ~lost[s] /\ Belief(s, k)' = Belief(s, k)
    BY Zenon, <1>2, <2>1 DEF Subscribed, Belief
  <2>4. EndsAt(queue[s], k, Belief(s, k), UsersNow[k])
    BY Zenon, <2>2, <2>3 DEF NewsIsOut
  <2> QED BY Zenon, <1>2, <2>1, <2>3, <2>4
<1> QED BY Zenon, <1>4, <1>5

(* What the hub holds of a user depends on the map of users alone.         *)
LEMMA HeldOf ==
  ASSUME NEW k \in Keys
  PROVE  /\ UsersNow[k] = IF users[k] # Null THEN users[k].topic ELSE Null
         /\ UsersNow'[k] = IF users'[k] # Null THEN users'[k].topic ELSE Null
BY Zenon DEF UsersNow, Present

(* A single event in a sequence.                                           *)
LEMMA OneEvent ==
  ASSUME NEW e
  PROVE  /\ Emitting(<<e>>).stage = "emit" /\ Saving(e).stage = "save"
         /\ DOMAIN Emitting(<<e>>).events = {1} /\ Emitting(<<e>>).events[1] = e
         /\ DOMAIN Saving(e).events = {1} /\ Saving(e).events[1] = e
BY DEF Emitting, Saving

(* A call about user j that leaves one event.                              *)
LEMMA NewsOfOne ==
  ASSUME IInv, TypeOK', AtRest, NewsIsTrue, NewsIsOut, ~Crossing',
         NEW p \in Procs, NEW j \in Keys, NEW u \in Users \cup {Null}, NEW e,
         Starts(p, Emitting(<<e>>)), UNCHANGED subVars,
         users' = [users EXCEPT ![j] = u],
         \/ Tells(e, j) /\ Value(e) = IF u # Null THEN u.topic ELSE Null
         \/ e.type \notin {"UserJoined", "TopicChanged", "UserLeft"}
            /\ u # Null /\ users[j] # Null /\ u.topic = users[j].topic
  PROVE  NewsIsTrue' /\ NewsIsOut'
<1> DEFINE w == Emitting(<<e>>)
<1>1. w.stage = "emit" /\ DOMAIN w.events = {1} /\ w.events[1] = e
  BY OneEvent
<1>2. users \in [Keys -> Users \cup {Null}] /\ TypeOK
  BY Zenon DEF IInv, TypeOK
<1>3. UsersNow'[j] = IF u # Null THEN u.topic ELSE Null
  BY <1>2, HeldOf
<1>4. \A k \in Keys : k # j => UsersNow'[k] = UsersNow[k]
  BY <1>2, HeldOf
<1>5. Starts(p, w)
  BY Zenon
<1> HIDE DEF w
<1>6. CASE Tells(e, j) /\ Value(e) = IF u # Null THEN u.topic ELSE Null
  <2>1. \A k \in Keys : Tells(e, k) => k = j
    BY <1>6 DEF Tells
  <2>2. \A k \in Keys : UsersNow'[k] # UsersNow[k] => \E i \in DOMAIN w.events : Tells(w.events[i], k)
    BY <1>1, <1>4, <1>6
  <2>3. \A k \in Keys : \A i \in DOMAIN w.events :
          Tells(w.events[i], k) => Value(w.events[i]) = UsersNow'[k]
    BY <1>1, <1>3, <1>6, <2>1
  <2> QED BY <1>1, <1>2, <1>5, <2>2, <2>3, NewsOfCall
<1>7. CASE e.type \notin {"UserJoined", "TopicChanged", "UserLeft"}
           /\ u # Null /\ users[j] # Null /\ u.topic = users[j].topic
  <2>1. \A k \in Keys : ~Tells(e, k)
    BY <1>7 DEF Tells
  <2>2. UsersNow'[j] = UsersNow[j]
    BY <1>3, <1>7, HeldOf
  <2> QED BY <1>1, <1>2, <1>4, <1>5, <2>1, <2>2, NewsOfCall
<1> QED BY <1>6, <1>7

(* An order of a set lists every member.                                   *)
LEMMA OrderIsAll ==
  ASSUME NEW S, NEW order \in Orders(S), NEW k \in S
  PROVE  \E i \in DOMAIN order : order[i] = k
BY DEF Orders, Bijection, Surjection

LEMMA SeqIs ==
  ASSUME NEW S, NEW s \in Seq(S)
  PROVE  Len(s) \in Nat /\ DOMAIN s = 1..Len(s) /\ \A i \in DOMAIN s : s[i] \in S
OBVIOUS

LEMMA AllButLast ==
  ASSUME NEW n \in Nat, NEW i \in 1..(n + 1), i # n + 1
  PROVE  i \in 1..n
OBVIOUS

(* UnlinkNode's cascade announces exactly the users it removes.            *)
LEMMA NewsOfUnlink ==
  ASSUME IInv, TypeOK', AtRest, NewsIsTrue, NewsIsOut, ~Crossing',
         NEW p \in Procs, NEW n \in Nodes, UnlinkNode(p, n)
  PROVE  NewsIsTrue' /\ NewsIsOut'
<1> DEFINE left == LearnedVia(n)
<1>0. TypeOK
  BY Zenon DEF IInv
<1>1. left \in SUBSET Keys
  BY DEF LearnedVia
<1>2. PICK order \in Orders(left) : Starts(p, Emitting(UnlinkEvents(n, order)))
  BY Zenon DEF UnlinkNode
<1>3. /\ users' = [k \in Keys |-> IF k \in left THEN Null ELSE users[k]]
      /\ UNCHANGED subVars
  BY Zenon DEF UnlinkNode
<1>4. order \in Seq(left) /\ \A k \in left : \E i \in DOMAIN order : order[i] = k
  BY <1>1, OrderIsSeq, OrderIsAll
<1> DEFINE gone == [i \in DOMAIN order |-> UserEvent("UserLeft", order[i], users[order[i]])]
           last == [type |-> "NodeUnlinked", node |-> n]
           evs  == Append(gone, last)
           w    == Emitting(evs)
<1> HIDE DEF left
<1>5. Len(order) \in Nat /\ DOMAIN order = 1..Len(order) /\ \A i \in DOMAIN order : order[i] \in left
  BY Zenon, <1>4, SeqIs
<1>6. \A i \in DOMAIN order : /\ gone[i].type = "UserLeft" /\ gone[i].key = order[i]
                              /\ Value(gone[i]) = Null
  BY DEF UserEvent, Value
<1>7. last.type = "NodeUnlinked"
  OBVIOUS
<1>8. gone \in Seq({gone[i] : i \in DOMAIN order}) /\ Len(gone) = Len(order)
  BY <1>5
<1>9. w.stage = "emit" /\ w.events = evs /\ Starts(p, w)
  BY <1>2 DEF Emitting, UnlinkEvents
<1> HIDE DEF gone, last, w
<1>10. /\ DOMAIN evs = 1..(Len(order) + 1)
       /\ \A i \in DOMAIN order : i \in DOMAIN evs /\ evs[i] = gone[i]
       /\ evs[Len(order) + 1] = last
  BY <1>5, <1>8
<1> HIDE DEF evs
<1>11. \A k \in Keys : \A i \in DOMAIN evs : Tells(evs[i], k) => k \in left /\ Value(evs[i]) = Null
  <2> SUFFICES ASSUME NEW k \in Keys, NEW i \in DOMAIN evs, Tells(evs[i], k)
               PROVE  k \in left /\ Value(evs[i]) = Null
    OBVIOUS
  <2>1. i # Len(order) + 1
    BY <1>7, <1>10 DEF Tells
  <2>2. i \in DOMAIN order
    BY Zenon, <1>5, <1>10, <2>1, AllButLast
  <2> QED BY Zenon, <1>5, <1>6, <1>10, <2>2 DEF Tells
<1>12. \A k \in left : \E i \in DOMAIN evs : Tells(evs[i], k)
  BY <1>4, <1>6, <1>10 DEF Tells
<1>13. \A k \in Keys : UsersNow'[k] = IF k \in left THEN Null ELSE UsersNow[k]
  BY Zenon, <1>3, HeldOf
<1> QED BY Zenon, <1>0, <1>3, <1>9, <1>11, <1>12, <1>13, NewsOfCall

LEMMA NewsOfCalls ==
  ASSUME IInv, TypeOK', AtRest, NewsIsTrue, NewsIsOut, ~Crossing',
         NEW p \in Procs, Call(p)
  PROVE  NewsIsTrue' /\ NewsIsOut'
<1>0. TypeOK /\ NamesFold /\ users \in [Keys -> Users \cup {Null}]
  BY Zenon DEF IInv, MapInv, TypeOK
<1>1. ASSUME NEW j \in Keys, NEW l \in LinksOf(j), NEW i \in InfosOf(j), Join(p, j, l, i)
      PROVE  NewsIsTrue' /\ NewsIsOut'
  <2> DEFINE u == [topic |-> Canon(DefaultTopic), link |-> l, info |-> i, flags |-> NoFlags]
             e == UserEvent("UserJoined", j, u)
  <2>1. u \in Users /\ u # Null
    <3>1. Canon(DefaultTopic) \in Names /\ i \in Infos
      BY <1>0, CanonOK DEF InfosOf
    <3> QED BY <3>1 DEF Users, LinksOf
  <2>2. Tells(e, j) /\ Value(e) = u.topic
    BY DEF Tells, Value, UserEvent
  <2>3. Starts(p, Emitting(<<e>>)) /\ users' = [users EXCEPT ![j] = u] /\ UNCHANGED subVars
    BY <1>1 DEF Join
  <2> HIDE DEF u, e
  <2> QED BY <2>1, <2>2, <2>3, NewsOfOne
<1>2. ASSUME NEW j \in Keys, Leave(p, j) PROVE NewsIsTrue' /\ NewsIsOut'
  <2> DEFINE e == UserEvent("UserLeft", j, users[j])
  <2>1. Tells(e, j) /\ Value(e) = Null
    BY DEF Tells, Value, UserEvent
  <2>2. Starts(p, Emitting(<<e>>)) /\ users' = [users EXCEPT ![j] = Null] /\ UNCHANGED subVars
    BY Zenon, <1>2 DEF Leave
  <2> HIDE DEF e
  <2> QED BY Zenon, <2>1, <2>2, NewsOfOne
<1>3. ASSUME NEW j \in Keys, NEW name \in Names, SetTopic(p, j, name) PROVE NewsIsTrue' /\ NewsIsOut'
  <2> DEFINE u == [users[j] EXCEPT !.topic = Canon(name)]
             e == UserEvent("TopicChanged", j, u)
  <2>1. u \in Users /\ u # Null
    <3>1. users[j] \in Users /\ Canon(name) \in Names
      BY <1>0, <1>3, CanonOK DEF SetTopic, Present
    <3> QED BY <3>1 DEF Users
  <2>2. Tells(e, j) /\ Value(e) = u.topic
    BY DEF Tells, Value, UserEvent
  <2>3. Starts(p, Emitting(<<e>>)) /\ users' = [users EXCEPT ![j] = u] /\ UNCHANGED subVars
    BY <1>3 DEF SetTopic
  <2> HIDE DEF u, e
  <2> QED BY Zenon, <2>1, <2>2, <2>3, NewsOfOne
<1>4. ASSUME NEW j \in Keys, \/ \E i \in Infos : SetInfo(p, j, i)
                             \/ \E f \in FlagSets : SetFlags(p, j, f)
      PROVE  NewsIsTrue' /\ NewsIsOut'
  <2> DEFINE e == UserEvent("UserInfoChanged", j, users[j])
  <2>1. users[j] \in Users /\ users[j] # Null
    BY <1>0, <1>4 DEF SetInfo, SetFlags, Present
  <2>2. PICK u \in Users : users' = [users EXCEPT ![j] = u] /\ u.topic = users[j].topic
    <3>1. ASSUME NEW i \in Infos, SetInfo(p, j, i)
          PROVE  \E u \in Users : users' = [users EXCEPT ![j] = u] /\ u.topic = users[j].topic
      <4>1. users' = [users EXCEPT ![j] = [users[j] EXCEPT !.info = i]]
        BY <3>1 DEF SetInfo
      <4>2. [users[j] EXCEPT !.info = i] \in Users /\ [users[j] EXCEPT !.info = i].topic = users[j].topic
        BY <2>1 DEF Users
      <4> QED BY Zenon, <4>1, <4>2
    <3>2. ASSUME NEW f \in FlagSets, SetFlags(p, j, f)
          PROVE  \E u \in Users : users' = [users EXCEPT ![j] = u] /\ u.topic = users[j].topic
      <4>1. users' = [users EXCEPT ![j] = [users[j] EXCEPT !.flags = f]]
        BY <3>2 DEF SetFlags
      <4>2. [users[j] EXCEPT !.flags = f] \in Users /\ [users[j] EXCEPT !.flags = f].topic = users[j].topic
        BY <2>1 DEF Users
      <4> QED BY <4>1, <4>2
    <3> QED BY <1>4, <3>1, <3>2
  <2>3. Starts(p, Emitting(<<e>>)) /\ UNCHANGED subVars
    BY <1>4 DEF SetInfo, SetFlags
  <2>4. e.type \notin {"UserJoined", "TopicChanged", "UserLeft"}
    BY DEF UserEvent
  <2>5. u # Null
    BY <2>2
  <2> HIDE DEF e
  <2> QED BY Zenon, <2>1, <2>2, <2>3, <2>4, <2>5, NewsOfOne
<1>5. ASSUME NEW w, Starts(p, w), w.stage # "idle", UNCHANGED subVars, users' = users,
             \A k \in Keys : \A i \in DOMAIN w.events : ~Tells(w.events[i], k)
      PROVE  NewsIsTrue' /\ NewsIsOut'
  <2>1. \A k \in Keys : UsersNow'[k] = UsersNow[k]
    BY Zenon, <1>5, HeldOf
  <2> QED BY Zenon, <1>0, <1>5, <2>1, NewsOfCall
<1>6. ASSUME NEW e, e.type \notin {"UserJoined", "TopicChanged", "UserLeft"},
             Starts(p, Saving(e)) \/ Starts(p, Emitting(<<e>>)), UNCHANGED subVars, users' = users
      PROVE  NewsIsTrue' /\ NewsIsOut'
  <2>1. \A k \in Keys : ~Tells(e, k)
    BY <1>6 DEF Tells
  <2>2. /\ Emitting(<<e>>).stage # "idle" /\ Saving(e).stage # "idle"
        /\ \A k \in Keys : \A i \in DOMAIN Emitting(<<e>>).events : ~Tells(Emitting(<<e>>).events[i], k)
        /\ \A k \in Keys : \A i \in DOMAIN Saving(e).events : ~Tells(Saving(e).events[i], k)
    <3>1. /\ Emitting(<<e>>).stage = "emit" /\ Saving(e).stage = "save"
          /\ DOMAIN Emitting(<<e>>).events = {1} /\ Emitting(<<e>>).events[1] = e
          /\ DOMAIN Saving(e).events = {1} /\ Saving(e).events[1] = e
      BY Zenon, OneEvent
    <3>2. \A i \in {1} : i = 1
      OBVIOUS
    <3>3. Emitting(<<e>>).stage # "idle" /\ Saving(e).stage # "idle"
      BY Zenon, <3>1
    <3> QED BY Zenon, <2>1, <3>1, <3>2, <3>3
  <2> QED BY <1>5, <1>6, <2>2
<1>7. ASSUME NEW j \in Keys, \/ \E text \in Texts : Post(p, j, text)
                             \/ \E to \in Calls, text \in Texts : Private(p, j, to, text)
      PROVE  NewsIsTrue' /\ NewsIsOut'
  <2>1. ASSUME NEW text \in Texts, Post(p, j, text) PROVE NewsIsTrue' /\ NewsIsOut'
    <3> DEFINE e == [type |-> "TopicMessage",
                     id |-> SynthID(j, "topic", normTopicKey[users[j].topic], text)]
    <3>1. e.type \notin {"UserJoined", "TopicChanged", "UserLeft"}
      OBVIOUS
    <3>2. Starts(p, Saving(e)) /\ UNCHANGED subVars /\ users' = users
      BY Zenon, <2>1 DEF Post, mapVars
    <3> HIDE DEF e
    <3> QED BY Zenon, <1>6, <3>1, <3>2
  <2>2. ASSUME NEW to \in Calls, NEW text \in Texts, Private(p, j, to, text)
        PROVE  NewsIsTrue' /\ NewsIsOut'
    <3> DEFINE e == [type |-> "PrivateMessage", id |-> SynthID(j, "private", to, text)]
    <3>1. e.type \notin {"UserJoined", "TopicChanged", "UserLeft"}
      OBVIOUS
    <3>2. Starts(p, Saving(e)) /\ UNCHANGED subVars /\ users' = users
      BY <2>2 DEF Private, mapVars
    <3> HIDE DEF e
    <3> QED BY <1>6, <3>1, <3>2
  <2> QED BY <1>7, <2>1, <2>2
<1>8. ASSUME NEW n \in Nodes, LinkNode(p, n) PROVE NewsIsTrue' /\ NewsIsOut'
  <2> DEFINE e == [type |-> "NodeLinked", node |-> n]
  <2>1. e.type \notin {"UserJoined", "TopicChanged", "UserLeft"}
    OBVIOUS
  <2>2. Starts(p, Emitting(<<e>>)) /\ UNCHANGED subVars /\ users' = users
    BY <1>8 DEF LinkNode
  <2> HIDE DEF e
  <2> QED BY <1>6, <2>1, <2>2
<1> QED BY <1>1, <1>2, <1>3, <1>4, <1>7, <1>8, NewsOfUnlink DEF Call

(* The message a call saves tells nothing of a user's whereabouts.         *)
LEMMA NewsOfSave ==
  ASSUME IInv, NewsIsTrue, NewsIsOut, NEW p \in Procs, Save(p)
  PROVE  NewsIsTrue' /\ NewsIsOut'
<1>0. TypeOK /\ PendShape
  BY DEF IInv
<1>1. UNCHANGED <<users, sub, queue, view, lost>> /\ pend[p].stage = "save"
  BY DEF Save, mapVars, subVars
<1>2. PICK e \in Events : IsMessage(e) /\ pend[p].events = <<e>>
  BY Zenon, <1>0, <1>1 DEF PendShape
<1>3. \A k \in Keys : \A i \in DOMAIN pend[p].events : ~Tells(pend[p].events[i], k)
  <2>1. DOMAIN <<e>> = {1} /\ <<e>>[1] = e
    OBVIOUS
  <2>2. \A k \in Keys : ~Tells(e, k)
    BY <1>2 DEF IsMessage, Tells
  <2>3. \A i \in DOMAIN <<e>> : <<e>>[i] = e
    BY <2>1
  <2>4. pend[p].events = <<e>>
    BY Zenon, <1>2
  <2> QED BY Zenon, <2>2, <2>3, <2>4
<1>4. /\ pend'[p].events = pend[p].events \/ pend'[p].events = <<>>
      /\ \A q \in Procs : q # p => pend'[q] = pend[q]
  BY <1>0 DEF Save, TypeOK, Idle
<1>5. \A k \in Keys : \A i \in DOMAIN pend'[p].events : ~Tells(pend'[p].events[i], k)
  BY Zenon, <1>3, <1>4, NoneInEmpty
<1>6. \A k \in Keys : UsersNow'[k] = UsersNow[k]
  BY <1>1, HeldOf
<1>7. NewsIsTrue'
  <2> SUFFICES ASSUME NEW q \in Procs, NEW k \in Keys, NEW i \in DOMAIN pend'[q].events,
                      Tells(pend'[q].events[i], k)
               PROVE  Value(pend'[q].events[i]) = UsersNow'[k]
    BY Zenon DEF NewsIsTrue
  <2>1. q # p
    BY Zenon, <1>5
  <2>2. pend'[q] = pend[q] /\ UsersNow'[k] = UsersNow[k]
    BY Zenon, <1>4, <1>6, <2>1
  <2> QED BY Zenon, <2>2, NewsKept
<1>8. NewsIsOut'
  <2> SUFFICES ASSUME NEW s \in Subs, NEW k \in Keys, Subscribed(s)', ~lost'[s],
                      \A q \in Procs : ~ToTell(q, k)'
               PROVE  EndsAt(queue'[s], k, Belief(s, k)', UsersNow'[k])
    BY Zenon DEF NewsIsOut
  <2>1. \A q \in Procs : ~ToTell(q, k)
    BY Zenon, <1>3, <1>4 DEF ToTell
  <2>2. Subscribed(s) /\ ~lost[s] /\ Belief(s, k)' = Belief(s, k)
    BY Zenon, <1>1, <1>6 DEF Subscribed, Belief
  <2> QED BY Zenon, <1>1, <1>6, <2>1, <2>2 DEF NewsIsOut
<1> QED BY <1>7, <1>8

(* The first and the later events of a goroutine.                          *)
LEMMA FirstAndRest ==
  ASSUME NEW q \in Seq(Events), q # <<>>
  PROVE  /\ 1 \in DOMAIN q /\ Head(q) = q[1]
         /\ \A i \in DOMAIN Tail(q) : i + 1 \in DOMAIN q /\ Tail(q)[i] = q[i + 1]
         /\ \A i \in DOMAIN q : i = 1 \/ (i - 1 \in DOMAIN Tail(q) /\ Tail(q)[i - 1] = q[i])
<1>1. Len(q) \in Nat /\ Len(q) # 0 /\ DOMAIN q = 1..Len(q) /\ Head(q) = q[1]
  OBVIOUS
<1>2. Tail(q) \in Seq(Events) /\ Len(Tail(q)) = Len(q) - 1 /\ \A i \in 1..Len(Tail(q)) : Tail(q)[i] = q[i + 1]
  OBVIOUS
<1>3. DOMAIN Tail(q) = 1..Len(Tail(q))
  BY <1>2
<1> QED BY <1>1, <1>2, <1>3

LEMMA NewsOfEmit ==
  ASSUME IInv, NewsIsTrue, NewsIsOut, NEW p \in Procs, Emit(p)
  PROVE  NewsIsTrue' /\ NewsIsOut'
<1> DEFINE evs == pend[p].events
           e   == Head(evs)
<1>0. TypeOK /\ PendShape
  BY DEF IInv
<1>1. evs \in Seq(Events) /\ evs # <<>>
  BY <1>0 DEF Emit, TypeOK, PendShape
<1>2. e \in Events /\ (Len(evs) = 1 => Tail(evs) = <<>>)
  BY <1>1, HeadTail
<1>3. UNCHANGED <<users, sub, view>>
  BY DEF Emit, mapVars
<1>4. \A k \in Keys : UsersNow'[k] = UsersNow[k]
  BY Zenon, <1>3, HeldOf
<1>5. /\ \A q \in Procs : q # p => pend'[q] = pend[q]
      /\ pend'[p].events = Tail(evs)
  <2>1. /\ Len(evs) = 1 => pend' = [pend EXCEPT ![p] = Idle]
        /\ Len(evs) # 1 => pend' = [pend EXCEPT ![p].events = Tail(evs)]
    BY DEF Emit
  <2>2. pend \in [Procs -> [stage: {"idle", "save", "emit"}, events: Seq(Events)]]
    BY Zenon, <1>0 DEF TypeOK
  <2> HIDE DEF evs
  <2>3. CASE Len(evs) = 1
    <3>1. pend' = [pend EXCEPT ![p] = Idle] /\ Idle.events = <<>>
      BY <2>1, <2>3 DEF Idle
    <3> QED BY <1>2, <2>2, <2>3, <3>1
  <2>4. CASE Len(evs) # 1
    BY <2>1, <2>2, <2>4
  <2> QED BY <2>3, <2>4
<1>6. /\ 1 \in DOMAIN evs /\ e = evs[1]
      /\ \A i \in DOMAIN Tail(evs) : i + 1 \in DOMAIN evs /\ Tail(evs)[i] = evs[i + 1]
      /\ \A i \in DOMAIN evs : i = 1 \/ (i - 1 \in DOMAIN Tail(evs) /\ Tail(evs)[i - 1] = evs[i])
  BY <1>1, FirstAndRest
<1>7. NewsIsTrue'
  <2> SUFFICES ASSUME NEW q \in Procs, NEW k \in Keys, NEW i \in DOMAIN pend'[q].events,
                      Tells(pend'[q].events[i], k)
               PROVE  Value(pend'[q].events[i]) = UsersNow'[k]
    BY Zenon DEF NewsIsTrue
  <2>1. CASE q = p
    <3>1. i \in DOMAIN Tail(evs) /\ pend'[q].events[i] = Tail(evs)[i]
      BY Zenon, <1>5, <2>1
    <3>2. i + 1 \in DOMAIN evs /\ pend'[q].events[i] = evs[i + 1]
      BY Zenon, <1>6, <3>1
    <3>3. Value(evs[i + 1]) = UsersNow[k]
      BY Zenon, <3>2 DEF NewsIsTrue
    <3> QED BY Zenon, <1>4, <3>2, <3>3
  <2>2. CASE q # p
    <3>1. pend'[q] = pend[q] /\ UsersNow'[k] = UsersNow[k]
      BY Zenon, <1>4, <1>5, <2>2
    <3> QED BY Zenon, <3>1, NewsKept
  <2> QED BY Zenon, <2>1, <2>2
<1>8. NewsIsOut'
  <2> SUFFICES ASSUME NEW s \in Subs, NEW k \in Keys, Subscribed(s)', ~lost'[s],
                      \A q \in Procs : ~ToTell(q, k)'
               PROVE  EndsAt(queue'[s], k, Belief(s, k)', UsersNow'[k])
    BY Zenon DEF NewsIsOut
  <2>1. Subscribed(s) /\ Belief(s, k)' = Belief(s, k)
    BY Zenon, <1>3, <1>4 DEF Subscribed, Belief
  <2>2. ~lost[s] /\ queue'[s] = Append(queue[s], e)
    <3>1. /\ queue'[s] = IF Subscribed(s) /\ HasRoom(s) THEN Append(queue[s], e) ELSE queue[s]
          /\ lost'[s] = (lost[s] \/ (Subscribed(s) /\ ~HasRoom(s)))
      BY DEF Emit
    <3> HIDE DEF evs, e
    <3>2. ~lost[s] /\ HasRoom(s)
      BY <2>1, <3>1, Zenon
    <3> QED BY Zenon, <2>1, <3>1, <3>2
  <2>3. queue[s] \in Seq(Events)
    BY <1>0 DEF TypeOK
  <2>4. CASE Tells(e, k)
    <3>1. \A i \in DOMAIN evs : Tells(evs[i], k) => Value(evs[i]) = UsersNow[k]
      BY Zenon DEF NewsIsTrue
    <3> HIDE DEF evs, e
    <3>2. Value(e) = UsersNow[k]
      BY Zenon, <1>6, <2>4, <3>1
    <3>3. EndsAt(Append(queue[s], e), k, Belief(s, k), UsersNow[k])
      BY Zenon, <1>2, <2>3, <2>4, <3>2, EndsAppend
    <3> QED BY Zenon, <1>4, <2>1, <2>2, <3>3
  <2>5. CASE ~Tells(e, k)
    <3>1. \A q \in Procs : ~ToTell(q, k)
      <4>1. ~ToTell(p, k)
        BY Zenon, <1>5, <1>6, <2>5 DEF ToTell
      <4> QED BY Zenon, <1>5, <4>1 DEF ToTell
    <3>2. EndsAt(queue[s], k, Belief(s, k), UsersNow[k])
      BY Zenon, <2>1, <2>2, <3>1 DEF NewsIsOut
    <3> HIDE DEF evs, e
    <3>3. EndsAt(Append(queue[s], e), k, Belief(s, k), UsersNow[k])
      BY Zenon, <1>2, <2>3, <2>5, <3>2, EndsAppend
    <3> QED BY Zenon, <1>4, <2>1, <2>2, <3>3
  <2> QED BY Zenon, <2>4, <2>5
<1> QED BY <1>7, <1>8

(* The steps of a subscriber.  A channel starts empty, the snapshot is of  *)
(* what the hub holds, and reading an event is learning it.                *)
LEMMA NewsOfSub ==
  ASSUME IInv, AtRest, NewsIsTrue, NewsIsOut, NEW r \in Subs,
         Subscribe(r) \/ Snapshot(r) \/ Receive(r) \/ Cancel(r)
  PROVE  NewsIsTrue' /\ NewsIsOut'
<1>0. TypeOK
  BY DEF IInv
<1>1. UNCHANGED <<users, pend, lost>>
  BY Zenon DEF Subscribe, Snapshot, Receive, Cancel, mapVars
<1>2. \A k \in Keys : UsersNow'[k] = UsersNow[k]
  BY Zenon, <1>1, HeldOf
<1>3. NewsIsTrue'
  BY Zenon, <1>1, <1>2 DEF NewsIsTrue
<1>4. NewsIsOut'
  <2> SUFFICES ASSUME NEW s \in Subs, NEW k \in Keys, Subscribed(s)', ~lost[s],
                      \A q \in Procs : ~ToTell(q, k)
               PROVE  EndsAt(queue'[s], k, Belief(s, k)', UsersNow[k])
    BY Zenon, <1>1, <1>2 DEF NewsIsOut, ToTell
  <2>0. Subscribed(s) => EndsAt(queue[s], k, Belief(s, k), UsersNow[k])
    BY Zenon DEF NewsIsOut
  <2>1. CASE s # r
    <3>1. sub'[s] = sub[s] /\ queue'[s] = queue[s] /\ view'[s] = view[s]
      BY Zenon, <1>0, <2>1 DEF Subscribe, Snapshot, Receive, Cancel, TypeOK
    <3> QED BY Zenon, <1>2, <2>0, <3>1 DEF Subscribed, Belief
  <2>2. CASE s = r /\ Subscribe(r)
    <3>1. sub'[s] = "open" /\ queue'[s] = <<>>
      BY <1>0, <2>2 DEF Subscribe, TypeOK, AtRest
    <3>2. Belief(s, k)' = UsersNow[k]
      BY Zenon, <1>2, <3>1 DEF Belief
    <3>3. EndsAt(<<>>, k, UsersNow[k], UsersNow[k])
      BY Zenon, EndsEmpty
    <3> QED BY Zenon, <1>2, <3>1, <3>2, <3>3
  <2>3. CASE s = r /\ Snapshot(r)
    <3>1. sub[s] = "open" /\ sub'[s] = "live" /\ queue'[s] = queue[s] /\ view'[s] = UsersNow
      BY <1>0, <2>3 DEF Snapshot, TypeOK
    <3>2. Belief(s, k)' = Belief(s, k) /\ Subscribed(s)
      BY Zenon, <3>1 DEF Belief, Subscribed
    <3> QED BY Zenon, <2>0, <3>1, <3>2
  <2>4. CASE s = r /\ Receive(r)
    <3> DEFINE e == Head(queue[s])
    <3>1. /\ sub[s] = "live" /\ sub'[s] = "live" /\ queue[s] # <<>> /\ queue[s] \in Seq(Events)
          /\ queue'[s] = Tail(queue[s]) /\ view'[s] = Learn(view[s], e)
      BY Zenon, <1>0, <2>4 DEF Receive, TypeOK
    <3>2. e \in Events /\ view[s] \in [Keys -> Names \cup {Null}]
      BY Zenon, <1>0, <3>1, HeadTail DEF TypeOK
    <3> HIDE DEF e
    <3>3. Learn(view[s], e)[k] = IF Tells(e, k) THEN Value(e) ELSE view[s][k]
      <4>1. e.type \in {"UserJoined", "TopicChanged", "UserLeft"} => e.key \in Keys
        BY Zenon, <3>2 DEF Events
      <4>2. CASE e.type \in {"UserJoined", "TopicChanged"}
        BY <3>2, <4>1, <4>2 DEF Learn, Tells, Value
      <4>3. CASE e.type = "UserLeft"
        BY <3>2, <4>1, <4>3 DEF Learn, Tells, Value
      <4>4. CASE e.type \notin {"UserJoined", "TopicChanged", "UserLeft"}
        BY <4>4 DEF Learn, Tells
      <4> QED BY Zenon, <4>2, <4>3, <4>4
    <3>4. Belief(s, k) = view[s][k] /\ Belief(s, k)' = Learn(view[s], e)[k] /\ Subscribed(s)
      BY Zenon, <3>1 DEF Belief, Subscribed
    <3>5. EndsAt(queue[s], k, view[s][k], UsersNow[k])
      BY Zenon, <2>0, <3>4
    <3>6. EndsAt(Tail(queue[s]), k, IF Tells(e, k) THEN Value(e) ELSE view[s][k], UsersNow[k])
      BY Zenon, <3>1, <3>5, EndsTail DEF e
    <3> QED BY Zenon, <3>1, <3>3, <3>4, <3>6
  <2>5. CASE s = r /\ Cancel(r)
    <3>1. sub'[s] = "closed"
      BY <1>0, <2>5 DEF Cancel, TypeOK
    <3> QED BY Zenon, <3>1 DEF Subscribed
  <2> QED BY Zenon, <2>1, <2>2, <2>3, <2>4, <2>5
<1> QED BY <1>3, <1>4

LEMMA AtRestKept ==
  ASSUME IInv, AtRest, Next
  PROVE  AtRest'
<1>0. TypeOK
  BY DEF IInv
<1>1. ASSUME NEW p \in Procs, NEW w, Starts(p, w), w.stage # "idle", UNCHANGED <<sub, queue>>
      PROVE  AtRest'
  BY <1>0, <1>1 DEF AtRest, Starts, TypeOK
<1>2. ASSUME NEW p \in Procs, Call(p) PROVE AtRest'
  <2>1. PICK w : Starts(p, w) /\ w.stage # "idle" /\ UNCHANGED subVars
    <3>1. \A evs : Emitting(evs).stage # "idle"
      BY DEF Emitting
    <3>2. \A e : Saving(e).stage # "idle"
      BY DEF Saving
    <3>3. ASSUME NEW j \in Keys, NEW l, NEW i, Join(p, j, l, i)
          PROVE  \E w : Starts(p, w) /\ w.stage # "idle" /\ UNCHANGED subVars
      BY Zenon, <3>1, <3>3 DEF Join
    <3>4. ASSUME NEW j \in Keys, Leave(p, j)
          PROVE  \E w : Starts(p, w) /\ w.stage # "idle" /\ UNCHANGED subVars
      BY Zenon, <3>1, <3>4 DEF Leave
    <3>5. ASSUME NEW j \in Keys, NEW name, SetTopic(p, j, name)
          PROVE  \E w : Starts(p, w) /\ w.stage # "idle" /\ UNCHANGED subVars
      BY <3>1, <3>5 DEF SetTopic
    <3>6. ASSUME NEW j \in Keys, NEW i, SetInfo(p, j, i) \/ SetFlags(p, j, i)
          PROVE  \E w : Starts(p, w) /\ w.stage # "idle" /\ UNCHANGED subVars
      BY <3>1, <3>6 DEF SetInfo, SetFlags
    <3>7. ASSUME NEW j \in Keys, NEW to, NEW text, Post(p, j, text) \/ Private(p, j, to, text)
          PROVE  \E w : Starts(p, w) /\ w.stage # "idle" /\ UNCHANGED subVars
      BY Zenon, <3>2, <3>7 DEF Post, Private
    <3>8. ASSUME NEW n, LinkNode(p, n) \/ UnlinkNode(p, n)
          PROVE  \E w : Starts(p, w) /\ w.stage # "idle" /\ UNCHANGED subVars
      BY Zenon, <3>1, <3>8 DEF LinkNode, UnlinkNode
    <3> QED BY <1>2, <3>3, <3>4, <3>5, <3>6, <3>7, <3>8 DEF Call
  <2> QED BY <1>1, <2>1 DEF subVars
<1>3. ASSUME NEW p \in Procs, Save(p) PROVE AtRest'
  <2>1. UNCHANGED <<sub, queue>>
    BY <1>3 DEF Save, subVars
  <2>2. pend'[p].stage = "idle" => pend'[p].events = <<>>
    BY <1>0, <1>3 DEF Save, TypeOK, Idle
  <2>3. \A q \in Procs : q # p => pend'[q] = pend[q]
    BY <1>0, <1>3 DEF Save, TypeOK
  <2> QED BY <2>1, <2>2, <2>3 DEF AtRest
<1>4. ASSUME NEW p \in Procs, Emit(p) PROVE AtRest'
  <2>1. sub' = sub /\ \A s \in Subs : sub[s] = "none" => queue'[s] = queue[s]
    BY <1>4 DEF Emit, Subscribed
  <2>2. pend'[p].stage = "idle" => pend'[p].events = <<>>
    <3>1. pend \in [Procs -> [stage: {"idle", "save", "emit"}, events: Seq(Events)]]
      BY Zenon, <1>0 DEF TypeOK
    <3>2. pend[p].stage = "emit" /\ (\/ pend' = [pend EXCEPT ![p] = Idle]
                                    \/ pend' = [pend EXCEPT ![p].events = Tail(pend[p].events)])
      BY <1>4 DEF Emit
    <3>3. Idle.events = <<>>
      BY DEF Idle
    <3>4. CASE pend' = [pend EXCEPT ![p] = Idle]
      BY <3>1, <3>3, <3>4
    <3>5. CASE pend' = [pend EXCEPT ![p].events = Tail(pend[p].events)]
      BY <3>1, <3>2, <3>5
    <3> QED BY <3>2, <3>4, <3>5
  <2>3. \A q \in Procs : q # p => pend'[q] = pend[q]
    BY <1>0, <1>4 DEF Emit, TypeOK
  <2> QED BY <2>1, <2>2, <2>3 DEF AtRest
<1>5. ASSUME NEW s \in Subs, Subscribe(s) \/ Snapshot(s) \/ Receive(s) \/ Cancel(s) PROVE AtRest'
  <2>1. pend' = pend
    BY <1>5 DEF Subscribe, Snapshot, Receive, Cancel
  <2>2. \A r \in Subs : sub'[r] = "none" => sub[r] = "none" /\ queue'[r] = queue[r]
    BY Zenon, <1>0, <1>5 DEF Subscribe, Snapshot, Receive, Cancel, TypeOK
  <2> QED BY <2>1, <2>2 DEF AtRest
<1> QED BY <1>2, <1>3, <1>4, <1>5 DEF Next

LEMMA StreamStep ==
  ASSUME IInv, IInv', StreamInv, Next, crossed' = (crossed \/ Crossing')
  PROVE  StreamInv'
<1>1. AtRest /\ AtRest'
  BY AtRestKept DEF StreamInv
<1>2. ASSUME ~crossed' PROVE NewsIsTrue' /\ NewsIsOut'
  <2>1. ~crossed /\ ~Crossing'
    BY <1>2, Zenon
  <2>2. NewsIsTrue /\ NewsIsOut /\ TypeOK'
    BY <2>1 DEF StreamInv, IInv
  <2>3. CASE \E p \in Procs : Call(p)
    BY <1>1, <2>1, <2>2, <2>3, NewsOfCalls
  <2>4. CASE \E p \in Procs : Save(p)
    BY <2>2, <2>4, NewsOfSave
  <2>5. CASE \E p \in Procs : Emit(p)
    BY <2>2, <2>5, NewsOfEmit
  <2>6. CASE \E s \in Subs : Subscribe(s) \/ Snapshot(s) \/ Receive(s) \/ Cancel(s)
    BY <1>1, <2>2, <2>6, NewsOfSub
  <2> QED BY <2>3, <2>4, <2>5, <2>6 DEF Next
<1> QED BY <1>1, <1>2 DEF StreamInv

LEMMA StreamInitial == MCInit => StreamInv
<1> SUFFICES ASSUME MCInit PROVE StreamInv
  OBVIOUS
<1>1. Init
  BY DEF MCInit
<1>2. \A p \in Procs : pend[p].events = <<>>
  BY <1>1 DEF Init, Idle
<1>3. \A s \in Subs : sub[s] = "none" /\ queue[s] = <<>>
  BY <1>1 DEF Init
<1>4. NewsIsTrue
  BY Zenon, <1>2, NoneInEmpty DEF NewsIsTrue
<1>5. NewsIsOut
  BY Zenon, <1>3 DEF NewsIsOut, Subscribed
<1> QED BY Zenon, <1>2, <1>3, <1>4, <1>5 DEF StreamInv, AtRest

LEMMA StreamMeans == IInv /\ StreamInv => StreamAgrees
<1> SUFFICES ASSUME IInv, StreamInv, ~crossed, NEW s \in Subs, CaughtUp(s)
             PROVE  view[s] = UsersNow
  BY DEF StreamAgrees
<1>1. sub[s] = "live" /\ queue[s] = <<>> /\ ~lost[s] /\ \A p \in Procs : pend[p] = Idle
  BY DEF CaughtUp
<1>2. \A p \in Procs, k \in Keys : ~ToTell(p, k)
  <2>1. Idle.events = <<>>
    BY DEF Idle
  <2> QED BY Zenon, <1>1, <2>1, NoneInEmpty DEF ToTell
<1>3. ASSUME NEW k \in Keys PROVE view[s][k] = UsersNow[k]
  <2>1. Subscribed(s) /\ Belief(s, k) = view[s][k]
    BY <1>1 DEF Subscribed, Belief
  <2>2. EndsAt(<<>>, k, view[s][k], UsersNow[k])
    BY Zenon, <1>1, <1>2, <2>1 DEF StreamInv, NewsIsOut
  <2> QED BY Zenon, <2>2, EndsEmpty
<1>4. view[s] \in [Keys -> Names \cup {Null}]
  BY DEF IInv, TypeOK
<1>5. UsersNow = [k \in Keys |-> UsersNow[k]]
  BY DEF UsersNow
<1> QED BY <1>3, <1>4, <1>5

(* hub.go Subscribe, emit and the subscriber's snapshot: a subscriber that *)
(* lost nothing and has caught up believes exactly what the hub holds,     *)
(* unless two calls about one user overlapped.                             *)
THEOREM StreamIsTrue == MCSpec => []StreamAgrees
<1>1. MCInit => IInv /\ StreamInv
  BY InitInv, StreamInitial DEF MCInit
<1>2. IInv /\ StreamInv /\ [MCNext]_<<vars, calls, crossed>> => (IInv /\ StreamInv)'
  <2>1. ASSUME IInv, StreamInv, MCNext PROVE (IInv /\ StreamInv)'
    <3>1. Next /\ crossed' = (crossed \/ Crossing')
      BY <2>1 DEF MCNext, Next
    <3>2. IInv'
      BY <2>1, <3>1, NextInv
    <3> QED BY <2>1, <3>1, <3>2, StreamStep
  <2>2. ASSUME IInv, StreamInv, UNCHANGED <<vars, calls, crossed>> PROVE (IInv /\ StreamInv)'
    <3>1. IInv'
      BY <2>2, NextInv
    <3>2. StreamInv'
      <4>1. UNCHANGED <<pend, sub, queue, view, lost, crossed>> /\ UsersNow' = UsersNow
        BY Zenon, <2>2 DEF UsersNow, Present, vars, mapVars, subVars
      <4>2. AtRest'
        BY <2>2, <4>1 DEF StreamInv, AtRest
      <4>3. NewsIsTrue => NewsIsTrue'
        BY Zenon, <4>1 DEF NewsIsTrue
      <4>4. \A p, k : ToTell(p, k)' <=> ToTell(p, k)
        BY Zenon, <4>1 DEF ToTell
      <4>5. \A s, k : Belief(s, k)' = Belief(s, k) /\ (Subscribed(s)' <=> Subscribed(s))
        BY Zenon, <4>1 DEF Belief, Subscribed
      <4>6. NewsIsOut => NewsIsOut'
        BY Zenon, <4>1, <4>4, <4>5 DEF NewsIsOut
      <4> QED BY <2>2, <4>1, <4>2, <4>3, <4>6 DEF StreamInv
    <3> QED BY <3>1, <3>2
  <2> QED BY <2>1, <2>2
<1> QED BY <1>1, <1>2, StreamMeans, PTL DEF MCSpec
=============================================================================
