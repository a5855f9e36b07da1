------------------------------ MODULE ChatHub ------------------------------
(***************************************************************************)
(* chat.Hub (internal/chat/hub.go): the in-RAM authority for users,        *)
(* presence, topics and the node graph, and the fan-out point for events.  *)
(*                                                                         *)
(* A hub method is run by some goroutine (a member of Procs).  It changes  *)
(* the maps under h.mu, RELEASES h.mu, and only then emits its events      *)
(* under h.subMu; so it is two steps here, one per critical section, and   *)
(* what it still has to emit is in pend.  Post and Private have a third    *)
(* step in between, where the message is recorded as seen and saved.       *)
(* A call that the code refuses (blank call, unknown user, empty text,     *)
(* same topic, nothing changed) changes no state and is no step.           *)
(***************************************************************************)
EXTENDS Naturals, Sequences, FiniteSets, Functions

CONSTANTS
  Calls,         \* user callsigns, canonical (normCall)
  Nodes,         \* node callsigns, ours included
  OurNode,       \* our chat callsign
  Names,         \* topic names as entered (spellings)
  TopicKeys,     \* case-folded topic names
  normTopicKey,  \* [Names -> TopicKeys]
  DefaultTopic,  \* the name "General"
  Infos, NoInfo, \* name/QTH pairs, and the blank one
  FlagSets, NoFlags, \* display flag settings, and the zero value
  Texts,         \* message texts after clip
  Subs,          \* subscriptions
  Procs,         \* goroutines that call the hub
  SubBuffer,     \* capacity of a subscriber's channel (subBuffer)
  Null           \* no user, no topic name, no ingress link, nobody

Keys  == Calls \X Nodes
Users == [topic: Names, link: Nodes \cup {Null}, info: Infos, flags: FlagSets]

ASSUME HubAssumption ==
  /\ OurNode \in Nodes
  /\ DefaultTopic \in Names
  /\ normTopicKey \in [Names -> TopicKeys]
  /\ NoInfo \in Infos /\ NoFlags \in FlagSets
  /\ SubBuffer \in Nat \ {0}
  /\ Null \notin Users \cup Names \cup Nodes \cup Procs

(* SynthID hashes content only, so the content is the id; the scope is     *)
(* case-folded, and there is no time stamp in it.                          *)
SynthID(key, kind, scope, text) ==
  [key |-> key, kind |-> kind, scope |-> scope, text |-> text]

MessageIDs == [key: Keys, kind: {"topic", "private"},
               scope: TopicKeys \cup Calls, text: Texts]

Events ==
  [type: {"UserJoined", "UserLeft", "TopicChanged", "UserInfoChanged"},
   key: Keys, topic: Names]
  \cup [type: {"TopicMessage", "PrivateMessage"}, id: MessageIDs]
  \cup [type: {"NodeLinked", "NodeUnlinked"}, node: Nodes]

IsMessage(e) == e.type \in {"TopicMessage", "PrivateMessage"}

UserEvent(type, k, u) == [type |-> type, key |-> k, topic |-> u.topic]

VARIABLES
  users,    \* [Keys -> Users or Null]
  topics,   \* topic key -> its display name, or Null
  member,   \* topic key -> keys of its members
  nodes,    \* nodes of the mesh graph
  store,    \* ids of the saved messages
  pend,     \* what each goroutine still has to do for its call
  subMu,    \* who holds h.subMu in the middle of an emit
  sub,      \* subscription -> "none", "open" (no snapshot yet), "live", "closed"
  queue,    \* subscription -> its buffered events
  view,     \* subscription -> what its consumer believes of every user
  got,      \* subscription -> the messages its consumer has been given
  lost      \* subscription -> an event of it was dropped

mapVars == <<users, topics, member, nodes>>
subVars == <<sub, queue, view, got, lost>>
vars    == <<mapVars, store, pend, subMu, subVars>>

Present(k) == users[k] # Null
Idle       == [stage |-> "idle", events |-> <<>>]
Emitting(evs) == [stage |-> "emit", events |-> evs]
Saving(ev)    == [stage |-> "save", events |-> <<ev>>]

TypeOK ==
  /\ users  \in [Keys -> Users \cup {Null}]
  /\ topics \in [TopicKeys -> Names \cup {Null}]
  /\ member \in [TopicKeys -> SUBSET Keys]
  /\ nodes \subseteq Nodes
  /\ store \subseteq MessageIDs
  /\ pend  \in [Procs -> [stage: {"idle", "save", "emit"}, events: Seq(Events)]]
  /\ subMu \in Procs \cup {Null}
  /\ sub   \in [Subs -> {"none", "open", "live", "closed"}]
  /\ queue \in [Subs -> Seq(Events)]
  /\ view  \in [Subs -> [Keys -> Names \cup {Null}]]
  /\ got   \in [Subs -> SUBSET MessageIDs]
  /\ lost  \in [Subs -> BOOLEAN]

Init ==
  /\ users  = [k \in Keys |-> Null]
  /\ topics = [t \in TopicKeys |->
                 IF t = normTopicKey[DefaultTopic] THEN DefaultTopic ELSE Null]
  /\ member = [t \in TopicKeys |-> {}]
  /\ nodes = {}
  /\ store = {}
  /\ pend  = [p \in Procs |-> Idle]
  /\ subMu = Null
  /\ sub   = [s \in Subs |-> "none"]
  /\ queue = [s \in Subs |-> <<>>]
  /\ view  = [s \in Subs |-> [k \in Keys |-> Null]]
  /\ got   = [s \in Subs |-> {}]
  /\ lost  = [s \in Subs |-> FALSE]

(* Faulty variants of the definitions below, each named for what it does   *)
(* wrong, are kept beside them to show that the properties catch them.     *)
CanonLatest(name)  == name

(* ensureTopicLocked: the topic's canonical name (first-seen casing wins). *)
Canon(name) ==
  IF topics[normTopicKey[name]] # Null THEN topics[normTopicKey[name]] ELSE name

EnsureTopic(name) == topics' = [topics EXCEPT ![normTopicKey[name]] = Canon(name)]

Starts(p, work) == /\ pend[p].stage = "idle"
                   /\ pend' = [pend EXCEPT ![p] = work]

-----------------------------------------------------------------------------
(* The operations: their critical section under h.mu.                      *)

(* Every caller joins with a blank topic: the default one.  The member set *)
(* of a topic the key was in before is left alone.                         *)
Join(p, k, l, i) ==
  LET u == [topic |-> Canon(DefaultTopic), link |-> l, info |-> i, flags |-> NoFlags]
  IN  /\ EnsureTopic(DefaultTopic)
      /\ users'  = [users EXCEPT ![k] = u]
      /\ member' = [member EXCEPT ![normTopicKey[u.topic]] = @ \cup {k}]
      /\ Starts(p, Emitting(<<UserEvent("UserJoined", k, u)>>))
      /\ UNCHANGED <<nodes, store, subMu, subVars>>

MembersKept(t, k)    == member
MembersWithout(t, k) == [member EXCEPT ![t] = @ \ {k}]

Leave(p, k) ==
  /\ Present(k)
  /\ users'  = [users EXCEPT ![k] = Null]
  /\ member' = MembersWithout(normTopicKey[users[k].topic], k)
  /\ Starts(p, Emitting(<<UserEvent("UserLeft", k, users[k])>>))
  /\ UNCHANGED <<topics, nodes, store, subMu, subVars>>

SetTopic(p, k, name) ==
  LET from == normTopicKey[users[k].topic]
      to   == normTopicKey[name]
      u    == [users[k] EXCEPT !.topic = Canon(name)]
  IN  /\ Present(k)
      /\ from # to
      /\ EnsureTopic(name)
      /\ users'  = [users EXCEPT ![k] = u]
      /\ member' = [member EXCEPT ![from] = @ \ {k}, ![to] = @ \cup {k}]
      /\ Starts(p, Emitting(<<UserEvent("TopicChanged", k, u)>>))
      /\ UNCHANGED <<nodes, store, subMu, subVars>>

SetInfo(p, k, i) ==
  /\ Present(k)
  /\ users[k].info # i
  /\ users' = [users EXCEPT ![k].info = i]
  /\ Starts(p, Emitting(<<UserEvent("UserInfoChanged", k, users[k])>>))
  /\ UNCHANGED <<topics, member, nodes, store, subMu, subVars>>

SetFlags(p, k, f) ==
  /\ Present(k)
  /\ users[k].flags # f
  /\ users' = [users EXCEPT ![k].flags = f]
  /\ Starts(p, Emitting(<<UserEvent("UserInfoChanged", k, users[k])>>))
  /\ UNCHANGED <<topics, member, nodes, store, subMu, subVars>>

(* The topic is read under h.mu and used after it is released.             *)
Post(p, k, text) ==
  /\ Present(k)
  /\ Starts(p, Saving([type |-> "TopicMessage",
                       id |-> SynthID(k, "topic", normTopicKey[users[k].topic], text)]))
  /\ UNCHANGED <<mapVars, store, subMu, subVars>>

(* The addressee must be present at some node.                             *)
Private(p, k, to, text) ==
  /\ Present(k)
  /\ \E n \in Nodes : Present(<<to, n>>)
  /\ Starts(p, Saving([type |-> "PrivateMessage",
                       id |-> SynthID(k, "private", to, text)]))
  /\ UNCHANGED <<mapVars, store, subMu, subVars>>

(* A known node only has its link time and version refreshed: no event.    *)
LinkNode(p, n) ==
  /\ n \notin nodes
  /\ nodes' = nodes \cup {n}
  /\ Starts(p, Emitting(<<[type |-> "NodeLinked", node |-> n]>>))
  /\ UNCHANGED <<users, topics, member, store, subMu, subVars>>

(* The users that go when node n is unlinked: learned over its link, or    *)
(* homed at it.                                                            *)
LearnedVia(n) == {k \in Keys : Present(k) /\ (users[k].link = n \/ k[2] = n)}

UnlinkEventsNodeOnly(n, order) == <<[type |-> "NodeUnlinked", node |-> n]>>

UnlinkEvents(n, order) ==
  Append([i \in DOMAIN order |-> UserEvent("UserLeft", order[i], users[order[i]])],
         [type |-> "NodeUnlinked", node |-> n])

Orders(S) == UNION {Bijection(1..n, S) : n \in 0..Cardinality(S)}

UnlinkNode(p, n) ==
  LET left == LearnedVia(n)
  IN  /\ n \in nodes
      /\ nodes'  = nodes \ {n}
      /\ users'  = [k \in Keys |-> IF k \in left THEN Null ELSE users[k]]
      /\ member' = [t \in TopicKeys |->
                      member[t] \ {k \in left : normTopicKey[users[k].topic] = t}]
      /\ \E order \in Orders(left) :    \* a Go map is ranged over in any order
           Starts(p, Emitting(UnlinkEvents(n, order)))
      /\ UNCHANGED <<topics, store, subMu, subVars>>

-----------------------------------------------------------------------------
(* The rest of a call: save (messages only), then emit.                    *)

SaveErrorIgnored(p) ==
  /\ pend[p].stage = "save"
  /\ store' \in {store, store \cup {Head(pend[p].events).id}}
  /\ pend' = [pend EXCEPT ![p].stage = "emit"]
  /\ UNCHANGED <<mapVars, subMu, subVars>>

(* SaveMessage ignores an id it has, and may fail: then nothing is emitted. *)
Save(p) ==
  /\ pend[p].stage = "save"
  /\ \/ /\ store' = store \cup {Head(pend[p].events).id}
        /\ pend'  = [pend EXCEPT ![p].stage = "emit"]
     \/ /\ pend'  = [pend EXCEPT ![p] = Idle]
        /\ UNCHANGED store
  /\ UNCHANGED <<mapVars, subMu, subVars>>

Subscribed(s) == sub[s] \in {"open", "live"}
HasRoom(s)    == Len(queue[s]) < SubBuffer

(* emit: one event goes to every open channel that has room; h.subMu is    *)
(* held until the call's last event is out, while consumers may drain.     *)
Emit(p) ==
  LET evs == pend[p].events
  IN  /\ pend[p].stage = "emit"
      /\ subMu \in {Null, p}
      /\ queue' = [s \in Subs |-> IF Subscribed(s) /\ HasRoom(s)
                                    THEN Append(queue[s], Head(evs)) ELSE queue[s]]
      /\ lost'  = [s \in Subs |-> lost[s] \/ (Subscribed(s) /\ ~HasRoom(s))]
      /\ IF Len(evs) = 1
           THEN pend' = [pend EXCEPT ![p] = Idle] /\ subMu' = Null
           ELSE pend' = [pend EXCEPT ![p].events = Tail(evs)] /\ subMu' = p
      /\ UNCHANGED <<mapVars, store, sub, view, got>>

-----------------------------------------------------------------------------
(* A subscriber: subscribe, take a snapshot of the history and the users,  *)
(* then follow the events (handleEvents; the router's snapshot is the      *)
(* empty hub it starts with).                                              *)

Subscribe(s) ==
  /\ sub[s] = "none" /\ subMu = Null
  /\ sub' = [sub EXCEPT ![s] = "open"]
  /\ UNCHANGED <<mapVars, store, pend, subMu, queue, view, got, lost>>

UsersNow == [k \in Keys |-> IF Present(k) THEN users[k].topic ELSE Null]

Snapshot(s) ==
  /\ sub[s] = "open"
  /\ sub'  = [sub EXCEPT ![s] = "live"]
  /\ view' = [view EXCEPT ![s] = UsersNow]
  /\ got'  = [got EXCEPT ![s] = store]
  /\ UNCHANGED <<mapVars, store, pend, subMu, queue, lost>>

(* What a consumer believes after one more event.                          *)
Learn(v, e) ==
  CASE e.type \in {"UserJoined", "TopicChanged"} -> [v EXCEPT ![e.key] = e.topic]
    [] e.type = "UserLeft"                       -> [v EXCEPT ![e.key] = Null]
    [] OTHER                                     -> v

Receive(s) ==
  /\ sub[s] = "live" /\ queue[s] # <<>>
  /\ queue' = [queue EXCEPT ![s] = Tail(@)]
  /\ view'  = [view EXCEPT ![s] = Learn(@, Head(queue[s]))]
  /\ got'   = [got EXCEPT ![s] = @ \cup
                 (IF IsMessage(Head(queue[s])) THEN {Head(queue[s]).id} ELSE {})]
  /\ UNCHANGED <<mapVars, store, pend, subMu, sub, lost>>

(* The cancel function Subscribe returns.                                  *)
Cancel(s) ==
  /\ Subscribed(s) /\ subMu = Null
  /\ sub'   = [sub EXCEPT ![s] = "closed"]
  /\ queue' = [queue EXCEPT ![s] = <<>>]
  /\ UNCHANGED <<mapVars, store, pend, subMu, view, got, lost>>

-----------------------------------------------------------------------------
(* A local user has no ingress link; a remote one has the peer's callsign. *)
(* Only a remote one may come with a name and QTH.                         *)
LinksOf(k) == IF k[2] = OurNode THEN {Null} ELSE Nodes \ {OurNode}
InfosOf(k) == IF k[2] = OurNode THEN {NoInfo} ELSE Infos

Call(p) ==
  \/ \E k \in Keys :
       \/ \E l \in LinksOf(k), i \in InfosOf(k) : Join(p, k, l, i)
       \/ Leave(p, k)
       \/ \E name \in Names : SetTopic(p, k, name)
       \/ \E i \in Infos : SetInfo(p, k, i)
       \/ \E f \in FlagSets : SetFlags(p, k, f)
       \/ \E text \in Texts : Post(p, k, text)
       \/ \E to \in Calls, text \in Texts : Private(p, k, to, text)
  \/ \E n \in Nodes \ {OurNode} : LinkNode(p, n) \/ UnlinkNode(p, n)

Next ==
  \/ \E p \in Procs : Call(p) \/ Save(p) \/ Emit(p)
  \/ \E s \in Subs : Subscribe(s) \/ Snapshot(s) \/ Receive(s) \/ Cancel(s)

Spec == Init /\ [][Next]_vars

-----------------------------------------------------------------------------
(* Queries.                                                                *)

UsersInTopic(t) == {k \in member[t] : Present(k)}
TopicMembers(t) == Cardinality(member[t])

(* Every present user is in an existing topic, under the topic's one       *)
(* display name, and in that topic's member set: Join and SetTopic keep    *)
(* users, topics and member together, and so do Leave and UnlinkNode for   *)
(* the users they leave behind.                                            *)
UserInItsTopic ==
  \A k \in Keys : Present(k) =>
    /\ topics[normTopicKey[users[k].topic]] = users[k].topic
    /\ k \in member[normTopicKey[users[k].topic]]

(* A topic's display name is fixed by its first use and folds to its key.  *)
NamesFold == \A t \in TopicKeys : topics[t] # Null => normTopicKey[topics[t]] = t

(* k is in the member set of a topic it is not in. *)
Stale(k, t) == k \in member[t] /\ (Present(k) => normTopicKey[users[k].topic] # t)

(* The only call that can strand a key in a topic's member set is a Join   *)
(* of a user who is already present: SetTopic, Leave and the UnlinkNode    *)
(* cascade take the key out of the one set they should, whatever calls     *)
(* ran before.                                                             *)
JoinStep(k) ==
  \E p \in Procs : /\ pend[p].stage = "idle" /\ pend'[p].stage = "emit"
                  /\ Head(pend'[p].events).type = "UserJoined"
                  /\ Head(pend'[p].events).key = k

StaleOnlyByRejoin ==
  [][\A k \in Keys, t \in TopicKeys :
       Stale(k, t)' /\ ~Stale(k, t) => Present(k) /\ JoinStep(k)]_vars

(* A subscriber lost nothing and has caught up, and no call is in the      *)
(* middle of its steps.                                                    *)
CaughtUp(s) == /\ sub[s] = "live" /\ queue[s] = <<>> /\ ~lost[s]
               /\ \A p \in Procs : pend[p] = Idle

(* Such a subscriber has been given exactly the saved messages, from its   *)
(* history snapshot or live, whatever calls ran concurrently: a message is *)
(* saved before it is emitted, and the snapshot is taken after subscribing. *)
NoMessageGap == \A s \in Subs : CaughtUp(s) => got[s] = store
=============================================================================
