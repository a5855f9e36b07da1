-------------------------------- MODULE Mesh --------------------------------
(***************************************************************************)
(* A mesh of chat nodes: the peer.Router of every node (router.go), the    *)
(* life of its links (link.go: serve, stateTell, readLines) and, of each   *)
(* hub, the users it holds, its seen-set and the messages it delivers.     *)
(*                                                                         *)
(* The goroutines are: <<n, n>>, the fan-out loop of node n's router; and  *)
(* <<a, b>>, the one that reads, at b, the link from a.  A record handled  *)
(* by a reader goes through separate critical sections (seen-set, hub,     *)
(* link table, one write per peer), so these are separate steps and the    *)
(* readers of a node interleave in between.                                *)
(*                                                                         *)
(* Channels are FIFO and lose what was not read when a connection breaks.  *)
(* No id expires from a seen-set: a behaviour is shorter than its TTL (the *)
(* TTL itself is in SeenSet).  A local operation and its hub event are one *)
(* step (ChatHub has them apart).  The router's subscription also gets the *)
(* events of remote users, which the fan-out loop skips: they are left     *)
(* out, so that any local event may find the buffer full.                  *)
(***************************************************************************)
EXTENDS Naturals, Sequences, FiniteSets, FiniteSetsExt

CONSTANTS
  Nodes,            \* chat nodes
  Users, Home,      \* users, and [Users -> Nodes]
  Topics, DefaultTopic,
  Infos, NoInfo,    \* name/QTH pairs, and the blank one
  Texts,
  Nets,             \* deployments
  MaxBreaks,        \* bound on connection failures
  Null

(* A deployment: the configured links, as sets of two nodes; those that    *)
(* may fail, and those that may not have been dialled yet; nodes that may  *)
(* have bound a probed callsign; and what its users do and to whom they    *)
(* write, at most max operations, a late link, a probed node and a lost    *)
(* event counting too.                                                     *)
Pairs == {{a, b} : a, b \in Nodes} \ {{n} : n \in Nodes}

Presences == [topic: Topics, link: Nodes \cup {Null}, info: Infos]
Records   == [type: {"J", "L", "I"}, user: Users, arg: Infos]
             \cup [type: {"T"}, user: Users, arg: Topics]
             \cup [type: {"D"}, user: Users, arg: Texts]
             \cup [type: {"S"}, user: Users, arg: Users \X Texts]
Sinks     == Nodes \X (1..MaxBreaks + 1)   \* a link: the peer and its connection

ASSUME MeshAssumption ==
  /\ \A c \in Nets :
       /\ c.edges \subseteq Pairs /\ c.breakable \cup c.late \subseteq c.edges
       /\ c.probed \subseteq Nodes /\ c.users \subseteq Users
       /\ \A u \in c.users : Home[u] \in UNION c.edges
       /\ c.topics \subseteq Topics /\ c.infos \subseteq Infos
       /\ c.texts \subseteq Texts /\ c.addressees \subseteq Users /\ c.max \in Nat
  /\ Home \in [Users -> Nodes]
  /\ DefaultTopic \in Topics /\ NoInfo \in Infos
  /\ MaxBreaks \in Nat
  /\ Null \notin Presences \cup Nodes

VARIABLES
  net,    \* the deployment
  probed, \* its nodes that have bound a probed callsign
  hub,    \* node -> user -> its presence there, or Null
  seen,   \* node -> ids in its seen-set
  fan,    \* node -> local events its fan-out loop has not taken
  links,  \* node -> its router's link table, as a set of sinks
  job,    \* goroutine -> the record in hand, how far it is, links left to write
  chan,   \* wire <<a, b>> -> records a has written and b has not read
  end,    \* wire <<a, b>> -> the state of b's end of the link
  tell,   \* wire <<a, b>> -> what b's stateTell has left to write to a, user by user
  up,     \* edge -> its connection is up
  conn,   \* edge -> connections it has had, the current one included
  said,   \* records of local operations so far
  unsure, \* users of whom a record may be missed (Heard, below)
  posted, \* messages posted so far, with the topic they were posted in
  dlv,    \* node -> messages delivered to its local users, in order
  ops     \* local operations so far, and what counts as one

linkVars == <<links, end, tell, up, conn>>
opVars   == <<said, unsure, posted, ops>>
vars == <<net, probed, hub, seen, fan, job, chan, linkVars, dlv, opVars>>

(* The links, wires, nodes and goroutines of the deployment.               *)
Edges   == DOMAIN up
Wires   == DOMAIN chan
Members == DOMAIN hub
Procs   == DOMAIN job

Rec(type, u, arg) == [type |-> type, user |-> u, arg |-> arg]
NoJob == [stage |-> "idle"]
Job(stage, r, to) == [stage |-> stage, rec |-> r, to |-> to]

TypeOK ==
  /\ net \in Nets /\ probed \subseteq net.probed
  /\ hub \in [Members -> [Users -> Presences \cup {Null}]]
  /\ fan \in [Members -> Seq(Records)]
  /\ \A n \in Members : links[n] \subseteq Sinks
  /\ \A p \in Procs : job[p] # NoJob =>
       /\ job[p].stage \in {"check", "join", "act", "send"}
       /\ job[p].rec \in Records /\ job[p].to \subseteq Sinks
  /\ chan \in [Wires -> Seq(Records)]
  /\ end \in [Wires -> {"down", "snap", "tell", "up"}]
  /\ tell \in [Wires -> Seq(Seq(Records))]
  /\ up \in [net.edges -> BOOLEAN] /\ conn \in [Edges -> 0..MaxBreaks + 1]
  /\ ops \in 0..net.max /\ unsure \subseteq Users

(* Nobody has joined, and every link is up but those not yet dialled.      *)
Init ==
  /\ net \in Nets /\ probed \in SUBSET net.probed
  /\ hub  = [n \in UNION net.edges |-> [u \in Users |-> Null]]
  /\ chan = [w \in {v \in Nodes \X Nodes : {v[1], v[2]} \in net.edges} |-> <<>>]
  /\ job  = [p \in Wires \cup {<<n, n>> : n \in Members} |-> NoJob]
  /\ seen = [n \in Members |-> {}]
  /\ fan  = [n \in Members |-> <<>>]
  /\ tell = [w \in Wires |-> <<>>]
  /\ \E late \in SUBSET net.late :
       /\ up = [e \in net.edges |-> e \notin late]
       /\ conn = [e \in Edges |-> IF up[e] THEN 1 ELSE 0]
       /\ end = [w \in Wires |-> IF up[{w[1], w[2]}] THEN "up" ELSE "down"]
       /\ links = [n \in Members |-> {<<m, 1>> : m \in {x \in Members : <<x, n>> \in Wires /\ up[{x, n}]}}]
       /\ ops = Cardinality(late) + Cardinality(probed)
  /\ said = {} /\ unsure = {}
  /\ posted = {}
  /\ dlv = [n \in Members |-> <<>>]

TopicOf(n, u) == IF hub[n][u] # Null THEN hub[n][u].topic ELSE DefaultTopic

(* recordID: the id of a data record takes in the topic THIS node has for  *)
(* the user; any other record is its own id.                               *)
RecordID(n, r) == IF r.type = "D" THEN <<r, TopicOf(n, r.user)>> ELSE <<r>>

Message(n, r) ==
  [user |-> r.user, type |-> r.type, arg |-> r.arg,
   topic |-> IF r.type = "D" THEN TopicOf(n, r.user) ELSE Null]

-----------------------------------------------------------------------------
(* Local users: the hub operation at the user's home, its event queued for *)
(* the router.  A text is sent once: repeating it within the TTL is        *)
(* suppressed by design (design.md §5).                                    *)

(* A record of u is heard by every node if it is no repetition and every   *)
(* link serves; a presence record also while a link of u's home has not    *)
(* been registered there, whose state_tell will repeat it (unless the home *)
(* has bound a probed callsign).                                           *)
Heard(u, r) ==
  /\ r \notin said
  /\ \A w \in Wires :
       \/ end[w] = "up" \/ w[1] = Home[u]
       \/ w[2] = Home[u] /\ end[w] = "down" /\ r.type \notin {"D", "S"} /\ Home[u] \notin probed

(* emit drops what a full subscription cannot take.                        *)
KeptOrLost(u, r) ==
  \/ /\ ops' = ops + 1
     /\ fan' = [fan EXCEPT ![Home[u]] = Append(@, r)]
     /\ unsure' = IF Heard(u, r) THEN unsure ELSE unsure \cup {u}
  \/ /\ ops' = ops + 2
     /\ unsure' = unsure \cup {u}
     /\ UNCHANGED fan

Local(u, r) ==
  /\ r \in said => r.type \notin {"D", "S"}
  /\ KeptOrLost(u, r) /\ ops' <= net.max
  /\ said' = said \cup {r}
  /\ UNCHANGED <<net, probed, job, chan, linkVars>>

SetUser(n, u, v) == hub' = [hub EXCEPT ![n][u] = v]
Here(u) == hub[Home[u]][u]

LocalJoin(u) ==
  /\ Here(u) = Null
  /\ SetUser(Home[u], u, [topic |-> DefaultTopic, link |-> Null, info |-> NoInfo])
  /\ Local(u, Rec("J", u, NoInfo))
  /\ UNCHANGED <<seen, posted, dlv>>

LocalLeave(u) ==
  /\ Here(u) # Null
  /\ SetUser(Home[u], u, Null)
  /\ Local(u, Rec("L", u, Here(u).info))
  /\ UNCHANGED <<seen, posted, dlv>>

LocalInfo(u, i) ==
  /\ Here(u) # Null /\ Here(u).info # i
  /\ SetUser(Home[u], u, [Here(u) EXCEPT !.info = i])
  /\ Local(u, Rec("I", u, i))
  /\ UNCHANGED <<seen, posted, dlv>>

LocalTopic(u, t) ==
  /\ Here(u) # Null /\ Here(u).topic # t
  /\ SetUser(Home[u], u, [Here(u) EXCEPT !.topic = t])
  /\ Local(u, Rec("T", u, t))
  /\ UNCHANGED <<seen, posted, dlv>>

(* Post and Private record the id and deliver at home.                     *)
LocalMessage(u, r) ==
  LET n == Home[u]
  IN  /\ Here(u) # Null
      /\ seen'   = [seen EXCEPT ![n] = @ \cup {RecordID(n, r)}]
      /\ posted' = posted \cup {Message(n, r)}
      /\ dlv'    = [dlv EXCEPT ![n] = Append(@, Message(n, r))]
      /\ Local(u, r)
      /\ UNCHANGED hub

LocalPost(u, x) == LocalMessage(u, Rec("D", u, x))

LocalPrivate(u, v, x) ==
  /\ hub[Home[u]][v] # Null
  /\ LocalMessage(u, Rec("S", u, <<v, x>>))

-----------------------------------------------------------------------------
(* Forwarding.                                                             *)

(* forward(raw, exceptID) takes the targets under r.mu ...                 *)
Targets(n, except) == {l \in links[n] : l[1] # except}
Sending(r, to) == IF to = {} THEN NoJob ELSE Job("send", r, to)

QueuedFirst(q, r) == <<r>> \o q
Queued(q, r)      == Append(q, r)

(* ... and writes to one after the other; a write to a connection that is  *)
(* gone is an error that is ignored.                                       *)
Write(n, l, r) ==
  chan' = IF up[{n, l[1]}] /\ conn[{n, l[1]}] = l[2]
            THEN [chan EXCEPT ![<<n, l[1]>>] = Queued(@, r)] ELSE chan

Send(p, l) ==
  /\ job[p].stage = "send" /\ l \in job[p].to
  /\ Write(p[2], l, job[p].rec)
  /\ job' = [job EXCEPT ![p] = Sending(@.rec, @.to \ {l})]
  /\ UNCHANGED <<net, probed, hub, seen, fan, linkVars, dlv, opVars>>

(* fanOutLocal takes the next local event.                                 *)
FanOut(n) ==
  /\ job[<<n, n>>] = NoJob /\ fan[n] # <<>>
  /\ job' = [job EXCEPT ![<<n, n>>] = Sending(Head(fan[n]), Targets(n, Null))]
  /\ fan' = [fan EXCEPT ![n] = Tail(@)]
  /\ UNCHANGED <<net, probed, hub, seen, chan, linkVars, dlv, opVars>>

-----------------------------------------------------------------------------
(* Ingest, at b, of the next record on the wire from a.                    *)

(* The de-duplication; BPQ's covers data records only.                     *)
IsDupNever(n, r) == FALSE
IsDupData(n, r)  == r.type = "D" /\ RecordID(n, r) \in seen[n]
IsDup(n, r)      == RecordID(n, r) \in seen[n]

(* A record of our own, or one already seen, is dropped before any apply   *)
(* or relay; any other is marked as seen.                                  *)
Take(w) ==
  LET n == w[2]
      r == Head(chan[w])
  IN  /\ end[w] = "up" /\ job[w] = NoJob /\ chan[w] # <<>>
      /\ chan' = [chan EXCEPT ![w] = Tail(@)]
      /\ IF Home[r.user] = n \/ IsDup(n, r)
           THEN UNCHANGED <<seen, job>>
           ELSE /\ seen' = [seen EXCEPT ![n] = @ \cup {RecordID(n, r)}]
                /\ job'  = [job EXCEPT ![w] = Job(IF r.type = "L" THEN "act" ELSE "check", r, {})]
      /\ UNCHANGED <<net, probed, hub, fan, linkVars, dlv, opVars>>

(* ensureUser: is the user present? ...                                    *)
Check(w) ==
  /\ job[w].stage = "check"
  /\ job' = [job EXCEPT ![w].stage = IF hub[w[2]][job[w].rec.user] = Null THEN "join" ELSE "act"]
  /\ UNCHANGED <<net, probed, hub, seen, fan, chan, linkVars, dlv, opVars>>

(* Only a J or I record carries a name and QTH.                            *)
JoinInfo(r)    == IF r.type \in {"J", "I"} THEN r.arg ELSE NoInfo

(* ... if not, it joins, with the ingress link as provenance.              *)
Join(w) ==
  LET r == job[w].rec
  IN  /\ job[w].stage = "join"
      /\ SetUser(w[2], r.user, [topic |-> DefaultTopic, link |-> w[1],
                                info |-> JoinInfo(r)])
      /\ job' = [job EXCEPT ![w].stage = "act"]
      /\ UNCHANGED <<net, probed, seen, fan, chan, linkVars, dlv, opVars>>

AfterTopic(here, r) == [here EXCEPT !.topic = r.arg]

(* The presence of r.user at n after r; a hub call for an absent user does *)
(* nothing, and a join without name and QTH keeps the ones known.          *)
Applied(n, r) ==
  LET here == hub[n][r.user]
  IN  CASE r.type = "L" -> Null
        [] r.type = "T" /\ here # Null -> AfterTopic(here, r)
        [] r.type = "I" /\ here # Null -> [here EXCEPT !.info = r.arg]
        [] r.type = "J" /\ here # Null /\ r.arg # NoInfo -> [here EXCEPT !.info = r.arg]
        [] OTHER -> here

(* Post needs the sender present, Private the addressee as well.           *)
Delivers(n, r) ==
  /\ r.type \in {"D", "S"} /\ hub[n][r.user] # Null
  /\ r.type = "S" => hub[n][r.arg[1]] # Null

(* The relay of what was read on w goes to every link but the ingress.     *)
RelayToPublic(w) == IF job[w].rec.type = "S" THEN {} ELSE Targets(w[2], w[1])
RelayTo(w)       == Targets(w[2], w[1])

(* The rest of apply: Leave, SetInfo, SetTopic, or Post/Private, which     *)
(* records the id of the message as it is delivered.  The relay starts     *)
(* with the table of links as it is then.                                  *)
Act(w) ==
  LET n == w[2]
      r == job[w].rec
  IN  /\ job[w].stage = "act"
      /\ SetUser(n, r.user, Applied(n, r))
      /\ IF Delivers(n, r)
           THEN /\ seen' = [seen EXCEPT ![n] = @ \cup {RecordID(n, r)}]
                /\ dlv'  = [dlv EXCEPT ![n] = Append(@, Message(n, r))]
           ELSE UNCHANGED <<seen, dlv>>
      /\ job' = [job EXCEPT ![w] = Sending(r, RelayTo(w))]
      /\ UNCHANGED <<net, probed, fan, chan, linkVars, opVars>>

-----------------------------------------------------------------------------
(* The life of a link: b's end of the wire from a.                         *)

(* serve registers the link (a later link of the same peer replaces it) ... *)
Serve(w) ==
  /\ up[{w[1], w[2]}] /\ end[w] = "down"
  /\ links' = [links EXCEPT ![w[2]] = Targets(w[2], w[1]) \cup {<<w[1], conn[{w[1], w[2]}]>>}]
  /\ end' = [end EXCEPT ![w] = "snap"]
  /\ UNCHANGED <<net, probed, hub, seen, fan, job, chan, tell, up, conn, dlv, opVars>>

(* ... and tells the peer our local users: a snapshot of the hub ...       *)
(* (those whose node is the callsign of the link, which a probed one is    *)
(* not) ...                                                                *)
TellsOfJoin(n, u) == <<Rec("J", u, hub[n][u].info)>>
TellsOf(n, u) ==
  IF hub[n][u].topic = DefaultTopic THEN TellsOfJoin(n, u)
  ELSE <<Rec("J", u, hub[n][u].info), Rec("T", u, hub[n][u].topic)>>

(* (a Go map is ranged over in any order)                                  *)
Orders(S) == UNION {Bijection(1..n, S) : n \in 0..Cardinality(S)}

Snap(w) ==
  LET n     == w[2]
      local == {u \in Users : Home[u] = n /\ n \notin probed /\ hub[n][u] # Null}
  IN  /\ end[w] = "snap"
      /\ \E order \in Orders(local) :
           tell' = [tell EXCEPT ![w] = [i \in DOMAIN order |-> TellsOf(n, order[i])]]
      /\ end' = [end EXCEPT ![w] = "tell"]
      /\ UNCHANGED <<net, probed, hub, seen, fan, links, job, chan, up, conn, dlv, opVars>>

(* ... written record by record; then the link reads.                      *)
Told(users) ==
  IF Len(Head(users)) = 1 THEN Tail(users) ELSE [users EXCEPT ![1] = Tail(@)]

Tell(w) ==
  /\ end[w] = "tell"
  /\ IF tell[w] = <<>>
       THEN end' = [end EXCEPT ![w] = "up"] /\ UNCHANGED <<chan, tell>>
       ELSE /\ Write(w[2], <<w[1], conn[{w[1], w[2]}]>>, Head(Head(tell[w])))
            /\ tell' = [tell EXCEPT ![w] = Told(@)]
            /\ UNCHANGED end
  /\ UNCHANGED <<net, probed, hub, seen, fan, links, job, up, conn, dlv, opVars>>

(* The connection fails ...                                                *)
BreaksOf(e) == conn[e] - (IF up[e] THEN 1 ELSE 0)
Breaks == MapThenSumSet(BreaksOf, Edges)

Break(e) ==
  /\ up[e] /\ e \in net.breakable
  /\ Breaks < MaxBreaks
  /\ up' = [up EXCEPT ![e] = FALSE]
  /\ UNCHANGED <<net, probed, hub, seen, fan, job, chan, links, end, tell, conn, dlv, opVars>>

(* UnlinkNode: the users learned over the link or homed at its far end.    *)
LearnedViaHomed(n, m) == {u \in Users : hub[n][u] # Null /\ Home[u] = m}
LearnedVia(n, m) ==
  {u \in Users : hub[n][u] # Null /\ (hub[n][u].link = m \/ Home[u] = m)}

FoundOut(w) == ~up[{w[1], w[2]}] /\ end[w] = "up" /\ job[w] = NoJob

(* ... each end, when it finds out, drops what it has not read, unlinks    *)
(* the node (with the users learned over the link or homed there) and      *)
(* deregisters ...                                                         *)
Stop(w) ==
  LET n == w[2]
  IN  /\ FoundOut(w)
      /\ hub' = [hub EXCEPT ![n] = [u \in Users |->
                   IF u \in LearnedVia(n, w[1]) THEN Null ELSE @[u]]]
      /\ links' = [links EXCEPT ![n] = Targets(n, w[1])]
      /\ end'  = [end EXCEPT ![w] = "down"]
      /\ chan' = [chan EXCEPT ![w] = <<>>]
      /\ UNCHANGED <<net, probed, seen, fan, job, tell, up, conn, dlv, opVars>>

(* ... and the dialling end connects again, once both are down (two        *)
(* connections of one pair are in LinkTable).                              *)
Dial(e) ==
  /\ ~up[e] /\ \A w \in Wires : {w[1], w[2]} = e => end[w] = "down"
  /\ up' = [up EXCEPT ![e] = TRUE]
  /\ conn' = [conn EXCEPT ![e] = @ + 1]
  /\ UNCHANGED <<net, probed, hub, seen, fan, job, chan, links, end, tell, dlv, opVars>>

-----------------------------------------------------------------------------
LocalOp ==
  \E u \in net.users :
    \/ LocalJoin(u) \/ LocalLeave(u)
    \/ \E i \in net.infos : LocalInfo(u, i)
    \/ \E t \in net.topics : LocalTopic(u, t)
    \/ \E x \in net.texts : LocalPost(u, x) \/ \E v \in net.addressees : LocalPrivate(u, v, x)

Relay ==
  \/ \E n \in Members : FanOut(n)
  \/ \E p \in {q \in Procs : job[q].stage = "send"}, l \in Sinks : Send(p, l)
  \/ \E w \in Wires : Take(w) \/ Check(w) \/ Join(w) \/ Act(w)

LinkStep == \E w \in Wires : Serve(w) \/ Snap(w) \/ Tell(w) \/ Stop(w)

(* Nothing is left to do.                                                  *)
Quiet ==
  /\ \A n \in Members : fan[n] = <<>>
  /\ \A p \in Procs : job[p] = NoJob
  /\ \A w \in Wires : chan[w] = <<>> /\ end[w] = "up"
  /\ \A e \in Edges : up[e]

Next ==
  \/ LocalOp \/ Relay \/ LinkStep
  \/ \E e \in Edges : Break(e) \/ Dial(e)
  \/ Quiet /\ UNCHANGED vars

Spec == Init /\ [][Next]_vars

-----------------------------------------------------------------------------
NoFailure == \A e \in Edges : up[e] /\ conn[e] = 1
IsTree == Cardinality(Edges) = Cardinality(Members) - 1
Said(u, types) == \E r \in said : r.user = u /\ r.type \in types

Same(m1, m2) == m1.user = m2.user /\ m1.type = m2.type /\ m1.arg = m2.arg

(* "every node delivers it to its local users exactly once" (design.md     *)
(* §5), at most once: no interleaving of the readers of a node lets a      *)
(* message that came by two paths through twice.  Except a topic message   *)
(* of a user who changes topic: its id takes in the topic the NODE has for *)
(* the user (RecordID), which may be another one when the second copy      *)
(* comes round a cycle.                                                    *)
DeliveredOnce ==
  \A n \in Members : \A i, j \in DOMAIN dlv[n] :
    /\ i # j
    /\ dlv[n][i].type = "D" => ~Said(dlv[n][i].user, {"T"})
    => ~Same(dlv[n][i], dlv[n][j])

(* At least once: when nothing is in flight every node has delivered every *)
(* topic message, in the topic it was posted in, and the addressee's home  *)
(* every private one, unless they leave.  Except when a link failed or a   *)
(* record of the users concerned was not Heard or found the subscription   *)
(* of their router full: what one user loses takes nothing from another.   *)
(* Round a cycle also except when the sender changes topic or leaves, which *)
(* another reader may handle between the join and the message.             *)
Parties(m)  == IF m.type = "S" THEN {m.user, m.arg[1]} ELSE {m.user}
Audience(m) == IF m.type = "S" THEN {Home[m.arg[1]]} ELSE Members

DeliveredToAll ==
  Quiet /\ NoFailure =>
    \A m \in {s \in posted : Parties(s) \cap unsure = {}} :
      /\ IsTree \/ ~Said(m.user, {"T", "L"})
      /\ m.type = "S" => ~Said(m.arg[1], {"L"})
      => \A n \in Audience(m) : \E i \in DOMAIN dlv[n] : dlv[n][i] = m

(* In a mesh without a cycle, round which one message overtakes another, a *)
(* node delivers a user's messages in the order they were posted, with     *)
(* none left out before another, if all of them were Heard and no link     *)
(* failed.                                                                 *)
InOrder ==
  NoFailure /\ IsTree => \A u \in net.users \ unsure, n \in Members :
    LET mine(log) == SelectSeq(log, LAMBDA m : m.user = u /\ m.type = "D")
        here  == mine(dlv[n])
        there == mine(dlv[Home[u]])
    IN  Len(here) <= Len(there) /\ here = SubSeq(there, 1, Len(here))

(* When nothing is in flight in a mesh without a cycle (round which a      *)
(* leave may overtake the join) every hub has the users of every other, in *)
(* their topics and with their names, also those who were there before a   *)
(* link of their home came up.  Except for the users with a record not     *)
(* Heard: a repetition within the TTL is dropped as a duplicate            *)
(* (router.go:200), state_tell names only the users of the node itself, and *)
(* none after a probe (link.go:495), an event may find the subscription    *)
(* full (hub.go:112), and a change between its snapshot and its last write is  *)
(* overtaken by the older state.  And a link that fails and comes back     *)
(* does not restore what was lost with it: what state_tell repeats is      *)
(* dropped as a duplicate too.                                             *)
PresenceAgrees ==
  Quiet /\ NoFailure /\ IsTree => \A n \in Members, u \in Users \ unsure :
             IF Here(u) = Null THEN hub[n][u] = Null
             ELSE /\ hub[n][u] # Null
                  /\ hub[n][u].topic = Here(u).topic /\ hub[n][u].info = Here(u).info

(* "users learned via it" go with a link: no hub keeps a remote user whose *)
(* ingress link it no longer serves, however the failure of the link, the  *)
(* reads in progress on it and those of other links interleave.            *)
NoOrphan ==
  \A n \in Members, u \in Users :
    hub[n][u] # Null /\ Home[u] # n =>
      <<hub[n][u].link, n>> \in Wires /\ end[<<hub[n][u].link, n>>] # "down"

(* "A cycle of nodes does not storm" (design.md §5): every step of the     *)
(* relay leaves less to do, or some node has seen one record more, of      *)
(* which there are no more than users said.  With no deadlock but where    *)
(* nothing is left to do, the mesh comes to rest once the users stop.      *)
Load(p) ==
  LET most == 2 * Cardinality(Members)
      j    == job[p]
  IN  (IF p \in Wires THEN Len(chan[p]) ELSE (most + 1) * Len(fan[p[1]]))
      + CASE j = NoJob -> 0
          [] j.stage = "send"  -> 2 * Cardinality(j.to)
          [] j.stage = "act"   -> most + 1
          [] j.stage = "join"  -> most + 2
          [] j.stage = "check" -> most + 3

Busy(p) == job[p] # NoJob \/ (IF p \in Wires THEN chan[p] # <<>> ELSE fan[p[1]] # <<>>)
InFlight == MapThenSumSet(Load, {p \in Procs : Busy(p)})

WindsDown ==
  [][~IsTree /\ UNCHANGED <<linkVars, opVars>> =>
       IF seen' = seen THEN InFlight' < InFlight
       ELSE \A n \in Members : seen[n] \subseteq seen'[n]]_vars
=============================================================================
