----------------------------- MODULE MeshProofs -----------------------------
(***************************************************************************)
(* Proofs about Mesh, for every set of nodes and links between them, with  *)
(* or without cycles, every number of users, texts, operations and link    *)
(* failures: no message is delivered twice, and no user outlives the link  *)
(* it was learned from.                                                    *)
(***************************************************************************)
EXTENDS Mesh, TLAPS

(* Records that may be under way: a message only if it was said, a topic   *)
(* only of a user who has said one (state_tell repeats topics, and joins   *)
(* that nobody said).                                                      *)
Known == {r \in Records : /\ r.type \in {"D", "S"} => r \in said
                          /\ r.type = "T" => Said(r.user, {"T"})}

IsJob(j) ==
  /\ j = Job(j.stage, j.rec, j.to)
  /\ j.stage \in {"check", "join", "act", "send"} /\ j.rec \in Known

(* What the variables hold.                                                *)
ShapeInv ==
  /\ net \in Nets
  /\ Members = UNION net.edges
  /\ Wires = {w \in Nodes \X Nodes : {w[1], w[2]} \in net.edges}
  /\ Procs = Wires \cup {<<n, n>> : n \in Members}
  /\ DOMAIN seen = Members /\ DOMAIN end = Wires
  /\ hub \in [Members -> [Users -> Presences \cup {Null}]]
  /\ fan \in [Members -> Seq(Known)]
  /\ chan \in [Wires -> Seq(Known)]
  /\ tell \in [Wires -> Seq(Seq(Known) \ {<<>>})]
  /\ \A p \in Procs : job[p] = NoJob \/ IsJob(job[p])

(* Whoever is in another topic than the first has said so.                 *)
TopicInv ==
  \A n \in Members, u \in Users :
    hub[n][u] # Null /\ hub[n][u].topic # DefaultTopic => Said(u, {"T"})

(* A record is handled only by the reader of a link that is up.            *)
LinkInv ==
  /\ \A w \in Wires : job[w] # NoJob => end[w] = "up"
  /\ NoOrphan

-----------------------------------------------------------------------------
(* Records, presences and what is under way.                               *)
LEMMA RecordShape ==
  ASSUME NEW r \in Records
  PROVE  /\ r = Rec(r.type, r.user, r.arg) /\ r.user \in Users
         /\ r.type \in {"J", "L", "I", "T", "D", "S"}
         /\ r.type \in {"J", "L", "I"} => r.arg \in Infos
         /\ r.type = "T" => r.arg \in Topics
  BY DEF Records, Rec

LEMMA RecordMade ==
  ASSUME NEW u \in Users
  PROVE  /\ \A t \in {"J", "L", "I"}, i \in Infos : Rec(t, u, i) \in Records
         /\ \A t \in Topics : Rec("T", u, t) \in Records
         /\ \A x \in Texts : Rec("D", u, x) \in Records
         /\ \A v \in Users, x \in Texts : Rec("S", u, <<v, x>>) \in Records
  BY DEF Records, Rec

LEMMA RecFields ==
  ASSUME NEW t, NEW u, NEW a
  PROVE  Rec(t, u, a).type = t /\ Rec(t, u, a).user = u /\ Rec(t, u, a).arg = a
  BY DEF Rec

LEMMA JobFields ==
  ASSUME NEW s, NEW r, NEW to
  PROVE  /\ Job(s, r, to).stage = s /\ Job(s, r, to).rec = r /\ Job(s, r, to).to = to
         /\ NoJob.stage = "idle" /\ Job(s, r, to) # NoJob
  BY DEF Job, NoJob

LEMMA JobMoves ==
  ASSUME NEW j, j = Job(j.stage, j.rec, j.to), NEW s
  PROVE  [j EXCEPT !.stage = s] = Job(s, j.rec, j.to)
  BY DEF Job

(* Sequences over a set grow with it, and stay over it.                    *)
LEMMA SeqGrows ==
  ASSUME NEW A, NEW B, A \subseteq B
  PROVE  Seq(A) \subseteq Seq(B)
  OBVIOUS

LEMMA SeqTell ==
  ASSUME NEW A, NEW s \in Seq(Seq(A) \ {<<>>}), s # <<>>
  PROVE  Head(Head(s)) \in A /\ Told(s) \in Seq(Seq(A) \ {<<>>})
<1>1. Head(s) \in Seq(A) /\ Head(s) # <<>> /\ Head(s) = s[1] /\ Len(s) >= 1
  OBVIOUS
<1>2. Head(Head(s)) \in A
  BY <1>1
<1>3. CASE Len(Head(s)) = 1
  BY <1>3 DEF Told
<1>4. CASE Len(Head(s)) # 1
  <2>1. Tail(Head(s)) \in Seq(A) \ {<<>>}
    <3>1. ASSUME NEW h \in Seq(A), h # <<>>, Len(h) # 1
          PROVE  Tail(h) \in Seq(A) /\ Len(Tail(h)) = Len(h) - 1 /\ Len(h) - 1 # 0
      BY <3>1
    <3> QED BY Zenon, <1>1, <1>4, <3>1
  <2>2. Told(s) = [s EXCEPT ![1] = Tail(s[1])]
    BY <1>4 DEF Told
  <2> QED BY <1>1, <2>1, <2>2
<1> QED BY <1>2, <1>3, <1>4

(* The wires and goroutines of a deployment.                               *)
LEMMA Geometry ==
  ASSUME ShapeInv
  PROVE  /\ \A w \in Wires : /\ w = <<w[1], w[2]>> /\ w[1] # w[2] /\ w \in Procs
                             /\ w[1] \in Members /\ w[2] \in Members
         /\ \A n \in Members : n \in Nodes /\ <<n, n>> \in Procs /\ <<n, n>> \notin Wires
         /\ \A p \in Procs : p[2] \in Members
         /\ \A u \in net.users : u \in Users /\ Home[u] \in Members
         /\ net.topics \subseteq Topics /\ net.infos \subseteq Infos /\ net.texts \subseteq Texts
         /\ net.addressees \subseteq Users
<1>1. /\ \A u \in net.users : u \in Users /\ Home[u] \in Members
      /\ net.topics \subseteq Topics /\ net.infos \subseteq Infos /\ net.texts \subseteq Texts
      /\ net.addressees \subseteq Users /\ net.edges \subseteq Pairs
  BY MeshAssumption DEF ShapeInv
<1>2. ASSUME NEW e \in net.edges PROVE e \subseteq Nodes /\ \A n \in Nodes : e # {n}
  BY <1>1 DEF Pairs
<1>3. ASSUME NEW w \in Wires
      PROVE  /\ w \in Nodes \X Nodes /\ w = <<w[1], w[2]>> /\ {w[1], w[2]} \in net.edges
             /\ w[1] # w[2] /\ w \in Procs /\ w[1] \in Members /\ w[2] \in Members
  <2>1. w \in Nodes \X Nodes /\ {w[1], w[2]} \in net.edges
    BY DEF ShapeInv
  <2>2. w = <<w[1], w[2]>> /\ w[1] \in Nodes
    BY <2>1
  <2>3. w[1] # w[2]
    BY <1>2, <2>1, <2>2
  <2>4. w \in Procs /\ w[1] \in Members /\ w[2] \in Members
    BY <2>1 DEF ShapeInv
  <2> QED BY <2>1, <2>2, <2>3, <2>4
<1>4. ASSUME NEW n \in Members PROVE n \in Nodes /\ <<n, n>> \in Procs /\ <<n, n>> \notin Wires
  <2>1. n \in Nodes /\ <<n, n>> \in Procs
    BY <1>2 DEF ShapeInv
  <2>2. <<n, n>>[1] = n /\ <<n, n>>[2] = n
    OBVIOUS
  <2> QED BY Zenon, <1>3, <2>1, <2>2
<1>5. \A p \in Procs : p[2] \in Members
  BY <1>3 DEF ShapeInv
<1> QED BY Zenon, <1>1, <1>3, <1>4, <1>5

(* What is known stays known.                                              *)
LEMMA KnownGrows == ASSUME said \subseteq said' PROVE Known \subseteq Known'
  BY DEF Known, Said

LEMMA KnownSame == ASSUME said' = said PROVE Known' = Known
  BY DEF Known, Said

(* The record of a local operation is known from then on.                  *)
LEMMA SaidIsKnown ==
  ASSUME NEW r \in Records, r \in said'
  PROVE  r \in Known' /\ (r.type = "T" => Said(r.user, {"T"})')
  BY DEF Known, Said

(* The shape, where nothing but the given variables changes.               *)
LEMMA LocalShape ==
  ASSUME ShapeInv, NEW u \in net.users, NEW r \in Records, Local(u, r),
         hub' \in [Members -> [Users -> Presences \cup {Null}]], DOMAIN seen' = DOMAIN seen
  PROVE  ShapeInv'
<1>1. /\ r \in said' /\ said \subseteq said'
      /\ net' = net /\ job' = job /\ chan' = chan /\ tell' = tell /\ end' = end
      /\ fan' \in {fan, [fan EXCEPT ![Home[u]] = Append(@, r)]}
  BY DEF Local, KeptOrLost, linkVars
<1>2. Known \subseteq Known' /\ r \in Known'
  BY <1>1, KnownGrows, SaidIsKnown
<1>3. Seq(Known) \subseteq Seq(Known') /\ Seq(Seq(Known) \ {<<>>}) \subseteq Seq(Seq(Known') \ {<<>>})
  <2>1. Seq(Known) \subseteq Seq(Known')
    BY <1>2, SeqGrows
  <2> QED BY <2>1, SeqGrows
<1>4. Members' = Members /\ Wires' = Wires /\ Procs' = Procs
  BY <1>1 DEF ShapeInv, Members, Wires, Procs
<1>5. fan' \in [Members -> Seq(Known')]
  <2>1. fan \in [Members -> Seq(Known')]
    BY <1>3 DEF ShapeInv
  <2>2. Append(fan[Home[u]], r) \in Seq(Known')
    BY <1>2, <2>1, Geometry
  <2> QED BY Zenon, <1>1, <2>1, <2>2
<1>6. \A p \in Procs : job[p] = NoJob \/ IsJob(job[p])'
  BY Zenon, <1>1, <1>2 DEF ShapeInv, IsJob
<1> QED BY Zenon, <1>1, <1>3, <1>4, <1>5, <1>6 DEF ShapeInv

(* Setting a user of a hub.                                                *)
LEMMA SetUserShape ==
  ASSUME ShapeInv, NEW n \in Members, NEW u \in Users, NEW v \in Presences \cup {Null},
         SetUser(n, u, v)
  PROVE  /\ hub' \in [Members -> [Users -> Presences \cup {Null}]] /\ Members' = Members
         /\ \A m \in Members, w \in Users : hub'[m][w] = IF m = n /\ w = u THEN v ELSE hub[m][w]
  BY DEF ShapeInv, SetUser, Members

LEMMA PresenceShape ==
  ASSUME NEW p \in Presences
  PROVE  /\ p # Null /\ p.topic \in Topics /\ p.link \in Nodes \cup {Null} /\ p.info \in Infos
         /\ \A t \in Topics : /\ [p EXCEPT !.topic = t] \in Presences
                              /\ [p EXCEPT !.topic = t].link = p.link
                              /\ [p EXCEPT !.topic = t].topic = t
         /\ \A i \in Infos : /\ [p EXCEPT !.info = i] \in Presences
                             /\ [p EXCEPT !.info = i].link = p.link
                             /\ [p EXCEPT !.info = i].topic = p.topic
  BY MeshAssumption DEF Presences

(* A step of a user keeps shape and topics.                                *)
LEMMA LocalStep ==
  ASSUME ShapeInv, TopicInv, LocalOp
  PROVE  ShapeInv' /\ TopicInv'
<1>1. ASSUME NEW u \in net.users, NEW r \in Records, Local(u, r), DOMAIN seen' = DOMAIN seen,
             NEW v \in Presences \cup {Null}, SetUser(Home[u], u, v),
             v # Null => v.topic = DefaultTopic
                         \/ (r.user = u /\ r.type = "T")
                         \/ (Here(u) # Null /\ v.topic = Here(u).topic)
      PROVE  ShapeInv' /\ TopicInv'
  <2>1. u \in Users /\ Home[u] \in Members
    BY Geometry
  <2>2. /\ hub' \in [Members -> [Users -> Presences \cup {Null}]] /\ Members' = Members
        /\ \A m \in Members, w \in Users :
             hub'[m][w] = IF m = Home[u] /\ w = u THEN v ELSE hub[m][w]
    BY <1>1, <2>1, SetUserShape
  <2>3. ShapeInv'
    BY <1>1, <2>2, LocalShape
  <2>4. said \subseteq said' /\ r \in said'
    BY <1>1 DEF Local
  <2>5. \A w \in Users : Said(w, {"T"}) => Said(w, {"T"})'
    BY <2>4 DEF Said
  <2>6. r.user = u /\ r.type = "T" => Said(u, {"T"})'
    BY <2>4 DEF Said
  <2>7. TopicInv'
    BY <1>1, <2>1, <2>2, <2>5, <2>6 DEF TopicInv, Here
  <2> QED BY <2>3, <2>7
<1>2. ASSUME NEW u \in net.users, NEW r \in Records, LocalMessage(u, r)
      PROVE  ShapeInv' /\ TopicInv'
  <2>1. hub' = hub /\ DOMAIN seen' = DOMAIN seen /\ Local(u, r)
    BY <1>2 DEF LocalMessage
  <2>2. ShapeInv'
    BY <2>1, LocalShape DEF ShapeInv
  <2>3. said \subseteq said'
    BY <2>1 DEF Local
  <2> QED BY <2>1, <2>2, <2>3 DEF TopicInv, Said, Members
<1> SUFFICES ASSUME NEW u \in net.users,
                    \/ LocalJoin(u) \/ LocalLeave(u)
                    \/ \E i \in net.infos : LocalInfo(u, i)
                    \/ \E t \in net.topics : LocalTopic(u, t)
                    \/ \E x \in net.texts : \/ LocalPost(u, x)
                                            \/ \E v \in net.addressees : LocalPrivate(u, v, x)
             PROVE  ShapeInv' /\ TopicInv'
  BY DEF LocalOp
<1>3. /\ u \in Users /\ Home[u] \in Members
      /\ net.infos \subseteq Infos /\ net.topics \subseteq Topics /\ net.texts \subseteq Texts
      /\ Here(u) # Null => Here(u) \in Presences
  <2>1. /\ u \in Users /\ Home[u] \in Members
        /\ net.infos \subseteq Infos /\ net.topics \subseteq Topics /\ net.texts \subseteq Texts
    BY Geometry
  <2> QED BY <2>1 DEF ShapeInv, Here
<1>4. CASE LocalJoin(u)
  <2>1. Rec("J", u, NoInfo) \in Records
    BY <1>3, RecordMade, MeshAssumption
  <2>2. [topic |-> DefaultTopic, link |-> Null, info |-> NoInfo] \in Presences
    BY MeshAssumption DEF Presences
  <2> QED BY <1>1, <1>4, <2>1, <2>2 DEF LocalJoin
<1>5. CASE LocalLeave(u)
  <2>1. Rec("L", u, Here(u).info) \in Records
    BY <1>3, <1>5, RecordMade, PresenceShape DEF LocalLeave
  <2> QED BY <1>1, <1>5, <2>1 DEF LocalLeave
<1>6. ASSUME NEW i \in net.infos, LocalInfo(u, i) PROVE ShapeInv' /\ TopicInv'
  <2>1. Rec("I", u, i) \in Records
    BY <1>3, RecordMade
  <2>2. Here(u) # Null /\ [Here(u) EXCEPT !.info = i] \in Presences
        /\ [Here(u) EXCEPT !.info = i].topic = Here(u).topic
    BY <1>3, <1>6, PresenceShape DEF LocalInfo
  <2> QED BY Zenon, <1>1, <1>6, <2>1, <2>2 DEF LocalInfo
<1>7. ASSUME NEW t \in net.topics, LocalTopic(u, t) PROVE ShapeInv' /\ TopicInv'
  <2>1. Rec("T", u, t) \in Records /\ Rec("T", u, t).user = u /\ Rec("T", u, t).type = "T"
    BY <1>3, RecordMade, RecFields
  <2>2. [Here(u) EXCEPT !.topic = t] \in Presences
    BY <1>3, <1>7, PresenceShape DEF LocalTopic
  <2> QED BY <1>1, <1>7, <2>1, <2>2 DEF LocalTopic
<1>8. ASSUME NEW x \in net.texts, LocalPost(u, x) PROVE ShapeInv' /\ TopicInv'
  BY <1>2, <1>3, <1>8, RecordMade DEF LocalPost
<1>9. ASSUME NEW x \in net.texts, NEW v \in net.addressees, LocalPrivate(u, v, x)
      PROVE  ShapeInv' /\ TopicInv'
  BY <1>2, <1>3, <1>9, RecordMade, Geometry DEF LocalPrivate
<1> QED BY <1>4, <1>5, <1>6, <1>7, <1>8, <1>9

-----------------------------------------------------------------------------
(* Steps in which nobody says anything.                                    *)
LEMMA OtherShape ==
  ASSUME ShapeInv, UNCHANGED <<net, said>>,
         DOMAIN seen' = DOMAIN seen, DOMAIN end' = DOMAIN end, DOMAIN job' = DOMAIN job,
         hub' \in [Members -> [Users -> Presences \cup {Null}]],
         fan' \in [Members -> Seq(Known)], chan' \in [Wires -> Seq(Known)],
         tell' \in [Wires -> Seq(Seq(Known) \ {<<>>})],
         \A p \in Procs : job'[p] = NoJob \/ IsJob(job'[p])
  PROVE  ShapeInv' /\ Members' = Members /\ Wires' = Wires /\ Procs' = Procs
<1>1. Known' = Known
  BY KnownSame
<1>2. Members' = Members /\ Wires' = Wires /\ Procs' = Procs
  BY DEF ShapeInv, Members, Wires, Procs
<1>3. \A p \in Procs : job'[p] = NoJob \/ IsJob(job[p])'
  BY <1>1 DEF IsJob
<1> QED BY Zenon, <1>1, <1>2, <1>3 DEF ShapeInv

LEMMA WriteShape ==
  ASSUME ShapeInv, NEW n, NEW l, NEW r \in Known, Write(n, l, r)
  PROVE  chan' \in [Wires -> Seq(Known)]
<1>1. chan \in [Wires -> Seq(Known)]
  BY DEF ShapeInv
<1> DEFINE k == <<n, l[1]>>
<1>2. chan' = chan \/ chan' = [chan EXCEPT ![k] = Append(chan[k], r)]
  BY DEF Write, Queued
<1> HIDE DEF k
<1>3. ASSUME chan' = [chan EXCEPT ![k] = Append(chan[k], r)] PROVE chan' \in [Wires -> Seq(Known)]
  <2>1. k \in Wires => Append(chan[k], r) \in Seq(Known)
    BY <1>1
  <2> QED BY Zenon, <1>1, <1>3, <2>1
<1> QED BY <1>1, <1>2, <1>3

LEMMA SendingShape ==
  ASSUME NEW r \in Known, NEW to
  PROVE  Sending(r, to) = NoJob \/ (IsJob(Sending(r, to)) /\ Sending(r, to).stage = "send")
  BY JobFields DEF Sending, IsJob

(* The job of a goroutine, from its stage.                                 *)
LEMMA JobShape ==
  ASSUME ShapeInv, NEW p \in Procs, job[p].stage \in {"check", "join", "act", "send"}
  PROVE  /\ IsJob(job[p]) /\ job[p].rec \in Known /\ job[p].rec \in Records
         /\ job[p] # NoJob /\ job[p].rec.user \in Users
<1>1. IsJob(job[p])
  BY Zenon, JobFields DEF ShapeInv
<1>2. job[p].rec \in Known /\ job[p].rec \in Records
  BY <1>1 DEF IsJob, Known
<1> QED BY <1>1, <1>2, JobFields, RecordShape DEF IsJob

LEMMA AppliedShape ==
  ASSUME ShapeInv, TopicInv, NEW n \in Members, NEW r \in Known
  PROVE  /\ Applied(n, r) \in Presences \cup {Null}
         /\ Applied(n, r) # Null => hub[n][r.user] # Null /\ Applied(n, r).link = hub[n][r.user].link
         /\ Applied(n, r) # Null /\ Applied(n, r).topic # DefaultTopic => Said(r.user, {"T"})
<1>1. /\ r \in Records /\ r.user \in Users
      /\ r.type \in {"J", "I"} => r.arg \in Infos
      /\ r.type = "T" => r.arg \in Topics /\ Said(r.user, {"T"})
  BY RecordShape DEF Known
<1> DEFINE here == hub[n][r.user]
<1>2. here = Null \/ here \in Presences
  BY <1>1 DEF ShapeInv
<1>3. here # Null /\ here.topic # DefaultTopic => Said(r.user, {"T"})
  BY <1>1 DEF TopicInv
<1> HIDE DEF here
<1>4. \/ Applied(n, r) = Null \/ Applied(n, r) = here
      \/ r.type = "T" /\ here # Null /\ Applied(n, r) = [here EXCEPT !.topic = r.arg]
      \/ r.type \in {"J", "I"} /\ here # Null /\ Applied(n, r) = [here EXCEPT !.info = r.arg]
  BY DEF Applied, AfterTopic, here
<1>5. /\ Applied(n, r) \in Presences \cup {Null}
      /\ Applied(n, r) # Null => here # Null /\ Applied(n, r).link = here.link
      /\ Applied(n, r) # Null /\ Applied(n, r).topic # DefaultTopic => Said(r.user, {"T"})
  <2>1. CASE Applied(n, r) = Null \/ Applied(n, r) = here
    BY <1>2, <1>3, <2>1
  <2>2. CASE r.type = "T" /\ here # Null /\ Applied(n, r) = [here EXCEPT !.topic = r.arg]
    BY <1>1, <1>2, <2>2, PresenceShape
  <2>3. CASE r.type \in {"J", "I"} /\ here # Null /\ Applied(n, r) = [here EXCEPT !.info = r.arg]
    BY <1>1, <1>2, <1>3, <2>3, PresenceShape
  <2> QED BY <1>4, <2>1, <2>2, <2>3
<1> QED BY <1>5 DEF here

(* What a reader does to the hub: it joins a user, or applies a record.    *)
LEMMA JoinShape ==
  ASSUME ShapeInv, NEW w \in Wires, Join(w)
  PROVE  /\ job[w].rec \in Known /\ job[w].rec.user \in Users
         /\ \E v \in Presences : /\ v.link = w[1] /\ v.topic = DefaultTopic
                                 /\ SetUser(w[2], job[w].rec.user, v)
<1>1. job[w].rec \in Known /\ job[w].rec \in Records /\ job[w].rec.user \in Users
  BY Geometry, JobShape DEF Join
<1>2. w[1] \in Nodes /\ JoinInfo(job[w].rec) \in Infos
  BY Zenon, <1>1, Geometry, RecordShape, MeshAssumption DEF JoinInfo
<1> DEFINE v == [topic |-> DefaultTopic, link |-> w[1], info |-> JoinInfo(job[w].rec)]
<1>3. v \in Presences /\ v.link = w[1] /\ v.topic = DefaultTopic
  BY <1>2, MeshAssumption DEF Presences
<1>4. SetUser(w[2], job[w].rec.user, v)
  BY DEF Join
<1> QED BY <1>1, <1>3, <1>4

(* A step of the relay keeps shape and topics.                             *)
LEMMA RelayStep ==
  ASSUME ShapeInv, TopicInv, Relay
  PROVE  ShapeInv' /\ TopicInv'
<1>0. /\ hub \in [Members -> [Users -> Presences \cup {Null}]]
      /\ fan \in [Members -> Seq(Known)] /\ chan \in [Wires -> Seq(Known)]
      /\ tell \in [Wires -> Seq(Seq(Known) \ {<<>>})]
      /\ \A p \in Procs : job[p] = NoJob \/ IsJob(job[p])
  BY DEF ShapeInv
<1>1. ASSUME NEW n \in Members, FanOut(n) PROVE ShapeInv' /\ TopicInv'
  <2>1. fan[n] \in Seq(Known) /\ fan[n] # <<>>
    BY <1>0, <1>1 DEF FanOut
  <2>2. Head(fan[n]) \in Known /\ Tail(fan[n]) \in Seq(Known)
    BY <2>1
  <2>3. fan' \in [Members -> Seq(Known)]
    BY <1>0, <1>1, <2>2 DEF FanOut
  <2> DEFINE j == Sending(Head(fan[n]), Targets(n, Null))
  <2>4. job' = [job EXCEPT ![<<n, n>>] = j] /\ (j = NoJob \/ IsJob(j))
    BY <1>1, <2>2, SendingShape DEF FanOut
  <2> HIDE DEF j
  <2>5. DOMAIN job' = DOMAIN job /\ \A p \in Procs : job'[p] = NoJob \/ IsJob(job'[p])
    BY <1>0, <2>4 DEF Procs
  <2>6. UNCHANGED <<net, hub, seen, chan, tell, end, said>>
    BY <1>1 DEF FanOut, linkVars, opVars
  <2>7. ShapeInv' /\ Members' = Members
    BY <1>0, <2>3, <2>5, <2>6, OtherShape
  <2> QED BY <2>6, <2>7 DEF TopicInv, Said
<1>2. ASSUME NEW p \in Procs, NEW l \in Sinks, Send(p, l) PROVE ShapeInv' /\ TopicInv'
  <2>1. job[p].rec \in Known
    BY <1>2, JobShape DEF Send
  <2>2. chan' \in [Wires -> Seq(Known)]
    BY <1>2, <2>1, WriteShape DEF Send
  <2> DEFINE j == Sending(job[p].rec, job[p].to \ {l})
  <2>3. job' = [job EXCEPT ![p] = j] /\ (j = NoJob \/ IsJob(j))
    BY <1>2, <2>1, SendingShape DEF Send
  <2> HIDE DEF j
  <2>4. DOMAIN job' = DOMAIN job /\ \A q \in Procs : job'[q] = NoJob \/ IsJob(job'[q])
    BY <1>0, <2>3 DEF Procs
  <2>5. UNCHANGED <<net, hub, seen, fan, tell, end, said>>
    BY <1>2 DEF Send, linkVars, opVars
  <2>6. ShapeInv' /\ Members' = Members
    BY <1>0, <2>2, <2>4, <2>5, OtherShape
  <2> QED BY <2>5, <2>6 DEF TopicInv, Said
<1>3. ASSUME NEW w \in Wires, Take(w) PROVE ShapeInv' /\ TopicInv'
  <2> DEFINE r == Head(chan[w])
             j == Job(IF r.type = "L" THEN "act" ELSE "check", r, {})
  <2>1. chan[w] \in Seq(Known) /\ chan[w] # <<>>
    BY <1>0, <1>3 DEF Take
  <2>2. r \in Known /\ Tail(chan[w]) \in Seq(Known)
    BY <2>1
  <2>3. chan' \in [Wires -> Seq(Known)]
    BY <1>0, <1>3, <2>2 DEF Take
  <2>4. IsJob(j)
    BY <2>2, JobFields DEF IsJob
  <2>5. DOMAIN seen' = DOMAIN seen /\ (job' = job \/ job' = [job EXCEPT ![w] = j])
    BY <1>3 DEF Take
  <2> HIDE DEF j, r
  <2>6. DOMAIN job' = DOMAIN job /\ \A q \in Procs : job'[q] = NoJob \/ IsJob(job'[q])
    BY <1>0, <2>4, <2>5 DEF Procs
  <2>7. UNCHANGED <<net, hub, fan, tell, end, said>>
    BY <1>3 DEF Take, linkVars, opVars
  <2>8. ShapeInv' /\ Members' = Members
    BY <1>0, <2>3, <2>5, <2>6, <2>7, OtherShape
  <2> QED BY <2>7, <2>8 DEF TopicInv, Said
<1>4. ASSUME NEW w \in Wires, NEW s \in {"join", "act"}, IsJob(job[w]),
             job' = [job EXCEPT ![w].stage = s]
      PROVE  DOMAIN job' = DOMAIN job /\ \A q \in Procs : job'[q] = NoJob \/ IsJob(job'[q])
  <2>1. job' = [job EXCEPT ![w] = Job(s, job[w].rec, job[w].to)]
    <3>1. [job[w] EXCEPT !.stage = s] = Job(s, job[w].rec, job[w].to)
      BY <1>4, JobMoves DEF IsJob
    <3>2. job' = [job EXCEPT ![w] = [job[w] EXCEPT !.stage = s]]
      BY <1>4
    <3> QED BY Zenon, <3>1, <3>2
  <2>2. IsJob(Job(s, job[w].rec, job[w].to))
    BY <1>4, JobFields DEF IsJob
  <2> QED BY <1>0, <2>1, <2>2 DEF Procs
<1>5. ASSUME NEW w \in Wires, Check(w) PROVE ShapeInv' /\ TopicInv'
  <2>1. IsJob(job[w])
    BY Zenon, <1>5, Geometry, JobShape DEF Check
  <2>2. DOMAIN job' = DOMAIN job /\ \A q \in Procs : job'[q] = NoJob \/ IsJob(job'[q])
    BY Zenon, <1>4, <1>5, <2>1 DEF Check
  <2>3. UNCHANGED <<net, hub, seen, fan, chan, tell, end, said>>
    BY <1>5 DEF Check, linkVars, opVars
  <2>4. ShapeInv' /\ Members' = Members
    BY <1>0, <2>2, <2>3, OtherShape
  <2> QED BY <2>3, <2>4 DEF TopicInv, Said
<1>6. ASSUME NEW w \in Wires, Join(w) PROVE ShapeInv' /\ TopicInv'
  <2>1. IsJob(job[w])
    BY <1>6, Geometry, JobShape DEF Join
  <2>2. DOMAIN job' = DOMAIN job /\ \A q \in Procs : job'[q] = NoJob \/ IsJob(job'[q])
    BY Zenon, <1>4, <1>6, <2>1 DEF Join
  <2>3. UNCHANGED <<net, seen, fan, chan, tell, end, said>>
    BY <1>6 DEF Join, linkVars, opVars
  <2>4. PICK v \in Presences : v.topic = DefaultTopic /\ SetUser(w[2], job[w].rec.user, v)
    BY <1>6, JoinShape
  <2>5. w[2] \in Members /\ job[w].rec.user \in Users
    BY <1>6, Geometry, JoinShape
  <2>6. /\ hub' \in [Members -> [Users -> Presences \cup {Null}]]
        /\ \A m \in Members, x \in Users :
             hub'[m][x] = IF m = w[2] /\ x = job[w].rec.user THEN v ELSE hub[m][x]
    BY <2>4, <2>5, SetUserShape
  <2>7. ShapeInv' /\ Members' = Members
    BY <1>0, <2>2, <2>3, <2>6, OtherShape
  <2> QED BY <2>3, <2>4, <2>6, <2>7 DEF TopicInv, Said
<1>7. ASSUME NEW w \in Wires, Act(w) PROVE ShapeInv' /\ TopicInv'
  <2> DEFINE r == job[w].rec
             v == Applied(w[2], r)
             j == Sending(r, RelayTo(w))
  <2>1. r \in Known /\ r.user \in Users /\ w[2] \in Members
    BY <1>7, Geometry, JobShape DEF Act
  <2>2. v \in Presences \cup {Null} /\ (v # Null /\ v.topic # DefaultTopic => Said(r.user, {"T"}))
    BY <2>1, AppliedShape
  <2>3. job' = [job EXCEPT ![w] = j] /\ (j = NoJob \/ IsJob(j))
    BY <1>7, <2>1, SendingShape DEF Act
  <2>4. SetUser(w[2], r.user, v)
    BY <1>7 DEF Act
  <2> HIDE DEF j, v, r
  <2>5. /\ hub' \in [Members -> [Users -> Presences \cup {Null}]]
        /\ \A m \in Members, x \in Users :
             hub'[m][x] = IF m = w[2] /\ x = r.user THEN v ELSE hub[m][x]
    BY <2>1, <2>2, <2>4, SetUserShape
  <2>6. DOMAIN job' = DOMAIN job /\ \A q \in Procs : job'[q] = NoJob \/ IsJob(job'[q])
    BY <1>0, <2>3 DEF Procs
  <2>7. UNCHANGED <<net, fan, chan, tell, end, said>> /\ DOMAIN seen' = DOMAIN seen
    BY <1>7 DEF Act, linkVars, opVars
  <2>8. ShapeInv' /\ Members' = Members
    BY <1>0, <2>5, <2>6, <2>7, OtherShape
  <2> QED BY <2>2, <2>5, <2>7, <2>8 DEF TopicInv, Said
<1> QED BY <1>1, <1>2, <1>3, <1>5, <1>6, <1>7 DEF Relay

(* What state_tell tells is known.                                         *)
LEMMA TellsShape ==
  ASSUME ShapeInv, TopicInv, NEW n \in Members, NEW u \in Users, hub[n][u] # Null
  PROVE  TellsOf(n, u) \in Seq(Known) \ {<<>>}
<1>1. hub[n][u] \in Presences /\ hub[n][u].info \in Infos /\ hub[n][u].topic \in Topics
  BY PresenceShape DEF ShapeInv
<1> DEFINE j == Rec("J", u, hub[n][u].info)
           t == Rec("T", u, hub[n][u].topic)
<1>2. j \in Records /\ t \in Records
  BY <1>1, RecordMade
<1>3. j.type = "J" /\ t.type = "T" /\ t.user = u
  BY RecFields
<1> HIDE DEF j, t
<1>4. j \in Known
  BY <1>2, <1>3 DEF Known
<1>5. hub[n][u].topic # DefaultTopic => t \in Known
  BY <1>2, <1>3 DEF Known, TopicInv
<1>6. TellsOf(n, u) = IF hub[n][u].topic = DefaultTopic THEN <<j>> ELSE <<j, t>>
  BY DEF TellsOf, TellsOfJoin, j, t
<1> QED BY <1>4, <1>5, <1>6

(* A step of a link keeps shape and topics.                                *)
LEMMA LinkLifeStep ==
  ASSUME ShapeInv, TopicInv, LinkStep \/ \E e \in Edges : Break(e) \/ Dial(e)
  PROVE  ShapeInv' /\ TopicInv'
<1>0. /\ hub \in [Members -> [Users -> Presences \cup {Null}]]
      /\ fan \in [Members -> Seq(Known)] /\ chan \in [Wires -> Seq(Known)]
      /\ tell \in [Wires -> Seq(Seq(Known) \ {<<>>})]
      /\ \A p \in Procs : job[p] = NoJob \/ IsJob(job[p])
  BY DEF ShapeInv
<1>1. ASSUME UNCHANGED <<net, said, seen, fan, job, hub>>, DOMAIN end' = DOMAIN end,
             chan' \in [Wires -> Seq(Known)], tell' \in [Wires -> Seq(Seq(Known) \ {<<>>})]
      PROVE  ShapeInv' /\ TopicInv'
  <2>1. ShapeInv' /\ Members' = Members
    BY <1>0, <1>1, OtherShape
  <2> QED BY <1>1, <2>1 DEF TopicInv, Said
<1>2. ASSUME NEW w \in Wires, Serve(w) PROVE ShapeInv' /\ TopicInv'
  BY <1>0, <1>1, <1>2 DEF Serve, opVars
<1>3. ASSUME NEW w \in Wires, Snap(w) PROVE ShapeInv' /\ TopicInv'
  <2> DEFINE n == w[2]
             S == {u \in Users : Home[u] = n /\ n \notin probed /\ hub[n][u] # Null}
  <2>1. PICK order \in Orders(S) :
          tell' = [tell EXCEPT ![w] = [i \in DOMAIN order |-> TellsOf(n, order[i])]]
    BY Zenon, <1>3 DEF Snap
  <2>2. PICK size \in 0..Cardinality(S) : order \in [1..size -> S]
    BY Zenon, <2>1 DEF Orders, Bijection, Injection
  <2>3. size \in Nat
    OBVIOUS
  <2>4. n \in Members /\ \A u \in S : TellsOf(n, u) \in Seq(Known) \ {<<>>}
    BY Geometry, TellsShape
  <2> HIDE DEF S, n
  <2>5. [i \in DOMAIN order |-> TellsOf(n, order[i])] \in Seq(Seq(Known) \ {<<>>})
    <3> DEFINE A == Seq(Known) \ {<<>>}
    <3> HIDE DEF A
    <3>1. [i \in DOMAIN order |-> TellsOf(n, order[i])] \in [1..size -> A]
      BY <2>2, <2>4 DEF A
    <3>2. [i \in DOMAIN order |-> TellsOf(n, order[i])] \in Seq(A)
      BY <2>3, <3>1
    <3> QED BY <3>2 DEF A
  <2>6. tell' \in [Wires -> Seq(Seq(Known) \ {<<>>})]
    BY <1>0, <2>1, <2>5
  <2> QED BY <1>0, <1>1, <1>3, <2>6 DEF Snap, opVars
<1>4. ASSUME NEW w \in Wires, Tell(w) PROVE ShapeInv' /\ TopicInv'
  <2>1. CASE tell[w] = <<>>
    BY <1>0, <1>1, <1>4, <2>1 DEF Tell, opVars
  <2>2. CASE tell[w] # <<>>
    <3>1. tell[w] \in Seq(Seq(Known) \ {<<>>})
      BY <1>0
    <3>2. Head(Head(tell[w])) \in Known /\ Told(tell[w]) \in Seq(Seq(Known) \ {<<>>})
      BY Zenon, <2>2, <3>1, SeqTell
    <3>3. chan' \in [Wires -> Seq(Known)]
      BY <1>4, <2>2, <3>2, WriteShape DEF Tell
    <3>4. tell' \in [Wires -> Seq(Seq(Known) \ {<<>>})]
      BY Zenon, <1>0, <1>4, <2>2, <3>2 DEF Tell
    <3> QED BY <1>0, <1>1, <1>4, <2>2, <3>3, <3>4 DEF Tell, opVars
  <2> QED BY <2>1, <2>2
<1>5. ASSUME NEW w \in Wires, Stop(w) PROVE ShapeInv' /\ TopicInv'
  <2>1. hub' = [hub EXCEPT ![w[2]] = [u \in Users |->
                  IF u \in LearnedVia(w[2], w[1]) THEN Null ELSE hub[w[2]][u]]]
    BY <1>5 DEF Stop
  <2>2. hub' \in [Members -> [Users -> Presences \cup {Null}]]
    BY <1>0, <2>1
  <2>3. \A n \in Members, u \in Users : hub'[n][u] # Null => hub'[n][u] = hub[n][u]
    BY <1>0, <2>1
  <2>4. chan' \in [Wires -> Seq(Known)]
    <3>1. <<>> \in Seq(Known)
      OBVIOUS
    <3> QED BY <1>0, <1>5, <3>1 DEF Stop
  <2>5. UNCHANGED <<net, said, seen, fan, job, tell>> /\ DOMAIN end' = DOMAIN end
    BY <1>5 DEF Stop, opVars
  <2>6. ShapeInv' /\ Members' = Members
    BY Zenon, <1>0, <2>2, <2>4, <2>5, OtherShape
  <2> QED BY <2>3, <2>5, <2>6 DEF TopicInv, Said
<1>6. ASSUME NEW e \in Edges, Break(e) \/ Dial(e) PROVE ShapeInv' /\ TopicInv'
  BY Zenon, <1>0, <1>1, <1>6 DEF Break, Dial, opVars
<1> QED BY Zenon, <1>2, <1>3, <1>4, <1>5, <1>6 DEF LinkStep

(* A local operation says a record, and sets nobody but its own user.      *)
LEMMA LocalIsSaid ==
  ASSUME LocalOp
  PROVE  \E u \in net.users : \E r :
           Local(u, r) /\ (hub' = hub \/ \E v : SetUser(Home[u], u, v))
<1>1. PICK u \in net.users : \/ LocalJoin(u) \/ LocalLeave(u)
                             \/ \E i \in net.infos : LocalInfo(u, i)
                             \/ \E t \in net.topics : LocalTopic(u, t)
                             \/ \E x \in net.texts : \/ LocalPost(u, x)
                                                     \/ \E v \in net.addressees : LocalPrivate(u, v, x)
  BY DEF LocalOp
<1>2. CASE LocalJoin(u) \/ LocalLeave(u)
  BY <1>2 DEF LocalJoin, LocalLeave
<1>3. CASE (\E i \in net.infos : LocalInfo(u, i)) \/ \E t \in net.topics : LocalTopic(u, t)
  BY Zenon, <1>3 DEF LocalInfo, LocalTopic
<1>4. ASSUME NEW r, LocalMessage(u, r) PROVE Local(u, r) /\ hub' = hub
  BY <1>4 DEF LocalMessage
<1> QED BY Zenon, <1>1, <1>2, <1>3, <1>4 DEF LocalPost, LocalPrivate

LEMMA ShapeStep ==
  ASSUME ShapeInv, TopicInv, [Next]_vars
  PROVE  ShapeInv' /\ TopicInv' /\ net' = net /\ Members' = Members /\ Wires' = Wires
<1>1. ShapeInv' /\ TopicInv'
  <2>1. CASE UNCHANGED vars
    <3>1. UNCHANGED <<net, hub, seen, fan, job, chan, tell, end, said>>
      BY Zenon, <2>1 DEF vars, linkVars, opVars
    <3>2. ShapeInv' /\ Members' = Members
      BY Zenon, <3>1, OtherShape DEF ShapeInv
    <3> QED BY <3>1, <3>2 DEF TopicInv, Said
  <2> QED BY <2>1, LocalStep, RelayStep, LinkLifeStep DEF Next
<1>2. net' = net
  <2>1. CASE LocalOp
    <3>1. PICK u \in net.users : \E r : Local(u, r)
      BY <2>1, LocalIsSaid
    <3>2. PICK r : Local(u, r)
      BY <3>1
    <3> QED BY <3>2 DEF Local
  <2>2. CASE Relay
    <3>1. ASSUME NEW w \in Wires, Take(w) \/ Check(w) \/ Join(w) \/ Act(w) PROVE net' = net
      BY <3>1 DEF Take, Check, Join, Act
    <3>2. ASSUME NEW n \in Members, FanOut(n) PROVE net' = net
      BY Zenon, <3>2 DEF FanOut
    <3>3. ASSUME NEW p \in Procs, NEW l \in Sinks, Send(p, l) PROVE net' = net
      BY <3>3 DEF Send
    <3> QED BY <2>2, <3>1, <3>2, <3>3 DEF Relay
  <2>3. CASE LinkStep
    BY Zenon, <2>3 DEF LinkStep, Serve, Snap, Tell, Stop
  <2>4. CASE (\E e \in Edges : Break(e) \/ Dial(e)) \/ UNCHANGED vars
    BY Zenon, <2>4 DEF Break, Dial, vars
  <2> QED BY <2>1, <2>2, <2>3, <2>4 DEF Next
<1> QED BY Zenon, <1>1, <1>2 DEF ShapeInv

-----------------------------------------------------------------------------
(* Users and links.                                                        *)

(* What a local operation leaves alone: the other users, links and jobs.   *)
LEMMA LocalFrame ==
  ASSUME ShapeInv, LocalOp
  PROVE  /\ UNCHANGED <<job, end, chan>>
         /\ \A n \in Members, u \in Users : Home[u] # n => hub'[n][u] = hub[n][u]
<1>1. ASSUME NEW u \in net.users, NEW v, SetUser(Home[u], u, v)
      PROVE  \A n \in Members, w \in Users : Home[w] # n => hub'[n][w] = hub[n][w]
  BY <1>1 DEF ShapeInv, SetUser
<1>2. PICK u \in net.users :
        \E r : Local(u, r) /\ (hub' = hub \/ \E v : SetUser(Home[u], u, v))
  BY LocalIsSaid
<1>3. PICK r : Local(u, r) /\ (hub' = hub \/ \E v : SetUser(Home[u], u, v))
  BY <1>2
<1>4. UNCHANGED <<job, end, chan>>
  BY <1>3 DEF Local, linkVars
<1> QED BY <1>1, <1>3, <1>4

LEMMA LinkInvStep ==
  ASSUME ShapeInv, TopicInv, LinkInv, [Next]_vars
  PROVE  LinkInv'
<1>0. /\ Members' = Members /\ Wires' = Wires /\ DOMAIN end = Wires
      /\ hub \in [Members -> [Users -> Presences \cup {Null}]]
      /\ \A w \in Wires : w = <<w[1], w[2]>> /\ w[2] \in Members /\ w \in Procs
      /\ \A w \in Wires : job[w] # NoJob => end[w] = "up"
  BY Zenon, ShapeStep, Geometry DEF ShapeInv, LinkInv
<1>1. ASSUME end' = end, \A w \in Wires : job'[w] # NoJob => end[w] = "up",
             \A n \in Members, u \in Users : hub'[n][u] # Null /\ Home[u] # n =>
               \/ hub[n][u] # Null /\ hub'[n][u].link = hub[n][u].link
               \/ <<hub'[n][u].link, n>> \in Wires /\ end[<<hub'[n][u].link, n>>] = "up"
      PROVE  LinkInv'
  <2>1. ASSUME NEW n \in Members, NEW u \in Users, hub'[n][u] # Null, Home[u] # n
        PROVE  <<hub'[n][u].link, n>> \in Wires /\ end'[<<hub'[n][u].link, n>>] # "down"
    <3>1. CASE hub[n][u] # Null /\ hub'[n][u].link = hub[n][u].link
      BY <1>1, <2>1, <3>1 DEF LinkInv, NoOrphan
    <3>2. CASE /\ <<hub'[n][u].link, n>> \in Wires
               /\ end[<<hub'[n][u].link, n>>] = "up"
      BY <1>1, <3>2
    <3> QED BY <1>1, <2>1, <3>1, <3>2
  <2> QED BY Zenon, <1>0, <1>1, <2>1 DEF LinkInv, NoOrphan
<1>2. ASSUME hub' = hub, job' = job,
             \A w \in Wires : /\ end[w] = "up" => end'[w] = "up"
                              /\ end[w] # "down" => end'[w] # "down"
      PROVE  LinkInv'
  BY <1>0, <1>2 DEF LinkInv, NoOrphan
<1>3. CASE LocalOp
  BY <1>0, <1>1, <1>3, LocalFrame
<1>4. ASSUME NEW n \in Members, FanOut(n) PROVE LinkInv'
  <2>1. \A w \in Wires : job'[w] = job[w]
    BY <1>0, <1>4, Geometry DEF FanOut, Procs
  <2> QED BY <1>0, <1>1, <1>4, <2>1 DEF FanOut, linkVars
<1>5. ASSUME NEW p \in Procs, job[p].stage # "idle", NEW j, job' = [job EXCEPT ![p] = j]
      PROVE  \A w \in Wires : job'[w] # NoJob => end[w] = "up"
  <2>1. \A w \in Wires : w # p => job'[w] = job[w]
    BY <1>0, <1>5 DEF Procs
  <2>2. job[p] # NoJob
    BY <1>5 DEF NoJob
  <2> QED BY <1>0, <2>1, <2>2
<1>6. ASSUME NEW p \in Procs, NEW l \in Sinks, Send(p, l) PROVE LinkInv'
  <2>1. \A w \in Wires : job'[w] # NoJob => end[w] = "up"
    BY Zenon, <1>5, <1>6 DEF Send
  <2> QED BY <1>1, <1>6, <2>1 DEF Send, linkVars
<1>7. ASSUME NEW w \in Wires, Take(w) PROVE LinkInv'
  <2>1. \A v \in Wires : v # w => job'[v] = job[v]
    BY <1>0, <1>7 DEF Take, Procs
  <2> QED BY <1>0, <1>1, <1>7, <2>1 DEF Take, linkVars
<1>8. ASSUME NEW w \in Wires, Check(w) PROVE LinkInv'
  <2>1. \A v \in Wires : job'[v] # NoJob => end[v] = "up"
    BY Zenon, <1>0, <1>5, <1>8 DEF Check
  <2> QED BY Zenon, <1>1, <1>8, <2>1 DEF Check, linkVars
<1>9. ASSUME NEW w \in Wires, Join(w) PROVE LinkInv'
  <2>1. \A v \in Wires : job'[v] # NoJob => end[v] = "up"
    BY Zenon, <1>0, <1>5, <1>9 DEF Join
  <2>2. end[w] = "up" /\ end' = end
    BY <1>0, <1>9 DEF Join, NoJob, linkVars
  <2>3. PICK v \in Presences : v.link = w[1] /\ SetUser(w[2], job[w].rec.user, v)
    BY <1>9, JoinShape
  <2>4. \A m \in Members, x \in Users :
          hub'[m][x] = IF m = w[2] /\ x = job[w].rec.user THEN v ELSE hub[m][x]
    BY <1>0, <1>9, <2>3, SetUserShape, JoinShape
  <2> QED BY <1>0, <1>1, <2>1, <2>2, <2>3, <2>4
<1>10. ASSUME NEW w \in Wires, Act(w) PROVE LinkInv'
  <2> DEFINE r == job[w].rec
             v == Applied(w[2], r)
  <2>1. \A x \in Wires : job'[x] # NoJob => end[x] = "up"
    BY Zenon, <1>0, <1>5, <1>10 DEF Act
  <2>2. r \in Known /\ r.user \in Users
    BY Zenon, <1>0, <1>10, JobShape DEF Act
  <2>3. /\ v \in Presences \cup {Null}
        /\ v # Null => hub[w[2]][r.user] # Null /\ v.link = hub[w[2]][r.user].link
    BY Zenon, <1>0, <2>2, AppliedShape
  <2>4. SetUser(w[2], r.user, v) /\ end' = end
    BY <1>10 DEF Act, linkVars
  <2> HIDE DEF r, v
  <2>5. \A m \in Members, x \in Users :
          hub'[m][x] = IF m = w[2] /\ x = r.user THEN v ELSE hub[m][x]
    BY <1>0, <2>2, <2>3, <2>4, SetUserShape
  <2> QED BY <1>1, <2>1, <2>3, <2>4, <2>5
<1>11. ASSUME NEW w \in Wires, Serve(w) \/ Snap(w) \/ Tell(w) PROVE LinkInv'
  BY <1>0, <1>2, <1>11 DEF Serve, Snap, Tell
<1>12. ASSUME NEW w \in Wires, Stop(w) PROVE LinkInv'
  <2>1. /\ job[w] = NoJob /\ job' = job /\ end' = [end EXCEPT ![w] = "down"]
        /\ hub' = [hub EXCEPT ![w[2]] = [u \in Users |->
                  IF u \in LearnedVia(w[2], w[1]) THEN Null ELSE hub[w[2]][u]]]
    BY <1>12 DEF Stop, FoundOut
  <2>2. \A n \in Members, u \in Users : hub'[n][u] # Null =>
          hub'[n][u] = hub[n][u] /\ (n = w[2] => hub[n][u].link # w[1])
    BY <1>0, <2>1 DEF LearnedVia
  <2>3. \A v \in Wires : v # w => end'[v] = end[v]
    BY <1>0, <2>1
  <2>4. ASSUME NEW n \in Members, NEW u \in Users, hub'[n][u] # Null, Home[u] # n
        PROVE  <<hub'[n][u].link, n>> \in Wires /\ end'[<<hub'[n][u].link, n>>] # "down"
    <3> DEFINE v == <<hub[n][u].link, n>>
    <3>1. v \in Wires /\ end[v] # "down" /\ hub'[n][u] = hub[n][u]
      BY <2>2, <2>4 DEF LinkInv, NoOrphan
    <3>2. v # w
      BY <1>0, <2>2, <2>4
    <3> QED BY <2>3, <3>1, <3>2
  <2>5. NoOrphan'
    BY <1>0, <2>4 DEF NoOrphan
  <2>6. \A v \in Wires : job'[v] # NoJob => end'[v] = "up"
    BY <1>0, <2>1, <2>3
  <2> QED BY Zenon, <1>0, <2>5, <2>6 DEF LinkInv
<1>13. ASSUME NEW e \in Edges, Break(e) \/ Dial(e) PROVE LinkInv'
  BY <1>0, <1>2, <1>13 DEF Break, Dial
<1>14. CASE UNCHANGED vars
  BY <1>0, <1>2, <1>14 DEF vars, linkVars
<1> QED BY <1>3, <1>4, <1>6, <1>7, <1>8, <1>9, <1>10, <1>11, <1>12, <1>13, <1>14
        DEF Next, Relay, LinkStep

LEMMA ShapeInit == Init => ShapeInv /\ TopicInv
<1> SUFFICES ASSUME Init PROVE ShapeInv /\ TopicInv
  OBVIOUS
<1>1. ShapeInv
  <2>1. /\ net \in Nets /\ Members = UNION net.edges
        /\ Wires = {w \in Nodes \X Nodes : {w[1], w[2]} \in net.edges}
    BY Zenon DEF Init, Members, Wires
  <2>2. Procs = Wires \cup {<<n, n>> : n \in Members} /\ job = [p \in Procs |-> NoJob]
    BY Zenon DEF Init, Members, Wires, Procs
  <2>3. DOMAIN seen = Members /\ DOMAIN end = Wires
    BY Zenon DEF Init, Members, Wires
  <2>4. hub \in [Members -> [Users -> Presences \cup {Null}]]
    BY <2>1 DEF Init
  <2>5. <<>> \in Seq(Known) /\ <<>> \in Seq(Seq(Known) \ {<<>>})
    OBVIOUS
  <2>6. fan \in [Members -> Seq(Known)] /\ chan \in [Wires -> Seq(Known)]
        /\ tell \in [Wires -> Seq(Seq(Known) \ {<<>>})]
    BY <2>1, <2>5 DEF Init
  <2>7. \A p \in Procs : job[p] = NoJob
    BY <2>2
  <2> QED BY Zenon, <2>1, <2>2, <2>3, <2>4, <2>6, <2>7 DEF ShapeInv
<1> QED BY Zenon, <1>1 DEF Init, TopicInv, Members

LEMMA MeshShape == Spec => [](ShapeInv /\ TopicInv)
<1>1. ShapeInv /\ TopicInv /\ [Next]_vars => (ShapeInv /\ TopicInv)'
  BY ShapeStep
<1> QED BY <1>1, ShapeInit, PTL DEF Spec

(* peer/link.go serve and hub.go UnlinkNode: no hub of the mesh keeps a    *)
(* remote user whose ingress link it no longer serves.                     *)
THEOREM NoUserOutlivesItsLink == Spec => []NoOrphan
<1>1. Init => LinkInv
  <2> SUFFICES ASSUME Init PROVE LinkInv
    BY Zenon
  <2>1. \A n \in Members, u \in Users : hub[n][u] = Null
    BY Zenon DEF Init, Members
  <2>2. \A w \in Wires : job[w] = NoJob
    BY DEF Init
  <2> QED BY <2>1, <2>2 DEF LinkInv, NoOrphan
<1>2. ShapeInv /\ TopicInv /\ LinkInv /\ [Next]_vars => LinkInv'
  BY LinkInvStep
<1>3. LinkInv => NoOrphan
  BY DEF LinkInv
<1> QED BY <1>1, <1>2, <1>3, MeshShape, PTL DEF Spec

-----------------------------------------------------------------------------
(* Deliveries.  A message has one id at every node if it is private or its *)
(* sender stays in the first topic.                                        *)
Single(r) == r.type = "S" \/ (r.type = "D" /\ ~Said(r.user, {"T"}))
TheId(r)  == IF r.type = "D" THEN <<r, DefaultTopic>> ELSE <<r>>

Handles(w, r) == job[w].stage \in {"check", "join", "act"} /\ job[w].rec = r

Delivered == [user: Users, type: {"D", "S"}, arg: Texts \cup (Users \X Texts),
              topic: Topics \cup {Null}]
RecOf(m)  == Rec(m.type, m.user, m.arg)

(* What a node has taken or delivered it has seen; what is delivered was   *)
(* said; and no message is in two of the hands and logs of a node.         *)
OnceInv ==
  /\ dlv \in [Members -> Seq(Delivered)]
  /\ \A w \in Wires, r \in Records : Handles(w, r) =>
       Home[r.user] # w[2] /\ (Single(r) => TheId(r) \in seen[w[2]])
  /\ \A v, w \in Wires, r \in Records :
       Handles(v, r) /\ Handles(w, r) /\ v[2] = w[2] /\ Single(r) => v = w
  /\ \A n \in Members : \A i \in DOMAIN dlv[n] :
       /\ RecOf(dlv[n][i]) \in said
       /\ Single(RecOf(dlv[n][i])) =>
            /\ TheId(RecOf(dlv[n][i])) \in seen[n]
            /\ \A w \in Wires : w[2] = n => ~Handles(w, RecOf(dlv[n][i]))
            /\ \A j \in DOMAIN dlv[n] : j # i => RecOf(dlv[n][j]) # RecOf(dlv[n][i])

LEMMA OneId ==
  ASSUME ShapeInv, TopicInv, NEW n \in Members, NEW r \in Records, Single(r)
  PROVE  RecordID(n, r) = TheId(r)
<1>1. r.user \in Users /\ r.type \in {"D", "S"}
  BY RecordShape DEF Single
<1>2. r.type = "D" => TopicOf(n, r.user) = DefaultTopic
  BY Zenon, <1>1 DEF Single, TopicOf, TopicInv
<1> QED BY <1>1, <1>2 DEF RecordID, TheId

LEMMA MessageOf ==
  ASSUME ShapeInv, NEW n \in Members, NEW r \in Records, r.type \in {"D", "S"}
  PROVE  Message(n, r) \in Delivered /\ RecOf(Message(n, r)) = r
<1>1. /\ r.user \in Users /\ r = Rec(r.type, r.user, r.arg)
      /\ r.arg \in Texts \cup (Users \X Texts)
  BY RecordShape DEF Records
<1>2. TopicOf(n, r.user) \in Topics
  BY <1>1, MeshAssumption, PresenceShape DEF TopicOf, ShapeInv
<1>3. Message(n, r) \in Delivered
  BY <1>1, <1>2 DEF Message, Delivered
<1>4. RecOf(Message(n, r)) = Rec(r.type, r.user, r.arg)
  BY DEF RecOf, Message
<1> QED BY Zenon, <1>1, <1>3, <1>4

(* OnceInv after a step that delivers nothing.                             *)
LEMMA OnceHolds ==
  ASSUME OnceInv, Members' = Members, Wires' = Wires, dlv' = dlv,
         \A w \in Wires, r \in Records : Handles(w, r)' =>
           Home[r.user] # w[2] /\ (Single(r)' => TheId(r) \in seen'[w[2]]),
         \A v, w \in Wires, r \in Records :
           Handles(v, r)' /\ Handles(w, r)' /\ v[2] = w[2] /\ Single(r)' => v = w,
         \A n \in Members : \A i \in DOMAIN dlv[n] :
           /\ RecOf(dlv[n][i]) \in said'
           /\ Single(RecOf(dlv[n][i]))' =>
                /\ TheId(RecOf(dlv[n][i])) \in seen'[n]
                /\ \A w \in Wires : w[2] = n => ~Handles(w, RecOf(dlv[n][i]))'
                /\ \A j \in DOMAIN dlv[n] : j # i => RecOf(dlv[n][j]) # RecOf(dlv[n][i])
  PROVE  OnceInv'
<1>1. dlv' \in [Members' -> Seq(Delivered)]
  BY Zenon DEF OnceInv
<1>2. \A w \in Wires', r \in Records : Handles(w, r)' =>
        Home[r.user] # w[2] /\ (Single(r)' => TheId(r) \in seen'[w[2]])
  BY Zenon
<1>3. \A v, w \in Wires', r \in Records :
        Handles(v, r)' /\ Handles(w, r)' /\ v[2] = w[2] /\ Single(r)' => v = w
  BY Zenon
<1>4. \A n \in Members' : \A i \in DOMAIN dlv'[n] :
        /\ RecOf(dlv'[n][i]) \in said'
        /\ Single(RecOf(dlv[n][i]))' =>
             /\ TheId(RecOf(dlv'[n][i])) \in seen'[n]
             /\ \A w \in Wires' : w[2] = n => ~Handles(w, RecOf(dlv[n][i]))'
             /\ \A j \in DOMAIN dlv'[n] : j # i => RecOf(dlv'[n][j]) # RecOf(dlv'[n][i])
  <2> TAKE n \in Members'
  <2> TAKE i \in DOMAIN dlv'[n]
  <2>1. n \in Members /\ i \in DOMAIN dlv[n]
    BY Zenon
  <2>2. RecOf(dlv'[n][i]) \in said'
    BY Zenon, <2>1
  <2>3. ASSUME Single(RecOf(dlv[n][i]))'
        PROVE  /\ TheId(RecOf(dlv'[n][i])) \in seen'[n]
               /\ \A w \in Wires' : w[2] = n => ~Handles(w, RecOf(dlv[n][i]))'
               /\ \A j \in DOMAIN dlv'[n] : j # i => RecOf(dlv'[n][j]) # RecOf(dlv'[n][i])
    BY Zenon, <2>1, <2>3
  <2> QED BY Zenon, <2>2, <2>3
<1> QED BY Zenon, <1>1, <1>2, <1>3, <1>4 DEF OnceInv

(* Steps that take no record and deliver nothing.                          *)
LEMMA OnceFrame ==
  ASSUME OnceInv, Members' = Members, Wires' = Wires, said \subseteq said', dlv' = dlv,
         \A n \in Members : seen[n] \subseteq seen'[n],
         \A w \in Wires : \A r : Handles(w, r)' => Handles(w, r),
         \A w \in Wires : w[2] \in Members
  PROVE  OnceInv'
<1>1. \A r : Single(r)' => Single(r)
  BY DEF Single, Said
<1>2. \A w \in Wires, r \in Records : Handles(w, r)' =>
        Home[r.user] # w[2] /\ (Single(r)' => TheId(r) \in seen'[w[2]])
  BY Zenon, <1>1 DEF OnceInv
<1>3. \A v, w \in Wires, r \in Records :
        Handles(v, r)' /\ Handles(w, r)' /\ v[2] = w[2] /\ Single(r)' => v = w
  BY Zenon, <1>1 DEF OnceInv
<1>4. ASSUME NEW n \in Members, NEW i \in DOMAIN dlv[n]
      PROVE  /\ RecOf(dlv[n][i]) \in said'
             /\ Single(RecOf(dlv[n][i]))' =>
                  /\ TheId(RecOf(dlv[n][i])) \in seen'[n]
                  /\ \A w \in Wires : w[2] = n => ~Handles(w, RecOf(dlv[n][i]))'
                  /\ \A j \in DOMAIN dlv[n] : j # i => RecOf(dlv[n][j]) # RecOf(dlv[n][i])
  BY Zenon, <1>1 DEF OnceInv
<1> QED BY Zenon, <1>2, <1>3, <1>4, OnceHolds

(* A delivery of what has not been delivered and nobody else has in hand.  *)
LEMMA OnceDelivers ==
  ASSUME ShapeInv, OnceInv, Members' = Members, Wires' = Wires, said \subseteq said',
         NEW n \in Members, NEW r \in Records, r.type \in {"D", "S"}, r \in said',
         dlv' = [dlv EXCEPT ![n] = Append(@, Message(n, r))],
         \A m \in Members : seen[m] \subseteq seen'[m],
         \A w \in Wires : \A q : Handles(w, q)' => Handles(w, q),
         Single(r)' => /\ TheId(r) \in seen'[n]
                       /\ \A w \in Wires : w[2] = n => ~Handles(w, r)'
                       /\ \A i \in DOMAIN dlv[n] : RecOf(dlv[n][i]) # r
  PROVE  OnceInv'
<1>1. \A q : Single(q)' => Single(q)
  BY Zenon DEF Single, Said
<1>2. \A w \in Wires : w[2] \in Members
  BY Geometry
<1>3. /\ \A w \in Wires, q \in Records : Handles(w, q)' =>
           Home[q.user] # w[2] /\ (Single(q)' => TheId(q) \in seen'[w[2]])
      /\ \A v, w \in Wires, q \in Records :
           Handles(v, q)' /\ Handles(w, q)' /\ v[2] = w[2] /\ Single(q)' => v = w
  BY Zenon, <1>1, <1>2 DEF OnceInv
<1> DEFINE m == Message(n, r)
           N == Len(dlv[n]) + 1
<1>4. m \in Delivered /\ RecOf(m) = r
  BY MessageOf
<1>5. dlv \in [Members -> Seq(Delivered)]
  BY Zenon DEF OnceInv
<1> HIDE DEF m
<1>6. /\ dlv' = [dlv EXCEPT ![n] = Append(dlv[n], m)] /\ dlv' \in [Members -> Seq(Delivered)]
  <2>1. dlv' = [dlv EXCEPT ![n] = Append(dlv[n], m)]
    BY Zenon DEF m
  <2>2. Append(dlv[n], m) \in Seq(Delivered)
    BY <1>4, <1>5
  <2> QED BY Zenon, <1>5, <2>1, <2>2
<1>7. /\ DOMAIN dlv'[n] = DOMAIN dlv[n] \cup {N} /\ N \notin DOMAIN dlv[n] /\ dlv'[n][N] = m
      /\ \A i \in DOMAIN dlv[n] : dlv'[n][i] = dlv[n][i]
  BY <1>4, <1>5, <1>6
<1> HIDE DEF N
<1>8. \A k \in Members : k # n => dlv'[k] = dlv[k]
  BY <1>5, <1>6
<1>9. ASSUME NEW k \in Members, NEW i \in DOMAIN dlv'[k], NEW q, q = RecOf(dlv'[k][i])
      PROVE  /\ q \in said'
             /\ Single(q)' => /\ TheId(q) \in seen'[k]
                              /\ \A w \in Wires : w[2] = k => ~Handles(w, q)'
                              /\ \A j \in DOMAIN dlv'[k] : j # i => RecOf(dlv'[k][j]) # q
  <2>1. CASE k # n
    <3>1. i \in DOMAIN dlv[k] /\ q = RecOf(dlv[k][i]) /\ dlv'[k] = dlv[k]
      BY Zenon, <1>8, <1>9, <2>1
    <3>2. /\ q \in said
          /\ Single(q) => /\ TheId(q) \in seen[k]
                          /\ \A w \in Wires : w[2] = k => ~Handles(w, q)
                          /\ \A j \in DOMAIN dlv[k] : j # i => RecOf(dlv[k][j]) # q
      BY Zenon, <3>1 DEF OnceInv
    <3> QED BY Zenon, <1>1, <3>1, <3>2
  <2>2. CASE k = n /\ i = N
    <3>1. q = r
      BY Zenon, <1>4, <1>7, <1>9, <2>2
    <3>2. ASSUME Single(r)', NEW j \in DOMAIN dlv'[k], j # i PROVE RecOf(dlv'[k][j]) # r
      <4>1. j \in DOMAIN dlv[n] /\ dlv'[k][j] = dlv[n][j]
        BY Zenon, <1>7, <2>2, <3>2
      <4> QED BY Zenon, <3>2, <4>1
    <3> QED BY Zenon, <2>2, <3>1, <3>2
  <2>3. CASE k = n /\ i # N
    <3>1. i \in DOMAIN dlv[n] /\ q = RecOf(dlv[n][i])
      BY Zenon, <1>7, <1>9, <2>3
    <3>2. /\ q \in said
          /\ Single(q) => /\ TheId(q) \in seen[n]
                          /\ \A w \in Wires : w[2] = n => ~Handles(w, q)
                          /\ \A j \in DOMAIN dlv[n] : j # i => RecOf(dlv[n][j]) # q
      BY Zenon, <3>1 DEF OnceInv
    <3>3. Single(q)' => q # r
      BY Zenon, <3>1
    <3>4. ASSUME Single(q)', NEW j \in DOMAIN dlv'[k], j # i PROVE RecOf(dlv'[k][j]) # q
      <4>1. CASE j = N
        BY Zenon, <1>4, <1>7, <2>3, <3>3, <3>4, <4>1
      <4>2. CASE j # N
        BY Zenon, <1>1, <1>7, <2>3, <3>2, <3>4, <4>2
      <4> QED BY <4>1, <4>2
    <3> QED BY Zenon, <1>1, <2>3, <3>2, <3>4
  <2> QED BY Zenon, <1>7, <2>1, <2>2, <2>3
<1>10. ASSUME NEW k \in Members, NEW i \in DOMAIN dlv'[k]
       PROVE  /\ RecOf(dlv[k][i])' \in said'
              /\ Single(RecOf(dlv[k][i]))' =>
                   /\ TheId(RecOf(dlv[k][i]))' \in seen'[k]
                   /\ \A w \in Wires : w[2] = k => ~Handles(w, RecOf(dlv[k][i]))'
                   /\ \A j \in DOMAIN dlv'[k] : j # i => RecOf(dlv[k][j])' # RecOf(dlv[k][i])'
  <2>1. PICK q : q = RecOf(dlv[k][i])'
    BY Zenon
  <2>2. (Single(q)' <=> Single(RecOf(dlv[k][i]))') /\ TheId(q) = TheId(RecOf(dlv[k][i]))'
    <3>1. Single(q)' <=> Single(RecOf(dlv[k][i]))'
      BY Zenon, <2>1 DEF Single
    <3>2. TheId(q) = TheId(RecOf(dlv[k][i]))'
      BY <2>1 DEF TheId
    <3> QED BY Zenon, <3>1, <3>2
  <2>3. \A w \in Wires : Handles(w, q)' <=> Handles(w, RecOf(dlv[k][i]))'
    BY Zenon, <2>1 DEF Handles
  <2>4. q = RecOf(dlv'[k][i]) /\ \A j : RecOf(dlv'[k][j]) = RecOf(dlv[k][j])'
    BY Zenon, <2>1 DEF RecOf
  <2> QED BY Zenon, <1>9, <2>2, <2>3, <2>4
<1> QED BY Zenon, <1>3, <1>6, <1>10 DEF OnceInv

(* A reader takes what its node has not seen.                              *)
LEMMA OnceTakes ==
  ASSUME ShapeInv, TopicInv, OnceInv, NEW w \in Wires, Take(w)
  PROVE  OnceInv'
<1> DEFINE n == w[2]
           r == Head(chan[w])
<1>0. /\ Members' = Members /\ Wires' = Wires /\ \A v \in Wires : v[2] \in Members /\ v \in Procs
  BY Zenon, ShapeStep, Geometry DEF Next, Relay
<1>1. said' = said /\ dlv' = dlv
  BY DEF Take, opVars
<1>2. r \in Records
  <2>1. chan[w] \in Seq(Known) /\ chan[w] # <<>>
    BY Zenon DEF ShapeInv, Take
  <2> QED BY <2>1 DEF Known
<1>3. CASE Home[r.user] = n \/ IsDup(n, r)
  <2>1. seen' = seen /\ job' = job
    BY <1>3 DEF Take
  <2> QED BY Zenon, <1>0, <1>1, <2>1, OnceFrame DEF Handles
<1>4. CASE ~(Home[r.user] = n \/ IsDup(n, r))
  <2>1. /\ Home[r.user] # n /\ RecordID(n, r) \notin seen[n]
        /\ seen' = [seen EXCEPT ![n] = @ \cup {RecordID(n, r)}]
        /\ job' = [job EXCEPT ![w] = Job(IF r.type = "L" THEN "act" ELSE "check", r, {})]
    BY Zenon, <1>4 DEF Take, IsDup
  <2> HIDE DEF r, n
  <2>2. \A q : Single(q)' <=> Single(q)
    BY <1>1 DEF Single, Said
  <2>3. n \in Members /\ DOMAIN seen = Members
    BY Zenon, <1>0 DEF ShapeInv, n
  <2>4. (\A m \in Members : seen[m] \subseteq seen'[m]) /\ RecordID(n, r) \in seen'[n]
    BY Zenon, <2>1, <2>3
  <2>5. /\ \A v \in Wires : v # w => \A q : Handles(v, q)' <=> Handles(v, q)
        /\ \A q : Handles(w, q)' => q = r
    BY <1>0, <2>1, JobFields DEF Handles, Procs
  <2>6. Single(r) => /\ TheId(r) = RecordID(n, r) /\ TheId(r) \notin seen[n]
    BY <1>2, <2>1, <2>3, OneId
  <2>7. Single(r) => \A v \in Wires : v[2] = n => ~Handles(v, r)
    BY Zenon, <1>2, <2>6 DEF OnceInv
  <2>8. Single(r) => \A i \in DOMAIN dlv[n] : RecOf(dlv[n][i]) # r
    BY Zenon, <2>3, <2>6 DEF OnceInv
  <2>9. \A v \in Wires, q \in Records : Handles(v, q)' =>
          Home[q.user] # v[2] /\ (Single(q)' => TheId(q) \in seen'[v[2]])
    BY Zenon, <1>0, <2>1, <2>2, <2>4, <2>5, <2>6 DEF OnceInv, n
  <2>10. \A u, v \in Wires, q \in Records :
           Handles(u, q)' /\ Handles(v, q)' /\ u[2] = v[2] /\ Single(q)' => u = v
    BY Zenon, <2>2, <2>5, <2>7 DEF OnceInv, n
  <2>11. ASSUME NEW k \in Members, NEW i \in DOMAIN dlv[k]
         PROVE  /\ RecOf(dlv[k][i]) \in said'
                /\ Single(RecOf(dlv[k][i]))' =>
                     /\ TheId(RecOf(dlv[k][i])) \in seen'[k]
                     /\ \A v \in Wires : v[2] = k => ~Handles(v, RecOf(dlv[k][i]))'
                     /\ \A j \in DOMAIN dlv[k] : j # i => RecOf(dlv[k][j]) # RecOf(dlv[k][i])
    BY Zenon, <1>1, <2>2, <2>4, <2>5, <2>8 DEF OnceInv, n
  <2> QED BY Zenon, <1>0, <1>1, <2>9, <2>10, <2>11, OnceHolds
<1> QED BY <1>3, <1>4

(* A reader delivers what it has in hand.                                  *)
LEMMA OnceActs ==
  ASSUME ShapeInv, TopicInv, OnceInv, NEW w \in Wires, Act(w)
  PROVE  OnceInv'
<1> DEFINE n == w[2]
<1> PICK r : r = job[w].rec
  OBVIOUS
<1>0. /\ Members' = Members /\ Wires' = Wires /\ \A v \in Wires : v[2] \in Members /\ v \in Procs
  BY Zenon, ShapeStep, Geometry DEF Next, Relay
<1>1. /\ said' = said /\ job[w].stage = "act" /\ job' = [job EXCEPT ![w] = Sending(r, RelayTo(w))]
  BY Zenon DEF Act, opVars
<1>2. r \in Known /\ r \in Records
  BY <1>0, <1>1, JobShape DEF Known
<1>3. Handles(w, r)
  BY <1>1 DEF Handles
<1>4. (\A v \in Wires : v # w => \A q : Handles(v, q)' <=> Handles(v, q)) /\ \A q : ~Handles(w, q)'
  <2>1. \A v \in Wires : v # w => job'[v] = job[v]
    BY <1>0, <1>1 DEF Procs
  <2>2. job'[w] = Sending(r, RelayTo(w))
    BY <1>0, <1>1 DEF Procs
  <2>3. job'[w].stage \in {"idle", "send"}
    BY <2>2, JobFields DEF Sending
  <2> QED BY <2>1, <2>3 DEF Handles
<1>5. \A q : Single(q)' <=> Single(q)
  BY <1>1 DEF Single, Said
<1>6. CASE ~Delivers(n, r)
  <2>1. seen' = seen /\ dlv' = dlv
    BY Zenon, <1>6 DEF Act
  <2> QED BY Zenon, <1>0, <1>1, <1>4, <2>1, OnceFrame
<1>7. CASE Delivers(n, r)
  <2>1. /\ seen' = [seen EXCEPT ![n] = @ \cup {RecordID(n, r)}]
        /\ dlv' = [dlv EXCEPT ![n] = Append(@, Message(n, r))]
        /\ r.type \in {"D", "S"}
    BY Zenon, <1>7 DEF Act, Delivers
  <2>2. r \in said
    BY Zenon, <1>2, <2>1 DEF Known
  <2>3. \A m \in Members : seen[m] \subseteq seen'[m]
    BY Zenon, <1>0, <2>1 DEF ShapeInv
  <2>4. Single(r) => TheId(r) \in seen[n]
    BY Zenon, <1>2, <1>3 DEF OnceInv
  <2>5. Single(r) => \A v \in Wires : v[2] = n => ~Handles(v, r)'
    BY Zenon, <1>2, <1>3, <1>4 DEF OnceInv
  <2>6. Single(r) => \A i \in DOMAIN dlv[n] : RecOf(dlv[n][i]) # r
    BY Zenon, <1>0, <1>3 DEF OnceInv
  <2>7. n \in Members
    BY <1>0
  <2> HIDE DEF n
  <2>8. \A v \in Wires : \A q : Handles(v, q)' => Handles(v, q)
    BY Zenon, <1>4
  <2>9. Single(r)' => /\ TheId(r) \in seen'[n]
                      /\ \A v \in Wires : v[2] = n => ~Handles(v, r)'
                      /\ \A i \in DOMAIN dlv[n] : RecOf(dlv[n][i]) # r
    BY <1>5, <2>3, <2>4, <2>5, <2>6, <2>7
  <2> QED BY Zenon, <1>0, <1>1, <1>2, <2>1, <2>2, <2>3, <2>7, <2>8, <2>9, OnceDelivers
<1> QED BY <1>6, <1>7

(* A user posts what was never said.                                       *)
LEMMA OncePosts ==
  ASSUME ShapeInv, TopicInv, OnceInv, LocalOp, NEW u \in net.users, NEW r \in Records,
         r.user = u, r.type \in {"D", "S"}, LocalMessage(u, r)
  PROVE  OnceInv'
<1> DEFINE n == Home[u]
<1>0. /\ Members' = Members /\ Wires' = Wires /\ n \in Members
  BY ShapeStep, Geometry DEF Next
<1>1. /\ said' = said \cup {r} /\ r \notin said /\ job' = job
      /\ seen' = [seen EXCEPT ![n] = @ \cup {RecordID(n, r)}]
      /\ dlv' = [dlv EXCEPT ![n] = Append(@, Message(n, r))]
  BY Zenon DEF LocalMessage, Local
<1>2. \A w \in Wires : \A q : Handles(w, q)' <=> Handles(w, q)
  BY <1>1 DEF Handles
<1>3. \A w \in Wires : w[2] = n => ~Handles(w, r)'
  BY Zenon, <1>2 DEF OnceInv
<1>4. \A i \in DOMAIN dlv[n] : RecOf(dlv[n][i]) # r
  BY Zenon, <1>0, <1>1 DEF OnceInv
<1> HIDE DEF n
<1>5. Single(r)' => Single(r)
  BY <1>1 DEF Single, Said
<1>6. (\A m \in Members : seen[m] \subseteq seen'[m]) /\ RecordID(n, r) \in seen'[n]
  BY Zenon, <1>0, <1>1 DEF ShapeInv
<1>7. Single(r)' => TheId(r) \in seen'[n]
  BY Zenon, <1>0, <1>5, <1>6, OneId
<1> QED BY Zenon, <1>0, <1>1, <1>2, <1>3, <1>4, <1>6, <1>7, OnceDelivers

LEMMA OnceStep ==
  ASSUME ShapeInv, TopicInv, OnceInv, [Next]_vars
  PROVE  OnceInv'
<1>0. /\ Members' = Members /\ Wires' = Wires /\ \A w \in Wires : w[2] \in Members /\ w \in Procs
  BY ShapeStep, Geometry
<1>1. ASSUME said \subseteq said', dlv' = dlv, seen' = seen,
             \A w \in Wires : \A r : Handles(w, r)' => Handles(w, r)
      PROVE  OnceInv'
  BY <1>0, <1>1, OnceFrame
<1>2. job' = job => \A w \in Wires : \A r : Handles(w, r)' => Handles(w, r)
  BY DEF Handles
<1>3. CASE LocalOp
  <2>1. ASSUME NEW u \in net.users, NEW r, Local(u, r), UNCHANGED <<seen, dlv>> PROVE OnceInv'
    BY <1>1, <1>2, <2>1 DEF Local
  <2>2. PICK u \in net.users : \/ LocalJoin(u) \/ LocalLeave(u)
                               \/ \E i \in net.infos : LocalInfo(u, i)
                               \/ \E t \in net.topics : LocalTopic(u, t)
                               \/ \E x \in net.texts : \/ LocalPost(u, x)
                                                       \/ \E v \in net.addressees : LocalPrivate(u, v, x)
    BY <1>3 DEF LocalOp
  <2>3. ASSUME \/ LocalJoin(u) \/ LocalLeave(u)
               \/ \E i \in net.infos : LocalInfo(u, i)
               \/ \E t \in net.topics : LocalTopic(u, t)
        PROVE  OnceInv'
    BY Zenon, <2>1, <2>3 DEF LocalJoin, LocalLeave, LocalInfo, LocalTopic
  <2>4. u \in Users /\ net.addressees \subseteq Users /\ net.texts \subseteq Texts
    BY Geometry
  <2>5. ASSUME NEW x \in net.texts, LocalPost(u, x) PROVE OnceInv'
    <3>1. Rec("D", u, x) \in Records
      BY <2>4, RecordMade
    <3> QED BY <1>3, <2>5, <3>1, RecFields, OncePosts DEF LocalPost
  <2>6. ASSUME NEW x \in net.texts, NEW v \in net.addressees, LocalPrivate(u, v, x) PROVE OnceInv'
    <3>1. Rec("S", u, <<v, x>>) \in Records
      BY <2>4, RecordMade
    <3> QED BY <1>3, <2>6, <3>1, RecFields, OncePosts DEF LocalPrivate
  <2> QED BY Zenon, <2>2, <2>3, <2>5, <2>6
<1>4. ASSUME NEW n \in Members, FanOut(n) PROVE OnceInv'
  <2>1. \A w \in Wires : job'[w] = job[w]
    BY <1>0, <1>4, Geometry DEF FanOut, Procs
  <2> QED BY <1>1, <1>4, <2>1 DEF FanOut, opVars, Handles
<1>5. ASSUME NEW p \in Procs, NEW l \in Sinks, Send(p, l) PROVE OnceInv'
  <2>1. job' = [job EXCEPT ![p] = Sending(job[p].rec, job[p].to \ {l})]
    BY <1>5 DEF Send
  <2>2. job'[p] = Sending(job[p].rec, job[p].to \ {l}) /\ \A q \in Procs : q # p => job'[q] = job[q]
    BY <2>1 DEF Procs
  <2>3. job'[p].stage \in {"idle", "send"}
    BY <2>2, JobFields DEF Sending
  <2>4. \A w \in Wires : \A r : Handles(w, r)' => Handles(w, r)
    BY <1>0, <2>2, <2>3 DEF Handles
  <2> QED BY Zenon, <1>1, <1>5, <2>4 DEF Send, opVars
<1>6. ASSUME NEW w \in Wires, Check(w) \/ Join(w) PROVE OnceInv'
  <2>1. PICK s : job' = [job EXCEPT ![w] = [job[w] EXCEPT !.stage = s]]
    BY <1>6 DEF Check, Join
  <2>2. job[w].stage \in {"check", "join"} /\ UNCHANGED <<said, dlv, seen>>
    BY <1>6 DEF Check, Join, opVars
  <2>3. job[w] = Job(job[w].stage, job[w].rec, job[w].to)
    BY Zenon, <1>0, <2>2, JobFields DEF ShapeInv, IsJob
  <2>4. job'[w] = [job[w] EXCEPT !.stage = s] /\ \A v \in Procs : v # w => job'[v] = job[v]
    BY <1>0, <2>1 DEF Procs
  <2>5. job'[w].rec = job[w].rec
    BY <2>3, <2>4, JobMoves, JobFields
  <2>6. \A v \in Wires : \A r : Handles(v, r)' => Handles(v, r)
    BY Zenon, <1>0, <2>2, <2>4, <2>5 DEF Handles
  <2> QED BY <1>1, <2>2, <2>6
<1>7. CASE LinkStep \/ \E e \in Edges : Break(e) \/ Dial(e)
  <2>1. UNCHANGED <<said, dlv, seen, job>>
    BY Zenon, <1>7 DEF LinkStep, Serve, Snap, Tell, Stop, Break, Dial, opVars
  <2> QED BY <1>1, <1>2, <2>1
<1>8. CASE UNCHANGED vars
  BY <1>1, <1>2, <1>8 DEF vars, opVars
<1> QED BY <1>3, <1>4, <1>5, <1>6, <1>7, <1>8, OnceTakes, OnceActs DEF Next, Relay

(* router.go Ingest and hub.go recordLocked: in a mesh of any shape, by    *)
(* whatever paths its copies come and however the readers interleave, a    *)
(* node delivers a message at most once.                                   *)
THEOREM NoMessageTwice == Spec => []DeliveredOnce
<1>1. Init => OnceInv
  <2> SUFFICES ASSUME Init PROVE OnceInv
    OBVIOUS
  <2>1. \A w \in Wires : job[w] = NoJob
    BY DEF Init
  <2>2. \A w \in Wires, r \in Records : ~Handles(w, r)
    BY <2>1, JobFields DEF Handles
  <2>3. dlv = [n \in Members |-> <<>>]
    BY Zenon DEF Init
  <2> QED BY <2>2, <2>3 DEF OnceInv
<1>2. ShapeInv /\ TopicInv /\ OnceInv /\ [Next]_vars => OnceInv'
  BY OnceStep
<1>3. OnceInv => DeliveredOnce
  <2> SUFFICES ASSUME OnceInv, NEW n \in Members, NEW i \in DOMAIN dlv[n], NEW j \in DOMAIN dlv[n],
                      i # j, dlv[n][i].type = "D" => ~Said(dlv[n][i].user, {"T"}),
                      Same(dlv[n][i], dlv[n][j])
               PROVE  FALSE
    BY Zenon DEF DeliveredOnce
  <2>1. dlv[n][i] \in Delivered
    <3>1. dlv[n] \in Seq(Delivered)
      BY Zenon DEF OnceInv
    <3> QED BY <3>1
  <2>2. /\ RecOf(dlv[n][i]) = RecOf(dlv[n][j])
        /\ RecOf(dlv[n][i]).type = dlv[n][i].type /\ RecOf(dlv[n][i]).user = dlv[n][i].user
    <3> DEFINE a == dlv[n][i]
               b == dlv[n][j]
    <3>1. a.type = b.type /\ a.user = b.user /\ a.arg = b.arg
      BY Zenon DEF Same
    <3> HIDE DEF a, b
    <3>2. RecOf(a) = RecOf(b)
      BY Zenon, <3>1 DEF RecOf
    <3>3. RecOf(a).type = a.type /\ RecOf(a).user = a.user
      BY RecFields DEF RecOf
    <3> QED BY Zenon, <3>2, <3>3 DEF a, b
  <2>3. Single(RecOf(dlv[n][i]))
    BY <2>1, <2>2 DEF Delivered, Single
  <2> QED BY Zenon, <2>2, <2>3 DEF OnceInv
<1> QED BY <1>1, <1>2, <1>3, MeshShape, PTL DEF Spec
=============================================================================
