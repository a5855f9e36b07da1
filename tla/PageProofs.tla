----------------------------- MODULE PageProofs -----------------------------
(***************************************************************************)
(* Proofs about Page, for any topics, correspondents, inputs, streams and  *)
(* overlapping calls: what the page shows at rest is what the hub and the  *)
(* store hold, and what was typed went where it was shown to go.           *)
(*                                                                         *)
(* The invariant follows a message from the store to the page: emitted or  *)
(* not, in the subscription, on the stream, in the answer of a request, in *)
(* the log or its thread; and the topic from the hub to the page.          *)
(***************************************************************************)
EXTENDS Page, TLAPS

YouPending == \E i \in DOMAIN sse : sse[i].type = "you"

(* The handler has sent its snapshot (and the page has begun it anew).     *)
Streaming == handler \in {"told", "live"}
Told      == Streaming /\ ~YouPending

(* No switch overlapped another or the start of the stream, none failed.   *)
Clean == ~muddled /\ ~failed

(* A switch is under way and has come so far.                              *)
At(steps) == switch # <<>> /\ switch[1].step \in steps

(* Every stream begins with its one "you", while the viewer is in.         *)
StreamInv ==
  /\ handler \in {"off", "entered"} => sse = <<>>
  /\ handler = "off" => sub = <<>>
  /\ \A i \in DOMAIN sse : sse[i].type = "you" => i = 1
  /\ handler # "off" \/ old > 0 => at \in Topics

(* A message is known by its number, and nothing but the store's messages  *)
(* is on its way.                                                          *)
StoreInv ==
  /\ \A i \in DOMAIN saved : saved[i].n = i
  /\ Range(sub) \subseteq Range(saved) /\ Events \subseteq Range(saved)
  /\ \A i \in DOMAIN switch : switch[i].step = "loaded" => switch[i].got \subseteq History(switch[i].name)

(* One switch at a time, and none while a stream starts.                   *)
SwitchInv ==
  /\ Starting => muddled \/ switch = <<>>
  /\ muddled \/ Len(switch) <= 1

(* The page follows the hub from topic to topic.                           *)
TopicInv ==
  Clean => /\ YouPending => sse[1].topic = at
           /\ Told /\ ~At({"moved"}) => topic = at
           /\ Told /\ At({"moved", "fetch", "loaded"}) => switch[1].name = at

(* What the log is to show is on its way to it, ...                        *)
Showing(m) ==
  \/ dmWith # Absent \/ At({"post", "moved", "fetch"})
  \/ m \in log
  \/ At({"loaded"}) /\ m \in switch[1].got

Complete ==
  Clean /\ Streaming => \A m \in History(at) :
    m \in unsent \cup Range(sub) \cup Events \/ (~YouPending /\ Showing(m))

(* ... and nothing else is.                                                *)
Pure ==
  Clean /\ Streaming /\ ~late =>
    /\ ~At({"moved"}) => \A m \in Events : IsDM(m) \/ m.to = at
    /\ ~YouPending /\ dmWith = Absent /\ ~At({"post", "moved"}) => log \subseteq History(at)

(* A line typed with nothing under way still goes where it was shown to.   *)
SendInv ==
  /\ ~Streaming \/ switch # <<>> => \A i \in DOMAIN send : ~send[i].calm
  /\ Clean => \A i \in DOMAIN send : send[i].calm /\ send[i].shown \notin Peers => send[i].shown = at

(* A private message is on its way in one place, once ...                  *)
OnceInv ==
  /\ IsInjective(sub) /\ Range(sub) \cap unsent = {}
  /\ \A i, j \in DOMAIN sse :
       sse[i].type = "event" /\ sse[j] = sse[i] /\ IsDM(sse[i].msg) => i = j
  /\ \A m \in Events : IsDM(m) => m \notin unsent \cup Range(sub)

(* ... or in its thread, unless the threads are about to be rebuilt.       *)
DmInv ==
  ~crossed /\ ~failed /\ Told =>
    IF load = <<>>
      THEN \A p \in Peers : /\ IsInjective(Thread(p))
                            /\ Range(Thread(p)) = History(p) \ DMsOnTheirWay
      ELSE /\ Len(load) = 1 /\ DMsOnTheirWay = {}
           /\ load[1].step = "loaded" => load[1].got = {m \in Range(saved) : IsDM(m)}

PageInv ==
  /\ TypeOK /\ StreamInv /\ StoreInv /\ SwitchInv /\ TopicInv
  /\ Complete /\ Pure /\ SendInv /\ OnceInv /\ DmInv

USE PageAssumption
-----------------------------------------------------------------------------
(* Sequences: the range of one that grows, shrinks at its head or loses a  *)
(* call.                                                                   *)

LEMMA RangeAppend ==
  ASSUME NEW S, NEW s \in Seq(S), NEW x \in S
  PROVE  /\ Append(s, x) \in Seq(S) /\ Range(Append(s, x)) = Range(s) \cup {x}
         /\ Len(Append(s, x)) = Len(s) + 1 /\ Append(s, x) # <<>>
         /\ \A i \in DOMAIN s : i \in DOMAIN Append(s, x) /\ Append(s, x)[i] = s[i]
         /\ DOMAIN Append(s, x) = DOMAIN s \cup {Len(s) + 1} /\ Append(s, x)[Len(s) + 1] = x
<1>1. /\ Append(s, x) \in Seq(S) /\ Len(Append(s, x)) = Len(s) + 1 /\ Append(s, x) # <<>>
      /\ \A i \in DOMAIN s : i \in DOMAIN Append(s, x) /\ Append(s, x)[i] = s[i]
      /\ DOMAIN Append(s, x) = DOMAIN s \cup {Len(s) + 1} /\ Append(s, x)[Len(s) + 1] = x
  OBVIOUS
<1>2. Range(Append(s, x)) = Range(s) \cup {x}
  <2> DEFINE t == Append(s, x)
             N == Len(s) + 1
  <2>1. DOMAIN t = DOMAIN s \cup {N} /\ t[N] = x /\ \A i \in DOMAIN s : t[i] = s[i]
    BY <1>1
  <2> HIDE DEF t, N
  <2>2. Range(t) = Range(s) \cup {x}
    BY <2>1 DEF Range
  <2> QED BY <2>2 DEF t
<1> QED BY <1>1, <1>2

LEMMA InjectiveAppend ==
  ASSUME NEW S, NEW s \in Seq(S), NEW x \in S, IsInjective(s), x \notin Range(s)
  PROVE  IsInjective(Append(s, x))
<1> DEFINE t == Append(s, x)
           N == Len(s) + 1
<1>1. DOMAIN t = DOMAIN s \cup {N} /\ t[N] = x /\ \A i \in DOMAIN s : t[i] = s[i]
  BY RangeAppend
<1>2. \A i \in DOMAIN s : s[i] # x
  BY DEF Range
<1>3. \A i, j \in DOMAIN s : s[i] = s[j] => i = j
  BY DEF IsInjective
<1> HIDE DEF t, N
<1>4. \A i, j \in DOMAIN t : t[i] = t[j] => i = j
  BY <1>1, <1>2, <1>3
<1>5. IsInjective(t)
  BY <1>4 DEF IsInjective
<1> QED BY <1>5 DEF t

LEMMA TailOf ==
  ASSUME NEW S, NEW s \in Seq(S), s # <<>>
  PROVE  /\ Head(s) \in S /\ Tail(s) \in Seq(S) /\ 1 \in DOMAIN s /\ Head(s) = s[1]
         /\ \A i \in DOMAIN Tail(s) : i + 1 \in DOMAIN s /\ i + 1 # 1 /\ Tail(s)[i] = s[i + 1]
         /\ \A i \in DOMAIN s : i # 1 => i - 1 \in DOMAIN Tail(s) /\ s[i] = Tail(s)[i - 1]
         /\ DOMAIN s \subseteq Int /\ DOMAIN Tail(s) \subseteq Int
         /\ Range(s) = {Head(s)} \cup Range(Tail(s))
<1>1. /\ Head(s) \in S /\ Tail(s) \in Seq(S) /\ 1 \in DOMAIN s /\ Head(s) = s[1]
      /\ \A i \in DOMAIN Tail(s) : i + 1 \in DOMAIN s /\ i + 1 # 1 /\ Tail(s)[i] = s[i + 1]
      /\ \A i \in DOMAIN s : i # 1 => i - 1 \in DOMAIN Tail(s) /\ s[i] = Tail(s)[i - 1]
      /\ DOMAIN s \subseteq Int /\ DOMAIN Tail(s) \subseteq Int
  OBVIOUS
<1>2. Range(s) = {Head(s)} \cup Range(Tail(s))
  <2> DEFINE t == Tail(s)
             h == Head(s)
  <2>1. /\ 1 \in DOMAIN s /\ h = s[1] /\ DOMAIN s \subseteq Int /\ DOMAIN t \subseteq Int
        /\ \A i \in DOMAIN t : i + 1 \in DOMAIN s /\ t[i] = s[i + 1]
        /\ \A i \in DOMAIN s : i # 1 => i - 1 \in DOMAIN t /\ s[i] = t[i - 1]
    BY <1>1
  <2> HIDE DEF t, h
  <2>2. ASSUME NEW x \in Range(s) PROVE x \in {h} \cup Range(t)
    <3>1. PICK i \in DOMAIN s : x = s[i]
      BY <2>2 DEF Range
    <3> QED BY Zenon, <2>1, <3>1 DEF Range
  <2>3. ASSUME NEW x \in {h} \cup Range(t) PROVE x \in Range(s)
    <3>1. x = s[1] \/ \E i \in DOMAIN t : x = s[i + 1] /\ i + 1 \in DOMAIN s
      BY <2>1, <2>3 DEF Range
    <3> QED BY <2>1, <3>1 DEF Range
  <2>4. Range(s) = {h} \cup Range(t)
    BY <2>2, <2>3
  <2> QED BY <2>4 DEF t, h
<1> QED BY <1>1, <1>2

LEMMA JoinOf ==
  ASSUME NEW S, NEW s \in Seq(S), NEW t \in Seq(S)
  PROVE  /\ s \o t \in Seq(S) /\ Len(s \o t) = Len(s) + Len(t)
         /\ \A i \in 1..Len(s) : (s \o t)[i] = s[i]
         /\ \A i \in 1..Len(t) : (s \o t)[Len(s) + i] = t[i]
  OBVIOUS

LEMMA RestOf ==
  ASSUME NEW S, NEW s \in Seq(S), NEW i \in DOMAIN s
  PROVE  /\ SubSeq(s, i + 1, Len(s)) \in Seq(S) /\ Len(SubSeq(s, i + 1, Len(s))) = Len(s) - i
         /\ \A j \in 1..(Len(s) - i) : SubSeq(s, i + 1, Len(s))[j] = s[i + j]
<1> DEFINE b == SubSeq(s, i + 1, Len(s))
<1>1. Len(s) \in Nat /\ i \in 1..Len(s)
  OBVIOUS
<1>2. b \in Seq(S)
  BY <1>1
<1>3. Len(b) = Len(s) - i
  BY <1>1
<1>4. ASSUME NEW j \in 1..(Len(s) - i) PROVE b[j] = s[i + j]
  BY <1>1
<1> QED BY <1>2, <1>3, <1>4

(* Of a returned call nothing is left, and of the others nothing is lost.  *)
LEMMA DoneOf ==
  ASSUME NEW S, NEW s \in Seq(S), NEW i \in DOMAIN s
  PROVE  /\ Done(s, i) \in Seq(S) /\ Len(Done(s, i)) = Len(s) - 1 /\ Len(s) >= 1
         /\ \A j \in DOMAIN Done(s, i) : \E k \in DOMAIN s : Done(s, i)[j] = s[k]
         /\ Len(s) = 1 => Done(s, i) = <<>> /\ i = 1
<1> DEFINE a == SubSeq(s, 1, i - 1)
           b == SubSeq(s, i + 1, Len(s))
<1>1. /\ Len(s) \in Nat /\ i \in 1..Len(s) /\ DOMAIN s = 1..Len(s)
      /\ \A j \in 1..Len(s) : s[j] \in S
  OBVIOUS
<1>2. /\ a \in Seq(S) /\ Len(a) = i - 1 /\ \A j \in 1..(i - 1) : a[j] = s[j]
  BY <1>1
<1>3. /\ b \in Seq(S) /\ Len(b) = Len(s) - i /\ \A j \in 1..(Len(s) - i) : b[j] = s[i + j]
  BY Zenon, RestOf
<1> HIDE DEF a, b
<1> DEFINE c == a \o b
<1>0. /\ c \in Seq(S) /\ Len(c) = Len(a) + Len(b)
      /\ \A j \in 1..Len(a) : c[j] = a[j]
      /\ \A j \in 1..Len(b) : c[Len(a) + j] = b[j]
  <2>1. a \in Seq(S) /\ b \in Seq(S)
    BY <1>2, <1>3
  <2> QED BY <2>1, JoinOf
<1> HIDE DEF c
<1>4. /\ c \in Seq(S) /\ Len(c) = Len(s) - 1 /\ DOMAIN c = 1..(Len(s) - 1)
      /\ \A j \in 1..(i - 1) : c[j] = s[j]
      /\ \A j \in 1..(Len(s) - i) : c[(i - 1) + j] = s[i + j]
  <2>1. Len(c) = Len(s) - 1 /\ DOMAIN c = 1..Len(c)
    BY <1>0, <1>1, <1>2, <1>3
  <2>2. \A j \in 1..(i - 1) : c[j] = s[j]
    BY <1>0, <1>2
  <2>3. \A j \in 1..(Len(s) - i) : c[(i - 1) + j] = s[i + j]
    BY <1>0, <1>2, <1>3
  <2> QED BY <1>0, <2>1, <2>2, <2>3
<1>5. ASSUME NEW j \in DOMAIN c PROVE \E k \in DOMAIN s : c[j] = s[k]
  <2>1. CASE j \in 1..(i - 1)
    BY <1>1, <1>4, <2>1
  <2>2. CASE j \notin 1..(i - 1)
    <3>1. PICK d \in 1..(Len(s) - i) : j = (i - 1) + d /\ i + d \in 1..Len(s)
      <4> DEFINE d == j - (i - 1)
      <4>1. d \in 1..(Len(s) - i) /\ j = (i - 1) + d /\ i + d \in 1..Len(s)
        <5>1. i \in Int /\ j \in Int /\ Len(s) \in Int /\ 1 <= i /\ 1 <= j /\ j <= Len(s) - 1
          BY <1>1, <1>4
        <5>2. j > i - 1
          BY <2>2, <5>1
        <5>3. \A x, y, z \in Int : 1 <= x /\ y > x - 1 /\ y <= z - 1 =>
                /\ y - (x - 1) \in 1..(z - x) /\ y = (x - 1) + (y - (x - 1))
                /\ x + (y - (x - 1)) \in 1..z
          OBVIOUS
        <5> QED BY Zenon, <5>1, <5>2, <5>3
      <4> QED BY <4>1
    <3>2. c[j] = s[i + d]
      BY <1>4, <3>1
    <3> QED BY <1>1, <3>1, <3>2
  <2> QED BY <2>1, <2>2
<1>6. Len(s) >= 1 /\ Len(c) = Len(s) - 1
  BY <1>1, <1>4
<1>7. ASSUME Len(s) = 1 PROVE c = <<>> /\ i = 1
  BY <1>1, <1>4, <1>6, <1>7
<1>8. Done(s, i) = c
  BY DEF Done, a, b, c
<1> QED BY <1>4, <1>5, <1>6, <1>7, <1>8

(* The same, of a sequence that an action has changed in one of these ways. *)
LEMMA AppendIs ==
  ASSUME NEW S, NEW s \in Seq(S), NEW x \in S, NEW r, r = Append(s, x)
  PROVE  /\ r \in Seq(S) /\ Len(r) = Len(s) + 1 /\ r # <<>> /\ r[Len(s) + 1] = x
         /\ \A i \in DOMAIN r : (i \in DOMAIN s /\ r[i] = s[i]) \/ r[i] = x
OBVIOUS

LEMMA TailIs ==
  ASSUME NEW S, NEW s \in Seq(S), s # <<>>, NEW r, r = Tail(s)
  PROVE  /\ Head(s) \in S /\ 1 \in DOMAIN s /\ Head(s) = s[1]
         /\ DOMAIN s \subseteq Int /\ DOMAIN r \subseteq Int
         /\ \A i \in DOMAIN r : i + 1 \in DOMAIN s /\ i + 1 # 1 /\ r[i] = s[i + 1]
BY TailOf

LEMMA DoneIs ==
  ASSUME NEW S, NEW s \in Seq(S), NEW i \in DOMAIN s, NEW r, r = Done(s, i)
  PROVE  /\ r \in Seq(S) /\ Len(s) >= 1 /\ s # <<>>
         /\ Len(s) = 1 => r = <<>> /\ i = 1
<1>1. s # <<>>
  OBVIOUS
<1>2. /\ Done(s, i) \in Seq(S) /\ Len(s) >= 1
      /\ Len(s) = 1 => Done(s, i) = <<>> /\ i = 1
  BY DoneOf
<1> QED BY Zenon, <1>1, <1>2

LEMMA ElementOf ==
  ASSUME NEW S, NEW s \in Seq(S), NEW i \in DOMAIN s
  PROVE  s[i] \in S
OBVIOUS

LEMMA OneLess ==
  ASSUME NEW n \in Nat, n > 0
  PROVE  n - 1 \in Nat /\ (n - 1 > 0 => n # 1)
OBVIOUS

(* The rows of a query are its messages, each once.                        *)
LEMMA RowsOf ==
  ASSUME NEW ms \in SUBSET Messages, NEW s \in Rows(ms)
  PROVE  s \in Seq(Messages) /\ Range(s) = ms /\ IsInjective(s)
<1>1. PICK k \in 0..Cardinality(ms) : s \in Bijection(1..k, ms)
  BY DEF Rows
<1>2. k \in Nat
  OBVIOUS
<1>3. /\ s \in [1..k -> ms]
      /\ \A i, j \in 1..k : s[i] = s[j] => i = j
      /\ \A m \in ms : \E i \in 1..k : s[i] = m
  BY <1>1 DEF Bijection, Injection, Surjection, IsInjective
<1>4. s \in Seq(Messages)
  BY <1>2, <1>3
<1> QED BY <1>3, <1>4 DEF Range, IsInjective

-----------------------------------------------------------------------------
(* What is on the stream when something is added to it or taken from it.   *)

Frames == [type: {"you"}, topic: Topics] \cup [type: {"event"}, msg: Messages]

LEMMA FrameOf ==
  /\ \A t \in Topics : You(t) \in Frames /\ You(t).type = "you" /\ You(t).topic = t
  /\ \A m \in Messages : Ev(m) \in Frames /\ Ev(m).type = "event" /\ Ev(m).msg = m
  /\ \A f \in Frames : f.type \in {"you", "event"}
  /\ \A f \in Frames : f.type = "you" => f.topic \in Topics
  /\ \A f \in Frames : f.type = "event" => f.msg \in Messages
  /\ \A f, g \in Frames : f.type = "event" /\ g.type = "event" /\ f.msg = g.msg => f = g
BY DEF Frames, You, Ev

LEMMA EventsAre ==
  \A m : m \in Events <=> \E i \in DOMAIN sse : sse[i].type = "event" /\ sse[i].msg = m
BY DEF Events

LEMMA FrameTaken ==
  ASSUME sse \in Seq(Frames), StreamInv, sse # <<>>, sse' = Tail(sse)
  PROVE  /\ sse' \in Seq(Frames) /\ ~YouPending'
         /\ \A i \in DOMAIN sse' : sse'[i].type = "event"
         /\ Head(sse).type = "you" => Events' = Events
         /\ Head(sse).type = "event" => /\ Events = Events' \cup {Head(sse).msg}
                                        /\ Head(sse).msg \in Messages /\ ~YouPending
<1>1. /\ Head(sse) \in Frames /\ sse' \in Seq(Frames) /\ 1 \in DOMAIN sse /\ Head(sse) = sse[1]
      /\ \A i \in DOMAIN sse' : i + 1 \in DOMAIN sse /\ i + 1 # 1 /\ sse'[i] = sse[i + 1]
      /\ \A i \in DOMAIN sse : i # 1 => i - 1 \in DOMAIN sse' /\ sse[i] = sse'[i - 1]
  BY TailOf
<1>2. \A i \in DOMAIN sse : sse[i] \in Frames /\ sse[i].type \in {"you", "event"}
  BY FrameOf
<1>3. \A i \in DOMAIN sse' : sse'[i].type = "event"
  BY <1>1, <1>2 DEF StreamInv
<1>4. ~YouPending'
  BY <1>3 DEF YouPending
<1>5. \A m : m \in Events' <=> \E i \in DOMAIN sse' : sse'[i].type = "event" /\ sse'[i].msg = m
  BY DEF Events
<1>6. Events' \subseteq Events
  BY <1>1, <1>5, EventsAre
<1>7. ASSUME NEW m \in Events PROVE m \in Events' \/ (Head(sse).type = "event" /\ m = Head(sse).msg)
  <2>1. PICK i \in DOMAIN sse : sse[i].type = "event" /\ sse[i].msg = m
    BY EventsAre
  <2>2. CASE i = 1
    BY <1>1, <2>1, <2>2
  <2>3. CASE i # 1
    <3>1. i - 1 \in DOMAIN sse' /\ sse'[i - 1].type = "event" /\ sse'[i - 1].msg = m
      BY <1>1, <2>1, <2>3
    <3> QED BY <1>5, <3>1, Zenon
  <2> QED BY <2>2, <2>3
<1>8. Head(sse).type = "event" => Head(sse).msg \in Events /\ Head(sse).msg \in Messages
  BY <1>1, EventsAre, FrameOf
<1>9. Head(sse).type = "event" => ~YouPending
  BY <1>1 DEF YouPending, StreamInv
<1>10. Head(sse).type = "you" => Events' = Events
  BY Zenon, <1>6, <1>7
<1>11. Head(sse).type = "event" => Events = Events' \cup {Head(sse).msg}
  BY <1>6, <1>7, <1>8
<1> QED BY <1>1, <1>3, <1>4, <1>8, <1>9, <1>10, <1>11

LEMMA FrameAdded ==
  ASSUME sse \in Seq(Frames), NEW m \in Messages, sse' = Append(sse, Ev(m))
  PROVE  sse' \in Seq(Frames) /\ Events' = Events \cup {m} /\ (YouPending' <=> YouPending)
<1> DEFINE N == Len(sse) + 1
<1>1. Ev(m) \in Frames /\ Ev(m).type = "event" /\ Ev(m).msg = m
  BY FrameOf
<1>2. /\ sse' \in Seq(Frames) /\ DOMAIN sse' = DOMAIN sse \cup {N} /\ sse'[N] = Ev(m)
      /\ \A i \in DOMAIN sse : sse'[i] = sse[i]
  BY <1>1, RangeAppend
<1> HIDE DEF N
<1>3. \A x : x \in Events' <=> \E i \in DOMAIN sse' : sse'[i].type = "event" /\ sse'[i].msg = x
  BY DEF Events
<1>4. \A x : x \in Events' <=> x \in Events \/ x = m
  BY <1>1, <1>2, <1>3, EventsAre
<1>5. YouPending' <=> YouPending
  BY <1>1, <1>2 DEF YouPending
<1> QED BY <1>2, <1>4, <1>5

LEMMA SeqOf ==
  ASSUME NEW S, NEW n \in Nat, NEW f \in [1..n -> S]
  PROVE  f \in Seq(S) /\ Len(f) = n
OBVIOUS

LEMMA FramesOfSnapshot ==
  ASSUME NEW t \in Topics, NEW s \in Seq(Messages),
         sse' = <<You(t)>> \o [i \in DOMAIN s |-> Ev(s[i])]
  PROVE  /\ sse' \in Seq(Frames) /\ Events' = Range(s) /\ sse'[1] = You(t) /\ 1 \in DOMAIN sse'
         /\ \A i \in DOMAIN sse' : sse'[i].type = "you" <=> i = 1
<1> DEFINE a == <<You(t)>>
           b == [i \in DOMAIN s |-> Ev(s[i])]
<1>1. a \in Seq(Frames) /\ Len(a) = 1 /\ a[1] = You(t)
  BY FrameOf
<1>2. Len(s) \in Nat /\ DOMAIN s = 1..Len(s) /\ \A i \in 1..Len(s) : s[i] \in Messages
  OBVIOUS
<1>3. b \in [1..Len(s) -> Frames] /\ \A i \in 1..Len(s) : b[i] = Ev(s[i])
  BY <1>2, FrameOf
<1> HIDE DEF a, b
<1>4. b \in Seq(Frames) /\ Len(b) = Len(s)
  BY Zenon, <1>2, <1>3, SeqOf
<1>5. /\ sse' \in Seq(Frames) /\ Len(sse') = 1 + Len(s) /\ sse'[1] = You(t)
      /\ \A i \in 1..Len(s) : sse'[1 + i] = Ev(s[i])
  <2>1. sse' = a \o b
    BY DEF a, b
  <2>2. /\ sse' \in Seq(Frames) /\ Len(sse') = Len(a) + Len(b)
        /\ \A i \in 1..Len(a) : sse'[i] = a[i]
        /\ \A j \in 1..Len(b) : sse'[Len(a) + j] = b[j]
    <3>1. /\ a \o b \in Seq(Frames) /\ Len(a \o b) = Len(a) + Len(b)
          /\ \A i \in 1..Len(a) : (a \o b)[i] = a[i]
          /\ \A j \in 1..Len(b) : (a \o b)[Len(a) + j] = b[j]
      <4>1. a \in Seq(Frames) /\ b \in Seq(Frames)
        BY <1>1, <1>4
      <4> QED BY <4>1, JoinOf
    <3> QED BY <2>1, <3>1, Zenon
  <2> QED BY <1>1, <1>3, <1>4, <2>2
<1>6. /\ DOMAIN sse' = 1..(1 + Len(s)) /\ 1 \in DOMAIN sse'
      /\ \A i \in DOMAIN sse' : i = 1 \/ \E j \in 1..Len(s) : i = 1 + j
  <2>1. DOMAIN sse' = 1..(1 + Len(s))
    BY <1>5
  <2>2. \A i \in 1..(1 + Len(s)) : i # 1 => i - 1 \in 1..Len(s) /\ i = 1 + (i - 1)
    BY <1>2
  <2>3. 1 \in 1..(1 + Len(s))
    BY <1>2
  <2> QED BY <2>1, <2>2, <2>3, Zenon
<1>7. \A i \in DOMAIN sse' : sse'[i].type = "you" <=> i = 1
  BY <1>2, <1>5, <1>6, FrameOf
<1>8. \A m : m \in Events' <=> \E i \in DOMAIN sse' : sse'[i].type = "event" /\ sse'[i].msg = m
  BY Zenon DEF Events
<1>9. \A m : m \in Events' <=> \E j \in 1..Len(s) : s[j] = m
  <2>1. ASSUME NEW m \in Events' PROVE \E j \in 1..Len(s) : s[j] = m
    <3>1. PICK i \in DOMAIN sse' : sse'[i].type = "event" /\ sse'[i].msg = m
      BY <1>8
    <3>2. PICK j \in 1..Len(s) : i = 1 + j
      BY Zenon, <1>6, <1>7, <3>1
    <3> QED BY <1>2, <1>5, <3>1, <3>2, FrameOf
  <2>2. ASSUME NEW j \in 1..Len(s) PROVE s[j] \in Events'
    <3>1. 1 + j \in DOMAIN sse' /\ sse'[1 + j] = Ev(s[j])
      BY <1>2, <1>5, <1>6
    <3>2. Ev(s[j]).type = "event" /\ Ev(s[j]).msg = s[j]
      BY <1>2, FrameOf
    <3>3. sse'[1 + j].type = "event" /\ sse'[1 + j].msg = s[j]
      BY <3>1, <3>2
    <3> QED BY Zenon, <1>8, <3>1, <3>3
  <2> QED BY <2>1, <2>2
<1>10. Events' = Range(s)
  <2>1. \A m : m \in Range(s) <=> \E j \in 1..Len(s) : s[j] = m
    BY Zenon, <1>2 DEF Range
  <2> QED BY Zenon, <1>9, <2>1
<1> QED BY Zenon, <1>5, <1>6, <1>7, <1>10

-----------------------------------------------------------------------------
(* What a step that saves, answers or leaves alone does to the state.      *)

SwitchCalls == [step: {"post", "moved", "fetch", "loaded"}, name: Topics, got: SUBSET Messages]
LoadCalls   == [step: {"fetch", "loaded"}, got: SUBSET Messages]
Sends       == [shown: Places, calm: BOOLEAN]

LEMMA TypeIs ==
  ASSUME TypeOK
  PROVE  /\ at \in Topics \cup {Absent} /\ handler \in {"off", "entered", "told", "live"}
         /\ old \in Nat /\ opened \in Nat /\ inputs \in Nat
         /\ saved \in Seq(Messages) /\ unsent \subseteq Range(saved) /\ sub \in Seq(Messages)
         /\ sse \in Seq(Frames) /\ topic \in Topics /\ dmWith \in Peers \cup {Absent}
         /\ log \subseteq Messages /\ dms \in [Peers -> {Absent} \cup Seq(Messages)]
         /\ switch \in Seq(SwitchCalls) /\ load \in Seq(LoadCalls) /\ send \in Seq(Sends)
         /\ muddled \in BOOLEAN /\ late \in BOOLEAN /\ crossed \in BOOLEAN /\ failed \in BOOLEAN
         /\ Range(saved) \subseteq Messages /\ Range(sub) \subseteq Messages
         /\ Events \subseteq Messages
<1>1. sse \in Seq(Frames)
  BY DEF TypeOK, Frames
<1>2. switch \in Seq(SwitchCalls) /\ load \in Seq(LoadCalls) /\ send \in Seq(Sends)
  BY DEF TypeOK, SwitchCalls, LoadCalls, Sends
<1>3. saved \in Seq(Messages) /\ sub \in Seq(Messages)
  BY DEF TypeOK
<1>4. Range(saved) \subseteq Messages /\ Range(sub) \subseteq Messages
  BY <1>3 DEF Range
<1>5. Events \subseteq Messages
  <2>1. \A i \in DOMAIN sse : sse[i] \in Frames
    BY <1>1
  <2> QED BY <2>1, FrameOf, EventsAre
<1> QED BY <1>1, <1>2, <1>3, <1>4, <1>5 DEF TypeOK

LEMMA NoThread == \A s \in Seq(Messages) : s # Absent
BY PageAssumption

LEMMA ThreadOf ==
  ASSUME TypeOK, NEW p \in Peers
  PROVE  Thread(p) \in Seq(Messages)
<1>1. dms \in [Peers -> {Absent} \cup Seq(Messages)]
  BY Zenon, TypeIs
<1> QED BY <1>1 DEF Thread

LEMMA InputOf ==
  ASSUME TypeOK, inputs < MaxInputs, inputs' = inputs + 1
  PROVE  inputs' \in 0..MaxInputs
<1>1. inputs \in 0..MaxInputs
  BY Zenon DEF TypeOK
<1> QED BY <1>1, PageAssumption

LEMMA EmptyRange == Range(<<>>) = {}
BY DEF Range

LEMMA InjectiveEmpty == IsInjective(<<>>) /\ DOMAIN <<>> = {}
BY DEF IsInjective

LEMMA NothingSent ==
  /\ sse = <<>> => ~YouPending /\ Events = {}
  /\ sse' = <<>> => ~YouPending' /\ Events' = {}
  /\ sub = <<>> => Range(sub) = {}
  /\ sub' = <<>> => Range(sub') = {}
BY Zenon, EmptyRange, InjectiveEmpty DEF YouPending, Events

LEMMA NotEmpty ==
  ASSUME NEW S, NEW s \in Seq(S)
  PROVE  /\ DOMAIN s = 1..Len(s) /\ Len(s) \in Nat
         /\ s = <<>> <=> Len(s) = 0
         /\ \A i \in DOMAIN s : s # <<>> /\ 1 \in DOMAIN s /\ s[i] \in S
         /\ Len(s) <= 1 => \A i \in DOMAIN s : i = 1
OBVIOUS

LEMMA SaveOf ==
  ASSUME TypeOK, StoreInv, NEW t \in Places, Save(t)
  PROVE  \E m \in Messages :
           /\ m.to = t /\ m \notin Range(saved) /\ saved'[Len(saved')] = m
           /\ saved' \in Seq(Messages) /\ Range(saved') = Range(saved) \cup {m}
           /\ unsent' = unsent \cup {m} /\ \A i \in DOMAIN saved' : saved'[i].n = i
           /\ crossed' = (crossed \/ (IsDM(m) /\ load # <<>>))
<1> DEFINE N == Len(saved) + 1
           m == [n |-> N, to |-> t]
<1>1. saved \in Seq(Messages) /\ Len(saved) \in Nat /\ DOMAIN saved = 1..Len(saved)
  BY TypeIs
<1>2. m \in Messages /\ m.to = t /\ m.n = N /\ N \in Nat /\ N \notin DOMAIN saved
  BY <1>1 DEF Messages
<1>3. saved' = Append(saved, m) /\ unsent' = unsent \cup {m}
      /\ crossed' = (crossed \/ (IsDM(m) /\ load # <<>>))
  BY DEF Save
<1> HIDE DEF m
<1>4. /\ saved' \in Seq(Messages) /\ Range(saved') = Range(saved) \cup {m} /\ Len(saved') = N
      /\ DOMAIN saved' = DOMAIN saved \cup {N} /\ saved'[N] = m
      /\ \A i \in DOMAIN saved : saved'[i] = saved[i]
  BY <1>1, <1>2, <1>3, RangeAppend
<1> HIDE DEF N
<1>5. \A i \in DOMAIN saved' : saved'[i].n = i
  BY <1>2, <1>4 DEF StoreInv
<1>6. m \notin Range(saved)
  BY <1>2 DEF StoreInv, Range
<1> QED BY <1>2, <1>3, <1>4, <1>5, <1>6

LEMMA Stepped ==
  ASSUME NEW i \in DOMAIN switch, switch \in Seq(SwitchCalls),
         NEW v \in {"post", "moved", "fetch", "loaded"}, switch' = [switch EXCEPT ![i].step = v]
  PROVE  /\ switch' \in Seq(SwitchCalls) /\ Len(switch') = Len(switch)
         /\ DOMAIN switch' = DOMAIN switch
         /\ switch'[i].step = v /\ switch'[i].name = switch[i].name
         /\ \A j \in DOMAIN switch : j # i => switch'[j] = switch[j]
<1> DEFINE c == [switch[i] EXCEPT !.step = v]
<1>1. \A j \in DOMAIN switch : switch[j] \in SwitchCalls
  OBVIOUS
<1>2. c \in SwitchCalls /\ c.step = v /\ c.name = switch[i].name
  BY Zenon, <1>1 DEF SwitchCalls
<1>3. switch' = [switch EXCEPT ![i] = c]
  OBVIOUS
<1> HIDE DEF c
<1> QED BY <1>1, <1>2, <1>3

LEMMA AnsweredSwitch ==
  ASSUME NEW i \in DOMAIN switch, switch \in Seq(SwitchCalls), NEW ms \in SUBSET Messages,
         switch' = Answered(switch, i, ms)
  PROVE  /\ switch' \in Seq(SwitchCalls) /\ Len(switch') = Len(switch)
         /\ DOMAIN switch' = DOMAIN switch
         /\ switch'[i].step = "loaded" /\ switch'[i].name = switch[i].name /\ switch'[i].got = ms
         /\ \A j \in DOMAIN switch : j # i => switch'[j] = switch[j]
<1> DEFINE c == [switch[i] EXCEPT !.step = "loaded", !.got = ms]
<1>1. \A j \in DOMAIN switch : switch[j] \in SwitchCalls
  OBVIOUS
<1>2. /\ c \in SwitchCalls /\ c.step = "loaded" /\ c.name = switch[i].name /\ c.got = ms
  BY Zenon, <1>1 DEF SwitchCalls
<1>3. switch' = [switch EXCEPT ![i] = c]
  BY Zenon DEF Answered
<1> HIDE DEF c
<1> QED BY <1>1, <1>2, <1>3

LEMMA AnsweredLoad ==
  ASSUME NEW i \in DOMAIN load, load \in Seq(LoadCalls), NEW ms \in SUBSET Messages,
         load' = Answered(load, i, ms)
  PROVE  /\ load' \in Seq(LoadCalls) /\ Len(load') = Len(load) /\ DOMAIN load' = DOMAIN load
         /\ load'[i].step = "loaded" /\ load'[i].got = ms
<1> DEFINE c == [load[i] EXCEPT !.step = "loaded", !.got = ms]
<1>1. \A j \in DOMAIN load : load[j] \in LoadCalls
  OBVIOUS
<1>2. c \in LoadCalls /\ c.step = "loaded" /\ c.got = ms
  BY Zenon, <1>1 DEF LoadCalls
<1>3. load' = [load EXCEPT ![i] = c]
  BY Zenon DEF Answered
<1> HIDE DEF c
<1> QED BY <1>1, <1>2, <1>3

(* A switch that overlaps nothing is alone, on a stream that has started.  *)
LEMMA SwitchAlone ==
  ASSUME TypeOK, SwitchInv, ~muddled, switch # <<>>
  PROVE  /\ handler = "live" /\ ~YouPending /\ Streaming /\ Told
         /\ Len(switch) = 1 /\ 1 \in DOMAIN switch /\ \A i \in DOMAIN switch : i = 1
<1>1. ~Starting /\ Len(switch) <= 1
  BY DEF SwitchInv
<1>2. switch \in Seq(SwitchCalls)
  BY TypeIs
<1>3. Len(switch) = 1 /\ 1 \in DOMAIN switch /\ \A i \in DOMAIN switch : i = 1
  <2>1. Len(switch) \in Nat /\ Len(switch) # 0 /\ DOMAIN switch = 1..Len(switch)
    BY <1>2, NotEmpty
  <2> QED BY <1>1, <2>1
<1> QED BY <1>1, <1>3 DEF Starting, YouPending, Streaming, Told

LEMMA StirOf ==
  ASSUME send \in Seq(Sends), Stir
  PROVE  send' \in Seq(Sends) /\ \A i \in DOMAIN send' : ~send'[i].calm
<1> DEFINE c(i) == [send[i] EXCEPT !.calm = FALSE]
<1>1. ASSUME NEW i \in DOMAIN send PROVE c(i) \in Sends /\ ~c(i).calm
  <2>1. send[i] \in Sends
    OBVIOUS
  <2> QED BY Zenon, <2>1 DEF Sends
<1>2. Len(send) \in Nat /\ DOMAIN send = 1..Len(send) /\ send' = [i \in DOMAIN send |-> c(i)]
  BY DEF Stir
<1> HIDE DEF c
<1>3. send' \in [1..Len(send) -> Sends] /\ \A i \in DOMAIN send' : ~send'[i].calm
  BY <1>1, <1>2
<1> QED BY <1>2, <1>3

-----------------------------------------------------------------------------
(* A step that leaves what a part of the invariant speaks of alone, and    *)
(* puts nothing right that went wrong, keeps that part.                    *)

LEMMA SseSame ==
  ASSUME sse' = sse
  PROVE  Events' = Events /\ (YouPending' <=> YouPending)
BY DEF Events, YouPending

LEMMA StreamFrame ==
  ASSUME StreamInv, UNCHANGED <<handler, old, sub, sse, at>>
  PROVE  StreamInv'
BY DEF StreamInv

LEMMA StoreFrame ==
  ASSUME StoreInv, UNCHANGED <<saved, sub, sse, switch>>
  PROVE  StoreInv'
BY SseSame DEF StoreInv, History

LEMMA SwitchFrame ==
  ASSUME SwitchInv, UNCHANGED <<handler, sse, switch>>, muddled => muddled'
  PROVE  SwitchInv'
BY DEF SwitchInv, Starting

LEMMA TopicFrame ==
  ASSUME TopicInv, UNCHANGED <<at, sse, handler, switch, topic>>, Clean' => Clean
  PROVE  TopicInv'
BY SseSame DEF TopicInv, Told, Streaming, At

LEMMA CompleteFrame ==
  ASSUME Complete, UNCHANGED <<handler, at, saved, unsent, sub, sse, dmWith, switch, log>>,
         Clean' => Clean
  PROVE  Complete'
BY SseSame DEF Complete, Streaming, History, Showing, At

LEMMA PureFrame ==
  ASSUME Pure, UNCHANGED <<handler, at, saved, sse, dmWith, switch, log, late>>, Clean' => Clean
  PROVE  Pure'
BY SseSame DEF Pure, Streaming, History, At, IsDM

LEMMA SendFrame ==
  ASSUME SendInv, UNCHANGED <<handler, switch, send, at>>, Clean' => Clean
  PROVE  SendInv'
BY DEF SendInv, Streaming

LEMMA OnceFrame ==
  ASSUME OnceInv, UNCHANGED <<sub, unsent, sse>>
  PROVE  OnceInv'
BY SseSame DEF OnceInv, IsDM

LEMMA DmFrame ==
  ASSUME DmInv, UNCHANGED <<handler, sse, load, dms, saved, unsent, sub>>,
         crossed => crossed', failed => failed'
  PROVE  DmInv'
BY SseSame DEF DmInv, Told, Streaming, Thread, History, DMsOnTheirWay, IsDM

(* Before its snapshot a stream is not spoken of.                          *)
LEMMA NotStreaming ==
  ASSUME ~Streaming'
  PROVE  Complete' /\ Pure' /\ DmInv' /\ ~Told'
BY DEF Complete, Pure, DmInv, Told

-----------------------------------------------------------------------------
LEMMA InitInv == Init => PageInv
<1> SUFFICES ASSUME Init PROVE PageInv
  OBVIOUS
<1>1. /\ handler = "off" /\ sse = <<>> /\ sub = <<>> /\ switch = <<>> /\ send = <<>>
      /\ saved = <<>> /\ unsent = {} /\ old = 0
  BY DEF Init
<1>2. ~Streaming /\ ~Told /\ ~YouPending /\ Events = {}
  BY <1>1 DEF Streaming, Told, YouPending, Events
<1>3. TypeOK
  <2>1. dms \in [Peers -> {Absent} \cup Seq(Messages)]
    BY DEF Init
  <2>2. \A S : <<>> \in Seq(S)
    OBVIOUS
  <2>3. inputs \in 0..MaxInputs
    BY PageAssumption DEF Init
  <2>4. {muddled, late, crossed, failed} \subseteq BOOLEAN
    BY Zenon DEF Init
  <2>5. {old, opened} \subseteq Nat /\ unsent \subseteq Range(saved)
    BY DEF Init
  <2> QED BY <2>1, <2>2, <2>3, <2>4, <2>5 DEF Init, TypeOK
<1>4. StreamInv /\ SwitchInv
  BY <1>1 DEF StreamInv, SwitchInv
<1>5. StoreInv
  BY <1>1, <1>2 DEF StoreInv, Range
<1>6. TopicInv /\ Complete /\ Pure /\ DmInv
  BY <1>2 DEF TopicInv, Complete, Pure, DmInv
<1>7. SendInv
  BY <1>1 DEF SendInv
<1>8. OnceInv
  BY <1>1, <1>2 DEF OnceInv, IsInjective, Range
<1> QED BY <1>3, <1>4, <1>5, <1>6, <1>7, <1>8 DEF PageInv

(* Post and Private, up to emitting.                                       *)
LEMMA SaveStep ==
  ASSUME PageInv, NEW t \in Places, Save(t),
         UNCHANGED <<lurker, at, strm, page, switch, load, muddled, late, failed>>,
         send' \in Seq(Sends), inputs' \in 0..MaxInputs
  PROVE  /\ TypeOK' /\ StreamInv' /\ StoreInv' /\ SwitchInv' /\ TopicInv'
         /\ Complete' /\ Pure' /\ OnceInv' /\ DmInv'
<1> USE DEF PageInv, strm, page
<1>1. PICK m \in Messages :
           /\ m.to = t /\ m \notin Range(saved)
           /\ saved' \in Seq(Messages) /\ Range(saved') = Range(saved) \cup {m}
           /\ unsent' = unsent \cup {m} /\ \A i \in DOMAIN saved' : saved'[i].n = i
           /\ crossed' = (crossed \/ (IsDM(m) /\ load # <<>>))
  BY SaveOf
<1>2. /\ sse' = sse /\ Events' = Events /\ (YouPending' <=> YouPending)
      /\ (Streaming' <=> Streaming) /\ (Told' <=> Told) /\ Clean' = Clean
  BY SseSame DEF Streaming, Told, Clean
<1>3. TypeOK'
  BY <1>1 DEF TypeOK, Sends
<1>4. StreamInv' /\ SwitchInv' /\ TopicInv'
  BY <1>2, StreamFrame, SwitchFrame, TopicFrame
<1>6. StoreInv'
  <2>1. /\ Range(sub') \subseteq Range(saved') /\ Events' \subseteq Range(saved')
    BY <1>1, <1>2 DEF StoreInv
  <2>2. \A i \in DOMAIN switch : switch[i].step = "loaded" =>
          switch[i].got \subseteq {x \in Range(saved') : x.to = switch[i].name}
    BY <1>1 DEF StoreInv, History
  <2>3. \A i \in DOMAIN saved' : saved'[i].n = i
    BY Zenon, <1>1
  <2> QED BY <2>1, <2>2, <2>3 DEF StoreInv, History
<1>7. Complete'
  <2>1. History(at)' = History(at) \cup {x \in {m} : x.to = at}
    BY Zenon, <1>1 DEF History
  <2>2. \A x : Showing(x)' <=> Showing(x)
    BY DEF Showing, At
  <2> SUFFICES ASSUME Clean', Streaming', NEW x \in History(at)'
               PROVE  x \in unsent' \cup Range(sub)' \cup Events' \/ (~YouPending' /\ Showing(x)')
    BY DEF Complete
  <2>3. x \in History(at) => x \in unsent \cup Range(sub) \cup Events \/ (~YouPending /\ Showing(x))
    BY <1>2 DEF Complete
  <2>4. Range(sub)' = Range(sub)
    OBVIOUS
  <2> QED BY Zenon, <1>1, <1>2, <2>1, <2>2, <2>3, <2>4
<1>8. Pure'
  BY <1>1, <1>2 DEF Pure, History, At, IsDM
<1>9. m \notin Range(sub) /\ m \notin Events /\ m \notin unsent
  BY <1>1 DEF StoreInv, TypeOK
<1>10. OnceInv'
  BY Zenon, <1>1, <1>2, <1>9 DEF OnceInv, IsDM
<1>11. DmInv'
  <2> SUFFICES ASSUME ~crossed', ~failed', Told'
               PROVE  IF load = <<>>
                        THEN \A p \in Peers : /\ IsInjective(Thread(p))
                                              /\ Range(Thread(p)) = History(p)' \ DMsOnTheirWay'
                        ELSE /\ Len(load) = 1 /\ DMsOnTheirWay' = {}
                             /\ load[1].step = "loaded" => load[1].got = {x \in Range(saved') : IsDM(x)}
    BY Zenon DEF DmInv, Thread, History, DMsOnTheirWay, IsDM
  <2>1. crossed' = (crossed \/ (IsDM(m) /\ load # <<>>))
    BY <1>1
  <2>2. ~crossed /\ ~failed /\ Told /\ (load = <<>> \/ ~IsDM(m))
    BY Zenon, <1>2, <2>1
  <2>3. DMsOnTheirWay' = DMsOnTheirWay \cup {x \in {m} : IsDM(x)}
    BY Zenon, <1>1, <1>2 DEF DMsOnTheirWay, IsDM
  <2>4. CASE load = <<>>
    <3> SUFFICES ASSUME NEW p \in Peers PROVE History(p)' \ DMsOnTheirWay' = History(p) \ DMsOnTheirWay
      BY <2>2, <2>4 DEF DmInv
    <3>1. History(p)' = History(p) \cup {x \in {m} : x.to = p}
      BY Zenon, <1>1 DEF History
    <3>2. m \notin History(p)
      BY <1>1 DEF History
    <3>3. m.to = p => IsDM(m)
      BY DEF IsDM
    <3> QED BY <2>3, <3>1, <3>2, <3>3
  <2>5. CASE load # <<>>
    <3>1. ~IsDM(m)
      BY <2>2, <2>5
    <3>2. {x \in Range(saved') : IsDM(x)} = {x \in Range(saved) : IsDM(x)}
      BY <1>1, <3>1
    <3> QED BY <2>2, <2>3, <2>5, <3>1, <3>2 DEF DmInv
  <2> QED BY <2>4, <2>5
<1> QED BY <1>3, <1>4, <1>6, <1>7, <1>8, <1>10, <1>11

LEMMA OtherPostInv ==
  ASSUME PageInv, NEW t \in Places, OtherPost(t)
  PROVE  PageInv'
<1> USE DEF PageInv
<1>1. /\ Save(t) /\ UNCHANGED <<lurker, at, strm, page, switch, load, muddled, late, failed>>
      /\ send' = send /\ inputs' = inputs + 1 /\ inputs < MaxInputs
  BY DEF OtherPost, Input
<1>2. send' \in Seq(Sends) /\ inputs' \in 0..MaxInputs
  BY <1>1 DEF TypeOK, Sends
<1>3. /\ TypeOK' /\ StreamInv' /\ StoreInv' /\ SwitchInv' /\ TopicInv'
      /\ Complete' /\ Pure' /\ OnceInv' /\ DmInv'
  BY <1>1, <1>2, SaveStep
<1>4. SendInv'
  BY <1>1, SendFrame DEF strm, Clean
<1> QED BY <1>3, <1>4

LEMMA EmitInv ==
  ASSUME PageInv, NEW m \in unsent, Emit(m)
  PROVE  PageInv'
<1> USE DEF PageInv
<1>1. /\ unsent' = unsent \ {m} /\ sub' = IF handler # "off" THEN Append(sub, m) ELSE sub
      /\ UNCHANGED <<lurker, at, saved, handler, old, opened, sse, topic, dmWith, log, dms>>
      /\ UNCHANGED <<switch, load, send, inputs, muddled, late, crossed, failed>>
  BY DEF Emit, Subscribed, page, tasks, past
<1>2. m \in Range(saved) /\ m \in Messages /\ sub \in Seq(Messages)
  BY TypeIs
<1>3. /\ Events' = Events /\ (YouPending' <=> YouPending) /\ (Streaming' <=> Streaming)
      /\ (Told' <=> Told) /\ (Clean' <=> Clean)
  BY <1>1, SseSame DEF Streaming, Told, Clean
<1>4. /\ handler = "off" => sub' = sub
      /\ handler # "off" => sub' = Append(sub, m) /\ Range(sub') = Range(sub) \cup {m}
      /\ sub' \in Seq(Messages) /\ Range(sub') \subseteq Range(sub) \cup {m}
  BY <1>1, <1>2, RangeAppend
<1>5. TypeOK'
  BY <1>1, <1>4 DEF TypeOK
<1>6. StreamInv'
  BY Zenon, <1>1, <1>4 DEF StreamInv
<1>7. StoreInv'
  BY Zenon, <1>1, <1>2, <1>3, <1>4 DEF StoreInv, History
<1>8. SwitchInv' /\ TopicInv' /\ Pure' /\ SendInv'
  BY <1>1, <1>3, SwitchFrame, TopicFrame, PureFrame, SendFrame
<1>9. Complete'
  <2> SUFFICES ASSUME Clean', Streaming', NEW x \in History(at)'
               PROVE  x \in unsent' \cup Range(sub') \cup Events' \/ (~YouPending' /\ Showing(x)')
    BY DEF Complete
  <2>1. x \in History(at) /\ (Showing(x)' <=> Showing(x))
    BY <1>1 DEF History, Showing, At
  <2>2. x \in unsent \cup Range(sub) \cup Events \/ (~YouPending /\ Showing(x))
    BY <1>3, <2>1 DEF Complete
  <2>3. handler # "off"
    BY <1>3 DEF Streaming
  <2> QED BY <1>1, <1>3, <1>4, <2>1, <2>2, <2>3
<1>10. OnceInv'
  <2>1. m \notin Range(sub) /\ IsInjective(sub)
    BY DEF OnceInv
  <2>2. IsInjective(sub')
    <3>1. IsInjective(Append(sub, m))
      BY <1>2, <2>1, InjectiveAppend
    <3> QED BY <1>1, <2>1, <3>1
  <2>3. Range(sub') \cap unsent' = {}
    BY <1>1, <1>4 DEF OnceInv
  <2>4. \A x \in Events' : IsDM(x) => x \notin unsent' \cup Range(sub')
    BY <1>1, <1>3, <1>4 DEF OnceInv
  <2> QED BY Zenon, <1>1, <2>2, <2>3, <2>4 DEF OnceInv, IsDM
<1>11. DmInv'
  <2> SUFFICES ASSUME Told' PROVE DmInv'
    BY DEF DmInv
  <2>1. handler # "off"
    BY <1>3 DEF Told, Streaming
  <2>2. unsent' \cup Range(sub') = unsent \cup Range(sub)
    BY <1>1, <1>4, <2>1
  <2>3. DMsOnTheirWay' = DMsOnTheirWay
    BY <1>3, <2>2 DEF DMsOnTheirWay, IsDM
  <2> QED BY Zenon, <1>1, <1>3, <2>3 DEF DmInv, Thread, History, IsDM
<1> QED BY <1>5, <1>6, <1>7, <1>8, <1>9, <1>10, <1>11

LEMMA ConnectInv ==
  ASSUME PageInv, Connect
  PROVE  PageInv'
<1> USE DEF PageInv
<1>1. /\ handler = "off" /\ handler' = "entered" /\ opened' = opened + 1
      /\ at' = IF old > 0 THEN at ELSE DefaultTopic
      /\ UNCHANGED <<lurker, saved, unsent, old, sub, sse, topic, dmWith, log, dms>>
      /\ UNCHANGED <<switch, load, send, inputs, muddled, late, crossed, failed>>
  BY DEF Connect, page, tasks, past
<1>2. sse = <<>> /\ at' \in Topics
  BY Zenon, <1>1 DEF StreamInv
<1>3. TypeOK'
  BY <1>1, <1>2 DEF TypeOK
<1>4. ~Streaming' /\ ~YouPending' /\ ~Streaming
  BY <1>1, <1>2 DEF Streaming, YouPending
<1>5. StreamInv' /\ SwitchInv'
  BY <1>1, <1>2 DEF StreamInv, SwitchInv, Starting
<1>6. TopicInv' /\ Complete' /\ Pure' /\ DmInv'
  BY <1>4, NotStreaming DEF TopicInv
<1>7. StoreInv' /\ OnceInv'
  BY <1>1, StoreFrame, OnceFrame
<1>8. SendInv'
  BY <1>1, <1>4 DEF SendInv
<1> QED BY <1>3, <1>5, <1>6, <1>7, <1>8

LEMMA SnapshotInv ==
  ASSUME PageInv, Snapshot
  PROVE  PageInv'
<1> USE DEF PageInv
<1>1. /\ handler = "entered" /\ handler' = "told"
      /\ muddled' = (switch # <<>>) /\ late' = FALSE
      /\ failed' = (failed /\ (switch # <<>> \/ load # <<>>))
      /\ UNCHANGED <<lurker, at, saved, unsent, old, opened, sub, topic, dmWith, log, dms>>
      /\ UNCHANGED <<switch, load, send, inputs, crossed>>
  BY Zenon DEF Snapshot, hub, page, tasks
<1>2. at \in Topics /\ ~Streaming /\ Streaming'
  BY <1>1 DEF StreamInv, Streaming
<1>3. PICK s \in Rows(History(at)) : sse' = <<You(at)>> \o [i \in DOMAIN s |-> Ev(s[i])]
  BY Zenon DEF Snapshot
<1>4. s \in Seq(Messages) /\ Range(s) = History(at)
  <2>1. History(at) \in SUBSET Messages
    BY TypeIs DEF History
  <2> QED BY <2>1, RowsOf
<1>5. /\ sse' \in Seq(Frames) /\ Events' = History(at) /\ sse'[1] = You(at) /\ 1 \in DOMAIN sse'
      /\ \A i \in DOMAIN sse' : sse'[i].type = "you" <=> i = 1
  BY Zenon, <1>2, <1>3, <1>4, FramesOfSnapshot
<1>6. YouPending' /\ ~Told' /\ sse'[1].topic = at
  BY <1>2, <1>5, FrameOf DEF YouPending, Told
<1>7. TypeOK'
  <2>1. muddled' \in BOOLEAN /\ late' \in BOOLEAN /\ failed' \in BOOLEAN /\ crossed' \in BOOLEAN
    BY <1>1, Zenon, TypeIs
  <2>2. {muddled', late', crossed', failed'} \subseteq BOOLEAN
    BY <2>1, Zenon
  <2> QED BY Zenon, <1>1, <1>5, <2>2 DEF TypeOK, Frames
<1>8. StreamInv'
  BY Zenon, <1>1, <1>2, <1>5 DEF StreamInv
<1>9. StoreInv'
  <2>1. Events' \subseteq Range(saved)
    BY <1>5 DEF History
  <2> QED BY Zenon, <1>1, <2>1 DEF StoreInv, History
<1>10. SwitchInv'
  <2>1. switch = <<>> => Len(switch) <= 1
    OBVIOUS
  <2> QED BY Zenon, <1>1, <2>1 DEF SwitchInv
<1>11. TopicInv' /\ DmInv'
  BY Zenon, <1>1, <1>6 DEF TopicInv, DmInv
<1>12. Complete'
  BY Zenon, <1>1, <1>5 DEF Complete, History
<1>13. Pure'
  BY Zenon, <1>1, <1>5, <1>6 DEF Pure, History
<1>14. SendInv'
  BY Zenon, <1>1, <1>2 DEF SendInv
<1>15. OnceInv'
  <2>1. \A m \in Events' : ~IsDM(m)
    BY <1>2, <1>5 DEF History, IsDM
  <2>2. \A m : m \in Events' <=> \E i \in DOMAIN sse' : sse'[i].type = "event" /\ sse'[i].msg = m
    BY DEF Events
  <2> QED BY Zenon, <1>1, <2>1, <2>2 DEF OnceInv, IsDM
<1> QED BY <1>7, <1>8, <1>9, <1>10, <1>11, <1>12, <1>13, <1>14, <1>15

LEMMA FollowInv ==
  ASSUME PageInv, Follow
  PROVE  PageInv'
<1> USE DEF PageInv
<1>1. /\ handler = "told" /\ handler' = "live"
      /\ UNCHANGED <<lurker, at, saved, unsent, old, opened, sub, sse, topic, dmWith, log, dms>>
      /\ UNCHANGED <<switch, load, send, inputs, muddled, late, crossed, failed>>
  BY DEF Follow, hub, page, tasks, past
<1>2. /\ Events' = Events /\ (YouPending' <=> YouPending) /\ Streaming' /\ Streaming
      /\ (Told' <=> Told) /\ (Clean' <=> Clean)
  BY Zenon, <1>1, SseSame DEF Streaming, Told, Clean
<1>3. TypeOK' /\ StreamInv' /\ SwitchInv'
  BY <1>1 DEF TypeOK, StreamInv, SwitchInv, Starting
<1>4. StoreInv' /\ OnceInv'
  BY Zenon, <1>1, StoreFrame, OnceFrame
<1>5. TopicInv' /\ SendInv'
  BY Zenon, <1>1, <1>2 DEF TopicInv, SendInv, At
<1>6. Complete'
  BY Zenon, <1>1, <1>2 DEF Complete, History, Showing, At
<1>7. Pure'
  BY Zenon, <1>1, <1>2 DEF Pure, History, At, IsDM
<1>8. DmInv'
  BY <1>1, <1>2 DEF DmInv, Thread, History, DMsOnTheirWay, IsDM
<1> QED BY <1>3, <1>4, <1>5, <1>6, <1>7, <1>8

LEMMA LiveInv ==
  ASSUME PageInv, Live
  PROVE  PageInv'
<1> USE DEF PageInv
<1> DEFINE h == Head(sub)
<1>1. /\ handler = "live" /\ sub # <<>> /\ sub' = Tail(sub)
      /\ sse' = IF filter(h) THEN Append(sse, Ev(h)) ELSE sse
      /\ UNCHANGED <<lurker, at, saved, unsent, handler, old, opened, topic, dmWith, log, dms>>
      /\ UNCHANGED <<switch, load, send, inputs, muddled, late, crossed, failed>>
  BY DEF Live, hub, page, tasks, past
<1>2. sub \in Seq(Messages) /\ sse \in Seq(Frames)
  BY TypeIs
<1>3. /\ h \in Messages /\ sub' \in Seq(Messages) /\ Range(sub) = {h} \cup Range(sub')
      /\ 1 \in DOMAIN sub /\ h = sub[1] /\ DOMAIN sub \subseteq Int /\ DOMAIN sub' \subseteq Int
      /\ \A i \in DOMAIN sub' : i + 1 \in DOMAIN sub /\ i + 1 # 1 /\ sub'[i] = sub[i + 1]
  BY <1>1, <1>2, TailOf
<1> HIDE DEF h
<1>4. h \in Range(saved) /\ h \notin unsent
  BY <1>3 DEF StoreInv, OnceInv
<1> DEFINE N == Len(sse) + 1
<1>5. /\ sse' \in Seq(Frames) /\ (YouPending' <=> YouPending)
      /\ Events' = Events \cup {x \in {h} : filter(x)}
      /\ \A i \in DOMAIN sse : i \in DOMAIN sse' /\ sse'[i] = sse[i]
      /\ \A i \in DOMAIN sse' : i \in DOMAIN sse \/ (i = N /\ sse'[i] = Ev(h) /\ filter(h))
  <2>1. CASE filter(h)
    <3>1. sse' = Append(sse, Ev(h))
      BY <1>1, <2>1
    <3>2. sse' \in Seq(Frames) /\ (YouPending' <=> YouPending) /\ Events' = Events \cup {h}
      BY <1>2, <1>3, <3>1, FrameAdded
    <3>3. Ev(h) \in Frames
      BY <1>3, FrameOf
    <3>4. /\ DOMAIN sse' = DOMAIN sse \cup {N} /\ sse'[N] = Ev(h)
          /\ \A i \in DOMAIN sse : sse'[i] = sse[i]
      BY <1>2, <3>1, <3>3, RangeAppend
    <3> HIDE DEF N
    <3> QED BY <2>1, <3>2, <3>4
  <2>2. CASE ~filter(h)
    <3>1. sse' = sse
      BY <1>1, <2>2
    <3> QED BY <1>2, <2>2, <3>1, SseSame
  <2> QED BY Zenon, <2>1, <2>2
<1> HIDE DEF N
<1>6. /\ (Streaming' <=> Streaming) /\ (Told' <=> Told) /\ (Clean' <=> Clean)
  BY Zenon, <1>1, <1>5 DEF Streaming, Told, Clean
<1>7. TypeOK'
  BY Zenon, <1>1, <1>3, <1>5 DEF TypeOK, Frames
<1>8. StreamInv'
  <2>1. \A i \in DOMAIN sse' : sse'[i].type = "you" => i = 1
    <3>1. Ev(h).type = "event"
      BY <1>3, FrameOf
    <3> QED BY Zenon, <1>5, <3>1 DEF StreamInv
  <2> QED BY Zenon, <1>1, <2>1 DEF StreamInv
<1>9. StoreInv'
  BY Zenon, <1>1, <1>3, <1>4, <1>5 DEF StoreInv, History
<1>10. SwitchInv'
  <2>1. Starting' <=> Starting
    BY Zenon, <1>1, <1>5 DEF Starting, YouPending
  <2> QED BY <1>1, <2>1 DEF SwitchInv
<1>11. TopicInv'
  <2>1. YouPending => sse'[1] = sse[1]
    BY Zenon, <1>5 DEF YouPending, StreamInv
  <2> QED BY Zenon, <1>1, <1>5, <1>6, <2>1 DEF TopicInv, At
<1>12. Complete'
  <2> SUFFICES ASSUME Clean', Streaming', NEW x \in History(at)'
               PROVE  x \in unsent' \cup Range(sub') \cup Events' \/ (~YouPending' /\ Showing(x)')
    BY DEF Complete
  <2>1. x \in History(at) /\ (Showing(x)' <=> Showing(x)) /\ x.to = at
    BY Zenon, <1>1 DEF History, Showing, At
  <2>2. x \in unsent \cup Range(sub) \cup Events \/ (~YouPending /\ Showing(x))
    BY Zenon, <1>6, <2>1 DEF Complete
  <2>3. x = h => x \in Events'
    BY Zenon, <1>5, <2>1 DEF filter
  <2> QED BY <1>1, <1>3, <1>5, <2>1, <2>2, <2>3
<1>13. Pure'
  <2>1. filter(h) => IsDM(h) \/ h.to = at
    BY DEF filter
  <2>2. History(at)' = History(at) /\ \A st : At(st)' <=> At(st)
    BY <1>1 DEF History, At
  <2> QED BY Zenon, <1>1, <1>5, <1>6, <2>1, <2>2 DEF Pure, IsDM
<1>14. SendInv'
  BY <1>1, <1>6, SendFrame
<1>15. OnceInv'
  <2>1. h \notin Range(sub') /\ IsInjective(sub')
    <3>1. \A i, j \in DOMAIN sub : sub[i] = sub[j] => i = j
      BY DEF OnceInv, IsInjective
    <3>2. \A i \in DOMAIN sub' : sub'[i] # h
      BY <1>3, <3>1
    <3>3. ASSUME NEW i \in DOMAIN sub', NEW j \in DOMAIN sub', sub'[i] = sub'[j] PROVE i = j
      <4>1. i + 1 = j + 1 /\ i \in Int /\ j \in Int
        BY <1>3, <3>1, <3>3
      <4> QED BY <4>1
    <3> QED BY <3>2, <3>3 DEF Range, IsInjective
  <2>2. IsDM(h) => h \notin Events
    BY <1>3 DEF OnceInv
  <2>3. \A x \in Events' : IsDM(x) => x \notin unsent' \cup Range(sub')
    BY Zenon, <1>1, <1>3, <1>4, <1>5, <2>1 DEF OnceInv
  <2>4. ASSUME NEW i \in DOMAIN sse', NEW j \in DOMAIN sse',
               sse'[i].type = "event", sse'[j] = sse'[i], IsDM(sse'[i].msg)
        PROVE  i = j
    <3>1. Ev(h).type = "event" /\ Ev(h).msg = h
      BY Zenon, <1>3, FrameOf
    <3>2. CASE i \in DOMAIN sse /\ j \in DOMAIN sse
      BY Zenon, <1>5, <2>4, <3>2 DEF OnceInv
    <3>3. CASE i \notin DOMAIN sse /\ j \notin DOMAIN sse
      BY <1>5, <3>3
    <3>4. CASE ~(i \in DOMAIN sse <=> j \in DOMAIN sse)
      <4>1. \E k \in DOMAIN sse : sse[k].type = "event" /\ sse[k].msg = h
        BY Zenon, <1>5, <2>4, <3>1, <3>4
      <4>2. h \in Events /\ IsDM(h)
        BY Zenon, <1>5, <2>4, <3>1, <3>4, <4>1, EventsAre
      <4> QED BY Zenon, <2>2, <4>2
    <3> QED BY Zenon, <3>2, <3>3, <3>4
  <2>5. Range(sub') \cap unsent' = {}
    BY Zenon, <1>1, <1>3 DEF OnceInv
  <2> QED BY <2>1, <2>3, <2>4, <2>5 DEF OnceInv, IsDM
<1>16. DmInv'
  <2>1. filter(h) \/ ~IsDM(h)
    BY Zenon DEF filter
  <2>2. DMsOnTheirWay' = DMsOnTheirWay
    BY <1>1, <1>3, <1>5, <2>1 DEF DMsOnTheirWay, IsDM
  <2> QED BY Zenon, <1>1, <1>6, <2>2 DEF DmInv, Thread, History, IsDM
<1> QED BY <1>7, <1>8, <1>9, <1>10, <1>11, <1>12, <1>13, <1>14, <1>15, <1>16

LEMMA BreakInv ==
  ASSUME PageInv, Break
  PROVE  PageInv'
<1> USE DEF PageInv
<1>1. /\ handler # "off" /\ handler' = "off" /\ old' = old + 1 /\ sub' = <<>> /\ sse' = <<>>
      /\ muddled' = (muddled \/ switch # <<>>) /\ Stir
      /\ UNCHANGED <<lurker, at, saved, unsent, opened, topic, dmWith, log, dms>>
      /\ UNCHANGED <<switch, load, inputs, late, crossed, failed>>
  BY Zenon DEF Break, hub, page
<1>2. send' \in Seq(Sends) /\ \A i \in DOMAIN send' : ~send'[i].calm
  BY <1>1, TypeIs, StirOf
<1>3. ~Streaming' /\ ~YouPending' /\ Events' = {} /\ at \in Topics /\ Range(sub') = {}
  BY Zenon, <1>1, NothingSent DEF Streaming, StreamInv
<1>4. TypeOK'
  <2>1. muddled' \in BOOLEAN
    BY <1>1, Zenon, TypeIs
  <2>2. {muddled', late', crossed', failed'} \subseteq BOOLEAN
    BY <1>1, <2>1, Zenon, TypeIs
  <2>3. sub' \in Seq(Messages) /\ sse' \in Seq(Frames)
    BY <1>1
  <2> QED BY <1>1, <1>2, <2>2, <2>3 DEF TypeOK, Frames, Sends
<1>5. StreamInv'
  BY <1>1, <1>3 DEF StreamInv
<1>6. StoreInv'
  BY <1>1, <1>3 DEF StoreInv, History
<1>7. SwitchInv'
  <2>1. switch = <<>> => Len(switch) <= 1
    OBVIOUS
  <2> QED BY Zenon, <1>1, <2>1 DEF SwitchInv
<1>8. TopicInv' /\ Complete' /\ Pure' /\ DmInv'
  BY Zenon, <1>3, NotStreaming DEF TopicInv
<1>9. SendInv'
  BY <1>2 DEF SendInv
<1>10. OnceInv'
  BY Zenon, <1>1, <1>3, EmptyRange, InjectiveEmpty DEF OnceInv
<1> QED BY <1>4, <1>5, <1>6, <1>7, <1>8, <1>9, <1>10

LEMMA ReturnInv ==
  ASSUME PageInv, Return
  PROVE  PageInv'
<1> USE DEF PageInv
<1>1. /\ old > 0 /\ old' = old - 1
      /\ at' = IF handler = "off" /\ old = 1 THEN Absent ELSE at
      /\ UNCHANGED <<lurker, saved, unsent, handler, opened, sub, sse, topic, dmWith, log, dms>>
      /\ UNCHANGED <<switch, load, send, inputs, muddled, late, crossed, failed>>
  BY DEF Return, page, tasks, past
<1>2. old \in Nat /\ old' \in Nat /\ at' \in Topics \cup {Absent} /\ (handler # "off" \/ old' > 0 => at' = at)
  <2>1. old \in Nat /\ at \in Topics \cup {Absent}
    BY Zenon, TypeIs
  <2> QED BY Zenon, <1>1, <2>1, OneLess
<1>3. TypeOK'
  BY <1>1, <1>2 DEF TypeOK
<1>4. StreamInv'
  BY Zenon, <1>1, <1>2 DEF StreamInv
<1>5. StoreInv' /\ OnceInv' /\ SwitchInv' /\ DmInv'
  BY Zenon, <1>1, StoreFrame, OnceFrame, SwitchFrame, DmFrame
<1>6. CASE handler = "off"
  <2>1. ~Streaming /\ ~Streaming' /\ ~YouPending'
    BY Zenon, <1>1, <1>6, NothingSent DEF Streaming, StreamInv
  <2> QED BY Zenon, <1>1, <1>3, <1>4, <1>5, <2>1, NotStreaming DEF TopicInv, SendInv
<1>7. CASE handler # "off"
  <2>1. at' = at /\ (Clean' => Clean)
    BY Zenon, <1>1, <1>2, <1>7 DEF Clean
  <2> QED BY <1>1, <1>3, <1>4, <1>5, <2>1, TopicFrame, CompleteFrame, PureFrame, SendFrame
<1> QED BY <1>6, <1>7

LEMMA OnYouInv ==
  ASSUME PageInv, OnYou
  PROVE  PageInv'
<1> USE DEF PageInv
<1> DEFINE c == [step |-> "fetch", got |-> {}]
<1>1. /\ sse # <<>> /\ Head(sse).type = "you" /\ sse' = Tail(sse)
      /\ topic' = Head(sse).topic /\ log' = {} /\ load' = Append(load, c)
      /\ crossed' = (load # <<>> \/ DMsOnTheirWay # {})
      /\ UNCHANGED <<lurker, at, saved, unsent, handler, old, opened, sub, dmWith, dms>>
      /\ UNCHANGED <<switch, send, inputs, muddled, late, failed>>
  BY Zenon DEF OnYou, YouTopic, hub
<1>2. sse \in Seq(Frames) /\ load \in Seq(LoadCalls)
  BY TypeIs
<1>3. /\ sse' \in Seq(Frames) /\ ~YouPending' /\ Events' = Events
      /\ \A i \in DOMAIN sse' : sse'[i].type = "event"
  BY Zenon, <1>1, <1>2, FrameTaken
<1>4. /\ Head(sse) \in Frames /\ 1 \in DOMAIN sse /\ Head(sse) = sse[1]
      /\ DOMAIN sse \subseteq Int /\ DOMAIN sse' \subseteq Int
      /\ \A i \in DOMAIN sse' : i + 1 \in DOMAIN sse /\ sse'[i] = sse[i + 1]
  <2>1. sse \in Seq(Frames) /\ sse # <<>> /\ sse' = Tail(sse)
    BY Zenon, <1>1, <1>2
  <2> HIDE DEF PageInv
  <2> QED BY <2>1, TailIs
<1>5. YouPending /\ Starting /\ Head(sse).topic \in Topics
  BY Zenon, <1>1, <1>4, FrameOf DEF YouPending, Starting
<1>6. handler \in {"told", "live"} /\ Streaming /\ Streaming' /\ Told' /\ (Clean' <=> Clean)
  BY <1>1, <1>3, TypeIs DEF StreamInv, Streaming, Told, Clean
<1>7. Clean => switch = <<>> /\ sse[1].topic = at
  BY <1>5 DEF Clean, SwitchInv, TopicInv
<1>8. c \in LoadCalls /\ c.step = "fetch"
  BY DEF LoadCalls
<1> HIDE DEF c
<1>9. /\ load' \in Seq(LoadCalls) /\ Len(load') = Len(load) + 1 /\ load' # <<>>
      /\ load'[Len(load) + 1] = c
  <2>1. load' = Append(load, c) /\ load \in Seq(LoadCalls) /\ c \in LoadCalls
    BY Zenon, <1>1, <1>2, <1>8
  <2> HIDE DEF PageInv
  <2> QED BY <2>1, AppendIs
<1>10. TypeOK'
  <2>1. crossed' \in BOOLEAN
    BY <1>1, Zenon
  <2>2. {muddled', late', crossed', failed'} \subseteq BOOLEAN
    BY <1>1, <2>1, Zenon, TypeIs
  <2>3. log' \subseteq Messages
    BY <1>1
  <2> QED BY Zenon, <1>1, <1>3, <1>5, <1>9, <2>2, <2>3 DEF TypeOK, Frames, LoadCalls
<1>11. StreamInv'
  BY <1>1, <1>3, <1>6 DEF StreamInv
<1>12. StoreInv'
  BY Zenon, <1>1, <1>3 DEF StoreInv, History
<1>13. SwitchInv'
  BY Zenon, <1>1, <1>5 DEF SwitchInv
<1>14. TopicInv'
  BY Zenon, <1>1, <1>3, <1>4, <1>6, <1>7 DEF TopicInv, At
<1>15. Complete'
  BY Zenon, <1>1, <1>3, <1>5, <1>6 DEF Complete, History
<1>16. Pure'
  BY Zenon, <1>1, <1>3, <1>6 DEF Pure, History, At, IsDM
<1>17. SendInv'
  BY Zenon, <1>1, <1>6, SendFrame
<1>18. OnceInv'
  <2>1. ASSUME NEW i \in DOMAIN sse', NEW j \in DOMAIN sse',
               sse'[i].type = "event", sse'[j] = sse'[i], IsDM(sse'[i].msg)
        PROVE  i = j
    <3>1. i + 1 = j + 1 /\ i \in Int /\ j \in Int
      BY Zenon, <1>4, <2>1 DEF OnceInv
    <3> QED BY <3>1
  <2> QED BY Zenon, <1>1, <1>3, <2>1 DEF OnceInv, IsDM
<1>19. DmInv'
  <2> SUFFICES ASSUME ~crossed'
               PROVE  /\ Len(load') = 1 /\ DMsOnTheirWay' = {} /\ load'[1].step # "loaded"
    BY Zenon, <1>9 DEF DmInv
  <2>1. load = <<>> /\ DMsOnTheirWay = {}
    BY Zenon, <1>1
  <2>2. Len(load) = 0
    BY <2>1
  <2>3. Len(load') = 1 /\ load'[1] = c
    BY <1>9, <2>2
  <2>4. DMsOnTheirWay' = DMsOnTheirWay
    BY Zenon, <1>1, <1>3 DEF DMsOnTheirWay, IsDM
  <2> QED BY Zenon, <1>8, <2>1, <2>3, <2>4
<1> QED BY <1>10, <1>11, <1>12, <1>13, <1>14, <1>15, <1>16, <1>17, <1>18, <1>19

LEMMA OnEventInv ==
  ASSUME PageInv, OnEvent
  PROVE  PageInv'
<1> USE DEF PageInv
<1> DEFINE h == Head(sse).msg
<1>1. /\ sse # <<>> /\ Head(sse).type = "event" /\ sse' = Tail(sse)
      /\ IF IsDM(h)
           THEN /\ dms' = [dms EXCEPT ![h.to] = Append(Thread(h.to), h)]
                /\ log' = IF dmWith = h.to THEN log \cup {h} ELSE log
           ELSE log' = log \cup {h} /\ dms' = dms
      /\ UNCHANGED <<lurker, at, saved, unsent, handler, old, opened, sub, topic, dmWith>>
      /\ UNCHANGED <<switch, load, send, inputs, muddled, late, crossed, failed>>
  BY Zenon DEF OnEvent, hub, tasks, past
<1>2. sse \in Seq(Frames)
  BY Zenon, TypeIs
<1>3. /\ sse' \in Seq(Frames) /\ ~YouPending' /\ ~YouPending /\ Events = Events' \cup {h}
      /\ \A i \in DOMAIN sse' : sse'[i].type = "event"
      /\ h \in Messages
  BY Zenon, <1>1, <1>2, FrameTaken
<1>4. /\ Head(sse) \in Frames /\ 1 \in DOMAIN sse /\ Head(sse) = sse[1]
      /\ DOMAIN sse \subseteq Int /\ DOMAIN sse' \subseteq Int
      /\ \A i \in DOMAIN sse' : i + 1 \in DOMAIN sse /\ i + 1 # 1 /\ sse'[i] = sse[i + 1]
  <2>1. sse \in Seq(Frames) /\ sse # <<>> /\ sse' = Tail(sse)
    BY Zenon, <1>1, <1>2
  <2> HIDE DEF PageInv
  <2> QED BY <2>1, TailIs
<1>5. IsDM(h) => h \notin Events' /\ h \notin unsent /\ h \notin Range(sub)
  <2> SUFFICES ASSUME IsDM(h) PROVE h \notin Events'
    BY <1>3 DEF OnceInv
  <2>1. ASSUME NEW i \in DOMAIN sse', sse'[i].msg = h PROVE FALSE
    <3>1. /\ sse[i + 1] \in Frames /\ sse[i + 1].type = "event" /\ sse[i + 1].msg = h
          /\ i + 1 \in DOMAIN sse
      <4>1. i + 1 \in DOMAIN sse /\ sse'[i] = sse[i + 1] /\ sse'[i].type = "event"
        BY <1>3, <1>4
      <4>2. \A k \in DOMAIN sse : sse[k] \in Frames
        BY <1>2
      <4> QED BY Zenon, <2>1, <4>1, <4>2
    <3>2. sse[i + 1] = sse[1] /\ sse[1].type = "event" /\ IsDM(sse[1].msg)
      BY Zenon, <1>1, <1>4, <3>1, FrameOf
    <3>3. i + 1 = 1
      BY Zenon, <1>4, <3>1, <3>2 DEF OnceInv
    <3> QED BY <1>4, <3>3
  <2> QED BY Zenon, <2>1 DEF Events
<1> HIDE DEF h
<1>6. /\ (Streaming' <=> Streaming) /\ (Told' <=> Told) /\ (Clean' <=> Clean)
      /\ handler \in {"told", "live"} /\ Streaming /\ at \in Topics
  BY Zenon, <1>1, <1>3, TypeIs DEF StreamInv, Streaming, Told, Clean
<1>7. h \in Range(saved) /\ log \subseteq log' /\ log' \subseteq log \cup {h}
  BY Zenon, <1>1, <1>3 DEF StoreInv
<1>8. ASSUME NEW p \in Peers
      PROVE  /\ Thread(p) \in Seq(Messages)
             /\ IsDM(h) /\ p = h.to => dms'[p] = Append(Thread(p), h) /\ Thread(p)' = Append(Thread(p), h)
             /\ ~(IsDM(h) /\ p = h.to) => dms'[p] = dms[p] /\ Thread(p)' = Thread(p)
  <2>1. dms \in [Peers -> {Absent} \cup Seq(Messages)]
    BY TypeIs
  <2>2. Thread(p) \in Seq(Messages)
    BY Zenon, ThreadOf
  <2>3. Append(Thread(p), h) \in Seq(Messages) /\ Append(Thread(p), h) # Absent
    <3>1. h \in Messages
      BY Zenon, <1>3
    <3> HIDE DEF PageInv
    <3> QED BY <2>2, <3>1, RangeAppend, NoThread
  <2>4. CASE IsDM(h) /\ p = h.to
    <3>1. dms'[p] = Append(Thread(p), h)
      BY Zenon, <1>1, <2>1, <2>4
    <3> QED BY Zenon, <2>2, <2>3, <2>4, <3>1 DEF Thread
  <2>5. CASE ~(IsDM(h) /\ p = h.to)
    <3>1. dms'[p] = dms[p]
      BY <1>1, <2>1, <2>5
    <3> QED BY <2>2, <2>5, <3>1 DEF Thread
  <2> QED BY <2>4, <2>5
<1>9. TypeOK'
  <2>1. dms' \in [Peers -> {Absent} \cup Seq(Messages)]
    <3>1. dms \in [Peers -> {Absent} \cup Seq(Messages)]
      BY TypeIs
    <3>2. CASE IsDM(h)
      <4>1. h.to \in Peers /\ Append(Thread(h.to), h) \in Seq(Messages)
        BY <1>3, <1>8, <3>2, RangeAppend DEF IsDM
      <4> QED BY Zenon, <1>1, <3>1, <3>2, <4>1
    <3> QED BY <1>1, <3>1, <3>2
  <2>2. log' \subseteq Messages
    BY Zenon, <1>3, <1>7, TypeIs
  <2> QED BY Zenon, <1>1, <1>3, <2>1, <2>2 DEF TypeOK, Frames
<1>10. StreamInv'
  BY <1>1, <1>3, <1>6 DEF StreamInv
<1>11. StoreInv'
  BY Zenon, <1>1, <1>3 DEF StoreInv, History
<1>12. SwitchInv'
  BY Zenon, <1>1, <1>3 DEF SwitchInv, Starting, YouPending
<1>13. TopicInv'
  BY Zenon, <1>1, <1>3, <1>6 DEF TopicInv, At
<1>14. Complete'
  <2> SUFFICES ASSUME Clean', Streaming', NEW x \in History(at)'
               PROVE  x \in unsent' \cup Range(sub') \cup Events' \/ (~YouPending' /\ Showing(x)')
    BY DEF Complete
  <2>1. x \in History(at) /\ (Showing(x) => Showing(x)') /\ x.to = at /\ (x \in log' => Showing(x)')
    BY Zenon, <1>1, <1>7 DEF History, Showing, At
  <2>2. x \in unsent \cup Range(sub) \cup Events \/ (~YouPending /\ Showing(x))
    BY <1>6, <2>1 DEF Complete
  <2>3. x = h => x \in log'
    BY <1>1, <1>6, <2>1 DEF IsDM
  <2> QED BY Zenon, <1>1, <1>3, <2>1, <2>2, <2>3
<1>15. Pure'
  <2> SUFFICES ASSUME Clean', ~late' PROVE Pure'
    BY DEF Pure
  <2>1. ~At({"moved"})' => \A m \in Events' : IsDM(m) \/ m.to = at
    BY Zenon, <1>1, <1>3, <1>6 DEF Pure, At
  <2>2. ASSUME dmWith = Absent, ~At({"post", "moved"})' PROVE log' \subseteq History(at)
    <3>1. log \subseteq History(at) /\ ~At({"moved"})
      BY Zenon, <1>1, <1>3, <1>6, <2>2 DEF Pure, At
    <3>2. IsDM(h) \/ h.to = at
      BY Zenon, <1>1, <1>3, <1>6, <3>1 DEF Pure
    <3>3. CASE IsDM(h)
      <4>1. dmWith # h.to
        BY <2>2, <3>3 DEF IsDM, Places
      <4> QED BY <1>1, <3>1, <3>3, <4>1
    <3>4. CASE ~IsDM(h)
      BY <1>7, <3>1, <3>2, <3>4 DEF History
    <3> QED BY <3>3, <3>4
  <2> QED BY Zenon, <1>1, <2>1, <2>2 DEF Pure, History, IsDM
<1>16. SendInv'
  BY <1>1, <1>6, SendFrame
<1>17. OnceInv'
  <2>1. ASSUME NEW i \in DOMAIN sse', NEW j \in DOMAIN sse',
               sse'[i].type = "event", sse'[j] = sse'[i], IsDM(sse'[i].msg)
        PROVE  i = j
    <3>1. i + 1 = j + 1 /\ i \in Int /\ j \in Int
      BY Zenon, <1>4, <2>1 DEF OnceInv
    <3> QED BY <3>1
  <2> QED BY Zenon, <1>1, <1>3, <2>1 DEF OnceInv, IsDM
<1>18. DmInv'
  <2> SUFFICES ASSUME ~crossed, ~failed, Told PROVE DmInv'
    BY Zenon, <1>1, <1>6 DEF DmInv
  <2>1. DMsOnTheirWay = DMsOnTheirWay' \cup {x \in {h} : IsDM(x)}
    BY Zenon, <1>1, <1>3 DEF DMsOnTheirWay, IsDM
  <2>2. IsDM(h) => h \notin DMsOnTheirWay'
    BY <1>1, <1>5 DEF DMsOnTheirWay
  <2>3. CASE load = <<>>
    <3>1. ASSUME NEW p \in Peers
          PROVE  IsInjective(Thread(p)') /\ Range(Thread(p)') = History(p) \ DMsOnTheirWay'
      <4>1. /\ IsInjective(Thread(p)) /\ Range(Thread(p)) = History(p) \ DMsOnTheirWay
            /\ Thread(p) \in Seq(Messages)
        BY Zenon, <1>8, <2>3 DEF DmInv
      <4>2. CASE IsDM(h) /\ p = h.to
        <5>1. h \in DMsOnTheirWay /\ h \notin Range(Thread(p)) /\ h \in History(p)
          BY Zenon, <1>7, <2>1, <4>1, <4>2 DEF History
        <5>2. IsInjective(Append(Thread(p), h)) /\ Range(Append(Thread(p), h)) = Range(Thread(p)) \cup {h}
          <6>1. Thread(p) \in Seq(Messages) /\ h \in Messages
            BY Zenon, <1>3, <4>1
          <6> HIDE DEF PageInv
          <6>2. IsInjective(Append(Thread(p), h))
            BY <4>1, <5>1, <6>1, InjectiveAppend
          <6> QED BY <6>1, <6>2, RangeAppend
        <5>3. Thread(p)' = Append(Thread(p), h)
          BY <1>8, <4>2
        <5>4. Range(Thread(p)) \cup {h} = History(p) \ DMsOnTheirWay'
          BY <2>1, <2>2, <4>1, <4>2, <5>1
        <5> QED BY <5>2, <5>3, <5>4
      <4>3. CASE ~(IsDM(h) /\ p = h.to)
        <5>1. Thread(p)' = Thread(p)
          BY <1>8, <4>3
        <5>2. ~IsDM(h) \/ h \notin History(p)
          BY <4>3 DEF History
        <5>3. History(p) \ DMsOnTheirWay' = History(p) \ DMsOnTheirWay
          BY <2>1, <5>2
        <5> QED BY <4>1, <5>1, <5>3
      <4> QED BY <4>2, <4>3
    <3>2. \A p \in Peers : History(p)' = History(p)
      BY <1>1 DEF History
    <3> QED BY Zenon, <1>1, <2>3, <3>1, <3>2 DEF DmInv
  <2>4. CASE load # <<>>
    BY Zenon, <1>1, <2>1, <2>4 DEF DmInv, IsDM
  <2> QED BY <2>3, <2>4
<1> QED BY <1>9, <1>10, <1>11, <1>12, <1>13, <1>14, <1>15, <1>16, <1>17, <1>18

LEMMA ServeDMsInv ==
  ASSUME PageInv, NEW i \in DOMAIN load, ServeDMs(i)
  PROVE  PageInv'
<1> USE DEF PageInv
<1> DEFINE ms == {m \in Range(saved) : IsDM(m)}
<1>1. /\ load' = Answered(load, i, ms)
      /\ UNCHANGED <<lurker, at, saved, unsent, handler, old, opened, sub, sse>>
      /\ UNCHANGED <<topic, dmWith, log, dms, switch, send, inputs, muddled, late, crossed, failed>>
  BY Zenon DEF ServeDMs, hub, strm, page, past
<1>2. ms \in SUBSET Messages /\ load \in Seq(LoadCalls)
  BY TypeIs
<1>3. /\ load' \in Seq(LoadCalls) /\ Len(load') = Len(load) /\ DOMAIN load' = DOMAIN load
      /\ load'[i].step = "loaded" /\ load'[i].got = ms
  BY Zenon, <1>1, <1>2, AnsweredLoad
<1>4. TypeOK'
  BY Zenon, <1>1, <1>3 DEF TypeOK, LoadCalls
<1>5. /\ StreamInv' /\ StoreInv' /\ SwitchInv' /\ TopicInv' /\ Complete' /\ Pure' /\ SendInv'
      /\ OnceInv'
  <2>1. Clean' => Clean
    BY Zenon, <1>1 DEF Clean
  <2> QED BY Zenon, <1>1, <2>1, StreamFrame, StoreFrame, SwitchFrame, TopicFrame, CompleteFrame, PureFrame,
             SendFrame, OnceFrame
<1>6. DmInv'
  <2> SUFFICES ASSUME ~crossed, ~failed, Told
               PROVE  /\ load' # <<>> /\ Len(load') = 1 /\ DMsOnTheirWay' = {}
                      /\ load'[1].got = ms
    <3>1. (Told' <=> Told) /\ {m \in Range(saved') : IsDM(m)} = ms
      BY Zenon, <1>1, SseSame DEF Told, Streaming
    <3> QED BY Zenon, <1>1, <3>1 DEF DmInv, IsDM
  <2>1. load # <<>>
    BY <1>2, NotEmpty
  <2>2. Len(load) = 1 /\ DMsOnTheirWay = {}
    BY Zenon, <2>1 DEF DmInv
  <2>3. i = 1 /\ load' # <<>>
    BY <1>2, <1>3, <2>2, NotEmpty
  <2>4. DMsOnTheirWay' = DMsOnTheirWay
    BY <1>1, SseSame DEF DMsOnTheirWay, IsDM
  <2> QED BY <1>3, <2>2, <2>3, <2>4
<1> QED BY <1>4, <1>5, <1>6

(* The threads that loadDMs builds are the messages of its answer.         *)
LEMMA RebuiltIs ==
  ASSUME NEW ms \in SUBSET Messages, NEW d \in Rebuilt(ms)
  PROVE  /\ d \in [Peers -> {Absent} \cup Seq(Messages)]
         /\ \A p \in Peers : \/ d[p] = Absent /\ {m \in ms : m.to = p} = {}
                             \/ /\ d[p] \in Seq(Messages) /\ d[p] # Absent /\ IsInjective(d[p])
                                /\ Range(d[p]) = {m \in ms : m.to = p}
<1>1. d \in [Peers -> AllRows(ms) \cup {Absent}]
  BY Zenon DEF Rebuilt
<1>2. ASSUME NEW p \in Peers
      PROVE  \/ d[p] = Absent /\ {m \in ms : m.to = p} = {}
             \/ /\ d[p] \in Seq(Messages) /\ d[p] # Absent /\ IsInjective(d[p])
                /\ Range(d[p]) = {m \in ms : m.to = p}
  <2> DEFINE ps == {m \in ms : m.to = p}
  <2>1. IF \E m \in ms : m.to = p THEN d[p] \in Rows(ps) ELSE d[p] = Absent
    BY Zenon DEF Rebuilt, RowsWith
  <2>2. CASE \E m \in ms : m.to = p
    <3>1. ps \in SUBSET Messages /\ d[p] \in Rows(ps)
      BY <2>1, <2>2
    <3> HIDE DEF ps
    <3>2. d[p] \in Seq(Messages) /\ Range(d[p]) = ps /\ IsInjective(d[p])
      BY Zenon, <3>1, RowsOf
    <3> QED BY Zenon, <3>2 DEF ps
  <2>3. CASE ~\E m \in ms : m.to = p
    BY <2>1, <2>3
  <2> QED BY <2>2, <2>3
<1> QED BY Zenon, <1>1, <1>2

LEMMA loadDMsInv ==
  ASSUME PageInv, NEW i \in DOMAIN load, loadDMs(i)
  PROVE  PageInv'
<1> USE DEF PageInv
<1>1. /\ load[i].step = "loaded" /\ dms' \in Rebuilt(load[i].got) /\ load' = Done(load, i)
      /\ log' = IF dmWith # Absent /\ dms'[dmWith] # Absent THEN Range(dms'[dmWith]) ELSE log
      /\ crossed' = (crossed \/ DMsOnTheirWay # {})
      /\ UNCHANGED <<lurker, at, saved, unsent, handler, old, opened, sub, sse, topic, dmWith>>
      /\ UNCHANGED <<switch, send, inputs, muddled, late, failed>>
  BY Zenon DEF loadDMs, hub, strm
<1>2. load \in Seq(LoadCalls) /\ dmWith \in Peers \cup {Absent} /\ log \subseteq Messages
  BY TypeIs
<1>3. load[i].got \in SUBSET Messages
  <2>1. load[i] \in LoadCalls
    BY <1>2
  <2> QED BY Zenon, <2>1 DEF LoadCalls
<1> DEFINE ms == load[i].got
<1>4. /\ dms' \in [Peers -> {Absent} \cup Seq(Messages)]
      /\ \A p \in Peers : \/ dms'[p] = Absent /\ {m \in ms : m.to = p} = {}
                          \/ /\ dms'[p] \in Seq(Messages) /\ dms'[p] # Absent /\ IsInjective(dms'[p])
                             /\ Range(dms'[p]) = {m \in ms : m.to = p}
  BY Zenon, <1>1, <1>3, RebuiltIs
<1>5. /\ load' \in Seq(LoadCalls) /\ Len(load) >= 1 /\ (Len(load) = 1 => load' = <<>> /\ i = 1)
      /\ load # <<>>
  BY Zenon, <1>1, <1>2, DoneIs
<1>6. log' \subseteq Messages /\ (dmWith = Absent => log' = log)
  BY Zenon, <1>1, <1>2, <1>3, <1>4
<1>7. TypeOK'
  <2>1. crossed' \in BOOLEAN
    BY <1>1, Zenon, TypeIs
  <2>2. {muddled', late', crossed', failed'} \subseteq BOOLEAN
    BY <1>1, <2>1, Zenon, TypeIs
  <2> QED BY Zenon, <1>1, <1>4, <1>5, <1>6, <2>2 DEF TypeOK, LoadCalls
<1>8. /\ Events' = Events /\ (YouPending' <=> YouPending) /\ (Streaming' <=> Streaming)
      /\ (Told' <=> Told) /\ (Clean' <=> Clean)
  BY Zenon, <1>1, SseSame DEF Streaming, Told, Clean
<1>9. StreamInv' /\ StoreInv' /\ SwitchInv' /\ TopicInv' /\ SendInv' /\ OnceInv'
  BY Zenon, <1>1, <1>8, StreamFrame, StoreFrame, SwitchFrame, TopicFrame, SendFrame, OnceFrame
<1>10. Complete'
  BY Zenon, <1>1, <1>6, <1>8 DEF Complete, History, Showing, At
<1>11. Pure'
  BY Zenon, <1>1, <1>6, <1>8 DEF Pure, History, At, IsDM
<1>12. DmInv'
  <2> SUFFICES ASSUME ~crossed', ~failed', Told' PROVE DmInv'
    BY Zenon DEF DmInv
  <2>1. ~crossed /\ DMsOnTheirWay = {} /\ Told /\ ~failed
    BY Zenon, <1>1, <1>8
  <2>2. Len(load) = 1 /\ (load[1].step = "loaded" => load[1].got = {m \in Range(saved) : IsDM(m)})
    BY Zenon, <1>5, <2>1 DEF DmInv
  <2>3. load' = <<>> /\ ms = {m \in Range(saved) : IsDM(m)}
    BY Zenon, <1>1, <1>5, <2>2
  <2> HIDE DEF ms
  <2>4. DMsOnTheirWay' = {}
    BY Zenon, <1>1, <1>8, <2>1 DEF DMsOnTheirWay, IsDM
  <2>5. ASSUME NEW p \in Peers
        PROVE  IsInjective(Thread(p)') /\ Range(Thread(p)') = History(p)'
    <3>1. {m \in ms : m.to = p} = History(p)'
      BY Zenon, <1>1, <2>3 DEF History, IsDM
    <3>2. CASE dms'[p] = Absent /\ {m \in ms : m.to = p} = {}
      <4>1. Thread(p)' = <<>>
        BY Zenon, <3>2 DEF Thread
      <4> QED BY <3>1, <3>2, <4>1 DEF IsInjective, Range
    <3>3. CASE dms'[p] # Absent /\ IsInjective(dms'[p]) /\ Range(dms'[p]) = {m \in ms : m.to = p}
      <4>1. Thread(p)' = dms'[p]
        BY <3>3 DEF Thread
      <4> QED BY Zenon, <3>1, <3>3, <4>1
    <3> QED BY Zenon, <1>4, <3>2, <3>3
  <2> QED BY Zenon, <2>3, <2>4, <2>5 DEF DmInv
<1> QED BY <1>7, <1>9, <1>10, <1>11, <1>12

LEMMA LoadFailsInv ==
  ASSUME PageInv, NEW i \in DOMAIN load, LoadFails(i)
  PROVE  PageInv'
<1> USE DEF PageInv
<1>1. /\ load' = Done(load, i) /\ failed' = TRUE
      /\ inputs < MaxInputs /\ inputs' = inputs + 1
      /\ UNCHANGED <<lurker, at, saved, unsent, handler, old, opened, sub, sse>>
      /\ UNCHANGED <<topic, dmWith, log, dms, switch, send, muddled, late, crossed>>
  BY DEF LoadFails, Input, hub, strm, page
<1>2. load' \in Seq(LoadCalls)
  <2>1. load \in Seq(LoadCalls)
    BY TypeIs
  <2> QED BY <1>1, <2>1, DoneOf
<1>3. TypeOK'
  <2>1. {muddled', late', crossed', failed'} \subseteq BOOLEAN
    BY <1>1, Zenon, TypeIs
  <2>2. inputs' \in 0..MaxInputs
    BY Zenon, <1>1, InputOf
  <2> QED BY Zenon, <1>1, <1>2, <2>1, <2>2 DEF TypeOK, LoadCalls
<1>4. ~Clean'
  BY Zenon, <1>1 DEF Clean
<1>5. StreamInv' /\ StoreInv' /\ SwitchInv' /\ OnceInv' /\ SendInv'
  BY <1>1, <1>4, StreamFrame, StoreFrame, SwitchFrame, OnceFrame, SendFrame
<1>6. TopicInv' /\ Complete' /\ Pure' /\ DmInv'
  BY Zenon, <1>1, <1>4 DEF TopicInv, Complete, Pure, DmInv
<1> QED BY <1>3, <1>5, <1>6

LEMMA switchTopicInv ==
  ASSUME PageInv, NEW t \in Topics, switchTopic(t)
  PROVE  PageInv'
<1> USE DEF PageInv
<1> DEFINE c == [step |-> "post", name |-> t, got |-> {}]
<1>1. /\ inputs < MaxInputs /\ inputs' = inputs + 1 /\ dmWith' = Absent /\ switch' = Append(switch, c)
      /\ muddled' = (muddled \/ switch # <<>> \/ Starting) /\ Stir
      /\ UNCHANGED <<lurker, at, saved, unsent, handler, old, opened, sub, sse>>
      /\ UNCHANGED <<topic, log, dms, load, late, crossed, failed>>
  BY DEF switchTopic, Input, hub, strm
<1>2. switch \in Seq(SwitchCalls) /\ send \in Seq(Sends)
  BY TypeIs
<1>3. c \in SwitchCalls /\ c.step = "post"
  BY Zenon DEF SwitchCalls
<1> HIDE DEF c
<1>4. /\ switch' \in Seq(SwitchCalls) /\ Len(switch') = Len(switch) + 1 /\ switch' # <<>>
      /\ switch'[Len(switch) + 1] = c
      /\ \A i \in DOMAIN switch' : (i \in DOMAIN switch /\ switch'[i] = switch[i]) \/ switch'[i] = c
  <2>1. switch' = Append(switch, c) /\ switch \in Seq(SwitchCalls) /\ c \in SwitchCalls
    BY Zenon, <1>1, <1>2, <1>3
  <2> HIDE DEF PageInv
  <2> QED BY <2>1, AppendIs
<1>5. send' \in Seq(Sends) /\ \A i \in DOMAIN send' : ~send'[i].calm
  BY Zenon, <1>1, <1>2, StirOf
<1>6. /\ Events' = Events /\ (YouPending' <=> YouPending) /\ (Streaming' <=> Streaming)
      /\ (Told' <=> Told) /\ (Starting' <=> Starting)
  BY <1>1, SseSame DEF Streaming, Told, Starting
<1>7. Clean' => /\ Clean /\ switch = <<>> /\ Len(switch') = 1 /\ switch'[1].step = "post"
                /\ ~Starting
  <2>1. Clean' => Clean /\ switch = <<>> /\ ~Starting
    BY Zenon, <1>1 DEF Clean
  <2>2. switch = <<>> => Len(switch) = 0
    OBVIOUS
  <2> QED BY <1>3, <1>4, <2>1, <2>2
<1>8. TypeOK'
  <2>1. muddled' \in BOOLEAN
    BY <1>1, Zenon, TypeIs DEF Starting
  <2>2. {muddled', late', crossed', failed'} \subseteq BOOLEAN
    BY <1>1, <2>1, Zenon, TypeIs
  <2>3. inputs' \in 0..MaxInputs
    BY Zenon, <1>1, InputOf
  <2> QED BY Zenon, <1>1, <1>4, <1>5, <2>2, <2>3 DEF TypeOK, SwitchCalls, Sends
<1>9. StreamInv' /\ OnceInv' /\ DmInv'
  BY Zenon, <1>1, StreamFrame, OnceFrame, DmFrame
<1>10. StoreInv'
  <2>1. \A i \in DOMAIN switch' : switch'[i].step = "loaded" =>
          i \in DOMAIN switch /\ switch'[i] = switch[i]
    BY <1>3, <1>4
  <2>2. \A i \in DOMAIN switch' : switch'[i].step = "loaded" =>
          switch'[i].got \subseteq History(switch'[i].name)
    BY Zenon, <2>1 DEF StoreInv
  <2>3. \A x : History(x)' = History(x)
    BY Zenon, <1>1 DEF History
  <2> QED BY Zenon, <1>1, <1>6, <2>2, <2>3 DEF StoreInv
<1>11. SwitchInv'
  <2>1. switch = <<>> => Len(switch) = 0
    OBVIOUS
  <2>2. muddled' \/ Len(switch') <= 1
    <3>1. muddled' \/ switch = <<>>
      BY Zenon, <1>1
    <3> QED BY <1>4, <2>1, <3>1
  <2> QED BY Zenon, <1>1, <1>6, <2>2 DEF SwitchInv
<1>12. SendInv'
  BY <1>5 DEF SendInv
<1>13. TopicInv'
  BY Zenon, <1>1, <1>6, <1>7 DEF TopicInv, At
<1>14. Complete'
  <2> SUFFICES ASSUME Clean', Streaming' PROVE ~YouPending' /\ \A m : Showing(m)'
    BY DEF Complete
  <2> QED BY Zenon, <1>4, <1>6, <1>7 DEF Showing, At, Starting, YouPending
<1>15. Pure'
  BY Zenon, <1>1, <1>4, <1>6, <1>7 DEF Pure, At, IsDM
<1> QED BY Zenon, <1>8, <1>9, <1>10, <1>11, <1>12, <1>13, <1>14, <1>15

LEMMA ServeTopicInv ==
  ASSUME PageInv, NEW i \in DOMAIN switch, ServeTopic(i)
  PROVE  PageInv'
<1> USE DEF PageInv
<1>1. /\ at' = (IF Refused THEN at ELSE switch[i].name) /\ failed' = (failed \/ Refused)
      /\ switch' = [switch EXCEPT ![i].step = "moved"]
      /\ UNCHANGED <<lurker, saved, unsent, handler, old, opened, sub, sse>>
      /\ UNCHANGED <<topic, dmWith, log, dms, load, send, inputs, muddled, late, crossed>>
  BY DEF ServeTopic, strm, page
<1>2. switch \in Seq(SwitchCalls) /\ switch # <<>> /\ switch[i].name \in Topics
  <2>1. switch \in Seq(SwitchCalls)
    BY TypeIs
  <2>2. switch # <<>> /\ switch[i] \in SwitchCalls
    BY <2>1, NotEmpty
  <2> QED BY <2>1, <2>2 DEF SwitchCalls
<1>3. /\ switch' \in Seq(SwitchCalls) /\ Len(switch') = Len(switch) /\ DOMAIN switch' = DOMAIN switch
      /\ switch'[i].step = "moved" /\ switch'[i].name = switch[i].name
      /\ \A j \in DOMAIN switch : j # i => switch'[j] = switch[j]
  BY Zenon, <1>1, <1>2, Stepped
<1>4. /\ Events' = Events /\ (YouPending' <=> YouPending) /\ (Streaming' <=> Streaming)
      /\ (Told' <=> Told) /\ (Starting' <=> Starting)
  BY <1>1, SseSame DEF Streaming, Told, Starting
<1>5. switch' # <<>>
  BY Zenon, <1>3, NotEmpty
<1>6. Clean' => /\ Clean /\ at' = switch[i].name /\ i = 1 /\ ~YouPending
  BY Zenon, <1>1, <1>2, SwitchAlone DEF Clean
<1>7. at' \in Topics \cup {Absent} /\ (at \in Topics => at' \in Topics)
  BY <1>1, <1>2, TypeIs
<1>8. TypeOK'
  <2>1. failed' \in BOOLEAN
    BY <1>1, Zenon, TypeIs DEF Refused
  <2>2. {muddled', late', crossed', failed'} \subseteq BOOLEAN
    BY <1>1, <2>1, Zenon, TypeIs
  <2> QED BY Zenon, <1>1, <1>3, <1>7, <2>2 DEF TypeOK, SwitchCalls
<1>9. StreamInv'
  BY <1>1, <1>7 DEF StreamInv
<1>10. StoreInv'
  <2>1. \A j \in DOMAIN switch' : switch'[j].step = "loaded" =>
          j \in DOMAIN switch /\ switch'[j] = switch[j]
    BY Zenon, <1>3
  <2> QED BY <1>1, <1>4, <2>1 DEF StoreInv, History
<1>11. SwitchInv'
  BY <1>1, <1>2, <1>3, <1>4 DEF SwitchInv
<1>12. TopicInv'
  BY <1>1, <1>3, <1>4, <1>6 DEF TopicInv, At
<1>13. Complete'
  <2> SUFFICES ASSUME Clean', Streaming' PROVE ~YouPending' /\ \A m : Showing(m)'
    BY DEF Complete
  <2> QED BY Zenon, <1>3, <1>4, <1>5, <1>6 DEF Showing, At
<1>14. Pure'
  BY Zenon, <1>3, <1>5, <1>6 DEF Pure, At
<1>15. SendInv'
  BY <1>1, <1>2 DEF SendInv
<1>16. OnceInv' /\ DmInv'
  BY Zenon, <1>1, OnceFrame, DmFrame
<1> QED BY <1>8, <1>9, <1>10, <1>11, <1>12, <1>13, <1>14, <1>15, <1>16

LEMMA MovedInv ==
  ASSUME PageInv, NEW i \in DOMAIN switch, Moved(i)
  PROVE  PageInv'
<1> USE DEF PageInv
<1>1. /\ switch[i].step = "moved" /\ topic' = switch[i].name /\ log' = {}
      /\ switch' = [switch EXCEPT ![i].step = "fetch"] /\ late' = (late \/ sse # <<>>)
      /\ UNCHANGED <<lurker, at, saved, unsent, handler, old, opened, sub, sse>>
      /\ UNCHANGED <<dmWith, dms, load, send, inputs, muddled, crossed, failed>>
  BY DEF Moved, hub, strm
<1>2. switch \in Seq(SwitchCalls) /\ switch # <<>> /\ switch[i].name \in Topics
  <2>1. switch \in Seq(SwitchCalls)
    BY TypeIs
  <2>2. switch # <<>> /\ switch[i] \in SwitchCalls
    BY <2>1, NotEmpty
  <2> QED BY <2>1, <2>2 DEF SwitchCalls
<1>3. /\ switch' \in Seq(SwitchCalls) /\ Len(switch') = Len(switch) /\ DOMAIN switch' = DOMAIN switch
      /\ switch'[i].step = "fetch" /\ switch'[i].name = switch[i].name
      /\ \A j \in DOMAIN switch : j # i => switch'[j] = switch[j]
  BY Zenon, <1>1, <1>2, Stepped
<1>4. /\ Events' = Events /\ (YouPending' <=> YouPending) /\ (Streaming' <=> Streaming)
      /\ (Told' <=> Told) /\ (Starting' <=> Starting) /\ (Clean' <=> Clean)
  BY <1>1, SseSame DEF Streaming, Told, Starting, Clean
<1>5. switch' # <<>>
  BY <1>3, NotEmpty
<1>6. Clean => i = 1 /\ ~YouPending /\ Told /\ switch[1].name = at
  <2>1. Clean => i = 1 /\ ~YouPending /\ Told
    BY <1>2, SwitchAlone DEF Clean
  <2> QED BY <1>1, <1>2, <2>1 DEF TopicInv, At
<1>7. TypeOK'
  <2>1. late' \in BOOLEAN
    BY <1>1, Zenon, TypeIs
  <2>2. {muddled', late', crossed', failed'} \subseteq BOOLEAN
    BY <1>1, <2>1, Zenon, TypeIs
  <2>3. log' \subseteq Messages
    BY <1>1
  <2> QED BY Zenon, <1>1, <1>2, <1>3, <2>2, <2>3 DEF TypeOK, SwitchCalls
<1>8. StreamInv' /\ OnceInv' /\ DmInv'
  BY <1>1, StreamFrame, OnceFrame, DmFrame
<1>9. StoreInv'
  <2>1. \A j \in DOMAIN switch' : switch'[j].step = "loaded" =>
          j \in DOMAIN switch /\ switch'[j] = switch[j]
    BY <1>3
  <2> QED BY Zenon, <1>1, <1>4, <2>1 DEF StoreInv, History
<1>10. SwitchInv'
  BY <1>1, <1>2, <1>3, <1>4 DEF SwitchInv
<1>11. TopicInv'
  BY Zenon, <1>1, <1>3, <1>4, <1>6 DEF TopicInv, At
<1>12. Complete'
  <2> SUFFICES ASSUME Clean', Streaming' PROVE ~YouPending' /\ \A m : Showing(m)'
    BY DEF Complete
  <2> QED BY Zenon, <1>3, <1>4, <1>5, <1>6 DEF Showing, At
<1>13. Pure'
  <2> SUFFICES ASSUME ~late' PROVE Events' = {} /\ log' = {}
    BY DEF Pure
  <2>1. sse = <<>>
    BY Zenon, <1>1
  <2> QED BY <1>1, <1>4, <2>1 DEF Events
<1>14. SendInv'
  BY <1>1, <1>2 DEF SendInv
<1> QED BY <1>7, <1>8, <1>9, <1>10, <1>11, <1>12, <1>13, <1>14

LEMMA ServeHistoryInv ==
  ASSUME PageInv, NEW i \in DOMAIN switch, ServeHistory(i)
  PROVE  PageInv'
<1> USE DEF PageInv
<1> DEFINE ms == History(switch[i].name)
<1>1. /\ switch[i].step = "fetch" /\ switch' = Answered(switch, i, ms)
      /\ UNCHANGED <<lurker, at, saved, unsent, handler, old, opened, sub, sse>>
      /\ UNCHANGED <<topic, dmWith, log, dms, load, send, inputs, muddled, late, crossed, failed>>
  BY Zenon DEF ServeHistory, hub, strm, page, past
<1>2. switch \in Seq(SwitchCalls) /\ switch # <<>> /\ ms \in SUBSET Messages
  <2>1. switch \in Seq(SwitchCalls) /\ Range(saved) \subseteq Messages
    BY TypeIs
  <2> QED BY Zenon, <2>1, NotEmpty DEF History
<1> HIDE DEF ms
<1>3. /\ switch' \in Seq(SwitchCalls) /\ Len(switch') = Len(switch) /\ DOMAIN switch' = DOMAIN switch
      /\ switch'[i].step = "loaded" /\ switch'[i].name = switch[i].name /\ switch'[i].got = ms
      /\ \A j \in DOMAIN switch : j # i => switch'[j] = switch[j]
  BY Zenon, <1>1, <1>2, AnsweredSwitch
<1>4. /\ Events' = Events /\ (YouPending' <=> YouPending) /\ (Streaming' <=> Streaming)
      /\ (Told' <=> Told) /\ (Starting' <=> Starting) /\ (Clean' <=> Clean)
  BY Zenon, <1>1, SseSame DEF Streaming, Told, Starting, Clean
<1>5. switch' # <<>>
  BY <1>3, NotEmpty
<1>6. Clean => /\ i = 1 /\ ~YouPending /\ Told /\ switch[1].name = at /\ topic = at
               /\ ms = History(at)
  <2>1. Clean => i = 1 /\ ~YouPending /\ Told
    BY <1>2, SwitchAlone DEF Clean
  <2>2. Clean => switch[1].name = at /\ topic = at
    BY Zenon, <1>1, <1>2, <2>1 DEF TopicInv, At
  <2> QED BY <2>1, <2>2 DEF ms
<1>7. TypeOK'
  BY Zenon, <1>1, <1>3 DEF TypeOK, SwitchCalls
<1>8. StreamInv' /\ OnceInv' /\ DmInv'
  BY Zenon, <1>1, StreamFrame, OnceFrame, DmFrame
<1>9. StoreInv'
  <2>1. ASSUME NEW j \in DOMAIN switch', switch'[j].step = "loaded"
        PROVE  switch'[j].got \subseteq {m \in Range(saved) : m.to = switch'[j].name}
    <3>1. CASE j = i
      BY Zenon, <1>3, <3>1 DEF ms, History
    <3>2. CASE j # i
      BY Zenon, <1>3, <2>1, <3>2 DEF StoreInv, History
    <3> QED BY Zenon, <3>1, <3>2
  <2> QED BY Zenon, <1>1, <1>4, <2>1 DEF StoreInv, History
<1>10. SwitchInv'
  BY Zenon, <1>1, <1>2, <1>3, <1>4 DEF SwitchInv
<1>11. TopicInv'
  BY Zenon, <1>1, <1>3, <1>4, <1>6 DEF TopicInv, At
<1>12. Complete'
  <2> SUFFICES ASSUME Clean', Streaming', NEW m \in History(at)'
               PROVE  ~YouPending' /\ Showing(m)'
    BY DEF Complete
  <2>1. m \in History(at)
    BY Zenon, <1>1 DEF History
  <2> QED BY Zenon, <1>3, <1>4, <1>5, <1>6, <2>1 DEF Showing, At
<1>13. Pure'
  BY Zenon, <1>1, <1>4, <1>6 DEF Pure, At, IsDM, History
<1>14. SendInv'
  BY <1>1, <1>2 DEF SendInv
<1> QED BY <1>7, <1>8, <1>9, <1>10, <1>11, <1>12, <1>13, <1>14

(* A switch that is over leaves none that overlaps it.                     *)
LEMMA SwitchDone ==
  ASSUME PageInv, NEW i \in DOMAIN switch, switch' = Done(switch, i),
         UNCHANGED <<at, saved, sub, sse, handler, muddled, send>>
  PROVE  /\ switch' \in Seq(SwitchCalls) /\ StoreInv' /\ SwitchInv' /\ SendInv'
         /\ ~muddled => switch' = <<>> /\ i = 1 /\ switch # <<>> /\ Told /\ ~YouPending
<1> USE DEF PageInv
<1>1. switch \in Seq(SwitchCalls) /\ switch # <<>>
  <2>1. switch \in Seq(SwitchCalls)
    BY TypeIs
  <2> QED BY <2>1, NotEmpty
<1>2. /\ switch' \in Seq(SwitchCalls) /\ Len(switch') = Len(switch) - 1 /\ Len(switch) \in Nat
      /\ \A j \in DOMAIN switch' : \E k \in DOMAIN switch : switch'[j] = switch[k]
      /\ Len(switch) = 1 => switch' = <<>> /\ i = 1
  BY <1>1, DoneOf
<1>3. ~muddled => switch' = <<>> /\ i = 1 /\ Told /\ ~YouPending
  BY <1>1, <1>2, SwitchAlone
<1>4. StoreInv'
  <2>1. ASSUME NEW j \in DOMAIN switch', switch'[j].step = "loaded"
        PROVE  switch'[j].got \subseteq History(switch'[j].name)
    BY Zenon, <1>2, <2>1 DEF StoreInv
  <2>2. \A t : History(t)' = History(t)
    BY Zenon DEF History
  <2> QED BY Zenon, <2>1, <2>2, SseSame DEF StoreInv
<1>5. SwitchInv'
  <2>1. Starting' <=> Starting
    BY DEF Starting
  <2>2. muddled \/ Len(switch') <= 1
    BY <1>2 DEF SwitchInv
  <2> QED BY Zenon, <1>1, <2>1, <2>2 DEF SwitchInv
<1>6. SendInv'
  BY <1>1 DEF SendInv
<1> QED BY <1>1, <1>2, <1>3, <1>4, <1>5, <1>6

LEMMA loadHistoryInv ==
  ASSUME PageInv, NEW i \in DOMAIN switch, loadHistory(i)
  PROVE  PageInv'
<1> USE DEF PageInv
<1>1. /\ switch[i].step = "loaded" /\ log' = log \cup switch[i].got /\ switch' = Done(switch, i)
      /\ UNCHANGED <<lurker, at, saved, unsent, handler, old, opened, sub, sse>>
      /\ UNCHANGED <<topic, dmWith, dms, load, send, inputs, muddled, late, crossed, failed>>
  BY Zenon DEF loadHistory, hub, strm, past
<1>2. /\ switch' \in Seq(SwitchCalls) /\ StoreInv' /\ SwitchInv' /\ SendInv'
      /\ ~muddled => switch' = <<>> /\ i = 1 /\ switch # <<>> /\ Told /\ ~YouPending
  BY Zenon, <1>1, SwitchDone
<1>3. /\ Events' = Events /\ (YouPending' <=> YouPending) /\ (Streaming' <=> Streaming)
      /\ (Told' <=> Told) /\ (Clean' <=> Clean) /\ (Clean => ~muddled)
  BY Zenon, <1>1, SseSame DEF Streaming, Told, Clean
<1>4. Clean => /\ switch[1].step = "loaded" /\ switch[1].name = at /\ topic = at
               /\ switch[1].got \subseteq History(at) /\ log' = log \cup switch[1].got
  <2>1. Clean => switch[1].step = "loaded" /\ switch[1].name = at /\ topic = at
    BY Zenon, <1>1, <1>2, <1>3 DEF TopicInv, At
  <2> QED BY Zenon, <1>1, <1>2, <1>3, <2>1 DEF StoreInv
<1>5. TypeOK'
  <2>1. switch[i].got \subseteq Messages
    <3>1. switch[i] \in SwitchCalls
      BY Zenon, TypeIs, ElementOf
    <3> QED BY <3>1 DEF SwitchCalls
  <2> QED BY Zenon, <1>1, <1>2, <2>1 DEF TypeOK, SwitchCalls
<1>6. StreamInv' /\ OnceInv' /\ DmInv'
  BY <1>1, StreamFrame, OnceFrame, DmFrame
<1>7. TopicInv'
  BY Zenon, <1>1, <1>2, <1>3, <1>4 DEF TopicInv, At
<1>8. Complete'
  <2> SUFFICES ASSUME Clean', Streaming', NEW m \in History(at)'
               PROVE  m \in unsent' \cup Range(sub') \cup Events' \/ (~YouPending' /\ Showing(m)')
    BY Zenon DEF Complete
  <2>1. m \in History(at)
    BY Zenon, <1>1 DEF History
  <2>2. m \in unsent \cup Range(sub) \cup Events \/ (~YouPending /\ Showing(m))
    BY Zenon, <1>3, <2>1 DEF Complete
  <2>3. Showing(m) => dmWith # Absent \/ m \in log'
    BY Zenon, <1>3, <1>4 DEF Showing, At
  <2>4. dmWith # Absent \/ m \in log' => Showing(m)'
    BY Zenon, <1>1 DEF Showing
  <2> QED BY Zenon, <1>1, <1>3, <2>2, <2>3, <2>4
<1>9. Pure'
  <2>1. Clean => ~At({"moved"}) /\ ~At({"post", "moved"})
    BY <1>4 DEF At
  <2> QED BY Zenon, <1>1, <1>3, <1>4, <2>1 DEF Pure, IsDM, History
<1> QED BY Zenon, <1>2, <1>5, <1>6, <1>7, <1>8, <1>9

LEMMA SwitchFailsInv ==
  ASSUME PageInv, NEW i \in DOMAIN switch, SwitchFails(i)
  PROVE  PageInv'
<1> USE DEF PageInv
<1>1. /\ switch' = Done(switch, i) /\ failed' = TRUE
      /\ inputs < MaxInputs /\ inputs' = inputs + 1
      /\ UNCHANGED <<lurker, at, saved, unsent, handler, old, opened, sub, sse>>
      /\ UNCHANGED <<topic, dmWith, log, dms, load, send, muddled, late, crossed>>
  BY DEF SwitchFails, Input, hub, strm, page
<1>2. switch' \in Seq(SwitchCalls) /\ StoreInv' /\ SwitchInv' /\ SendInv'
  BY Zenon, <1>1, SwitchDone
<1>3. TypeOK'
  <2>1. {muddled', late', crossed', failed'} \subseteq BOOLEAN
    BY <1>1, Zenon, TypeIs
  <2>2. inputs' \in 0..MaxInputs
    BY Zenon, <1>1, InputOf
  <2> QED BY Zenon, <1>1, <1>2, <2>1, <2>2 DEF TypeOK, SwitchCalls
<1>4. StreamInv' /\ OnceInv'
  BY <1>1, StreamFrame, OnceFrame
<1>5. TopicInv' /\ Complete' /\ Pure' /\ DmInv'
  BY Zenon, <1>1 DEF TopicInv, Complete, Pure, DmInv, Clean
<1> QED BY <1>2, <1>3, <1>4, <1>5

LEMMA openDMInv ==
  ASSUME PageInv, NEW p \in Peers, openDM(p)
  PROVE  PageInv'
<1> USE DEF PageInv
<1>1. /\ inputs < MaxInputs /\ inputs' = inputs + 1 /\ dmWith' = p /\ log' = Range(Thread(p))
      /\ dms' = [dms EXCEPT ![p] = Thread(p)]
      /\ UNCHANGED <<lurker, at, saved, unsent, handler, old, opened, sub, sse>>
      /\ UNCHANGED <<topic, switch, load, send, muddled, late, crossed, failed>>
  BY DEF openDM, Input, hub, strm, past
<1>2. dms \in [Peers -> {Absent} \cup Seq(Messages)]
  BY TypeIs
<1>3. p # Absent /\ <<>> # Absent
  <2>1. <<>> \in Seq(Messages) /\ p \in Places
    BY DEF Places
  <2> QED BY <2>1, Zenon
<1>4. Thread(p) \in Seq(Messages) /\ Thread(p) # Absent
  BY <1>2, <1>3 DEF Thread
<1>5. ASSUME NEW q \in Peers PROVE Thread(q)' = Thread(q)
  <2>1. CASE q = p
    <3>1. dms'[q] = Thread(p)
      BY <1>1, <1>2, <2>1
    <3> QED BY Zenon, <1>4, <2>1, <3>1 DEF Thread
  <2>2. CASE q # p
    <3>1. dms'[q] = dms[q]
      BY <1>1, <1>2, <2>2
    <3> QED BY Zenon, <3>1 DEF Thread
  <2> QED BY Zenon, <2>1, <2>2
<1>6. /\ Events' = Events /\ (YouPending' <=> YouPending) /\ (Streaming' <=> Streaming)
      /\ (Told' <=> Told) /\ (Clean' <=> Clean)
  BY <1>1, SseSame DEF Streaming, Told, Clean
<1>7. TypeOK'
  <2>1. dms' \in [Peers -> {Absent} \cup Seq(Messages)] /\ log' \subseteq Messages
    <3>1. Range(Thread(p)) \subseteq Messages
      BY <1>4 DEF Range
    <3> HIDE DEF PageInv
    <3> QED BY <1>1, <1>2, <1>4, <3>1
  <2>2. inputs' \in 0..MaxInputs
    BY Zenon, <1>1, InputOf
  <2> QED BY Zenon, <1>1, <2>1, <2>2 DEF TypeOK
<1>8. StreamInv' /\ StoreInv' /\ SwitchInv' /\ TopicInv' /\ SendInv' /\ OnceInv'
  BY <1>1, <1>6, StreamFrame, StoreFrame, SwitchFrame, TopicFrame, SendFrame, OnceFrame
<1>9. Complete'
  <2>1. \A m : Showing(m)'
    BY Zenon, <1>1, <1>3 DEF Showing
  <2>2. History(at)' = History(at)
    BY <1>1 DEF History
  <2> QED BY Zenon, <1>1, <1>6, <2>1, <2>2 DEF Complete
<1>10. Pure'
  BY Zenon, <1>1, <1>3, <1>6 DEF Pure, At, IsDM
<1>11. DmInv'
  <2>1. DMsOnTheirWay' = DMsOnTheirWay /\ \A q \in Peers : History(q)' = History(q)
    BY <1>1, <1>6 DEF DMsOnTheirWay, IsDM, History
  <2> QED BY Zenon, <1>1, <1>5, <1>6, <2>1 DEF DmInv, IsDM
<1> QED BY <1>7, <1>8, <1>9, <1>10, <1>11

LEMMA SubmitInv ==
  ASSUME PageInv, Submit
  PROVE  PageInv'
<1> USE DEF PageInv
<1> DEFINE quiet == switch = <<>> /\ ~Starting
           c == [shown |-> Shown, calm |-> quiet]
<1>1. /\ inputs < MaxInputs /\ inputs' = inputs + 1 /\ send' = Append(send, c)
      /\ UNCHANGED <<lurker, at, saved, unsent, handler, old, opened, sub, sse>>
      /\ UNCHANGED <<topic, dmWith, log, dms, switch, load, muddled, late, crossed, failed>>
  BY DEF Submit, Input, hub, strm, page, past
<1>2. send \in Seq(Sends)
  BY TypeIs
<1>3. quiet \in BOOLEAN
  BY Zenon
<1>4. Shown \in Places /\ (Shown \notin Peers => Shown = topic)
  BY TypeIs DEF Shown, Places
<1> HIDE DEF quiet
<1>5. c \in Sends /\ c.shown = Shown /\ c.calm = quiet
  BY Zenon, <1>3, <1>4 DEF Sends
<1> HIDE DEF c
<1>6. /\ send' \in Seq(Sends)
      /\ \A i \in DOMAIN send' : (i \in DOMAIN send /\ send'[i] = send[i]) \/ send'[i] = c
  <2>1. send' = Append(send, c) /\ send \in Seq(Sends) /\ c \in Sends
    BY Zenon, <1>1, <1>2, <1>5
  <2> HIDE DEF PageInv
  <2> QED BY <2>1, AppendIs
<1>7. TypeOK'
  <2>1. inputs' \in 0..MaxInputs
    BY <1>1 DEF TypeOK
  <2> QED BY Zenon, <1>1, <1>6, <2>1 DEF TypeOK, Sends
<1>8. (Clean' <=> Clean) /\ (Streaming' <=> Streaming)
  BY Zenon, <1>1 DEF Clean, Streaming
<1>9. /\ StreamInv' /\ StoreInv' /\ SwitchInv' /\ TopicInv' /\ Complete' /\ Pure' /\ OnceInv'
      /\ DmInv'
  BY <1>1, <1>8, StreamFrame, StoreFrame, SwitchFrame, TopicFrame, CompleteFrame, PureFrame,
     OnceFrame, DmFrame
<1>10. SendInv'
  <2>1. quiet => switch = <<>> /\ handler = "live" /\ ~YouPending
    BY Zenon DEF quiet, Starting, YouPending
  <2>2. quiet => Streaming /\ (Clean => topic = at)
    BY Zenon, <2>1 DEF TopicInv, Told, Streaming, At
  <2>3. ~Streaming \/ switch # <<>> => ~c.calm
    BY <1>5, <2>1, <2>2
  <2>4. Clean /\ c.calm /\ c.shown \notin Peers => c.shown = at
    BY Zenon, <1>4, <1>5, <2>2
  <2> QED BY Zenon, <1>1, <1>6, <1>8, <2>3, <2>4 DEF SendInv
<1> QED BY Zenon, <1>7, <1>9, <1>10

(* Of the lines typed, those that are left are as they were.               *)
LEMMA SendDone ==
  ASSUME PageInv, NEW i \in DOMAIN send, send' = Done(send, i),
         UNCHANGED <<at, handler, switch, muddled, failed>>
  PROVE  send' \in Seq(Sends) /\ SendInv'
<1> USE DEF PageInv
<1>1. send \in Seq(Sends)
  BY Zenon, TypeIs
<1>2. /\ send' \in Seq(Sends)
      /\ \A j \in DOMAIN send' : \E k \in DOMAIN send : send'[j] = send[k]
  BY <1>1, DoneOf
<1>3. (Clean' <=> Clean) /\ (Streaming' <=> Streaming)
  BY Zenon DEF Clean, Streaming
<1>4. SendInv'
  <2>1. ~Streaming' \/ switch' # <<>> => \A j \in DOMAIN send' : ~send'[j].calm
    BY Zenon, <1>2, <1>3 DEF SendInv
  <2>2. Clean' => \A j \in DOMAIN send' :
                    send'[j].calm /\ send'[j].shown \notin Peers => send'[j].shown = at'
    BY Zenon, <1>2, <1>3 DEF SendInv
  <2> QED BY Zenon, <2>1, <2>2 DEF SendInv
<1> QED BY Zenon, <1>2, <1>4

LEMMA ServeSendInv ==
  ASSUME PageInv, NEW i \in DOMAIN send, ServeSend(i)
  PROVE  PageInv'
<1> USE DEF PageInv
<1>1. /\ Save(GoesTo(send[i])) /\ send' = Done(send, i) /\ inputs' = inputs
      /\ UNCHANGED <<lurker, at, strm, page, switch, load, muddled, late, failed>>
  BY Zenon DEF ServeSend
<1>2. GoesTo(send[i]) \in Places /\ inputs' \in 0..MaxInputs
  <2>1. at \in Topics \cup {Absent} /\ inputs' \in 0..MaxInputs
    BY Zenon, <1>1 DEF TypeOK
  <2> QED BY <2>1 DEF GoesTo, PostTopic, Places
<1>3. send' \in Seq(Sends) /\ SendInv'
  BY <1>1, SendDone DEF strm
<1> QED BY <1>1, <1>2, <1>3, SaveStep

LEMMA SendFailsInv ==
  ASSUME PageInv, NEW i \in DOMAIN send, SendFails(i)
  PROVE  PageInv'
<1> USE DEF PageInv
<1>1. /\ send' = Done(send, i)
      /\ UNCHANGED <<lurker, at, saved, unsent, handler, old, opened, sub, sse, inputs>>
      /\ UNCHANGED <<topic, dmWith, log, dms, switch, load, muddled, late, crossed, failed>>
  BY DEF SendFails, hub, strm, page, past
<1>2. send' \in Seq(Sends) /\ SendInv'
  BY <1>1, SendDone
<1>3. TypeOK'
  BY Zenon, <1>1, <1>2 DEF TypeOK, Sends
<1>4. Clean' => Clean
  BY Zenon, <1>1 DEF Clean
<1>5. /\ StreamInv' /\ StoreInv' /\ SwitchInv' /\ TopicInv' /\ Complete' /\ Pure' /\ OnceInv'
      /\ DmInv'
  BY Zenon, <1>1, <1>4, StreamFrame, StoreFrame, SwitchFrame, TopicFrame, CompleteFrame, PureFrame,
     OnceFrame, DmFrame
<1> QED BY Zenon, <1>2, <1>3, <1>5

-----------------------------------------------------------------------------
LEMMA StutterInv ==
  ASSUME PageInv, UNCHANGED vars
  PROVE  PageInv'
<1> USE DEF PageInv
<1>1. /\ UNCHANGED <<lurker, at, saved, unsent, handler, old, opened, sub, sse, inputs, send>>
      /\ UNCHANGED <<topic, dmWith, log, dms, switch, load, muddled, late, crossed, failed>>
  BY DEF vars, hub, strm, page, tasks, past
<1>2. TypeOK' /\ (Clean' => Clean)
  BY Zenon, <1>1 DEF TypeOK, Clean
<1> QED BY Zenon, <1>1, <1>2, StreamFrame, StoreFrame, SwitchFrame, TopicFrame, CompleteFrame, PureFrame,
           SendFrame, OnceFrame, DmFrame

LEMMA StepInv == PageInv /\ [Next]_vars => PageInv'
<1> SUFFICES ASSUME PageInv, [Next]_vars PROVE PageInv'
  OBVIOUS
<1>1. CASE Server
  BY <1>1, OtherPostInv, EmitInv, ConnectInv, SnapshotInv, FollowInv, LiveInv, BreakInv, ReturnInv,
     ServeDMsInv, ServeTopicInv, ServeHistoryInv, ServeSendInv, SendFailsInv, Zenon DEF Server
<1>2. CASE Browser
  BY <1>2, OnYouInv, OnEventInv, SubmitInv, loadDMsInv, LoadFailsInv, switchTopicInv, MovedInv,
     loadHistoryInv, SwitchFailsInv, openDMInv, Zenon DEF Browser
<1>3. CASE UNCHANGED vars
  BY <1>3, StutterInv
<1> QED BY <1>1, <1>2, <1>3 DEF Next

(* The invariant of the page and its stream: handleEvents, the listeners   *)
(* of the page and its async functions keep it, in any order.              *)
THEOREM Invariant == Spec => []PageInv
<1> QED BY InitInv, StepInv, PTL DEF Spec

(* PageAgrees: at rest the page names the topic the hub has the viewer in, *)
(* and its log shows the messages of that topic, however the stream, the   *)
(* switches and the histories of index.go interleave.                      *)
THEOREM Agreement == Spec => []PageAgrees
<1>1. PageInv => PageAgrees
  <2> SUFFICES ASSUME PageInv, AtRest, Clean
               PROVE  /\ topic = at
                      /\ dmWith = Absent => /\ History(topic) \subseteq log
                                            /\ late \/ log \subseteq History(topic)
    BY DEF PageAgrees, Clean
  <2> USE DEF PageInv
  <2>1. /\ handler = "live" /\ sub = <<>> /\ sse = <<>> /\ unsent = {} /\ switch = <<>>
    BY Zenon DEF AtRest
  <2>2. Streaming /\ ~YouPending /\ Told /\ Events = {} /\ Range(sub) = {} /\ \A st : ~At(st)
    BY Zenon, <2>1, NothingSent DEF Streaming, Told, At
  <2>3. topic = at
    BY <2>2 DEF TopicInv
  <2>4. ASSUME dmWith = Absent PROVE History(at) \subseteq log
    BY <2>1, <2>2, <2>4 DEF Complete, Showing
  <2>5. ASSUME dmWith = Absent, ~late PROVE log \subseteq History(at)
    BY <2>2, <2>5 DEF Pure
  <2> QED BY <2>3, <2>4, <2>5
<1> QED BY <1>1, Invariant, PTL

(* DmsWhole: at rest every thread has every private message stored for it, *)
(* once, though loadDMs, the stream and its snapshots bring them by        *)
(* different ways.                                                         *)
THEOREM ThreadsWhole == Spec => []DmsWhole
<1>1. PageInv => DmsWhole
  <2> SUFFICES ASSUME PageInv, AtRest, ~crossed, ~failed, NEW p \in Peers
               PROVE  IsInjective(Thread(p)) /\ Range(Thread(p)) = History(p)
    BY DEF DmsWhole
  <2>1. handler = "live" /\ sub = <<>> /\ sse = <<>> /\ unsent = {} /\ load = <<>>
    BY DEF AtRest
  <2>2. Told /\ DMsOnTheirWay = {}
    BY Zenon, <2>1, NothingSent DEF Streaming, Told, DMsOnTheirWay
  <2>3. IsInjective(Thread(p)) /\ Range(Thread(p)) = History(p) \ DMsOnTheirWay
    BY <2>1, <2>2 DEF PageInv, DmInv
  <2> QED BY <2>2, <2>3
<1> QED BY <1>1, Invariant, PTL

(* SentWhereShown: a line typed while nothing was under way goes where the *)
(* page showed that it would, though handleSend takes the hub's word for   *)
(* the topic.                                                              *)
THEOREM GoesWhereShown == Spec => SentWhereShown
<1> DEFINE A == ~muddled /\ ~failed => \A i \in DOMAIN send :
                  ServeSend(i) /\ send[i].calm => saved'[Len(saved')].to = send[i].shown
<1>1. PageInv /\ [Next]_vars => [A]_vars
  <2> SUFFICES ASSUME PageInv, Clean, NEW i \in DOMAIN send, ServeSend(i), send[i].calm
               PROVE  saved'[Len(saved')].to = send[i].shown
    BY DEF Clean
  <2> USE DEF PageInv
  <2>1. send[i] \in Sends
    BY Zenon, TypeIs, ElementOf
  <2>2. send[i].shown \in Places /\ (send[i].shown \notin Peers => send[i].shown = at)
    BY <2>1 DEF Sends, SendInv
  <2>3. GoesTo(send[i]) = send[i].shown /\ GoesTo(send[i]) \in Places
    BY <2>2 DEF GoesTo, PostTopic, Places
  <2>4. Save(GoesTo(send[i]))
    BY DEF ServeSend
  <2> QED BY Zenon, <2>3, <2>4, SaveOf
<1> QED BY <1>1, Invariant, PTL DEF Spec, SentWhereShown
=============================================================================
