--------------------------- MODULE SessionProofs ----------------------------
(***************************************************************************)
(* Proofs about a connection and its session, for any amount of data and   *)
(* any capacity of the inbound channel.                                    *)
(***************************************************************************)
EXTENDS Session, TLAPS

(* A user can come back only to a session there has been; if this session  *)
(* had left by then it is over for good.                                   *)
BackInv ==
  /\ pump = "first" => loop = "none" /\ ~again
  /\ again /\ ~overlap => once = "over" /\ member = "next"

(* A session leaves the hub once: the user who is back after it had left   *)
(* is not removed by its second Close.                                     *)
THEOREM LeavesOnce == SessionSpec => []NextStays
<1>1. SessionInit => BackInv
  BY DEF SessionInit, BackInv
<1>2. BackInv /\ [SessionNext]_all => BackInv'
  <2> SUFFICES ASSUME BackInv, [SessionNext]_all PROVE BackInv'
    OBVIOUS
  <2> USE DEF BackInv, Once, end
  <2>1. CASE UNCHANGED mine
    BY <2>1 DEF mine
  <2>2. CASE Promote \/ Deliver \/ TakeLine \/ Return
    BY <2>2 DEF Promote, Deliver, TakeLine, Return
  <2>3. CASE New
    BY <2>3 DEF New
  <2>4. CASE Greeted \/ PumpEnds
    BY <2>4 DEF Greeted, PumpEnds
  <2>5. CASE Handle \/ Quit
    BY <2>5 DEF Handle, Quit
  <2>6. CASE RenderFails \/ GoOn \/ Stop \/ Watch
    BY <2>6 DEF RenderFails, GoOn, Stop, Watch
  <2>7. CASE Ending
    BY <2>7 DEF Ending
  <2>8. CASE Reconnect
    BY <2>8 DEF Reconnect, InSession
  <2>9. CASE UNCHANGED all
    BY <2>9, <2>1 DEF all
  <2> QED BY <2>1, <2>2, <2>3, <2>4, <2>5, <2>6, <2>7, <2>8, <2>9 DEF SessionNext, Pump, Reads, Run
<1>3. BackInv => NextStays
  BY DEF BackInv, NextStays
<1> QED BY <1>1, <1>2, <1>3, PTL DEF SessionSpec

-----------------------------------------------------------------------------
(* The close push is the last there is.  Once the stream was registered    *)
(* it is in the map until its owner takes it out, or that push is handled, *)
(* after which none comes that could be kept aside.                        *)
Pushes == Data \cup {Begin, Close}
InMap  == reg \in {"draining", "done"} /\ (inbound \/ gone = "no")

CloseLast ==
  /\ sent \in 0..MaxData
  /\ wire \in Seq(Pushes)
  /\ \A i \in 1..Len(wire) : wire[i] = Close => ended /\ i = Len(wire)

AsideInv ==
  /\ CloseLast
  /\ InMap => /\ stream \/ (wire = <<>> /\ ended)
              /\ pendingRecv = <<>> /\ ~pendingClosed

(* What the invariant is about; every other step leaves it alone.          *)
about == <<inbound, sent, ended, wire, reg, stream, pendingRecv, pendingClosed, gone>>

LEMMA AboutKeeps == ASSUME AsideInv, UNCHANGED about PROVE AsideInv'
  BY DEF AsideInv, CloseLast, InMap, about

(* The node sends nothing after the close.                                 *)
LEMMA NodeKeeps == ASSUME AsideInv, Push \/ End PROVE AsideInv'
<1>1. ~ended /\ sent \in 0..MaxData /\ wire \in Seq(Pushes) /\ \A i \in 1..Len(wire) : wire[i] # Close
  BY DEF AsideInv, CloseLast, Push, End
<1>2. ASSUME NEW p \in Pushes, wire' = Append(wire, p), sent' \in 0..MaxData, p = Close => ended'
      PROVE  CloseLast'
  <2>1. /\ wire' \in Seq(Pushes) /\ Len(wire') = Len(wire) + 1 /\ wire'[Len(wire) + 1] = p
        /\ \A i \in 1..Len(wire) : wire'[i] = wire[i]
    BY <1>1, <1>2
  <2>2. Len(wire) \in Nat
    BY <1>1
  <2>3. \A i \in 1..Len(wire') : i \in 1..Len(wire) \/ i = Len(wire')
    BY <2>1, <2>2
  <2> QED BY <1>1, <1>2, <2>1, <2>3 DEF CloseLast
<1>3. CASE Push
  <2>1. sent' \in Data /\ sent' \in 0..MaxData /\ wire' = Append(wire, sent')
    BY <1>1, <1>3, StreamAssumption DEF Push, Data
  <2>2. sent' \in Pushes /\ sent' # Close
    BY <2>1, StreamAssumption DEF Pushes
  <2>3. CloseLast'
    BY <1>2, <2>1, <2>2
  <2> QED BY <1>1, <1>3, <2>3 DEF Push, AsideInv, InMap, kind, side, app
<1>4. CASE End
  <2>1. CloseLast'
    BY <1>1, <1>2, <1>4 DEF End, Pushes
  <2> QED BY <1>1, <1>4, <2>1 DEF End, AsideInv, InMap, kind, side, app
<1> QED BY <1>3, <1>4

LEMMA TailFacts ==
  ASSUME NEW S, NEW s \in Seq(S), s # <<>>
  PROVE  /\ Len(s) \in Nat \ {0} /\ Tail(s) \in Seq(S) /\ Len(Tail(s)) = Len(s) - 1
         /\ \A i \in 1..(Len(s) - 1) : Tail(s)[i] = s[i + 1]
         /\ Head(s) = s[1] /\ (Len(s) = 1 => Tail(s) = <<>>)
  OBVIOUS

LEMMA Shift ==
  ASSUME NEW n \in Nat \ {0}, NEW i \in 1..(n - 1)
  PROVE  i + 1 \in 1..n /\ (i + 1 = n => i = n - 1)
  OBVIOUS

(* The read loop takes one push; after the close push nothing is left.     *)
LEMMA TailKeeps ==
  ASSUME CloseLast, wire # <<>>, wire' = Tail(wire), UNCHANGED <<sent, ended>>
  PROVE  /\ CloseLast'
         /\ Head(wire) = Close => wire' = <<>> /\ ended'
<1> DEFINE n == Len(wire)
<1>1. /\ n \in Nat \ {0} /\ wire' \in Seq(Pushes) /\ Len(wire') = n - 1
      /\ \A i \in 1..(n - 1) : wire'[i] = wire[i + 1]
      /\ Head(wire) = wire[1] /\ (n = 1 => wire' = <<>>)
  BY TailFacts DEF CloseLast
<1>2. sent' \in 0..MaxData /\ \A i \in 1..n : wire[i] = Close => ended /\ i = n
  BY DEF CloseLast
<1>3. 1 \in 1..n
  BY <1>1
<1> HIDE DEF n
<1>4. ASSUME NEW i \in 1..(n - 1), wire'[i] = Close PROVE ended' /\ i = n - 1
  BY <1>1, <1>2, <1>4, Shift
<1>5. CloseLast'
  BY <1>1, <1>2, <1>4 DEF CloseLast
<1> QED BY <1>1, <1>2, <1>3, <1>5

LEMMA ReadLoopKeeps == ASSUME AsideInv, ReadLoop PROVE AsideInv'
<1> USE DEF kind, node, side, drainv, app, Ready
<1>1. CASE Announce
  BY <1>1, TailKeeps DEF Announce, AsideInv, InMap
<1>2. CASE OnRecv
  <2>1. CloseLast'
    BY <1>2, TailKeeps DEF OnRecv, AsideInv
  <2>2. InMap' => InMap /\ stream /\ stream' /\ UNCHANGED <<pendingRecv, pendingClosed>>
    BY <1>2 DEF OnRecv, AsideInv, InMap
  <2> QED BY <2>1, <2>2 DEF AsideInv
<1>3. CASE OnClose
  <2>1. CloseLast' /\ wire' = <<>> /\ ended'
    BY <1>3, TailKeeps DEF OnClose, AsideInv
  <2>2. InMap' => InMap /\ stream /\ UNCHANGED <<pendingRecv, pendingClosed>>
    BY <1>3 DEF OnClose, AsideInv, InMap
  <2> QED BY <2>1, <2>2 DEF AsideInv
<1>4. CASE Feed \/ MarkClosed
  BY <1>4, AboutKeeps DEF Feed, MarkClosed, about
<1> QED BY <1>1, <1>2, <1>3, <1>4 DEF ReadLoop

LEMMA OpenerKeeps == ASSUME AsideInv, Opener PROVE AsideInv'
<1> USE DEF kind, node, side, drainv, app, AsideInv, CloseLast, InMap
<1>1. CASE Register
  BY <1>1 DEF Register
<1>2. CASE Drain \/ Registered
  BY <1>2 DEF Drain, Registered
<1> QED BY <1>1, <1>2 DEF Opener

LEMMA LeaveKeeps == ASSUME AsideInv, Leave \/ CloseStream PROVE AsideInv'
<1> USE DEF Leave, CloseStream, kind, node, side, drainv
<1>1. CloseLast'
  BY DEF AsideInv, CloseLast
<1>2. InMap' => inbound /\ InMap /\ (stream => stream')
  BY DEF InMap, Stays
<1> QED BY <1>1, <1>2 DEF AsideInv

(* Only what comes before the stream is registered is kept aside: of an    *)
(* accepted connection always, of a dialled one until its owner leaves.    *)
THEOREM NothingKeptAsideAfter == SessionSpec => []AsideOnlyBefore
<1>1. SessionInit => AsideInv
  <2> SUFFICES ASSUME SessionInit PROVE AsideInv
    OBVIOUS
  <2>1. sent = 0 /\ wire = <<Begin>> /\ reg = "none"
    BY DEF SessionInit, Init
  <2>2. wire \in Seq(Pushes) /\ Len(wire) = 1 /\ wire[1] = Begin
    BY <2>1 DEF Pushes
  <2>3. CloseLast
    BY <2>1, <2>2, StreamAssumption DEF CloseLast
  <2> QED BY <2>1, <2>3 DEF AsideInv, InMap
<1>2. AsideInv /\ [SessionNext]_all => AsideInv'
  <2> SUFFICES ASSUME AsideInv, [SessionNext]_all PROVE AsideInv'
    OBVIOUS
  <2>1. CASE Push \/ End \/ ReadLoop \/ Opener \/ CloseStream
    BY <2>1, NodeKeeps, ReadLoopKeeps, OpenerKeeps, LeaveKeeps
  <2>2. CASE Return
    BY <2>2, LeaveKeeps DEF Return
  <2>3. CASE UNCHANGED vars
    BY <2>3, AboutKeeps DEF vars, about
  <2>4. CASE Owner
    BY <2>4, AboutKeeps DEF Owner, Read, ReadEOF, about, kind, node, side
  <2>5. CASE Stop \/ Watch
    BY <2>5, AboutKeeps DEF Stop, Watch, CloseRW, theirs, about, kind, node, side, app
  <2>6. CASE Promote \/ New \/ Greeted \/ Deliver \/ TakeLine \/ PumpEnds \/ Ending
    BY <2>6, <2>3 DEF Promote, New, Greeted, Deliver, TakeLine, PumpEnds, Ending
  <2>7. CASE Handle \/ Quit \/ GoOn \/ RenderFails \/ Reconnect
    BY <2>7, <2>3 DEF Handle, Quit, GoOn, RenderFails, Reconnect
  <2> QED BY <2>1, <2>2, <2>3, <2>4, <2>5, <2>6, <2>7 DEF SessionNext, Pump, Reads, Run, all
<1>3. AsideInv => AsideOnlyBefore
  BY DEF AsideInv, AsideOnlyBefore, InMap
<1> QED BY <1>1, <1>2, <1>3, PTL DEF SessionSpec

-----------------------------------------------------------------------------
(* The data on its way.  The wire is known from the state of the two ends: *)
(* the announcement while it has not been handled, the data from the first *)
(* piece not taken yet to the last one sent, and the close push.           *)
BeginOn == IF reg = "none" THEN 1 ELSE 0
CloseOn == IF ended /\ wire # <<>> THEN 1 ELSE 0
Off     == sent - (Len(wire) - BeginOn - CloseOn)    \* pieces taken off the wire

(* The i-th of n pushes, b of them the announcement and e the close push.  *)
PushAt(i, n, b, e, c) ==
  IF i <= b THEN Begin ELSE IF i > n - e THEN Close ELSE c + i - b

WireInv ==
  /\ sent \in 0..MaxData /\ wire \in Seq(Pushes) /\ Off \in Nat /\ Off <= sent
  /\ \A i \in 1..Len(wire) : wire[i] = PushAt(i, Len(wire), BeginOn, CloseOn, Off)

(* What the stream has been fed, read or not.                              *)
flow == got \o buf

Holds == IF held \in Data THEN 1 ELSE 0

(* Where the data taken off the wire can be: aside, being drained, with    *)
(* the read loop, or in the stream.                                        *)
PlaceInv ==
  /\ reg \in {"none", "called"} =>
       /\ got = <<>> /\ buf = <<>> /\ drain = <<>> /\ held = Idle /\ ~stream
       /\ Len(pendingRecv) = Off /\ \A i \in 1..Off : pendingRecv[i] = i
  /\ held \in Data => held = Off
  /\ stream \/ held # Idle \/ drainClosed => pendingRecv = <<>>
  /\ inbound /\ reg = "draining" => held = Idle
  /\ drain # <<>> => reg = "draining"
  /\ held = Close \/ pendingClosed \/ drainClosed => ended /\ wire = <<>>
  /\ drainClosed => held = Idle

(* No piece is in two places.                                              *)
OnceOnly ==
  /\ \A i \in 1..Len(flow) : /\ flow[i] <= Off - Holds
                             /\ \A j \in 1..Len(flow) : i # j => flow[i] # flow[j]
                             /\ \A j \in 1..Len(drain) : flow[i] # drain[j]
  /\ \A i \in 1..Len(drain) : /\ drain[i] <= Off - Holds
                              /\ \A j \in 1..Len(drain) : i # j => drain[i] # drain[j]

(* While the stream takes data, what it was fed is followed by what is     *)
(* being drained, and that by what comes after.                            *)
InTurn ==
  Orderly =>
    /\ Len(flow) <= Off /\ \A i \in 1..Len(flow) : flow[i] = i
    /\ ~closed => /\ Len(flow) + Len(drain) + Holds + Len(pendingRecv) = Off
                  /\ \A i \in 1..Len(drain) : drain[i] = Len(flow) + i

(* A stream its own side has not closed is closed when all is in it.       *)
AllIn ==
  Orderly /\ ~shut =>
    /\ closed /\ gone = "no" => ended /\ Len(flow) = sent
    /\ eof => ended /\ Len(got) = sent

FlowTypes ==
  /\ held \in Data \cup {Close, Idle}
  /\ pendingRecv \in Seq(Data) /\ drain \in Seq(Data) /\ buf \in Seq(Data) /\ got \in Seq(Data)

FlowInv == FlowTypes /\ WireInv /\ PlaceInv /\ OnceOnly /\ InTurn /\ AllIn

(* The session.  Lines handed to run: all taken but one being delivered.   *)
Given == IF pump = "deliver" THEN taken - 1 ELSE taken

(* run goes on to say the lines in the channel.                            *)
Says == InSession /\ (once = "no" \/ (once = "done" /\ loop = "select"))

StageInv ==
  /\ taken \in Nat /\ taken <= Len(got) /\ (pump \in {"greet", "deliver"} => taken > 0)
  /\ said \in Seq(Data) /\ queue \in Seq(Data) /\ once \in {"no", "done", "over"}
  /\ pump \in {"deliver", "read", "close"} => loop # "none"
  /\ pump = "first" => taken = 0 /\ once = "no" /\ loop = "none" /\ member = "no" /\ ~again
  /\ loop = "none" => said = <<>> /\ queue = <<>>
  /\ pump = "greet" => once # "no" /\ loop = "none"
  /\ once = "done" /\ loop = "select" => pump = "close"
  /\ once = "over" /\ ~again => member = "no"
  /\ loop # "none" /\ once # "over" => member # "no"

LineInv ==
  /\ ~again => Len(said) <= Len(got) /\ \A i \in 1..Len(said) : said[i] = got[i]
  /\ Says => /\ Len(said) + Len(queue) = Given
             /\ \A i \in 1..Len(said) : said[i] = got[i]
             /\ \A i \in 1..Len(queue) : queue[i] = got[Len(said) + i]

LEMMA OnTheWire ==
  ASSUME WireInv
  PROVE  /\ BeginOn \in {0, 1} /\ CloseOn \in {0, 1} /\ Off \in Nat /\ sent \in Nat
         /\ Len(wire) \in Nat /\ Len(wire) = sent - Off + BeginOn + CloseOn
         /\ Off <= sent /\ sent <= MaxData
         /\ (BeginOn = 1 <=> reg = "none") /\ (CloseOn = 1 <=> ended /\ wire # <<>>)
         /\ wire = <<>> <=> Len(wire) = 0
<1>1. sent \in 0..MaxData /\ wire \in Seq(Pushes) /\ Off \in Nat /\ Off <= sent
  BY DEF WireInv
<1>2. Len(wire) \in Nat /\ (wire = <<>> <=> Len(wire) = 0)
  BY <1>1
<1>3. BeginOn \in {0, 1} /\ CloseOn \in {0, 1}
      /\ (BeginOn = 1 <=> reg = "none") /\ (CloseOn = 1 <=> ended /\ wire # <<>>)
  BY DEF BeginOn, CloseOn
<1>4. Off = sent - (Len(wire) - BeginOn - CloseOn)
  BY DEF Off
<1> QED BY <1>1, <1>2, <1>3, <1>4, StreamAssumption

(* The wire stays as it is.                                                *)
LEMMA WireRests ==
  ASSUME WireInv, UNCHANGED <<sent, ended, wire>>, reg' = "none" <=> reg = "none"
  PROVE  WireInv' /\ Off' = Off
<1>1. BeginOn' = BeginOn /\ CloseOn' = CloseOn
  BY DEF BeginOn, CloseOn
<1>2. Off' = Off
  BY <1>1 DEF Off
<1> QED BY <1>1, <1>2 DEF WireInv

(* A piece of data is neither of the other pushes.                         *)
LEMMA DataOnWire ==
  ASSUME NEW d \in Data
  PROVE  d # Begin /\ d # Close /\ d # Idle /\ d \in 1..MaxData
BY StreamAssumption DEF Data

LEMMA WireSends ==
  ASSUME WireInv, Push \/ End
  PROVE  WireInv' /\ Off' = Off /\ ~ended
<1> DEFINE n == Len(wire)
<1>0. /\ BeginOn \in {0, 1} /\ CloseOn \in {0, 1} /\ Off \in Nat /\ sent \in Nat
      /\ n \in Nat /\ n = sent - Off + BeginOn + CloseOn /\ Off <= sent /\ sent <= MaxData
      /\ (CloseOn = 1 <=> ended /\ wire # <<>>)
  BY OnTheWire
<1>1. ~ended /\ CloseOn = 0 /\ reg' = reg /\ wire \in Seq(Pushes)
  BY <1>0 DEF Push, End, WireInv
<1>2. BeginOn' = BeginOn
  BY <1>1 DEF BeginOn
<1>3. \A i \in 1..n : wire[i] = PushAt(i, n, BeginOn, 0, Off)
  BY <1>1 DEF WireInv
<1>4. \A p \in Pushes : /\ Append(wire, p) \in Seq(Pushes) /\ Append(wire, p) # <<>>
                        /\ Len(Append(wire, p)) = n + 1 /\ Append(wire, p)[n + 1] = p
                        /\ \A i \in 1..n : Append(wire, p)[i] = wire[i]
  BY <1>1
<1> HIDE DEF n
<1>5. CASE Push
  <2>1. /\ sent' = sent + 1 /\ sent' \in Data /\ sent' \in Pushes /\ sent' \in 0..MaxData
        /\ wire' = Append(wire, sent') /\ ended' = ended
    BY <1>0, <1>5, StreamAssumption DEF Push, Data, Pushes
  <2>2. /\ wire' \in Seq(Pushes) /\ Len(wire') = n + 1 /\ wire'[n + 1] = sent'
        /\ \A i \in 1..n : wire'[i] = wire[i]
    BY Zenon, <1>4, <2>1
  <2>3. CloseOn' = 0
    BY <1>1, <2>1 DEF CloseOn
  <2>4. Off' = Off
    BY <1>0, <1>1, <1>2, <2>1, <2>2, <2>3 DEF Off
  <2>5. \A i \in 1..(n + 1) : wire'[i] = PushAt(i, n + 1, BeginOn, 0, Off)
    <3>1. wire'[n + 1] = PushAt(n + 1, n + 1, BeginOn, 0, Off)
      BY <1>0, <1>1, <2>1, <2>2 DEF PushAt
    <3>2. \A i \in 1..n : PushAt(i, n, BeginOn, 0, Off) = PushAt(i, n + 1, BeginOn, 0, Off)
      BY <1>0 DEF PushAt
    <3>3. \A i \in 1..(n + 1) : i \in 1..n \/ i = n + 1
      BY <1>0
    <3> QED BY <1>3, <2>2, <3>1, <3>2, <3>3
  <2> QED BY <1>0, <1>1, <1>2, <2>1, <2>2, <2>3, <2>4, <2>5 DEF WireInv
<1>6. CASE End
  <2>1. /\ sent' = sent /\ sent' \in 0..MaxData /\ Close \in Pushes
        /\ wire' = Append(wire, Close) /\ ended'
    BY <1>0, <1>6, StreamAssumption DEF End, Pushes
  <2>2. /\ wire' \in Seq(Pushes) /\ wire' # <<>> /\ Len(wire') = n + 1 /\ wire'[n + 1] = Close
        /\ \A i \in 1..n : wire'[i] = wire[i]
    BY <1>4, <2>1
  <2>3. CloseOn' = 1
    BY <2>1, <2>2 DEF CloseOn
  <2>4. Off' = Off
    BY <1>0, <1>1, <1>2, <2>1, <2>2, <2>3 DEF Off
  <2>5. \A i \in 1..(n + 1) : wire'[i] = PushAt(i, n + 1, BeginOn, 1, Off)
    <3>1. wire'[n + 1] = PushAt(n + 1, n + 1, BeginOn, 1, Off)
      BY <1>0, <1>1, <2>2 DEF PushAt
    <3>2. \A i \in 1..n : PushAt(i, n, BeginOn, 0, Off) = PushAt(i, n + 1, BeginOn, 1, Off)
      BY <1>0 DEF PushAt
    <3>3. \A i \in 1..(n + 1) : i \in 1..n \/ i = n + 1
      BY <1>0
    <3> QED BY <1>3, <2>2, <3>1, <3>2, <3>3
  <2> QED BY <1>0, <1>1, <1>2, <2>1, <2>2, <2>3, <2>4, <2>5 DEF WireInv
<1> QED BY <1>1, <1>5, <1>6

(* The first push, and the wire without it.                                *)
LEMMA WireHead ==
  ASSUME WireInv, wire # <<>>
  PROVE  /\ Head(wire) = Begin => reg = "none" /\ (ended => Len(wire) # 1)
         /\ Head(wire) \in Data => Head(wire) = Off + 1 /\ reg # "none" /\ Off < sent
                                   /\ (ended => Len(wire) # 1)
         /\ Head(wire) = Close => Len(wire) = 1 /\ ended /\ Off = sent /\ reg # "none"
<1> DEFINE n == Len(wire)
           h == Head(wire)
<1>0. /\ BeginOn \in {0, 1} /\ CloseOn \in {0, 1} /\ Off \in Nat /\ sent \in Nat
      /\ n \in Nat \ {0} /\ n = sent - Off + BeginOn + CloseOn /\ Off <= sent /\ sent <= MaxData
      /\ (BeginOn = 1 <=> reg = "none") /\ (CloseOn = 1 <=> ended)
  BY OnTheWire
<1>1. h = wire[1] /\ 1 \in 1..n
  BY <1>0 DEF WireInv
<1>2. h = PushAt(1, n, BeginOn, CloseOn, Off)
  BY <1>1 DEF WireInv
<1>3. ~(Begin \in Data) /\ ~(Close \in Data) /\ Begin # Close
  BY StreamAssumption
<1> HIDE DEF n, h
<1>4. CASE BeginOn = 1
  <2>1. h = Begin
    BY <1>0, <1>2, <1>4 DEF PushAt
  <2> QED BY <1>0, <1>3, <1>4, <2>1 DEF n, h
<1>5. CASE BeginOn = 0 /\ 1 > n - CloseOn
  <2>1. h = Close /\ n = 1 /\ CloseOn = 1 /\ Off = sent
    BY <1>0, <1>2, <1>5 DEF PushAt
  <2> QED BY <1>0, <1>3, <1>5, <2>1 DEF n, h
<1>6. CASE BeginOn = 0 /\ ~(1 > n - CloseOn)
  <2>1. h = Off + 1 /\ Off < sent /\ (CloseOn = 1 => n # 1)
    BY <1>0, <1>2, <1>6 DEF PushAt
  <2>2. h \in Data
    BY <1>0, <2>1, StreamAssumption DEF Data
  <2> QED BY <1>0, <1>3, <1>6, <2>1, <2>2 DEF n, h
<1> QED BY <1>0, <1>4, <1>5, <1>6

LEMMA WireTakes ==
  ASSUME WireInv, wire # <<>>, wire' = Tail(wire), UNCHANGED <<sent, ended>>,
         reg' # "none", Head(wire) \in Data \cup {Begin, Close},
         Head(wire) # Begin => (reg' = "none" <=> reg = "none")
  PROVE  /\ WireInv'
         /\ Head(wire) \in Data => Off' = Off + 1
         /\ Head(wire) \notin Data => Off' = Off
<1> DEFINE n == Len(wire)
           h == Head(wire)
<1>0. /\ BeginOn \in {0, 1} /\ CloseOn \in {0, 1} /\ Off \in Nat /\ sent \in Nat
      /\ n \in Nat \ {0} /\ n = sent - Off + BeginOn + CloseOn /\ Off <= sent /\ sent <= MaxData
      /\ (BeginOn = 1 <=> reg = "none") /\ (CloseOn = 1 <=> ended)
  BY OnTheWire
<1>1. /\ wire' \in Seq(Pushes) /\ Len(wire') = n - 1
      /\ \A i \in 1..(n - 1) : wire'[i] = wire[i + 1]
      /\ (n = 1 => wire' = <<>>) /\ (n # 1 => wire' # <<>>)
  <2>1. wire \in Seq(Pushes)
    BY DEF WireInv
  <2>2. /\ wire' \in Seq(Pushes) /\ Len(wire') = n - 1
        /\ \A i \in 1..(n - 1) : wire'[i] = wire[i + 1] /\ (n = 1 => wire' = <<>>)
    BY <2>1, TailFacts
  <2>3. n # 1 => Len(wire') # 0
    BY <1>0, <2>2
  <2> QED BY <2>1, <2>2, <2>3, TailFacts
<1>2. \A i \in 1..n : wire[i] = PushAt(i, n, BeginOn, CloseOn, Off)
  BY DEF WireInv
<1>3. /\ h = Begin => reg = "none" /\ (ended => n # 1)
      /\ h \in Data => h = Off + 1 /\ reg # "none" /\ Off < sent /\ (ended => n # 1)
      /\ h = Close => n = 1 /\ ended /\ Off = sent /\ reg # "none"
  BY WireHead
<1>4. BeginOn' = 0
  BY DEF BeginOn
<1>5. CloseOn' = IF ended /\ n # 1 THEN 1 ELSE 0
  BY <1>1 DEF CloseOn
<1>6. Off' = sent - ((n - 1) - CloseOn')
  BY <1>0, <1>1, <1>4, <1>5 DEF Off
<1>7. sent' \in 0..MaxData
  BY DEF WireInv
<1> HIDE DEF n, h
<1>8. ASSUME NEW i \in 1..(n - 1)
      PROVE  wire'[i] = PushAt(i + 1, n, BeginOn, CloseOn, Off)
  <2>1. i + 1 \in 1..n
    BY <1>0
  <2> QED BY <1>1, <1>2, <2>1
<1>9. CASE h = Begin
  <2>1. BeginOn = 1 /\ CloseOn' = CloseOn /\ Off' = Off
    BY <1>0, <1>3, <1>5, <1>6, <1>9
  <2>2. \A i \in 1..(n - 1) : PushAt(i + 1, n, BeginOn, CloseOn, Off) = PushAt(i, n - 1, 0, CloseOn, Off)
    BY <1>0, <2>1 DEF PushAt
  <2>3. h \notin Data
    BY <1>9, StreamAssumption
  <2> QED BY <1>0, <1>1, <1>4, <1>7, <1>8, <2>1, <2>2, <2>3 DEF WireInv, h
<1>10. CASE h \in Data
  <2>1. BeginOn = 0 /\ CloseOn' = CloseOn /\ Off' = Off + 1
    BY <1>0, <1>3, <1>5, <1>6, <1>10
  <2>2. \A i \in 1..(n - 1) : PushAt(i + 1, n, BeginOn, CloseOn, Off) = PushAt(i, n - 1, 0, CloseOn, Off + 1)
    BY <1>0, <2>1 DEF PushAt
  <2>3. Off' \in Nat /\ Off' <= sent
    BY <1>0, <1>3, <1>10, <2>1
  <2> QED BY <1>0, <1>1, <1>4, <1>7, <1>8, <1>10, <2>1, <2>2, <2>3 DEF WireInv, h
<1>11. CASE h = Close
  <2>1. n = 1 /\ CloseOn' = 0 /\ Off' = Off
    BY <1>0, <1>3, <1>5, <1>6, <1>11
  <2>2. h \notin Data /\ 1..(n - 1) = {}
    BY <1>11, <2>1, StreamAssumption
  <2> QED BY <1>0, <1>1, <1>4, <1>7, <2>1, <2>2 DEF WireInv, h
<1> QED BY <1>9, <1>10, <1>11 DEF h

-----------------------------------------------------------------------------
(* The data in the stream and on its way there.                            *)

(* A step that moves no data.                                              *)
LEMMA OnceRests ==
  ASSUME OnceOnly, flow' = flow, drain' = drain, Off' = Off, Holds' = Holds
  PROVE  OnceOnly'
BY DEF OnceOnly

LEMMA TurnRests ==
  ASSUME InTurn, flow' = flow, drain' = drain, Off' = Off, Holds' = Holds, pendingRecv' = pendingRecv,
         Orderly' => Orderly, ~closed' => ~closed
  PROVE  InTurn'
BY DEF InTurn

LEMMA FlowType ==
  ASSUME FlowTypes
  PROVE  /\ flow \in Seq(Data) /\ Len(flow) \in Nat /\ Len(flow) = Len(got) + Len(buf)
         /\ Len(drain) \in Nat /\ Len(pendingRecv) \in Nat /\ Holds \in {0, 1}
         /\ \A i \in 1..Len(flow) : flow[i] \in Nat
         /\ \A i \in 1..Len(drain) : drain[i] \in Nat
<1>1. \A s \in Seq(Data) : Len(s) \in Nat /\ \A i \in 1..Len(s) : s[i] \in Nat
  <2>1. \A s \in Seq(Data) : Len(s) \in Nat /\ \A i \in 1..Len(s) : s[i] \in Data
    OBVIOUS
  <2>2. \A x \in Data : x \in Nat
    BY DEF Data
  <2> QED BY <2>1, <2>2
<1>2. flow \in Seq(Data) /\ Len(flow) = Len(got) + Len(buf)
  BY DEF FlowTypes, flow
<1>3. Holds \in {0, 1}
  BY DEF Holds
<1> QED BY Zenon, <1>1, <1>2, <1>3 DEF FlowTypes

LEMMA FlowSends ==
  ASSUME FlowInv, Push \/ End, UNCHANGED mine
  PROVE  FlowInv'
<1> USE DEF FlowInv
<1>1. /\ UNCHANGED <<inbound, raced, held, reg, stream, pendingRecv, pendingClosed, drain, drainClosed>>
      /\ UNCHANGED <<buf, closed, got, eof, gone, shut>>
  BY DEF Push, End, kind, side, drainv, app, mine
<1>2. WireInv' /\ Off' = Off /\ ~ended
  BY WireSends
<1>3. flow' = flow /\ Holds' = Holds /\ FlowTypes' /\ (Orderly' <=> Orderly)
  BY <1>1 DEF flow, Holds, FlowTypes, Orderly
<1>4. OnceOnly' /\ InTurn'
  BY <1>1, <1>2, <1>3, OnceRests, TurnRests
<1>5. PlaceInv'
  BY <1>1, <1>2 DEF PlaceInv
<1>6. AllIn'
  BY <1>1, <1>2, <1>3 DEF AllIn
<1> QED BY <1>2, <1>3, <1>4, <1>5, <1>6

LEMMA FlowAnnounce ==
  ASSUME FlowInv, Announce, UNCHANGED mine
  PROVE  FlowInv'
<1> USE DEF FlowInv
<1>1. /\ UNCHANGED <<inbound, raced, sent, ended, held, stream, pendingRecv, pendingClosed, drain, drainClosed>>
      /\ UNCHANGED <<buf, closed, got, eof, gone, shut>>
      /\ wire # <<>> /\ wire' = Tail(wire) /\ Head(wire) = Begin /\ reg' = "called"
  BY DEF Announce, Ready, kind, node, side, drainv, app, mine
<1>2. reg = "none"
  BY <1>1, WireHead
<1>3. Begin \notin Data
  BY StreamAssumption
<1>4. WireInv' /\ Off' = Off
  BY <1>1, <1>3, WireTakes
<1>5. flow' = flow /\ Holds' = Holds /\ FlowTypes' /\ (Orderly' <=> Orderly)
  BY <1>1 DEF flow, Holds, FlowTypes, Orderly
<1>6. OnceOnly' /\ InTurn'
  BY <1>1, <1>4, <1>5, OnceRests, TurnRests
<1>7. PlaceInv'
  BY <1>1, <1>2, <1>4 DEF PlaceInv
<1>8. AllIn'
  BY <1>1, <1>5 DEF AllIn
<1> QED BY <1>4, <1>5, <1>6, <1>7, <1>8

LEMMA AppendFacts ==
  ASSUME NEW S, NEW s \in Seq(S), NEW x \in S
  PROVE  /\ Append(s, x) \in Seq(S) /\ Len(s) \in Nat /\ Len(Append(s, x)) = Len(s) + 1
         /\ Append(s, x)[Len(s) + 1] = x
         /\ \A i \in 1..Len(s) : Append(s, x)[i] = s[i]
         /\ \A i \in 1..(Len(s) + 1) : i \in 1..Len(s) \/ i = Len(s) + 1
  OBVIOUS

LEMMA FlowRecv ==
  ASSUME FlowInv, OnRecv, UNCHANGED mine
  PROVE  FlowInv'
<1> USE DEF FlowInv
<1> DEFINE d == Head(wire)
<1>1. /\ UNCHANGED <<inbound, raced, sent, ended, reg, stream, pendingClosed, drain, drainClosed>>
      /\ UNCHANGED <<buf, closed, got, eof, gone, shut>>
      /\ wire # <<>> /\ wire' = Tail(wire) /\ d \in Data /\ held = Idle
      /\ inbound => reg \in {"none", "done"}
      /\ stream => held' = d /\ pendingRecv' = pendingRecv
      /\ ~stream => held' = held /\ pendingRecv' = Append(pendingRecv, d)
  BY DEF OnRecv, Ready, kind, node, side, drainv, app, mine
<1>2. d = Off + 1 /\ reg # "none" /\ reg' # "none" /\ d # Begin /\ d # Close /\ Idle \notin Data
  <2>1. d = Off + 1 /\ reg # "none"
    BY <1>1, WireHead
  <2> QED BY <1>1, <2>1, DataOnWire, StreamAssumption
<1>3. WireInv' /\ Off' = Off + 1 /\ Off \in Nat
  BY <1>1, <1>2, WireTakes, OnTheWire
<1> HIDE DEF d
<1>4. flow' = flow /\ (Orderly' <=> Orderly)
  BY <1>1 DEF flow, Orderly
<1>5. pendingRecv \in Seq(Data)
  BY DEF FlowTypes
<1>6. /\ Append(pendingRecv, d) \in Seq(Data) /\ Len(Append(pendingRecv, d)) = Len(pendingRecv) + 1
      /\ Append(pendingRecv, d)[Len(pendingRecv) + 1] = d
      /\ \A i \in 1..Len(pendingRecv) : Append(pendingRecv, d)[i] = pendingRecv[i]
      /\ \A i \in 1..(Len(pendingRecv) + 1) : i \in 1..Len(pendingRecv) \/ i = Len(pendingRecv) + 1
  BY <1>1, <1>5, AppendFacts
<1>7. FlowTypes'
  BY <1>1, <1>2, <1>6 DEF FlowTypes
<1>8. Holds = 0 /\ (stream => Holds' = 1) /\ (~stream => Holds' = 0)
  BY <1>1, <1>2 DEF Holds
<1>9. ~(held = Close \/ pendingClosed \/ drainClosed)
  BY <1>1 DEF PlaceInv
<1>10. PlaceInv'
  <2>1. ASSUME reg' \in {"none", "called"}
        PROVE  /\ got' = <<>> /\ buf' = <<>> /\ drain' = <<>> /\ held' = Idle /\ ~stream'
               /\ Len(pendingRecv') = Off' /\ \A i \in 1..Off' : pendingRecv'[i] = i
    <3>1. /\ got = <<>> /\ buf = <<>> /\ drain = <<>> /\ held = Idle /\ ~stream
          /\ Len(pendingRecv) = Off /\ \A i \in 1..Off : pendingRecv[i] = i
      BY <1>1, <2>1 DEF PlaceInv
    <3>2. pendingRecv' = Append(pendingRecv, d) /\ held' = Idle
      BY <1>1, <3>1
    <3> QED BY <1>1, <1>2, <1>3, <1>6, <3>1, <3>2
  <2>2. held' \in Data => held' = Off'
    BY <1>1, <1>2, <1>3
  <2>3. stream' \/ held' # Idle \/ drainClosed' => pendingRecv' = <<>>
    BY <1>1, <1>9 DEF PlaceInv
  <2>4. inbound' /\ reg' = "draining" => held' = Idle
    BY <1>1
  <2>5. drain' # <<>> => reg' = "draining"
    BY <1>1 DEF PlaceInv
  <2>6. ~(held' = Close \/ pendingClosed' \/ drainClosed')
    BY <1>1, <1>2, <1>9
  <2> QED BY <2>1, <2>2, <2>3, <2>4, <2>5, <2>6 DEF PlaceInv
<1>11. OnceOnly'
  <2>1. Off' - Holds' = Off \/ Off' - Holds' = Off + 1
    BY <1>3, <1>8
  <2>2. \A x \in Nat : x <= Off - Holds => x <= Off' - Holds'
    BY <1>3, <1>8, <2>1
  <2>3. \A i \in 1..Len(flow) : flow[i] <= Off' - Holds'
    BY <2>2, FlowType DEF OnceOnly
  <2>4. \A i \in 1..Len(drain) : drain[i] <= Off' - Holds'
    BY <2>2, FlowType DEF OnceOnly
  <2> QED BY <1>1, <1>4, <2>3, <2>4 DEF OnceOnly
<1>12. InTurn'
  <2> SUFFICES ASSUME Orderly
               PROVE  /\ Len(flow) <= Off' /\ \A i \in 1..Len(flow) : flow[i] = i
                      /\ ~closed => /\ Len(flow) + Len(drain) + Holds' + Len(pendingRecv') = Off'
                                    /\ \A i \in 1..Len(drain) : drain[i] = Len(flow) + i
    BY <1>1, <1>4 DEF InTurn
  <2>1. Len(flow) \in Nat /\ Len(drain) \in Nat /\ Len(pendingRecv) \in Nat
    BY FlowType
  <2>2. Holds' + Len(pendingRecv') = Holds + Len(pendingRecv) + 1
    BY <1>1, <1>6, <1>8, <2>1
  <2>3. ~closed => Len(flow) + Len(drain) + Holds' + Len(pendingRecv') = Off'
    BY <1>1, <1>3, <1>6, <1>8, <2>1 DEF InTurn
  <2> QED BY <1>3, <2>1, <2>3 DEF InTurn
<1>13. AllIn'
  BY <1>1, <1>4 DEF AllIn
<1> QED BY <1>3, <1>7, <1>10, <1>11, <1>12, <1>13

(* What feed does to the stream: a closed one takes nothing.               *)
LEMMA FlowFed ==
  ASSUME FlowTypes, NEW d \in Data, buf' = Fed(d), got' = got
  PROVE  /\ buf' \in Seq(Data)
         /\ closed => flow' = flow
         /\ ~closed => /\ Len(flow') = Len(flow) + 1 /\ flow'[Len(flow) + 1] = d
                       /\ \A i \in 1..Len(flow) : flow'[i] = flow[i]
                       /\ \A i \in 1..Len(flow') : i \in 1..Len(flow) \/ i = Len(flow) + 1
<1>0. buf \in Seq(Data) /\ got \in Seq(Data) /\ flow \in Seq(Data)
  BY FlowType DEF FlowTypes
<1>1. CASE closed
  BY <1>0, <1>1 DEF Fed, flow
<1>2. CASE ~closed
  <2>1. buf' = Append(buf, d)
    BY <1>2 DEF Fed
  <2>2. got \o Append(buf, d) = Append(got \o buf, d)
    BY <1>0
  <2>3. flow' = Append(flow, d)
    BY <2>1, <2>2 DEF flow
  <2>4. Append(buf, d) \in Seq(Data)
    BY <1>0
  <2>5. /\ Len(flow) \in Nat /\ Len(flow') = Len(flow) + 1 /\ flow'[Len(flow) + 1] = d
        /\ \A i \in 1..Len(flow) : flow'[i] = flow[i]
        /\ \A i \in 1..(Len(flow) + 1) : i \in 1..Len(flow) \/ i = Len(flow) + 1
    BY <1>0, <2>3, AppendFacts
  <2> QED BY <1>2, <2>1, <2>4, <2>5
<1> QED BY <1>1, <1>2

(* The read loop does not come between the drain and its data.             *)
LEMMA NoRace ==
  ASSUME PlaceInv, held # Idle, Races, inbound' = inbound, Orderly'
  PROVE  Orderly /\ drain = <<>>
<1>1. raced' = (raced \/ (reg = "draining" /\ drain # <<>>))
  BY DEF Races
<1>2. CASE inbound
  BY <1>2 DEF PlaceInv, Orderly
<1>3. CASE ~inbound
  <2>1. ~raced'
    BY <1>3 DEF Orderly
  <2>2. ~raced /\ ~(reg = "draining" /\ drain # <<>>)
    BY <1>1, <2>1
  <2> QED BY <2>2 DEF PlaceInv, Orderly
<1> QED BY <1>2, <1>3

LEMMA FlowFeeds ==
  ASSUME FlowInv, Feed, UNCHANGED mine
  PROVE  FlowInv'
<1> USE DEF FlowInv
<1>1. /\ UNCHANGED <<inbound, sent, ended, wire, reg, stream, pendingRecv, pendingClosed, drain, drainClosed>>
      /\ UNCHANGED <<closed, got, eof, gone, shut>>
      /\ held \in Data /\ buf' = Fed(held) /\ held' = Idle /\ Races
  BY DEF Feed, node, side, drainv, app, mine
<1>2. WireInv' /\ Off' = Off /\ Off \in Nat
  BY <1>1, WireRests, OnTheWire
<1>3. held = Off /\ held # Idle /\ Idle \notin Data /\ pendingRecv = <<>> /\ reg \notin {"none", "called"}
  BY <1>1, StreamAssumption DEF PlaceInv
<1>4. Holds = 1 /\ Holds' = 0
  BY <1>1, <1>3 DEF Holds
<1>5. /\ buf' \in Seq(Data)
      /\ closed => flow' = flow
      /\ ~closed => /\ Len(flow') = Len(flow) + 1 /\ flow'[Len(flow) + 1] = Off
                    /\ \A i \in 1..Len(flow) : flow'[i] = flow[i]
                    /\ \A i \in 1..Len(flow') : i \in 1..Len(flow) \/ i = Len(flow) + 1
  BY <1>1, <1>3, FlowFed
<1>6. FlowTypes'
  BY <1>1, <1>5 DEF FlowTypes
<1>7. /\ Len(flow) \in Nat /\ Len(drain) \in Nat /\ Len(pendingRecv) = 0
      /\ \A i \in 1..Len(flow) : flow[i] \in Nat
      /\ \A i \in 1..Len(drain) : drain[i] \in Nat
  BY <1>3, FlowType
<1>8. PlaceInv'
  <2>1. drain # <<>> => reg = "draining"
    BY DEF PlaceInv
  <2>2. pendingClosed \/ drainClosed => ended /\ wire = <<>>
    BY DEF PlaceInv
  <2>3. held' # Close
    BY <1>1, StreamAssumption
  <2>4. reg' \notin {"none", "called"} /\ held' = Idle /\ held' \notin Data /\ pendingRecv' = <<>>
    BY <1>1, <1>3
  <2>5. drain' # <<>> => reg' = "draining"
    BY <1>1, <2>1
  <2>6. pendingClosed' \/ drainClosed' => ended' /\ wire' = <<>>
    BY <1>1, <2>2
  <2> QED BY <2>3, <2>4, <2>5, <2>6 DEF PlaceInv
<1>9. OnceOnly'
  <2>1. /\ \A i \in 1..Len(flow) : flow[i] < Off /\ flow[i] <= Off
        /\ \A i \in 1..Len(drain) : drain[i] < Off /\ drain[i] <= Off
    BY <1>2, <1>4, <1>7 DEF OnceOnly
  <2>2. CASE closed
    BY <1>1, <1>2, <1>4, <1>5, <2>1, <2>2 DEF OnceOnly
  <2>3. CASE ~closed
    <3>1. \A i \in 1..Len(flow) : flow[i] # Off
      BY <1>2, <1>7, <2>1
    <3>2. \A i \in 1..Len(drain) : drain[i] # Off
      BY <1>2, <1>7, <2>1
    <3>3. \A i \in 1..Len(flow') : flow'[i] <= Off' - Holds'
      BY <1>2, <1>4, <1>5, <2>1, <2>3
    <3>4. ASSUME NEW i \in 1..Len(flow'), NEW j \in 1..Len(flow'), i # j PROVE flow'[i] # flow'[j]
      <4>1. (i \in 1..Len(flow) \/ i = Len(flow) + 1) /\ (j \in 1..Len(flow) \/ j = Len(flow) + 1)
        BY <1>5, <2>3
      <4>2. CASE i \in 1..Len(flow) /\ j \in 1..Len(flow)
        BY <1>5, <2>3, <3>4, <4>2 DEF OnceOnly
      <4>3. CASE i \in 1..Len(flow) /\ j = Len(flow) + 1
        BY <1>5, <2>3, <3>1, <4>3
      <4>4. CASE i = Len(flow) + 1 /\ j \in 1..Len(flow)
        BY <1>5, <2>3, <3>1, <4>4
      <4> QED BY <3>4, <4>1, <4>2, <4>3, <4>4
    <3>5. ASSUME NEW i \in 1..Len(flow'), NEW j \in 1..Len(drain) PROVE flow'[i] # drain[j]
      <4>1. i \in 1..Len(flow) \/ i = Len(flow) + 1
        BY <1>5, <2>3
      <4> QED BY <1>5, <2>3, <3>2, <4>1 DEF OnceOnly
    <3>6. \A i \in 1..Len(drain) : drain[i] <= Off' - Holds'
      BY <1>2, <1>4, <2>1
    <3> QED BY <1>1, <3>3, <3>4, <3>5, <3>6 DEF OnceOnly
  <2> QED BY <2>2, <2>3
<1>10. InTurn'
  <2> SUFFICES ASSUME Orderly' PROVE InTurn'
    BY DEF InTurn
  <2>1. Orderly /\ drain = <<>>
    BY <1>1, <1>3, NoRace
  <2>2. Len(flow) <= Off /\ (\A i \in 1..Len(flow) : flow[i] = i) /\ Len(drain) = 0
        /\ (~closed => Len(flow) + 1 = Off)
    BY <1>2, <1>4, <1>7, <2>1 DEF InTurn
  <2>3. CASE closed
    BY <1>1, <1>2, <1>5, <2>2, <2>3 DEF InTurn
  <2>4. CASE ~closed
    <3>1. \A i \in 1..Len(flow') : flow'[i] = i
      BY <1>5, <2>2, <2>4
    <3>2. Len(flow') <= Off' /\ Len(flow') + Len(drain') + Holds' + Len(pendingRecv') = Off'
      BY <1>1, <1>2, <1>4, <1>5, <1>7, <2>2, <2>4
    <3>3. 1..Len(drain') = {}
      BY <1>1, <2>2
    <3> QED BY <3>1, <3>2, <3>3 DEF InTurn
  <2> QED BY <2>3, <2>4
<1>11. AllIn'
  <2> SUFFICES ASSUME Orderly', ~shut' PROVE AllIn'
    BY DEF AllIn
  <2>1. Orderly /\ ~shut
    BY <1>1, <1>3, NoRace
  <2> QED BY <1>1, <1>5, <2>1 DEF AllIn
<1> QED BY <1>2, <1>6, <1>8, <1>9, <1>10, <1>11

LEMMA FlowOnClose ==
  ASSUME FlowInv, OnClose, UNCHANGED mine
  PROVE  FlowInv'
<1> USE DEF FlowInv
<1>1. /\ UNCHANGED <<inbound, raced, sent, ended, reg, pendingRecv, drain, drainClosed>>
      /\ UNCHANGED <<buf, closed, got, eof, gone, shut>>
      /\ wire # <<>> /\ wire' = Tail(wire) /\ Head(wire) = Close /\ held = Idle /\ stream' = FALSE
      /\ inbound => reg \in {"none", "done"}
      /\ stream => held' = Close /\ pendingClosed' = pendingClosed
      /\ ~stream => held' = held
  BY DEF OnClose, Ready, kind, node, side, drainv, app, mine
<1>2. Len(wire) = 1 /\ ended /\ reg # "none" /\ Close \notin Data /\ Close # Begin /\ Idle \notin Data
  BY <1>1, WireHead, StreamAssumption
<1>3. WireInv' /\ Off' = Off
  BY <1>1, <1>2, WireTakes
<1>4. wire' = <<>>
  BY <1>1, <1>2, TailFacts DEF WireInv
<1>5. Holds = 0 /\ Holds' = 0
  BY <1>1, <1>2 DEF Holds
<1>6. flow' = flow /\ FlowTypes' /\ (Orderly' <=> Orderly)
  BY <1>1 DEF flow, FlowTypes, Orderly
<1>7. OnceOnly' /\ InTurn'
  BY <1>1, <1>3, <1>5, <1>6, OnceRests, TurnRests
<1>8. PlaceInv'
  <2>1. ~drainClosed
    BY <1>1 DEF PlaceInv
  <2> QED BY <1>1, <1>2, <1>3, <1>4, <2>1 DEF PlaceInv
<1>9. AllIn'
  BY <1>1, <1>6 DEF AllIn
<1> QED BY <1>3, <1>6, <1>7, <1>8, <1>9

LEMMA WireEmpty ==
  ASSUME WireInv, wire = <<>>
  PROVE  Off = sent
<1>1. reg # "none"
  BY OnTheWire
<1> QED BY <1>1, OnTheWire

LEMMA FlowMarkClosed ==
  ASSUME FlowInv, MarkClosed, UNCHANGED mine
  PROVE  FlowInv'
<1> USE DEF FlowInv
<1>1. /\ UNCHANGED <<inbound, sent, ended, wire, reg, stream, pendingRecv, pendingClosed, drain, drainClosed>>
      /\ UNCHANGED <<buf, got, eof, gone, shut>>
      /\ held = Close /\ closed' = TRUE /\ held' = Idle /\ Races
  BY DEF MarkClosed, Closes, node, side, drainv, app, mine
<1>2. WireInv' /\ Off' = Off
  BY <1>1, WireRests
<1>3. held # Idle /\ Close \notin Data /\ Idle \notin Data /\ ended /\ wire = <<>> /\ pendingRecv = <<>>
  BY <1>1, StreamAssumption DEF PlaceInv
<1>4. Holds = 0 /\ Holds' = 0 /\ flow' = flow
  BY <1>1, <1>3 DEF Holds, flow
<1>5. FlowTypes'
  BY <1>1 DEF FlowTypes
<1>6. Orderly' => Orderly /\ drain = <<>>
  BY <1>1, <1>3, NoRace
<1>7. OnceOnly' /\ InTurn'
  BY <1>1, <1>2, <1>4, <1>6, OnceRests, TurnRests
<1>8. PlaceInv'
  BY <1>1, <1>2, <1>3 DEF PlaceInv
<1>9. AllIn'
  <2> SUFFICES ASSUME Orderly', ~shut' PROVE AllIn'
    BY DEF AllIn
  <2>1. Orderly /\ ~shut /\ drain = <<>>
    BY <1>1, <1>6
  <2>2. gone = "no" => Len(flow) = sent
    <3>1. CASE closed
      BY <2>1, <3>1 DEF AllIn
    <3>2. CASE ~closed
      <4>1. Len(flow) + Len(drain) + Holds + Len(pendingRecv) = Off
        BY <2>1, <3>2 DEF InTurn
      <4>2. Len(drain) = 0 /\ Len(pendingRecv) = 0 /\ Len(flow) \in Nat
        BY <1>3, <2>1, FlowType
      <4> QED BY <1>3, <1>4, <4>1, <4>2, WireEmpty
    <3> QED BY <3>1, <3>2
  <2> QED BY <1>1, <1>3, <1>4, <2>1, <2>2 DEF AllIn
<1> QED BY <1>2, <1>5, <1>7, <1>8, <1>9

LEMMA FlowRegister ==
  ASSUME FlowInv, Register, UNCHANGED mine
  PROVE  FlowInv'
<1> USE DEF FlowInv
<1>1. /\ UNCHANGED <<inbound, raced, sent, ended, wire, held, buf, closed, got, eof, gone, shut>>
      /\ reg = "called" /\ reg' = "draining" /\ drain' = pendingRecv /\ drainClosed' = pendingClosed
      /\ pendingRecv' = <<>> /\ pendingClosed' = FALSE
  BY DEF Register, kind, node, app, mine
<1>2. WireInv' /\ Off' = Off /\ Off \in Nat
  BY <1>1, WireRests, OnTheWire
<1>3. /\ got = <<>> /\ buf = <<>> /\ held = Idle /\ Idle \notin Data
      /\ Len(pendingRecv) = Off /\ \A i \in 1..Off : pendingRecv[i] = i
  BY <1>1, StreamAssumption DEF PlaceInv
<1>4. Holds = 0 /\ Holds' = 0 /\ flow' = flow /\ (Orderly' <=> Orderly)
  BY <1>1, <1>3 DEF Holds, flow, Orderly
<1>5. Len(flow) = 0
  BY <1>3, FlowType
<1>6. FlowTypes'
  <2>1. <<>> \in Seq(Data)
    OBVIOUS
  <2> QED BY <1>1, <2>1 DEF FlowTypes
<1>7. PlaceInv'
  BY <1>1, <1>2, <1>3 DEF PlaceInv
<1>8. OnceOnly'
  <2>1. 1..Len(flow') = {}
    BY <1>4, <1>5
  <2>2. \A i \in 1..Len(drain') : drain'[i] <= Off' - Holds' /\ drain'[i] = i
    BY <1>1, <1>2, <1>3, <1>4
  <2> QED BY <2>1, <2>2 DEF OnceOnly
<1>9. InTurn'
  <2>1. Len(flow') = 0 /\ Len(drain') = Off /\ Len(pendingRecv') = 0 /\ 1..Len(flow') = {}
    BY <1>1, <1>3, <1>4, <1>5
  <2>2. \A i \in 1..Len(drain') : drain'[i] = Len(flow') + i
    BY <1>1, <1>3, <2>1
  <2> QED BY <1>2, <1>4, <2>1, <2>2 DEF InTurn
<1>10. AllIn'
  BY <1>1, <1>4 DEF AllIn
<1> QED BY <1>2, <1>6, <1>7, <1>8, <1>9, <1>10

LEMMA FlowDrains ==
  ASSUME FlowInv, Drain, UNCHANGED mine
  PROVE  FlowInv'
<1> USE DEF FlowInv
<1> DEFINE d == Head(drain)
           n == Len(drain)
<1>1. /\ UNCHANGED <<inbound, raced, sent, ended, wire, held, reg, stream, pendingRecv, pendingClosed, drainClosed>>
      /\ UNCHANGED <<closed, got, eof, gone, shut>>
      /\ reg = "draining" /\ drain # <<>> /\ buf' = Fed(d) /\ drain' = Tail(drain)
  BY DEF Drain, kind, node, side, app, mine
<1>2. WireInv' /\ Off' = Off /\ Off \in Nat
  BY <1>1, WireRests, OnTheWire
<1>3. /\ n \in Nat \ {0} /\ drain' \in Seq(Data) /\ Len(drain') = n - 1
      /\ \A i \in 1..(n - 1) : drain'[i] = drain[i + 1] /\ i + 1 \in 1..n
      /\ d = drain[1] /\ 1 \in 1..n /\ d \in Data
  <2>1. drain \in Seq(Data)
    BY DEF FlowTypes
  <2>2. /\ n \in Nat \ {0} /\ drain' \in Seq(Data) /\ Len(drain') = n - 1
        /\ \A i \in 1..(n - 1) : drain'[i] = drain[i + 1]
        /\ d = drain[1]
    BY <1>1, <2>1, TailFacts
  <2>3. 1 \in 1..n /\ \A i \in 1..(n - 1) : i + 1 \in 1..n
    BY <2>2
  <2>4. d \in Data
    BY <2>1, <2>2, <2>3
  <2> QED BY <2>2, <2>3, <2>4
<1> HIDE DEF d
<1>4. /\ buf' \in Seq(Data)
      /\ closed => flow' = flow
      /\ ~closed => /\ Len(flow') = Len(flow) + 1 /\ flow'[Len(flow) + 1] = d
                    /\ \A i \in 1..Len(flow) : flow'[i] = flow[i]
                    /\ \A i \in 1..Len(flow') : i \in 1..Len(flow) \/ i = Len(flow) + 1
  BY <1>1, <1>3, FlowFed
<1>5. FlowTypes' /\ Holds' = Holds /\ Holds \in {0, 1} /\ (Orderly' <=> Orderly)
  BY <1>1, <1>3, <1>4 DEF FlowTypes, Holds, Orderly
<1>6. Len(flow) \in Nat /\ Len(pendingRecv) \in Nat
  BY FlowType
<1>7. PlaceInv'
  BY <1>1, <1>2 DEF PlaceInv
<1>8. /\ \A i \in 1..n : drain[i] <= Off - Holds /\ \A j \in 1..n : i # j => drain[i] # drain[j]
      /\ \A i \in 1..Len(flow) : /\ flow[i] <= Off - Holds
                                 /\ \A j \in 1..Len(flow) : i # j => flow[i] # flow[j]
                                 /\ \A j \in 1..n : flow[i] # drain[j]
  BY DEF OnceOnly
<1> HIDE DEF n
<1>9. OnceOnly'
  <2>1. ASSUME NEW i \in 1..(n - 1)
        PROVE  /\ drain'[i] <= Off - Holds /\ drain'[i] # d
               /\ \A j \in 1..(n - 1) : i # j => drain'[i] # drain'[j]
               /\ \A j \in 1..Len(flow) : flow[j] # drain'[i]
    <3>1. i + 1 \in 1..n /\ drain'[i] = drain[i + 1] /\ i + 1 # 1
      BY <1>3
    <3>2. \A j \in 1..(n - 1) : i # j => i + 1 # j + 1
      BY <1>3
    <3> QED BY <1>3, <1>8, <3>1, <3>2
  <2>2. CASE closed
    BY <1>2, <1>3, <1>4, <1>5, <1>8, <2>1, <2>2 DEF OnceOnly
  <2>3. CASE ~closed
    <3>1. ASSUME NEW i \in 1..Len(flow')
          PROVE  /\ flow'[i] <= Off' - Holds'
                 /\ \A j \in 1..(n - 1) : flow'[i] # drain'[j]
      <4>1. CASE i \in 1..Len(flow)
        BY <1>2, <1>4, <1>5, <1>8, <2>1, <2>3, <4>1
      <4>2. CASE i = Len(flow) + 1
        BY <1>2, <1>3, <1>4, <1>5, <1>8, <2>1, <2>3, <4>2
      <4> QED BY <1>4, <2>3, <4>1, <4>2
    <3>2. ASSUME NEW i \in 1..Len(flow'), NEW j \in 1..Len(flow'), i # j PROVE flow'[i] # flow'[j]
      <4>1. (i \in 1..Len(flow) \/ i = Len(flow) + 1) /\ (j \in 1..Len(flow) \/ j = Len(flow) + 1)
        BY <1>4, <2>3
      <4>2. \A k \in 1..Len(flow) : flow[k] # d
        BY <1>3, <1>8
      <4>3. CASE i \in 1..Len(flow) /\ j \in 1..Len(flow)
        BY <1>4, <1>8, <2>3, <3>2, <4>3
      <4>4. CASE i \in 1..Len(flow) /\ j = Len(flow) + 1
        BY <1>4, <2>3, <4>2, <4>4
      <4>5. CASE i = Len(flow) + 1 /\ j \in 1..Len(flow)
        BY <1>4, <2>3, <4>2, <4>5
      <4> QED BY <3>2, <4>1, <4>3, <4>4, <4>5
    <3> QED BY <1>2, <1>3, <1>5, <2>1, <3>1, <3>2 DEF OnceOnly
  <2> QED BY <2>2, <2>3
<1>10. InTurn'
  <2> SUFFICES ASSUME Orderly PROVE InTurn'
    BY <1>5 DEF InTurn
  <2>1. Len(flow) <= Off /\ \A i \in 1..Len(flow) : flow[i] = i
    BY DEF InTurn
  <2>2. CASE closed
    BY <1>1, <1>2, <1>4, <2>1, <2>2 DEF InTurn
  <2>3. CASE ~closed
    <3>1. Len(flow) + n + Holds + Len(pendingRecv) = Off /\ \A i \in 1..n : drain[i] = Len(flow) + i
      BY <2>3 DEF InTurn, n
    <3>2. d = Len(flow) + 1
      BY <1>3, <3>1
    <3>3. \A i \in 1..Len(flow') : flow'[i] = i
      BY <1>4, <2>1, <2>3, <3>2
    <3>4. ASSUME NEW i \in 1..Len(drain') PROVE drain'[i] = Len(flow') + i
      <4>1. i \in 1..(n - 1) /\ i \in Nat
        BY <1>3
      <4>2. drain'[i] = drain[i + 1] /\ i + 1 \in 1..n
        BY <1>3, <4>1
      <4>3. drain[i + 1] = Len(flow) + (i + 1)
        BY <3>1, <4>2
      <4>4. Len(flow') = Len(flow) + 1
        BY <1>4, <2>3
      <4> QED BY <1>6, <4>1, <4>2, <4>3, <4>4
    <3>5. Len(flow') <= Off' /\ Len(flow') + Len(drain') + Holds' + Len(pendingRecv') = Off'
      <4>1. /\ Len(flow') = Len(flow) + 1 /\ Len(drain') = n - 1 /\ Holds' = Holds
            /\ Len(pendingRecv') = Len(pendingRecv) /\ Off' = Off
        BY <1>1, <1>2, <1>3, <1>4, <1>5, <2>3
      <4>2. n \in Nat /\ n # 0 /\ Holds \in Nat
        BY <1>3, <1>5
      <4> QED BY <1>6, <3>1, <4>1, <4>2
    <3> QED BY <3>3, <3>4, <3>5 DEF InTurn
  <2> QED BY <2>2, <2>3
<1>11. AllIn'
  BY <1>1, <1>4, <1>5 DEF AllIn
<1> QED BY <1>2, <1>5, <1>7, <1>9, <1>10, <1>11

LEMMA FlowRegistered ==
  ASSUME FlowInv, Registered, UNCHANGED mine
  PROVE  FlowInv'
<1> USE DEF FlowInv
<1>1. /\ UNCHANGED <<inbound, raced, sent, ended, wire, held, stream, pendingRecv, pendingClosed, drain, drainClosed>>
      /\ UNCHANGED <<buf, got, eof, gone, shut>>
      /\ reg = "draining" /\ reg' = "done" /\ drain = <<>>
      /\ closed' = (closed \/ drainClosed)
  BY DEF Registered, kind, node, side, drainv, app, mine
<1>2. WireInv' /\ Off' = Off
  BY <1>1, WireRests
<1>3. Holds' = Holds /\ flow' = flow /\ FlowTypes' /\ (Orderly' <=> Orderly)
  BY <1>1 DEF Holds, flow, FlowTypes, Orderly
<1>4. OnceOnly' /\ InTurn'
  BY Zenon, <1>1, <1>2, <1>3, OnceRests, TurnRests
<1>5. PlaceInv'
  BY <1>1, <1>2 DEF PlaceInv
<1>6. AllIn'
  <2> SUFFICES ASSUME Orderly, ~shut PROVE AllIn'
    BY <1>1, <1>3 DEF AllIn
  <2>1. ASSUME closed', gone = "no" PROVE ended /\ Len(flow) = sent
    <3>1. CASE closed
      BY <2>1, <3>1 DEF AllIn
    <3>2. CASE ~closed
      <4>1. drainClosed
        BY Zenon, <1>1, <2>1, <3>2
      <4>2. ended /\ wire = <<>> /\ held = Idle /\ pendingRecv = <<>> /\ Idle \notin Data
        BY <4>1, StreamAssumption DEF PlaceInv
      <4>3. Len(flow) + Len(drain) + Holds + Len(pendingRecv) = Off
        BY <3>2 DEF InTurn
      <4>4. Len(drain) = 0 /\ Len(pendingRecv) = 0 /\ Holds = 0 /\ Len(flow) \in Nat
        BY <1>1, <4>2, FlowType DEF Holds
      <4> QED BY <4>2, <4>3, <4>4, WireEmpty
    <3> QED BY <3>1, <3>2
  <2> QED BY <1>1, <1>3, <2>1 DEF AllIn
<1> QED BY <1>2, <1>3, <1>4, <1>5, <1>6

LEMMA JoinFacts ==
  ASSUME NEW S, NEW s \in Seq(S), NEW t \in Seq(S)
  PROVE  /\ s \o t \in Seq(S) /\ Len(s) \in Nat /\ Len(t) \in Nat /\ Len(s \o t) = Len(s) + Len(t)
         /\ \A i \in 1..Len(s) : (s \o t)[i] = s[i]
         /\ \A i \in 1..Len(t) : (s \o t)[Len(s) + i] = t[i]
  OBVIOUS

LEMMA SameSeq ==
  ASSUME NEW S, NEW s \in Seq(S), NEW t \in Seq(S), Len(s) = Len(t), \A i \in 1..Len(s) : s[i] = t[i]
  PROVE  s = t
  OBVIOUS

(* Read takes from the front of buf what it adds to got.                   *)
LEMMA ReadMoves ==
  ASSUME NEW S, NEW s \in Seq(S), NEW t \in Seq(S), NEW n \in 1..Len(t)
  PROVE  /\ s \o SubSeq(t, 1, n) \in Seq(S) /\ SubSeq(t, n + 1, Len(t)) \in Seq(S)
         /\ (s \o SubSeq(t, 1, n)) \o SubSeq(t, n + 1, Len(t)) = s \o t
         /\ Len(s) <= Len(s \o SubSeq(t, 1, n))
         /\ \A i \in 1..Len(s) : (s \o SubSeq(t, 1, n))[i] = s[i]
<1> DEFINE l == SubSeq(t, 1, n)
           r == SubSeq(t, n + 1, Len(t))
           u == s \o l
           v == u \o r
           w == s \o t
<1>1. Len(t) \in Nat /\ n \in Nat /\ n <= Len(t) /\ Len(s) \in Nat
  OBVIOUS
<1>2. l \in Seq(S) /\ Len(l) = n /\ \A i \in 1..n : l[i] = t[i]
  BY <1>1
<1>3. r \in Seq(S) /\ Len(r) = Len(t) - n /\ \A i \in 1..(Len(t) - n) : r[i] = t[n + i]
  BY <1>1
<1> HIDE DEF l, r
<1>4. /\ u \in Seq(S) /\ Len(u) = Len(s) + n
      /\ \A i \in 1..Len(s) : u[i] = s[i]
      /\ \A i \in 1..n : u[Len(s) + i] = l[i]
  <2>1. /\ u \in Seq(S) /\ Len(u) = Len(s) + Len(l)
        /\ \A i \in 1..Len(s) : u[i] = s[i]
        /\ \A i \in 1..Len(l) : u[Len(s) + i] = l[i]
    <3>1. l \in Seq(S)
      BY <1>2
    <3> QED BY <3>1, JoinFacts
  <2> HIDE DEF u
  <2> QED BY <1>2, <2>1
<1> HIDE DEF u
<1>5. /\ v \in Seq(S) /\ Len(v) = Len(u) + Len(r)
      /\ \A i \in 1..Len(u) : v[i] = u[i]
      /\ \A i \in 1..Len(r) : v[Len(u) + i] = r[i]
  <2>1. u \in Seq(S) /\ r \in Seq(S)
    BY <1>3, <1>4
  <2> QED BY <2>1, JoinFacts
<1>6. /\ w \in Seq(S) /\ Len(w) = Len(s) + Len(t)
      /\ \A i \in 1..Len(s) : w[i] = s[i]
      /\ \A i \in 1..Len(t) : w[Len(s) + i] = t[i]
  BY JoinFacts
<1> HIDE DEF v, w
<1>7. Len(v) = Len(w)
  BY <1>1, <1>3, <1>4, <1>5, <1>6
<1>8. ASSUME NEW i \in 1..Len(v) PROVE v[i] = w[i]
  <2>0. i \in Nat /\ i >= 1 /\ i <= Len(s) + Len(t)
    BY <1>1, <1>6, <1>7
  <2>1. CASE i <= Len(s)
    <3>1. i \in 1..Len(s) /\ i \in 1..Len(u)
      BY <1>1, <1>4, <2>0, <2>1
    <3> QED BY <1>4, <1>5, <1>6, <3>1
  <2>2. CASE i > Len(s) /\ i <= Len(s) + n
    <3>1. PICK k \in 1..n : i = Len(s) + k
      <4>1. i - Len(s) \in 1..n /\ i = Len(s) + (i - Len(s))
        BY <1>1, <2>0, <2>2
      <4> QED BY <4>1
    <3>2. k \in 1..Len(t) /\ i \in 1..Len(u)
      BY <1>1, <1>4, <2>0, <2>2
    <3>3. v[i] = u[i] /\ u[i] = l[k] /\ l[k] = t[k] /\ w[i] = t[k]
      BY <1>2, <1>4, <1>5, <1>6, <3>1, <3>2
    <3> QED BY <3>3
  <2>3. CASE i > Len(s) + n
    <3>1. PICK k \in 1..(Len(t) - n) : i = Len(s) + n + k
      <4>1. i - Len(s) - n \in 1..(Len(t) - n) /\ i = Len(s) + n + (i - Len(s) - n)
        BY <1>1, <2>0, <2>3
      <4> QED BY <4>1
    <3>2. n + k \in 1..Len(t) /\ i = Len(u) + k /\ i = Len(s) + (n + k) /\ k \in 1..Len(r)
      BY <1>1, <1>3, <1>4, <3>1
    <3>3. v[i] = r[k] /\ r[k] = t[n + k]
      BY <1>3, <1>5, <3>1, <3>2
    <3>4. w[i] = t[n + k]
      BY <1>6, <3>2
    <3> QED BY <3>3, <3>4
  <2> QED BY <1>1, <2>0, <2>1, <2>2, <2>3
<1>9. v = w
  BY Zenon, <1>5, <1>6, <1>7, <1>8, SameSeq
<1>10. Len(s) <= Len(u) /\ \A i \in 1..Len(s) : u[i] = s[i]
  BY <1>1, <1>4
<1>11. u \in Seq(S) /\ r \in Seq(S)
  BY <1>3, <1>4
<1>12. (s \o l) \o r = s \o t /\ u = s \o l
  BY <1>9 DEF u, v, w
<1> QED BY Zenon, <1>10, <1>11, <1>12 DEF l, r

LEMMA FlowReads ==
  ASSUME FlowInv, Owner, UNCHANGED mine
  PROVE  FlowInv'
<1> USE DEF FlowInv
<1>1. /\ UNCHANGED <<inbound, raced, sent, ended, wire, held, reg, stream, pendingRecv, pendingClosed, drain, drainClosed>>
      /\ UNCHANGED <<closed, gone, shut>> /\ reg = "done" /\ gone = "no" /\ ~eof
  BY DEF Owner, Read, ReadEOF, Reading, kind, node, side, drainv, mine
<1>2. WireInv' /\ Off' = Off
  BY <1>1, WireRests
<1>3. buf \in Seq(Data) /\ got \in Seq(Data)
  BY DEF FlowTypes
<1>4. flow' = flow /\ buf' \in Seq(Data) /\ got' \in Seq(Data)
  <2>1. CASE Read
    <3>1. PICK n \in 1..Len(buf) : got' = got \o SubSeq(buf, 1, n) /\ buf' = SubSeq(buf, n + 1, Len(buf))
      BY Zenon, <2>1 DEF Read
    <3> QED BY <1>3, <3>1, ReadMoves DEF flow
  <2>2. CASE ReadEOF
    BY <1>3, <2>2 DEF ReadEOF, flow
  <2> QED BY <2>1, <2>2 DEF Owner
<1>5. Holds' = Holds /\ FlowTypes' /\ (Orderly' <=> Orderly)
  BY <1>1, <1>4 DEF Holds, FlowTypes, Orderly
<1>6. OnceOnly' /\ InTurn'
  BY <1>1, <1>2, <1>4, <1>5, OnceRests, TurnRests
<1>7. PlaceInv'
  BY <1>1, <1>2 DEF PlaceInv
<1>8. AllIn'
  <2>1. CASE Read
    BY <1>1, <1>4, <1>5, <2>1 DEF AllIn, Read
  <2>2. CASE ReadEOF
    <3>1. closed /\ buf = <<>> /\ got' = got
      BY <2>2 DEF ReadEOF
    <3>2. Len(flow) = Len(got)
      BY <1>3, <3>1, FlowType
    <3> QED BY <1>1, <1>4, <1>5, <3>1, <3>2 DEF AllIn
  <2> QED BY <2>1, <2>2 DEF Owner
<1> QED BY <1>2, <1>5, <1>6, <1>7, <1>8

(* Our side closes or gives the stream up.                                 *)
LEMMA FlowLeaves ==
  ASSUME FlowInv, \/ (Leave \/ CloseStream) /\ shut' = shut
                  \/ CloseRW
                  \/ UNCHANGED <<vars, shut>>
  PROVE  FlowInv'
<1> USE DEF FlowInv
<1>1. /\ UNCHANGED <<inbound, raced, sent, ended, wire, held, reg, pendingRecv, pendingClosed, drain, drainClosed>>
      /\ UNCHANGED <<buf, got, eof>> /\ (stream' => stream) /\ (~closed' => ~closed)
      /\ shut' \/ (shut' = shut /\ (closed' /\ gone' = "no" => closed /\ gone = "no"))
  <2>1. CASE Leave /\ shut' = shut
    BY Zenon, <2>1 DEF Leave, Stays, kind, node, side, drainv
  <2>2. CASE CloseStream /\ shut' = shut
    BY <2>2 DEF CloseStream, kind, node, side, drainv
  <2>3. CASE CloseRW
    BY <2>3 DEF CloseRW, theirs, kind, node, side, drainv, app
  <2>4. CASE UNCHANGED <<vars, shut>>
    BY <2>4 DEF vars
  <2> QED BY <2>1, <2>2, <2>3, <2>4
<1>2. WireInv' /\ Off' = Off
  BY <1>1, WireRests
<1>3. Holds' = Holds /\ flow' = flow /\ FlowTypes' /\ (Orderly' <=> Orderly)
  BY <1>1 DEF Holds, flow, FlowTypes, Orderly
<1>4. OnceOnly' /\ InTurn'
  BY <1>1, <1>2, <1>3, OnceRests, TurnRests
<1>5. PlaceInv'
  BY <1>1, <1>2 DEF PlaceInv
<1>6. AllIn'
  BY <1>1, <1>3 DEF AllIn
<1> QED BY Zenon, <1>2, <1>3, <1>4, <1>5, <1>6

-----------------------------------------------------------------------------
(* The lines of the session.  What has been read only grows.               *)
GotGrows ==
  /\ got' \in Seq(Data) /\ Len(got) <= Len(got')
  /\ \A i \in 1..Len(got) : got'[i] = got[i]

LEMMA ReadGrows ==
  ASSUME FlowTypes, \/ Owner \/ UNCHANGED got
  PROVE  GotGrows
<1>1. got \in Seq(Data) /\ buf \in Seq(Data)
  BY DEF FlowTypes
<1>2. CASE Read
  <2>1. PICK n \in 1..Len(buf) : got' = got \o SubSeq(buf, 1, n)
    BY <1>2 DEF Read
  <2> QED BY <1>1, <2>1, ReadMoves DEF GotGrows
<1>3. CASE UNCHANGED got
  BY <1>1, <1>3 DEF GotGrows
<1> QED BY <1>2, <1>3 DEF Owner, ReadEOF

LEMMA LineTypes ==
  ASSUME StageInv, got \in Seq(Data)
  PROVE  /\ taken \in Nat /\ Len(got) \in Nat /\ Len(said) \in Nat /\ Len(queue) \in Nat
         /\ Given \in Nat /\ Given <= Len(got)
<1>1. taken \in Nat /\ taken <= Len(got) /\ (pump = "deliver" => taken > 0)
      /\ said \in Seq(Data) /\ queue \in Seq(Data)
  BY DEF StageInv
<1>2. Len(got) \in Nat /\ Len(said) \in Nat /\ Len(queue) \in Nat
  BY <1>1
<1> QED BY <1>1, <1>2 DEF Given

(* Neither run nor serveInbound moves, but for serveInbound's return.      *)
LEMMA LineRests ==
  ASSUME StageInv, LineInv, got \in Seq(Data), GotGrows,
         UNCHANGED <<taken, queue, loop, once, member, said, again>>,
         \/ pump' = pump
         \/ pump \notin {"deliver", "greet"} /\ pump' = "out" /\ (pump = "close" => once = "over")
  PROVE  StageInv' /\ LineInv'
<1>1. taken \in Nat /\ Len(got) \in Nat /\ Len(said) \in Nat /\ Len(queue) \in Nat
      /\ Given \in Nat /\ Given <= Len(got)
  BY LineTypes
<1>2. Len(got') \in Nat /\ Len(got) <= Len(got')
  BY DEF GotGrows
<1>3. taken' <= Len(got')
  <2>1. taken <= Len(got)
    BY DEF StageInv
  <2> QED BY <1>1, <1>2, <2>1
<1>4. StageInv'
  BY <1>3 DEF StageInv
<1>5. Given' = Given /\ (Says' => Says)
  BY DEF Given, Says, InSession
<1>6. ASSUME ~again' PROVE Len(said') <= Len(got') /\ \A i \in 1..Len(said') : said'[i] = got'[i]
  <2>1. Len(said) <= Len(got) /\ \A i \in 1..Len(said) : said[i] = got[i]
    BY <1>6 DEF LineInv
  <2>2. \A i \in 1..Len(said) : i \in 1..Len(got)
    BY <1>1, <2>1
  <2>3. Len(said') <= Len(got')
    BY <1>1, <1>2, <2>1
  <2> QED BY <2>1, <2>2, <2>3 DEF GotGrows
<1>7. ASSUME Says' PROVE /\ Len(said') + Len(queue') = Given'
                         /\ \A i \in 1..Len(said') : said'[i] = got'[i]
                         /\ \A i \in 1..Len(queue') : queue'[i] = got'[Len(said') + i]
  <2>1. /\ Len(said) + Len(queue) = Given
        /\ \A i \in 1..Len(said) : said[i] = got[i]
        /\ \A i \in 1..Len(queue) : queue[i] = got[Len(said) + i]
    BY <1>5, <1>7 DEF LineInv
  <2>2. \A i \in 1..Len(said) : i \in 1..Len(got)
    BY <1>1, <2>1
  <2>3. \A i \in 1..Len(queue) : Len(said) + i \in 1..Len(got)
    BY <1>1, <2>1
  <2> QED BY <1>5, <2>1, <2>2, <2>3 DEF GotGrows
<1> QED BY <1>4, <1>6, <1>7 DEF LineInv

(* The hub hears no line and none is queued.                               *)
LEMMA LineKept ==
  ASSUME StageInv, LineInv, got \in Seq(Data), UNCHANGED <<got, queue, said>>,
         again' = again \/ again', StageInv', Says' => Says /\ Given' = Given
  PROVE  LineInv'
<1>1. ~again' => Len(said') <= Len(got') /\ \A i \in 1..Len(said') : said'[i] = got'[i]
  BY DEF LineInv
<1>2. Says' => /\ Len(said') + Len(queue') = Given'
               /\ \A i \in 1..Len(said') : said'[i] = got'[i]
               /\ \A i \in 1..Len(queue') : queue'[i] = got'[Len(said') + i]
  BY DEF LineInv
<1> QED BY <1>1, <1>2 DEF LineInv

(* The first line is taken.                                                *)
LEMMA LineFirst ==
  ASSUME StageInv, LineInv, got \in Seq(Data), Promote \/ New
  PROVE  StageInv' /\ LineInv'
<1>1. /\ pump = "first" /\ taken < Len(got) /\ taken' = taken + 1
      /\ UNCHANGED <<got, queue, said, again>>
  BY DEF Promote, New, NextLine, vars
<1>2. taken = 0 /\ once = "no" /\ loop = "none" /\ member = "no" /\ ~again /\ said = <<>> /\ queue = <<>>
  BY <1>1 DEF StageInv
<1>3. taken' = 1 /\ Len(got) \in Nat /\ taken' <= Len(got')
  BY <1>1, <1>2
<1>4. Len(said') = 0 /\ Len(queue') = 0 /\ said' \in Seq(Data) /\ queue' \in Seq(Data)
  BY <1>1, <1>2
<1>5. \/ pump' = "peer" /\ loop' = "none" /\ once' = "no" /\ member' = "no"
      \/ pump' = "deliver" /\ loop' = "select" /\ once' = "no" /\ member' = "this"
      \/ pump' = "greet" /\ loop' = "none" /\ once' = "done" /\ member' = "this"
  BY Zenon, <1>2 DEF Promote, New, end, Once
<1>6. StageInv'
  <2>1. taken' \in Nat /\ taken' <= Len(got') /\ taken' > 0
    BY <1>3
  <2> QED BY <1>1, <1>2, <1>4, <1>5, <2>1 DEF StageInv
<1>7. Says' => Given' = 0
  BY <1>3, <1>5 DEF Says, InSession, Given
<1>8. Len(said') <= Len(got') /\ 1..Len(said') = {} /\ 1..Len(queue') = {} /\ Len(said') + Len(queue') = 0
  BY <1>1, <1>3, <1>4
<1> QED BY <1>6, <1>7, <1>8 DEF LineInv

(* Deliver puts the line taken at the end of the channel.                  *)
LEMMA LineDelivers ==
  ASSUME StageInv, LineInv, got \in Seq(Data), Deliver
  PROVE  StageInv' /\ LineInv'
<1>1. /\ pump = "deliver" /\ pump' = "read"
      /\ UNCHANGED <<got, taken, loop, once, member, said, again>>
  BY DEF Deliver, vars
<1>2. /\ taken \in Nat /\ taken <= Len(got) /\ taken > 0
      /\ said \in Seq(Data) /\ queue \in Seq(Data)
  BY <1>1 DEF StageInv
<1>3. Len(got) \in Nat /\ Len(said) \in Nat /\ Len(queue) \in Nat /\ taken \in 1..Len(got) /\ got[taken] \in Data
  BY <1>2
<1>4. CASE UNCHANGED queue /\ once # "no"
  <2>1. StageInv'
    BY <1>1, <1>4 DEF StageInv
  <2>2. ~Says'
    BY Zenon, <1>1, <1>4, <2>1 DEF Says, StageInv
  <2> QED BY <1>1, <1>4, <2>1, <2>2, LineKept
<1>5. CASE queue' = Append(queue, got[taken]) /\ loop # "none"
  <2>1. /\ queue' \in Seq(Data) /\ Len(queue') = Len(queue) + 1 /\ queue'[Len(queue) + 1] = got[taken]
        /\ \A i \in 1..Len(queue) : queue'[i] = queue[i]
    BY <1>2, <1>3, <1>5
  <2>2. StageInv'
    BY Zenon, <1>1, <1>5, <2>1 DEF StageInv
  <2>3. ASSUME Says' PROVE /\ Len(said') + Len(queue') = Given'
                           /\ \A i \in 1..Len(said') : said'[i] = got'[i]
                           /\ \A i \in 1..Len(queue') : queue'[i] = got'[Len(said') + i]
    <3>1. Says /\ Given = taken - 1 /\ Given' = taken
      BY <1>1, <2>3 DEF Says, InSession, Given
    <3>2. /\ Len(said) + Len(queue) = taken - 1
          /\ \A i \in 1..Len(said) : said[i] = got[i]
          /\ \A i \in 1..Len(queue) : queue[i] = got[Len(said) + i]
      BY <3>1 DEF LineInv
    <3>3. Len(said') + Len(queue') = Given'
      BY <1>1, <1>2, <1>3, <2>1, <3>1, <3>2
    <3>4. ASSUME NEW i \in 1..Len(queue') PROVE queue'[i] = got'[Len(said') + i]
      <4>1. CASE i \in 1..Len(queue)
        BY Zenon, <1>1, <2>1, <3>2, <4>1
      <4>2. CASE i = Len(queue) + 1
        <5>1. Len(said) + i = taken
          BY <1>2, <1>3, <3>2, <4>2
        <5> QED BY <1>1, <2>1, <4>2, <5>1
      <4> QED BY <1>3, <2>1, <4>1, <4>2
    <3> QED BY <1>1, <3>2, <3>3, <3>4
  <2>4. ~again' => Len(said') <= Len(got') /\ \A i \in 1..Len(said') : said'[i] = got'[i]
    BY <1>1 DEF LineInv
  <2> QED BY <2>2, <2>3, <2>4 DEF LineInv
<1>6. loop # "none"
  BY <1>1 DEF StageInv
<1>7. queue' = Append(queue, got[taken]) \/ (UNCHANGED queue /\ once # "no")
  BY DEF Deliver, Drops
<1> QED BY <1>4, <1>5, <1>6, <1>7

(* serveInbound takes a line, or finds the end of the stream.              *)
LEMMA LinePumps ==
  ASSUME StageInv, LineInv, got \in Seq(Data), Greeted \/ TakeLine \/ PumpEnds
  PROVE  StageInv' /\ LineInv'
<1>1. CASE Greeted
  <2>1. StageInv' /\ ~Says' /\ UNCHANGED <<got, queue, said, again>>
    BY <1>1 DEF Greeted, StageInv, Says, vars
  <2> QED BY Zenon, <2>1, LineKept
<1>2. CASE TakeLine
  <2>1. /\ pump = "read" /\ pump' = "deliver" /\ taken < Len(got) /\ taken' = taken + 1
        /\ UNCHANGED <<got, queue, loop, once, member, said, again>>
    BY <1>2 DEF TakeLine, NextLine, vars
  <2>2. taken \in Nat /\ Len(got) \in Nat
    BY LineTypes
  <2>3. taken' \in Nat /\ taken' > 0 /\ taken' <= Len(got')
    BY <2>1, <2>2
  <2>4. StageInv'
    BY <2>1, <2>3 DEF StageInv
  <2>5. Given' = Given
    BY <2>1, <2>2 DEF Given
  <2>6. Says' => Says
    BY <2>1 DEF Says, InSession
  <2> QED BY <2>1, <2>4, <2>5, <2>6, LineKept
<1>3. CASE PumpEnds
  <2>1. /\ pump = "read" /\ pump' = "close" /\ once' = (IF once = "no" THEN "done" ELSE once)
        /\ UNCHANGED <<got, taken, queue, loop, member, said, again>>
    BY <1>3 DEF PumpEnds, end, Once, vars
  <2>2. StageInv' /\ Given' = Given /\ (Says' => Says)
    BY <2>1 DEF StageInv, Given, Says, InSession
  <2> QED BY <2>1, <2>2, LineKept
<1> QED BY <1>1, <1>2, <1>3

(* run handles the first line of the channel.                              *)
LEMMA LineSaid ==
  ASSUME StageInv, LineInv, got \in Seq(Data), Handle \/ Quit
  PROVE  StageInv' /\ LineInv'
<1>1. /\ loop = "select" /\ queue # <<>> /\ queue' = Tail(queue) /\ said' = Accepted(Head(queue))
      /\ UNCHANGED <<got, pump, taken, member, again>>
      /\ loop' \in {"select", "ending", "quitting"} /\ (loop' = "select" => once' = once)
      /\ once' \in {once, IF once = "no" THEN "done" ELSE once}
  BY DEF Handle, Quit, end, Once, vars
<1>2. taken \in Nat /\ Len(got) \in Nat /\ Len(said) \in Nat /\ Len(queue) \in Nat
      /\ Given \in Nat /\ Given <= Len(got)
  BY LineTypes
<1>3. said \in Seq(Data) /\ queue \in Seq(Data)
  BY DEF StageInv
<1>4. /\ Tail(queue) \in Seq(Data) /\ Len(Tail(queue)) = Len(queue) - 1 /\ Len(queue) > 0
      /\ \A i \in 1..(Len(queue) - 1) : Tail(queue)[i] = queue[i + 1]
      /\ Head(queue) = queue[1] /\ queue[1] \in Data
  BY <1>1, <1>3
<1>5. said' \in Seq(Data) /\ queue' \in Seq(Data)
  BY <1>1, <1>3, <1>4 DEF Accepted
<1>6. StageInv'
  BY Zenon, <1>1, <1>5 DEF StageInv
<1>7. CASE once = "over"
  <2>1. ~Says'
    BY <1>1, <1>7 DEF Says
  <2>2. ~again' => said' = said
    BY <1>1, <1>7 DEF StageInv, Accepted
  <2>3. ~again' => Len(said') <= Len(got') /\ \A i \in 1..Len(said') : said'[i] = got'[i]
    BY <1>1, <2>2 DEF LineInv
  <2> QED BY <1>6, <2>1, <2>3 DEF LineInv
<1>8. CASE once # "over"
  <2>1. Says /\ member # "no"
    BY <1>1, <1>8, <1>6 DEF StageInv, Says, InSession
  <2>2. /\ Len(said) + Len(queue) = Given
        /\ \A i \in 1..Len(said) : said[i] = got[i]
        /\ \A i \in 1..Len(queue) : queue[i] = got[Len(said) + i]
    BY <2>1 DEF LineInv
  <2>3. said' = Append(said, queue[1])
    BY <1>1, <1>4, <2>1 DEF Accepted
  <2>4. /\ Len(said') = Len(said) + 1 /\ said'[Len(said) + 1] = queue[1]
        /\ \A i \in 1..Len(said) : said'[i] = said[i]
    BY <1>3, <1>4, <2>3
  <2>5. Len(queue') = Len(queue) - 1 /\ \A i \in 1..(Len(queue) - 1) : queue'[i] = queue[i + 1]
    BY <1>1, <1>4
  <2>6. queue[1] = got[Len(said) + 1]
    BY <1>2, <1>4, <2>2
  <2>7. ASSUME NEW i \in 1..Len(said') PROVE said'[i] = got'[i]
    <3>1. i \in 1..Len(said) \/ i = Len(said) + 1
      BY <1>2, <2>4
    <3> QED BY <1>1, <2>2, <2>4, <2>6, <3>1
  <2>8. ASSUME NEW i \in 1..Len(queue') PROVE queue'[i] = got'[Len(said') + i]
    <3>1. i \in 1..(Len(queue) - 1) /\ i + 1 \in 1..Len(queue) /\ i \in Nat
      BY <1>2, <2>5
    <3>2. queue'[i] = got[Len(said) + (i + 1)]
      BY <2>2, <2>5, <3>1
    <3>3. Len(said) + (i + 1) = Len(said') + i
      BY <1>2, <2>4, <3>1
    <3> QED BY <1>1, <3>2, <3>3
  <2>9. Given' = Given
    BY <1>1 DEF Given
  <2>10. Len(said') + Len(queue') = Given' /\ Len(said') <= Len(got')
    BY <1>1, <1>2, <1>4, <2>2, <2>4, <2>5, <2>9
  <2> QED BY <1>6, <2>7, <2>8, <2>10 DEF LineInv
<1> QED BY <1>7, <1>8

(* The session ends, and the user may be back.                             *)
LEMMA LineEnds ==
  ASSUME StageInv, LineInv, got \in Seq(Data), RenderFails \/ GoOn \/ Stop \/ Ending \/ Reconnect
  PROVE  StageInv' /\ LineInv'
<1>1. UNCHANGED <<got, queue, said, pump, taken>>
  BY Zenon DEF RenderFails, GoOn, Stop, CloseRW, theirs, app, Ending, Reconnect, vars
<1>2. CASE RenderFails
  <2>1. /\ loop = "select" /\ once = "no" /\ loop' = "ending" /\ once' = "done"
        /\ UNCHANGED <<member, again>>
    BY Zenon, <1>2 DEF RenderFails, end, Once
  <2>2. StageInv' /\ ~Says'
    BY <1>1, <2>1 DEF StageInv, Says
  <2> QED BY <1>1, <2>1, <2>2, LineKept
<1>3. CASE GoOn
  <2>1. loop = "ending" /\ once = "over" /\ loop' = "select" /\ once' = "over" /\ UNCHANGED <<member, again>>
    BY <1>3 DEF GoOn
  <2>2. StageInv' /\ ~Says'
    BY <1>1, <2>1 DEF StageInv, Says
  <2> QED BY <1>1, <2>1, <2>2, LineKept
<1>4. CASE Stop
  <2>1. once # "no" /\ loop # "none" /\ loop' = "out" /\ UNCHANGED <<once, member, again>>
    BY Zenon, <1>4 DEF Stop
  <2>2. StageInv' /\ ~Says'
    BY <1>1, <2>1 DEF StageInv, Says
  <2> QED BY <1>1, <2>1, <2>2, LineKept
<1>5. CASE Ending
  <2>1. once = "done" /\ once' = "over" /\ member' = "no" /\ UNCHANGED <<loop, again>>
    BY <1>5 DEF Ending
  <2>2. StageInv' /\ ~Says'
    BY <1>1, <2>1 DEF StageInv, Says
  <2> QED BY <1>1, <2>1, <2>2, LineKept
<1>6. CASE Reconnect
  <2>1. InSession /\ again' = TRUE /\ member' = "next" /\ UNCHANGED <<loop, once>>
    BY <1>6 DEF Reconnect
  <2>2. pump # "first"
    BY Zenon, <2>1 DEF StageInv, InSession
  <2>3. StageInv' /\ (Says' => Says) /\ Given' = Given
    BY <1>1, <2>1, <2>2 DEF StageInv, Says, InSession, Given
  <2> QED BY <1>1, <2>1, <2>3, LineKept
<1> QED BY <1>2, <1>3, <1>4, <1>5, <1>6

-----------------------------------------------------------------------------
SessionInv == FlowInv /\ StageInv /\ LineInv

LEMMA SessionInitial == SessionInit => SessionInv
<1> SUFFICES ASSUME SessionInit PROVE SessionInv
  OBVIOUS
<1>1. /\ inbound \in BOOLEAN /\ ~raced /\ sent = 0 /\ ~ended /\ wire = <<Begin>> /\ held = Idle /\ reg = "none"
      /\ ~stream /\ pendingRecv = <<>> /\ ~pendingClosed /\ drain = <<>> /\ ~drainClosed
      /\ buf = <<>> /\ ~closed /\ got = <<>> /\ ~eof /\ gone = "no"
  BY DEF SessionInit, Init
<1>2. Len(wire) = 1 /\ wire[1] = Begin /\ wire \in Seq(Pushes)
  BY <1>1 DEF Pushes
<1>3. BeginOn = 1 /\ CloseOn = 0
  BY <1>1 DEF BeginOn, CloseOn
<1>4. Off = 0
  <2>1. Off = 0 - (1 - 1 - 0)
    BY <1>1, <1>2, <1>3 DEF Off
  <2> QED BY <2>1
<1>5. WireInv
  <2>1. sent \in 0..MaxData /\ Off \in Nat /\ Off <= sent
    BY <1>1, <1>4, StreamAssumption
  <2>2. ASSUME NEW i \in 1..Len(wire) PROVE wire[i] = PushAt(i, Len(wire), BeginOn, CloseOn, Off)
    <3>1. i = 1
      BY <1>2
    <3> QED BY <1>2, <1>3, <3>1 DEF PushAt
  <2> QED BY <1>2, <2>1, <2>2 DEF WireInv
<1>6. FlowTypes
  <2>1. <<>> \in Seq(Data)
    OBVIOUS
  <2> QED BY <1>1, <2>1 DEF FlowTypes
<1>7. flow = <<>> /\ Len(flow) = 0 /\ Len(drain) = 0 /\ Len(pendingRecv) = 0 /\ Len(got) = 0
  BY <1>1 DEF flow
<1>8. Holds = 0
  BY <1>1, StreamAssumption DEF Holds
<1>9. PlaceInv
  <2>1. 1..0 = {} /\ Idle \notin Data /\ Idle # Close
    BY StreamAssumption
  <2>2. 1..Off = {} /\ Len(pendingRecv) = Off
    BY <1>4, <1>7, <2>1
  <2> QED BY <1>1, <2>1, <2>2 DEF PlaceInv
<1>10. OnceOnly
  BY <1>7 DEF OnceOnly
<1>11. InTurn
  BY <1>4, <1>7, <1>8 DEF InTurn
<1>12. AllIn
  BY <1>1 DEF AllIn
<1>13. /\ pump \in {"first", "peer"} /\ taken = 0 /\ queue = <<>> /\ said = <<>> /\ loop = "none"
       /\ once = "no" /\ member = "no" /\ ~again
  BY DEF SessionInit
<1>14. StageInv
  <2>1. <<>> \in Seq(Data) /\ taken \in Nat /\ taken <= Len(got)
    BY <1>7, <1>13
  <2> QED BY <1>13, <2>1 DEF StageInv
<1>15. LineInv
  <2>1. ~Says /\ Len(said) = 0
    BY <1>13 DEF Says, InSession
  <2> QED BY <1>7, <2>1 DEF LineInv
<1> QED BY <1>5, <1>6, <1>9, <1>10, <1>11, <1>12, <1>14, <1>15 DEF SessionInv, FlowInv

LEMMA SessionStep == SessionInv /\ [SessionNext]_all => SessionInv'
<1> SUFFICES ASSUME SessionInv, [SessionNext]_all PROVE SessionInv'
  OBVIOUS
<1>0. FlowInv /\ StageInv /\ LineInv /\ FlowTypes /\ got \in Seq(Data)
  BY DEF SessionInv, FlowInv, FlowTypes
<1>1. CASE (Push \/ End \/ ReadLoop \/ Opener \/ CloseStream) /\ UNCHANGED mine
  <2>1. UNCHANGED mine /\ shut' = shut
    BY <1>1 DEF mine
  <2>2. FlowInv'
    BY <1>0, <1>1, <2>1, FlowSends, FlowAnnounce, FlowRecv, FlowFeeds, FlowOnClose, FlowMarkClosed,
       FlowRegister, FlowDrains, FlowRegistered, FlowLeaves DEF ReadLoop, Opener
  <2>3. UNCHANGED got
    BY Zenon, <1>1 DEF Push, End, ReadLoop, Announce, OnRecv, Feed, OnClose, MarkClosed,
                Opener, Register, Drain, Registered, CloseStream, app
  <2>4. UNCHANGED <<taken, queue, loop, once, member, said, again>> /\ pump' = pump
    BY <2>1 DEF mine
  <2>5. GotGrows
    BY <1>0, <2>3, ReadGrows
  <2>6. StageInv' /\ LineInv'
    BY <1>0, <2>4, <2>5, LineRests
  <2> QED BY <2>2, <2>6 DEF SessionInv
<1>2. CASE Reads
  <2>1. Owner /\ UNCHANGED mine
    BY <1>2 DEF Reads
  <2>2. FlowInv'
    BY <1>0, <2>1, FlowReads
  <2>3. GotGrows
    BY <1>0, <2>1, ReadGrows
  <2>4. UNCHANGED <<taken, queue, loop, once, member, said, again>> /\ pump' = pump
    BY <2>1 DEF mine
  <2>5. StageInv' /\ LineInv'
    BY <1>0, <2>3, <2>4, LineRests
  <2> QED BY <2>2, <2>5 DEF SessionInv
<1>3. CASE Return
  <2>1. Leave /\ shut' = shut /\ UNCHANGED got
    BY <1>3 DEF Return, Leave
  <2>2. FlowInv'
    BY <1>0, <2>1, FlowLeaves
  <2>3. GotGrows
    BY <1>0, <2>1, ReadGrows
  <2>4. /\ UNCHANGED <<taken, queue, loop, once, member, said, again>>
        /\ pump \notin {"deliver", "greet"} /\ pump' = "out" /\ (pump = "close" => once = "over")
    BY <1>3 DEF Return
  <2>5. StageInv' /\ LineInv'
    BY <1>0, <2>3, <2>4, LineRests
  <2> QED BY <2>2, <2>5 DEF SessionInv
<1>4. CASE Watch \/ UNCHANGED all
  <2>1. CloseRW \/ UNCHANGED <<vars, shut>>
    BY <1>4 DEF Watch, all, mine
  <2>2. FlowInv'
    BY Zenon, <1>0, <2>1, FlowLeaves
  <2>3. UNCHANGED got /\ UNCHANGED <<taken, queue, loop, once, member, said, again>> /\ pump' = pump
    BY <1>4 DEF Watch, CloseRW, theirs, app, all, vars, mine
  <2>4. GotGrows
    BY <1>0, <2>3, ReadGrows
  <2>5. StageInv' /\ LineInv'
    BY <1>0, <2>3, <2>4, LineRests
  <2> QED BY <2>2, <2>5 DEF SessionInv
<1>5. CASE Promote \/ New \/ Greeted \/ Deliver \/ TakeLine \/ PumpEnds \/ Handle \/ Quit
           \/ RenderFails \/ GoOn \/ Stop \/ Ending \/ Reconnect
  <2>1. CloseRW \/ UNCHANGED <<vars, shut>>
    BY Zenon, <1>5 DEF Promote, New, Greeted, Deliver, TakeLine, PumpEnds, Handle, Quit,
                RenderFails, GoOn, Stop, Ending, Reconnect
  <2>2. FlowInv'
    BY <1>0, <2>1, FlowLeaves
  <2>3. StageInv' /\ LineInv'
    BY <1>0, <1>5, LineFirst, LineDelivers, LinePumps, LineSaid, LineEnds
  <2> QED BY <2>2, <2>3 DEF SessionInv
<1> QED BY <1>1, <1>2, <1>3, <1>4, <1>5 DEF SessionNext, Pump, Run

(* A sequence that agrees with a longer one is the first part of it.       *)
LEMMA PrefixOf ==
  ASSUME NEW s \in Seq(Nat), NEW t \in Seq(Nat), Len(s) <= Len(t), \A i \in 1..Len(s) : s[i] = t[i]
  PROVE  \E n \in 0..Len(t) : s = SubSeq(t, 1, n)
<1> DEFINE b == SubSeq(t, 1, Len(s))
<1>1. Len(s) \in Nat /\ Len(t) \in Nat /\ Len(s) \in 0..Len(t)
  OBVIOUS
<1>2. b \in Seq(Nat) /\ Len(b) = Len(s) /\ \A i \in 1..Len(s) : b[i] = t[i]
  BY <1>1
<1> HIDE DEF b
<1>3. s = b
  BY <1>2, SameSeq
<1> QED BY Zenon, <1>1, <1>3 DEF b

LEMMA SessionMeans == SessionInv => SaidInOrder
<1> SUFFICES ASSUME SessionInv PROVE SaidInOrder
  OBVIOUS
<1>1. FlowInv /\ StageInv /\ LineInv /\ FlowTypes /\ WireInv /\ got \in Seq(Data) /\ buf \in Seq(Data)
  BY DEF SessionInv, FlowInv, FlowTypes
<1>2. flow \in Seq(Data) /\ Len(flow) \in Nat
  BY <1>1, FlowType
<1>3. Off \in Nat /\ sent \in Nat /\ Off <= sent
  BY <1>1, OnTheWire
<1>4. \A d \in Data : d \in Nat
  BY StreamAssumption DEF Data
<1>5. flow \in Seq(Nat) /\ got \in Seq(Nat) /\ said \in Seq(Nat) /\ queue \in Seq(Nat)
  <2>1. ASSUME NEW s \in Seq(Data) PROVE s \in Seq(Nat)
    BY <1>4
  <2> QED BY <1>1, <1>2, <2>1 DEF StageInv
<1>6. ASSUME Orderly PROVE \E n \in 0..sent : flow = [i \in 1..n |-> i]
  <2> DEFINE m == Len(flow)
             t == [i \in 1..m |-> i]
  <2>1. m \in Nat
    BY <1>2
  <2>2. m <= Off /\ \A i \in 1..m : flow[i] = i
    BY <1>1, <1>6 DEF FlowInv, InTurn
  <2>3. m \in 0..sent
    BY <1>3, <2>1, <2>2
  <2> HIDE DEF m
  <2>4. t \in Seq(Nat) /\ Len(t) = m /\ \A i \in 1..m : t[i] = i
    BY <2>1
  <2> HIDE DEF t
  <2>5. Len(flow) = Len(t) /\ \A i \in 1..Len(flow) : flow[i] = t[i]
    BY <2>2, <2>4 DEF m
  <2>6. flow = t
    BY <1>5, <2>4, <2>5, SameSeq
  <2> QED BY <2>3, <2>6 DEF t
<1>7. IsInjective(flow)
  <2>1. DOMAIN flow = 1..Len(flow)
    BY <1>2
  <2>2. \A i, j \in 1..Len(flow) : i # j => flow[i] # flow[j]
    BY <1>1 DEF FlowInv, OnceOnly
  <2> QED BY <2>1, <2>2 DEF IsInjective
<1>8. eof /\ Orderly /\ ~shut => Len(got) = sent
  BY <1>1 DEF FlowInv, AllIn
<1>9. ~again => \E n \in 0..Len(got) : said = SubSeq(got, 1, n)
  BY Zenon, <1>1, <1>5, PrefixOf DEF LineInv
<1>10. ASSUME InSession, once = "no" PROVE said \o queue = SubSeq(got, 1, Given)
  <2>1. Says
    BY <1>10 DEF Says
  <2>2. /\ Len(said) + Len(queue) = Given
        /\ \A i \in 1..Len(said) : said[i] = got[i]
        /\ \A i \in 1..Len(queue) : queue[i] = got[Len(said) + i]
    BY <1>1, <2>1 DEF LineInv
  <2>3. Given \in Nat /\ Given <= Len(got) /\ Len(got) \in Nat /\ Len(said) \in Nat /\ Len(queue) \in Nat
    BY <1>1, LineTypes
  <2> DEFINE a == said \o queue
             b == SubSeq(got, 1, Given)
  <2> HIDE DEF Given
  <2>4. b \in Seq(Nat) /\ Len(b) = Given /\ \A i \in 1..Given : b[i] = got[i]
    BY <1>5, <2>3
  <2>5. /\ a \in Seq(Nat) /\ Len(a) = Len(said) + Len(queue)
        /\ \A i \in 1..Len(said) : a[i] = said[i]
        /\ \A i \in 1..Len(queue) : a[Len(said) + i] = queue[i]
    BY <1>5, JoinFacts
  <2> HIDE DEF a, b
  <2>6. Len(a) = Given
    BY <2>2, <2>5
  <2>7. ASSUME NEW i \in 1..Given PROVE a[i] = got[i]
    <3>1. CASE i \in 1..Len(said)
      BY <2>2, <2>5, <3>1
    <3>2. CASE i \notin 1..Len(said)
      <4>1. PICK k \in 1..Len(queue) : i = Len(said) + k
        <5>1. i - Len(said) \in 1..Len(queue) /\ i = Len(said) + (i - Len(said))
          BY <2>2, <2>3, <3>2
        <5> QED BY <5>1
      <4> QED BY <2>2, <2>5, <4>1
    <3> QED BY <3>1, <3>2
  <2>8. a = b
    <3>1. \A i \in 1..Len(a) : a[i] = b[i]
      BY <2>4, <2>6, <2>7
    <3> QED BY Zenon, <2>4, <2>5, <2>6, <3>1, SameSeq
  <2> QED BY <2>8 DEF a, b
<1> QED BY Zenon, <1>6, <1>7, <1>8, <1>9, <1>10 DEF SaidInOrder, StreamInOrder, flow, Given

(* Whatever an RF user or a peer sends is read in its order, none of it    *)
(* twice and all of it unless our side closes the stream first; and what   *)
(* the user types is said in that order without a gap, however the read    *)
(* loop, registerStream, serveInbound, run and the end of the session      *)
(* interleave.                                                             *)
THEOREM EveryLineInTurn == SessionSpec => []SaidInOrder
BY SessionInitial, SessionStep, SessionMeans, PTL DEF SessionSpec
=============================================================================
