------------------------------ MODULE Streams ------------------------------
(***************************************************************************)
(* One RHP connection of the node attachment (node/node.go, stream.go):    *)
(* the pushes the node sends for its handle are dispatched, in order, by   *)
(* the client's read loop; a push for a handle that has no stream yet is   *)
(* kept aside, and registerStream hands it to the new stream; the user     *)
(* session or peer link reads the stream as ordinary I/O.                  *)
(*                                                                         *)
(* An inbound connection is announced by an accept push, whose handler     *)
(* registers the stream inside the read loop.  An outbound one is          *)
(* announced by the reply to open, which wakes the goroutine that dialled: *)
(* that one registers, while the read loop goes on.                        *)
(*                                                                         *)
(* When the owner of the stream reads, and when it leaves, is in Session,  *)
(* which has the next-state relation of both.                              *)
(***************************************************************************)
EXTENDS Naturals, Sequences, Functions

CONSTANTS
  MaxData,       \* the node sends at most this many pieces of data
  Begin, Close,  \* the push that announces the connection, the close push
  Idle

Data == 1..MaxData

ASSUME StreamAssumption ==
  /\ MaxData \in Nat
  /\ Begin \notin Data /\ Close \notin Data \cup {Begin} /\ Idle \notin Data \cup {Begin, Close}

VARIABLES
  inbound,        \* announced by an accept push, else by the reply to open
  sent,           \* pieces the node has sent
  ended,          \* the node has closed the connection
  wire,           \* pushes on their way, in order
  held,           \* push whose stream the read loop has looked up, or Idle
  reg,            \* registerStream: "none", "called", "draining", "done"
  stream,         \* the handle is in the streams map
  pendingRecv, pendingClosed,
  drain, drainClosed,   \* what registerStream took out of the two
  buf, closed,    \* of the rhpStream
  got, eof,       \* what Read has returned
  gone,           \* the owner has closed the stream: "no", "removed", "yes"
  raced           \* the read loop fed or closed amid registerStream's drain (history)

kind   == <<inbound, raced>>
node   == <<sent, ended>>
side   == <<pendingRecv, pendingClosed>>
drainv == <<drain, drainClosed>>
app    == <<got, eof, gone>>
vars   == <<inbound, raced, sent, ended, wire, held, reg, stream, pendingRecv, pendingClosed,
            drain, drainClosed, buf, closed, got, eof, gone>>

TypeOK ==
  /\ {inbound, raced} \subseteq BOOLEAN
  /\ sent \in 0..MaxData /\ ended \in BOOLEAN
  /\ wire \in Seq(Data \cup {Begin, Close})
  /\ held \in Data \cup {Close, Idle}
  /\ reg \in {"none", "called", "draining", "done"} /\ stream \in BOOLEAN
  /\ pendingRecv \in Seq(Data) /\ drain \in Seq(Data) /\ buf \in Seq(Data) /\ got \in Seq(Data)
  /\ {pendingClosed, drainClosed, closed, eof} \subseteq BOOLEAN
  /\ gone \in {"no", "removed", "yes"}

Init ==
  /\ inbound \in BOOLEAN /\ raced = FALSE
  /\ sent = 0 /\ ended = FALSE /\ wire = <<Begin>>
  /\ held = Idle /\ reg = "none" /\ stream = FALSE
  /\ pendingRecv = <<>> /\ pendingClosed = FALSE
  /\ drain = <<>> /\ drainClosed = FALSE
  /\ buf = <<>> /\ closed = FALSE
  /\ got = <<>> /\ eof = FALSE /\ gone = "no"

-----------------------------------------------------------------------------
(* The node.                                                               *)
Push ==
  /\ sent < MaxData /\ ~ended
  /\ sent' = sent + 1
  /\ wire' = Append(wire, sent + 1)
  /\ UNCHANGED <<kind, ended, held, reg, stream, side, drainv, buf, closed, app>>

End ==
  /\ ~ended
  /\ ended' = TRUE
  /\ wire' = Append(wire, Close)
  /\ UNCHANGED <<kind, sent, held, reg, stream, side, drainv, buf, closed, app>>

-----------------------------------------------------------------------------
(* The read loop takes the next push.  It runs OnAccept to its end before  *)
(* the next one.                                                           *)
Ready == held = Idle /\ wire # <<>> /\ (inbound => reg \in {"none", "done"})

Announce ==
  /\ Ready /\ Head(wire) = Begin
  /\ wire' = Tail(wire)
  /\ reg' = "called"
  /\ UNCHANGED <<kind, node, held, stream, side, drainv, buf, closed, app>>

(* OnRecv, under the lock: keep the data aside, or look the stream up ...  *)
OnRecv ==
  LET d == Head(wire)
  IN  /\ Ready /\ d \in Data
      /\ wire' = Tail(wire)
      /\ IF stream
           THEN held' = d /\ UNCHANGED pendingRecv
           ELSE pendingRecv' = Append(pendingRecv, d) /\ UNCHANGED held
      /\ UNCHANGED <<kind, node, reg, stream, pendingClosed, drainv, buf, closed, app>>

(* ... and then, without it, feed.  A closed stream takes nothing.         *)
Fed(d) == IF closed THEN buf ELSE Append(buf, d)

Races  == raced' = (raced \/ (reg = "draining" /\ drain # <<>>))

Feed ==
  /\ held \in Data
  /\ buf' = Fed(held)
  /\ held' = Idle
  /\ Races
  /\ UNCHANGED <<inbound, node, wire, reg, stream, side, drainv, closed, app>>

OnClose ==
  /\ Ready /\ Head(wire) = Close
  /\ wire' = Tail(wire)
  /\ stream' = FALSE
  /\ IF stream
       THEN held' = Close /\ UNCHANGED side
       ELSE pendingClosed' = TRUE /\ UNCHANGED <<pendingRecv, held>>
  /\ UNCHANGED <<kind, node, reg, drainv, buf, closed, app>>

ClosesNot == closed
Closes    == TRUE

MarkClosed ==
  /\ held = Close
  /\ closed' = Closes
  /\ held' = Idle
  /\ Races
  /\ UNCHANGED <<inbound, node, wire, reg, stream, side, drainv, buf, app>>

-----------------------------------------------------------------------------
(* registerStream: put the stream in the map and take what was kept aside, *)
(* under the lock; feed it and pass the close on, without it.              *)
Register ==
  /\ reg = "called"
  /\ reg' = "draining"
  /\ stream' = TRUE
  /\ drain' = pendingRecv /\ drainClosed' = pendingClosed
  /\ pendingRecv' = <<>> /\ pendingClosed' = FALSE
  /\ UNCHANGED <<kind, node, wire, held, buf, closed, app>>

Drain ==
  /\ reg = "draining" /\ drain # <<>>
  /\ buf' = Fed(Head(drain))
  /\ drain' = Tail(drain)
  /\ UNCHANGED <<kind, node, wire, held, reg, stream, side, drainClosed, closed, app>>

Registered ==
  /\ reg = "draining" /\ drain = <<>>
  /\ closed' = (closed \/ drainClosed)
  /\ reg' = "done"
  /\ UNCHANGED <<kind, node, wire, held, stream, side, drainv, buf, app>>

-----------------------------------------------------------------------------
(* The owner of the stream.  Read returns as much as fits, and the end of  *)
(* file once the stream is closed and empty.                               *)
Reading == reg = "done" /\ gone = "no" /\ ~eof

Read ==
  \E n \in 1..Len(buf) :
    /\ Reading
    /\ got' = got \o SubSeq(buf, 1, n)
    /\ buf' = SubSeq(buf, n + 1, Len(buf))
    /\ UNCHANGED <<kind, node, wire, held, reg, stream, side, drainv, closed, eof, gone>>

ReadEOF ==
  /\ Reading /\ closed /\ buf = <<>>
  /\ eof' = TRUE
  /\ UNCHANGED <<kind, node, wire, held, reg, stream, side, drainv, buf, closed, got, gone>>

(* The owner is done: a dialled stream leaves the map, an accepted one     *)
(* waits there for the node's close; then either is closed.                *)
StaysNot == FALSE
Stays    == stream /\ inbound

Leave ==
  /\ reg = "done" /\ gone = "no"
  /\ gone' = "removed"
  /\ stream' = Stays
  /\ UNCHANGED <<kind, node, wire, held, reg, side, drainv, buf, closed, got, eof>>

CloseStream ==
  /\ gone = "removed"
  /\ gone' = "yes"
  /\ closed' = TRUE
  /\ UNCHANGED <<kind, node, wire, held, reg, stream, side, drainv, buf, got, eof>>

-----------------------------------------------------------------------------
ReadLoop == Announce \/ OnRecv \/ Feed \/ OnClose \/ MarkClosed
Opener   == Register \/ Drain \/ Registered
Owner    == Read \/ ReadEOF

-----------------------------------------------------------------------------
(* The stream turns "push-based recv callbacks into a blocking Read"       *)
(* (stream.go:14): what is read, and what is there to be read, is what the *)
(* node sent, in its order and without a gap.  Of a dialled connection     *)
(* this holds unless the read loop came between the drain and its data.    *)
Orderly == inbound \/ ~raced

StreamInOrder == Orderly => \E n \in 0..sent : got \o buf = [i \in 1..n |-> i]

(* A connection the node closes is read to its end, unless its owner       *)
(* leaves first: the RF user's session or the peer's link does end.        *)
ReadToTheEnd == ended ~> (eof \/ gone # "no")

(* pendingRecv and pendingClosed hold "pushes that arrive for a handle     *)
(* BEFORE its stream is registered" (node.go:64), and nothing else until a *)
(* dialled stream has left the map.                                        *)
AsideOnlyBefore ==
  reg \in {"draining", "done"} /\ (inbound \/ gone = "no") =>
    pendingRecv = <<>> /\ ~pendingClosed
=============================================================================
