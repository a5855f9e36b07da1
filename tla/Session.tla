------------------------------ MODULE Session -------------------------------
(***************************************************************************)
(* The owner of an accepted stream (node.go serveInbound), which is the    *)
(* session of an RF user (session/session.go) unless the first line asks   *)
(* for a peer link.  Four goroutines share the session: serveInbound pumps *)
(* lines into it, run handles them and renders events, one waits for its   *)
(* end to close the stream, and any of the first two may end it.           *)
(*                                                                         *)
(* A piece of data is a line.  What a command asks of the hub is in        *)
(* ChatHub; here the hub takes a line if the user is there, and sending to *)
(* the user, which every reply and every rendered event does, may fail.    *)
(* The same user may connect again at any time: the hub knows both         *)
(* sessions by one key.                                                    *)
(***************************************************************************)
EXTENDS Streams

CONSTANT Room    \* the capacity of the inbound channel

ASSUME SessionAssumption == Room \in Nat \ {0}

VARIABLES
  pump,      \* serveInbound: "first" line, "peer" (a link has the stream),
             \* "greet", "deliver", "read", "close", "out"
  taken,     \* lines it has taken from what was read
  queue,     \* the inbound channel
  loop,      \* run: "none", "select", "ending", "quitting", "out"
  once,      \* end: "no", "done" (closed), "over"
  watcher,   \* the goroutine that waits for Ended: "none", "waits", "out"
  member,    \* the hub's user: "no", of "this" session, or of the "next"
  said,      \* lines of this session the hub has taken
  shut,      \* our side closed the stream, while it was being read (history)
  again,     \* the user has connected again (history) ...
  overlap    \* ... before this session had left (history)

mine    == <<pump, taken, queue, loop, once, watcher, member, said, shut, again, overlap>>
all     == <<vars, mine>>
theirs  == <<kind, node, wire, held, reg, stream, side, drainv, buf, app>>  \* all of Streams but closed

SessionTypeOK ==
  /\ TypeOK
  /\ pump \in {"first", "peer", "greet", "deliver", "read", "close", "out"}
  /\ taken \in 0..MaxData
  /\ queue \in Seq(Data) /\ Len(queue) <= Room
  /\ loop \in {"none", "select", "ending", "quitting", "out"}
  /\ once \in {"no", "done", "over"}
  /\ watcher \in {"none", "waits", "out"}
  /\ member \in {"no", "this", "next"}
  /\ said \in Seq(Data)
  /\ {shut, again, overlap} \subseteq BOOLEAN

SessionInit ==
  /\ Init
  /\ pump = IF inbound THEN "first" ELSE "peer"
  /\ taken = 0 /\ queue = <<>> /\ loop = "none" /\ once = "no"
  /\ watcher = "none" /\ member = "no" /\ said = <<>>
  /\ shut = FALSE /\ again = FALSE /\ overlap = FALSE

-----------------------------------------------------------------------------
(* end, which only the first caller runs: it closes done; then it cancels  *)
(* the subscription, leaves the hub and reports the end.  A later caller   *)
(* waits for the first.                                                    *)
OnceNot == "done"
Once    == IF once = "no" THEN "done" ELSE once

end == once' = Once

Ending ==
  /\ once = "done"
  /\ once' = "over"
  /\ member' = "no"
  /\ UNCHANGED <<vars, pump, taken, queue, loop, watcher, said, shut, again, overlap>>

(* rw.Close, of whoever; reading goes on to the end of what has arrived.   *)
CloseRW == closed' = TRUE /\ shut' = TRUE /\ UNCHANGED theirs

-----------------------------------------------------------------------------
(* serveInbound takes the next line read, if any, or waits for the stream. *)
NoLine   == taken = Len(got)
NextLine == taken < Len(got) /\ taken' = taken + 1

Wants == pump = "peer" \/ (pump \in {"first", "read"} /\ NoLine)

(* The first line asks for a peer link, which takes the stream over.       *)
Promote ==
  /\ pump = "first" /\ NextLine
  /\ pump' = "peer"
  /\ UNCHANGED <<vars, queue, loop, once, watcher, member, said, shut, again, overlap>>

(* New: the user joins and is greeted, and the goroutines start.  If the   *)
(* greeting cannot be sent the session ends before they do.                *)
New ==
  /\ pump = "first" /\ NextLine
  /\ member' = "this"
  /\ \/ /\ pump' = "deliver" /\ loop' = "select" /\ watcher' = "waits"
        /\ UNCHANGED once
     \/ /\ pump' = "greet" /\ end
        /\ UNCHANGED <<loop, watcher>>
  /\ UNCHANGED <<vars, queue, said, shut, again, overlap>>

Greeted ==
  /\ pump = "greet" /\ once = "over"
  /\ pump' = "deliver" /\ loop' = "select" /\ watcher' = "waits"
  /\ UNCHANGED <<vars, taken, queue, once, member, said, shut, again, overlap>>

(* Deliver waits for room in the channel, or for the end of the session.   *)
DropsFull  == Len(queue) = Room
DropsNever == FALSE
Drops      == once # "no"

Deliver ==
  /\ pump = "deliver"
  /\ pump' = "read"
  /\ \/ Len(queue) < Room /\ queue' = Append(queue, got[taken])
     \/ Drops /\ UNCHANGED queue
  /\ UNCHANGED <<vars, taken, loop, once, watcher, member, said, shut, again, overlap>>

TakeLine ==
  /\ pump = "read" /\ NextLine
  /\ pump' = "deliver"
  /\ UNCHANGED <<vars, queue, loop, once, watcher, member, said, shut, again, overlap>>

(* The end of the stream: Close, ...                                       *)
PumpEnds ==
  /\ pump = "read" /\ NoLine /\ eof
  /\ pump' = "close"
  /\ end
  /\ UNCHANGED <<vars, taken, queue, loop, watcher, member, said, shut, again, overlap>>

(* ... and then, or where it was before there was a session, serveInbound  *)
(* returns and closes the stream.                                          *)
Return ==
  /\ pump \in {"first", "peer"} \/ (pump = "close" /\ once = "over")
  /\ Leave
  /\ pump' = "out"
  /\ UNCHANGED <<taken, queue, loop, once, watcher, member, said, shut, again, overlap>>

-----------------------------------------------------------------------------
(* run.  A select with several ways open takes any of them: after the end  *)
(* it may handle more lines before it returns.                             *)
Accepted(line) == IF member = "no" THEN said ELSE Append(said, line)

(* A line: a message or a command.  If its reply cannot be sent the        *)
(* session ends, and run goes on to find it has.                           *)
Handle ==
  /\ loop = "select" /\ queue # <<>>
  /\ queue' = Tail(queue)
  /\ said' = Accepted(Head(queue))
  /\ \/ UNCHANGED <<loop, once>>
     \/ loop' = "ending" /\ end
  /\ UNCHANGED <<vars, pump, taken, watcher, member, shut, again, overlap>>

(* /B or /QUIT. *)
Quit ==
  /\ loop = "select" /\ queue # <<>>
  /\ queue' = Tail(queue)
  /\ loop' = "quitting"
  /\ end
  /\ said' = Accepted(Head(queue))
  /\ UNCHANGED <<vars, pump, taken, watcher, member, shut, again, overlap>>

(* An event is rendered and cannot be sent.  (After the end that changes   *)
(* nothing more.)                                                          *)
RenderFails ==
  /\ loop = "select" /\ once = "no"
  /\ loop' = "ending"
  /\ end
  /\ UNCHANGED <<vars, pump, taken, queue, watcher, member, said, shut, again, overlap>>

GoOn ==
  /\ loop = "ending" /\ once = "over"
  /\ loop' = "select"
  /\ UNCHANGED <<vars, pump, taken, queue, once, watcher, member, said, shut, again, overlap>>

(* It finds done closed, or has quit: it returns and closes the stream.    *)
Stop ==
  /\ (loop = "select" /\ once # "no") \/ (loop = "quitting" /\ once = "over")
  /\ loop' = "out"
  /\ CloseRW
  /\ UNCHANGED <<pump, taken, queue, once, watcher, member, said, again, overlap>>

(* Ended has a reason to deliver. *)
Watch ==
  /\ watcher = "waits" /\ once = "over"
  /\ watcher' = "out"
  /\ CloseRW
  /\ UNCHANGED <<pump, taken, queue, loop, once, member, said, again, overlap>>

-----------------------------------------------------------------------------
InSession == pump = "greet" \/ loop # "none"

(* The user connects again, on another stream, and joins.                  *)
Reconnect ==
  /\ InSession /\ ~again
  /\ again' = TRUE
  /\ overlap' = (once # "over")
  /\ member' = "next"
  /\ UNCHANGED <<vars, pump, taken, queue, loop, once, watcher, said, shut>>

-----------------------------------------------------------------------------
Reads == Wants /\ Owner /\ UNCHANGED mine
Pump  == Reads \/ Promote \/ New \/ Greeted \/ Deliver \/ TakeLine \/ PumpEnds
Run   == Handle \/ Quit \/ GoOn \/ Stop

SessionNext ==
  \/ (Push \/ End \/ ReadLoop \/ Opener \/ CloseStream) /\ UNCHANGED mine
  \/ Pump \/ Return \/ Run \/ RenderFails \/ Ending \/ Watch \/ Reconnect

SessionSpec == SessionInit /\ [][SessionNext]_all

(* The goroutines run.  Nobody has to hang up, and a peer link need not    *)
(* give its stream up, but a session returns when it has closed.           *)
SessionFair ==
  /\ SessionSpec
  /\ WF_all(ReadLoop /\ UNCHANGED mine) /\ WF_all(Opener /\ UNCHANGED mine)
  /\ WF_all(Pump) /\ WF_all(Run) /\ WF_all(Ending) /\ WF_all(Watch)
  /\ WF_all(pump = "close" /\ Return)

-----------------------------------------------------------------------------
(* What is read is what the node sent (StreamInOrder), and all of it       *)
(* unless our own side closed the stream first; and what a user types is   *)
(* said in that order without a gap: while the session lives every line    *)
(* taken has been said or waits its turn, and of those that came too late  *)
(* none is said, unless the user is back already under the same key.       *)
SaidInOrder ==
  /\ StreamInOrder /\ IsInjective(got \o buf)
  /\ eof /\ Orderly /\ ~shut => Len(got) = sent
  /\ ~again => \E n \in 0..Len(got) : said = SubSeq(got, 1, n)
  /\ InSession /\ once = "no" =>
       said \o queue = SubSeq(got, 1, IF pump = "deliver" THEN taken - 1 ELSE taken)

(* A session that is over, or whose connection the node has closed, holds  *)
(* nothing: its goroutines return, its stream is closed and its user has   *)
(* left the hub.                                                           *)
Released ==
  /\ pump = "out" /\ loop = "out" /\ watcher = "out"
  /\ closed /\ once = "over" /\ member # "this"

SessionReleases == (InSession /\ (ended \/ once # "no")) ~> Released

(* "Idempotent" (session.go:94): a session leaves the hub once.  The       *)
(* second Close, which comes when its stream has ended, does not remove    *)
(* the user who has connected again since.                                 *)
NextStays == again /\ ~overlap => member = "next"
=============================================================================
