----------------------------- MODULE RhpClient -----------------------------
(***************************************************************************)
(* The request side of the RHP client (internal/rhp/client.go): callers in *)
(* several goroutines send requests over one connection, and the read loop *)
(* hands each reply to the caller whose request id it carries, through a   *)
(* channel of one place registered in c.pending.  A caller stops waiting   *)
(* when its context ends; the loop, when the connection fails, closes the  *)
(* channel of every request still registered.                              *)
(*                                                                         *)
(* A request is its id and the serial number of the call that made it; the *)
(* serial is what the model uses to tell calls apart, the program has only *)
(* the id.  The node may answer requests in any order, so what is on the   *)
(* wire is a set.  Pushes go to the handler and are modelled in Streams.   *)
(***************************************************************************)
EXTENDS Naturals, FiniteSets

CONSTANTS Callers,   \* goroutines that make requests
          MaxCalls   \* bound: requests made in all

ASSUME ClientAssumption == MaxCalls \in Nat \ {0}

Ids      == 1..MaxCalls
Requests == [id: Ids, serial: Ids]
None     == 0

VARIABLES
  nextID,    \* c.nextID, the number of requests made
  pc, id, serial, \* caller -> where it is, and its request
  pending,   \* ids registered in c.pending
  chan,      \* id -> its channel: Empty, holding a reply, or Shut
  handed,    \* the reply the loop has taken from pending but not yet sent on
  dying,     \* ids whose channels the ending loop has still to close
  asked,     \* requests on their way to the node or at it
  replies,   \* replies on their way back
  up,        \* the connection works
  closed,    \* c.closed
  loop,      \* the read loop: "read", "drop" (ending) or "done"
  answer     \* caller -> serial of the reply its last call returned, or None

callVars == <<nextID, pc, id, serial, answer>>
loopVars == <<handed, dying, loop>>
vars == <<callVars, pending, chan, loopVars, asked, replies, up, closed>>

Empty  == [kind |-> "empty", serial |-> None]
Shut   == [kind |-> "closed", serial |-> None]
Holds(s) == [kind |-> "reply", serial |-> s]
NoReply  == [id |-> None, serial |-> None]

TypeOK ==
  /\ nextID \in 0..MaxCalls
  /\ pc \in [Callers -> {"idle", "write", "wait"}]
  /\ id \in [Callers -> 0..MaxCalls] /\ serial \in [Callers -> 0..MaxCalls]
  /\ answer \in [Callers -> 0..MaxCalls]
  /\ pending \subseteq Ids /\ dying \subseteq Ids
  /\ chan \in [Ids -> {Empty, Shut} \cup {Holds(s) : s \in Ids}]
  /\ handed \in Requests \cup {NoReply}
  /\ asked \subseteq Requests /\ replies \subseteq Requests
  /\ up \in BOOLEAN /\ closed \in BOOLEAN
  /\ loop \in {"read", "drop", "done"}

Init ==
  /\ nextID = 0
  /\ pc = [c \in Callers |-> "idle"]
  /\ id = [c \in Callers |-> None] /\ serial = [c \in Callers |-> None]
  /\ answer = [c \in Callers |-> None]
  /\ pending = {} /\ dying = {}
  /\ chan = [i \in Ids |-> Empty]
  /\ handed = NoReply
  /\ asked = {} /\ replies = {}
  /\ up = TRUE /\ closed = FALSE
  /\ loop = "read"

-----------------------------------------------------------------------------
(* roundTrip.                                                              *)

FreshIDReused == CHOOSE i \in Ids : i \notin pending
FreshID == nextID + 1

(* Under c.mu: refused once the client is closed; else a fresh id and an   *)
(* empty channel are registered BEFORE the request is written.             *)
Call(c) ==
  /\ pc[c] = "idle" /\ ~closed
  /\ nextID < MaxCalls
  /\ nextID'  = nextID + 1
  /\ id'      = [id EXCEPT ![c] = FreshID]
  /\ serial'  = [serial EXCEPT ![c] = nextID']
  /\ pending' = pending \cup {FreshID}
  /\ chan'    = [chan EXCEPT ![FreshID] = Empty]
  /\ pc'      = [pc EXCEPT ![c] = "write"]
  /\ answer'  = [answer EXCEPT ![c] = None]
  /\ UNCHANGED <<loopVars, asked, replies, up, closed>>

(* A write to a connection that has failed may still seem to succeed.      *)
Write(c) ==
  /\ pc[c] = "write"
  /\ asked' = IF up THEN asked \cup {[id |-> id[c], serial |-> serial[c]]} ELSE asked
  /\ pc'    = [pc EXCEPT ![c] = "wait"]
  /\ UNCHANGED <<nextID, id, serial, answer, pending, chan, loopVars, replies, up, closed>>

Unregistered(i)    == pending \ {i}

WriteFails(c) ==
  /\ pc[c] = "write" /\ ~up
  /\ pending' = Unregistered(id[c])
  /\ pc'      = [pc EXCEPT ![c] = "idle"]
  /\ UNCHANGED <<nextID, id, serial, answer, chan, loopVars, asked, replies, up, closed>>

(* ctx.Done(): a Send gives up after 30 s, a CloseHandle after 5 s, the    *)
(* others when the attachment ends.  It may win over a reply in the        *)
(* channel.                                                                *)
Cancel(c) ==
  /\ pc[c] = "wait"
  /\ pending' = Unregistered(id[c])
  /\ pc'      = [pc EXCEPT ![c] = "idle"]
  /\ UNCHANGED <<nextID, id, serial, answer, chan, loopVars, asked, replies, up, closed>>

(* The reply, or the error of a channel closed without one.                *)
Return(c) ==
  /\ pc[c] = "wait" /\ chan[id[c]] # Empty
  /\ answer' = [answer EXCEPT ![c] = chan[id[c]].serial]
  /\ pc'     = [pc EXCEPT ![c] = "idle"]
  /\ UNCHANGED <<nextID, id, serial, pending, chan, loopVars, asked, replies, up, closed>>

-----------------------------------------------------------------------------
(* The node (external) answers every request it gets.                      *)
Answer ==
  /\ up
  /\ \E r \in asked : asked' = asked \ {r} /\ replies' = replies \cup {r}
  /\ UNCHANGED <<callVars, pending, chan, loopVars, up, closed>>

(* The connection is lost. *)
Lose ==
  /\ up /\ up' = FALSE
  /\ UNCHANGED <<callVars, pending, chan, loopVars, asked, replies, closed>>

(* Client.Close. *)
Close ==
  /\ ~closed
  /\ closed' = TRUE /\ up' = FALSE
  /\ UNCHANGED <<callVars, pending, chan, loopVars, asked, replies>>

-----------------------------------------------------------------------------
(* The read loop.                                                          *)

(* dispatch, under c.mu: a reply nobody waits for any more is dropped.     *)
Dispatch ==
  /\ loop = "read" /\ handed = NoReply
  /\ \E r \in replies :
       /\ replies' = replies \ {r}
       /\ pending' = pending \ {r.id}
       /\ handed'  = IF r.id \in pending THEN r ELSE NoReply
  /\ UNCHANGED <<callVars, chan, dying, loop, asked, up, closed>>

(* dispatch, after the unlock: the channel has room, so this cannot block. *)
Hand ==
  /\ handed # NoReply
  /\ chan'   = [chan EXCEPT ![handed.id] = Holds(handed.serial)]
  /\ handed' = NoReply
  /\ UNCHANGED <<callVars, pending, dying, loop, asked, replies, up, closed>>

ClosedStays == closed
ClosedNow   == TRUE

(* The deferred function: under c.mu it takes the registered requests and  *)
(* marks the client closed ...                                             *)
ReadFails ==
  /\ loop = "read" /\ handed = NoReply /\ ~up
  /\ loop'    = "drop"
  /\ dying'   = pending
  /\ pending' = {}
  /\ closed'  = ClosedNow
  /\ UNCHANGED <<callVars, chan, handed, asked, replies, up>>

(* ... and after the unlock closes their channels.                         *)
CloseChannels ==
  /\ loop = "drop"
  /\ chan'  = [i \in Ids |-> IF i \in dying THEN Shut ELSE chan[i]]
  /\ dying' = {}
  /\ loop'  = "done"
  /\ UNCHANGED <<callVars, pending, handed, asked, replies, up, closed>>

Loop == Dispatch \/ Hand \/ ReadFails \/ CloseChannels
RoundTrip(c) == Write(c) \/ WriteFails(c) \/ Return(c)

Next == \/ \E c \in Callers : Call(c) \/ RoundTrip(c) \/ Cancel(c)
        \/ Answer \/ Lose \/ Close \/ Loop

Spec == Init /\ [][Next]_vars

(* The read loop and a caller that can go on do go on; that a call is      *)
(* made, cancelled or answered, or that the connection fails, is assumed   *)
(* of nobody.                                                              *)
FairSpec == Spec /\ WF_vars(Loop) /\ \A c \in Callers : WF_vars(RoundTrip(c))

-----------------------------------------------------------------------------
(* A call returns the reply to its own request, never the late reply to an *)
(* earlier one that gave up; and the loop sends on, or closes, a channel   *)
(* only while it is empty: never twice, which would block the loop or      *)
(* panic.                                                                  *)
OwnReplyOnce ==
  /\ \A c \in Callers : answer[c] \in {None, serial[c]}
  /\ handed # NoReply => chan[handed.id] = Empty
  /\ \A i \in dying : chan[i] = Empty /\ i # handed.id

(* "Close shuts the connection and fails every in-flight request"          *)
(* (client.go:102): after the connection is gone every call returns, and   *)
(* none waits again, whatever was in flight.                               *)
AllReturn == ~up ~> [](\A c \in Callers : pc[c] = "idle")
=============================================================================
