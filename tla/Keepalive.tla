----------------------------- MODULE Keepalive -----------------------------
(***************************************************************************)
(* The keepalive of one peer link (peer/link.go): its loop, woken every    *)
(* Every ticks, closes a link on which nothing arrived for Timeout, and    *)
(* otherwise sends a keepalive and times the answer; the reader marks what *)
(* arrives.  The loop and the reader are separate goroutines; the loop     *)
(* handles its tick before the clock moves on, but a write takes as long   *)
(* as the transport, which has no deadline, lets it.                       *)
(***************************************************************************)
EXTENDS Naturals

CONSTANTS
  Every, Timeout,  \* KeepaliveInterval, LinkTimeout
  MaxClock,        \* where the clock stops (bound of the model)
  None             \* no keepalive being timed

ASSUME KeepaliveAssumption ==
  /\ Every \in Nat \ {0} /\ Timeout \in Nat /\ MaxClock \in Nat
  /\ None \notin Nat

VARIABLES
  now,
  due,       \* next tick of the loop's ticker, or the one it has missed
  loop,      \* the loop: "waits", "writes" a keepalive, or has "ended"
  alive,      \* the transport is open
  lastSeen,  \* when a record last arrived
  sentPing,  \* when the keepalive being timed was sent, or None
  rtt,       \* last measured round trip
  failed     \* a keepalive could not be written (history)

keepaliveVars == <<now, due, loop, alive, lastSeen, sentPing, rtt, failed>>

KeepaliveTypeOK ==
  /\ now \in 0..MaxClock /\ due \in Nat
  /\ loop \in {"waits", "writes", "ended"} /\ alive \in BOOLEAN /\ failed \in BOOLEAN
  /\ lastSeen \in 0..MaxClock /\ rtt \in 0..MaxClock
  /\ sentPing \in (0..MaxClock) \cup {None}

(* serve has just started.                                                 *)
KeepaliveInit ==
  /\ now = 0 /\ due = Every /\ lastSeen = 0
  /\ loop = "waits" /\ alive = TRUE
  /\ sentPing = None /\ rtt = 0 /\ failed = FALSE

Tick ==
  /\ now < MaxClock
  /\ loop = "waits" => now < due
  /\ now' = now + 1
  /\ UNCHANGED <<due, loop, alive, lastSeen, sentPing, rtt, failed>>

(* handleRecord marks the link as seen, whatever the record; a poll        *)
(* response also closes the timing of the keepalive in flight.             *)
Seen == lastSeen' = now

Arrive ==
  /\ alive
  /\ Seen
  /\ UNCHANGED <<now, due, loop, alive, sentPing, rtt, failed>>

ArrivePollResp ==
  /\ alive
  /\ Seen
  /\ rtt' = IF sentPing = None THEN rtt ELSE now - sentPing
  /\ sentPing' = None
  /\ UNCHANGED <<now, due, loop, alive, failed>>

DeadAtTwice == now - lastSeen > 2 * Timeout
Dead        == now - lastSeen > Timeout

Timed      == IF sentPing = None THEN now ELSE sentPing

(* The ticker keeps one tick for a loop that is late, and no more.         *)
NextTick == now + (Every - (now % Every))

(* A tick of the loop: close a dead link and end; or start timing, unless  *)
(* a keepalive is being timed, and send.                                   *)
Wake ==
  /\ loop = "waits" /\ alive /\ now >= due
  /\ IF Dead
       THEN /\ alive' = FALSE /\ loop' = "ended"
            /\ UNCHANGED <<due, sentPing>>
       ELSE /\ loop' = "writes"
            /\ sentPing' = Timed /\ due' = NextTick
            /\ UNCHANGED alive
  /\ UNCHANGED <<now, lastSeen, rtt, failed>>

(* The write is over, at once or later, or an error ends the loop.         *)
Written ==
  /\ loop = "writes"
  /\ \/ loop' = "waits" /\ UNCHANGED failed
     \/ loop' = "ended" /\ failed' = TRUE
  /\ UNCHANGED <<now, due, alive, lastSeen, sentPing, rtt>>

(* The transport ends for another reason; serve cancels the loop.          *)
Ends ==
  /\ alive
  /\ alive' = FALSE /\ loop' = "ended"
  /\ UNCHANGED <<now, due, lastSeen, sentPing, rtt, failed>>

KeepaliveNext == Tick \/ Arrive \/ ArrivePollResp \/ Wake \/ Written \/ Ends

KeepaliveSpec == KeepaliveInit /\ [][KeepaliveNext]_keepaliveVars

-----------------------------------------------------------------------------
(* "A link is considered dead if nothing arrives for LinkTimeout"          *)
(* (link.go:17), found at the loop's next tick: an open link has never     *)
(* been silent for longer than the timeout and one interval, unless a      *)
(* keepalive could not be written, so that nothing looks at the link       *)
(* again, or has been in writing past the next tick.                       *)
Held == loop = "writes" \/ now > due

DeadLinkDropped == alive /\ ~failed /\ ~Held => now <= lastSeen + Timeout + Every
=============================================================================
