----------------------------- MODULE Handshake -----------------------------
(***************************************************************************)
(* The handshake of one peer link, both ends of it (internal/peer/link.go, *)
(* internal/node/node.go, cmd/pdn-bpqchat/main.go).                        *)
(*                                                                         *)
(* The dialer waits for the banner, sends *RTL and a keepalive record, and *)
(* waits for OK; over RF a connect script may come first, which walks the  *)
(* connection through other nodes prompt by prompt.  The acceptor greets,  *)
(* waits for *RTL, consults the allow-list, and answers OK and a keepalive. *)
(* Over IP it does not know who is calling before the first record, which  *)
(* it reads BEFORE it answers and handles once it serves; over RF the      *)
(* caller's callsign comes with the connection.                            *)
(*                                                                         *)
(* A line is its kind and, for a record, its number among the records its  *)
(* sender sent.  Record 1 of either end is its handshake keepalive.        *)
(***************************************************************************)
EXTENDS Naturals, Sequences

CONSTANTS
  Steps,       \* bound: steps of a connect script
  Records      \* bound: records an end sends

ASSUME HandshakeAssumption == Steps \in Nat /\ Records \in Nat \ {0}

VARIABLES
  transport, \* "ip" or "rf"
  script,   \* number of steps of the dialer's connect script
  dial,     \* where the dialer is
  acc,      \* where the acceptor is
  step,     \* script steps the dialer has done
  hops,     \* commands the nodes on the way have obeyed
  toAcc, toDial, \* lines on their way
  sent,     \* records each end has sent
  got,      \* records each end has handled
  first,    \* the record the acceptor read before answering, 0 for none
  trusted,  \* the allow-list has the dialer's callsign
  conn,     \* neither end has closed the connection
  silent    \* nothing crosses the connection any more

peer  == <<transport, script, trusted>>   \* never changes
wires == <<toAcc, toDial>>
handshakeVars == <<peer, dial, acc, step, hops, wires, sent, got, first, conn, silent>>

Line(kind, n) == [kind |-> kind, n |-> n]
Lines == [kind: {"prompt", "command", "banner", "rtl", "ok", "record"}, n: 0..Records]

DialStates == {"script", "banner", "rtl", "keepalive", "ok", "serve", "ended"}
AccStates  == {"off", "greet", "rtl", "first", "check", "ok", "keepalive", "serve",
               "refused", "ended"}

HandshakeTypeOK ==
  /\ transport \in {"ip", "rf"} /\ script \in 0..Steps
  /\ dial \in DialStates /\ acc \in AccStates
  /\ step \in 0..script /\ hops \in 0..script
  /\ toAcc \in Seq(Lines) /\ toDial \in Seq(Lines)
  /\ sent \in [{"dial", "acc"} -> 0..Records]
  /\ got \in [{"dial", "acc"} -> Seq(1..Records)]
  /\ first \in 0..Records
  /\ trusted \in BOOLEAN /\ conn \in BOOLEAN /\ silent \in BOOLEAN

(* Only an RF peer is dialled by a script.                                 *)
HandshakeInit ==
  /\ transport \in {"ip", "rf"}
  /\ script \in IF transport = "rf" THEN 0..Steps ELSE {0}
  /\ dial = IF script > 0 THEN "script" ELSE "banner"
  /\ acc  = IF script > 0 THEN "off" ELSE "greet"
  /\ step = 0 /\ hops = 0
  /\ toAcc = <<>>
  /\ toDial = IF script > 0 THEN <<Line("prompt", 0)>> ELSE <<>>
  /\ sent = [e \in {"dial", "acc"} |-> 0]
  /\ got  = [e \in {"dial", "acc"} |-> <<>>]
  /\ first = 0
  /\ trusted \in BOOLEAN
  /\ conn = TRUE /\ silent = FALSE

(* A write to a connection that is closed or silent goes nowhere (one that *)
(* fails ends the writer: Fail).                                           *)
Put(wire, line) == IF conn /\ ~silent THEN Append(wire, line) ELSE wire

(* Reading one line: it is consumed whether or not it is the one waited    *)
(* for, and nothing after it is, since every phase reads from the one      *)
(* bufio.Reader.  What was received before a close is still read.          *)
RestLost(wire) == <<>>
Rest(wire)     == Tail(wire)

IsNext(wire, kind) == wire # <<>> /\ Head(wire).kind = kind

-----------------------------------------------------------------------------
(* The dialer.                                                             *)

(* expect reads up to the prompt and not past it; then the step's command. *)
Expect ==
  /\ dial = "script" /\ IsNext(toDial, "prompt")
  /\ toDial' = Rest(toDial)
  /\ toAcc'  = Put(toAcc, Line("command", 0))
  /\ step'   = step + 1
  /\ dial'   = IF step' = script THEN "banner" ELSE "script"
  /\ UNCHANGED <<acc, hops, sent, got, first, peer, conn, silent>>

(* No prompt in time: the link is given up and its stream closed.          *)
ExpectTimeout ==
  /\ dial = "script" /\ ~IsNext(toDial, "prompt")
  /\ dial' = "ended" /\ conn' = FALSE
  /\ UNCHANGED <<acc, step, hops, wires, sent, got, first, peer, silent>>

ReadBanner ==
  /\ dial = "banner" /\ toDial # <<>>
  /\ toDial' = Rest(toDial)
  /\ dial'   = IF Head(toDial).kind = "banner" THEN "rtl" ELSE "banner"
  /\ UNCHANGED <<acc, step, hops, toAcc, sent, got, first, peer, conn, silent>>

SendRTL ==
  /\ dial = "rtl"
  /\ toAcc' = Put(toAcc, Line("rtl", 0))
  /\ dial'  = "keepalive"
  /\ UNCHANGED <<acc, step, hops, toDial, sent, got, first, peer, conn, silent>>

DialKeepalive ==
  /\ dial = "keepalive"
  /\ toAcc' = Put(toAcc, Line("record", 1))
  /\ sent'  = [sent EXCEPT !["dial"] = 1]
  /\ dial'  = "ok"
  /\ UNCHANGED <<acc, step, hops, toDial, got, first, peer, conn, silent>>

ReadOK ==
  /\ dial = "ok" /\ toDial # <<>>
  /\ toDial' = Rest(toDial)
  /\ dial'   = IF Head(toDial).kind = "ok" THEN "serve" ELSE "ok"
  /\ UNCHANGED <<acc, step, hops, toAcc, sent, got, first, peer, conn, silent>>

-----------------------------------------------------------------------------
(* The nodes a script walks through (external): each obeys one command and *)
(* shows its prompt; the last connects to the acceptor.                    *)
Obey ==
  /\ IsNext(toAcc, "command")
  /\ toAcc' = Rest(toAcc)
  /\ hops'  = hops + 1
  /\ IF hops' = script THEN acc' = "greet" /\ UNCHANGED toDial
                      ELSE toDial' = Put(toDial, Line("prompt", 0)) /\ UNCHANGED acc
  /\ UNCHANGED <<dial, step, sent, got, first, peer, conn, silent>>

-----------------------------------------------------------------------------
(* The acceptor.                                                           *)

Greet ==
  /\ acc = "greet"
  /\ toDial' = Put(toDial, Line("banner", 0))
  /\ acc'    = "rtl"
  /\ UNCHANGED <<dial, step, hops, toAcc, sent, got, first, peer, conn, silent>>

ReadRTL ==
  /\ acc = "rtl" /\ IsNext(toAcc, "rtl")
  /\ toAcc' = Rest(toAcc)
  /\ acc'   = IF transport = "ip" THEN "first" ELSE "check"
  /\ UNCHANGED <<dial, step, hops, toDial, sent, got, first, peer, conn, silent>>

ReadFirst ==
  /\ acc = "first" /\ IsNext(toAcc, "record")
  /\ toAcc' = Rest(toAcc)
  /\ first' = Head(toAcc).n
  /\ acc'   = "check"
  /\ UNCHANGED <<dial, step, hops, toDial, sent, got, peer, conn, silent>>

AdmitsAny == TRUE
Admits    == trusted

Admit ==
  /\ acc = "check" /\ Admits
  /\ acc' = "ok"
  /\ UNCHANGED <<dial, step, hops, wires, sent, got, first, peer, conn, silent>>

AfterRefuse == IF transport = "rf" THEN FALSE ELSE conn

(* A refused caller is answered nothing; serveInbound closes the stream as *)
(* it returns, ServeInboundIP returns to servePeerListener, which does not. *)
Refuse ==
  /\ acc = "check" /\ ~Admits
  /\ acc'  = "refused"
  /\ conn' = AfterRefuse
  /\ UNCHANGED <<dial, step, hops, wires, sent, got, first, peer, silent>>

SendOK ==
  /\ acc = "ok"
  /\ toDial' = Put(toDial, Line("ok", 0))
  /\ acc'    = "keepalive"
  /\ UNCHANGED <<dial, step, hops, toAcc, sent, got, first, peer, conn, silent>>

PendingDropped == <<>>
Pending == IF first = 0 THEN <<>> ELSE <<first>>

(* The keepalive, and into serve, which handles the pending record first.  *)
AccKeepalive ==
  /\ acc = "keepalive"
  /\ toDial' = Put(toDial, Line("record", 1))
  /\ sent'   = [sent EXCEPT !["acc"] = 1]
  /\ got'    = [got EXCEPT !["acc"] = Pending]
  /\ acc'    = "serve"
  /\ UNCHANGED <<dial, step, hops, toAcc, first, peer, conn, silent>>

-----------------------------------------------------------------------------
(* Either end, serving: it sends records, handles the ones it reads, and   *)
(* ignores other lines.                                                    *)

DialSend ==
  /\ dial = "serve" /\ sent["dial"] < Records
  /\ sent'  = [sent EXCEPT !["dial"] = @ + 1]
  /\ toAcc' = Put(toAcc, Line("record", sent'["dial"]))
  /\ UNCHANGED <<dial, acc, step, hops, toDial, got, first, peer, conn, silent>>

AccSend ==
  /\ acc = "serve" /\ sent["acc"] < Records
  /\ sent'   = [sent EXCEPT !["acc"] = @ + 1]
  /\ toDial' = Put(toDial, Line("record", sent'["acc"]))
  /\ UNCHANGED <<dial, acc, step, hops, toAcc, got, first, peer, conn, silent>>

DialHandle ==
  /\ dial = "serve" /\ IsNext(toDial, "record")
  /\ toDial' = Rest(toDial)
  /\ got'    = [got EXCEPT !["dial"] = Append(@, Head(toDial).n)]
  /\ UNCHANGED <<dial, acc, step, hops, toAcc, sent, first, peer, conn, silent>>

AccHandle ==
  /\ acc = "serve" /\ IsNext(toAcc, "record")
  /\ toAcc' = Rest(toAcc)
  /\ got'   = [got EXCEPT !["acc"] = Append(@, Head(toAcc).n)]
  /\ UNCHANGED <<dial, acc, step, hops, toDial, sent, first, peer, conn, silent>>

-----------------------------------------------------------------------------
(* How it ends.                                                            *)

Break ==
  /\ conn /\ ~silent /\ conn' = FALSE
  /\ UNCHANGED <<dial, acc, step, hops, wires, sent, got, first, peer, silent>>

(* The transport goes silent without closing.                              *)
GoSilent ==
  /\ conn /\ ~silent
  /\ silent' = TRUE /\ toAcc' = <<>> /\ toDial' = <<>>
  /\ UNCHANGED <<dial, acc, step, hops, sent, got, first, peer, conn>>

(* An end that meets the close, at its next read or write; through a       *)
(* silent connection the other end's close does not come.                  *)
Running(state) == state \notin {"off", "refused", "ended"}

FailDial ==
  /\ ~conn /\ ~silent /\ Running(dial)
  /\ dial' = "ended"
  /\ UNCHANGED <<acc, step, hops, wires, sent, got, first, peer, conn, silent>>

FailAcc ==
  /\ ~conn /\ ~silent /\ Running(acc)
  /\ acc' = "ended"
  /\ UNCHANGED <<dial, step, hops, wires, sent, got, first, peer, conn, silent>>

TimesOutNever(state) == FALSE
TimesOut(state)      == silent /\ state = "serve"

(* keepaliveLoop closes a silent link, once it is serving.                 *)
TimeoutDial ==
  /\ TimesOut(dial)
  /\ dial' = "ended" /\ conn' = FALSE
  /\ UNCHANGED <<acc, step, hops, wires, sent, got, first, peer, silent>>

TimeoutAcc ==
  /\ TimesOut(acc)
  /\ acc' = "ended" /\ conn' = FALSE
  /\ UNCHANGED <<dial, step, hops, wires, sent, got, first, peer, silent>>

DialStep == \/ Expect \/ ExpectTimeout \/ ReadBanner \/ SendRTL \/ DialKeepalive \/ ReadOK
            \/ DialHandle \/ FailDial \/ TimeoutDial
AccStep  == \/ Greet \/ ReadRTL \/ ReadFirst \/ Admit \/ Refuse \/ SendOK \/ AccKeepalive
            \/ AccHandle \/ FailAcc \/ TimeoutAcc

HandshakeNext == DialStep \/ AccStep \/ Obey \/ DialSend \/ AccSend \/ Break \/ GoSilent

HandshakeSpec == HandshakeInit /\ [][HandshakeNext]_handshakeVars

(* The goroutines of both ends run on, and so do the nodes on the way.     *)
(* Records are sent and connections break as they will.                    *)
HandshakeFair ==
  /\ HandshakeSpec
  /\ WF_handshakeVars(DialStep) /\ WF_handshakeVars(AccStep) /\ WF_handshakeVars(Obey)

-----------------------------------------------------------------------------
(* Each end handles the other's records from the first one on, in order    *)
(* and none left out: neither the script, nor the lines read while waiting *)
(* for another, nor the record read early to learn who calls, loses one    *)
(* ("must not lose bytes it buffered", link.go:177).                       *)
HandledInOrder ==
  \A e \in {"dial", "acc"} : \A i \in 1..Len(got[e]) : got[e][i] = i

(* A caller who is not on the allow-list gets no OK, so never comes to     *)
(* serve, and no record of it reaches the acceptor's router and hub; over  *)
(* RF "the link is closed" (link.go:311).  Nor does a caller who is on it  *)
(* serve before it has been admitted: what it sends from then on finds the *)
(* acceptor serving, or gone.                                              *)
Admission ==
  /\ ~trusted => acc \notin {"ok", "keepalive", "serve"} /\ got["acc"] = <<>>
  /\ acc = "refused" => dial # "serve" /\ (transport = "rf" => ~conn)
  /\ dial = "serve" => acc \in {"keepalive", "serve", "ended"}

(* A trusted peer's link comes up at both ends, unless the connection      *)
(* breaks, falls silent or the script times out first.                     *)
ComesUp ==
  <>((dial = "serve" /\ acc = "serve") \/ ~conn \/ silent \/ ~trusted)

(* "A link is considered dead if nothing arrives for LinkTimeout"          *)
(* (link.go:17): an end that has come to serve, or is on its way there     *)
(* with nothing left to read, does not outlive a silence for ever.  Only   *)
(* one that awaits a line of the handshake does: link.go:326 sets no       *)
(* deadline there.                                                         *)
SilentIsDropped ==
  <>[](silent => /\ dial \in {"banner", "ok", "ended"}
                 /\ acc \in {"off", "rtl", "first", "refused", "ended"})
=============================================================================
