----------------------------- MODULE LinkProofs -----------------------------
(***************************************************************************)
(* Proofs about the links of a node: the table of links (LinkTable), for   *)
(* any number of links, peers and users; the keepalive loop of one link    *)
(* (Keepalive), for any interval and timeout; and its handshake            *)
(* (Handshake), for any number of hops and records.                        *)
(***************************************************************************)
EXTENDS LinkTable, Keepalive, Handshake, TLAPS

-----------------------------------------------------------------------------
(* LinkTable: what serve sets up and takes down stays consistent for every *)
(* peer that never has two connections at a time, whatever the others do.  *)

Live(l) == life[l] \notin {"new", "done"}

(* Such a peer has one live link at most, and the table has that one; the  *)
(* table has live links only, and an open link has not been unlinked.      *)
TableInv ==
  /\ \A l, m \in Links :
       Live(l) /\ Live(m) /\ Peer[l] = Peer[m] /\ Peer[l] \notin twice => l = m
  /\ \A l \in Links : Live(l) /\ Peer[l] \notin twice => links[Peer[l]] = l
  /\ \A p \in Peers : links[p] # Null => Live(links[p]) /\ Peer[links[p]] = p
  /\ \A l \in open : life[l] \in {"added", "serving"}

(* A link being served has its node in the graph, and a remote user comes  *)
(* from a link being served.                                               *)
UserInv ==
  /\ \A l \in Links : life[l] = "serving" /\ Peer[l] \notin twice => Peer[l] \in nodes
  /\ \A u \in Users : via[u] # Null /\ via[u] \notin twice =>
       \E l \in Links : Peer[l] = via[u] /\ life[l] = "serving"

ServeInv == TypeOK /\ TableInv /\ UserInv

(* Every step keeps the type invariant.                                    *)
LEMMA TypeStep == TypeOK /\ [Next]_vars => TypeOK'
<1> USE LinkAssumption
<1> SUFFICES ASSUME TypeOK, [Next]_vars PROVE TypeOK'
  OBVIOUS
<1>1. ASSUME NEW l \in Links, Add(l) PROVE TypeOK'
  BY <1>1 DEF TypeOK, Add
<1>2. ASSUME NEW l \in Links, LinkNode(l) PROVE TypeOK'
  BY <1>2 DEF TypeOK, LinkNode
<1>3. ASSUME NEW l \in Links, NEW u \in Users, Learn(l, u) PROVE TypeOK'
  BY <1>3 DEF TypeOK, Learn, Ingress
<1>4. ASSUME NEW l \in Links, NEW u \in Users, Forget(l, u) PROVE TypeOK'
  BY <1>4 DEF TypeOK, Forget
<1>5. ASSUME NEW l \in Links, Close(l) PROVE TypeOK'
  BY <1>5 DEF TypeOK, Close
<1>6. ASSUME NEW l \in Links, UnlinkNode(l) PROVE TypeOK'
  BY <1>6 DEF TypeOK, UnlinkNode
<1>7. ASSUME NEW l \in Links, Remove(l) PROVE TypeOK'
  BY <1>7 DEF TypeOK, Remove, Removed
<1>8. CASE UNCHANGED vars
  BY <1>8 DEF TypeOK, vars
<1> QED BY <1>1, <1>2, <1>3, <1>4, <1>5, <1>6, <1>7, <1>8 DEF Next

(* Every step keeps the table.                                             *)
LEMMA TableStep ==
  ASSUME TypeOK, TableInv, [Next]_vars
  PROVE  TableInv'
<1> USE LinkAssumption DEF Live
<1>1. ASSUME NEW l \in Links, Add(l) PROVE TableInv'
  <2>1. /\ life[l] = "new" /\ life' = [life EXCEPT ![l] = "added"]
        /\ open' = open \cup {l} /\ links' = [links EXCEPT ![Peer[l]] = l]
    BY <1>1 DEF Add
  <2>2. /\ twice \subseteq twice'
        /\ Peer[l] \notin twice' => \A m \in Links : Live(m) => Peer[m] # Peer[l]
    BY <1>1 DEF Add, Alive
  <2>3. Peer[l] \in Peers /\ life \in [Links -> {"new", "added", "serving", "unlinked", "done"}]
        /\ links \in [Peers -> Links \cup {Null}] /\ open \subseteq Links
    BY DEF TypeOK
  <2>4. \A m \in Links : Live(m)' <=> Live(m) \/ m = l
    BY <2>1, <2>3
  <2> QED BY <2>1, <2>2, <2>3, <2>4 DEF TableInv
<1>2. ASSUME NEW l \in Links, LinkNode(l) PROVE TableInv'
  BY <1>2 DEF TypeOK, TableInv, LinkNode
<1>3. ASSUME NEW l \in Links, NEW u \in Users, Learn(l, u) PROVE TableInv'
  BY <1>3 DEF TableInv, Learn
<1>4. ASSUME NEW l \in Links, NEW u \in Users, Forget(l, u) PROVE TableInv'
  BY <1>4 DEF TableInv, Forget
<1>5. ASSUME NEW l \in Links, Close(l) PROVE TableInv'
  BY <1>5 DEF TableInv, Close
<1>6. ASSUME NEW l \in Links, UnlinkNode(l) PROVE TableInv'
  BY <1>6 DEF TypeOK, TableInv, UnlinkNode
<1>7. ASSUME NEW l \in Links, Remove(l) PROVE TableInv'
  BY <1>7 DEF TypeOK, TableInv, Remove, Removed
<1>8. CASE UNCHANGED vars
  BY <1>8 DEF TableInv, vars
<1> QED BY <1>1, <1>2, <1>3, <1>4, <1>5, <1>6, <1>7, <1>8 DEF Next

(* Every step keeps the users tied to links being served.  The cascade of  *)
(* UnlinkNode takes exactly the users whose one link is going.             *)
LEMMA UserStep ==
  ASSUME TypeOK, TableInv, UserInv, [Next]_vars
  PROVE  UserInv'
<1> USE LinkAssumption
<1>1. ASSUME NEW l \in Links, Add(l) PROVE UserInv'
  BY <1>1 DEF TypeOK, UserInv, Add
<1>2. ASSUME NEW l \in Links, LinkNode(l) PROVE UserInv'
  BY <1>2 DEF TypeOK, UserInv, LinkNode
<1>3. ASSUME NEW l \in Links, NEW u \in Users, Learn(l, u) PROVE UserInv'
  BY <1>3 DEF TypeOK, UserInv, Learn, Ingress
<1>4. ASSUME NEW l \in Links, NEW u \in Users, Forget(l, u) PROVE UserInv'
  BY <1>4 DEF TypeOK, UserInv, Forget
<1>5. ASSUME NEW l \in Links, Close(l) PROVE UserInv'
  BY <1>5 DEF UserInv, Close
<1>6. ASSUME NEW l \in Links, UnlinkNode(l) PROVE UserInv'
  <2> DEFINE p == Peer[l]
  <2>1. /\ life[l] = "serving" /\ life' = [life EXCEPT ![l] = "unlinked"]
        /\ nodes \ {p} \subseteq nodes' /\ twice' = twice
        /\ p \notin twice =>
             via' = [u \in Users |-> IF u \in LearnedVia(p) THEN Null ELSE via[u]]
        /\ \A u \in Users : via'[u] # Null => via'[u] = via[u]
    BY <1>6 DEF UnlinkNode, UserInv
  <2>2. \A m \in Links : m # l /\ life[m] = "serving" /\ p \notin twice => Peer[m] # p
    BY <2>1 DEF TableInv, Live
  <2>3. \A m \in Links : m # l => life'[m] = life[m]
    BY <2>1 DEF TypeOK
  <2>4. life'[l] = "unlinked"
    BY <2>1 DEF TypeOK
  <2>5. \A u \in Users : via'[u] # Null =>
          via'[u] = via[u] /\ (p \notin twice => via[u] # p)
    BY <2>1 DEF LearnedVia
  <2>6. \A m \in Links : life'[m] = "serving" /\ Peer[m] \notin twice => Peer[m] \in nodes'
    BY <2>1, <2>2, <2>3, <2>4 DEF UserInv
  <2>7. ASSUME NEW u \in Users, via'[u] # Null, via'[u] \notin twice
        PROVE  \E m \in Links : Peer[m] = via'[u] /\ life'[m] = "serving"
    <3>1. PICK m \in Links : Peer[m] = via[u] /\ life[m] = "serving"
      BY <2>5, <2>7 DEF UserInv
    <3>2. m # l
      BY <2>5, <2>7, <3>1
    <3> QED BY <2>3, <2>5, <2>7, <3>1, <3>2
  <2> QED BY <2>1, <2>6, <2>7 DEF UserInv
<1>7. ASSUME NEW l \in Links, Remove(l) PROVE UserInv'
  BY <1>7 DEF TypeOK, UserInv, Remove
<1>8. CASE UNCHANGED vars
  BY <1>8 DEF UserInv, vars
<1> QED BY <1>1, <1>2, <1>3, <1>4, <1>5, <1>6, <1>7, <1>8 DEF Next

(* The inductive invariant holds of every behaviour.                       *)
THEOREM ServeInvariance ==
  Spec => []ServeInv
<1>1. Init => ServeInv
  BY LinkAssumption DEF Init, ServeInv, TypeOK, TableInv, UserInv, Live
<1>2. ServeInv /\ [Next]_vars => ServeInv'
  BY TypeStep, TableStep, UserStep DEF ServeInv
<1> QED BY <1>1, <1>2, PTL DEF Spec

(* router.go Add and Remove, as serve calls them, keep a peer that is      *)
(* being served in the link table, and no link that is over.               *)
THEOREM TableIsExact ==
  Spec => [](RelayReaches /\ NoStaleLink)
<1>1. ServeInv => RelayReaches /\ NoStaleLink
  BY LinkAssumption DEF ServeInv, TypeOK, TableInv, RelayReaches, NoStaleLink, Live
<1> QED BY <1>1, ServeInvariance, PTL

(* UnlinkNode's cascade (hub.go:342-371) leaves no remote user behind when *)
(* the link it was learned from is over.                                   *)
THEOREM NoUserLeftBehind ==
  Spec => []NoGhost
<1>1. ServeInv => NoGhost
  BY DEF ServeInv, TypeOK, UserInv, NoGhost, Alive
<1> QED BY <1>1, ServeInvariance, PTL

-----------------------------------------------------------------------------
(* Keepalive: a dead link is dropped unless a keepalive could not be       *)
(* written to it, or is still being.                                       *)

(* The loop of an open link runs, and its next tick comes within the       *)
(* timeout and one interval of the last record.                            *)
TickInv ==
  /\ now \in Nat /\ due \in Nat /\ lastSeen \in Nat
  /\ lastSeen <= now
  /\ alive \in BOOLEAN /\ failed \in BOOLEAN
  /\ alive /\ ~failed => loop \in {"waits", "writes"}
  /\ alive /\ ~failed => due <= lastSeen + Timeout + Every

(* A tick is never further away than one interval.                         *)
LEMMA TickWithinInterval ==
  ASSUME now \in Nat
  PROVE  NextTick \in Nat /\ now < NextTick /\ NextTick <= now + Every
<1>1. now % Every \in 0..(Every - 1)
  BY KeepaliveAssumption
<1>2. \A m \in 0..(Every - 1) :
        LET n == now + (Every - m) IN n \in Nat /\ now < n /\ n <= now + Every
  BY KeepaliveAssumption
<1> QED BY <1>1, <1>2 DEF NextTick

(* link.go:466-485: no open link whose keepalives were all written is      *)
(* silent for longer than LinkTimeout and one KeepaliveInterval.           *)
THEOREM DeadIsDropped == KeepaliveSpec => []DeadLinkDropped
<1> USE KeepaliveAssumption
<1>1. KeepaliveInit => TickInv
  <2> SUFFICES ASSUME KeepaliveInit PROVE TickInv
    OBVIOUS
  <2>1. /\ now = 0 /\ due = Every /\ lastSeen = 0
        /\ loop = "waits" /\ alive = TRUE /\ failed = FALSE
    BY DEF KeepaliveInit
  <2>2. alive \in BOOLEAN /\ failed \in BOOLEAN /\ loop \in {"waits", "writes"}
    BY <2>1, Zenon
  <2>3. /\ now \in Nat /\ due \in Nat /\ lastSeen \in Nat /\ lastSeen <= now
        /\ due <= lastSeen + Timeout + Every
    BY <2>1
  <2> QED BY <2>2, <2>3, Zenon DEF TickInv
<1>2. TickInv /\ [KeepaliveNext]_keepaliveVars => TickInv'
  <2> SUFFICES ASSUME TickInv, [KeepaliveNext]_keepaliveVars PROVE TickInv'
    OBVIOUS
  <2>1. CASE Tick
    BY <2>1 DEF TickInv, Tick
  <2>2. CASE Arrive
    BY <2>2 DEF TickInv, Arrive, Seen
  <2>3. CASE ArrivePollResp
    BY <2>3 DEF TickInv, ArrivePollResp, Seen
  <2>4. CASE Wake
    <3>1. CASE Dead
      BY Zenon, <2>4, <3>1 DEF TickInv, Wake
    <3>2. CASE ~Dead
      <4>1. /\ now' = now /\ lastSeen' = lastSeen /\ alive' = alive /\ failed' = failed
            /\ loop' = "writes" /\ due' = NextTick
        BY <2>4, <3>2 DEF Wake
      <4>2. now <= lastSeen + Timeout
        BY <3>2 DEF TickInv, Dead
      <4> QED BY <4>1, <4>2, TickWithinInterval DEF TickInv
    <3> QED BY <3>1, <3>2
  <2>5. CASE Written
    BY Zenon, <2>5 DEF TickInv, Written
  <2>6. CASE Ends
    BY <2>6 DEF TickInv, Ends
  <2>7. CASE UNCHANGED keepaliveVars
    BY <2>7 DEF TickInv, keepaliveVars
  <2> QED BY <2>1, <2>2, <2>3, <2>4, <2>5, <2>6, <2>7 DEF KeepaliveNext
<1>3. TickInv => DeadLinkDropped
  BY DEF TickInv, DeadLinkDropped, Held
<1> QED BY <1>1, <1>2, <1>3, PTL DEF KeepaliveSpec

-----------------------------------------------------------------------------
(* Handshake.  The lines an end sends after the script are numbered: the   *)
(* banner is 1, OK or *RTL is 2, record n is n + 2.                        *)
Up == conn /\ ~silent
OfScript == {"prompt", "command"}

Rank(line) == IF line.kind = "banner" THEN 1
              ELSE IF line.kind = "record" THEN line.n + 2 ELSE 2

(* A wire carries the lines after the first "read" ones, each once and in  *)
(* order, or one line of the script.                                       *)
Numbered(wire, read) ==
  \A i \in DOMAIN wire :
    IF wire[i].kind \in OfScript THEN Len(wire) = 1 ELSE Rank(wire[i]) = read + i

(* The number of the last line an end has read, and has sent; the acceptor *)
(* counts *RTL as its second.                                              *)
AccRead  == IF acc \in {"off", "greet", "rtl"} THEN 1
            ELSE 2 + (IF acc = "serve" THEN Len(got["acc"]) ELSE first)
DialRead == IF dial \in {"script", "banner"} THEN 0
            ELSE IF dial = "serve" THEN 2 + Len(got["dial"]) ELSE 1
AccSent  == IF acc \in {"off", "greet"} THEN 0
            ELSE IF acc = "serve" THEN 2 + sent["acc"]
            ELSE IF acc = "keepalive" THEN 2 ELSE 1
DialSent == IF dial \in {"script", "banner", "rtl"} THEN 1
            ELSE IF dial \in {"ok", "serve"} THEN 2 + sent["dial"] ELSE 2

(* How far either end can be, given how far the other is.                  *)
PhaseInv ==
  /\ script \in Nat /\ step \in Nat /\ hops \in Nat
  /\ dial \in DialStates /\ acc \in AccStates
  /\ IF acc = "off" THEN hops < script ELSE hops = script
  /\ dial = "script" => step < script
  /\ dial \notin {"script", "ended"} => step = script
  /\ acc \in {"first", "check", "ok", "keepalive", "serve", "refused"} =>
       dial \in {"keepalive", "ok", "serve", "ended"}
  /\ dial \in {"rtl", "keepalive", "ok", "serve"} => acc \notin {"off", "greet"}
  /\ dial = "serve" => acc \in {"keepalive", "serve", "ended"}
  /\ Up => dial # "ended" /\ acc # "ended"

(* What a line on its way says about both ends.                            *)
ToAcc(line) ==
  \/ line.kind = "command" /\ hops + 1 = step /\ acc = "off"
  \/ /\ line.kind = "rtl" /\ acc \notin {"off", "greet"}
     /\ dial \in {"keepalive", "ok", "serve", "ended"}
  \/ /\ line.kind = "record" /\ line.n # 0 /\ acc \notin {"off", "greet"}
     /\ dial \in {"ok", "serve", "ended"}

ToDial(line) ==
  \/ line.kind = "prompt" /\ hops = step /\ step < script
  \/ line.kind = "banner" /\ acc \notin {"off", "greet"}
  \/ line.kind = "ok" /\ acc \in {"keepalive", "serve", "ended"}
  \/ line.kind = "record" /\ line.n # 0 /\ acc \in {"serve", "ended"}

MarkInv ==
  /\ toAcc \in Seq(Lines) /\ \A i \in DOMAIN toAcc : ToAcc(toAcc[i])
  /\ toDial \in Seq(Lines) /\ \A i \in DOMAIN toDial : ToDial(toDial[i])

(* What is on the wires, and that while the connection is up it is all     *)
(* that was sent and not read.                                             *)
LineInv ==
  /\ acc # "ended" => Numbered(toAcc, AccRead)
  /\ dial # "ended" => Numbered(toDial, DialRead)
  /\ Up /\ dial \notin {"script", "banner"} => AccRead + Len(toAcc) = DialSent
  /\ Up /\ acc # "off" => DialRead + Len(toDial) = AccSent

HandledInv ==
  /\ sent \in [{"dial", "acc"} -> Nat] /\ got \in [{"dial", "acc"} -> Seq(Nat)]
  /\ dial \in {"script", "banner", "rtl", "keepalive"} => sent["dial"] = 0
  /\ acc \notin {"serve", "ended"} => sent["acc"] = 0 /\ got["acc"] = <<>>
  /\ dial \notin {"serve", "ended"} => got["dial"] = <<>>
  /\ first \in {0, 1} /\ (acc \in {"off", "greet", "rtl", "first"} => first = 0)
  /\ HandledInOrder

HandshakeInv == PhaseInv /\ MarkInv /\ LineInv /\ HandledInv

(* The head of a wire and what follows it.                                 *)
LEMMA RestWire ==
  ASSUME NEW w \in Seq(Lines), w # <<>>
  PROVE  /\ Rest(w) \in Seq(Lines) /\ Len(Rest(w)) = Len(w) - 1 /\ Len(w) \in Nat \ {0}
         /\ Head(w) = w[1] /\ 1 \in DOMAIN w /\ Head(w) \in Lines
         /\ \A i \in DOMAIN Rest(w) : i + 1 \in DOMAIN w /\ Rest(w)[i] = w[i + 1]
         /\ DOMAIN Rest(w) \subseteq Nat
  BY DEF Rest

LEMMA RestNumbered ==
  ASSUME NEW w \in Seq(Lines), w # <<>>, NEW k \in Nat, Numbered(w, k)
  PROVE  IF Head(w).kind \in OfScript THEN Rest(w) = <<>>
         ELSE Rank(Head(w)) = k + 1 /\ Numbered(Rest(w), k + 1)
<1>1. CASE Head(w).kind \in OfScript
  <2>1. Head(w) = w[1] /\ 1 \in DOMAIN w /\ Rest(w) \in Seq(Lines) /\ Len(Rest(w)) = Len(w) - 1
    BY RestWire
  <2>2. Len(w) = 1
    BY <1>1, <2>1 DEF Numbered
  <2>3. Len(Rest(w)) = 0
    BY <2>1, <2>2
  <2> QED BY <1>1, <2>1, <2>3
<1>2. CASE Head(w).kind \notin OfScript
  <2>1. Rank(Head(w)) = k + 1
    BY <1>2, RestWire DEF Numbered
  <2>2. ASSUME NEW i \in DOMAIN Rest(w)
        PROVE  Rest(w)[i].kind \notin OfScript /\ Rank(Rest(w)[i]) = k + 1 + i
    <3>1. i + 1 \in DOMAIN w /\ Rest(w)[i] = w[i + 1] /\ i \in Nat /\ Len(w) # 1
      BY RestWire
    <3>2. w[i + 1].kind \notin OfScript /\ Rank(w[i + 1]) = k + (i + 1)
      BY <3>1 DEF Numbered
    <3> QED BY <3>1, <3>2
  <2> QED BY <1>2, <2>1, <2>2 DEF Numbered
<1> QED BY <1>1, <1>2

(* A line put on a wire.                                                   *)
LEMMA PutWire ==
  ASSUME NEW w \in Seq(Lines), NEW x \in Lines
  PROVE  /\ Put(w, x) \in Seq(Lines) /\ Len(w) \in Nat
         /\ Up => Len(Put(w, x)) = Len(w) + 1
         /\ \A i \in DOMAIN Put(w, x) : (i \in DOMAIN w /\ Put(w, x)[i] = w[i]) \/ Put(w, x)[i] = x
  BY DEF Put, Up

LEMMA PutNumbered ==
  ASSUME NEW w \in Seq(Lines), NEW x \in Lines, NEW k \in Nat, Numbered(w, k),
         \A i \in DOMAIN w : w[i].kind \notin OfScript, x.kind \notin OfScript,
         Up => Rank(x) = k + (Len(w) + 1)
  PROVE  Numbered(Put(w, x), k)
<1>1. CASE ~Up
  BY <1>1 DEF Put, Up
<1>2. CASE Up
  <2>1. Put(w, x) = Append(w, x)
    BY <1>2 DEF Put, Up
  <2>2. ASSUME NEW i \in DOMAIN Append(w, x)
        PROVE  /\ i \in DOMAIN w => Append(w, x)[i] = w[i]
               /\ i \notin DOMAIN w => Append(w, x)[i] = x /\ i = Len(w) + 1
    OBVIOUS
  <2> QED BY Zenon, <1>2, <2>1, <2>2 DEF Numbered
<1> QED BY <1>1, <1>2

(* The lines that are sent.                                                *)
LEMMA SentLines ==
  /\ \A k \in {"prompt", "command", "banner", "rtl", "ok"} : Line(k, 0) \in Lines
  /\ \A n \in 0..Records : Line("record", n) \in Lines
  /\ \A k, n : Line(k, n).kind = k /\ Line(k, n).n = n
  /\ 1 \in 0..Records
  BY HandshakeAssumption DEF Line, Lines

(* With the acceptor reached, the wires carry no more of the script.       *)
LEMMA ScriptDone ==
  ASSUME PhaseInv, MarkInv, acc # "off"
  PROVE  /\ \A i \in DOMAIN toAcc : toAcc[i].kind \notin OfScript
         /\ \A i \in DOMAIN toDial : toDial[i].kind \notin OfScript
  BY DEF PhaseInv, MarkInv, ToAcc, ToDial, OfScript

LEMMA ReadCounts ==
  ASSUME PhaseInv, HandledInv
  PROVE  AccRead \in Nat /\ DialRead \in Nat /\ AccSent \in Nat /\ DialSent \in Nat
<1>1. /\ Len(got["acc"]) \in Nat /\ Len(got["dial"]) \in Nat
      /\ sent["acc"] \in Nat /\ sent["dial"] \in Nat /\ first \in Nat
  BY DEF HandledInv
<1> QED BY <1>1 DEF AccRead, DialRead, AccSent, DialSent

(* Steps that send and read nothing.                                       *)
LEMMA QuietSteps ==
  ASSUME HandshakeInv,
         \/ ExpectTimeout \/ Admit \/ Refuse \/ Break
         \/ FailDial \/ FailAcc \/ TimeoutDial \/ TimeoutAcc \/ GoSilent
         \/ UNCHANGED handshakeVars
  PROVE  HandshakeInv'
<1> USE DEF HandshakeInv
<1>1. /\ UNCHANGED <<script, step, hops, sent, got, first>>
      /\ dial' = dial \/ (dial' = "ended" /\ ~Up')
      /\ acc' = acc \/ (acc' = "ended" /\ ~Up' /\ acc # "off") \/ (acc = "check" /\ acc' \in {"ok", "refused"})
      /\ UNCHANGED wires \/ (toAcc' = <<>> /\ toDial' = <<>> /\ ~Up')
      /\ Up' => Up
  <2>1. CASE ExpectTimeout \/ FailDial \/ TimeoutDial
    BY <2>1 DEF ExpectTimeout, FailDial, TimeoutDial, peer, wires, Up
  <2>2. CASE FailAcc \/ TimeoutAcc
    BY <2>2 DEF FailAcc, TimeoutAcc, peer, wires, Up, TimesOut, Running
  <2>3. CASE Admit \/ UNCHANGED handshakeVars
    BY <2>3 DEF Admit, handshakeVars, peer, wires, Up
  <2>4. CASE Refuse
    BY <2>4 DEF Refuse, AfterRefuse, peer, wires, Up
  <2>5. CASE Break \/ GoSilent
    BY <2>5 DEF Break, GoSilent, peer, wires, Up
  <2> QED BY <2>1, <2>2, <2>3, <2>4, <2>5
<1>2. PhaseInv'
  BY <1>1 DEF PhaseInv, DialStates, AccStates
<1>3. \A line : (ToAcc(line) => ToAcc(line)') /\ (ToDial(line) => ToDial(line)')
  BY <1>1 DEF PhaseInv, ToAcc, ToDial
<1>4. MarkInv'
  <2>1. CASE UNCHANGED wires
    BY <1>3, <2>1 DEF MarkInv, wires
  <2>2. CASE toAcc' = <<>> /\ toDial' = <<>>
    BY <2>2 DEF MarkInv
  <2> QED BY <1>1, <2>1, <2>2
<1>5. /\ acc' # "ended" => AccRead' = AccRead /\ AccSent' = AccSent
      /\ dial' # "ended" => DialRead' = DialRead /\ DialSent' = DialSent
  BY <1>1 DEF AccRead, AccSent, DialRead, DialSent
<1>6. LineInv'
  <2>1. CASE UNCHANGED wires
    BY <1>1, <1>2, <1>5, <2>1 DEF LineInv, wires, PhaseInv, Numbered
  <2>2. CASE toAcc' = <<>> /\ toDial' = <<>> /\ ~Up'
    BY <2>2 DEF LineInv, Numbered
  <2> QED BY <1>1, <2>1, <2>2
<1>7. HandledInv'
  BY <1>1 DEF HandledInv, HandledInOrder
<1> QED BY <1>2, <1>4, <1>6, <1>7

(* An end puts its next line on the wire, or reads the next of the other.  *)
LEMMA AccPuts ==
  ASSUME HandshakeInv, PhaseInv', HandledInv', NEW x \in Lines, x.kind \notin OfScript, ToDial(x)',
         toDial' = Put(toDial, x), UNCHANGED <<toAcc, dial, conn, silent>>,
         acc \notin {"off", "ended"}, acc' # "off",
         \A line : (ToAcc(line) => ToAcc(line)') /\ (ToDial(line) => ToDial(line)'),
         AccRead' = AccRead, DialRead' = DialRead, DialSent' = DialSent,
         AccSent' = AccSent + 1, Rank(x) = AccSent + 1
  PROVE  HandshakeInv'
<1> USE DEF HandshakeInv
<1>1. MarkInv'
  BY Zenon, PutWire DEF MarkInv
<1>2. Up' <=> Up
  BY DEF Up
<1>3. DialRead \in Nat /\ AccSent \in Nat /\ Len(toDial) \in Nat
  BY ReadCounts DEF MarkInv
<1>4. dial # "ended" => Numbered(toDial', DialRead)
  <2> SUFFICES ASSUME dial # "ended" PROVE Numbered(toDial', DialRead)
    OBVIOUS
  <2>1. Up => Rank(x) = DialRead + (Len(toDial) + 1)
    BY <1>3 DEF LineInv
  <2>2. Numbered(toDial, DialRead)
    BY DEF LineInv
  <2> QED BY <1>3, <2>1, <2>2, ScriptDone, PutNumbered DEF MarkInv
<1>5. Up => DialRead + Len(toDial') = AccSent'
  <2>1. Up => Len(toDial') = Len(toDial) + 1
    BY PutWire DEF MarkInv
  <2>2. Up => DialRead + Len(toDial) = AccSent
    BY DEF LineInv
  <2> QED BY <1>3, <2>1, <2>2
<1>6. acc' # "ended" => Numbered(toAcc', AccRead')
  BY DEF LineInv, Numbered
<1> QED BY <1>1, <1>2, <1>4, <1>5, <1>6 DEF LineInv

LEMMA DialPuts ==
  ASSUME HandshakeInv, PhaseInv', HandledInv', NEW x \in Lines, x.kind \notin OfScript, ToAcc(x)',
         toAcc' = Put(toAcc, x), UNCHANGED <<toDial, acc, conn, silent>>,
         dial \in {"rtl", "keepalive", "serve"}, dial' # "ended",
         \A line : (ToAcc(line) => ToAcc(line)') /\ (ToDial(line) => ToDial(line)'),
         AccRead' = AccRead, DialRead' = DialRead, AccSent' = AccSent,
         DialSent' = DialSent + 1, Rank(x) = DialSent + 1
  PROVE  HandshakeInv'
<1> USE DEF HandshakeInv
<1>1. MarkInv'
  BY Zenon, PutWire DEF MarkInv
<1>2. (Up' <=> Up) /\ acc # "off"
  BY DEF Up, PhaseInv
<1>3. AccRead \in Nat /\ DialSent \in Nat /\ Len(toAcc) \in Nat
  BY ReadCounts DEF MarkInv
<1>4. acc # "ended" => Numbered(toAcc', AccRead)
  <2> SUFFICES ASSUME acc # "ended" PROVE Numbered(toAcc', AccRead)
    OBVIOUS
  <2>1. Up => Rank(x) = AccRead + (Len(toAcc) + 1)
    BY <1>3 DEF LineInv
  <2>2. Numbered(toAcc, AccRead)
    BY DEF LineInv
  <2> QED BY <1>2, <1>3, <2>1, <2>2, ScriptDone, PutNumbered DEF MarkInv
<1>5. Up => AccRead + Len(toAcc') = DialSent'
  <2>1. Up => Len(toAcc') = Len(toAcc) + 1
    BY PutWire DEF MarkInv
  <2>2. Up => AccRead + Len(toAcc) = DialSent
    BY DEF LineInv
  <2> QED BY <1>3, <2>1, <2>2
<1>6. dial' # "ended" => Numbered(toDial', DialRead')
  BY DEF LineInv, Numbered
<1>7. Up /\ acc # "off" => DialRead' + Len(toDial') = AccSent'
  BY DEF LineInv
<1> QED BY Zenon, <1>1, <1>2, <1>4, <1>5, <1>6, <1>7 DEF LineInv

LEMMA AccReads ==
  ASSUME HandshakeInv, PhaseInv', HandledInv', toAcc # <<>>, Head(toAcc).kind \notin OfScript,
         toAcc' = Rest(toAcc), UNCHANGED <<toDial, dial, conn, silent>>,
         acc \notin {"off", "ended"}, acc' # "off",
         \A line : (ToAcc(line) => ToAcc(line)') /\ (ToDial(line) => ToDial(line)'),
         AccRead' = AccRead + 1, DialRead' = DialRead, AccSent' = AccSent, DialSent' = DialSent
  PROVE  HandshakeInv'
<1> USE DEF HandshakeInv
<1>1. MarkInv'
  BY RestWire DEF MarkInv
<1>2. Up' <=> Up
  BY DEF Up
<1>3. AccRead \in Nat /\ Len(toAcc) \in Nat /\ Len(toAcc') = Len(toAcc) - 1
  BY ReadCounts, RestWire DEF MarkInv
<1>4. Numbered(toAcc', AccRead')
  BY <1>3, RestNumbered DEF LineInv, MarkInv
<1>5. Up /\ dial \notin {"script", "banner"} => AccRead' + Len(toAcc') = DialSent
  BY <1>3 DEF LineInv
<1>6. dial' # "ended" => Numbered(toDial', DialRead')
  BY DEF LineInv, Numbered
<1>7. Up => DialRead' + Len(toDial') = AccSent'
  BY DEF LineInv
<1> QED BY <1>1, <1>2, <1>4, <1>5, <1>6, <1>7 DEF LineInv

LEMMA DialReads ==
  ASSUME HandshakeInv, PhaseInv', HandledInv', toDial # <<>>, Head(toDial).kind \notin OfScript,
         toDial' = Rest(toDial), UNCHANGED <<toAcc, acc, conn, silent>>,
         dial \in {"ok", "serve"}, dial' # "ended",
         \A line : (ToAcc(line) => ToAcc(line)') /\ (ToDial(line) => ToDial(line)'),
         DialRead' = DialRead + 1, AccRead' = AccRead, AccSent' = AccSent, DialSent' = DialSent
  PROVE  HandshakeInv'
<1> USE DEF HandshakeInv
<1>1. MarkInv'
  BY RestWire DEF MarkInv
<1>2. (Up' <=> Up) /\ acc # "off"
  BY DEF Up, PhaseInv
<1>3. DialRead \in Nat /\ Len(toDial) \in Nat /\ Len(toDial') = Len(toDial) - 1
  BY ReadCounts, RestWire DEF MarkInv
<1>4. Numbered(toDial', DialRead')
  BY <1>3, RestNumbered DEF LineInv, MarkInv
<1>5. Up => DialRead' + Len(toDial') = AccSent
  BY <1>2, <1>3 DEF LineInv
<1>6. acc' # "ended" => Numbered(toAcc', AccRead')
  BY DEF LineInv, Numbered
<1>7. Up => AccRead' + Len(toAcc') = DialSent'
  BY DEF LineInv
<1> QED BY <1>1, <1>2, <1>4, <1>5, <1>6, <1>7 DEF LineInv

(* One record more is handled in order.                                    *)
LEMMA NextHandled ==
  ASSUME NEW s \in Seq(Nat), \A i \in 1..Len(s) : s[i] = i
  PROVE  /\ Append(s, Len(s) + 1) \in Seq(Nat) /\ Len(Append(s, Len(s) + 1)) = Len(s) + 1
         /\ \A i \in 1..Len(Append(s, Len(s) + 1)) : Append(s, Len(s) + 1)[i] = i
  OBVIOUS

(* The line at the head of a wire.                                         *)
LEMMA HeadLine ==
  ASSUME HandshakeInv, acc # "off"
  PROVE  /\ toAcc # <<>> => /\ ToAcc(Head(toAcc)) /\ Head(toAcc).kind \notin OfScript
                            /\ acc # "ended" => Rank(Head(toAcc)) = AccRead + 1
                            /\ Head(toAcc).n \in Nat
         /\ toDial # <<>> => /\ ToDial(Head(toDial)) /\ Head(toDial).kind \notin OfScript
                             /\ dial # "ended" => Rank(Head(toDial)) = DialRead + 1
                             /\ Head(toDial).n \in Nat
<1> USE DEF HandshakeInv
<1>1. AccRead \in Nat /\ DialRead \in Nat
  BY ReadCounts
<1>2. ASSUME toAcc # <<>>
      PROVE  /\ ToAcc(Head(toAcc)) /\ Head(toAcc).kind \notin OfScript
             /\ acc # "ended" => Rank(Head(toAcc)) = AccRead + 1
             /\ Head(toAcc).n \in Nat
  <2>1. ToAcc(Head(toAcc)) /\ Head(toAcc).kind \notin OfScript /\ Head(toAcc) \in Lines
    BY <1>2, RestWire, ScriptDone DEF MarkInv
  <2>2. acc # "ended" => Rank(Head(toAcc)) = AccRead + 1
    BY <1>1, <1>2, <2>1, RestNumbered DEF MarkInv, LineInv
  <2> QED BY <2>1, <2>2, HandshakeAssumption DEF Lines
<1>3. ASSUME toDial # <<>>
      PROVE  /\ ToDial(Head(toDial)) /\ Head(toDial).kind \notin OfScript
             /\ dial # "ended" => Rank(Head(toDial)) = DialRead + 1
             /\ Head(toDial).n \in Nat
  <2>1. ToDial(Head(toDial)) /\ Head(toDial).kind \notin OfScript /\ Head(toDial) \in Lines
    BY <1>3, RestWire, ScriptDone DEF MarkInv
  <2>2. dial # "ended" => Rank(Head(toDial)) = DialRead + 1
    BY <1>1, <1>3, <2>1, RestNumbered DEF MarkInv, LineInv
  <2> QED BY <2>1, <2>2, HandshakeAssumption DEF Lines
<1> QED BY <1>2, <1>3

(* The lines of the acceptor.                                              *)
LEMMA AccSends ==
  ASSUME HandshakeInv, Greet \/ SendOK \/ AccKeepalive \/ AccSend
  PROVE  HandshakeInv'
<1> USE DEF HandshakeInv
<1>0. /\ UNCHANGED <<script, step, hops, toAcc, dial, conn, silent, first>>
      /\ acc \in {"greet", "ok", "keepalive", "serve"}
      /\ acc' = IF acc = "greet" THEN "rtl" ELSE IF acc = "ok" THEN "keepalive" ELSE "serve"
      /\ (Up' <=> Up) /\ sent'["dial"] = sent["dial"] /\ got'["dial"] = got["dial"]
  BY DEF Greet, SendOK, AccKeepalive, AccSend, peer, Up, HandledInv
<1>1. PhaseInv'
  BY Zenon, <1>0 DEF PhaseInv, DialStates, AccStates
<1>2. \A line : (ToAcc(line) => ToAcc(line)') /\ (ToDial(line) => ToDial(line)')
  BY <1>0 DEF ToAcc, ToDial
<1>3. DialRead' = DialRead /\ DialSent' = DialSent
  BY Zenon, <1>0 DEF DialRead, DialSent
<1>4. CASE Greet
  <2>1. toDial' = Put(toDial, Line("banner", 0)) /\ HandledInv' /\ acc = "greet"
    BY <1>0, <1>4 DEF Greet, HandledInv, HandledInOrder
  <2>2. AccRead' = AccRead /\ AccSent' = AccSent + 1 /\ Rank(Line("banner", 0)) = AccSent + 1
    BY <1>0, <2>1, SentLines DEF AccRead, AccSent, Rank
  <2>3. ToDial(Line("banner", 0))' /\ Line("banner", 0).kind \notin OfScript
    BY Zenon, <1>0, <2>1, SentLines DEF ToDial, OfScript
  <2> QED BY Zenon, <1>0, <1>1, <1>2, <1>3, <2>1, <2>2, <2>3, SentLines, AccPuts
<1>5. CASE SendOK
  <2>1. toDial' = Put(toDial, Line("ok", 0)) /\ HandledInv' /\ acc = "ok"
    BY <1>0, <1>5 DEF SendOK, HandledInv, HandledInOrder
  <2>2. AccRead' = AccRead /\ AccSent' = AccSent + 1 /\ Rank(Line("ok", 0)) = AccSent + 1
    BY <1>0, <2>1, SentLines DEF AccRead, AccSent, Rank
  <2>3. ToDial(Line("ok", 0))' /\ Line("ok", 0).kind \notin OfScript
    BY <1>0, <2>1, SentLines DEF ToDial, OfScript
  <2> QED BY Zenon, <1>0, <1>1, <1>2, <1>3, <2>1, <2>2, <2>3, SentLines, AccPuts
<1>6. CASE AccKeepalive
  <2>1. /\ toDial' = Put(toDial, Line("record", 1)) /\ acc = "keepalive"
        /\ sent' = [sent EXCEPT !["acc"] = 1] /\ got' = [got EXCEPT !["acc"] = Pending]
    BY <1>6 DEF AccKeepalive
  <2>2. Pending \in Seq(Nat) /\ Len(Pending) = first /\ \A i \in 1..Len(Pending) : Pending[i] = i
    BY DEF Pending, HandledInv
  <2>3. HandledInv' /\ sent'["acc"] = 1 /\ got'["acc"] = Pending
    BY <1>0, <2>1, <2>2 DEF HandledInv, HandledInOrder
  <2>4. AccRead' = AccRead /\ AccSent' = AccSent + 1 /\ Rank(Line("record", 1)) = AccSent + 1
    BY <1>0, <2>1, <2>2, <2>3, SentLines DEF AccRead, AccSent, Rank
  <2>5. ToDial(Line("record", 1))' /\ Line("record", 1).kind \notin OfScript
    BY <1>0, <2>1, SentLines DEF ToDial, OfScript
  <2> QED BY <1>0, <1>1, <1>2, <1>3, <2>1, <2>3, <2>4, <2>5, SentLines, AccPuts
<1>7. CASE AccSend
  <2>0. PICK n : n = sent["acc"] + 1
    OBVIOUS
  <2>1. sent["acc"] \in Nat /\ n \in 0..Records /\ n # 0
    BY <1>7, <2>0, HandshakeAssumption DEF HandledInv, AccSend
  <2>2. /\ sent' = [sent EXCEPT !["acc"] = n] /\ got' = got /\ acc = "serve"
        /\ sent'["acc"] = n
    BY <1>7, <2>0 DEF AccSend, HandledInv
  <2>3. toDial' = Put(toDial, Line("record", n))
    BY <1>7, <2>2 DEF AccSend
  <2>4. HandledInv'
    BY <1>0, <2>1, <2>2 DEF HandledInv, HandledInOrder
  <2>5. AccRead' = AccRead /\ AccSent' = AccSent + 1 /\ Rank(Line("record", n)) = AccSent + 1
    BY <1>0, <2>0, <2>1, <2>2, SentLines DEF AccRead, AccSent, Rank
  <2>6. ToDial(Line("record", n))' /\ Line("record", n).kind \notin OfScript
    BY <1>0, <2>1, <2>2, SentLines DEF ToDial, OfScript
  <2> QED BY Zenon, <1>0, <1>1, <1>2, <1>3, <2>1, <2>3, <2>4, <2>5, <2>6, SentLines, AccPuts
<1> QED BY <1>4, <1>5, <1>6, <1>7

(* The lines of the dialer after the script.                               *)
LEMMA DialSends ==
  ASSUME HandshakeInv, SendRTL \/ DialKeepalive \/ DialSend
  PROVE  HandshakeInv'
<1> USE DEF HandshakeInv
<1>0. /\ UNCHANGED <<script, step, hops, toDial, acc, conn, silent, first, got>>
      /\ dial \in {"rtl", "keepalive", "serve"}
      /\ dial' = IF dial = "rtl" THEN "keepalive" ELSE IF dial = "keepalive" THEN "ok" ELSE "serve"
      /\ (Up' <=> Up) /\ sent'["acc"] = sent["acc"]
  BY DEF SendRTL, DialKeepalive, DialSend, peer, Up, HandledInv
<1>1. PhaseInv'
  BY <1>0 DEF PhaseInv, DialStates, AccStates
<1>2. \A line : (ToAcc(line) => ToAcc(line)') /\ (ToDial(line) => ToDial(line)')
  BY <1>0 DEF ToAcc, ToDial
<1>3. AccRead' = AccRead /\ AccSent' = AccSent /\ DialRead' = DialRead /\ acc \notin {"off", "greet"}
  BY Zenon, <1>0 DEF AccRead, AccSent, DialRead, PhaseInv
<1>4. CASE SendRTL
  <2>1. toAcc' = Put(toAcc, Line("rtl", 0)) /\ HandledInv' /\ dial = "rtl"
    BY <1>0, <1>4 DEF SendRTL, HandledInv, HandledInOrder
  <2>2. DialSent' = DialSent + 1 /\ Rank(Line("rtl", 0)) = DialSent + 1
    BY <1>0, <2>1, SentLines DEF DialSent, Rank
  <2>3. ToAcc(Line("rtl", 0))' /\ Line("rtl", 0).kind \notin OfScript
    BY <1>0, <1>3, <2>1, SentLines DEF ToAcc, OfScript
  <2> QED BY Zenon, <1>0, <1>1, <1>2, <1>3, <2>1, <2>2, <2>3, SentLines, DialPuts
<1>5. CASE DialKeepalive
  <2>1. /\ toAcc' = Put(toAcc, Line("record", 1)) /\ dial = "keepalive"
        /\ sent' = [sent EXCEPT !["dial"] = 1] /\ sent'["dial"] = 1
    BY <1>5 DEF DialKeepalive, HandledInv
  <2>2. HandledInv'
    BY <1>0, <2>1 DEF HandledInv, HandledInOrder
  <2>3. DialSent' = DialSent + 1 /\ Rank(Line("record", 1)) = DialSent + 1
    BY <1>0, <2>1, SentLines DEF DialSent, Rank
  <2>4. ToAcc(Line("record", 1))' /\ Line("record", 1).kind \notin OfScript
    BY <1>0, <1>3, <2>1, SentLines DEF ToAcc, OfScript
  <2> QED BY <1>0, <1>1, <1>2, <1>3, <2>1, <2>2, <2>3, <2>4, SentLines, DialPuts
<1>6. CASE DialSend
  <2>0. PICK n : n = sent["dial"] + 1
    OBVIOUS
  <2>1. sent["dial"] \in Nat /\ n \in 0..Records /\ n # 0
    BY <1>6, <2>0, HandshakeAssumption DEF HandledInv, DialSend
  <2>2. /\ sent' = [sent EXCEPT !["dial"] = n] /\ dial = "serve"
        /\ sent'["dial"] = n
    BY <1>6, <2>0 DEF DialSend, HandledInv
  <2>3. toAcc' = Put(toAcc, Line("record", n))
    BY <1>6, <2>2 DEF DialSend
  <2>4. HandledInv'
    BY <1>0, <2>1, <2>2 DEF HandledInv, HandledInOrder
  <2>5. DialSent' = DialSent + 1 /\ Rank(Line("record", n)) = DialSent + 1
    BY <1>0, <2>0, <2>1, <2>2, SentLines DEF DialSent, Rank
  <2>6. ToAcc(Line("record", n))' /\ Line("record", n).kind \notin OfScript
    BY <1>0, <1>3, <2>1, <2>2, SentLines DEF ToAcc, OfScript
  <2> QED BY <1>0, <1>1, <1>2, <1>3, <2>1, <2>2, <2>3, <2>4, <2>5, <2>6, SentLines, DialPuts
<1> QED BY <1>4, <1>5, <1>6

(* The acceptor reads.                                                     *)
LEMMA AccTakes ==
  ASSUME HandshakeInv, ReadRTL \/ ReadFirst \/ AccHandle
  PROVE  HandshakeInv'
<1> USE DEF HandshakeInv
<1>0. /\ UNCHANGED <<script, step, hops, toDial, dial, conn, silent, sent>>
      /\ toAcc' = Rest(toAcc) /\ toAcc # <<>> /\ got'["dial"] = got["dial"]
      /\ acc \in {"rtl", "first", "serve"} /\ (acc = "serve" => acc' = "serve")
      /\ acc # "serve" => acc' \in {"first", "check"}
      /\ acc = "first" => acc' = "check"
      /\ Up' <=> Up
  BY DEF ReadRTL, ReadFirst, AccHandle, IsNext, peer, Up, HandledInv
<1>1. /\ ToAcc(Head(toAcc)) /\ Head(toAcc).kind \notin OfScript /\ Head(toAcc).n \in Nat
      /\ Rank(Head(toAcc)) = AccRead + 1
  BY <1>0, HeadLine
<1>2. acc = "rtl" => dial \in {"keepalive", "ok", "serve", "ended"}
  BY <1>0, <1>1 DEF ToAcc, OfScript
<1>3. PhaseInv'
  BY <1>0, <1>2 DEF PhaseInv, DialStates, AccStates
<1>4. \A line : (ToAcc(line) => ToAcc(line)') /\ (ToDial(line) => ToDial(line)')
  BY <1>0 DEF ToAcc, ToDial
<1>5. DialRead' = DialRead /\ DialSent' = DialSent /\ AccSent' = AccSent
  BY <1>0 DEF DialRead, DialSent, AccSent
<1>6. HandledInv' /\ AccRead' = AccRead + 1
  <2>1. CASE ReadRTL
    <3>1. acc = "rtl" /\ first' = first /\ got' = got /\ first = 0
      BY <2>1 DEF ReadRTL, HandledInv
    <3>2. HandledInv'
      BY <1>0, <3>1 DEF HandledInv, HandledInOrder
    <3> QED BY <1>0, <3>1, <3>2 DEF AccRead
  <2>2. CASE ReadFirst
    <3>1. /\ acc = "first" /\ first' = Head(toAcc).n /\ got' = got /\ first = 0
          /\ Head(toAcc).kind = "record"
      BY <2>2 DEF ReadFirst, IsNext, HandledInv
    <3>2. first' = 1
      BY <1>1, <3>1 DEF AccRead, Rank
    <3>3. HandledInv'
      BY <1>0, <3>1, <3>2 DEF HandledInv, HandledInOrder
    <3> QED BY <1>0, <3>1, <3>2, <3>3 DEF AccRead
  <2>3. CASE AccHandle
    <3>1. /\ acc = "serve" /\ first' = first /\ Head(toAcc).kind = "record"
          /\ got' = [got EXCEPT !["acc"] = Append(got["acc"], Head(toAcc).n)]
      BY <2>3 DEF AccHandle, IsNext
    <3>2. got["acc"] \in Seq(Nat) /\ \A i \in 1..Len(got["acc"]) : got["acc"][i] = i
      BY DEF HandledInv, HandledInOrder
    <3>3. Len(got["acc"]) \in Nat
      BY <3>2
    <3>4. Head(toAcc).n = Len(got["acc"]) + 1
      BY <1>1, <3>1, <3>3 DEF AccRead, Rank
    <3>5. got' = [got EXCEPT !["acc"] = Append(got["acc"], Len(got["acc"]) + 1)]
      BY Zenon, <3>1, <3>4
    <3>6. /\ got'["acc"] \in Seq(Nat) /\ Len(got'["acc"]) = Len(got["acc"]) + 1
          /\ \A i \in 1..Len(got'["acc"]) : got'["acc"][i] = i
          /\ got' \in [{"dial", "acc"} -> Seq(Nat)]
      BY Zenon, <3>2, <3>5, NextHandled DEF HandledInv
    <3>7. HandledInv'
      BY Zenon, <1>0, <3>1, <3>6 DEF HandledInv, HandledInOrder
    <3> QED BY <1>0, <3>1, <3>3, <3>6, <3>7 DEF AccRead
  <2> QED BY <2>1, <2>2, <2>3
<1> QED BY <1>0, <1>1, <1>3, <1>4, <1>5, <1>6, AccReads

(* The dialer reads.                                                       *)
LEMMA DialTakes ==
  ASSUME HandshakeInv, ReadOK \/ DialHandle
  PROVE  HandshakeInv'
<1> USE DEF HandshakeInv
<1>0. /\ UNCHANGED <<script, step, hops, toAcc, acc, conn, silent, sent, first>>
      /\ toDial' = Rest(toDial) /\ toDial # <<>> /\ got'["acc"] = got["acc"]
      /\ dial \in {"ok", "serve"}
      /\ Up' <=> Up
  BY DEF ReadOK, DialHandle, IsNext, peer, Up, HandledInv
<1>1. acc \notin {"off", "greet"}
  BY Zenon, <1>0 DEF PhaseInv
<1>2. /\ ToDial(Head(toDial)) /\ Head(toDial).kind \notin OfScript /\ Head(toDial).n \in Nat
      /\ Rank(Head(toDial)) = DialRead + 1
  BY <1>0, <1>1, HeadLine
<1>3. dial = "ok" => Head(toDial).kind = "ok"
  BY <1>2 DEF ToDial, OfScript, Rank, DialRead
<1>4. dial' = "serve"
  BY <1>0, <1>3 DEF ReadOK, DialHandle
<1>5. acc \in {"keepalive", "serve", "ended"}
  BY <1>0, <1>2, <1>3 DEF ToDial, PhaseInv
<1>6. PhaseInv'
  BY Zenon, <1>0, <1>4, <1>5 DEF PhaseInv, DialStates, AccStates
<1>7. \A line : (ToAcc(line) => ToAcc(line)') /\ (ToDial(line) => ToDial(line)')
  BY <1>0, <1>4 DEF ToAcc, ToDial
<1>8. AccRead' = AccRead /\ DialSent' = DialSent /\ AccSent' = AccSent
  BY <1>0, <1>4 DEF AccRead, DialSent, AccSent
<1>9. HandledInv' /\ DialRead' = DialRead + 1
  <2>1. CASE ReadOK
    <3>1. dial = "ok" /\ got' = got /\ got["dial"] = <<>>
      BY <2>1 DEF ReadOK, HandledInv
    <3>2. HandledInv'
      BY <1>0, <1>4, <3>1 DEF HandledInv, HandledInOrder
    <3>3. Len(got'["dial"]) = 0
      BY <3>1
    <3> QED BY <1>4, <3>1, <3>2, <3>3 DEF DialRead
  <2>2. CASE DialHandle
    <3>1. /\ dial = "serve" /\ Head(toDial).kind = "record"
          /\ got' = [got EXCEPT !["dial"] = Append(got["dial"], Head(toDial).n)]
      BY <2>2 DEF DialHandle, IsNext
    <3>2. got["dial"] \in Seq(Nat) /\ \A i \in 1..Len(got["dial"]) : got["dial"][i] = i
      BY DEF HandledInv, HandledInOrder
    <3>3. Len(got["dial"]) \in Nat
      BY <3>2
    <3>4. Head(toDial).n = Len(got["dial"]) + 1
      BY <1>2, <3>1, <3>3 DEF DialRead, Rank
    <3>5. got' = [got EXCEPT !["dial"] = Append(got["dial"], Len(got["dial"]) + 1)]
      BY Zenon, <3>1, <3>4
    <3>6. /\ got'["dial"] \in Seq(Nat) /\ Len(got'["dial"]) = Len(got["dial"]) + 1
          /\ \A i \in 1..Len(got'["dial"]) : got'["dial"][i] = i
          /\ got' \in [{"dial", "acc"} -> Seq(Nat)]
      BY <3>2, <3>5, NextHandled DEF HandledInv
    <3>7. HandledInv'
      BY <1>0, <1>4, <3>1, <3>6 DEF HandledInv, HandledInOrder
    <3> QED BY <1>4, <3>1, <3>3, <3>6, <3>7 DEF DialRead
  <2> QED BY <2>1, <2>2
<1> QED BY <1>0, <1>2, <1>4, <1>6, <1>7, <1>8, <1>9, DialReads

(* The banner finds the wire to the acceptor empty.                        *)
LEMMA BannerStep ==
  ASSUME HandshakeInv, ReadBanner
  PROVE  HandshakeInv'
<1> USE DEF HandshakeInv
<1>0. /\ UNCHANGED <<script, step, hops, toAcc, acc, conn, silent, sent, got, first>>
      /\ toDial' = Rest(toDial) /\ toDial # <<>> /\ dial = "banner"
      /\ Up' <=> Up
  BY Zenon DEF ReadBanner, peer, Up
<1>1. acc # "off"
  BY <1>0, RestWire DEF MarkInv, ToDial, PhaseInv
<1>2. /\ ToDial(Head(toDial)) /\ Head(toDial).kind \notin OfScript /\ Head(toDial).n \in Nat
      /\ Rank(Head(toDial)) = DialRead + 1
  BY <1>0, <1>1, HeadLine
<1>3. Head(toDial).kind = "banner"
  BY <1>0, <1>2 DEF ToDial, OfScript, Rank, DialRead
<1>4. dial' = "rtl" /\ acc \notin {"off", "greet"}
  BY <1>2, <1>3 DEF ReadBanner, ToDial
<1>5. acc \in {"rtl", "ended"}
  BY <1>0, <1>4 DEF PhaseInv, AccStates
<1>6. PhaseInv'
  BY <1>0, <1>4, <1>5 DEF PhaseInv, DialStates, AccStates
<1>7. \A line : (ToAcc(line) => ToAcc(line)') /\ (ToDial(line) => ToDial(line)')
  BY <1>0, <1>4 DEF ToAcc, ToDial
<1>8. MarkInv'
  BY Zenon, <1>0, <1>7, RestWire DEF MarkInv
<1>9. HandledInv'
  BY <1>0, <1>4 DEF HandledInv, HandledInOrder
<1>10. toAcc = <<>>
  <2>1. \A line : ~ToAcc(line)
    BY <1>0, <1>4 DEF ToAcc
  <2>2. toAcc \in Seq(Lines) /\ DOMAIN toAcc = {}
    BY <2>1 DEF MarkInv
  <2> QED BY <2>2
<1>11. DialRead = 0 /\ DialRead' = 1 /\ DialSent' = 1 /\ (acc = "rtl" => AccRead' = 1)
  BY <1>0, <1>4 DEF DialRead, DialSent, AccRead
<1>12. Numbered(toDial', DialRead')
  BY <1>0, <1>2, <1>11, RestNumbered DEF LineInv, MarkInv
<1>13. Up => DialRead' + Len(toDial') = AccSent'
  <2>1. Len(toDial') = Len(toDial) - 1 /\ Len(toDial) \in Nat
    BY <1>0, RestWire DEF MarkInv
  <2>2. AccSent' = AccSent
    BY <1>0 DEF AccSent
  <2> QED BY <1>1, <1>11, <2>1, <2>2 DEF LineInv
<1>14. LineInv'
  <2>1. Numbered(toAcc', AccRead') /\ Len(toAcc') = 0
    BY <1>0, <1>10 DEF Numbered
  <2>2. Up => acc = "rtl"
    BY <1>5 DEF PhaseInv
  <2> QED BY <1>0, <1>11, <1>12, <1>13, <2>1, <2>2 DEF LineInv
<1> QED BY <1>6, <1>8, <1>9, <1>14

(* The script: a prompt or a command is alone on both wires.               *)
LEMMA ScriptSteps ==
  ASSUME HandshakeInv, Expect \/ Obey
  PROVE  HandshakeInv'
<1> USE DEF HandshakeInv
<1>1. \A wire \in Seq(Lines) : DOMAIN wire = {} => wire = <<>>
  OBVIOUS
<1>2. \A k : Numbered(<<>>, k)
  BY DEF Numbered
<1>3. AccRead \in Nat /\ DialRead \in Nat
  BY ReadCounts
<1>4. ASSUME NEW x \in Lines, x.kind \in OfScript
      PROVE  /\ \A k : Numbered(Put(<<>>, x), k)
             /\ Put(<<>>, x) \in Seq(Lines)
             /\ \A i \in DOMAIN Put(<<>>, x) : Put(<<>>, x)[i] = x
  <2>1. Put(<<>>, x) \in {<<>>, <<x>>}
    BY DEF Put
  <2>2. \A k : Numbered(Put(<<>>, x), k)
    BY <1>2, <1>4, <2>1 DEF Numbered
  <2>3. CASE Put(<<>>, x) = <<>>
    <3>1. <<>> \in Seq(Lines) /\ \A i \in DOMAIN <<>> : <<>>[i] = x
      OBVIOUS
    <3> QED BY Zenon, <2>2, <2>3, <3>1
  <2>4. CASE Put(<<>>, x) = <<x>>
    <3>1. <<x>> \in Seq(Lines) /\ \A i \in DOMAIN <<x>> : <<x>>[i] = x
      OBVIOUS
    <3> QED BY <2>2, <2>4, <3>1
  <2> QED BY <2>1, <2>3, <2>4
<1>5. CASE Expect
  <2>1. /\ UNCHANGED <<script, acc, hops, sent, got, first, conn, silent>>
        /\ dial = "script" /\ toDial # <<>> /\ Head(toDial).kind = "prompt"
        /\ toDial' = Rest(toDial) /\ toAcc' = Put(toAcc, Line("command", 0))
        /\ step' = step + 1 /\ dial' = IF step' = script THEN "banner" ELSE "script"
        /\ Up' <=> Up
    BY Zenon, <1>5 DEF Expect, IsNext, peer, Up
  <2>2. hops = step /\ step < script
    BY Zenon, <2>1, RestWire DEF MarkInv, ToDial
  <2>3. acc = "off"
    BY <2>2 DEF PhaseInv
  <2>4. toAcc = <<>>
    <3>1. \A line : ~ToAcc(line)
      BY <2>2, <2>3 DEF ToAcc, PhaseInv
    <3> QED BY <1>1, <3>1 DEF MarkInv
  <2>5. toDial' = <<>>
    BY <1>3, <2>1, RestNumbered DEF LineInv, MarkInv, OfScript
  <2>6. PhaseInv'
    BY <2>1, <2>2, <2>3 DEF PhaseInv, DialStates, AccStates
  <2>7. ToAcc(Line("command", 0))'
    BY <2>1, <2>2, <2>3, SentLines DEF ToAcc
  <2>8. MarkInv'
    <3>1. toAcc' \in Seq(Lines) /\ \A i \in DOMAIN toAcc' : toAcc'[i] = Line("command", 0)
      BY <1>4, <2>1, <2>4, SentLines DEF OfScript
    <3>2. \A i \in DOMAIN toAcc' : ToAcc(toAcc[i])'
      BY <2>7, <3>1 DEF ToAcc
    <3> QED BY <2>5, <3>1, <3>2 DEF MarkInv
  <2>9. LineInv'
    <3>1. \A k : Numbered(toAcc', k) /\ Numbered(toDial', k)
      BY <1>2, <1>4, <2>1, <2>4, <2>5, SentLines DEF OfScript
    <3> QED BY <2>1, <2>3, <3>1 DEF LineInv
  <2>10. HandledInv'
    BY <2>1 DEF HandledInv, HandledInOrder
  <2> QED BY <2>6, <2>8, <2>9, <2>10
<1>6. CASE Obey
  <2>1. /\ UNCHANGED <<script, dial, step, sent, got, first, conn, silent>>
        /\ toAcc # <<>> /\ Head(toAcc).kind = "command" /\ toAcc' = Rest(toAcc)
        /\ hops' = hops + 1
        /\ IF hops' = script THEN acc' = "greet" /\ toDial' = toDial
           ELSE toDial' = Put(toDial, Line("prompt", 0)) /\ acc' = acc
        /\ Up' <=> Up
    BY Zenon, <1>6 DEF Obey, IsNext, peer, Up
  <2>2. hops + 1 = step /\ acc = "off" /\ hops < script
    BY <2>1, RestWire DEF MarkInv, ToAcc, PhaseInv
  <2>3. toAcc' = <<>>
    BY <1>3, <2>1, <2>2, RestNumbered DEF LineInv, MarkInv, OfScript
  <2>4. toDial = <<>>
    <3>1. \A line : ~ToDial(line)
      BY <2>2 DEF ToDial, PhaseInv
    <3> QED BY <1>1, <3>1 DEF MarkInv
  <2>5. PhaseInv'
    BY <2>1, <2>2 DEF PhaseInv, DialStates, AccStates
  <2>6. hops' # script => ToDial(Line("prompt", 0))'
    BY <2>1, <2>2, SentLines DEF ToDial, PhaseInv
  <2>7. MarkInv'
    <3>1. CASE hops' = script
      <4>1. toDial' = <<>> /\ toAcc' = <<>>
        BY <2>1, <2>3, <2>4, <3>1
      <4> QED BY <4>1 DEF MarkInv
    <3>2. CASE hops' # script
      <4>1. toDial' \in Seq(Lines) /\ \A i \in DOMAIN toDial' : toDial'[i] = Line("prompt", 0)
        BY Zenon, <1>4, <2>1, <2>4, <3>2, SentLines DEF OfScript
      <4>2. \A i \in DOMAIN toDial' : ToDial(toDial[i])'
        BY <2>6, <3>2, <4>1 DEF ToDial
      <4> QED BY <2>3, <4>1, <4>2 DEF MarkInv
    <3> QED BY <3>1, <3>2
  <2>8. LineInv'
    <3>1. \A k : Numbered(toAcc', k) /\ Numbered(toDial', k)
      BY <1>2, <1>4, <2>1, <2>3, <2>4, SentLines DEF OfScript
    <3>2. Up' => dial' \in {"script", "banner"}
      BY <2>1, <2>2 DEF PhaseInv, DialStates
    <3>3. Up' /\ acc' # "off" => DialRead' = 0 /\ AccSent' = 0 /\ Len(toDial') = 0
      BY <2>1, <2>2, <2>4, <3>2 DEF DialRead, AccSent
    <3> QED BY <3>1, <3>2, <3>3 DEF LineInv
  <2>9. HandledInv'
    BY <2>1, <2>2 DEF HandledInv, HandledInOrder
  <2> QED BY <2>5, <2>7, <2>8, <2>9
<1> QED BY <1>5, <1>6

LEMMA HandshakeInitial == HandshakeInit => HandshakeInv
<1> SUFFICES ASSUME HandshakeInit PROVE HandshakeInv
  OBVIOUS
<1>1. /\ script \in Nat /\ step = 0 /\ hops = 0 /\ first = 0 /\ Up
      /\ dial = IF script > 0 THEN "script" ELSE "banner"
      /\ acc = IF script > 0 THEN "off" ELSE "greet"
      /\ toAcc = <<>> /\ toDial = IF script > 0 THEN <<Line("prompt", 0)>> ELSE <<>>
      /\ sent = [e \in {"dial", "acc"} |-> 0] /\ got = [e \in {"dial", "acc"} |-> <<>>]
  BY HandshakeAssumption DEF HandshakeInit, Up
<1>2. PhaseInv
  BY <1>1 DEF PhaseInv, DialStates, AccStates
<1>3. HandledInv
  BY <1>1 DEF HandledInv, HandledInOrder
<1>4. CASE script > 0
  <2>1. toDial = <<Line("prompt", 0)>> /\ toAcc = <<>> /\ acc = "off" /\ dial = "script"
    BY <1>1, <1>4
  <2>2. ToDial(Line("prompt", 0)) /\ Line("prompt", 0) \in Lines
    BY <1>1, <1>4, SentLines DEF ToDial
  <2>3. MarkInv
    BY <2>1, <2>2 DEF MarkInv
  <2>4. LineInv
    BY <2>1, SentLines DEF LineInv, Numbered, OfScript
  <2> QED BY <1>2, <1>3, <2>3, <2>4 DEF HandshakeInv
<1>5. CASE ~(script > 0)
  <2>1. toDial = <<>> /\ toAcc = <<>> /\ acc = "greet" /\ dial = "banner"
    BY <1>1, <1>5
  <2>2. MarkInv /\ LineInv
    BY <2>1 DEF MarkInv, LineInv, Numbered, DialRead, AccSent
  <2> QED BY <1>2, <1>3, <2>2 DEF HandshakeInv
<1> QED BY <1>4, <1>5

LEMMA HandshakeStep == HandshakeInv /\ [HandshakeNext]_handshakeVars => HandshakeInv'
  BY QuietSteps, AccSends, DialSends, AccTakes, DialTakes, BannerStep, ScriptSteps
     DEF HandshakeNext, DialStep, AccStep

(* peer/link.go dialHandshake, acceptHandshake and serve: neither end      *)
(* loses, repeats or reorders a record of the other, however many there    *)
(* are and however many nodes the script walks through.                    *)
THEOREM NoRecordLost == HandshakeSpec => []HandledInOrder
<1>1. HandshakeInv => HandledInOrder
  BY DEF HandshakeInv, HandledInv
<1> QED BY <1>1, HandshakeInitial, HandshakeStep, PTL DEF HandshakeSpec

(* What the allow-list has to do with either end.                          *)
AdmitInv ==
  /\ ~trusted => acc \notin {"ok", "keepalive", "serve"} /\ got["acc"] = <<>>
  /\ acc = "refused" /\ transport = "rf" => ~conn

(* peer/link.go, node.go: only an admitted caller comes to serve, and      *)
(* nothing a refused one sends is handled.                                 *)
THEOREM OnlyAdmittedServe == HandshakeSpec => []Admission
<1>1. HandshakeInit => AdmitInv
  BY DEF HandshakeInit, AdmitInv
<1>2. HandshakeInv /\ AdmitInv /\ [HandshakeNext]_handshakeVars => AdmitInv'
  <2> SUFFICES ASSUME HandshakeInv, AdmitInv, [HandshakeNext]_handshakeVars PROVE AdmitInv'
    OBVIOUS
  <2>1. got \in [{"dial", "acc"} -> Seq(Nat)]
    BY DEF HandshakeInv, HandledInv
  <2>2. trusted' = trusted /\ transport' = transport
    BY Zenon DEF HandshakeNext, DialStep, AccStep, Expect, ExpectTimeout, ReadBanner, SendRTL,
           DialKeepalive, ReadOK, DialHandle, FailDial, TimeoutDial, Greet, ReadRTL, ReadFirst,
           Admit, Refuse, SendOK, AccKeepalive, AccHandle, FailAcc, TimeoutAcc, Obey, DialSend,
           AccSend, Break, GoSilent, peer, handshakeVars
  <2>3. CASE AccStep
    <3>1. CASE Greet \/ ReadRTL \/ ReadFirst
      BY <2>2, <3>1 DEF AdmitInv, Greet, ReadRTL, ReadFirst
    <3>2. CASE Admit \/ Refuse
      BY Zenon, <2>2, <3>2 DEF AdmitInv, Admit, Refuse, Admits, AfterRefuse
    <3>3. CASE SendOK \/ AccKeepalive \/ AccHandle
      BY <2>2, <3>3 DEF AdmitInv, SendOK, AccKeepalive, AccHandle
    <3>4. CASE FailAcc \/ TimeoutAcc
      BY Zenon, <2>2, <3>4 DEF AdmitInv, FailAcc, TimeoutAcc
    <3> QED BY Zenon, <2>3, <3>1, <3>2, <3>3, <3>4 DEF AccStep
  <2>4. CASE DialStep
    <3>1. acc' = acc /\ (~conn => ~conn')
      <4>1. acc' = acc /\ (conn' = conn \/ conn' = FALSE)
        BY Zenon, <2>4 DEF DialStep, Expect, ExpectTimeout, ReadBanner, SendRTL, DialKeepalive,
                          ReadOK, DialHandle, FailDial, TimeoutDial
      <4> QED BY <4>1
    <3>2. got'["acc"] = got["acc"]
      <4>1. CASE DialHandle
        BY <2>1, <4>1 DEF DialHandle
      <4>2. CASE ~DialHandle
        BY Zenon, <2>4, <4>2 DEF DialStep, Expect, ExpectTimeout, ReadBanner, SendRTL, DialKeepalive,
                          ReadOK, FailDial, TimeoutDial
      <4> QED BY <4>1, <4>2
    <3> QED BY Zenon, <2>2, <3>1, <3>2 DEF AdmitInv
  <2>5. CASE Obey
    BY Zenon, <2>2, <2>5 DEF AdmitInv, Obey
  <2>6. CASE DialSend \/ AccSend \/ Break \/ GoSilent
    <3>1. acc' = acc /\ got' = got /\ (~conn => ~conn')
      <4>1. acc' = acc /\ got' = got /\ (conn' = conn \/ conn' = FALSE)
        BY Zenon, <2>6 DEF DialSend, AccSend, Break, GoSilent
      <4> QED BY <4>1
    <3> QED BY Zenon, <2>2, <3>1 DEF AdmitInv
  <2>7. CASE UNCHANGED handshakeVars
    BY Zenon, <2>2, <2>7 DEF AdmitInv, handshakeVars
  <2> QED BY <2>3, <2>4, <2>5, <2>6, <2>7 DEF HandshakeNext
<1>3. HandshakeInv /\ AdmitInv => Admission
  BY DEF HandshakeInv, PhaseInv, AdmitInv, Admission
<1> QED BY <1>1, <1>2, <1>3, HandshakeInitial, HandshakeStep, PTL DEF HandshakeSpec
=============================================================================
