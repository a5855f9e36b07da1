-------------------------------- MODULE Page --------------------------------
(***************************************************************************)
(* The chat page of one viewer (web/index.go) against the web server       *)
(* (web/handlers.go): the event stream, which starts with a snapshot and   *)
(* goes on with live events, and the requests the page makes beside it.    *)
(*                                                                         *)
(* The page is one thread, but every await lets other callbacks in: each   *)
(* async function is a record of how far it has come.  A request is        *)
(* handled by the server in one step and answered in another; requests     *)
(* and the stream travel on connections of their own, in no common order.  *)
(* The connection of the stream may break; EventSource then opens another, *)
(* and the handler of the old one finds out in its own time.               *)
(*                                                                         *)
(* A message is its number, in the order of saving, and where it went: a   *)
(* topic, or the correspondent of a private message.  The log is the set   *)
(* of the messages it shows; lines about joins and links, the list of      *)
(* users and the unread badges are left out, and so is the limit of 100    *)
(* (200) rows of a history.  Other clients of the callsign are in Presence. *)
(***************************************************************************)
EXTENDS Naturals, Sequences, FiniteSets, Functions

CONSTANTS
  Topics, DefaultTopic,
  Peers,        \* correspondents of private messages
  Absent,       \* not in the hub; no thread; no correspondent in view
  MaxInputs,    \* bound: others' messages, what the viewer does, failed requests,
                \* and whether the viewer is a lurker
  MaxStreams    \* bound: event streams opened

Places   == Topics \cup Peers
Messages == [n: Nat, to: Places]

ASSUME PageAssumption ==
  /\ DefaultTopic \in Topics /\ Topics \cap Peers = {} /\ Absent \notin Places \cup Seq(Messages)
  /\ {MaxInputs, MaxStreams} \subseteq Nat

VARIABLES
  lurker,   \* the viewer's scope is read
  at,       \* the viewer's topic in the hub, or Absent
  saved,    \* the messages in the store, in the order of saving
  unsent,   \* messages saved but not yet emitted
  handler,  \* of the current stream: "off", "entered", "told", "live"
  old,      \* handlers of broken streams that have not returned
  opened,   \* streams opened so far
  sub,      \* messages in the handler's subscription
  sse,      \* events on their way to the page
  topic, dmWith, log, dms,   \* of the page
  switch, load, send,        \* calls of switchTopic, loadDMs and submit under way
  inputs,   \* others' messages and the viewer's inputs so far, and what counts as one
  muddled,  \* two switches, or a switch and the start of a stream, overlapped
  late,     \* events were on their way as a switch cleared the log
  crossed,  \* a private message was on its way during loadDMs
  failed    \* a request failed or was refused

hub   == <<at, saved, unsent>>
strm  == <<handler, old, opened, sub, sse>>
page  == <<topic, dmWith, log, dms>>
tasks == <<switch, load, send, inputs>>
past  == <<muddled, late, crossed, failed>>
vars  == <<lurker, hub, strm, page, tasks, past>>

You(t) == [type |-> "you", topic |-> t]
Ev(m)  == [type |-> "event", msg |-> m]

TypeOK ==
  /\ lurker \in BOOLEAN /\ at \in Topics \cup {Absent}
  /\ saved \in Seq(Messages) /\ unsent \subseteq Range(saved)
  /\ handler \in {"off", "entered", "told", "live"}
  /\ {old, opened} \subseteq Nat
  /\ sub \in Seq(Messages)
  /\ sse \in Seq([type: {"you"}, topic: Topics] \cup [type: {"event"}, msg: Messages])
  /\ topic \in Topics /\ dmWith \in Peers \cup {Absent}
  /\ log \subseteq Messages
  /\ dms \in [Peers -> {Absent} \cup Seq(Messages)]
  /\ switch \in Seq([step: {"post", "moved", "fetch", "loaded"}, name: Topics,
                     got: SUBSET Messages])
  /\ load \in Seq([step: {"fetch", "loaded"}, got: SUBSET Messages])
  /\ send \in Seq([shown: Places, calm: BOOLEAN]) /\ inputs \in 0..MaxInputs
  /\ {muddled, late, crossed, failed} \subseteq BOOLEAN

(* The page has been loaded and is about to connect.                       *)
Init ==
  /\ lurker \in BOOLEAN
  /\ at = Absent /\ saved = <<>> /\ unsent = {}
  /\ handler = "off" /\ old = 0 /\ opened = 0
  /\ sub = <<>> /\ sse = <<>>
  /\ topic = DefaultTopic /\ dmWith = Absent
  /\ log = {} /\ dms = [p \in Peers |-> Absent]
  /\ switch = <<>> /\ load = <<>> /\ send = <<>>
  /\ inputs = (IF lurker THEN 1 ELSE 0) /\ inputs <= MaxInputs
  /\ muddled = FALSE /\ late = FALSE /\ crossed = FALSE /\ failed = FALSE

-----------------------------------------------------------------------------
IsDM(m)  == m.to \in Peers
Starting == handler # "live" \/ \E i \in DOMAIN sse : sse[i].type = "you"
Events   == {sse[i].msg : i \in {j \in DOMAIN sse : sse[j].type = "event"}}
DMsOnTheirWay == {m \in unsent \cup Range(sub) \cup Events : IsDM(m)}

(* A call returns.                                                         *)
Done(calls, i) == SubSeq(calls, 1, i - 1) \o SubSeq(calls, i + 1, Len(calls))

(* What is typed now, and what has been and is not yet handled, may find   *)
(* the viewer in another topic than the page shows.                        *)
Stir == send' = [i \in DOMAIN send |-> [send[i] EXCEPT !.calm = FALSE]]

-----------------------------------------------------------------------------
Input == inputs < MaxInputs /\ inputs' = inputs + 1

(* The hub: Post and Private save the message and then emit it.            *)
Save(t) ==
  LET m == [n |-> Len(saved) + 1, to |-> t]
  IN  /\ saved' = Append(saved, m)
      /\ unsent' = unsent \cup {m}
      /\ crossed' = (crossed \/ (IsDM(m) /\ load # <<>>))

(* Somebody else posts to a topic, or writes to the viewer.                *)
OtherPost(t) ==
  /\ Input
  /\ Save(t)
  /\ UNCHANGED <<lurker, at, strm, page, switch, load, send, muddled, late, failed>>

(* The subscription of the handler gets it.                                *)
SubscribedLate == handler = "live"
Subscribed     == handler # "off"

Emit(m) ==
  /\ unsent' = unsent \ {m}
  /\ sub' = IF Subscribed THEN Append(sub, m) ELSE sub
  /\ UNCHANGED <<lurker, at, saved, handler, old, opened, sse, page, tasks, past>>

-----------------------------------------------------------------------------
(* handleEvents.                                                           *)

(* EventSource connects.  presence.enter joins the viewer in the default   *)
(* topic, unless another handler is in; then the handler subscribes ...    *)
Connect ==
  /\ handler = "off" /\ opened < MaxStreams
  /\ handler' = "entered"
  /\ opened' = opened + 1
  /\ at' = IF old > 0 THEN at ELSE DefaultTopic
  /\ UNCHANGED <<lurker, saved, unsent, old, sub, sse, page, tasks, past>>

(* ... sends the snapshot, the viewer's topic and its history; with it,   *)
(* what went wrong before is over, unless a request is still under way ... *)
History(t) == {m \in Range(saved) : m.to = t}
Rows(ms)   == {s \in UNION {Bijection(1..k, ms) : k \in 0..Cardinality(ms)} :
                 \A i, j \in DOMAIN s : i < j => s[i].n < s[j].n}

Snapshot ==
  /\ handler = "entered"
  /\ handler' = "told"
  /\ \E s \in Rows(History(at)) : sse' = <<You(at)>> \o [i \in DOMAIN s |-> Ev(s[i])]
  /\ muddled' = (switch # <<>>)
  /\ late' = FALSE
  /\ failed' = (failed /\ (switch # <<>> \/ load # <<>>))
  /\ UNCHANGED <<lurker, hub, old, opened, sub, page, tasks, crossed>>

Follow ==
  /\ handler = "told"
  /\ handler' = "live"
  /\ UNCHANGED <<lurker, hub, old, opened, sub, sse, page, tasks, past>>

(* ... and goes on with live events.  filter: a topic message if that is   *)
(* the viewer's topic NOW, a private message of the viewer always.         *)
filter(m) == IsDM(m) \/ m.to = at

Live ==
  /\ handler = "live" /\ sub # <<>>
  /\ sub' = Tail(sub)
  /\ sse' = IF filter(Head(sub)) THEN Append(sse, Ev(Head(sub))) ELSE sse
  /\ UNCHANGED <<lurker, hub, handler, old, opened, page, tasks, past>>

(* The connection breaks, with what was on its way ...                     *)
Break ==
  /\ handler # "off" /\ opened < MaxStreams
  /\ handler' = "off" /\ old' = old + 1
  /\ sub' = <<>> /\ sse' = <<>>
  /\ muddled' = (muddled \/ switch # <<>>)
  /\ Stir
  /\ UNCHANGED <<lurker, hub, opened, page, switch, load, inputs, late, crossed, failed>>

(* ... and its handler returns; the last one leaves the hub.               *)
Return ==
  /\ old > 0
  /\ old' = old - 1
  /\ at' = IF handler = "off" /\ old = 1 THEN Absent ELSE at
  /\ UNCHANGED <<lurker, saved, unsent, handler, opened, sub, sse, page, tasks, past>>

-----------------------------------------------------------------------------
(* The page's listeners.                                                   *)

YouTopicKept(t) == topic
YouTopic(t)     == t

(* setTopic, clear the log, and loadDMs up to its await.                   *)
OnYou ==
  /\ sse # <<>> /\ Head(sse).type = "you"
  /\ sse' = Tail(sse)
  /\ topic' = YouTopic(Head(sse).topic)
  /\ log' = {}
  /\ load' = Append(load, [step |-> "fetch", got |-> {}])
  /\ crossed' = (load # <<>> \/ DMsOnTheirWay # {})
  /\ UNCHANGED <<lurker, hub, handler, old, opened, sub, dmWith, dms, switch, send, inputs,
                 muddled, late, failed>>

(* renderEvent: a topic message goes to the log, whatever is in view; a    *)
(* private one to its thread, and to the log if that thread is in view.    *)
Thread(p) == IF dms[p] = Absent THEN <<>> ELSE dms[p]

OnEvent ==
  LET m == Head(sse).msg
  IN  /\ sse # <<>> /\ Head(sse).type = "event"
      /\ sse' = Tail(sse)
      /\ IF IsDM(m)
           THEN /\ dms' = [dms EXCEPT ![m.to] = Append(Thread(m.to), m)]
                /\ log' = IF dmWith = m.to THEN log \cup {m} ELSE log
           ELSE log' = log \cup {m} /\ UNCHANGED dms
      /\ UNCHANGED <<lurker, hub, handler, old, opened, sub, topic, dmWith, tasks, past>>

-----------------------------------------------------------------------------
(* loadDMs.                                                                *)

Answered(calls, i, ms) == [calls EXCEPT ![i].step = "loaded", ![i].got = ms]

(* handleDMs reads the private messages of the viewer from the store.      *)
ServeDMs(i) ==
  /\ load[i].step = "fetch"
  /\ load' = Answered(load, i, {m \in Range(saved) : IsDM(m)})
  /\ UNCHANGED <<lurker, hub, strm, page, switch, send, inputs, past>>

(* The threads are rebuilt from the answer, and the one in view, if it has *)
(* any message, is shown again.                                            *)
RowsWith(ms, p) == Rows({m \in ms : m.to = p})
AllRows(ms)     == UNION {RowsWith(ms, p) : p \in Peers}

RebuiltOnto(ms) ==
  {[p \in Peers |-> Thread(p) \o rows[p]] :
     rows \in {f \in [Peers -> AllRows(ms)] : \A p \in Peers : f[p] \in RowsWith(ms, p)}}
Rebuilt(ms) ==
  {threads \in [Peers -> AllRows(ms) \cup {Absent}] : \A p \in Peers :
     IF \E m \in ms : m.to = p THEN threads[p] \in RowsWith(ms, p) ELSE threads[p] = Absent}

loadDMs(i) ==
  /\ load[i].step = "loaded"
  /\ dms' \in Rebuilt(load[i].got)
  /\ log' = IF dmWith # Absent /\ dms'[dmWith] # Absent THEN Range(dms'[dmWith]) ELSE log
  /\ load' = Done(load, i)
  /\ crossed' = (crossed \/ DMsOnTheirWay # {})
  /\ UNCHANGED <<lurker, hub, strm, topic, dmWith, switch, send, inputs, muddled, late, failed>>

(* The answer is not ok, or none comes.                                    *)
LoadFails(i) ==
  /\ Input
  /\ load' = Done(load, i)
  /\ failed' = TRUE
  /\ UNCHANGED <<lurker, hub, strm, page, switch, send, muddled, late, crossed>>

-----------------------------------------------------------------------------
(* switchTopic, up to its first await.                                     *)
switchTopic(t) ==
  /\ Input
  /\ dmWith # Absent \/ t # topic
  /\ dmWith' = Absent
  /\ switch' = Append(switch, [step |-> "post", name |-> t, got |-> {}])
  /\ muddled' = (muddled \/ switch # <<>> \/ Starting)
  /\ Stir
  /\ UNCHANGED <<lurker, hub, strm, topic, log, dms, load, late, crossed, failed>>

(* handleTopic: a lurker, and somebody who is not in the hub, is refused;  *)
(* the page does not look at the answer.                                   *)
Refused == lurker \/ at = Absent

ServeTopic(i) ==
  /\ switch[i].step = "post"
  /\ at' = IF Refused THEN at ELSE switch[i].name
  /\ failed' = (failed \/ Refused)
  /\ switch' = [switch EXCEPT ![i].step = "moved"]
  /\ UNCHANGED <<lurker, saved, unsent, strm, page, load, send, inputs, muddled, late, crossed>>

(* The page moves too, clears the log and asks for the history ...         *)
Moved(i) ==
  /\ switch[i].step = "moved"
  /\ topic' = switch[i].name
  /\ log' = {}
  /\ switch' = [switch EXCEPT ![i].step = "fetch"]
  /\ late' = (late \/ sse # <<>>)
  /\ UNCHANGED <<lurker, hub, strm, dmWith, dms, load, send, inputs, muddled, crossed, failed>>

(* ... which handleHistory reads from the store ...                        *)
ServeHistory(i) ==
  /\ switch[i].step = "fetch"
  /\ switch' = Answered(switch, i, History(switch[i].name))
  /\ UNCHANGED <<lurker, hub, strm, page, load, send, inputs, past>>

(* ... and which is added to whatever the log shows by then.               *)
loadHistory(i) ==
  /\ switch[i].step = "loaded"
  /\ log' = log \cup switch[i].got
  /\ switch' = Done(switch, i)
  /\ UNCHANGED <<lurker, hub, strm, topic, dmWith, dms, load, send, inputs, past>>

SwitchFails(i) ==
  /\ Input
  /\ switch' = Done(switch, i)
  /\ failed' = TRUE
  /\ UNCHANGED <<lurker, hub, strm, page, load, send, muddled, late, crossed>>

-----------------------------------------------------------------------------
(* openDM: the thread, made if need be, replaces the log.                  *)
openDM(p) ==
  /\ Input
  /\ dmWith' = p
  /\ dms' = [dms EXCEPT ![p] = Thread(p)]
  /\ log' = Range(Thread(p))
  /\ UNCHANGED <<lurker, hub, strm, topic, switch, load, send, past>>

(* The composer writes to the thread in view, else to the topic; the       *)
(* request for the latter does not name it.                                *)
Shown == IF dmWith # Absent THEN dmWith ELSE topic

Submit ==
  /\ Input
  /\ send' = Append(send, [shown |-> Shown, calm |-> switch = <<>> /\ ~Starting])
  /\ UNCHANGED <<lurker, hub, strm, page, switch, load, past>>

(* handleSend and handleDM; a sender who is not in the hub is entered for  *)
(* the length of the request.                                              *)
PostTopic == IF at = Absent THEN DefaultTopic ELSE at
GoesTo(s) == IF s.shown \in Peers THEN s.shown ELSE PostTopic

ServeSend(i) ==
  /\ ~lurker
  /\ Save(GoesTo(send[i]))
  /\ send' = Done(send, i)
  /\ UNCHANGED <<lurker, at, strm, page, switch, load, inputs, muddled, late, failed>>

(* It is refused (a lurker, a correspondent who is not in the hub) or lost. *)
SendFails(i) ==
  /\ send' = Done(send, i)
  /\ UNCHANGED <<lurker, hub, strm, page, switch, load, inputs, past>>

-----------------------------------------------------------------------------
Server ==
  \/ \E p \in Places : OtherPost(p)
  \/ \E m \in unsent : Emit(m)
  \/ Connect \/ Snapshot \/ Follow \/ Live \/ Break \/ Return
  \/ \E i \in DOMAIN load : ServeDMs(i)
  \/ \E i \in DOMAIN switch : ServeTopic(i) \/ ServeHistory(i)
  \/ \E i \in DOMAIN send : ServeSend(i) \/ SendFails(i)

Browser ==
  \/ OnYou \/ OnEvent \/ Submit
  \/ \E i \in DOMAIN load : loadDMs(i) \/ LoadFails(i)
  \/ \E t \in Topics : switchTopic(t)
  \/ \E i \in DOMAIN switch : Moved(i) \/ loadHistory(i) \/ SwitchFails(i)
  \/ \E p \in Peers : openDM(p)

Next == Server \/ Browser

Spec == Init /\ [][Next]_vars

-----------------------------------------------------------------------------
(* The stream is followed, and nothing is on its way in either direction.  *)
AtRest ==
  /\ handler = "live" /\ sub = <<>> /\ sse = <<>> /\ unsent = {}
  /\ switch = <<>> /\ load = <<>> /\ send = <<>>

(* The page names the topic the hub has the viewer in, and the log, when   *)
(* no thread is in view, shows the messages of that topic, however events, *)
(* switches, histories and reconnections ("a reconnect backfills cleanly", *)
(* index.go:518) interleave.  Until a snapshot makes it good: a switch     *)
(* that is refused is shown all the same (post ignores the answer), a      *)
(* failed one leaves the page where it was; of overlapping switches the    *)
(* hub may take another last than the page; and the log keeps an event of  *)
(* the former topic that arrives after it was cleared.                     *)
PageAgrees ==
  AtRest /\ ~muddled /\ ~failed =>
    /\ topic = at
    /\ dmWith = Absent => /\ History(topic) \subseteq log
                          /\ late \/ log \subseteq History(topic)

(* A thread has every private message stored for it, once ("so a reconnect *)
(* doesn't duplicate", index.go:549), also one that came while no stream   *)
(* was open.  Until the next loadDMs: one that is on its way while loadDMs *)
(* waits for its answer is added to the thread twice, or wiped from it.    *)
DmsWhole ==
  AtRest /\ ~crossed /\ ~failed =>
    \A p \in Peers : IsInjective(Thread(p)) /\ Range(Thread(p)) = History(p)

(* What the viewer typed goes where the page showed that it would, though  *)
(* the request does not say where, if no switch was under way and no       *)
(* stream broke between the key stroke and handleSend.                     *)
SentWhereShown ==
  [][~muddled /\ ~failed => \A i \in DOMAIN send :
       ServeSend(i) /\ send[i].calm => saved'[Len(saved')].to = send[i].shown]_vars
=============================================================================
