------------------------------- MODULE Attach -------------------------------
(***************************************************************************)
(* The daemon's attachment to its packet node (internal/node/node.go):     *)
(* connect, create a socket, bind the chat callsign (probing for a free    *)
(* SSID), listen, serve what is accepted, and start again with backoff     *)
(* when the connection is lost.  A callsign is its SSID.                   *)
(*                                                                         *)
(* A child is an inbound connection: after its first line it is a peer     *)
(* link or a user's session.  What a connection carries is in Streams,     *)
(* Handshake and ChatHub; here is what becomes of it when the attachment   *)
(* it came through is lost.                                                *)
(***************************************************************************)
EXTENDS Integers, Sequences

CONSTANTS
  MaxSSID,       \* the largest SSID (15 on the air)
  ChatCallsign,  \* the configured one
  Children       \* inbound connections at a time

SSIDs == 0..MaxSSID
NoSSID == -1

ASSUME AttachAssumption ==
  MaxSSID \in Nat /\ ChatCallsign \in SSIDs

VARIABLES
  owned,   \* cfg.NodeOwnsCallsign: the node reserved the callsign for us
  phase,   \* where attachOnce is; "down": not attached
  tries,   \* candidates found in use
  taken,   \* SSIDs that others have bound at the node
  air,     \* the callsign bound at the node for us, or NoSSID
  bound,   \* l.bound, NoSSID before the first bind
  child,   \* connection -> "none", "first" (line awaited), "link", "session"
  dead,    \* connection -> its attachment is gone
  ident,   \* connection -> OurNode of its link, NoSSID if it is no link
  early    \* links made before the attachment knew its callsign

bindVars   == <<owned, phase, tries, air, bound>>
childVars  == <<child, dead, ident, early>>
attachVars == <<bindVars, taken, childVars>>

AttachTypeOK ==
  /\ owned \in BOOLEAN /\ early \subseteq Children
  /\ phase \in {"down", "socket", "bind", "listen", "listening", "up"}
  /\ tries \in 0..MaxSSID
  /\ taken \subseteq SSIDs
  /\ air \in SSIDs \cup {NoSSID} /\ bound \in SSIDs \cup {NoSSID}
  /\ child \in [Children -> {"none", "first", "link", "session"}]
  /\ dead \in [Children -> BOOLEAN]
  /\ ident \in [Children -> SSIDs \cup {NoSSID}]

AttachInit ==
  /\ owned \in BOOLEAN /\ early = {}
  /\ phase = "down" /\ tries = 0
  /\ taken \in SUBSET SSIDs
  /\ air = NoSSID /\ bound = NoSSID
  /\ child = [c \in Children |-> "none"]
  /\ dead  = [c \in Children |-> FALSE]
  /\ ident = [c \in Children |-> NoSSID]

-----------------------------------------------------------------------------
(* The configured callsign first, then every other SSID in order; only the *)
(* configured one if the node owns it.                                     *)

probeCandidates ==
  IF owned THEN <<ChatCallsign>>
  ELSE [i \in 1..MaxSSID + 1 |-> IF i = 1 THEN ChatCallsign
                                 ELSE IF i - 2 < ChatCallsign THEN i - 2 ELSE i - 1]

Connect ==
  /\ phase = "down"
  /\ phase' = "socket"
  /\ UNCHANGED <<owned, tries, air, bound, taken, childVars>>

Socket ==
  /\ phase = "socket"
  /\ phase' = "bind" /\ tries' = 0
  /\ UNCHANGED <<owned, air, bound, taken, childVars>>

Candidate == probeCandidates[tries + 1]

Bind ==
  /\ phase = "bind" /\ Candidate \notin taken
  /\ air' = Candidate
  /\ phase' = "listen"
  /\ UNCHANGED <<owned, tries, bound, taken, childVars>>

LastOneNext  == tries + 2 >= Len(probeCandidates)
LastOne      == tries + 1 = Len(probeCandidates)

(* In use: the next candidate, or, after the last, the attachment fails.   *)
BindInUse ==
  /\ phase = "bind" /\ Candidate \in taken
  /\ IF LastOne THEN phase' = "down" /\ UNCHANGED tries
                ELSE tries' = tries + 1 /\ UNCHANGED phase
  /\ UNCHANGED <<owned, air, bound, taken, childVars>>

Listen ==
  /\ phase = "listen"
  /\ phase' = "listening"
  /\ UNCHANGED <<owned, tries, air, bound, taken, childVars>>

(* Only after the reply to Listen, when the node may already have accepted. *)
SetBound ==
  /\ phase = "listening"
  /\ bound' = air
  /\ phase' = "up"
  /\ UNCHANGED <<owned, tries, air, taken, childVars>>

Cancels(c) == child[c] # "none"

(* The connection fails, or a request is refused: attachOnce returns, the  *)
(* client is closed and the context of every child cancelled.  No stream   *)
(* is marked closed: the map of streams is thrown away by the next attach. *)
Lost ==
  /\ phase # "down"
  /\ phase' = "down"
  /\ air'   = NoSSID
  /\ dead'  = [c \in Children |-> dead[c] \/ Cancels(c)]
  /\ UNCHANGED <<owned, tries, bound, taken, child, ident, early>>

(* Other programs at the node (external). *)
OthersBind(cs) ==
  /\ cs \notin taken /\ cs # air
  /\ taken' = taken \cup {cs}
  /\ UNCHANGED <<bindVars, childVars>>

OthersRelease(cs) ==
  /\ cs \in taken
  /\ taken' = taken \ {cs}
  /\ UNCHANGED <<bindVars, childVars>>

-----------------------------------------------------------------------------
(* A child: OnAccept, then serveInbound.                                   *)

boundCallsignConfigured == ChatCallsign
boundCallsign == IF bound # NoSSID THEN bound ELSE ChatCallsign

Accept(c) ==
  /\ phase \in {"listening", "up"} /\ child[c] = "none"
  /\ child' = [child EXCEPT ![c] = "first"]
  /\ dead'  = [dead EXCEPT ![c] = FALSE]
  /\ UNCHANGED <<bindVars, taken, ident, early>>

(* The first line is *RTL and the caller is on the allow-list.             *)
Promote(c) ==
  /\ child[c] = "first" /\ ~dead[c]
  /\ child' = [child EXCEPT ![c] = "link"]
  /\ ident' = [ident EXCEPT ![c] = boundCallsign]
  /\ early' = IF phase = "listening" THEN early \cup {c} ELSE early
  /\ UNCHANGED <<bindVars, taken, dead>>

(* The first line is anything else: the user joins the hub.  (If the       *)
(* attachment is already gone the greeting fails and the user leaves.)     *)
Login(c) ==
  /\ child[c] = "first" /\ ~dead[c]
  /\ child' = [child EXCEPT ![c] = "session"]
  /\ UNCHANGED <<bindVars, taken, dead, ident, early>>

Gone(c) ==
  /\ child' = [child EXCEPT ![c] = "none"]
  /\ dead'  = [dead EXCEPT ![c] = FALSE]
  /\ ident' = [ident EXCEPT ![c] = NoSSID]
  /\ early' = early \ {c}
  /\ UNCHANGED <<bindVars, taken>>

(* A caller refused, gone, or closed by us: the node's close push, or our  *)
(* own CloseHandle, ends the stream's reader.                              *)
End(c) == child[c] # "none" /\ ~dead[c] /\ Gone(c)

(* serve returns when its context is cancelled. *)
StopsNot(c) == FALSE
Stops(c)    == dead[c]

LinkStops(c) == child[c] = "link" /\ Stops(c) /\ Gone(c)

(* A session has no context; it ends when something is next sent to its    *)
(* user, since the client it would be sent through is closed.              *)
SendFails(c) == child[c] = "session" /\ dead[c] /\ Gone(c)

Attaching == Connect \/ Socket \/ Bind \/ BindInUse \/ Listen \/ SetBound

AttachNext ==
  \/ Attaching \/ Lost
  \/ \E cs \in SSIDs : OthersBind(cs) \/ OthersRelease(cs)
  \/ \E c \in Children : \/ Accept(c) \/ Promote(c) \/ Login(c)
                         \/ End(c) \/ LinkStops(c) \/ SendFails(c)

AttachSpec == AttachInit /\ [][AttachNext]_attachVars

(* Run keeps attaching and the serving goroutines run on.  Nobody has to   *)
(* say anything in the chat, so SendFails is not assumed to happen.        *)
AttachFair ==
  /\ AttachSpec /\ WF_attachVars(Attaching)
  /\ \A c \in Children : WF_attachVars(LinkStops(c))

-----------------------------------------------------------------------------
(* What is on the air is a callsign nobody else has bound, the configured  *)
(* one if the node assigned it, and while the daemon is up it is what the  *)
(* daemon says it is, also after an attachment that took another SSID.     *)
(* "boundCallsign is the callsign currently bound on air - the identity    *)
(* the node presents to peers" (node.go:232): a live link was given the    *)
(* callsign that is on the air.  Only one made between the node's listen   *)
(* and its reply may not have been, if the callsign was probed for.        *)
KnowsItself ==
  /\ air # NoSSID => air \notin taken /\ (owned => air = ChatCallsign)
  /\ phase = "up" => boundCallsign = air
  /\ \A c \in Children :
       child[c] = "link" /\ ~dead[c] /\ (owned \/ c \notin early) => ident[c] = air

(* If some SSID stays free (the configured one, when the node owns it) and *)
(* the connection is not lost again and again, the node comes up.  A probe *)
(* that gives up, which leaves the same state as a loss, is no excuse.     *)
ComesUp ==
  \A cs \in SSIDs :
    /\ owned => cs = ChatCallsign
    /\ <>[](cs \notin taken)
    /\ <>[][Lost => BindInUse]_attachVars
    => <>[](phase = "up")

(* A peer link does not outlive the attachment it came through.            *)
LinksStop == \A c \in Children : (child[c] = "link" /\ dead[c]) ~> (child[c] # "link")
=============================================================================
