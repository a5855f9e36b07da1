----------------------------- MODULE NodeProofs -----------------------------
(***************************************************************************)
(* Proofs about the daemon's side of its packet node: the request client   *)
(* (RhpClient), for any number of callers and requests, and the attachment *)
(* (Attach), for any number of SSIDs and connections.                      *)
(***************************************************************************)
EXTENDS RhpClient, Attach, TLAPS

-----------------------------------------------------------------------------
(* RhpClient: every call gets its own reply, and every channel one use.    *)

(* The id identifies the call, wherever a request or its reply is.         *)
Own(r)  == r.id = r.serial /\ r.id \in 1..nextID
Places  == {Empty, Shut} \cup {Holds(s) : s \in Ids}

IdsInv ==
  /\ nextID \in 0..MaxCalls
  /\ id \in [Callers -> 0..nextID] /\ serial = id
  /\ pc \in [Callers -> {"idle", "write", "wait"}]
  /\ \A c \in Callers : pc[c] # "idle" => id[c] # None
  /\ asked \subseteq Requests /\ replies \subseteq Requests
  /\ handed \in Requests \cup {NoReply}
  /\ \A r \in asked \cup replies : Own(r)
  /\ handed # NoReply => Own(handed)

(* A channel holds nothing but the reply to its own request, ...           *)
ChanInv ==
  /\ chan \in [Ids -> Places]
  /\ \A i \in Ids : chan[i] \in {Empty, Shut, Holds(i)}
  /\ answer \in [Callers -> 0..MaxCalls]
  /\ \A c \in Callers : answer[c] \in {None, id[c]}

(* ... and is empty for as long as someone may use it: an id is registered *)
(* or in the loop's hand or about to be closed, never two of these.        *)
UseInv ==
  /\ pending \subseteq 1..nextID /\ dying \subseteq 1..nextID
  /\ pending \cap dying = {}
  /\ handed.id \notin pending \cup dying
  /\ \A i \in pending \cup dying : chan[i] = Empty
  /\ handed # NoReply => loop = "read" /\ chan[handed.id] = Empty
  /\ dying # {} => loop = "drop"

Inv == IdsInv /\ ChanInv /\ UseInv

LEMMA PlacesDiffer == \A i \in Ids : Holds(i) # Empty /\ Holds(i).serial = i
  BY DEF Holds, Empty

LEMMA NoReplyIsNone == NoReply.id = None /\ NoReply \notin Requests
  BY ClientAssumption DEF NoReply, None, Requests, Ids

-----------------------------------------------------------------------------
LEMMA CallKeeps == ASSUME Inv, NEW c \in Callers, Call(c) PROVE Inv'
<1> USE ClientAssumption DEF Inv
<1>1. /\ nextID \in 0..MaxCalls /\ nextID' = nextID + 1 /\ nextID' \in Ids
      /\ FreshID = nextID' /\ FreshID \notin 1..nextID /\ nextID \in Nat
      /\ 1..nextID \subseteq 1..nextID' /\ nextID' \in 1..nextID' /\ 0..nextID \subseteq 0..nextID'
  BY DEF Call, FreshID, IdsInv, Ids
<1>2. IdsInv'
  <2>1. id' = [id EXCEPT ![c] = nextID'] /\ serial' = id'
    BY <1>1 DEF Call, IdsInv
  <2>2. /\ id' \in [Callers -> 0..nextID']
        /\ \A d \in Callers : pc'[d] # "idle" => id'[d] # None
        /\ pc' \in [Callers -> {"idle", "write", "wait"}]
    BY <1>1, <2>1 DEF Call, IdsInv, None, Ids
  <2>3. \A r : Own(r) => Own(r)'
    BY <1>1 DEF Own
  <2> QED BY <1>1, <2>1, <2>2, <2>3 DEF Call, IdsInv, loopVars, Ids
<1>3. ChanInv'
  <2>1. chan' \in [Ids -> Places] /\ \A i \in Ids : chan'[i] \in {Empty, Shut, Holds(i)}
    BY <1>1 DEF Call, ChanInv, Places
  <2>2. answer' \in [Callers -> 0..MaxCalls] /\ \A d \in Callers : answer'[d] \in {None, id'[d]}
    BY <1>1 DEF Call, ChanInv, IdsInv, None
  <2> QED BY <2>1, <2>2 DEF ChanInv
<1>4. UseInv'
  <2>1. nextID' \notin pending \cup dying /\ nextID' # handed.id
    BY <1>1, NoReplyIsNone DEF UseInv, IdsInv, Own, None
  <2>2. /\ pending' = pending \cup {nextID'} /\ chan' = [chan EXCEPT ![nextID'] = Empty]
        /\ UNCHANGED <<handed, dying, loop>>
    BY <1>1 DEF Call, loopVars
  <2>3. chan'[nextID'] = Empty /\ \A i \in Ids : i # nextID' => chan'[i] = chan[i]
    BY <1>1, <2>2 DEF ChanInv
  <2>4. handed # NoReply => handed.id \in Ids
    BY DEF IdsInv, Requests
  <2>5. pending \cup dying \subseteq Ids
    BY <1>1 DEF UseInv, Ids
  <2> QED BY <1>1, <2>1, <2>2, <2>3, <2>4, <2>5 DEF UseInv
<1> QED BY <1>2, <1>3, <1>4

LEMMA WriteKeeps == ASSUME Inv, NEW c \in Callers, Write(c) PROVE Inv'
<1> USE DEF Inv
<1>1. id[c] \in 1..nextID /\ id[c] \in Ids /\ serial[c] = id[c]
  BY ClientAssumption DEF Write, IdsInv, None, Ids
<1>2. Own([id |-> id[c], serial |-> serial[c]]) /\ [id |-> id[c], serial |-> serial[c]] \in Requests
  BY <1>1 DEF Own, Requests
<1>3. IdsInv'
  BY <1>2 DEF Write, IdsInv, Own, loopVars
<1>4. ChanInv' /\ UseInv'
  BY DEF Write, ChanInv, UseInv, loopVars
<1> QED BY <1>3, <1>4

LEMMA GiveUpKeeps == ASSUME Inv, NEW c \in Callers, WriteFails(c) \/ Cancel(c) PROVE Inv'
<1> USE DEF Inv
<1>1. IdsInv'
  BY DEF WriteFails, Cancel, IdsInv, Own, loopVars
<1>2. ChanInv' /\ UseInv'
  BY DEF WriteFails, Cancel, Unregistered, ChanInv, UseInv, loopVars
<1> QED BY <1>1, <1>2

LEMMA ReturnKeeps == ASSUME Inv, NEW c \in Callers, Return(c) PROVE Inv'
<1> USE DEF Inv
<1>1. id[c] \in Ids
  BY ClientAssumption DEF Return, IdsInv, None, Ids
<1>2. chan[id[c]].serial \in {None, id[c]}
  BY <1>1, PlacesDiffer DEF ChanInv, Shut, Empty
<1>3. IdsInv' /\ UseInv'
  BY DEF Return, IdsInv, UseInv, Own, loopVars
<1>4. None \in 0..MaxCalls /\ id[c] \in 0..MaxCalls
  BY <1>1, ClientAssumption DEF None, Ids
<1>5. ChanInv'
  BY <1>2, <1>4 DEF Return, ChanInv
<1> QED BY <1>3, <1>5

-----------------------------------------------------------------------------
LEMMA OutsideKeeps == ASSUME Inv, Answer \/ Lose \/ Close \/ UNCHANGED vars PROVE Inv'
<1> USE DEF Inv, vars, callVars, loopVars
<1>1. IdsInv'
  BY DEF Answer, Lose, Close, IdsInv, Own
<1>2. ChanInv' /\ UseInv'
  BY DEF Answer, Lose, Close, ChanInv, UseInv
<1> QED BY <1>1, <1>2

LEMMA DispatchKeeps == ASSUME Inv, Dispatch PROVE Inv'
<1> USE DEF Inv, callVars
<1>1. PICK r \in replies : /\ replies' = replies \ {r} /\ pending' = pending \ {r.id}
                           /\ handed' = IF r.id \in pending THEN r ELSE NoReply
  BY DEF Dispatch
<1>2. IdsInv'
  BY <1>1 DEF Dispatch, IdsInv, Own
<1>3. ChanInv'
  BY DEF Dispatch, ChanInv
<1>4. UseInv'
  <2>1. handed = NoReply /\ loop = "read" /\ dying = {} /\ UNCHANGED <<chan, dying, loop, nextID>>
    BY DEF Dispatch, UseInv
  <2>2. None \notin pending
    BY DEF UseInv, IdsInv, None
  <2> QED BY <1>1, <2>1, <2>2, NoReplyIsNone DEF UseInv
<1> QED BY <1>2, <1>3, <1>4

LEMMA HandKeeps == ASSUME Inv, Hand PROVE Inv'
<1> USE DEF Inv, callVars
<1>1. handed \in Requests /\ handed.id \in Ids /\ handed.serial = handed.id
  BY DEF Hand, IdsInv, Own, Requests
<1>2. IdsInv'
  BY DEF Hand, IdsInv, Own
<1>3. ChanInv'
  BY <1>1 DEF Hand, ChanInv, Places
<1>4. UseInv'
  <2>1. None \notin pending \cup dying
    BY DEF UseInv, IdsInv, None
  <2>2. \A i \in pending \cup dying : chan'[i] = chan[i]
    BY <1>1, ClientAssumption DEF Hand, UseInv, ChanInv, IdsInv, Ids
  <2> QED BY <2>1, <2>2, NoReplyIsNone DEF Hand, UseInv
<1> QED BY <1>2, <1>3, <1>4

LEMMA EndKeeps == ASSUME Inv, ReadFails \/ CloseChannels PROVE Inv'
<1> USE DEF Inv, callVars
<1>1. IdsInv'
  BY DEF ReadFails, CloseChannels, IdsInv, Own
<1>2. ChanInv'
  BY DEF ReadFails, CloseChannels, ChanInv, Places
<1>3. CASE ReadFails
  BY <1>1, <1>2, <1>3, NoReplyIsNone DEF ReadFails, UseInv
<1>4. CASE CloseChannels
  <2>1. \A i \in pending : chan'[i] = chan[i]
    BY <1>4, ClientAssumption DEF CloseChannels, UseInv, ChanInv, IdsInv, Ids
  <2>2. handed = NoReply
    BY <1>4 DEF CloseChannels, UseInv
  <2> QED BY <1>1, <1>2, <1>4, <2>1, <2>2 DEF CloseChannels, UseInv
<1> QED BY <1>3, <1>4

-----------------------------------------------------------------------------
(* A call returns its own reply or none, and the loop sends on or closes   *)
(* only an empty channel.                                                  *)
THEOREM EachCallItsOwnReply == Spec => []OwnReplyOnce
<1>1. Init => Inv
  <2> SUFFICES ASSUME Init PROVE Inv
    OBVIOUS
  <2>1. IdsInv
    BY ClientAssumption DEF Init, IdsInv, None
  <2>2. ChanInv /\ UseInv
    BY ClientAssumption DEF Init, ChanInv, UseInv, Places, None
  <2> QED BY <2>1, <2>2 DEF Inv
<1>2. Inv /\ [Next]_vars => Inv'
  BY CallKeeps, WriteKeeps, GiveUpKeeps, ReturnKeeps, OutsideKeeps, DispatchKeeps, HandKeeps, EndKeeps
     DEF Next, Loop, RoundTrip
<1>3. Inv => OwnReplyOnce
  BY DEF Inv, IdsInv, ChanInv, UseInv, OwnReplyOnce
<1> QED BY <1>1, <1>2, <1>3, PTL DEF Spec

-----------------------------------------------------------------------------
(* Attach: the daemon knows the callsign it has on the air.  A callsign is *)
(* on the air from bind until the attachment is lost; it is l.bound when   *)
(* the daemon is up; and what the node owns is the configured one.         *)
CallsignInv ==
  /\ air # NoSSID <=> phase \in {"listen", "listening", "up"}
  /\ air # NoSSID => air \notin taken
  /\ owned => air \in {NoSSID, ChatCallsign} /\ bound \in {NoSSID, ChatCallsign}
  /\ phase = "bind" => tries < Len(probeCandidates)
  /\ phase = "up" => bound = air

(* No connection outlives its attachment unmarked, and a link that was not *)
(* made early was made while the daemon was up, with what it has bound.    *)
ChildInv ==
  \A c \in Children :
    /\ child[c] # "none" /\ ~dead[c] => phase \in {"listening", "up"}
    /\ child[c] = "link" /\ ~dead[c] /\ c \notin early => phase = "up" /\ ident[c] = bound
    /\ child[c] = "link" /\ owned => ident[c] = ChatCallsign

AttachInv == AttachTypeOK /\ CallsignInv /\ ChildInv

(* What is tried is an SSID, and the configured one where the node owns it. *)
LEMMA CandidateFacts ==
  ASSUME AttachTypeOK, tries < Len(probeCandidates)
  PROVE  /\ Candidate \in SSIDs /\ (owned => Candidate = ChatCallsign)
         /\ Len(probeCandidates) \in 1..(MaxSSID + 1) /\ (owned => Len(probeCandidates) = 1)
<1> USE AttachAssumption DEF SSIDs
<1>1. CASE owned
  BY <1>1 DEF Candidate, probeCandidates, AttachTypeOK
<1>2. CASE ~owned
  <2>1. Len(probeCandidates) = MaxSSID + 1 /\ tries + 1 \in 1..(MaxSSID + 1)
    BY <1>2 DEF probeCandidates, AttachTypeOK
  <2>2. Candidate = IF tries = 0 THEN ChatCallsign
                    ELSE IF tries - 1 < ChatCallsign THEN tries - 1 ELSE tries
    BY <1>2, <2>1 DEF Candidate, probeCandidates, AttachTypeOK
  <2> QED BY <1>2, <2>1, <2>2 DEF AttachTypeOK
<1> QED BY <1>1, <1>2

(* Every step of the attachment keeps what is known of its callsign, ...   *)
LEMMA CallsignStep ==
  ASSUME AttachTypeOK, CallsignInv, [AttachNext]_attachVars
  PROVE  AttachTypeOK' /\ CallsignInv'
<1> USE AttachAssumption DEF SSIDs, NoSSID
<1>1. ASSUME UNCHANGED <<owned, phase, air, bound, tries, taken>>
      PROVE  CallsignInv'
  BY <1>1 DEF CallsignInv, probeCandidates
<1>2. CASE Connect
  BY <1>2 DEF Connect, AttachTypeOK, CallsignInv, childVars
<1>3. CASE Socket
  <2>1. 0 < Len(probeCandidates)
    BY DEF probeCandidates
  <2>2. probeCandidates' = probeCandidates
    BY <1>3 DEF Socket, probeCandidates
  <2> QED BY <1>3, <2>1, <2>2 DEF Socket, AttachTypeOK, CallsignInv, childVars
<1>4. CASE Bind
  BY <1>4, CandidateFacts DEF Bind, AttachTypeOK, CallsignInv, childVars
<1>5. CASE BindInUse
  <2>1. probeCandidates' = probeCandidates
    BY <1>5 DEF BindInUse, probeCandidates
  <2>2. tries \in Nat /\ tries < Len(probeCandidates) /\ Len(probeCandidates) \in 1..(MaxSSID + 1)
    BY <1>5, CandidateFacts DEF BindInUse, CallsignInv, AttachTypeOK
  <2>3. CASE LastOne
    BY <1>5, <2>1, <2>3 DEF BindInUse, AttachTypeOK, CallsignInv, childVars
  <2>4. CASE ~LastOne
    <3>1. tries' = tries + 1 /\ tries' < Len(probeCandidates) /\ tries' \in 0..MaxSSID
      BY <1>5, <2>2, <2>4 DEF BindInUse, LastOne
    <3> QED BY <1>5, <2>1, <2>4, <3>1 DEF BindInUse, AttachTypeOK, CallsignInv, childVars
  <2> QED BY <2>3, <2>4
<1>6. CASE Listen
  BY <1>6 DEF Listen, AttachTypeOK, CallsignInv, childVars
<1>7. CASE SetBound
  BY <1>7 DEF SetBound, AttachTypeOK, CallsignInv, childVars
<1>8. CASE Lost
  BY <1>8 DEF Lost, Cancels, AttachTypeOK, CallsignInv
<1>9. ASSUME NEW cs \in SSIDs, OthersBind(cs) \/ OthersRelease(cs)
      PROVE  AttachTypeOK' /\ CallsignInv'
  <2>1. /\ UNCHANGED <<owned, phase, tries, air, bound, child, dead, ident, early>>
        /\ taken' \subseteq SSIDs /\ (air \notin taken => air \notin taken')
    BY <1>9 DEF OthersBind, OthersRelease, bindVars, childVars, AttachTypeOK
  <2>2. AttachTypeOK'
    BY <2>1 DEF AttachTypeOK
  <2>3. probeCandidates' = probeCandidates
    BY <2>1 DEF probeCandidates
  <2> QED BY <2>1, <2>2, <2>3 DEF CallsignInv
<1>10. ASSUME NEW c \in Children, Accept(c) \/ Promote(c) \/ Login(c)
       PROVE  AttachTypeOK' /\ CallsignInv'
  BY <1>1, <1>10 DEF Accept, Promote, Login, boundCallsign, bindVars, AttachTypeOK
<1>11. ASSUME NEW c \in Children, End(c) \/ LinkStops(c) \/ SendFails(c)
       PROVE  AttachTypeOK' /\ CallsignInv'
  BY <1>1, <1>11 DEF End, LinkStops, SendFails, Gone, bindVars, AttachTypeOK
<1>12. CASE UNCHANGED attachVars
  BY <1>1, <1>12 DEF attachVars, bindVars, childVars, AttachTypeOK
<1> QED
  BY <1>2, <1>3, <1>4, <1>5, <1>6, <1>7, <1>8, <1>9, <1>10, <1>11, <1>12
  DEF AttachNext, Attaching

(* ... and of the links it has made.                                       *)
LEMMA ChildStep ==
  ASSUME AttachInv, [AttachNext]_attachVars
  PROVE  ChildInv'
<1> USE AttachAssumption DEF AttachInv
<1>1. CASE Connect \/ Socket \/ Bind \/ BindInUse \/ Listen
  BY <1>1 DEF Connect, Socket, Bind, BindInUse, Listen, ChildInv, childVars
<1>2. CASE SetBound
  BY <1>2 DEF SetBound, ChildInv, childVars
<1>3. CASE Lost
  BY <1>3 DEF Lost, Cancels, ChildInv, AttachTypeOK
<1>4. ASSUME NEW cs \in SSIDs, OthersBind(cs) \/ OthersRelease(cs) PROVE ChildInv'
  BY <1>4 DEF OthersBind, OthersRelease, bindVars, childVars, ChildInv
<1>5. ASSUME NEW c \in Children, Accept(c) \/ Login(c) PROVE ChildInv'
  BY <1>5 DEF Accept, Login, bindVars, ChildInv, AttachTypeOK
<1>6. ASSUME NEW c \in Children, Promote(c) PROVE ChildInv'
  BY <1>6 DEF Promote, bindVars, ChildInv, CallsignInv, AttachTypeOK, boundCallsign
<1>7. ASSUME NEW c \in Children, End(c) \/ LinkStops(c) \/ SendFails(c) PROVE ChildInv'
  BY <1>7 DEF End, LinkStops, SendFails, Gone, bindVars, ChildInv, AttachTypeOK
<1>8. CASE UNCHANGED attachVars
  BY <1>8 DEF attachVars, bindVars, childVars, ChildInv
<1> QED BY <1>1, <1>2, <1>3, <1>4, <1>5, <1>6, <1>7, <1>8 DEF AttachNext, Attaching

(* node.go:107-230: whatever SSIDs are tried, taken and released, whatever *)
(* attachments are lost, what is on the air is nobody else's, is what the  *)
(* daemon believes once it is up, and is what its live links were given.   *)
THEOREM AttachedKnowsItself == AttachSpec => []KnowsItself
<1>1. AttachInit => AttachInv
  BY AttachAssumption
  DEF AttachInit, AttachInv, AttachTypeOK, CallsignInv, ChildInv, SSIDs, NoSSID
<1>2. AttachInv /\ [AttachNext]_attachVars => AttachInv'
  BY CallsignStep, ChildStep DEF AttachInv
<1>3. AttachInv => KnowsItself
  BY AttachAssumption
  DEF AttachInv, AttachTypeOK, CallsignInv, ChildInv, KnowsItself, boundCallsign
<1> QED BY <1>1, <1>2, <1>3, PTL DEF AttachSpec
=============================================================================
