----------------------------- MODULE LinkTable -----------------------------
(***************************************************************************)
(* The life of the peer links of one node (peer/link.go serve), with what  *)
(* a link sets up and takes down: its entry in the router's link table     *)
(* (router.go Add, Remove), the peer in the hub's node graph (LinkNode,    *)
(* UnlinkNode) and the remote users learned over it.  All three are keyed  *)
(* by the peer's callsign, and nothing stops a second link to a peer while *)
(* one is there: a peer that both dials and is dialled, or that comes back *)
(* before the old connection has been found dead.                          *)
(*                                                                         *)
(* A link is served by its own goroutine: every call it makes is a step.   *)
(***************************************************************************)
EXTENDS FiniteSets

CONSTANTS
  Links,      \* links, one per connection
  Peers,      \* callsigns of peer nodes
  Peer,       \* [Links -> Peers]
  Users,      \* remote users
  Home,       \* [Users -> Peers], the node a user is homed at
  Null

ASSUME LinkAssumption ==
  /\ Peer \in [Links -> Peers] /\ Home \in [Users -> Peers]
  /\ Null \notin Links \cup Peers

VARIABLES
  life,   \* link -> "new", "added", "serving", "unlinked", "done"
  open,   \* links whose transport is open
  links,  \* the router's table: peer -> link, or Null
  nodes,  \* the peers in the hub's node graph
  via,    \* user -> the peer it was learned from, Null when not present
  twice   \* the peers that have had two links at a time (history)

vars == <<life, open, links, nodes, via, twice>>

TypeOK ==
  /\ life \in [Links -> {"new", "added", "serving", "unlinked", "done"}]
  /\ open \subseteq Links
  /\ links \in [Peers -> Links \cup {Null}]
  /\ nodes \subseteq Peers
  /\ via \in [Users -> Peers \cup {Null}]
  /\ twice \subseteq Peers

Init ==
  /\ life = [l \in Links |-> "new"]
  /\ open = {}
  /\ links = [p \in Peers |-> Null]
  /\ nodes = {}
  /\ via = [u \in Users |-> Null]
  /\ twice = {}

Alive(p) == {l \in Links : Peer[l] = p /\ life[l] \notin {"new", "done"}}

-----------------------------------------------------------------------------
(* The handshake is done: register with the router ...                     *)
Add(l) ==
  /\ life[l] = "new"
  /\ life' = [life EXCEPT ![l] = "added"]
  /\ open' = open \cup {l}
  /\ links' = [links EXCEPT ![Peer[l]] = l]
  /\ twice' = IF Alive(Peer[l]) = {} THEN twice ELSE twice \cup {Peer[l]}
  /\ UNCHANGED <<nodes, via>>

(* ... and with the hub.                                                   *)
LinkNode(l) ==
  /\ life[l] = "added"
  /\ life' = [life EXCEPT ![l] = "serving"]
  /\ nodes' = nodes \cup {Peer[l]}
  /\ UNCHANGED <<open, links, via, twice>>

(* The provenance of a user: the id of the link, which is the peer's call. *)
Ingress(l)     == Peer[l]

(* A record read on l: of a user not present here (ensureUser), or its L.  *)
Learn(l, u) ==
  /\ life[l] = "serving" /\ via[u] = Null
  /\ via' = [via EXCEPT ![u] = Ingress(l)]
  /\ UNCHANGED <<life, open, links, nodes, twice>>

Forget(l, u) ==
  /\ life[l] = "serving" /\ via[u] # Null
  /\ via' = [via EXCEPT ![u] = Null]
  /\ UNCHANGED <<life, open, links, nodes, twice>>

(* The peer closes, the transport fails, the link is found dead, or the    *)
(* context it is served in is cancelled.                                   *)
Close(l) ==
  /\ l \in open
  /\ open' = open \ {l}
  /\ UNCHANGED <<life, links, nodes, via, twice>>

(* The deferred calls of serve, in their order.  UnlinkNode of a node that *)
(* is not in the graph does nothing.                                       *)
LearnedViaHomed(p) == {u \in Users : via[u] # Null /\ Home[u] = p}
LearnedVia(p)      == {u \in Users : via[u] # Null /\ (via[u] = p \/ Home[u] = p)}

UnlinkNode(l) ==
  LET p == Peer[l]
  IN  /\ life[l] = "serving" /\ l \notin open
      /\ life' = [life EXCEPT ![l] = "unlinked"]
      /\ IF p \in nodes
           THEN /\ nodes' = nodes \ {p}
                /\ via' = [u \in Users |-> IF u \in LearnedVia(p) THEN Null ELSE via[u]]
           ELSE UNCHANGED <<nodes, via>>
      /\ UNCHANGED <<open, links, twice>>

RemovedAll(l)     == [p \in Peers |-> Null]
Removed(l)        == [links EXCEPT ![Peer[l]] = Null]

Remove(l) ==
  /\ life[l] = "unlinked"
  /\ life' = [life EXCEPT ![l] = "done"]
  /\ links' = Removed(l)
  /\ UNCHANGED <<open, nodes, via, twice>>

Next ==
  \E l \in Links :
    \/ Add(l) \/ LinkNode(l) \/ Close(l) \/ UnlinkNode(l) \/ Remove(l)
    \/ \E u \in Users : Learn(l, u) \/ Forget(l, u)

Spec == Init /\ [][Next]_vars

-----------------------------------------------------------------------------
(* The router "forwards events ... out to every peer link" (router.go:16): *)
(* a peer with an open link being served has an entry in the table, unless *)
(* it has had two links at a time: the end of one removes the other's.     *)
RelayReaches ==
  \A l \in open : life[l] = "serving" /\ Peer[l] \notin twice => links[Peer[l]] # Null

(* The table holds no link that is over: a local event is never written to *)
(* a link left behind, however the links of a peer overlapped.             *)
NoStaleLink == \A p \in Peers : links[p] # Null => life[links[p]] # "done"

(* UnlinkNode "drops every user learned via it" (hub.go:339): nobody       *)
(* learned from a peer is kept once that peer has no link left, unless the *)
(* peer has had two at a time: the second to end finds no node to unlink.  *)
NoGhost ==
  \A u \in Users : via[u] # Null /\ via[u] \notin twice => Alive(via[u]) # {}
=============================================================================
