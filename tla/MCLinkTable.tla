---------------------------- MODULE MCLinkTable ----------------------------
(* Two peers; the first has two connections, one after or beside the other. *)
EXTENDS LinkTable, TLC

CONSTANTS l1, l2, l3, l4, p1, p2, u, v

MCPeer == l1 :> p1 @@ l2 :> p1 @@ l3 :> p2 @@ l4 :> p2
MCHome == u :> p1 @@ v :> p2
=============================================================================
