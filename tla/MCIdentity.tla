---------------------------- MODULE MCIdentity ------------------------------
(* Two pdn users, a tab of each, a request of one and two sessions.        *)
EXTENDS Identity, TLC

CONSTANTS A, B, t1, t2, r, a1, b1

Owners  == t1 :> A @@ t2 :> B @@ r :> A
Posters == a1 :> A @@ b1 :> B
=============================================================================
