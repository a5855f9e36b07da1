------------------------------- MODULE MCMesh -------------------------------
(* Instances of Mesh: a cycle that does not pass through the home of the   *)
(* user, one that does, and a line of three.                               *)
EXTENDS Mesh, TLC

CONSTANTS a, b, c, d, u, v, x, y, i1, dx

Homes == u :> a @@ v :> c

Line     == {{a, b}, {b, c}}
Triangle == {{a, b}, {b, c}, {a, c}}
Lasso    == {{a, b}, {b, c}, {b, d}, {c, d}}

(* Nothing but joins and leaves of u, with no link but the given ones.     *)
Plain(edges, max) ==
  [edges |-> edges, breakable |-> {}, late |-> {}, probed |-> {}, users |-> {u},
   topics |-> {}, infos |-> {}, texts |-> {}, addressees |-> {}, max |-> max]

Cycle     == [Plain(Lasso, 2) EXCEPT !.texts = {x}, !.breakable = {{b, c}}]
Direct    == [Plain(Lasso, 2) EXCEPT !.texts = {x}, !.addressees = {u}]
Round     == [Plain(Triangle, 3) EXCEPT !.texts = {x}, !.topics = {dx}]
Presence  == [Plain(Line, 4) EXCEPT !.users = {u, v}, !.infos = {NoInfo, i1},
                                    !.late = {{a, b}}, !.probed = {a}]
Messages  == [Plain(Line, 4) EXCEPT !.texts = {x, y}, !.topics = {DefaultTopic, dx},
                                    !.late = {{a, b}}]
Privates  == [Plain(Line, 4) EXCEPT !.users = {u, v}, !.texts = {x}, !.addressees = {u, v},
                                    !.late = {{a, b}}]

Deployments == {Cycle, Direct, Round, Presence, Messages, Privates}
=============================================================================
