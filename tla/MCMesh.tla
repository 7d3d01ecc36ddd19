------------------------------- MODULE MCMesh -------------------------------
(* Two environments: one that grows, and one that may hold the other up.    *)
EXTENDS Mesh, TLC

CONSTANTS e1, e2, i1, i2

\* e1 starts with one instance or two and may grow; e2 has two.
Lists == (e1 :> {{i1}, {i1, i2}}) @@ (e2 :> {{i1, i2}})

\* No wallet of e2 ever comes up: a pass over it always fails.
OneStuck == (e1 :> {i1, i2}) @@ (e2 :> {})
=============================================================================
