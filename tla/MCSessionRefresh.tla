-------------------------- MODULE MCSessionRefresh --------------------------
(***************************************************************************)
(* Small instances of SessionRefresh.                                      *)
(***************************************************************************)
EXTENDS SessionRefresh, TLC

CONSTANTS t1, t2, c1, c2, e1, e2

OneEach == (c1 :> t1) @@ (c2 :> t2)

\* A tab with its call is like the other with its own, and requests are alike.
TabsWithCalls == {(t1 :> t1) @@ (t2 :> t2) @@ (c1 :> c1) @@ (c2 :> c2),
                  (t1 :> t2) @@ (t2 :> t1) @@ (c1 :> c2) @@ (c2 :> c1)}

Alike == {p @@ q : p \in TabsWithCalls, q \in Permutations({e1, e2})}
=============================================================================
