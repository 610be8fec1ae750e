--------------------------- MODULE MCRouteExecutor ---------------------------
(* TLC instances of RouteExecutor: two models of one provider, or of two.  *)
EXTENDS RouteExecutor, TLC

CONSTANTS m1, m2, p1, p2

OneProvider == m1 :> p1
SharedProvider == (m1 :> p1) @@ (m2 :> p1)
OwnProviders == (m1 :> p1) @@ (m2 :> p2)

OneModel == {<<m1>>}
EitherOrder == {<<>>, <<m1>>, <<m1, m2>>, <<m2, m1>>}
InOrder == {<<>>, <<m1, m2>>}

Symmetry == Permutations(Caller) \cup Permutations(RowId)
=============================================================================
