--------------------------- MODULE MCContextEngine ---------------------------
(* Two model calls and two tools, which the first answer may call together. *)
EXTENDS ContextEngine, TLC

CONSTANTS m1, m2, t1, t2

MCSymmetry == Permutations({m1, m2})

MCBatches == {<<>>, <<t1, t2>>}
=============================================================================
