--------------------------- MODULE MCInitialization ---------------------------
(***************************************************************************)
(* One run and up to two calls over two targets and two revisions.  The    *)
(* second revision rewrites t1, retires t2 and renames the agent.          *)
(***************************************************************************)
EXTENDS Initialization, TLC

CONSTANTS p1, p2, r1, t1, t2, missing, a0, a1, a2, b1, x, n0, n1, n2

MCRecipe ==
  [v \in {1, 2} |-> [t \in {t1, t2} |->
     IF t = t1 THEN (IF v = 1 THEN a1 ELSE a2) ELSE (IF v = 1 THEN b1 ELSE missing)]]
MCIdentity == [v \in {1, 2} |-> IF v = 1 THEN n1 ELSE n2]
MCInitFiles == [t \in {t1, t2} |-> IF t = t1 THEN a0 ELSE missing]
MCEdits == {<<t1, x>>}
CallSymmetry == Permutations({p1, p2})
=============================================================================
