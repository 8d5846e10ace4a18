--------------------------- MODULE MCGitDurability ---------------------------
(***************************************************************************)
(* Two instances over one checkout, one batching its normal writes and one *)
(* (registered after the profile changed) pushing them at once; a critical *)
(* and a normal write, each of which either instance may carry.            *)
(***************************************************************************)
EXTENDS GitDurability

CONSTANTS i1, i2, w1, w2

MCKind == [w \in {w1, w2} |-> IF w = w1 THEN "critical" ELSE "normal"]
Budget(o, c, f) == [owner |-> o, calls |-> c, faults |-> f]
\* Three operations beside one fault; fewer with a commit made by hand or with two faults.
MCBudgets == {Budget(0, 3, 1), Budget(1, 2, 1), Budget(0, 2, 2)}
\* One instance that restarts, or whose owner commits by hand.
AloneBudgets == {Budget(1, 4, 1)}
MCPolicy == [i \in Insts |-> IF i = i1 THEN "bounded_batch" ELSE "sync_immediately"]
=============================================================================
