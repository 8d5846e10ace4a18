----------------------------- MODULE MCCompletion -----------------------------
(* Two calls, each for either of two runs of one repository. *)
EXTENDS Completion

CONSTANTS d1, d2, r1, r2
=============================================================================
