---------------------------- MODULE MCMemoryCalls ----------------------------
(***************************************************************************)
(* Two concurrent calls, or one call and one reader beside it.             *)
(***************************************************************************)
EXTENDS MCMemoryTransaction

\* Chosen once: the reader runs beside the first call, or the second call does.
VARIABLE reading

MCInit == Init /\ reading \in BOOLEAN
MCNext ==
  /\ Next
  /\ reading' = reading
  /\ IF reading THEN pc'[p2] = "idle" ELSE rpc'[r1] = "idle"

\* The fairness of FairSpec for the calls that run.
Runs(p) == p = p1 \/ ~reading
MCFairSpec ==
  /\ MCInit /\ [][MCNext]_<<vars, reading>>
  /\ \A p \in Procs :
       WF_vars(Runs(p) /\ Progress(p) /\ Observe) /\ WF_vars(Runs(p) /\ Resume(p) /\ Observe)
=============================================================================
