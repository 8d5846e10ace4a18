--------------------------- MODULE CompletionProofs ---------------------------
(***************************************************************************)
(* Completion for every set of dispatches and runs and any number of       *)
(* reloads and crashes: one inductive invariant, from which the types, the *)
(* exclusion of turns and maintenance, at-most-once persistence and        *)
(* delivery and the truth of the terminal texts follow.                    *)
(***************************************************************************)
EXTENDS Completion, FiniteSetTheorems, TLAPS

Over == {"idle", "failed", "done", "ended"}

\* Where the callback and the work of a call stand with each other.
Stage ==
  \A d \in Dispatches :
    /\ turn[d].handler \in {"absent", "resetting", "native", "blocked", "opening", "duplicate"} =>
         /\ turn[d].work = "idle" /\ turn[d].race = None /\ turn[d].told = "nothing"
         /\ ~turn[d].queued
    /\ turn[d].handler = "replying" => turn[d].work = "idle" /\ ~turn[d].queued
    /\ turn[d].handler = "absent" => d \notin sent
    /\ turn[d].work # "idle" => turn[d].run \in Runs
    /\ turn[d].handler # "absent" => turn[d].run \in Runs
    /\ turn[d].told # "nothing" => turn[d].race # None

\* The repository is held by the one turn at work, or by maintenance.
Held ==
  /\ \A d, e \in Dispatches : Working(d) /\ Working(e) => d = e
  /\ \A d \in Dispatches : Working(d) => active /\ ~reserved
  /\ reserved => active

\* What is still to come for a run, given how far the work of its call is.
Fresh(r) == \A e \in sent : turn[e].run # r

Once ==
  /\ \A r \in Runs : persisted[r] <= 1
  /\ \A r \in Runs : r \notin admitted => persisted[r] = 0 /\ Fresh(r)
  /\ \A d \in Dispatches :
       /\ turn[d].work \in {"prepare", "bind", "generate", "persist"} =>
            turn[d].run \in admitted /\ persisted[turn[d].run] = 0 /\ Fresh(turn[d].run)
       /\ turn[d].work \in {"persisting", "publish", "final"} =>
            turn[d].run \in admitted /\ Fresh(turn[d].run)
  /\ \A d, e \in sent : turn[d].run = turn[e].run => d = e

\* The race is over only for a call that can no longer send, or that knows what it sent.
Truth ==
  \A d \in Dispatches :
    /\ turn[d].race # None => turn[d].aborted \/ turn[d].work \in Over
    /\ turn[d].work = "sending" => d \in sent
    /\ d \in sent => turn[d].queued
    /\ turn[d].race = "confirmed" => d \in sent
    /\ turn[d].told = "confirmed" => d \in sent
    /\ turn[d].told = "unpublished" => d \notin sent

IInv == TypeOK /\ Stage /\ Held /\ Once /\ Truth

-----------------------------------------------------------------------------
(* Types.  The record of a call apart from the rest: what it depends on is only itself. *)

LEMMA TurnStep ==
  ASSUME turn \in [Dispatches -> Turns], [Next]_vars
  PROVE  turn' \in [Dispatches -> Turns]
<1>w. /\ "admit" \in Works /\ "failed" \in Works /\ "sending" \in Works /\ "done" \in Works /\ "ended" \in Works
      /\ "failed" \in Outcomes /\ "cancelled" \in Outcomes /\ "unconfirmed" \in Outcomes
      /\ "confirmed" \in Outcomes /\ "delivery_unknown" \in Outcomes /\ "preparation_timeout" \in Outcomes
  BY DEF Works, Outcomes
<1>1. ASSUME NEW d \in Dispatches, NEW r \in Runs, Dispatch(d, r) PROVE turn' \in [Dispatches -> Turns]
  BY <1>1 DEF Dispatch, Turns, Outcomes, Works
<1>2. ASSUME NEW d \in Dispatches, Refuse(d) PROVE turn' \in [Dispatches -> Turns]
  <2> DEFINE T(t) == turn' = [turn EXCEPT ![d] = t]
             Claimed == [turn[d] EXCEPT !.handler = "waiting", !.race = "failed"]
             Replied == [turn[d] EXCEPT !.handler = "replying", !.race = "failed", !.told = "unpublished"]
  <2>1. T(Claimed) \/ T(Replied)
    BY <1>2 DEF Refuse
  <2>2. Claimed \in Turns /\ Replied \in Turns
    BY <1>w DEF Turns
  <2>3. CASE T(Claimed)
    BY <2>3, <2>2
  <2>4. CASE T(Replied)
    BY <2>4, <2>2
  <2> QED
    BY <2>1, <2>3, <2>4
<1>25. ASSUME NEW d \in Dispatches, NEW r \in Runs, DispatchReset(d, r) PROVE turn' \in [Dispatches -> Turns]
  BY <1>25 DEF DispatchReset, Turns, Outcomes, Works
<1>26. ASSUME NEW d \in Dispatches, ResetGate(d) PROVE turn' \in [Dispatches -> Turns]
  BY <1>26 DEF ResetGate, Turns, Outcomes, Works
<1>27. ASSUME NEW d \in Dispatches, DispatcherIdle(d) PROVE turn' \in [Dispatches -> Turns]
  BY <1>27 DEF DispatcherIdle, Turns, Outcomes, Works
<1>3. ASSUME NEW d \in Dispatches, Enter(d) PROVE turn' \in [Dispatches -> Turns]
  <2> DEFINE T(t) == turn' = [turn EXCEPT ![d] = t]
  <2>1. \/ T([turn[d] EXCEPT !.handler = "waiting", !.race = "failed"])
        \/ T([turn[d] EXCEPT !.handler = "waiting", !.work = "admit"])
        \/ T([turn[d] EXCEPT !.handler = "waiting", !.work = "failed", !.aborted = TRUE, !.race = "cancelled"])
    BY <1>3 DEF Enter
  <2>2. [turn[d] EXCEPT !.handler = "waiting", !.race = "failed"] \in Turns
    BY <1>w DEF Turns
  <2>3. [turn[d] EXCEPT !.handler = "waiting", !.work = "admit"] \in Turns
    BY <1>w DEF Turns
  <2>4. [turn[d] EXCEPT !.handler = "waiting", !.work = "failed", !.aborted = TRUE, !.race = "cancelled"] \in Turns
    BY <1>w DEF Turns
  <2>5. CASE T([turn[d] EXCEPT !.handler = "waiting", !.race = "failed"])
    BY <2>5, <2>2
  <2>6. CASE T([turn[d] EXCEPT !.handler = "waiting", !.work = "admit"])
    BY <2>6, <2>3
  <2>7. CASE T([turn[d] EXCEPT !.handler = "waiting", !.work = "failed", !.aborted = TRUE, !.race = "cancelled"])
    BY <2>7, <2>4
  <2> HIDE DEF T
  <2> QED
    BY <2>1, <2>5, <2>6, <2>7
<1>4. ASSUME NEW d \in Dispatches, Cancel(d) PROVE turn' \in [Dispatches -> Turns]
  <2> DEFINE T(t) == turn' = [turn EXCEPT ![d] = t]
  <2>1. \/ T([turn[d] EXCEPT !.aborted = TRUE, !.race = "cancelled"])
        \/ T([turn[d] EXCEPT !.aborted = TRUE, !.race = "delivery_unknown"])
    BY <1>4 DEF Cancel
  <2>2. [turn[d] EXCEPT !.aborted = TRUE, !.race = "cancelled"] \in Turns
    BY <1>w DEF Turns
  <2>3. [turn[d] EXCEPT !.aborted = TRUE, !.race = "delivery_unknown"] \in Turns
    BY <1>w DEF Turns
  <2>4. CASE T([turn[d] EXCEPT !.aborted = TRUE, !.race = "cancelled"])
    BY <2>4, <2>2
  <2>5. CASE T([turn[d] EXCEPT !.aborted = TRUE, !.race = "delivery_unknown"])
    BY <2>5, <2>3
  <2> HIDE DEF T
  <2> QED
    BY <2>1, <2>4, <2>5
<1>5. ASSUME NEW d \in Dispatches, Answer(d) PROVE turn' \in [Dispatches -> Turns]
  BY <1>5 DEF Answer, Told, Turns, Outcomes, Works
<1>6. ASSUME NEW d \in Dispatches, Close(d) PROVE turn' \in [Dispatches -> Turns]
  BY <1>6 DEF Close, TimedOut, Turns, Outcomes, Works
<1>7. ASSUME NEW d \in Dispatches, Admit(d) PROVE turn' \in [Dispatches -> Turns]
  BY <1>7 DEF Admit, At, Goto, GotoUnlessAborted, Turns, Outcomes, Works
<1>8. ASSUME NEW d \in Dispatches, CorrectionEnds(d) PROVE turn' \in [Dispatches -> Turns]
  BY <1>8 DEF CorrectionEnds, Turns, Outcomes, Works
<1>9. ASSUME NEW d \in Dispatches, Prepare(d) PROVE turn' \in [Dispatches -> Turns]
  BY <1>9 DEF Prepare, At, Goto, GotoUnlessAborted, Turns, Outcomes, Works
<1>10. ASSUME NEW d \in Dispatches, AbandonPreparation(d) PROVE turn' \in [Dispatches -> Turns]
  <2> DEFINE T(t) == turn' = [turn EXCEPT ![d] = t]
  <2>1. T([turn[d] EXCEPT !.work = "failed", !.race = IF turn[d].race = None THEN "preparation_timeout" ELSE turn[d].race])
    BY <1>10 DEF AbandonPreparation
  <2>2. [turn[d] EXCEPT !.work = "failed", !.race = IF turn[d].race = None THEN "preparation_timeout" ELSE turn[d].race] \in Turns
    BY <1>w DEF Turns
  <2> QED
    BY <2>1, <2>2
<1>11. ASSUME NEW d \in Dispatches, BindRun(d) PROVE turn' \in [Dispatches -> Turns]
  BY <1>11 DEF BindRun, At, Goto, Turns, Outcomes, Works
<1>12. ASSUME NEW d \in Dispatches, Generate(d) PROVE turn' \in [Dispatches -> Turns]
  BY <1>12 DEF Generate, At, Goto, GotoUnlessAborted, Turns, Outcomes, Works
<1>13. ASSUME NEW d \in Dispatches, Persist(d) PROVE turn' \in [Dispatches -> Turns]
  BY <1>13 DEF Persist, At, Goto, Turns, Outcomes, Works
<1>14. ASSUME NEW d \in Dispatches, Persisted(d) PROVE turn' \in [Dispatches -> Turns]
  BY <1>14 DEF Persisted, At, Goto, Turns, Outcomes, Works
<1>15. ASSUME NEW d \in Dispatches, FinalValidation(d) PROVE turn' \in [Dispatches -> Turns]
  BY <1>15 DEF FinalValidation, At, Goto, Turns, Outcomes, Works
<1>16. ASSUME NEW d \in Dispatches, Send(d) PROVE turn' \in [Dispatches -> Turns]
  BY <1>16 DEF Send, At, Goto, Turns, Outcomes, Works
<1>17. ASSUME NEW d \in Dispatches, Settle(d) PROVE turn' \in [Dispatches -> Turns]
  <2> DEFINE T(t) == turn' = [turn EXCEPT ![d] = t]
  <2>1. \/ T([turn[d] EXCEPT !.work = "done", !.race = IF turn[d].race = None THEN "confirmed" ELSE turn[d].race])
        \/ T([turn[d] EXCEPT !.work = "done", !.race = IF turn[d].race = None THEN "unconfirmed" ELSE turn[d].race])
    BY <1>17 DEF Settle
  <2>2. [turn[d] EXCEPT !.work = "done", !.race = IF turn[d].race = None THEN "confirmed" ELSE turn[d].race] \in Turns
    BY <1>w DEF Turns
  <2>3. [turn[d] EXCEPT !.work = "done", !.race = IF turn[d].race = None THEN "unconfirmed" ELSE turn[d].race] \in Turns
    BY <1>w DEF Turns
  <2>4. CASE T([turn[d] EXCEPT !.work = "done", !.race = IF turn[d].race = None THEN "confirmed" ELSE turn[d].race])
    BY <2>4, <2>2
  <2>5. CASE T([turn[d] EXCEPT !.work = "done", !.race = IF turn[d].race = None THEN "unconfirmed" ELSE turn[d].race])
    BY <2>5, <2>3
  <2> HIDE DEF T
  <2> QED
    BY <2>1, <2>4, <2>5
<1>18. ASSUME NEW d \in Dispatches, Drain(d) PROVE turn' \in [Dispatches -> Turns]
  <2> DEFINE T(t) == turn' = [turn EXCEPT ![d] = t]
  <2>1. T([turn[d] EXCEPT !.work = "ended", !.race = IF turn[d].race = None THEN "failed" ELSE turn[d].race])
    BY <1>18 DEF Drain
  <2>2. [turn[d] EXCEPT !.work = "ended", !.race = IF turn[d].race = None THEN "failed" ELSE turn[d].race] \in Turns
    BY <1>w DEF Turns
  <2> QED
    BY <2>1, <2>2
<1>19. CASE Revoke
  BY <1>19 DEF Revoke, Turns, Outcomes, Works
<1>20. CASE Reserve
  BY <1>20 DEF Reserve, Turns, Outcomes, Works
<1>21. CASE Unreserve
  BY <1>21 DEF Unreserve, Turns, Outcomes, Works
<1>22. CASE Reload
  BY <1>22 DEF Reload, Turns, Outcomes, Works
<1>23. CASE Crash
  <2>1. ASSUME NEW d \in Dispatches PROVE turn'[d] \in Turns
    <3>1. CASE turn[d].handler = "absent"
      BY <1>23, <3>1 DEF Crash
    <3>2. CASE turn[d].handler # "absent"
      <4>1. turn'[d] = [turn[d] EXCEPT !.handler = "lost", !.work = "ended"]
        BY <1>23, <3>2 DEF Crash
      <4> QED
        BY <4>1, <1>w DEF Turns
    <3> QED
      BY <3>1, <3>2
  <2> QED
    BY <1>23, <2>1 DEF Crash
<1>24. CASE UNCHANGED vars
  BY <1>24 DEF vars, Turns, Outcomes, Works
<1> QED
  BY <1>1, <1>2, <1>3, <1>4, <1>5, <1>6, <1>7, <1>8, <1>9, <1>10, <1>11, <1>12, <1>13,
     <1>14, <1>15, <1>16, <1>17, <1>18, <1>19, <1>20, <1>21, <1>22, <1>23, <1>24,
     <1>25, <1>26, <1>27 DEF Next, Handler, Work

\* The types are preserved.
LEMMA TypeStep == TypeOK /\ Stage /\ [Next]_vars => TypeOK'
<1> SUFFICES ASSUME TypeOK, Stage, [Next]_vars PROVE TypeOK'
  OBVIOUS
<1> DEFINE Rest == /\ claimed \subseteq Runs /\ active \in BOOLEAN /\ admitted \subseteq Runs
                   /\ bound \subseteq Runs /\ revoking \in BOOLEAN
                   /\ correcting \subseteq Dispatches /\ reserved \in BOOLEAN
                   /\ persisted \in [Runs -> Nat] /\ sent \subseteq Dispatches
                   /\ faults \in 0..MaxFaults
<1>r. Rest /\ \A d \in Dispatches : turn[d].work # "idle" => turn[d].run \in Runs
  BY DEF TypeOK, Stage
<1>t. turn' \in [Dispatches -> Turns]
  BY TurnStep DEF TypeOK
<1> SUFFICES Rest'
  BY <1>t DEF TypeOK
<1>1. ASSUME NEW d \in Dispatches, NEW r \in Runs, Dispatch(d, r) PROVE Rest'
  BY <1>1, <1>r, CompletionAssumption DEF Dispatch
<1>2. ASSUME NEW d \in Dispatches, Refuse(d) PROVE Rest'
  BY <1>2, <1>r, CompletionAssumption DEF Refuse
<1>25. ASSUME NEW d \in Dispatches, NEW r \in Runs, DispatchReset(d, r) PROVE Rest'
  BY <1>25, <1>r, CompletionAssumption DEF DispatchReset
<1>26. ASSUME NEW d \in Dispatches, ResetGate(d) PROVE Rest'
  BY <1>26, <1>r, CompletionAssumption DEF ResetGate, Stage
<1>27. ASSUME NEW d \in Dispatches, DispatcherIdle(d) PROVE Rest'
  BY <1>27, <1>r, CompletionAssumption DEF DispatcherIdle
<1>3. ASSUME NEW d \in Dispatches, Enter(d) PROVE Rest'
  BY <1>3, <1>r, CompletionAssumption DEF Enter
<1>4. ASSUME NEW d \in Dispatches, Cancel(d) PROVE Rest'
  BY <1>4, <1>r, CompletionAssumption DEF Cancel
<1>5. ASSUME NEW d \in Dispatches, Answer(d) PROVE Rest'
  BY <1>5, <1>r, CompletionAssumption DEF Answer, Told
<1>6. ASSUME NEW d \in Dispatches, Close(d) PROVE Rest'
  BY <1>6, <1>r, CompletionAssumption DEF Close, TimedOut
<1>7. ASSUME NEW d \in Dispatches, Admit(d) PROVE Rest'
  BY <1>7, <1>r, CompletionAssumption DEF Admit, At, Goto, GotoUnlessAborted
<1>8. ASSUME NEW d \in Dispatches, CorrectionEnds(d) PROVE Rest'
  BY <1>8, <1>r, CompletionAssumption DEF CorrectionEnds
<1>9. ASSUME NEW d \in Dispatches, Prepare(d) PROVE Rest'
  BY <1>9, <1>r, CompletionAssumption DEF Prepare, At, Goto, GotoUnlessAborted
<1>10. ASSUME NEW d \in Dispatches, AbandonPreparation(d) PROVE Rest'
  BY <1>10, <1>r, CompletionAssumption DEF AbandonPreparation, At
<1>11. ASSUME NEW d \in Dispatches, BindRun(d) PROVE Rest'
  BY <1>11, <1>r, CompletionAssumption DEF BindRun, At, Goto
<1>12. ASSUME NEW d \in Dispatches, Generate(d) PROVE Rest'
  BY <1>12, <1>r, CompletionAssumption DEF Generate, At, Goto, GotoUnlessAborted
<1>13. ASSUME NEW d \in Dispatches, Persist(d) PROVE Rest'
  BY <1>13, <1>r, CompletionAssumption DEF Persist, At, Goto
<1>14. ASSUME NEW d \in Dispatches, Persisted(d) PROVE Rest'
  BY <1>14, <1>r, CompletionAssumption DEF Persisted, At, Goto
<1>15. ASSUME NEW d \in Dispatches, FinalValidation(d) PROVE Rest'
  BY <1>15, <1>r, CompletionAssumption DEF FinalValidation, At, Goto
<1>16. ASSUME NEW d \in Dispatches, Send(d) PROVE Rest'
  BY <1>16, <1>r, CompletionAssumption DEF Send, At, Goto
<1>17. ASSUME NEW d \in Dispatches, Settle(d) PROVE Rest'
  BY <1>17, <1>r, CompletionAssumption DEF Settle, At
<1>18. ASSUME NEW d \in Dispatches, Drain(d) PROVE Rest'
  BY <1>18, <1>r, CompletionAssumption DEF Drain
<1>19. CASE Revoke
  BY <1>19, <1>r, CompletionAssumption DEF Revoke
<1>20. CASE Reserve
  BY <1>20, <1>r, CompletionAssumption DEF Reserve
<1>21. CASE Unreserve
  BY <1>21, <1>r, CompletionAssumption DEF Unreserve
<1>22. CASE Reload
  BY <1>22, <1>r, CompletionAssumption DEF Reload
<1>23. CASE Crash
  <2>1. /\ claimed' = {} /\ active' = FALSE /\ revoking' = FALSE /\ correcting' = {} /\ reserved' = FALSE
        /\ UNCHANGED <<admitted, bound, persisted, sent>> /\ faults < MaxFaults /\ faults' = faults + 1
    BY <1>23 DEF Crash
  <2>2. /\ claimed' \subseteq Runs /\ active' \in BOOLEAN /\ revoking' \in BOOLEAN
        /\ correcting' \subseteq Dispatches /\ reserved' \in BOOLEAN
    BY <2>1
  <2>3. /\ admitted' \subseteq Runs /\ bound' \subseteq Runs
        /\ persisted' \in [Runs -> Nat] /\ sent' \subseteq Dispatches
    BY <2>1, <1>r
  <2>4. faults' \in 0..MaxFaults
    BY <2>1, <1>r, CompletionAssumption
  <2> QED
    BY <2>2, <2>3, <2>4
<1>24. CASE UNCHANGED vars
  BY <1>24, <1>r, CompletionAssumption DEF vars
<1> QED
  BY <1>1, <1>2, <1>3, <1>4, <1>5, <1>6, <1>7, <1>8, <1>9, <1>10, <1>11, <1>12, <1>13,
     <1>14, <1>15, <1>16, <1>17, <1>18, <1>19, <1>20, <1>21, <1>22, <1>23, <1>24,
     <1>25, <1>26, <1>27 DEF Next, Handler, Work

\* A crash ends every call that had begun and leaves the rest of it as it was.
LEMMA CrashEnds ==
  ASSUME turn \in [Dispatches -> Turns], Stage, Crash, NEW d \in Dispatches
  PROVE  /\ turn'[d].work \in {"idle", "ended"}
         /\ turn'[d].run = turn[d].run /\ turn'[d].race = turn[d].race /\ turn'[d].aborted = turn[d].aborted
         /\ turn'[d].queued = turn[d].queued /\ turn'[d].told = turn[d].told
<1>1. CASE turn[d].handler = "absent"
  BY <1>1 DEF Crash, Stage
<1>2. CASE turn[d].handler # "absent"
  <2>1. turn'[d] = [turn[d] EXCEPT !.handler = "lost", !.work = "ended"]
    BY <1>2 DEF Crash
  <2> QED
    BY <2>1 DEF Turns
<1> QED
  BY <1>1, <1>2

\* Callback and work keep step with each other.
LEMMA StageStep ==
  ASSUME turn \in [Dispatches -> Turns], Stage, [Next]_vars
  PROVE  Stage'
<1>1. ASSUME NEW d \in Dispatches, NEW r \in Runs, Dispatch(d, r) PROVE Stage'
  BY <1>1 DEF Dispatch, Stage, Turns
<1>2. ASSUME NEW d \in Dispatches, Refuse(d) PROVE Stage'
  BY <1>2 DEF Refuse, Stage, Turns
<1>25. ASSUME NEW d \in Dispatches, NEW r \in Runs, DispatchReset(d, r) PROVE Stage'
  BY <1>25 DEF DispatchReset, Stage, Turns
<1>26. ASSUME NEW d \in Dispatches, ResetGate(d) PROVE Stage'
  BY <1>26 DEF ResetGate, Stage, Turns
<1>27. ASSUME NEW d \in Dispatches, DispatcherIdle(d) PROVE Stage'
  BY <1>27 DEF DispatcherIdle, Stage, Turns
<1>3. ASSUME NEW d \in Dispatches, Enter(d) PROVE Stage'
  BY <1>3 DEF Enter, Stage, Turns
<1>4. ASSUME NEW d \in Dispatches, Cancel(d) PROVE Stage'
  BY <1>4 DEF Cancel, Stage, Turns
<1>5. ASSUME NEW d \in Dispatches, Answer(d) PROVE Stage'
  BY <1>5 DEF Answer, Told, Stage, Turns
<1>6. ASSUME NEW d \in Dispatches, Close(d) PROVE Stage'
  BY <1>6 DEF Close, TimedOut, Stage, Turns
<1>7. ASSUME NEW d \in Dispatches, Admit(d) PROVE Stage'
  BY <1>7 DEF Admit, At, Goto, GotoUnlessAborted, Stage, Turns
<1>8. ASSUME NEW d \in Dispatches, CorrectionEnds(d) PROVE Stage'
  BY <1>8 DEF CorrectionEnds, Stage, Turns
<1>9. ASSUME NEW d \in Dispatches, Prepare(d) PROVE Stage'
  BY <1>9, SMTT(60) DEF Prepare, At, Goto, GotoUnlessAborted, Stage, Turns
<1>10. ASSUME NEW d \in Dispatches, AbandonPreparation(d) PROVE Stage'
  BY <1>10 DEF AbandonPreparation, At, Stage, Turns
<1>11. ASSUME NEW d \in Dispatches, BindRun(d) PROVE Stage'
  BY <1>11 DEF BindRun, At, Goto, Stage, Turns
<1>12. ASSUME NEW d \in Dispatches, Generate(d) PROVE Stage'
  BY <1>12 DEF Generate, At, Goto, GotoUnlessAborted, Stage, Turns
<1>13. ASSUME NEW d \in Dispatches, Persist(d) PROVE Stage'
  BY <1>13 DEF Persist, At, Goto, Stage, Turns
<1>14. ASSUME NEW d \in Dispatches, Persisted(d) PROVE Stage'
  BY <1>14 DEF Persisted, At, Goto, Stage, Turns
<1>15. ASSUME NEW d \in Dispatches, FinalValidation(d) PROVE Stage'
  BY <1>15 DEF FinalValidation, At, Goto, Stage, Turns
<1>16. ASSUME NEW d \in Dispatches, Send(d) PROVE Stage'
  BY <1>16 DEF Send, At, Goto, Stage, Turns
<1>17. ASSUME NEW d \in Dispatches, Settle(d) PROVE Stage'
  BY <1>17 DEF Settle, At, Stage, Turns
<1>18. ASSUME NEW d \in Dispatches, Drain(d) PROVE Stage'
  BY <1>18 DEF Drain, Stage, Turns
<1>19. CASE Revoke
  BY <1>19 DEF Revoke, Stage, Turns
<1>20. CASE Reserve
  BY <1>20 DEF Reserve, Stage, Turns
<1>21. CASE Unreserve
  BY <1>21 DEF Unreserve, Stage, Turns
<1>22. CASE Reload
  BY <1>22 DEF Reload, Stage, Turns
<1>23. CASE Crash
  BY <1>23 DEF Crash, Stage, Turns
<1>24. CASE UNCHANGED vars
  BY <1>24 DEF vars, Stage, Turns
<1> QED
  BY <1>1, <1>2, <1>3, <1>4, <1>5, <1>6, <1>7, <1>8, <1>9, <1>10, <1>11, <1>12, <1>13,
     <1>14, <1>15, <1>16, <1>17, <1>18, <1>19, <1>20, <1>21, <1>22, <1>23, <1>24,
     <1>25, <1>26, <1>27 DEF Next, Handler, Work

\* Nobody enters while the repository is held, and only its holder releases it.
LEMMA HeldStep ==
  ASSUME turn \in [Dispatches -> Turns], Stage, Held, [Next]_vars
  PROVE  Held'
<1>1. ASSUME NEW d \in Dispatches, NEW r \in Runs, Dispatch(d, r) PROVE Held'
  BY <1>1 DEF Dispatch, Stage, Held, Working, Turns
<1>2. ASSUME NEW d \in Dispatches, Refuse(d) PROVE Held'
  BY <1>2 DEF Refuse, Stage, Held, Working, Turns
<1>25. ASSUME NEW d \in Dispatches, NEW r \in Runs, DispatchReset(d, r) PROVE Held'
  BY <1>25 DEF DispatchReset, Stage, Held, Working, Turns
<1>26. ASSUME NEW d \in Dispatches, ResetGate(d) PROVE Held'
  BY <1>26 DEF ResetGate, Stage, Held, Working, Turns
<1>27. ASSUME NEW d \in Dispatches, DispatcherIdle(d) PROVE Held'
  BY <1>27 DEF DispatcherIdle, Stage, Held, Working, Turns
<1>3. ASSUME NEW d \in Dispatches, Enter(d) PROVE Held'
  BY <1>3 DEF Enter, Stage, Held, Working, Turns
<1>4. ASSUME NEW d \in Dispatches, Cancel(d) PROVE Held'
  BY <1>4 DEF Cancel, Stage, Held, Working, Turns
<1>5. ASSUME NEW d \in Dispatches, Answer(d) PROVE Held'
  BY <1>5 DEF Answer, Told, Stage, Held, Working, Turns
<1>6. ASSUME NEW d \in Dispatches, Close(d) PROVE Held'
  BY <1>6 DEF Close, TimedOut, Stage, Held, Working, Turns
<1>7. ASSUME NEW d \in Dispatches, Admit(d) PROVE Held'
  BY <1>7 DEF Admit, At, Goto, GotoUnlessAborted, Stage, Held, Working, Turns
<1>8. ASSUME NEW d \in Dispatches, CorrectionEnds(d) PROVE Held'
  BY <1>8 DEF CorrectionEnds, Stage, Held, Working, Turns
<1>9. ASSUME NEW d \in Dispatches, Prepare(d) PROVE Held'
  BY <1>9 DEF Prepare, At, Goto, GotoUnlessAborted, Stage, Held, Working, Turns
<1>10. ASSUME NEW d \in Dispatches, AbandonPreparation(d) PROVE Held'
  BY <1>10 DEF AbandonPreparation, At, Stage, Held, Working, Turns
<1>11. ASSUME NEW d \in Dispatches, BindRun(d) PROVE Held'
  BY <1>11 DEF BindRun, At, Goto, Stage, Held, Working, Turns
<1>12. ASSUME NEW d \in Dispatches, Generate(d) PROVE Held'
  BY <1>12 DEF Generate, At, Goto, GotoUnlessAborted, Stage, Held, Working, Turns
<1>13. ASSUME NEW d \in Dispatches, Persist(d) PROVE Held'
  BY <1>13 DEF Persist, At, Goto, Stage, Held, Working, Turns
<1>14. ASSUME NEW d \in Dispatches, Persisted(d) PROVE Held'
  BY <1>14 DEF Persisted, At, Goto, Stage, Held, Working, Turns
<1>15. ASSUME NEW d \in Dispatches, FinalValidation(d) PROVE Held'
  BY <1>15 DEF FinalValidation, At, Goto, Stage, Held, Working, Turns
<1>16. ASSUME NEW d \in Dispatches, Send(d) PROVE Held'
  BY <1>16 DEF Send, At, Goto, Stage, Held, Working, Turns
<1>17. ASSUME NEW d \in Dispatches, Settle(d) PROVE Held'
  BY <1>17 DEF Settle, At, Stage, Held, Working, Turns
<1>18. ASSUME NEW d \in Dispatches, Drain(d) PROVE Held'
  BY <1>18 DEF Drain, Stage, Held, Working, Turns
<1>19. CASE Revoke
  BY <1>19 DEF Revoke, Stage, Held, Working, Turns
<1>20. CASE Reserve
  BY <1>20 DEF Reserve, Stage, Held, Working, Turns
<1>21. CASE Unreserve
  BY <1>21 DEF Unreserve, Stage, Held, Working, Turns
<1>22. CASE Reload
  BY <1>22 DEF Reload, Stage, Held, Working, Turns
<1>23. CASE Crash
  <2>1. /\ active' = FALSE /\ reserved' = FALSE
        /\ UNCHANGED <<admitted, persisted, sent>>
    BY <1>23 DEF Crash
  <2> QED
    BY <2>1, <1>23, CrashEnds DEF Held, Working
<1>24. CASE UNCHANGED vars
  BY <1>24 DEF vars, Stage, Held, Working, Turns
<1> QED
  BY <1>1, <1>2, <1>3, <1>4, <1>5, <1>6, <1>7, <1>8, <1>9, <1>10, <1>11, <1>12, <1>13,
     <1>14, <1>15, <1>16, <1>17, <1>18, <1>19, <1>20, <1>21, <1>22, <1>23, <1>24,
     <1>25, <1>26, <1>27 DEF Next, Handler, Work

\* A run is reserved by one call, and only that call persists and sends.
LEMMA OnceStep ==
  ASSUME turn \in [Dispatches -> Turns], Stage, Held, Once, sent \subseteq Dispatches, persisted \in [Runs -> Nat], [Next]_vars
  PROVE  Once'
<1>1. ASSUME NEW d \in Dispatches, NEW r \in Runs, Dispatch(d, r) PROVE Once'
  BY <1>1 DEF Dispatch, Stage, Held, Once, Fresh, Working, Turns
<1>2. ASSUME NEW d \in Dispatches, Refuse(d) PROVE Once'
  BY <1>2 DEF Refuse, Stage, Held, Once, Fresh, Working, Turns
<1>25. ASSUME NEW d \in Dispatches, NEW r \in Runs, DispatchReset(d, r) PROVE Once'
  BY <1>25 DEF DispatchReset, Stage, Held, Once, Fresh, Working, Turns
<1>26. ASSUME NEW d \in Dispatches, ResetGate(d) PROVE Once'
  BY <1>26 DEF ResetGate, Stage, Held, Once, Fresh, Working, Turns
<1>27. ASSUME NEW d \in Dispatches, DispatcherIdle(d) PROVE Once'
  BY <1>27 DEF DispatcherIdle, Stage, Held, Once, Fresh, Working, Turns
<1>3. ASSUME NEW d \in Dispatches, Enter(d) PROVE Once'
  BY <1>3 DEF Enter, Stage, Held, Once, Fresh, Working, Turns
<1>4. ASSUME NEW d \in Dispatches, Cancel(d) PROVE Once'
  BY <1>4 DEF Cancel, Stage, Held, Once, Fresh, Working, Turns
<1>5. ASSUME NEW d \in Dispatches, Answer(d) PROVE Once'
  BY <1>5 DEF Answer, Told, Stage, Held, Once, Fresh, Working, Turns
<1>6. ASSUME NEW d \in Dispatches, Close(d) PROVE Once'
  BY <1>6 DEF Close, TimedOut, Stage, Held, Once, Fresh, Working, Turns
<1>7. ASSUME NEW d \in Dispatches, Admit(d) PROVE Once'
  BY <1>7 DEF Admit, At, Goto, GotoUnlessAborted, Stage, Held, Once, Fresh, Working, Turns
<1>8. ASSUME NEW d \in Dispatches, CorrectionEnds(d) PROVE Once'
  BY <1>8 DEF CorrectionEnds, Stage, Held, Once, Fresh, Working, Turns
<1>9. ASSUME NEW d \in Dispatches, Prepare(d) PROVE Once'
  BY <1>9 DEF Prepare, At, Goto, GotoUnlessAborted, Stage, Held, Once, Fresh, Working, Turns
<1>10. ASSUME NEW d \in Dispatches, AbandonPreparation(d) PROVE Once'
  BY <1>10 DEF AbandonPreparation, At, Stage, Held, Once, Fresh, Working, Turns
<1>11. ASSUME NEW d \in Dispatches, BindRun(d) PROVE Once'
  BY <1>11 DEF BindRun, At, Goto, Stage, Held, Once, Fresh, Working, Turns
<1>12. ASSUME NEW d \in Dispatches, Generate(d) PROVE Once'
  BY <1>12 DEF Generate, At, Goto, GotoUnlessAborted, Stage, Held, Once, Fresh, Working, Turns
<1>13. ASSUME NEW d \in Dispatches, Persist(d) PROVE Once'
  BY <1>13 DEF Persist, At, Goto, Stage, Held, Once, Fresh, Working, Turns
<1>14. ASSUME NEW d \in Dispatches, Persisted(d) PROVE Once'
  BY <1>14 DEF Persisted, At, Goto, Stage, Held, Once, Fresh, Working, Turns
<1>15. ASSUME NEW d \in Dispatches, FinalValidation(d) PROVE Once'
  BY <1>15 DEF FinalValidation, At, Goto, Stage, Held, Once, Fresh, Working, Turns
<1>16. ASSUME NEW d \in Dispatches, Send(d) PROVE Once'
  BY <1>16 DEF Send, At, Goto, Stage, Held, Once, Fresh, Working, Turns
<1>17. ASSUME NEW d \in Dispatches, Settle(d) PROVE Once'
  BY <1>17 DEF Settle, At, Stage, Held, Once, Fresh, Working, Turns
<1>18. ASSUME NEW d \in Dispatches, Drain(d) PROVE Once'
  BY <1>18 DEF Drain, Stage, Held, Once, Fresh, Working, Turns
<1>19. CASE Revoke
  BY <1>19 DEF Revoke, Stage, Held, Once, Fresh, Working, Turns
<1>20. CASE Reserve
  BY <1>20 DEF Reserve, Stage, Held, Once, Fresh, Working, Turns
<1>21. CASE Unreserve
  BY <1>21 DEF Unreserve, Stage, Held, Once, Fresh, Working, Turns
<1>22. CASE Reload
  BY <1>22 DEF Reload, Stage, Held, Once, Fresh, Working, Turns
<1>23. CASE Crash
  <2>1. /\ active' = FALSE /\ reserved' = FALSE
        /\ UNCHANGED <<admitted, persisted, sent>>
    BY <1>23 DEF Crash
  <2> QED
    BY <2>1, <1>23, CrashEnds DEF Once, Fresh
<1>24. CASE UNCHANGED vars
  BY <1>24 DEF vars, Stage, Held, Once, Fresh, Working, Turns
<1> QED
  BY <1>1, <1>2, <1>3, <1>4, <1>5, <1>6, <1>7, <1>8, <1>9, <1>10, <1>11, <1>12, <1>13,
     <1>14, <1>15, <1>16, <1>17, <1>18, <1>19, <1>20, <1>21, <1>22, <1>23, <1>24,
     <1>25, <1>26, <1>27 DEF Next, Handler, Work

\* What a call told its user stays so.
LEMMA TruthStep ==
  ASSUME turn \in [Dispatches -> Turns], Stage, Truth, sent \subseteq Dispatches, [Next]_vars
  PROVE  Truth'
<1>1. ASSUME NEW d \in Dispatches, NEW r \in Runs, Dispatch(d, r) PROVE Truth'
  BY <1>1 DEF Dispatch, Stage, Truth, Over, Turns
<1>2. ASSUME NEW d \in Dispatches, Refuse(d) PROVE Truth'
  BY <1>2 DEF Refuse, Stage, Truth, Over, Turns
<1>25. ASSUME NEW d \in Dispatches, NEW r \in Runs, DispatchReset(d, r) PROVE Truth'
  BY <1>25 DEF DispatchReset, Stage, Truth, Over, Turns
<1>26. ASSUME NEW d \in Dispatches, ResetGate(d) PROVE Truth'
  BY <1>26 DEF ResetGate, Stage, Truth, Over, Turns
<1>27. ASSUME NEW d \in Dispatches, DispatcherIdle(d) PROVE Truth'
  BY <1>27 DEF DispatcherIdle, Stage, Truth, Over, Turns
<1>3. ASSUME NEW d \in Dispatches, Enter(d) PROVE Truth'
  BY <1>3 DEF Enter, Stage, Truth, Over, Turns
<1>4. ASSUME NEW d \in Dispatches, Cancel(d) PROVE Truth'
  BY <1>4 DEF Cancel, Stage, Truth, Over, Turns
<1>5. ASSUME NEW d \in Dispatches, Answer(d) PROVE Truth'
  BY <1>5 DEF Answer, Told, Stage, Truth, Over, Turns
<1>6. ASSUME NEW d \in Dispatches, Close(d) PROVE Truth'
  BY <1>6 DEF Close, TimedOut, Stage, Truth, Over, Turns
<1>7. ASSUME NEW d \in Dispatches, Admit(d) PROVE Truth'
  BY <1>7 DEF Admit, At, Goto, GotoUnlessAborted, Stage, Truth, Over, Turns
<1>8. ASSUME NEW d \in Dispatches, CorrectionEnds(d) PROVE Truth'
  BY <1>8 DEF CorrectionEnds, Stage, Truth, Over, Turns
<1>9. ASSUME NEW d \in Dispatches, Prepare(d) PROVE Truth'
  BY <1>9 DEF Prepare, At, Goto, GotoUnlessAborted, Stage, Truth, Over, Turns
<1>10. ASSUME NEW d \in Dispatches, AbandonPreparation(d) PROVE Truth'
  BY <1>10 DEF AbandonPreparation, At, Stage, Truth, Over, Turns
<1>11. ASSUME NEW d \in Dispatches, BindRun(d) PROVE Truth'
  BY <1>11 DEF BindRun, At, Goto, Stage, Truth, Over, Turns
<1>12. ASSUME NEW d \in Dispatches, Generate(d) PROVE Truth'
  BY <1>12 DEF Generate, At, Goto, GotoUnlessAborted, Stage, Truth, Over, Turns
<1>13. ASSUME NEW d \in Dispatches, Persist(d) PROVE Truth'
  BY <1>13 DEF Persist, At, Goto, Stage, Truth, Over, Turns
<1>14. ASSUME NEW d \in Dispatches, Persisted(d) PROVE Truth'
  BY <1>14 DEF Persisted, At, Goto, Stage, Truth, Over, Turns
<1>15. ASSUME NEW d \in Dispatches, FinalValidation(d) PROVE Truth'
  BY <1>15 DEF FinalValidation, At, Goto, Stage, Truth, Over, Turns
<1>16. ASSUME NEW d \in Dispatches, Send(d) PROVE Truth'
  BY <1>16 DEF Send, At, Goto, Stage, Truth, Over, Turns
<1>17. ASSUME NEW d \in Dispatches, Settle(d) PROVE Truth'
  BY <1>17 DEF Settle, At, Stage, Truth, Over, Turns
<1>18. ASSUME NEW d \in Dispatches, Drain(d) PROVE Truth'
  BY <1>18 DEF Drain, Stage, Truth, Over, Turns
<1>19. CASE Revoke
  BY <1>19 DEF Revoke, Stage, Truth, Over, Turns
<1>20. CASE Reserve
  BY <1>20 DEF Reserve, Stage, Truth, Over, Turns
<1>21. CASE Unreserve
  BY <1>21 DEF Unreserve, Stage, Truth, Over, Turns
<1>22. CASE Reload
  BY <1>22 DEF Reload, Stage, Truth, Over, Turns
<1>23. CASE Crash
  <2>1. /\ active' = FALSE /\ reserved' = FALSE
        /\ UNCHANGED <<admitted, persisted, sent>>
    BY <1>23 DEF Crash
  <2> QED
    BY <2>1, <1>23, CrashEnds DEF Truth, Over
<1>24. CASE UNCHANGED vars
  BY <1>24 DEF vars, Stage, Truth, Over, Turns
<1> QED
  BY <1>1, <1>2, <1>3, <1>4, <1>5, <1>6, <1>7, <1>8, <1>9, <1>10, <1>11, <1>12, <1>13,
     <1>14, <1>15, <1>16, <1>17, <1>18, <1>19, <1>20, <1>21, <1>22, <1>23, <1>24,
     <1>25, <1>26, <1>27 DEF Next, Handler, Work

-----------------------------------------------------------------------------
(* Theorems. *)

LEMMA InitIInv == Init => IInv
<1> SUFFICES ASSUME Init PROVE IInv
  OBVIOUS
<1>1. NewTurn \in Turns
  BY DEF NewTurn, Turns, Works
<1>2. \A d \in Dispatches : turn[d] = NewTurn
  BY DEF Init
<1>p. persisted \in [Runs -> Nat] /\ \A r \in Runs : persisted[r] = 0
  BY DEF Init
<1>e. claimed = {} /\ admitted = {} /\ bound = {} /\ correcting = {} /\ sent = {} /\ faults = 0
  BY DEF Init
<1>b. ~active /\ ~revoking /\ ~reserved /\ active \in BOOLEAN /\ revoking \in BOOLEAN /\ reserved \in BOOLEAN
  BY DEF Init
<1>t. turn \in [Dispatches -> Turns]
  BY <1>1 DEF Init
<1>3. TypeOK
  BY <1>p, <1>e, <1>b, <1>t, CompletionAssumption DEF TypeOK
<1>n. \A d \in Dispatches :
        /\ turn[d].handler = "absent" /\ turn[d].work = "idle" /\ turn[d].race = None
        /\ ~turn[d].queued /\ turn[d].told = "nothing"
  BY <1>2 DEF NewTurn
<1>4. Stage /\ Truth
  BY <1>n, <1>e, SentinelAssumption DEF Stage, Truth, Over, Outcomes
<1>6. Held
  BY <1>n, <1>b DEF Held, Working
<1>5. Once
  BY <1>n, <1>e, <1>p DEF Once, Fresh
<1> QED
  BY <1>3, <1>4, <1>5, <1>6 DEF IInv

LEMMA NextIInv == IInv /\ [Next]_vars => IInv'
BY TypeStep, StageStep, HeldStep, OnceStep, TruthStep DEF IInv, TypeOK

THEOREM Invariance == Spec => []IInv
BY InitIInv, NextIInv, PTL DEF Spec

\* TypeOK: every reachable state keeps to the values the code can put in it.
THEOREM CompletionTypes == Spec => []TypeOK
<1>1. IInv => TypeOK
  BY DEF IInv
<1> QED
  BY <1>1, Invariance, PTL

LEMMA AtMostOneIn ==
  ASSUME NEW S, \A x, y \in S : x = y
  PROVE  Cardinality(S) <= 1
<1>1. CASE S = {}
  BY <1>1, FS_EmptySet
<1>2. CASE S # {}
  <2>1. PICK x \in S : TRUE
    BY <1>2
  <2>2. S = {x}
    BY <2>1
  <2> QED
    BY <2>2, FS_Singleton
<1> QED
  BY <1>1, <1>2

\* OneAtWork: one turn or maintenance has the repository until what it started has drained.
THEOREM OneTurnAtWork == Spec => []OneAtWork
<1>1. IInv => OneAtWork
  <2> SUFFICES ASSUME IInv PROVE OneAtWork
    OBVIOUS
  <2> DEFINE W == {d \in Dispatches : Working(d)}
  <2>1. Cardinality(W) <= 1 /\ Cardinality(W) \in Nat
    <3>1. \A x, y \in W : x = y
      BY DEF IInv, Held
    <3>2. IsFiniteSet(W)
      <4>1. CASE W = {}
        BY <4>1, FS_EmptySet
      <4>2. CASE W # {}
        <5>1. PICK x \in W : TRUE
          BY <4>2
        <5>2. W = {x}
          BY <3>1, <5>1
        <5> QED
          BY <5>2, FS_Singleton
      <4> QED
        BY <4>1, <4>2
    <3> HIDE DEF W
    <3> QED
      BY <3>1, <3>2, AtMostOneIn, FS_CardinalityType
  <2>2. reserved => W = {}
    BY DEF IInv, Held
  <2>3. reserved => Cardinality(W) = 0
    BY <2>2, FS_EmptySet
  <2>4. (reserved \/ \E d \in Dispatches : Working(d)) => active
    BY DEF IInv, Held
  <2> HIDE DEF W
  <2>5. Cardinality(W) + (IF reserved THEN 1 ELSE 0) <= 1
    BY <2>1, <2>3
  <2> QED
    BY <2>4, <2>5 DEF OneAtWork, W
<1> QED
  BY <1>1, Invariance, PTL

\* AtMostOncePerRun: however often a run is dispatched, one draft of it is persisted and one reply sent.
THEOREM OncePerRun == Spec => []AtMostOncePerRun
<1>1. IInv => AtMostOncePerRun
  <2> SUFFICES ASSUME IInv, NEW r \in Runs
               PROVE  persisted[r] <= 1 /\ Cardinality({d \in sent : turn[d].run = r}) <= 1
    BY DEF AtMostOncePerRun
  <2>1. \A d, e \in {d \in sent : turn[d].run = r} : d = e
    BY DEF IInv, Once
  <2> QED
    BY <2>1, AtMostOneIn DEF IInv, Once
<1> QED
  BY <1>1, Invariance, PTL

\* ToldTheTruth: who was told that nothing was published is sent nothing, before or after.
THEOREM TruthfulTexts == Spec => []ToldTheTruth
<1>1. IInv => ToldTheTruth
  BY DEF IInv, Truth, ToldTheTruth
<1> QED
  BY <1>1, Invariance, PTL
=============================================================================
