------------------------------ MODULE Completion ------------------------------
(***************************************************************************)
(* One turn of the agent, from the Host's dispatch to the delivery of the  *)
(* reply (openclaw/completion.ts, completion-adapter.ts,                   *)
(* completion-admission.ts, completion-delivery.ts and the ports plugin.ts *)
(* gives them), for the turns of one repository.  The Host may dispatch a  *)
(* run again, after a restart or a reload of the plugin too; a turn may be *)
(* cancelled or run out of time at any point, while the work it started    *)
(* goes on; the process may die.                                           *)
(***************************************************************************)
EXTENDS Naturals, FiniteSets

CONSTANTS
  Dispatches, \* calls of reply_dispatch
  Runs,
  None,
  MaxFaults   \* bound on crashes and reloads

ASSUME CompletionAssumption == MaxFaults \in Nat

Works ==
  {"idle", "admit", "prepare", "bind", "generate", "persist", "persisting", "publish", "final",
   "sending", "failed", "done", "ended"}

Outcomes ==
  {"confirmed", "unconfirmed", "failed", "cancelled", "preparation_timeout", "delivery_unknown"}

ASSUME SentinelAssumption == None \notin Outcomes \union Runs

VARIABLES
  claimed,   \* claimedRuns of the loaded module
  active,    \* whether activeResources holds the repository
  admitted,  \* the admission journal on disk
  bound,     \* runs whose initialization binding is current
  revoking,  \* a revocation fired by settled() has yet to land
  turn,      \* turn[d]: one call of reply_dispatch
  correcting,\* calls whose preparation is inside a correction's write
  reserved,  \* maintenance is in withCompletionResourceReservation
  persisted, \* history: persisted[r], how often the run's draft was persisted
  sent,      \* history: calls whose business reply the dispatcher accepted
  faults

vars == <<claimed, active, admitted, bound, revoking, turn, correcting, reserved, persisted, sent,
          faults>>

NewTurn ==
  [run |-> None,
   handler |-> "absent",  \* the callback of reply_dispatch
   work |-> "idle",       \* work() of coordinateCompletion
   race |-> None,         \* what the race between cancellation and work gave first
   aborted |-> FALSE,     \* controller.signal
   publishing |-> FALSE,  \* stage = "publish"
   queued |-> FALSE,
   told |-> "nothing"]    \* the terminal text: nothing, unpublished, unconfirmed, confirmed

Init ==
  /\ claimed = {} /\ active = FALSE /\ admitted = {} /\ bound = {} /\ revoking = FALSE
  /\ turn = [d \in Dispatches |-> NewTurn]
  /\ correcting = {} /\ reserved = FALSE
  /\ persisted = [r \in Runs |-> 0] /\ sent = {} /\ faults = 0

At(d, work) == turn[d].work = work

Goto(d, work) == turn' = [turn EXCEPT ![d].work = work]

\* An abort check, then the next step.
GotoUnlessAborted(d, work) == Goto(d, IF turn[d].aborted THEN "failed" ELSE work)

-----------------------------------------------------------------------------
(* The callback *)

\* An ordinary turn claims its run before anything is awaited; a second call for it is dropped.
Dispatch(d, r) ==
  /\ turn[d].handler = "absent"
  /\ turn' = [turn EXCEPT ![d].run = r,
                          ![d].handler = IF r \in claimed THEN "duplicate" ELSE "opening"]
  /\ claimed' = claimed \union {r}
  /\ UNCHANGED <<active, admitted, bound, revoking, correcting, reserved, persisted, sent, faults>>

\* /new and /reset ask first whether the Host may reset: the commitments and Git are read.
DispatchReset(d, r) ==
  /\ turn[d].handler = "absent"
  /\ turn' = [turn EXCEPT ![d].run = r, ![d].handler = "resetting"]
  /\ UNCHANGED <<claimed, active, admitted, bound, revoking, correcting, reserved, persisted,
                 sent, faults>>

\* The Host does what was asked; or it may not, and the turn claims its run to say so.
ResetGate(d) ==
  /\ turn[d].handler = "resetting"
  /\ \/ /\ turn' = [turn EXCEPT ![d].handler = "native"]
        /\ UNCHANGED claimed
     \/ /\ turn' = [turn EXCEPT ![d].handler =
             IF turn[d].run \in claimed THEN "duplicate" ELSE "blocked"]
        /\ claimed' = claimed \union {turn[d].run}
  /\ UNCHANGED <<active, admitted, bound, revoking, correcting, reserved, persisted, sent, faults>>

\* A refused reset, a missing capability, input or repository: nothing was started.  The Host's
\* own terminal carries the text if it gave the turn over; if not, the dispatcher does.
Refuse(d) ==
  /\ turn[d].handler \in {"opening", "blocked"}
  /\ \/ turn' = [turn EXCEPT ![d].handler = "waiting", ![d].race = "failed"]
     \/ turn' = [turn EXCEPT ![d].handler = "replying", ![d].race = "failed",
                            ![d].told = "unpublished"]
  /\ UNCHANGED <<claimed, active, admitted, bound, revoking, correcting, reserved, persisted,
                 sent, faults>>

\* The dispatcher has nothing left to send.
DispatcherIdle(d) ==
  /\ turn[d].handler = "replying"
  /\ turn' = [turn EXCEPT ![d].handler = "ended"]
  /\ UNCHANGED <<claimed, active, admitted, bound, revoking, correcting, reserved, persisted,
                 sent, faults>>

\* The input's timestamp and the repository are known.  coordinateCompletion takes the
\* repository or fails at once; the Host may have cancelled.
Enter(d) ==
  /\ turn[d].handler = "opening"
  /\ IF active
     THEN /\ turn' = [turn EXCEPT ![d].handler = "waiting", ![d].race = "failed"]
          /\ UNCHANGED active
     ELSE /\ active' = TRUE
          /\ \/ turn' = [turn EXCEPT ![d].handler = "waiting", ![d].work = "admit"]
             \/ turn' = [turn EXCEPT ![d].handler = "waiting", ![d].work = "failed",
                                     ![d].aborted = TRUE, ![d].race = "cancelled"]
  /\ UNCHANGED <<claimed, admitted, bound, revoking, correcting, reserved, persisted, sent, faults>>

\* Faulty variant of Cancel: the caller waits for the work it can no longer use.
CancelAndWait(d) ==
  /\ turn[d].handler = "waiting" /\ turn[d].race = None /\ ~turn[d].aborted
  /\ turn' = [turn EXCEPT ![d].aborted = TRUE]
  /\ UNCHANGED <<claimed, active, admitted, bound, revoking, correcting, reserved, persisted,
                 sent, faults>>

\* The Host's abort signal, or the timer.
Cancel(d) ==
  /\ turn[d].handler = "waiting" /\ turn[d].race = None
  /\ turn' = [turn EXCEPT
       ![d].aborted = TRUE,
       ![d].race = IF turn[d].publishing THEN "delivery_unknown" ELSE "cancelled"]
  /\ UNCHANGED <<claimed, active, admitted, bound, revoking, correcting, reserved, persisted,
                 sent, faults>>

Told(d) ==
  CASE turn[d].race = "confirmed"           -> "confirmed"
    [] turn[d].race = "unconfirmed"         -> "unconfirmed"
    [] OTHER -> IF turn[d].queued THEN "unconfirmed" ELSE "unpublished"

\* Faulty variant of Answer: the repository is given up with the caller, not with the work.
AnswerAndRelease(d) ==
  /\ turn[d].handler = "waiting" /\ turn[d].race # None
  /\ turn' = [turn EXCEPT ![d].told = Told(d), ![d].handler = "closing"]
  /\ active' = FALSE
  /\ UNCHANGED <<claimed, admitted, bound, revoking, correcting, reserved, persisted, sent, faults>>

\* The race has a winner: the result or the error becomes the terminal text.
Answer(d) ==
  /\ turn[d].handler = "waiting" /\ turn[d].race # None
  /\ turn' = [turn EXCEPT ![d].told = Told(d), ![d].handler = "closing"]
  /\ UNCHANGED <<claimed, active, admitted, bound, revoking, correcting, reserved, persisted,
                 sent, faults>>

TimedOut(d) == turn[d].race \in {"cancelled", "preparation_timeout"}

\* The session's terminal status is written; settled() fires a revocation.  A write that
\* fails replaces the text and, with it, the category settled() is given.
Close(d) ==
  /\ turn[d].handler = "closing"
  /\ \/ /\ turn' = [turn EXCEPT ![d].handler = "ended"]
        /\ revoking' = (revoking \/ TimedOut(d))
     \/ /\ turn' = [turn EXCEPT ![d].handler = "ended", ![d].told = "unconfirmed"]
        /\ UNCHANGED revoking
  /\ UNCHANGED <<claimed, active, admitted, bound, correcting, reserved, persisted, sent, faults>>

\* revokeActiveRuns: every binding becomes stale.
Revoke ==
  /\ revoking /\ revoking' = FALSE
  /\ bound' = {}
  /\ UNCHANGED <<claimed, active, admitted, turn, correcting, reserved, persisted, sent, faults>>

-----------------------------------------------------------------------------
(* The work *)

\* Faulty variant of Admit: the same request may pick its run up again.
AdmitAgain(d) ==
  /\ At(d, "admit")
  /\ admitted' = admitted \union {turn[d].run}
  /\ GotoUnlessAborted(d, "prepare")
  /\ UNCHANGED <<claimed, active, bound, revoking, correcting, reserved, persisted, sent, faults>>

\* admitCompletionOnce: an exclusive file.  A write that fails leaves the run reserved.
Admit(d) ==
  /\ At(d, "admit")
  /\ IF turn[d].run \in admitted
     THEN Goto(d, "failed") /\ UNCHANGED <<admitted, correcting>>
     ELSE /\ admitted' = admitted \union {turn[d].run}
          /\ \/ GotoUnlessAborted(d, "prepare") /\ UNCHANGED correcting
             \/ ~turn[d].aborted /\ Goto(d, "prepare") /\ correcting' = correcting \union {d}
             \/ Goto(d, "failed") /\ UNCHANGED correcting
  /\ UNCHANGED <<claimed, active, bound, revoking, reserved, persisted, sent, faults>>

\* applyHostCorrection is inside a transaction it does not abandon.
CorrectionEnds(d) ==
  /\ d \in correcting
  /\ correcting' = correcting \ {d}
  /\ UNCHANGED <<claimed, active, admitted, bound, revoking, turn, reserved, persisted, sent, faults>>

\* prepareInput returns.
Prepare(d) ==
  /\ At(d, "prepare") /\ d \notin correcting
  /\ \/ GotoUnlessAborted(d, "bind")
     \/ Goto(d, "failed")
  /\ UNCHANGED <<claimed, active, admitted, bound, revoking, correcting, reserved, persisted,
                 sent, faults>>

\* untilAborted: preparation ends at the abort signal or its own deadline.
AbandonPreparation(d) ==
  /\ At(d, "prepare")
  /\ turn' = [turn EXCEPT ![d].work = "failed",
       ![d].race = IF @ = None THEN "preparation_timeout" ELSE @]
  /\ UNCHANGED <<claimed, active, admitted, bound, revoking, correcting, reserved, persisted,
                 sent, faults>>

\* before_agent_run binds the run; it may be blocked, and the run fails.
BindRun(d) ==
  /\ At(d, "bind")
  /\ \/ Goto(d, "generate") /\ bound' = bound \union {turn[d].run}
     \/ Goto(d, "failed") /\ UNCHANGED bound
  /\ UNCHANGED <<claimed, active, admitted, revoking, correcting, reserved, persisted, sent, faults>>

\* The private draft: complete and valid, or the turn fails.
Generate(d) ==
  /\ At(d, "generate")
  /\ \/ GotoUnlessAborted(d, "persist")
     \/ Goto(d, "failed")
  /\ UNCHANGED <<claimed, active, admitted, bound, revoking, correcting, reserved, persisted,
                 sent, faults>>

\* persist(): the binding and the abort signal first, then the durable writes.
Persist(d) ==
  /\ At(d, "persist")
  /\ IF turn[d].run \in bound /\ ~turn[d].aborted
     THEN Goto(d, "persisting") /\ persisted' = [persisted EXCEPT ![turn[d].run] = @ + 1]
     ELSE Goto(d, "failed") /\ UNCHANGED persisted
  /\ UNCHANGED <<claimed, active, admitted, bound, revoking, correcting, reserved, sent, faults>>

\* The receipt: an error, an abort in the meantime, an invalid one, or on to publication.
Persisted(d) ==
  /\ At(d, "persisting")
  /\ \/ Goto(d, "failed")
     \/ /\ ~turn[d].aborted
        /\ turn' = [turn EXCEPT ![d].work = "publish", ![d].publishing = TRUE]
  /\ UNCHANGED <<claimed, active, admitted, bound, revoking, correcting, reserved, persisted,
                 sent, faults>>

\* withFinalValidation: the binding again; the views under the mutation lock.
FinalValidation(d) ==
  /\ At(d, "publish")
  /\ \/ turn[d].run \in bound /\ Goto(d, "final")
     \/ Goto(d, "failed")
  /\ UNCHANGED <<claimed, active, admitted, bound, revoking, correcting, reserved, persisted,
                 sent, faults>>

\* Faulty variant of Send: the abort signal is not read again before the send.
SendRegardless(d) ==
  /\ At(d, "final")
  /\ turn' = [turn EXCEPT ![d].work = "sending", ![d].queued = TRUE]
  /\ sent' = sent \union {d}
  /\ UNCHANGED <<claimed, active, admitted, bound, revoking, correcting, reserved, persisted, faults>>

\* publish(): the session must still be this run's; the send happens only if not aborted.
Send(d) ==
  /\ At(d, "final")
  /\ \/ Goto(d, "failed") /\ UNCHANGED sent
     \/ /\ turn[d].aborted
        /\ turn' = [turn EXCEPT ![d].work = "failed", ![d].queued = TRUE]
        /\ UNCHANGED sent
     \/ /\ ~turn[d].aborted
        /\ \/ /\ turn' = [turn EXCEPT ![d].work = "sending", ![d].queued = TRUE]
              /\ sent' = sent \union {d}
           \/ /\ turn' = [turn EXCEPT ![d].work = "done", ![d].queued = TRUE,
                            ![d].race = IF @ = None THEN "unconfirmed" ELSE @]
              /\ UNCHANGED sent
  /\ UNCHANGED <<claimed, active, admitted, bound, revoking, correcting, reserved, persisted, faults>>

\* The settled counts of the dispatcher: confirmed, failed or unknown.
Settle(d) ==
  /\ At(d, "sending")
  /\ \E outcome \in {"confirmed", "unconfirmed"} :
       turn' = [turn EXCEPT ![d].work = "done", ![d].race = IF @ = None THEN outcome ELSE @]
  /\ UNCHANGED <<claimed, active, admitted, bound, revoking, correcting, reserved, persisted,
                 sent, faults>>

\* The repository is released when the work has drained, whether or not anyone still waits.
Drain(d) ==
  /\ turn[d].work \in {"failed", "done"}
  /\ active' = FALSE
  /\ turn' = [turn EXCEPT ![d].work = "ended",
       ![d].race = IF @ = None THEN "failed" ELSE @]
  /\ UNCHANGED <<claimed, admitted, bound, revoking, correcting, reserved, persisted, sent, faults>>

-----------------------------------------------------------------------------
(* Maintenance, reloads and crashes *)

Reserve ==
  /\ ~active /\ ~reserved
  /\ active' = TRUE /\ reserved' = TRUE
  /\ UNCHANGED <<claimed, admitted, bound, revoking, turn, correcting, persisted, sent, faults>>

Unreserve ==
  /\ reserved
  /\ active' = FALSE /\ reserved' = FALSE
  /\ UNCHANGED <<claimed, admitted, bound, revoking, turn, correcting, persisted, sent, faults>>

\* The Host evaluates the plugin's modules afresh; activeResources is process-wide.
Reload ==
  /\ faults < MaxFaults /\ faults' = faults + 1
  /\ claimed' = {}
  /\ UNCHANGED <<active, admitted, bound, revoking, turn, correcting, reserved, persisted, sent>>

\* The journal and the bindings survive.
Crash ==
  /\ faults < MaxFaults /\ faults' = faults + 1
  /\ claimed' = {} /\ active' = FALSE /\ revoking' = FALSE
  /\ correcting' = {} /\ reserved' = FALSE
  /\ turn' = [d \in Dispatches |->
       IF turn[d].handler = "absent" THEN turn[d]
       ELSE [turn[d] EXCEPT !.handler = "lost", !.work = "ended"]]
  /\ UNCHANGED <<admitted, bound, persisted, sent>>

-----------------------------------------------------------------------------
Work(d) ==
  \/ Admit(d) \/ CorrectionEnds(d) \/ Prepare(d) \/ AbandonPreparation(d) \/ BindRun(d)
  \/ Generate(d) \/ Persist(d) \/ Persisted(d) \/ FinalValidation(d) \/ Send(d) \/ Settle(d)
  \/ Drain(d)

Handler(d) ==
  \/ (\E r \in Runs : Dispatch(d, r) \/ DispatchReset(d, r))
  \/ ResetGate(d) \/ Refuse(d) \/ DispatcherIdle(d) \/ Enter(d) \/ Cancel(d) \/ Answer(d) \/ Close(d)

Next ==
  \/ \E d \in Dispatches : Handler(d) \/ Work(d)
  \/ Revoke \/ Reserve \/ Unreserve \/ Reload \/ Crash

Spec == Init /\ [][Next]_vars

\* The timer fires, a callback whose race is over goes on, and the Host's session store answers
\* its write with success or failure.  Nothing is assumed of what is awaited before the race
\* (ResetGate, Refuse, Enter), of the dispatcher (DispatcherIdle) or of the work: a port may
\* never return.
Fairness ==
  \A d \in Dispatches : WF_vars(Cancel(d)) /\ WF_vars(Answer(d)) /\ WF_vars(Close(d))

FairSpec == Spec /\ Fairness

-----------------------------------------------------------------------------
(* Properties *)

Turns ==
  [run : Runs \union {None},
   handler : {"absent", "resetting", "native", "blocked", "opening", "replying", "waiting",
              "closing", "ended", "duplicate", "lost"},
   work : Works, race : Outcomes \union {None}, aborted : BOOLEAN, publishing : BOOLEAN,
   queued : BOOLEAN, told : {"nothing", "unpublished", "unconfirmed", "confirmed"}]

\* Every variable keeps to the values the code can put in it.
TypeOK ==
  /\ claimed \subseteq Runs /\ active \in BOOLEAN /\ admitted \subseteq Runs
  /\ bound \subseteq Runs /\ revoking \in BOOLEAN
  /\ turn \in [Dispatches -> Turns]
  /\ correcting \subseteq Dispatches /\ reserved \in BOOLEAN
  /\ persisted \in [Runs -> Nat] /\ sent \subseteq Dispatches
  /\ faults \in 0..MaxFaults

Working(d) == turn[d].work \notin {"idle", "ended"}

\* One repository has one turn at work, or maintenance, never both or two: a cancelled turn
\* keeps it until what it started has drained, and releases nobody else's hold.
OneAtWork ==
  /\ Cardinality({d \in Dispatches : Working(d)}) + (IF reserved THEN 1 ELSE 0) <= 1
  /\ (reserved \/ \E d \in Dispatches : Working(d)) => active

\* However often the Host dispatches a run, across reloads and restarts, its draft is
\* persisted and its reply sent at most once.
AtMostOncePerRun ==
  \A r \in Runs : persisted[r] <= 1 /\ Cardinality({d \in sent : turn[d].run = r}) <= 1

\* A user who was told that no reply was published never receives it later, and one who was
\* told that it arrived has been sent it.
ToldTheTruth ==
  \A d \in Dispatches :
    /\ turn[d].told = "unpublished" => d \notin sent
    /\ turn[d].told = "confirmed" => d \in sent

\* A turn that coordinateCompletion has, or that it refused, is answered even if the model, Git
\* or the dispatcher never comes back.  A turn before it has no such promise: its message, the
\* repository and a dispatcher that is to carry a refusal are awaited without a timer.
TurnsAreAnswered ==
  \A d \in Dispatches : turn[d].handler = "waiting" ~> turn[d].handler \in {"ended", "lost"}

\* "Resource admission stays locked after cancellation until the underlying persistence
\* drains": nobody is let in while a correction is still writing.
ReleasedWhenDrained == correcting # {} => active
=============================================================================
