---------------------------- MODULE GitDurability ----------------------------
(***************************************************************************)
(* GitCangHaiDurability (canghai/durability.ts): scoped commits to the     *)
(* local branch, the compare-and-set of OpenClaw's recovery pointer, and   *)
(* the push to the remote, at once (critical) or within an RPO (normal).   *)
(*                                                                         *)
(* Each register() closure of the plugin owns an instance: a queue that    *)
(* runs one operation at a time, its flags, and the recovery revision its  *)
(* configuration last held (plugin.ts).  After a Host reload several live  *)
(* side by side over the same checkout, so their git commands interleave;  *)
(* an action is one command.  A revision is a commit's position in the     *)
(* branch.  Wall-clock time is the length of the branch: the only question *)
(* asked of a timestamp is which commits it is not later than.             *)
(***************************************************************************)
EXTENDS Naturals, Sequences

CONSTANTS
  Insts,      \* instances
  Writes,     \* pieces of content to make durable, each on a path of its own
  Kind,       \* Kind[w]: "critical" or "normal"
  Policy,     \* Policy[i]: normalWritePolicy, "sync_immediately" or "bounded_batch"
  Owner,      \* the author of commits made by hand
  NoWrite,    \* the operation carries no content
  Budgets     \* bounds a behaviour starts with, [owner, calls, faults]: commits made by
              \* hand, operations callers start, crashes and failed commands

ASSUME DurabilityAssumption ==
  /\ Kind \in [Writes -> {"critical", "normal"}]
  /\ Policy \in [Insts -> {"sync_immediately", "bounded_batch"}]
  /\ Owner \notin Insts
  /\ NoWrite \notin Writes
  /\ Budgets \subseteq [owner : Nat, calls : Nat, faults : Nat]

VARIABLES
  branch,    \* the local branch: commits with their author and content
  pointer,   \* plugins.entries.stella-core.config.recoveryRevision
  remote,    \* the revision of the remote branch
  inst,      \* inst[i]: the fields of instance i
  run,       \* run[i]: the operation instance i is executing
  done,      \* writes reported as synchronized: critical, immediate or reconfirmed
  recorded,  \* recorded[i]: normal writes instance i accepted for a later push
  owner,     \* commits that may still be made by hand
  calls,     \* operations callers may still start
  faults     \* faults that may still happen

bounds == <<owner, calls, faults>>
vars == <<branch, pointer, remote, inst, run, done, recorded, bounds>>

\* HEAD
Tip == Len(branch)

\* 0 stands for an undefined revision or time.
Instance == [up : BOOLEAN, initialized : BOOLEAN, config : Nat, confirmed : Nat,
             synchronized : Nat, critical : BOOLEAN, pendingSince : Nat,
             error : {"none", "critical", "normal"}, scheduled : BOOLEAN, timers : Nat,
             flushQueued : BOOLEAN]

Fresh(up, config) ==
  [up |-> up, initialized |-> FALSE, config |-> config, confirmed |-> 0, synchronized |-> 0,
   critical |-> FALSE, pendingSince |-> 0, error |-> "none", scheduled |-> FALSE,
   timers |-> 0, flushQueued |-> FALSE]

OpNames == {"critical", "normal", "flush", "confirm", "diagnostics"}

Phases == {"idle", "init", "classify", "commit", "readHead", "cas", "push", "verify", "enlist"}

\* What the pointer and push steps are for: the operation's own commit, its push, or
\* the push of #initialize for pending critical or overdue normal commits.
Stages == {"commit", "push", "initCritical", "initNormal"}

Idle ==
  [op |-> "diagnostics", write |-> NoWrite, phase |-> "idle", stage |-> "commit", rev |-> 0]

Contains(rev, w) == \E k \in 1..rev : branch[k].write = w

\* A commit made by hand carries no prefix the instances know.
KindOf(k) == IF branch[k].author = Owner THEN "unknown" ELSE Kind[branch[k].write]

Init ==
  /\ branch = <<[author |-> Owner, write |-> NoWrite]>>
  /\ pointer = 1
  /\ remote = 1
  /\ inst = [i \in Insts |-> Fresh(FALSE, 0)]
  /\ run = [i \in Insts |-> Idle]
  /\ done = {}
  /\ recorded = [i \in Insts |-> {}]
  /\ \E b \in Budgets : owner = b.owner /\ calls = b.calls /\ faults = b.faults

At(i, phase) == run[i].phase = phase

Goto(i, phase) == run' = [run EXCEPT ![i].phase = phase]

\* Where the body of an operation begins once the instance is initialized.
Body(op) ==
  CASE op \in {"critical", "normal"} -> [phase |-> "commit", stage |-> "commit"]
    [] op \in {"flush", "confirm"}   -> [phase |-> "readHead", stage |-> "push"]
    [] op = "diagnostics"            -> [phase |-> "idle", stage |-> "commit"]

\* flushNormal has nothing to do without a pending normal commit.
Enter(r, fields) ==
  IF r.op = "flush" /\ fields.pendingSince = 0 THEN Idle
  ELSE [r EXCEPT !.phase = Body(r.op).phase, !.stage = Body(r.op).stage]

-----------------------------------------------------------------------------
(* The Host *)

Fault == faults > 0 /\ faults' = faults - 1

\* A register() closure builds its instance after a load, which requires the checkout
\* to be at the configured recovery revision.
Register(i) ==
  /\ ~inst[i].up
  /\ Tip = pointer
  /\ inst' = [inst EXCEPT ![i] = Fresh(TRUE, pointer)]
  /\ UNCHANGED <<branch, pointer, remote, run, done, recorded, bounds>>

Start(i, op, w) ==
  /\ calls > 0 /\ calls' = calls - 1
  /\ inst[i].up
  /\ At(i, "idle") /\ ~inst[i].flushQueued
  /\ \/ op \in {"critical", "normal"} /\ w \in Writes /\ op = Kind[w]
     \/ op \in {"flush", "diagnostics"} /\ w = NoWrite
     \/ op = "confirm" /\ w \in Writes /\ Contains(Tip, w)
  /\ LET r == [Idle EXCEPT !.op = op, !.write = w] IN
     run' = [run EXCEPT ![i] =
       IF inst[i].initialized THEN Enter(r, inst[i]) ELSE [r EXCEPT !.phase = "init"]]
  /\ UNCHANGED <<branch, pointer, remote, inst, done, recorded, owner, faults>>

\* Faulty variant of TimerFires: the timer gives up when an operation is in progress.
TimerGivesUp(i) ==
  /\ inst[i].timers > 0
  /\ inst' = [inst EXCEPT ![i].timers = @ - 1, ![i].scheduled = FALSE,
                          ![i].flushQueued = @ \/ At(i, "idle")]
  /\ UNCHANGED <<branch, pointer, remote, run, done, recorded, bounds>>

\* The RPO timer fires: it queues a flush behind the operation in progress.
TimerFires(i) ==
  /\ inst[i].timers > 0
  /\ inst' = [inst EXCEPT ![i].timers = @ - 1, ![i].scheduled = FALSE, ![i].flushQueued = TRUE]
  /\ UNCHANGED <<branch, pointer, remote, run, done, recorded, bounds>>

StartQueuedFlush(i) ==
  /\ inst[i].flushQueued
  /\ At(i, "idle")
  /\ inst' = [inst EXCEPT ![i].flushQueued = FALSE]
  /\ LET r == [Idle EXCEPT !.op = "flush"] IN
     run' = [run EXCEPT ![i] =
       IF inst[i].initialized THEN Enter(r, inst[i]) ELSE [r EXCEPT !.phase = "init"]]
  /\ UNCHANGED <<branch, pointer, remote, done, recorded, bounds>>

\* The owner commits by hand in the same checkout.
OwnerCommit ==
  /\ owner > 0 /\ owner' = owner - 1
  /\ branch' = Append(branch, [author |-> Owner, write |-> NoWrite])
  /\ UNCHANGED <<pointer, remote, inst, run, done, recorded, calls, faults>>

\* The operator reviews the branch and configures its head as recovery revision.
Reconcile ==
  /\ \A i \in Insts : ~inst[i].up
  /\ pointer' = Tip
  /\ UNCHANGED <<branch, remote, inst, run, done, recorded, bounds>>

-----------------------------------------------------------------------------
(* Ways an operation ends *)

\* Faulty variant of Rejected: a failed flush leaves no trace.
RejectedQuietly(i) ==
  LET r == run[i] IN
  CASE r.stage = "initCritical" -> [inst[i] EXCEPT !.error = "critical"]
    [] r.stage = "initNormal"   -> [inst[i] EXCEPT !.error = "normal"]
    [] r.stage = "push" /\ r.op = "critical" ->
         [inst[i] EXCEPT !.critical = FALSE, !.error = "critical"]
    [] r.stage = "push" /\ r.op = "normal" -> [inst[i] EXCEPT !.error = "normal"]
    [] OTHER -> inst[i]

\* What the catch block around the failed step leaves in the instance.
Rejected(i) ==
  LET r == run[i] IN
  CASE r.stage = "initCritical" -> [inst[i] EXCEPT !.error = "critical"]
    [] r.stage = "initNormal"   -> [inst[i] EXCEPT !.error = "normal"]
    [] r.stage = "push" /\ r.op = "critical" ->
         [inst[i] EXCEPT !.critical = FALSE, !.error = "critical"]
    [] r.stage = "push" /\ r.op \in {"normal", "flush"} -> [inst[i] EXCEPT !.error = "normal"]
    [] r.stage = "commit" /\ r.phase = "commit" /\ r.op = "critical" ->
         [inst[i] EXCEPT !.critical = FALSE]
    [] OTHER -> inst[i]

Reject(i) ==
  /\ inst' = [inst EXCEPT ![i] = Rejected(i)]
  /\ run' = [run EXCEPT ![i] = Idle]

\* Faulty variant of Fail: the failure stays in the diagnostics, the call succeeds.
FailSwallowed(i) ==
  /\ Fault
  /\ ~At(i, "idle")
  /\ Reject(i)
  /\ done' = IF run[i].stage = "push" THEN done \union ({run[i].write} \ {NoWrite}) ELSE done
  /\ UNCHANGED <<branch, pointer, remote, recorded, owner, calls>>

\* Any command may fail.
Fail(i) ==
  /\ Fault
  /\ ~At(i, "idle")
  /\ Reject(i)
  /\ UNCHANGED <<branch, pointer, remote, done, recorded, owner, calls>>

\* The process dies, and with it flags, queue and timers.
Crash(i) ==
  /\ Fault
  /\ inst[i].up
  /\ inst' = [inst EXCEPT ![i] = Fresh(FALSE, 0)]
  /\ run' = [run EXCEPT ![i] = Idle]
  /\ recorded' = [recorded EXCEPT ![i] = {}]
  /\ UNCHANGED <<branch, pointer, remote, done, owner, calls>>

-----------------------------------------------------------------------------
(* #initialize *)

Initialized(i, fields) ==
  /\ inst' = [inst EXCEPT ![i] = [fields EXCEPT !.initialized = TRUE]]
  /\ run' = [run EXCEPT ![i] = Enter(run[i], fields)]

\* #scheduleNormalFlush
Scheduled(fields) ==
  IF fields.scheduled THEN fields
  ELSE [fields EXCEPT !.scheduled = TRUE, !.timers = @ + 1]

\* rev-parse HEAD and ls-remote.
ReadRevisions(i) ==
  /\ At(i, "init")
  /\ IF Tip = remote
     THEN Initialized(i, [inst[i] EXCEPT !.synchronized = remote, !.critical = TRUE])
     ELSE /\ inst' = [inst EXCEPT ![i].synchronized = remote]
          /\ Goto(i, "classify")
  /\ UNCHANGED <<branch, pointer, remote, done, recorded, bounds>>

\* git log remote..HEAD: commits of unknown origin need an explicit reconciliation;
\* critical ones, or overdue normal ones, are pushed; other normal ones get a timer.
Classify(i) ==
  LET first == inst[i].synchronized + 1
      kinds == {KindOf(k) : k \in first..Tip}
      clocked == [inst[i] EXCEPT !.pendingSince = first]
      push(stage) == run' = [run EXCEPT ![i].phase = "readHead", ![i].stage = stage]
  IN
  /\ At(i, "classify")
  /\ CASE "unknown" \in kinds -> Reject(i)
       [] "unknown" \notin kinds /\ "critical" \in kinds -> push("initCritical") /\ UNCHANGED inst
       [] OTHER -> \E overdue \in BOOLEAN :
            IF overdue THEN push("initNormal") /\ inst' = [inst EXCEPT ![i] = clocked]
            ELSE Initialized(i, Scheduled(clocked))
  /\ UNCHANGED <<branch, pointer, remote, done, recorded, bounds>>

-----------------------------------------------------------------------------
(* #commit, #confirmRecoveryPointer, #push *)

\* Faulty variant of Commit: the flag stays up until a push fails.
CommitKeepsFlag(i) ==
  LET w == run[i].write IN
  /\ At(i, "commit")
  /\ branch' = IF Contains(Tip, w) THEN branch ELSE Append(branch, [author |-> i, write |-> w])
  /\ Goto(i, "readHead")
  /\ UNCHANGED <<pointer, remote, inst, done, recorded, bounds>>

\* git add, diff and commit of the operation's own paths; nothing to commit is fine.
Commit(i) ==
  LET w == run[i].write IN
  /\ At(i, "commit")
  /\ IF Contains(Tip, w) THEN UNCHANGED <<branch, inst>>
     ELSE /\ branch' = Append(branch, [author |-> i, write |-> w])
          /\ inst' = [inst EXCEPT ![i].critical = @ /\ run[i].op # "critical"]
  /\ Goto(i, "readHead")
  /\ UNCHANGED <<pointer, remote, done, recorded, bounds>>

\* What follows a confirmed pointer.
Confirmed(r, i) ==
  IF r.stage # "commit" THEN [r EXCEPT !.phase = "push"]
  ELSE IF r.op = "critical" \/ Policy[i] = "sync_immediately"
       THEN [r EXCEPT !.phase = "readHead", !.stage = "push"]
       ELSE [r EXCEPT !.phase = "enlist"]

\* Faulty variant of ReadHead: the pointer is left to be advanced after the push.
ReadHeadOnly(i) ==
  /\ At(i, "readHead")
  /\ run' = [run EXCEPT ![i] = Confirmed([@ EXCEPT !.rev = Tip], i)]
  /\ UNCHANGED <<branch, pointer, remote, inst, done, recorded, bounds>>

ReadHead(i) ==
  LET r == [run[i] EXCEPT !.rev = Tip] IN
  /\ At(i, "readHead")
  /\ run' = [run EXCEPT ![i] =
       IF Tip = inst[i].confirmed THEN Confirmed(r, i) ELSE [r EXCEPT !.phase = "cas"]]
  /\ UNCHANGED <<branch, pointer, remote, inst, done, recorded, bounds>>

\* onRevision: advance the pointer from the revision this closure's config holds.
AdvancePointer(i) ==
  /\ At(i, "cas")
  /\ IF pointer = inst[i].config
     THEN /\ pointer' = run[i].rev
          /\ inst' = [inst EXCEPT ![i].config = run[i].rev, ![i].confirmed = run[i].rev]
          /\ run' = [run EXCEPT ![i] = Confirmed(@, i)]
     ELSE Reject(i) /\ UNCHANGED pointer
  /\ UNCHANGED <<branch, remote, done, recorded, bounds>>

\* The configuration was written, but the call reports a failure.
AdvanceUnanswered(i) ==
  /\ Fault
  /\ At(i, "cas")
  /\ pointer = inst[i].config
  /\ pointer' = run[i].rev
  /\ Reject(i)
  /\ UNCHANGED <<branch, remote, done, recorded, owner, calls>>

\* git push <rev>:refs/heads/<branch>: a remote that is ahead refuses.
Push(i) ==
  /\ At(i, "push")
  /\ IF run[i].rev >= remote
     THEN remote' = run[i].rev /\ Goto(i, "verify") /\ UNCHANGED inst
     ELSE Reject(i) /\ UNCHANGED remote
  /\ UNCHANGED <<branch, pointer, done, recorded, bounds>>

\* The fields after a verified push, by the operation that wanted it.
Pushed(i) ==
  LET f == [inst[i] EXCEPT !.synchronized = run[i].rev, !.critical = TRUE] IN
  CASE run[i].stage \in {"initCritical", "initNormal"} -> [f EXCEPT !.pendingSince = 0]
    [] run[i].stage = "push" /\ run[i].op \in {"critical", "normal"} ->
         [f EXCEPT !.pendingSince = 0, !.error = "none"]
    [] run[i].stage = "push" /\ run[i].op = "flush" ->
         [f EXCEPT !.pendingSince = 0, !.error = "none", !.scheduled = FALSE]
    [] OTHER -> f

\* rev-parse HEAD and ls-remote again: both must still be the pushed revision.
Verify(i) ==
  /\ At(i, "verify")
  /\ IF Tip = run[i].rev /\ remote = run[i].rev
     THEN IF run[i].stage = "push"
          THEN /\ inst' = [inst EXCEPT ![i] = Pushed(i)]
               /\ run' = [run EXCEPT ![i] = Idle]
               /\ done' = done \union ({run[i].write} \ {NoWrite})
          ELSE Initialized(i, Pushed(i)) /\ UNCHANGED done
     ELSE Reject(i) /\ UNCHANGED done
  /\ UNCHANGED <<branch, pointer, remote, recorded, bounds>>

\* recordNormal under bounded_batch: start the RPO clock unless already synchronized.
Enlist(i) ==
  LET since == IF inst[i].pendingSince = 0 THEN Tip ELSE inst[i].pendingSince IN
  /\ At(i, "enlist")
  /\ IF Tip = inst[i].synchronized THEN UNCHANGED inst
     ELSE inst' = [inst EXCEPT ![i] = Scheduled([inst[i] EXCEPT !.pendingSince = since])]
  /\ run' = [run EXCEPT ![i] = Idle]
  /\ recorded' = [recorded EXCEPT ![i] = @ \union {run[i].write}]
  /\ UNCHANGED <<branch, pointer, remote, done, bounds>>

-----------------------------------------------------------------------------
Progress(i) ==
  \/ ReadRevisions(i) \/ Classify(i) \/ Commit(i) \/ ReadHead(i) \/ AdvancePointer(i)
  \/ Push(i) \/ Verify(i) \/ Enlist(i) \/ StartQueuedFlush(i)

Next ==
  \/ \E i \in Insts :
       \/ Register(i)
       \/ \E op \in OpNames, w \in Writes \union {NoWrite} : Start(i, op, w)
       \/ TimerFires(i)
       \/ Progress(i)
       \/ AdvanceUnanswered(i) \/ Fail(i) \/ Crash(i)
  \/ OwnerCommit
  \/ Reconcile

Spec == Init /\ [][Next]_vars

\* The queue of a live instance runs, and its timers fire.
FairSpec == Spec /\ \A i \in Insts : WF_vars(Progress(i)) /\ WF_vars(TimerFires(i))

-----------------------------------------------------------------------------
(* Properties *)

Revisions == 0..Tip

\* Every variable keeps to the values the code can put in it.
TypeOK ==
  /\ branch \in Seq([author : Insts \union {Owner}, write : Writes \union {NoWrite}])
  /\ pointer \in Revisions /\ remote \in Revisions
  /\ inst \in [Insts -> Instance]
  /\ run \in [Insts -> [op : OpNames, write : Writes \union {NoWrite}, phase : Phases,
                        stage : Stages, rev : Revisions]]
  /\ done \subseteq Writes
  /\ recorded \in [Insts -> SUBSET Writes]
  /\ owner \in Nat /\ calls \in Nat /\ faults \in Nat

\* Nothing leaves the machine before the configuration can recover it, and nothing
\* the configuration names is missing from the checkout (MEMORY-LIFECYCLE: commit,
\* then pointer, then push).
PointerBeforePush == remote <= pointer /\ pointer <= Tip

\* A call that reports synchronization has its content on the remote, whichever
\* instance committed it, pushed it or crashed meanwhile.
ReportedIsRemote == \A w \in done : Contains(remote, w)

\* criticalSynchronized and synchronizedRevision never claim more than the remote has:
\* no critical commit of an instance is outstanding while its flag is up.
DiagnosticsAreTruthful ==
  \A i \in Insts :
    /\ inst[i].synchronized <= remote
    /\ inst[i].critical =>
         \A k \in (remote + 1)..Tip : ~(branch[k].author = i /\ KindOf(k) = "critical")

\* An accepted normal write that has not reached the remote runs on a clock, and the
\* clock has a timer or a visible error ("remains visible and requires a successful
\* retry") once the flush under way is over.
RecordedIsClocked ==
  \A i \in Insts :
    /\ At(i, "idle") /\ (\E w \in recorded[i] : ~Contains(remote, w)) => inst[i].pendingSince # 0
    /\ At(i, "idle") /\ inst[i].pendingSince # 0 =>
         inst[i].timers > 0 \/ inst[i].flushQueued \/ inst[i].error # "none"

\* The bounded RPO: an accepted normal write reaches the remote, or its instance shows
\* an error, or the process ended.
NormalReachesRemote ==
  \A i \in Insts, w \in Writes :
    w \in recorded[i] ~>
      (Contains(remote, w) \/ inst[i].error # "none" \/ w \notin recorded[i])

\* "Diagnostics expose the ... pending-normal timestamp and age": a normal commit of
\* an initialized instance that is not on the remote shows as pending or as an error.
PendingNormalIsVisible ==
  \A i \in Insts :
    inst[i].initialized /\ At(i, "idle") =>
      \A k \in (remote + 1)..Tip :
        branch[k].author = i /\ KindOf(k) = "normal" =>
          inst[i].pendingSince # 0 \/ inst[i].error # "none"
=============================================================================
