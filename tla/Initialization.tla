---------------------------- MODULE Initialization ----------------------------
(***************************************************************************)
(* Durable installation of the reviewed bootstrap into the Host            *)
(* (openclaw/initialization.ts, initialization-registration.ts,            *)
(* host-admission-isolation.ts) and the admission of runs against it       *)
(* (run-admission.ts).  A call of initialize, rollback or revoke may fail  *)
(* or die between any two durable effects, and several processes may call; *)
(* the owner may edit managed files, and the recovery pointer may move to  *)
(* another source revision.                                                *)
(*                                                                         *)
(* A revision stands for its recipe: Recipe[v][t] is the text it installs  *)
(* in target t (Missing if it manages no such file) and Identity[v] the    *)
(* displayed identity.  A text stands for the bytes and the mode.          *)
(***************************************************************************)
EXTENDS Naturals, FiniteSets

CONSTANTS
  Procs,      \* concurrent calls
  Runs,       \* agent runs
  Revisions,  \* source revisions the recovery pointer may name
  Targets,    \* managed files
  Texts,      \* texts of managed files
  Missing,    \* an absent file
  Names,      \* displayed identities
  Recipe, Identity,
  InitFiles, InitName, InitRevision,
  Edits,      \* <<t, c>>: edits the owner may make
  None, Free, Stale,
  MaxOps,     \* bound on plans
  MaxCalls,   \* bound on calls of initialize, rollback and revokeActiveRuns
  MaxFaults,  \* bound on crashes, failures, edits and moves of the pointer
  MaxEvents   \* bound on calls and faults together

ASSUME InitializationAssumption ==
  /\ Missing \in Texts
  /\ Recipe \in [Revisions -> [Targets -> Texts]]
  /\ Identity \in [Revisions -> Names]
  /\ InitFiles \in [Targets -> Texts] /\ InitName \in Names /\ InitRevision \in Revisions
  /\ Edits \subseteq Targets \X Texts
  /\ MaxOps \in Nat \ {0} /\ MaxCalls \in Nat /\ MaxFaults \in Nat /\ MaxEvents \in Nat

Receipts == [op : 1..MaxOps, rev : Revisions]
Plans == [op : 1..MaxOps, rev : Revisions, before : [Targets -> Texts], name : Names,
          prev : Receipts \union {None}]
Bindings == [op : 1..MaxOps, epoch : Nat]
Looks == [target : Targets, text : Texts]
Policies == {"open", "denied"}

ASSUME SentinelAssumption ==
  /\ None \notin Receipts \union Plans \union Bindings \union Looks \union Policies \union Runs
  /\ Free \notin Procs /\ Stale \notin Procs /\ Free # Stale

VARIABLES
  files,      \* managed files in the workspace
  name,       \* the agent's identity in the Host configuration
  source,     \* the revision the recovery pointer names
  fenced,     \* the file "fenced"
  pending,    \* pending.json
  undoing,    \* rollback-pending.json
  receipt,    \* receipt.json
  archive,    \* operations/<id>.json
  journal,    \* host-isolation.json: the tool policy it would restore
  tools,      \* the Host profile's tool policy: its own ("open") or deny all ("denied")
  epoch,      \* admission-epoch.json
  binding,    \* binding[r]: runs/<id>.json
  lock,       \* initialization.lock
  call,       \* call[p]: the call p executes
  check,      \* check[r]: the admission check run r is in
  touched,    \* history: the plan, and what was done with it, that last set about the workspace
  edited,     \* history: targets the owner has changed since they were last installed
  overwritten, \* history: some write of the epoch was computed before the one it replaced
  ops, calls, faults

gates  == <<fenced, pending, undoing>>
host   == <<journal, tools>>
past   == <<touched, edited, overwritten>>
counts == <<ops, calls, faults>>
vars   == <<files, name, source, gates, receipt, archive, host, epoch, binding, lock, call,
            check, past, counts>>

Phases ==
  {"idle", "planned", "locked", "fence", "readEpoch", "bump", "retain", "drain",
   "isolate", "note", "deny", "isolated", "giveUp", "givenUp",
   "archive", "pend", "write", "rename", "verify", "receipt", "release", "released",
   "unfence", "unpend", "mark", "restore", "unname", "unreceipt", "unpendUndone", "unmark",
   "unlock", "ready", "abort", "quick"}

\* What a call, or the part of it being executed, is for.
Jobs == {"install", "rollback", "quick", "ready", "start", "revoke"}

IdleCall ==
  [pc |-> "idle", job |-> "install", plan |-> None, resumed |-> FALSE, todo |-> {},
   look |-> None, epoch |-> 0, tools |-> "open", retain |-> None]

Untouched == [op |-> 0, job |-> "install"]

IdleCheck == [pc |-> "idle", want |-> "bind", saw |-> None, epoch |-> 0, started |-> Untouched]

Managed(rev) == {t \in Targets : Recipe[rev][t] # Missing}

\* The targets a plan changes: its recipe's, and those only the previous one installed.
Changes(pl) == Managed(pl.rev) \union (IF pl.prev = None THEN {} ELSE Managed(pl.prev.rev))

After(pl, t) == Recipe[pl.rev][t]

Closed == fenced \/ pending # None \/ undoing # None

Intact(rc) ==
  /\ \A t \in Managed(rc.rev) : files[t] = Recipe[rc.rev][t]
  /\ name = Identity[rc.rev]

\* Receipts bind the recipe, not the revision it was read from.
IsFor(rc, rev) == rc # None /\ Recipe[rc.rev] = Recipe[rev] /\ Identity[rc.rev] = Identity[rev]

\* assertCurrent, after the gates.
Current == IsFor(receipt, source) /\ Intact(receipt)

\* A workspace never initialized.
Fresh ==
  /\ files = InitFiles /\ name = InitName
  /\ receipt = None /\ archive = {} /\ epoch = 0
  /\ touched = Untouched /\ ops = 0

\* One initialized before: its first plan was archived and has completed.
Installed ==
  LET pl == [op |-> 1, rev |-> InitRevision, name |-> InitName, prev |-> None,
             before |-> [t \in Targets |-> IF t \in Managed(InitRevision) THEN InitFiles[t] ELSE Missing]]
  IN
  /\ files = [t \in Targets |-> IF t \in Managed(InitRevision) THEN After(pl, t) ELSE InitFiles[t]]
  /\ name = Identity[InitRevision]
  /\ receipt = [op |-> 1, rev |-> InitRevision] /\ archive = {pl} /\ epoch = 1
  /\ touched = [op |-> 1, job |-> "install"] /\ ops = 1

Init ==
  /\ Fresh \/ Installed
  /\ source = InitRevision
  /\ fenced = FALSE /\ pending = None /\ undoing = None
  /\ journal = None /\ tools = "open"
  /\ binding = [r \in Runs |-> None]
  /\ lock = Free
  /\ call = [p \in Procs |-> IdleCall]
  /\ check = [r \in Runs |-> IdleCheck]
  /\ edited = {} /\ overwritten = FALSE /\ calls = 0 /\ faults = 0

At(p, phase) == call[p].pc = phase

Goto(p, phase) == call' = [call EXCEPT ![p].pc = phase]

Step(p, from, to) == At(p, from) /\ Goto(p, to)

CountCall == calls < MaxCalls /\ calls + faults < MaxEvents /\ calls' = calls + 1

CountFault == faults < MaxFaults /\ calls + faults < MaxEvents /\ faults' = faults + 1

-----------------------------------------------------------------------------
(* initialize: resume what is pending, confirm what is installed, or plan *)

\* plan(): the previous projection must be intact.
NewPlan ==
  [op |-> ops + 1, rev |-> source, name |-> name, prev |-> receipt,
   before |-> [t \in Targets |->
     IF t \in Managed(source) \/ (receipt # None /\ t \in Managed(receipt.rev))
     THEN files[t] ELSE Missing]]

Drifted == receipt # None /\ \E t \in Managed(receipt.rev) : files[t] # Recipe[receipt.rev][t]

BeginInitialize(p) ==
  /\ CountCall
  /\ At(p, "idle")
  /\ LET go(phase, j, pl) == call' = [call EXCEPT ![p] = [IdleCall EXCEPT !.pc = phase, !.job = j, !.plan = pl]]
     IN
     CASE undoing # None -> go("abort", "install", None) /\ UNCHANGED ops
       [] undoing = None /\ pending # None -> go("planned", "install", pending) /\ UNCHANGED ops
       [] ~Closed /\ IsFor(receipt, source) ->
            /\ go(IF Intact(receipt) THEN "quick" ELSE "abort", "quick", None)
            /\ UNCHANGED ops
       [] OTHER ->
            IF Drifted THEN go("abort", "install", None) /\ UNCHANGED ops
            ELSE /\ ops < MaxOps /\ ops' = ops + 1
                 /\ go("planned", "install", NewPlan)
  /\ UNCHANGED <<files, name, source, gates, receipt, archive, host, epoch, binding, lock,
                 check, past, faults>>

BeginRollback(p, pl) ==
  /\ CountCall
  /\ At(p, "idle")
  /\ call' = [call EXCEPT ![p] = [IdleCall EXCEPT !.pc = "planned", !.job = "rollback", !.plan = pl]]
  /\ UNCHANGED <<files, name, source, gates, receipt, archive, host, epoch, binding, lock,
                 check, past, ops, faults>>

\* acquire: a lock is reclaimed only from a process known to be dead.
Acquire(p) ==
  /\ At(p, "planned")
  /\ IF lock \in {Free, Stale} THEN lock' = p /\ Goto(p, "locked")
     ELSE Goto(p, "abort") /\ UNCHANGED lock
  /\ UNCHANGED <<files, name, source, gates, receipt, archive, host, epoch, binding, check,
                 past, counts>>

-----------------------------------------------------------------------------
(* apply *)

\* Every check that precedes the fence.
ApplyChecks(pl) ==
  LET again == pending = pl IN
  /\ undoing = None
  /\ pl.rev = source
  /\ again \/ pending = None
  /\ name = pl.name \/ (again /\ name = Identity[pl.rev])
  /\ \A t \in Changes(pl) :
       /\ After(pl, t) = Missing =>
            (receipt # None /\ t \in Managed(receipt.rev)) \/ again
       /\ files[t] = pl.before[t] \/ (again /\ files[t] = After(pl, t))

InspectApply(p) ==
  /\ At(p, "locked") /\ call[p].job = "install"
  /\ call' = [call EXCEPT ![p].pc = IF ApplyChecks(call[p].plan) THEN "fence" ELSE "abort",
                          ![p].resumed = pending = call[p].plan]
  /\ UNCHANGED <<files, name, source, gates, receipt, archive, host, epoch, binding, lock,
                 check, past, counts>>

\* operations/<id>.json keeps the original texts.
Archive(p) ==
  /\ Step(p, "archive", "pend")
  /\ archive' = archive \union {call[p].plan}
  /\ UNCHANGED <<files, name, source, gates, receipt, host, epoch, binding, lock, check, past,
                 counts>>

Pend(p) ==
  /\ At(p, "pend")
  /\ pending' = call[p].plan
  /\ touched' = [op |-> call[p].plan.op, job |-> "install"]
  /\ call' = [call EXCEPT ![p] =
       [@ EXCEPT !.pc = "write", !.todo = Changes(call[p].plan), !.look = None]]
  /\ UNCHANGED <<files, name, source, fenced, undoing, receipt, archive, host, epoch, binding,
                 lock, check, edited, overwritten, counts>>

\* A target found in place needs nothing more.
InPlace(p, t) ==
  /\ edited' = edited \ {t}
  /\ call' = [call EXCEPT ![p].todo = @ \ {t}]

\* A target to replace: what was read is compared now, and replaced several awaits later.
ToReplace(p, t) ==
  /\ call' = [call EXCEPT ![p].look = [target |-> t, text |-> files[t]]]
  /\ UNCHANGED edited

\* Faulty variant of InspectTarget: the text to replace is not compared again.
InspectTargetBlindly(p, t) ==
  /\ At(p, "write") /\ t \in call[p].todo /\ call[p].look = None
  /\ ToReplace(p, t)
  /\ UNCHANGED <<files, name, source, gates, receipt, archive, host, epoch, binding, lock, check,
                 touched, overwritten, counts>>

\* One managed file: already there, to be replaced from the planned text, or a conflict.
InspectTarget(p, t) ==
  LET pl == call[p].plan IN
  /\ At(p, "write") /\ t \in call[p].todo /\ call[p].look = None
  /\ CASE files[t] = After(pl, t) -> InPlace(p, t)
       [] files[t] # After(pl, t) /\ files[t] = pl.before[t] -> ToReplace(p, t)
       [] OTHER -> Goto(p, "abort") /\ UNCHANGED edited
  /\ UNCHANGED <<files, name, source, gates, receipt, archive, host, epoch, binding, lock, check,
                 touched, overwritten, counts>>

\* The file is renamed over, or unlinked, whatever is there by then; a file that is gone already
\* cannot be unlinked.
ReplaceTarget(p) ==
  LET t    == call[p].look.target
      text == IF At(p, "write") THEN After(call[p].plan, t) ELSE call[p].plan.before[t]
  IN
  /\ call[p].pc \in {"write", "restore"} /\ call[p].look # None
  /\ IF text = Missing /\ files[t] = Missing
     THEN Goto(p, "abort") /\ UNCHANGED <<files, edited>>
     ELSE /\ files' = [files EXCEPT ![t] = text]
          /\ edited' = edited \ {t}
          /\ call' = [call EXCEPT ![p].todo = @ \ {t}, ![p].look = None]
  /\ UNCHANGED <<name, source, gates, receipt, archive, host, epoch, binding, lock, check,
                 touched, overwritten, counts>>

\* The recipe and every target are read again.
CheckWritten(p) ==
  LET pl == call[p].plan IN
  /\ At(p, "write") /\ call[p].todo = {}
  /\ Goto(p, IF pl.rev = source /\ \A t \in Changes(pl) : files[t] = After(pl, t)
             THEN "rename" ELSE "abort")
  /\ UNCHANGED <<files, name, source, gates, receipt, archive, host, epoch, binding, lock,
                 check, past, counts>>

\* applyIdentity: compare and set in the Host configuration.
Rename(p, from, to, again, next) ==
  /\ IF name = from \/ (again /\ name = to)
     THEN name' = to /\ Goto(p, next)
     ELSE Goto(p, "abort") /\ UNCHANGED name
  /\ UNCHANGED <<files, source, gates, receipt, archive, host, epoch, binding, lock, check,
                 past, counts>>

ApplyIdentity(p) ==
  /\ At(p, "rename")
  /\ Rename(p, call[p].plan.name, Identity[call[p].plan.rev], call[p].resumed, "verify")

\* ports.verify succeeds; the identity is read once more.
Verify(p) ==
  /\ At(p, "verify")
  /\ Goto(p, IF name = Identity[call[p].plan.rev] THEN "receipt" ELSE "abort")
  /\ UNCHANGED <<files, name, source, gates, receipt, archive, host, epoch, binding, lock,
                 check, past, counts>>

\* Faulty variant of WriteReceipt: it is created exclusively, like a run's binding.
WriteReceiptOnce(p) ==
  /\ Step(p, "receipt", "release")
  /\ receipt' = IF receipt = None THEN [op |-> call[p].plan.op, rev |-> call[p].plan.rev] ELSE receipt
  /\ UNCHANGED <<files, name, source, gates, archive, host, epoch, binding, lock, check, past,
                 counts>>

WriteReceipt(p) ==
  /\ Step(p, "receipt", "release")
  /\ receipt' = [op |-> call[p].plan.op, rev |-> call[p].plan.rev]
  /\ UNCHANGED <<files, name, source, gates, archive, host, epoch, binding, lock, check, past,
                 counts>>

Unfence(p) ==
  /\ Step(p, "unfence", "unpend")
  /\ fenced' = FALSE
  /\ UNCHANGED <<files, name, source, pending, undoing, receipt, archive, host, epoch, binding,
                 lock, check, past, counts>>

Unpend(p) ==
  /\ Step(p, "unpend", "unlock")
  /\ pending' = None
  /\ UNCHANGED <<files, name, source, fenced, undoing, receipt, archive, host, epoch, binding,
                 lock, check, past, counts>>

-----------------------------------------------------------------------------
(* rollback *)

RollbackChecks(pl) ==
  LET again == undoing = pl IN
  /\ again \/ undoing = None
  /\ again \/ pending = pl \/ (pending = None /\ receipt # None /\ receipt.op = pl.op)
  /\ name = Identity[pl.rev] \/ (again /\ name = pl.name)
  /\ \A t \in Changes(pl) : files[t] \in {After(pl, t), pl.before[t]}

InspectRollback(p) ==
  /\ At(p, "locked") /\ call[p].job = "rollback"
  /\ call' = [call EXCEPT ![p].pc = IF RollbackChecks(call[p].plan) THEN "fence" ELSE "abort",
                          ![p].resumed = undoing = call[p].plan]
  /\ UNCHANGED <<files, name, source, gates, receipt, archive, host, epoch, binding, lock,
                 check, past, counts>>

MarkRollback(p) ==
  /\ At(p, "mark")
  /\ undoing' = call[p].plan
  /\ touched' = [op |-> call[p].plan.op, job |-> "rollback"]
  /\ call' = [call EXCEPT ![p] =
       [@ EXCEPT !.pc = "restore", !.todo = Changes(call[p].plan), !.look = None]]
  /\ UNCHANGED <<files, name, source, fenced, pending, receipt, archive, host, epoch, binding,
                 lock, check, edited, overwritten, counts>>

\* A file is written back whether or not it is there already; only a missing one is let be.
InspectRestored(p, t) ==
  LET pl == call[p].plan IN
  /\ At(p, "restore") /\ t \in call[p].todo /\ call[p].look = None
  /\ CASE files[t] = Missing /\ pl.before[t] = Missing -> InPlace(p, t)
       [] files[t] \in {pl.before[t], After(pl, t)} /\ ~(files[t] = Missing /\ pl.before[t] = Missing) ->
            ToReplace(p, t)
       [] OTHER -> Goto(p, "abort") /\ UNCHANGED edited
  /\ UNCHANGED <<files, name, source, gates, receipt, archive, host, epoch, binding, lock, check,
                 touched, overwritten, counts>>

CheckRestored(p) ==
  /\ At(p, "restore") /\ call[p].todo = {}
  /\ Goto(p, IF \A t \in Changes(call[p].plan) : files[t] = call[p].plan.before[t]
             THEN "unname" ELSE "abort")
  /\ UNCHANGED <<files, name, source, gates, receipt, archive, host, epoch, binding, lock,
                 check, past, counts>>

RestoreIdentity(p) ==
  /\ At(p, "unname")
  /\ Rename(p, Identity[call[p].plan.rev], call[p].plan.name, call[p].resumed, "unreceipt")

RestoreReceipt(p) ==
  /\ Step(p, "unreceipt", "unpendUndone")
  /\ receipt' = call[p].plan.prev
  /\ UNCHANGED <<files, name, source, gates, archive, host, epoch, binding, lock, check, past,
                 counts>>

UnpendUndone(p) ==
  /\ Step(p, "unpendUndone", "unmark")
  /\ pending' = None
  /\ UNCHANGED <<files, name, source, fenced, undoing, receipt, archive, host, epoch, binding,
                 lock, check, past, counts>>

\* Faulty variant of Unmark: the rollback opens the gate like an installation.
UnmarkAndUnfence(p) ==
  /\ Step(p, "unmark", "unlock")
  /\ undoing' = None /\ fenced' = FALSE
  /\ UNCHANGED <<files, name, source, pending, receipt, archive, host, epoch, binding, lock,
                 check, past, counts>>

\* Admission stays fenced.
Unmark(p) ==
  /\ Step(p, "unmark", "unlock")
  /\ undoing' = None
  /\ UNCHANGED <<files, name, source, fenced, pending, receipt, archive, host, epoch, binding,
                 lock, check, past, counts>>

-----------------------------------------------------------------------------
(* fence: close the gate, retire the runs, isolate the Host profile.  The same
   isolation follows a failed start, and revokeActiveRuns takes the same epoch step. *)

RaiseFence(p) ==
  /\ Step(p, "fence", "readEpoch")
  /\ fenced' = TRUE
  /\ UNCHANGED <<files, name, source, pending, undoing, receipt, archive, host, epoch, binding,
                 lock, check, past, counts>>

\* bumpAdmissionEpoch: a read and a later write, under no lock of its own.
ReadEpoch(p) ==
  /\ At(p, "readEpoch")
  /\ call' = [call EXCEPT ![p].pc = "bump", ![p].epoch = epoch]
  /\ UNCHANGED <<files, name, source, gates, receipt, archive, host, epoch, binding, lock,
                 check, past, counts>>

Bump(p) ==
  LET c == call[p] IN
  /\ At(p, "bump")
  /\ epoch' = c.epoch + 1
  /\ overwritten' = (overwritten \/ c.epoch # epoch)
  /\ CASE c.job \in {"install", "rollback", "quick"} -> Goto(p, "drain")
       [] c.job = "revoke" /\ c.retain # None         -> Goto(p, "retain")
       [] OTHER -> call' = [call EXCEPT ![p] = IdleCall]
  /\ UNCHANGED <<files, name, source, gates, receipt, archive, host, binding, lock, check,
                 touched, edited, counts>>

\* A turn in progress refuses the drain; the durable fence stays.
Drain(p) ==
  /\ At(p, "drain")
  /\ Goto(p, IF \E q \in Procs : call[q].job = "revoke" /\ call[q].retain # None
             THEN "abort" ELSE "isolate")
  /\ UNCHANGED <<files, name, source, gates, receipt, archive, host, epoch, binding, lock,
                 check, past, counts>>

\* What a failed isolation leads to: fenceTarget takes it back, a failed start is logged.
IsolationFails(p) ==
  call' = [call EXCEPT ![p] = IF @.job = "start" THEN IdleCall ELSE [@ EXCEPT !.pc = "giveUp"]]

\* isolateHostProfile reads its journal and the profile.
Isolate(p) ==
  /\ At(p, "isolate")
  /\ IF journal = None THEN call' = [call EXCEPT ![p].pc = "note", ![p].tools = tools]
     ELSE IF tools = "denied" THEN Goto(p, "isolated") ELSE IsolationFails(p)
  /\ UNCHANGED <<files, name, source, gates, receipt, archive, host, epoch, binding, lock,
                 check, past, counts>>

NoteProfile(p) ==
  /\ Step(p, "note", "deny")
  /\ journal' = call[p].tools
  /\ UNCHANGED <<files, name, source, gates, receipt, archive, tools, epoch, binding, lock,
                 check, past, counts>>

DenyTools(p) ==
  /\ Step(p, "deny", "isolated")
  /\ tools' = "denied"
  /\ UNCHANGED <<files, name, source, gates, receipt, archive, journal, epoch, binding, lock,
                 check, past, counts>>

AfterIsolation(j) ==
  CASE j = "install" -> "archive" [] j = "rollback" -> "mark"
    [] j = "start" -> "readEpoch" [] OTHER -> "abort"

\* assertHostProfileIsolated, waitForIsolation.
Isolated(p) ==
  /\ At(p, "isolated")
  /\ IF tools = "denied" THEN Goto(p, AfterIsolation(call[p].job)) ELSE IsolationFails(p)
  /\ UNCHANGED <<files, name, source, gates, receipt, archive, host, epoch, binding, lock,
                 check, past, counts>>

\* releaseHostProfileIsolation restores the recorded profile, then drops the journal.
RestoreProfile(p) ==
  /\ call[p].pc \in {"release", "giveUp"}
  /\ IF journal = None THEN Goto(p, "abort") /\ UNCHANGED tools
     ELSE /\ tools' = journal
          /\ call' = [call EXCEPT ![p].pc = IF @ = "release" THEN "released" ELSE "givenUp",
                                  ![p].tools = journal]
  /\ UNCHANGED <<files, name, source, gates, receipt, archive, journal, epoch, binding, lock,
                 check, past, counts>>

AfterRelease(p) ==
  IF call[p].pc = "givenUp" THEN "abort"
  ELSE IF call[p].job = "install" THEN "unfence"
  ELSE IF ~Closed /\ Current THEN "idle" ELSE "abort"

ForgetProfile(p) ==
  /\ call[p].pc \in {"released", "givenUp"}
  /\ IF tools = "open" /\ call[p].tools = "open" /\ journal # None
     THEN journal' = None /\ Goto(p, AfterRelease(p))
     ELSE Goto(p, "abort") /\ UNCHANGED journal
  /\ UNCHANGED <<files, name, source, gates, receipt, archive, tools, epoch, binding, lock,
                 check, past, counts>>

-----------------------------------------------------------------------------
(* How a call ends *)

\* ports.verify confirms what is installed.
QuickVerified(p) ==
  /\ Step(p, "quick", "ready")
  /\ UNCHANGED <<files, name, source, gates, receipt, archive, host, epoch, binding, lock,
                 check, past, counts>>

\* A valid receipt ends the isolation a failed start left behind.
Ready(p) ==
  /\ At(p, "ready")
  /\ call' = [call EXCEPT ![p] =
       IF journal = None THEN IdleCall ELSE [@ EXCEPT !.pc = "release", !.job = "ready"]]
  /\ UNCHANGED <<files, name, source, gates, receipt, archive, host, epoch, binding, lock,
                 check, past, counts>>

Unlock(p) ==
  /\ At(p, "unlock")
  /\ lock' = Free
  /\ call' = [call EXCEPT ![p] =
       IF @.job = "install" THEN [IdleCall EXCEPT !.pc = "ready"] ELSE IdleCall]
  /\ UNCHANGED <<files, name, source, gates, receipt, archive, host, epoch, binding, check,
                 past, counts>>

\* The call is rejected.  A registration that was not ready isolates the Host profile.
Abort(p) ==
  /\ At(p, "abort")
  /\ lock' = IF lock = p THEN Free ELSE lock
  /\ \/ call' = [call EXCEPT ![p] = IdleCall]
     \/ /\ call[p].job # "rollback"
        /\ call' = [call EXCEPT ![p] = [IdleCall EXCEPT !.pc = "isolate", !.job = "start"]]
  /\ UNCHANGED <<files, name, source, gates, receipt, archive, host, epoch, binding, check,
                 past, counts>>

\* revokeActiveRuns; a correction, made while its turn is prepared, admits the turn's run.
BeginRevoke(p, r) ==
  /\ CountCall
  /\ At(p, "idle")
  /\ r # None => /\ binding[r] = None /\ check[r].pc = "idle" /\ ~Closed
                 /\ \A q \in Procs : call[q].retain # r
  /\ call' = [call EXCEPT ![p] =
       [IdleCall EXCEPT !.pc = "readEpoch", !.job = "revoke", !.retain = r]]
  /\ UNCHANGED <<files, name, source, gates, receipt, archive, host, epoch, binding, lock,
                 check, past, ops, faults>>

Retain(p) ==
  /\ At(p, "retain")
  /\ IF Closed \/ receipt = None THEN UNCHANGED binding
     ELSE binding' = [binding EXCEPT ![call[p].retain] = [op |-> receipt.op, epoch |-> call[p].epoch + 1]]
  /\ call' = [call EXCEPT ![p] = IdleCall]
  /\ UNCHANGED <<files, name, source, gates, receipt, archive, host, epoch, lock, check, past,
                 counts>>

-----------------------------------------------------------------------------
(* Faults and the outside world *)

\* A port, an I/O operation or an abort signal fails the step under way.
Fail(p) ==
  LET c == call[p] IN
  /\ CountFault
  /\ ~At(p, "idle") /\ ~At(p, "abort") /\ ~At(p, "unlock")
  /\ CASE c.job \in {"start", "revoke"} -> call' = [call EXCEPT ![p] = IdleCall]
       [] c.pc = "quick" -> Goto(p, "fence")
       [] c.job \in {"install", "rollback", "quick"} /\ c.pc \in {"isolate", "note", "deny", "isolated"} ->
            Goto(p, "giveUp")
       [] OTHER -> Goto(p, "abort")
  /\ UNCHANGED <<files, name, source, gates, receipt, archive, host, epoch, binding, lock,
                 check, past, ops, calls>>

Crash(p) ==
  /\ CountFault
  /\ ~At(p, "idle")
  /\ call' = [call EXCEPT ![p] = IdleCall]
  /\ lock' = IF lock = p THEN Stale ELSE lock
  /\ UNCHANGED <<files, name, source, gates, receipt, archive, host, epoch, binding, check,
                 past, ops, calls>>

OwnerEdits(e) ==
  /\ CountFault
  /\ files' = [files EXCEPT ![e[1]] = e[2]]
  /\ edited' = edited \union {e[1]}
  /\ UNCHANGED <<name, source, gates, receipt, archive, host, epoch, binding, lock, call,
                 check, touched, overwritten, ops, calls>>

PointerMoves(v) ==
  /\ CountFault
  /\ v # source /\ source' = v
  /\ UNCHANGED <<files, name, gates, receipt, archive, host, epoch, binding, lock, call,
                 check, past, ops, calls>>

-----------------------------------------------------------------------------
(* Runs: before_agent_run binds, before_tool_call and reply_payload_sending check *)

\* The gate: no recorded isolation, no fence, nothing pending.
BeginCheck(r, want) ==
  /\ check[r].pc = "idle" /\ \A p \in Procs : call[p].retain # r
  /\ ~Closed /\ journal = None
  /\ check' = [check EXCEPT ![r].pc = "current", ![r].want = want]
  /\ UNCHANGED <<files, name, source, gates, receipt, archive, host, epoch, binding, lock, call,
                 past, counts>>

ReadCurrent(r) ==
  /\ check[r].pc = "current"
  /\ check' = [check EXCEPT ![r].pc = IF Current THEN "epoch" ELSE "idle",
                            ![r].saw = IF Current THEN receipt ELSE None,
                            ![r].started = touched]
  /\ UNCHANGED <<files, name, source, gates, receipt, archive, host, epoch, binding, lock, call,
                 past, counts>>

ReadRunEpoch(r) ==
  /\ check[r].pc = "epoch"
  /\ check' = [check EXCEPT ![r].pc = "compare", ![r].epoch = epoch]
  /\ UNCHANGED <<files, name, source, gates, receipt, archive, host, epoch, binding, lock, call,
                 past, counts>>

EndCheck(r) == check' = [check EXCEPT ![r] = IdleCheck]

Expected(r) == [op |-> check[r].saw.op, epoch |-> check[r].epoch]

\* Faulty variant of Bind: it replaces an earlier binding, as a retained run's is.
BindAgain(r) ==
  /\ check[r].pc = "compare" /\ check[r].want = "bind"
  /\ binding' = [binding EXCEPT ![r] = Expected(r)]
  /\ EndCheck(r)
  /\ UNCHANGED <<files, name, source, gates, receipt, archive, host, epoch, lock, call, past,
                 counts>>

\* writeRunAdmissionBinding: exclusive creation; an existing binding must be the same.
Bind(r) ==
  /\ check[r].pc = "compare" /\ check[r].want = "bind"
  /\ binding' = IF binding[r] = None THEN [binding EXCEPT ![r] = Expected(r)] ELSE binding
  /\ EndCheck(r)
  /\ UNCHANGED <<files, name, source, gates, receipt, archive, host, epoch, lock, call, past,
                 counts>>

\* Faulty variant of Accepts: the epoch alone is compared.
AcceptsEpoch(r) == binding[r] # None /\ binding[r].epoch = Expected(r).epoch

Accepts(r) == binding[r] = Expected(r)

\* assertRunAdmissionBinding
AssertRun(r) ==
  /\ check[r].pc = "compare" /\ check[r].want = "check"
  /\ IF Accepts(r) THEN check' = [check EXCEPT ![r].pc = "passed"] ELSE EndCheck(r)
  /\ UNCHANGED <<files, name, source, gates, receipt, archive, host, epoch, binding, lock, call,
                 past, counts>>

Act(r) ==
  /\ check[r].pc = "passed"
  /\ EndCheck(r)
  /\ UNCHANGED <<files, name, source, gates, receipt, archive, host, epoch, binding, lock, call,
                 past, counts>>

-----------------------------------------------------------------------------
Progress(p) ==
  \/ Acquire(p) \/ InspectApply(p) \/ Archive(p) \/ Pend(p)
  \/ (\E t \in Targets : InspectTarget(p, t) \/ InspectRestored(p, t)) \/ ReplaceTarget(p)
  \/ CheckWritten(p) \/ ApplyIdentity(p) \/ Verify(p) \/ WriteReceipt(p) \/ Unfence(p) \/ Unpend(p)
  \/ InspectRollback(p) \/ MarkRollback(p) \/ CheckRestored(p) \/ RestoreIdentity(p)
  \/ RestoreReceipt(p) \/ UnpendUndone(p) \/ Unmark(p)
  \/ RaiseFence(p) \/ ReadEpoch(p) \/ Bump(p) \/ Drain(p)
  \/ Isolate(p) \/ NoteProfile(p) \/ DenyTools(p) \/ Isolated(p)
  \/ RestoreProfile(p) \/ ForgetProfile(p)
  \/ QuickVerified(p) \/ Ready(p) \/ Unlock(p) \/ Abort(p) \/ Retain(p)

RunStep(r) ==
  \/ (\E want \in {"bind", "check"} : BeginCheck(r, want))
  \/ ReadCurrent(r) \/ ReadRunEpoch(r) \/ Bind(r) \/ AssertRun(r) \/ Act(r)

Next ==
  \/ \E p \in Procs :
       \/ BeginInitialize(p)
       \/ (\E pl \in archive : BeginRollback(p, pl))
       \/ (\E r \in Runs \union {None} : BeginRevoke(p, r))
       \/ Progress(p) \/ Fail(p) \/ Crash(p)
  \/ \E r \in Runs : RunStep(r)
  \/ \E e \in Edits : OwnerEdits(e)
  \/ \E v \in Revisions : PointerMoves(v)

Spec == Init /\ [][Next]_vars

-----------------------------------------------------------------------------
(* Properties *)

Calls ==
  [pc : Phases, job : Jobs, plan : Plans \union {None}, resumed : BOOLEAN, todo : SUBSET Targets,
   look : Looks \union {None}, epoch : Nat, tools : Policies, retain : Runs \union {None}]

Touches == [op : 0..MaxOps, job : {"install", "rollback"}]

Checks ==
  [pc : {"idle", "current", "epoch", "compare", "passed"}, want : {"bind", "check"},
   saw : Receipts \union {None}, epoch : Nat, started : Touches]

\* Every variable keeps to the values the code can put in it.
TypeOK ==
  /\ files \in [Targets -> Texts] /\ name \in Names /\ source \in Revisions
  /\ fenced \in BOOLEAN /\ pending \in Plans \union {None} /\ undoing \in Plans \union {None}
  /\ receipt \in Receipts \union {None} /\ archive \subseteq Plans
  /\ journal \in Policies \union {None} /\ tools \in Policies
  /\ epoch \in Nat /\ binding \in [Runs -> Bindings \union {None}]
  /\ lock \in Procs \union {Free, Stale}
  /\ call \in [Procs -> Calls] /\ check \in [Runs -> Checks]
  /\ touched \in Touches /\ edited \subseteq Targets /\ overwritten \in BOOLEAN
  /\ ops \in 0..MaxOps /\ calls \in 0..MaxCalls /\ faults \in 0..MaxFaults

\* When no fence is up, the workspace and the identity are exactly what the receipt says,
\* the owner's later edits excepted, whatever was interrupted, retried or rolled back.
OpenMeansInstalled ==
  ~Closed /\ receipt # None =>
    /\ \A t \in Managed(receipt.rev) \ edited : files[t] = Recipe[receipt.rev][t]
    /\ name = Identity[receipt.rev]

\* An archived plan keeps this text of the target, as what it found there or what it installs.
Keeps(t, text) == \E pl \in archive : t \in Changes(pl) /\ text \in {pl.before[t], After(pl, t)}

\* The owner changed the target after the call had compared it and before the call replaces it.
Overtaken(t) ==
  /\ t \in edited
  /\ \E p \in Procs :
       /\ call[p].pc \in {"write", "restore"} /\ call[p].look # None /\ call[p].look.target = t
       /\ call[p].look.text # files[t] /\ Keeps(t, call[p].look.text)

\* Nothing is replaced whose text no archived plan keeps, so that every original can be restored,
\* but for one thing: what the owner saved in the very moment between the comparison of a target
\* and its replacement.
OriginalsAreKept ==
  [][\A t \in Targets :
       files'[t] # files[t] /\ t \notin edited' => Keeps(t, files[t]) \/ Overtaken(t)]_vars

\* A run acts only while the last thing anyone set about in the workspace is the installation it
\* was admitted to: no later installation, no resumed one and no rollback came in between, however
\* they and its checks interleave, unless one write of the epoch was lost to a slower one.
RunsKeepTheirInstallation ==
  ~overwritten =>
    \A r \in Runs : check[r].pc = "passed" =>
      check[r].started = [op |-> binding[r].op, job |-> "install"]

\* A run that a fence or a revocation has retired is never admitted again, not by its own next
\* attempt either, unless one write of the epoch was lost to a slower one.
RevocationIsFinal ==
  [][\A r \in Runs :
       binding[r] # None /\ binding[r].epoch < epoch /\ ~overwritten' =>
         binding'[r] # None /\ binding'[r].epoch < epoch']_vars

\* The gate opens only at the end of the installation that was the last thing set about in the
\* workspace: the receipt is its own and, the owner's edits apart, what it says is in place.  No
\* rollback opens it, with whatever receipt it restored, and no call that was overtaken.
OnlyInstallationOpens ==
  [][Closed /\ ~Closed' =>
       /\ receipt # None /\ touched = [op |-> receipt.op, job |-> "install"]
       /\ Intact(receipt) \/ edited # {}]_vars

\* "External identity changes block the operation": the operator's rollback of what is
\* pending is refused only because of somebody else's change.
OnlyForeignChangesBlockRollback ==
  [][\A p \in Procs :
       At(p, "locked") /\ call[p].job = "rollback" /\ call[p].plan = pending /\ undoing = None /\
       edited = {} => call'[p].pc # "abort"]_vars
=============================================================================
