# Stella-Core: a verification development

TLA+ specifications of the parts of Stella-Core whose correctness depends on
order, failure and concurrency, the TLC configurations that check them, and
TLAPS proofs about them. Every definition is translated from the TypeScript
sources; `PROJECT.json` maps each one to the lines it stands for. Paths below
are relative to the repository's `src/`.

Stella-Core is a plugin of the OpenClaw Host. It keeps a person's long-term
memory in a Git checkout (the CangHai repository), answers turns of the Host
from it, and records what was decided. Nothing protects that repository but
files: a marker, a lock file, journals, Git commits, and a revision in the
Host's configuration.

## 1. Inventory

### Components modelled

| Component | State it keeps | Operations | Talks to |
| --- | --- | --- | --- |
| Memory transactions (`canghai/memory-transaction.ts`) | repository files, marker `.stella-memory-transaction.json`, one journal per operation id, lock file | `applyMemoryTransaction`, `readRecordedMemoryTransaction`, `withMemoryMutationLock`, `assertMemoryTransactionReadable` | its `persist` port is Git durability; callers are ingestion, synchronization, corrections, Praxis |
| Fence-respecting reads (`canghai/catalog-reader.ts`) | the catalog and its hash, bound at load | `load`, `assertCurrent`, `read`, `readPayload` | files that transactions replace |
| Git durability (`canghai/durability.ts`, `openclaw/recovery-pointer.ts`) | the branch, the remote, the recovery pointer in the Host's configuration; per instance a queue, flags and an RPO timer | `syncCritical`, `recordNormal`, `flushNormal`, `confirmSynchronized`, `diagnostics`, initialization, the timer | git, the Host's configuration |
| Initialization (`openclaw/initialization.ts`, `initialization-registration.ts`, `host-admission-isolation.ts`, `run-admission.ts`) | managed files, Host identity, fence, `pending.json`, `rollback-pending.json`, receipt, archive, isolation journal, admission epoch, one binding per run, lock | initialize, rollback, resume at start, isolation, revocation, run binding and checks | the Host's configuration and hooks, the owner's edits, the recovery pointer |
| Completion (`openclaw/completion*.ts` with the ports of `plugin.ts`) | claimed runs, repositories in use, admission journal, per turn its controller, stage and texts | `reply_dispatch`, `coordinateCompletion`, `withCompletionResourceReservation`, reload | the model, Git, the dispatcher, initialization's bindings |
| Source ingestion and release (`canghai/ingest.ts`, `ingest-progress.ts`, `archive-cleanup.ts`) | the catalog's archive rows, the checkpoint of each feed, a stage file per operation with late attachments | `ingest`, its resumption and repetition, `cleanup` | a memory transaction, Git durability, the owner's policy |
| Corrections (`learning/correction.ts`) | the catalog's cognition rows | `prepareCorrection`, `recoverCorrection`, publication | the same, and the archived statement that corrects |
| Synchronization (`canghai/synchronize.ts`, `synchronization-plan.ts`, `view-migration.ts`) | the synchronization fence with its progress, the catalog, the personal view | `synchronize` in two transactions, takeover of an interrupted one, batches, rebuilding of the view | the same, and the commits of the owner between two revisions |
| Context engine (`openclaw/host-context-engine.ts`, the gate of `host-memory-provider.ts`, what they call in `host-context-authority.ts` and `plugin.ts`) | per turn: the sealed context, a failure latch, the one operation under way, the queue of tool results | `ingest`, `assemble`, `compact`, `observeToolResult`, the wrapped stream function, `persistPendingTurn`, release | Completion, which prepares and persists; the Host, which calls in any order |
| Retrieval's kept progress (`canghai/retrieval-progress.ts`, `semantic-retrieval.ts`, the preparation in `plugin.ts`) | one checkpoint file per session, the rounds the profile allows | load, resume, persist, clear, within a turn | Git durability, whose commits move the revision a checkpoint names; the checkout gate of every turn |
| Praxis episodes (`praxis/episode-repository.ts`, the lifecycle of `episode-v2.ts`, `outcome-transaction.ts`, `outcome-recovery.ts`) | per episode `episode.json`, `prediction.json`, `.versions`; per operation an intent and an applied mark | `apply`, `read`, the outcome transaction, `recoverPendingOutcome` | the memory mutation lock and fence, a memory transaction for outcomes, Git durability |

How they meet: a turn (Completion) is bound to an installation
(Initialization), reads through `CatalogReader`, may write a correction with a
memory transaction, whose persistence is a critical write of Git durability,
which advances the recovery pointer that initialization takes its source
revision from. The model of the turn sees only what the context engine sealed, and what
it says is archived when the completion persists. The advice it gave is kept as a
Praxis episode, opened and revised under the memory lock and closed by a memory
transaction. Ingests, corrections and synchronizations write the same catalog, each
with memory transactions, while the owner edits and commits in the same checkout; a
synchronization keeps its own fence up between its two transactions, over many
calls if need be.

### What is hard

* **Crashes between effects.** Each protocol is a sequence of file writes,
  renames, git commands and configuration mutations; the process may die, or a
  port fail, between any two, and the next process has only the disk.
* **Several processes and several closures.** Lock files are reclaimed from dead
  owners; a Host reload leaves earlier `register()` closures alive, each with its
  own queue and its own idea of the recovery revision.
* **Checks that are several reads.** The fence and then the catalog and then the
  object; the receipt and then the epoch and then the binding.
* **Work nobody waits for.** A cancelled turn answers its caller while its port
  goes on; a repository must stay taken until that has drained.
* **Stale plans.** A plan is prepared from a catalog, the owner's files and a policy
  that may all change before it is published, or between its two transactions.
* **A Host that calls at will.** Tools finish in any order, a compaction may start
  between any two answers, and a failure must stop everything that follows.
* **A clock.** A normal write may stay local only up to an RPO and must show up
  in the diagnostics meanwhile.

`PROJECT.json` lists each hazard at its line with the properties that cover it.

### Correctness, per component

* Memory transactions: one writer; half-written plans recoverable by the same
  intent; all files of a plan take effect at once, at most once, after their
  persistence; pending plans are resolved; readers never see a mixture.
* Git durability: commit, then pointer, then push, whoever interleaves; what is
  reported synchronized is on the remote; what is not is visible and on a clock.
* Initialization: with no fence up the workspace is what the receipt says;
  only the installation last set about opens the gate, with its own receipt; no original
  is lost, but for what the owner saves while it is being replaced; a run never
  acts on an installation it was not bound to; the operator can always undo what
  was interrupted.
* Completion: one turn, or maintenance, per repository until it has drained; a run
  is persisted and sent at most once; what the user is told is true; every turn that
  was taken up, or refused by the coordinator, is answered.
* Ingestion, corrections, synchronization: the generations of the catalog form one
  line; a checkpoint never runs ahead of the archive; what the Host is told to forget
  can be had from the remote; no cognition stays current on what another operation
  replaced or removed, and none disappears without being pending or withdrawn;
  a view rests on current sources; while a synchronization is pending nothing else
  publishes.
* Context engine: only conversations the model and the tools really had are sent or
  archived, an engine that failed or was released agrees to nothing more, what is
  published is what was heard, and a Host that keeps to the protocol is never refused.
* Praxis episodes: operations and outcomes compare and set one record, each at most
  once and by a legal transition; wherever one stops the episode still reads, with
  the prediction it was opened with; an answer is committed; a read is of a version
  that was current.

### Components not modelled

| Component | Why |
| --- | --- |
| Managed durable records | one exclusive create followed by a durable write, a client of `MemoryTransaction` and `GitDurability` that adds no order of its own |
| Praxis episodes v1 and migration | superseded by v2; the plugin imports only v1's types, and the migration is a maintainer's script |
| Capability admission, processing authority; catalog, manifest and context validation; source policy and discovery; evidence, packets and views; routing; initialization's recipe compilation | sequential functions of their inputs, no state of their own. Where a writer depends on one (eligibility, the policy, coverage, the supersession graph, discovery of declared files) `MemoryCatalog` has what it computes |
| The pages and selections of one retrieval; native recall | reads only, each with the fence and generation checks modelled in `MemoryTransaction` |
| The archive writer's append protocol | writes without a marker; a hazard of the list names what that leaves open |
| Acceptance and evaluation (`scripts/`, `acceptance`) | offline tools of the maintainer, nothing shared with the plugin at run time |
| The rest of `plugin.ts` | registration of tools, prompts and services |

These are more than half of the repository's lines: scripts, receipts and validation.

## 2. Modules

| Module | Models | Uses |
| --- | --- | --- |
| `AtomicPublication` | what a memory transaction promises | |
| `MemoryTransaction` | `memory-transaction.ts` effect by effect, and `CatalogReader` | `AtomicPublication` (refined) |
| `MemoryTransactionProofs` | theorems | `MemoryTransaction`, `TLAPS` |
| `GitDurability` | `durability.ts`, `recovery-pointer.ts` | |
| `GitDurabilityProofs` | theorems | `GitDurability`, `TLAPS` |
| `Initialization` | installation, rollback, isolation, admission | |
| `InitializationProofs` | theorems | `Initialization`, `TLAPS` |
| `Completion` | one turn, from dispatch to delivery | |
| `CompletionProofs` | theorems | `Completion`, `TLAPS` |
| `ContextEngine` | the managed context of one turn | |
| `ContextEngineProofs` | theorems | `ContextEngine`, `TLAPS` |
| `MemoryCatalog` | what the writers compute from a catalog | |
| `MemoryCatalogProofs` | lemmas: the catalogs they make from a good one are good | `Corrections`, `TLAPS` |
| `MemoryPublication` | the repository the writers share: transactions, commits, the owner, the process | `MemoryCatalog` |
| `Ingestion` | ingest and cleanup | `MemoryPublication` |
| `Corrections` | corrections | `Ingestion` |
| `Synchronization` | synchronize | `Corrections` |
| `MemoryLifecycle` | their composition, and its properties | `Synchronization` |
| `MemoryLifecycleProofs` | theorems | `MemoryLifecycle`, `MemoryCatalogProofs` |
| `RetrievalProgress` | the kept progress of a session's search | |
| `VersionedRecord` | what the episode repository promises | |
| `EpisodeRepository` | operations, outcomes and reads of one episode | `VersionedRecord` (refined) |
| `EpisodeRepositoryProofs` | theorems | `EpisodeRepository`, `TLAPS` |
| `MC...` | the values of the constants for TLC | the module of that name; `MCMemoryCalls` adds to `MCMemoryTransaction` who runs beside whom |

Operators of a module named as a *faulty variant* are bugs that could plausibly
be in the code. Nothing in `Next` uses them: putting one in the place of the
definition it imitates must break the property `PROJECT.json` names with it.

### MemoryTransaction

One action per effect of `applyMemoryTransaction`: `Plan` or `Resume` is the
call; `AcquireLock`, `FindStale`, `Reclaim` and `LockBusy` are the steps of
`acquireMutationLock`: the exclusive creation of the lock file, the discovery that its owner
is dead, the reclaiming, and the second attempt or the refusal. Two calls may find the same
dead owner, and one of them have the lock before the other reclaims; what
`reclaimDefinitelyStaleFileLock`, a function of the Host's SDK, is assumed to do is
to remove a lock only if its owner is dead at that time. `Inspect` compares marker, journal and files, `CreateMarker`
and `FillMarker` are the two effects of `writeNew`, `WriteFile` one atomic
replacement, `CreateJournal`, `FillJournal`, `Persist`, `PublishView`, `Unlink`
the rest in the code's order, `Undo` the catch block, `Confirm` the shortcut for a
plan that is already journalled, `ReleaseLock` the `finally`. `StartDirect` to
`FinishDirect` are `withMemoryMutationLock`. `FailGuarded` and `FailPlain` are a
port or a file operation that throws inside or before the guarded part; `Crash`
leaves the lock to be reclaimed. A reader loads the catalog and then, for each
read, checks fence, generation, object, fence and generation.

Simplifications. Contents are values, hashes are equality. Temporary files of an
atomic replacement are left out: nothing reads them. Files of a plan are replaced
in any order, a superset of the code's. `Published` is what a reader is entitled
to see: before the fence is lowered, what the plan found. `window` is a history
variable for the readers.

### GitDurability

One action is one git command, or one mutation of the configuration. A revision
is its position in the branch, since nobody rewrites history; wall-clock time is
the length of the branch, which is all a commit timestamp is compared with.
`Classify` is the reading of the log at initialization, with `overdue` chosen
freely. `Rejected` is what each `catch` leaves in the fields. `Register` may
happen for several instances one after another: after a reload they live side by
side. `Reconcile` is the operator's review after the initialization refused
commits of unknown origin. `recorded` and `done` are history.

### Initialization

One action per durable effect of `apply` and `rollback` and of the registration
code around them (fence, epoch, drain, Host profile isolation). Checks that the
code makes without an await in between, or under the lock and without an effect,
are one guard (`ApplyChecks`, `RollbackChecks`). A target is read and compared in one action
(`InspectTarget`, `InspectRestored`) and replaced in another (`ReplaceTarget`), with the text
that was read in `look`: in between the code resolves the path, writes and flushes a temporary
file and only then renames it (`write`, lines 95-103), so the owner may save, and a
process stop, anywhere between the two. What the owner saves there is lost (section 4). A
run's check is four steps
(`BeginCheck`, `ReadCurrent`, `ReadRunEpoch`, `Bind`/`AssertRun`) and `Act` what it then
does. `touched`, `edited` and `overwritten` are history: the first is the plan that was last
set about and whether it was installed or undone (set by `Pend` and `MarkRollback`, so that it
does not depend on what the owner's edits make of the files), the last is set once a write of
the admission epoch was computed before the one it replaces, which is the one way
found to revive a retired run (section 4); `RunsKeepTheirInstallation` and
`RevocationIsFinal` are about behaviours without it. A correction revokes every other
run and then admits its own (`BeginRevoke` with a run, `Retain`); a turn makes one at a time
(`plugin.ts:928`).

### Completion

The callback (`Dispatch`, `Enter`, `Cancel`, `Answer`, `Close`) and the work it
races with (`Admit` to `Drain`) are separate, because cancelling ends only the
first. A turn may end before it gets there: `/new` and `/reset` ask first whether the Host
may reset (`DispatchReset`, `ResetGate`), which reads the commitments and Git; a turn
without a capability, an input or a repository is refused (`Refuse`), and its text is carried
by the Host's terminal or, if the Host did not give the turn over, by the dispatcher, for
which the callback waits (`DispatcherIdle`). None of these waits has a timer. All turns are of one repository: turns of different ones share nothing
but the set of claimed runs. `correcting` marks a preparation that is inside a
correction's transaction. `Reload` loses `claimed` but not `active`, which the
code keeps on `globalThis`; `Crash` loses both and keeps the journal. `persisted`
and `sent` are history.

### ContextEngine

`op` is the operation that holds `#busy`; the tool results that wait for it are
`queue`. A step is what runs between two awaits: an operation enters
(`Enters`, with the checks before its first await), asks the authority to seal,
extend or accept, and returns. `Return` is a step of its own because a failure
latched by another call is noticed only there. Every call that arrives at the wrong
time latches a failure, so a refused call of the Host changes the state too. The
gate of the provider runs outside `#busy` and enters it for the output only. It is passed three
times in a call: before the transport, before the payload and before the answer counts. Each
time the engine is asked first (`EnterGate`, `LeaveGate`), and then the plugin awaits the
authority, the views, the evidence and the source revision without asking it again
(`OpenTransport`, `SendPayload`, `ObserveOutput`), so a failure or a release in those awaits does
not stop what the engine has agreed to: `OverIsOver` says that it agrees to nothing more.
`orderly` is history: whether the Host has, so far, kept to the protocol (one
operation at a time, a compaction only between answers, a release at the end) and no
source moved and no port failed.

Simplifications. A message is who said it; a conversation is a sequence of messages.
The plugin always sets `retainForCompletion`, so the engine's own disposal is not
reached. Native recall, the wrapping of queued host controls, replayed transports and
the budget and tool surface checks are left out: they refuse, and a refusal is already
there.

### MemoryPublication and what is built on it

`MemoryPublication` has the repository once, for every writer: `tree` the working
tree, `log` its commits, `remote` how many of them were pushed, `marker`, `journal`, and one
record per call. A plan names up to three slots (catalog, fence, checkpoint), with
their text before and after; `NoPlan` and `NoFence` stand for a marker and a fence that are
not there. `Start` is the caller's preparation, then `Raise`,
`Write`, `Persist`, `Lower` are the stages of `applyMemoryTransaction`, `Reconfirm` the
plan that is already journalled, `Refuse` and `Reject` a check of the caller's
that fails before and after the marker is up, `Answer` what the caller does with the
result. Slots are written in one step: `MemoryTransaction` shows, by its refinement of
`AtomicPublication`, that nobody who respects the fence can tell. `OwnerEdit`,
`OwnerCommit`, `Crash`, `Initialize` (durability pushes what is pending) and `Fail` are the
surroundings.

`MemoryCatalog` computes. A row is an exact reference `[id, version]` with a status, what it rests
on, and the owner's file it was read from; a version is what the hash of the object
covers. `Eligible` (what the loop over `eligible` reaches) and the dependents of changed rows are
fixed points: the greatest set that rests on itself, the least set that is closed. `ArchiveRows`, the change of source and policy between two commits
(`Moves`, `Discovered`, `Mark`), what it affects, and the fate of a view are operators.

`Ingestion` has one feed with pages; `PlanIngest` refuses a page that does not follow
the checkpoint, `DeclareStage` and `TearStage` are the stage file of late attachments, and
`Release` is cleanup, which reads the remote. `Corrections` lets the model
propose any set of cognition to replace and refuses a set that leaves out what
rests on a replaced one. Each new record may cite anything the model was shown (`Proposals`);
the replacements are made in an order their old records allow (`Ordered`), and a citation of an
object whose turn has not come stays one of its old version (`Rebind`), which is superseded a
moment later: an object may so rest on what its own correction replaced after it, and
`CognitionRestsOnCurrent` says that this is the only way. `Synchronization` plans a block (`PlanBlock`, or a takeover of
an interrupted one), asks the model (`Judge`, which may replace or withdraw each
target), and plans the final publication (`PlanFinal`), whose `phase` becomes
`partial` when targets are left. While the marker is another stage's, a stage reads its own
journal (`OwnRecord`); ingests and corrections have no such fallback (`Recorded`).

Simplifications. A correction brings no objects but the replaced rows, and the refusal of a
proposal whose change record would not be eligible is left out, which lets the model publish
more. Admissions to rebuild a view are taken as supplied to corrections and synchronizations,
for the current versions of the sources the view had, and never to ingests. Segments, derived evidence, receipts
and the reasoning's text are left out. One process runs the writers; two are in
`MemoryTransaction`.

### RetrievalProgress

The turns of one session, one after the other: `Ask`, `Load` (the clean checkout at the
configured revision), `BindFresh` or `BindStored` (the checks of a stored checkpoint), one
`Review` per round, and either `WriteCheckpoint` and `Blocked` or `ClearCheckpoint` and
`Answer`. `file` and `committed` are the checkpoint in the checkout and in HEAD; a revision
is only "still HEAD or not". `RaiseRounds` and `Reconcile` are the owner's.

### EpisodeRepository

`Apply` is `withMemoryMutationLock`, `Check` everything `#apply` verifies before it
writes, then one action per file it writes (`Intend`, `Archive`, `Seal`, `Replace`,
`Mark`), `Persist` and `Answer`. `Seal` stops, like `#immutable`, when
`prediction.json` has another content. The outcome is a plan of `applyMemoryTransaction`;
of its effects the model keeps those on the episode's files (`FileOutcome`,
`SwapOutcome`), the marker (`RaiseFence`, `LowerFence`, `Withdraw`) and the journal
(`RecordOutcome`, `SaveOutcome`). `MemoryTransaction` treats the others, and torn
writes. `Stop` ends any call anywhere. A read (`BeginRead` to `EndRead`) takes no lock.

Simplifications. One episode: two of them share only the operation names. A content
is its version, as versions are hashes. Staging files are left out, as is the evidence
a request is checked against: a refusal is a `Stop`. Who refers to the same operation
again does so with the same or another body, as often as he likes. `Visible` is the
episode for who respects the fence: the version before the outcome until the fence
is lowered. `log` and `answered` are history.

The assumptions on requests are what the callers do. Nothing is assumed of a request's
`updatedAt`, the time of the Host event it answers, but that it is a time (`UpdatedAssumption`):
an opening and its advice share it (`plugin.ts:1360`, `1366`), and `LegalChange` permits equality
as the code does. A version contains the run id its operation is named after
(`OneOperationPerVersion`), and the episode's id is derived from the run that opens it
(`OneOpening`, `plugin.ts:1365`).

## 3. Runs

| Run | Shows |
| --- | --- |
| `memory_transaction` | two processes, which may both reclaim a dead one's lock, or one beside a reader, two overlapping plans, a direct writer, two faults: exclusion, recoverability, durability before publication, reads of one generation, refinement of `AtomicPublication`, every pending plan resolved |
| `memory_torn_fence` | *violated*: a kill inside `writeNew` leaves a fence no retry lowers |
| `git_durability` | two instances with failed commands, crashes and hand-made commits: pointer before push, truthful reports and diagnostics, every accepted normal write on the clock until it is on the remote or an error shows |
| `git_pending_normal` | *violated*: a normal commit whose pointer advance failed is invisible |
| `initialization` | two processes, two plans, three calls or two with a fault of any kind, an owner's edit between a comparison and its replacement included: what an open gate means and who opens it, the originals, and that runs stay with their installation and stay retired |
| `initialization_rollback` | *violated*: an installation interrupted before `applyIdentity` cannot be rolled back |
| `completion` | two turns or resets of up to two runs, one reload or crash: exclusion, at most once, truth, an answer |
| `completion_drain` | *violated*: an abandoned correction still writes after the repository was given up |
| `episode_repository` | two callers and a reader, every request repeated at will, calls stopped anywhere: refinement of `VersionedRecord`, a readable episode, committed answers, current reads |
| `memory_lifecycle` | fourteen scenarios of two ingests, a correction and two synchronizations over one repository, with the owner and with faults: one line of generations, a fence that holds, nothing current on what somebody else removed, nothing forgotten, views and checkpoints that are backed, releases that can be undone |
| `context_engine` | two model calls, two parallel tools, one fault and any order of the Host's calls: genuine conversations, no agreement after the end, publication of what was heard, no refusal of an orderly Host |
| `retrieval_resume` | *violated*: the progress kept for a question is refused whenever it is asked again |

**Bounds.** Memory: two plans that overlap in the catalog and differ in their other
file are the smallest pair with a plan to be preserved and one to be overtaken;
two calls are enough for a reclaimed lock and for a retry beside a fresh call; two
faults let a recovery be interrupted once more. A behaviour has either the second
call or the reader, chosen at its start (`MCMemoryCalls`): the lock lets only one call
replace files, so a reader needs one beside it, and the product of the three is too large. Git: two instances, one for each
write policy, and one critical and one normal write give every order of commit,
pointer and push; the run has three budgets of hand-made commits, calls and faults
({0, 3, 1}, {1, 2, 1}, {0, 2, 2}), each the largest that finishes, because commits
multiply with calls. Initialization:
one target changes its text between the recipes, the other appears only in one;
two plans are one to install and one to supersede or undo. `MaxEvents` bounds calls and
faults together: three calls without a fault, or two with one, which is an interruption and the
call that takes it up. Three calls and two moves of the pointer are too many for a
run; searched once, they led to the lost epoch of section 4.
Completion: two dispatches are either the same run twice or two runs in
competition. Episodes: seven requests cover an opening with two bodies under one
operation id, an advice, a revision, a second body for the revision's operation that
expects its own result, a revision that drops the sealed prediction, and an outcome in
competition with the revision; the opening and its advice are of one time; two callers give a repetition beside a fresh operation,
and stops are not bounded at all.
Lifecycle: two pages, of which the second repeats an event of the first with another text,
one file that may be edited, removed or moved, one that may appear, a policy that
may close; one understanding on the first file and one piece of work on it. The full
product of callers, edits and faults is out of reach, so each behaviour draws a
scenario: pairs of writers that can disturb each other with one edit or one fault, a
lone synchronization with two edits (a move is two) and with an edit and a fault, and
triples without either. Cleanup (`Release`) runs in the scenarios with an ingest, and a
caller that was told of a success does not call again (`MayCall`). `MaxCites` is one: with two objects to replace, a replacement that
cites the other is what ordering and rebinding turn on, and a second citation is carried
along by the same step, one reference at a time (the theorem has no bound). `MaxCalls` is two calls at once and `MaxCommits` four commits a
fresh plan may still find: enough for block, competitor and final. Context engine: two
calls of the model are one that calls tools and one that ends the turn; five calls of the Host
are an assembly, the two tools' and one compaction and ingest at any place. Retrieval:
one question, and the one to four rounds the code allows, with nothing else bounded.

Every module with theorems has its type invariant as one of them. Two of these are part of a
run too, those of `MemoryLifecycle` and `ContextEngine`, whose catalogs and
conversations are the largest structures; `RetrievalProgress` has no invariant, since its only
run is a violation.

**States.** `memory_transaction` 508,909 distinct, `completion` 446,948, `episode_repository`
261,748, `memory_lifecycle` 299,997, `context_engine` 2,694,786.

**Deadlock** is checked in `episode_repository`. In the other runs calls and faults
are bounded, a turn ends, and a torn fence stops every call for good, so each of these
systems really stops. A behaviour of `memory_lifecycle` or `context_engine` ends when
its callers are answered and the owner's edits are used up.

**Symmetry** is used in `initialization` over the two processes, in `context_engine` over
the model calls and in `memory_lifecycle` over the synchronizations: these runs have no
liveness property and no definition names one of the permuted values.

**Fairness.**

* `MemoryTransaction`: weak fairness of `Progress`, as a live call is an async
  function that goes on running, and of `Resume`, as callers retry the recorded
  intent (`readRecordedMemoryTransaction` exists for it). None of faults or of new
  plans.
* `GitDurability`: weak fairness of `Progress`, the promise queue of a live
  process, and of `TimerFires`, `setTimeout`. None of callers or of the operator.
* `Completion`: weak fairness of the timer and the cancellation (`Cancel`), of the callback once
  its race is over (`Answer`), and of the Host's session store, which answers the last write with
  success or failure (`Close`). None of the work: a model, Git or the dispatcher may never
  return, and a turn that is `waiting` is still answered. None either of what a turn awaits
  before the coordinator has it, or of the dispatcher that carries a refusal: such a turn may stay
  unanswered, and the property does not speak of it. The Host's own limit on a hook is
  external to the repository and left out.
* `RetrievalProgress`: weak fairness of a turn's steps, and an owner who does what the
  message asks, again and again: asks the same question, raises the rounds, cleans the
  checkout up. Even so the property fails.

## 4. Disagreements met

`PROJECT.json` quotes the sentences; the five *violated* runs show them.

1. The marker and the journal are created empty and then filled
   (`memory-transaction.ts:204`). A process killed in between leaves a fence that
   the exact intent cannot take up.
2. `recordNormal` commits, then confirms the pointer outside its own `try`
   (`durability.ts:205`): if that fails, a local-only commit has no pending
   timestamp and no error in the diagnostics until the next initialization.
3. `rollback` of a pending installation requires the identity to be the new one
   already (`initialization.ts:458`), so one that stopped earlier cannot be undone,
   only finished.
4. `untilAborted` abandons a preparation that may be inside a correction's
   transaction (`completion.ts:71`); the repository is released before it drains.
5. Progress of an exhausted search is kept by a commit, which moves the revision the
   checkpoint names (`retrieval-progress.ts:76`, `plugin.ts:543`), so the same question is
   refused by `plugin.ts:1134`, for good, instead of being resumed. Under `local_write`
   the checkpoint file itself makes the checkout dirty, and no turn runs.

Met while modelling, and left as observations, because no document says otherwise:

* The owner's removals and additions are read from the diff of two commits
  (`synchronize.ts:90`): one end of a move that another writer came between looks like a
  removal. An owner's commit that lands while a synchronization's marker is up is in
  neither revision; the marker's plan then cannot be persisted, and the fence stays
  until an operator looks.
* An ingest checks that HEAD is the expected revision when it plans (`ingest.ts:1114`)
  and not when it publishes; a required view with no sources makes every ingest
  fail (`view-migration.ts:86`).
* An ingest that archives an edited event supersedes the older one but leaves the
  cognition that rests on it current (`ingest.ts:949`); hence the exception for archived events
  in `CognitionRestsOnCurrent`.
* A stage file that was torn, or never committed, makes synchronization and cleanup refuse until
  it is removed by hand (`ingest.ts:1155`).
* A search that finishes while the session has a committed checkpoint removes the file
  without a commit; the gate then refuses that answer and every later turn until the
  owner cleans up (`retrieval-progress.ts:88`).
* `bumpAdmissionEpoch` reads the epoch and writes it later, under no lock
  (`run-admission.ts:94`), and `revokeActiveRuns` may run beside an installation's fence. A
  revocation that is slow enough sets the epoch back over two others, and a run retired
  before may then pass its checks against another installation, as its binding names the
  same operation and epoch once more. `docs/08-LOCAL-DEV-INTEGRATION.md:150` wants all old admissions
  revoked. It takes three revocations at once and two moves of the pointer.
* What the owner saves in a managed file after an installation or a rollback has compared it
  and before it is renamed over is lost: the archive keeps the text that was compared
  (`initialization.ts:408-416`, `473-482`). `OriginalsAreKept` excepts exactly this.
* A correction's replacement may cite another object that the same correction replaces later;
  the citation keeps the old version (`correction.ts:215`), so a current understanding is
  published that rests on a superseded one. `CognitionRestsOnCurrent` excepts exactly this.
* After the engine agreed to a model call the plugin awaits four further checks and does not ask
  the engine again (`plugin.ts:472-477`, `host-memory-provider.ts:186-188`): a failure latched
  meanwhile does not stop that payload.
* A refused turn that the Host did not give over waits for the dispatcher to become idle, without a
  limit (`completion-adapter.ts:253-258`), and a reset waits for Git (`:109`).
* A registration that finds a valid receipt releases the isolation it finds
  (`initialization-registration.ts`). If it belongs to another process that has
  written its journal and not yet changed the profile, the tools stay denied with no
  journal to restore them from; within one registration `inflight` prevents it.
* A Host that compacts after the final answer leaves nothing sealed, so that reply
  cannot be kept; a gate that fails after the release latches a failure of an
  engine whose history is being persisted.

## 5. Proofs

`MemoryTransactionProofs` proves, for any sets of calls, readers, plans, files and
contents and any number of faults:

| Theorem | States |
| --- | --- |
| `TypeCorrect` | `TypeOK` |
| `Exclusion` | `OneWriter` |
| `FenceProtects` | `FenceHolds` |
| `DurableBeforePublished` | `PublishedIsDurable` |
| `Atomicity` | `MemoryTransaction` implements `AtomicPublication` |
| `ReadersAreBound` | `ReadsAreCurrent` |

The assumptions are the three in `MemoryTransaction`: `ConstantsAssumption` (the types
of the plans, with a catalog among the files), `SentinelAssumption` (the values
for "no intent", "torn", "free" and "stale" are not intents or calls) and, for the last
theorem only, `CatalogAssumption`: no catalog text occurs twice, and only plans
replace the catalog. Every plan that replaces the catalog gives it a new generation, a
hash of what it replaces and of the operation (`ingest.ts:955`, `synchronize.ts:380`,
`correction.ts:269`, `outcome-transaction.ts:102`, `question-transaction.ts:28`), but a
published history view, which brings the digest of its own snapshot and is planned
once, since it expects its artifact to be absent (`host-context-view.ts:71-77`). Of the
callers of `withMemoryMutationLock` only the archive writer replaces a catalog, and no
code of the plugin calls it: tests and probe scripts do. TLC evaluates the assumptions on every run
of the module.

**Argument.** None of these invariants is inductive alone. `IInv` adds, for each
call, what it relies on in its phase (`PhaseInv`): past the inspection the marker is
this call's own intent; while it writes, the files it has no longer to write hold
the new text; from the journal on all do; from the persistence on the plan is
durable. A step of another call preserves that because changing a file, marker or
journal requires the lock (`FileStep`), and `OneWriter` says who has it
(`OtherPhaseStep`); a crash releases the lock to `Stale` only together with the call
that had it, and reclaiming removes only a lock without a live owner, however long ago the
caller saw it stale. `FenceHolds` then follows from the inspection, which admits only the
text before or after, and the refinement from `Unlink` being the one step that changes
`Published` for a plan. Each lemma treats one conjunct of `IInv` over all actions.

`EpisodeRepositoryProofs` proves, for any sets of calls, readers, versions and
requests:

| Theorem | States |
| --- | --- |
| `EpisodeTypes` | `TypeOK` |
| `NeverUnreadable` | `EpisodeStaysReadable` |
| `AnswersAreSaved` | `AnsweredIsSaved` |
| `ReadsAreCurrent` | `ReadWasCurrent` |
| `EpisodeIsARecord` | `EpisodeRepository` implements `VersionedRecord` |

from the assumptions on requests above, which TLC evaluates for the run's values; none of them
orders the times.

**Argument.** What a call relies on is again tied to its phase: `Role` says whose turn
it is under which fence, `ApplyingBy` and `ClosingBy` what it has already written.
Three facts carry the rest. `Journals`: what took effect is the body recorded
under its operation, so an operation with another body is refused. `Order`: what took
effect did so once, each on the version before it, and the episode keeps its prediction, so
`episode.json` moves along `log` only, what is about to be published has not taken effect (`Fresh`),
and what was answered is not undone. `Opening`: before there is an episode, a prediction on disk belongs to a recorded
opening, and there is only one, so an opening that was abandoned half-way is either
repeated or nobody's; with `LegalChange` this gives readability. `Fenced` describes the
files under an outcome; a reader that saw the outcome's version too early is let go only
once it is visible (`ReadingInv`). In the refinement `Replace` and `LowerFence` are the
steps that take effect, `Answer` and `Confirm` those that answer.

`CompletionProofs` proves, for any turns, runs and bounds:

| Theorem | States |
| --- | --- |
| `CompletionTypes` | `TypeOK` |
| `OneTurnAtWork` | `OneAtWork` |
| `OncePerRun` | `AtMostOncePerRun` |
| `TruthfulTexts` | `ToldTheTruth` |

**Argument.** `Stage` ties the callback's position to the work's, `Held` says whose turn
is in `active` and that maintenance is not, `Once` that a run some turn claimed in this
process has no persistence or sending by another, also after a reload, which forgets
the claim but not the journal, and `Truth` that each terminal text was chosen at a
stage from which the other outcome cannot be reached any more.

`GitDurabilityProofs` proves, for any number of instances, calls, commits and faults:

| Theorem | States |
| --- | --- |
| `GitTypes` | `TypeOK` |
| `PointerFirst` | `PointerBeforePush` |
| `Reported` | `ReportedIsRemote` |
| `Diagnostics` | `DiagnosticsAreTruthful` |
| `OnTheClock` | `RecordedIsClocked` |

**Argument.** The inductive invariant is `Types`, `Shared` (remote, pointer and branch in
order) and, for each instance, `Local`: what its fields say is behind the shared state
(`Behind`), what its queued operation has reached (`Underway`), that a write it accepted
is carried by a field (`Carried`), that an error is flagged (`Flagged`), and that what
is only local is on the clock (`Clocked`). An instance's part survives the others' steps,
since revisions only grow and nobody commits in its name (lemma `Unaffected`). Each
queued operation either rejects, enters a stage or goes on, and these three are generic
lemmas; then there is one lemma per action. TLC checked the invariant as an invariant of a
run first, with two instances, one owner commit, three calls and two faults.

`InitializationProofs` proves, for any calls, runs, revisions and files:

| Theorem | States |
| --- | --- |
| `InitializationTypes` | `TypeOK` |
| `OpenIsInstalled` | `OpenMeansInstalled` |
| `OpenedByInstallation` | `OnlyInstallationOpens` |
| `OriginalsSurvive` | `OriginalsAreKept` |
| `RetiredForGood` | `RevocationIsFinal` |
| `RunsKeepToTheirs` | `RunsKeepTheirInstallation` |

from `InitializationAssumption` (what a recipe and the initial workspace are) and
`SentinelAssumption`, which TLC evaluates.

**Argument.** A call has the lock in every phase in which it may change the workspace
(`Holds`), and `Relies` says what it has done there: past the fence a rollback has
admission closed; past `Pend` an installation is the pending one, archived, and the targets
it has no longer to write hold its texts, but for those the owner edited since; a target it
has compared and not yet replaced holds the text it read, which its archived plan keeps, unless
the owner edited it (so `OriginalsAreKept`); past
`ApplyIdentity` the identity is its own, past `WriteReceipt` the receipt. So the step that
opens the gate finds all of that, and what is open stays installed because no other step
changes files or identity while it is. A step leaves the other calls' parts alone if
it has the lock or is quiet (`OthersKeep`). Steps that only move a call on, fence,
end or undo have one generic lemma each, then there is one per action. `RevocationIsFinal`
adds `Awaiting`: the run a correction will admit has no binding and is in no check, so no
binding is ever replaced. `RunsKeepTheirInstallation` adds `ByTheGate` and, for each run,
`InStep`. A call is `Engaged` from the step that raises the epoch to its end; only
engaged calls change the receipt or set about the workspace, and admission is closed as long as
there is one. So whenever the gate is open, the receipt names what was last set about
(`Attributed`), and a run bound under the epoch that holds is checked while no call is engaged:
a call that engages raises the epoch past the binding (`Engages`, `EpochGrows`), and then
the comparison at the end of the check fails. TLC checked each invariant as one of a run first.

`ContextEngineProofs` proves, for any number of model calls, tools, batches, Host calls and
faults:

| Theorem | States |
| --- | --- |
| `OverForGood` | `OverIsOver` |
| `TypesHold` | `TypeOK` |
| `ConversationsAreGenuine` | `ConversationIsGenuine` |
| `RepliesAreHeard` | `PublishedIsHeard` |
| `OrderlyTurnsArePublished` | `OrderlyTurnsSucceed` |

from `BoundsAssumption`, `BatchesAssumption` (a batch names a tool once: the calls of one
answer have ids of their own, which the engine checks) and `NoneAssumption` (the value for
"nothing" is neither a context, nor a message or conversation, nor an operation).

**Argument.** That a failed engine agrees to nothing more follows from each step's own guards,
since every operation and every gate asks whether the engine failed before it goes on, and a call
is sent only from the stage an earlier agreement has put it in. The release needs an
invariant: the Host may release while an operation is still waiting, and the operation
goes on afterwards. `Overtaken` says what it then meets: the authority is closed, so it
cannot replace the context, and the one operation that may still start is the keeping
of the messages. The lemmas come by kind of step (an operation settles, is thrown out,
enters, passes a gate), then by group of actions.

Genuineness is said of every conversation the engine makes, at whatever place it is held:
`Made` requires each assistant message to be some call's answer, each batch of calls to be
followed by the results there are, in call order and without a gap, and each result to stand
there. `ConvInv` carries it for the sealed context (`EngineOK`), the running
operation's input and what it had before its await (`OpOK`), the calls (`AsksOK`), the draft
and the archive (`TurnOK`), and what the Host has heard (`HostOK`). Parallel results are the
hard step: a result is put behind those of the calls before its own,
whichever came first, so a result's place is the number of calls up to it that have
answered (`Rank`), and `Insertion` and `Ranks` are the lemmas on it; `ResultAt` shows that the
code's search for the place finds that number. `HeardInv` then relates what is held to what was heard:
a draft is the last answer of every context from which the completion may still be
archived, also while a compaction or a late result is between its awaits (`Phases`), so what is
archived with a published reply is what the Host has heard, to the last message.

`OrderInv` says why an orderly Host is never refused, whatever is between two awaits:
as long as it kept to the protocol, nothing has failed (`Fine`); it does one thing at a time but for
the results of a batch (`OneAtATime`); each waiting operation, gate and model call holds
what is sealed at the time it looks again (`HoldsSealed`, `AskedSealed`); and what is
sealed is what the Host has heard (`Synced`). The last is the hard part, since the two are apart
while a batch is out: the Host hears all its results at once, when the last tool is done,
while the engine seals them one by one and in any order. `Standing(heard, msgs, Given)` says that
what is sealed is what was heard and then the results of exactly the tools in `Given`, in call order;
`NothingGiven` and `AllGiven` are the two ends at which both agree, `MoreGiven` the step between them,
and `ToolsOK` keeps the tools of different answers apart. `Completing` carries the
agreement over the release to the draft, the archive and the publication. A fault, a
cancellation or an overlapping call ends the Host's orderliness (`Unharmed`,
`NeverOrderlyAgain`), so each remaining action has to be shown to succeed and to keep this.
All three were invariants of a run first.

`MemoryLifecycleProofs` proves, for any operations, pages, objects, files, edits and faults:

| Theorem | States |
| --- | --- |
| `TypesHold` | `TypeOK` |
| `CatalogsFormOneLine` | `OneLine` |
| `FencesHoldCatalogs` | `FencedCatalogIsStable` |
| `PublicationsAreSynchronized` | `PublishedIsSynchronized` |
| `CheckpointsCover` | `CheckpointCoversArchive` |
| `CognitionIsGrounded` | `CognitionRestsOnCurrent` |
| `NothingIsForgotten` | `NothingForgotten` |
| `FencesAreReadable` | `ProgressIsReadable` |
| `ViewsAreCurrent` | `ViewIsCurrent` |
| `AnswersAreRemote` | `AnsweredIsRemote` |
| `ReleasesAreRecoverable` | `ReleasedIsRecoverable` |

from three assumptions. `OperationsAssumption`: the operations of the three kinds are
distinct, as each builds its plan ids from its own name. `IdsAssumption`: ids of
cognition, files and events do not meet (they carry the kind as a prefix), and a page has an event
once. `StartAssumption`: the repository to start from has a catalog that parses, whose cognition and
view rest on what is current, no fence, and a checkpoint its archive covers: what
an initialized repository has. TLC evaluates them on the run's values.

**Argument.** Every step is one of nine effects of an operation (`Effect`): a plan is begun, raised,
confirmed, written, persisted, lowered, undone, judged or made final; or it is an owner's commit,
or leaves slots, log and marker alone. All later lemmas go by effect and not by action. Then, in layers, each
resting on those before it:

1. `Transactions`: a slot of the working tree differs from its last commit only under the
   marker of the plan that names it, and only until the plan is committed; a plan is
   committed once; a call past the marker is the marker's.
2. `Told`: what the process knows to be on the remote is there, and what a caller was told is
   among it. This gives `AnsweredIsRemote`.
3. `Contents`: what is in plans, log and tree. `Plans` says of every plan that may still be written
   what it does to each slot, given the text it expects to find: the catalog it leaves is
   good, the checkpoint is one it covers, the fence is readable and forgets
   nothing. `LogContents` says of the log that each catalog was made from the one
   before (`History`), what a block and a takeover leave for their final plan (`Blocks`,
   `Takeovers`), and what was published (`Publications`); `TreeContents` says the same of the
   working tree between a write and its commit.
4. `Releases`, on the page an ingest has released.

`Plans` is what makes the rest inductive: a plan is made from a tree that others go on
changing, so what is said of it must survive the growth of the log (`StableLive`), and a
plan whose text before is no longer there is refused, or is `Dead`. `MemoryCatalogProofs` has what
each writer computes: archiving, correcting and reassessing a good catalog gives
a good one (`Archiving`, `Ingesting`, `Correcting`, `Reassessing`, `Judging`). TLC checked
`Contents` as an invariant of a run first. For corrections, `Correcting` shows that what is
replaced is replaced under everything that rested on it (`ScopeComplete`), whatever is cited.

**Only model-checked**: `PendingPlanResolves`, `NormalReachesRemote`, `TurnsAreAnswered`: liveness
under fairness is out of the prover's reach. Every safety invariant and action property of
a passing run is the subject of a theorem.

## 6. What is left

1. The archive of the completed turn and the session head that is published after it
   (`host-context-history.ts`, `host-context-head.ts`), with two processes.
2. The archive writer's append protocol.
3. Admission receipts and replay rules as operators, against reference definitions.

## 7. Running

    tlc -config MCMemoryCalls.cfg MCMemoryCalls.tla
    tlapm MemoryTransactionProofs.tla

and likewise for each run of `PROJECT.json`.
