-------------------------- MODULE MemoryTransaction --------------------------
(***************************************************************************)
(* The multi-file transaction of canghai/memory-transaction.ts, one        *)
(* durable effect per action: callers plan and retry (possibly several at  *)
(* once, in several processes), a process may die between any two effects, *)
(* every port may fail, and readers check the fence around their reads as  *)
(* CatalogReader does.                                                     *)
(*                                                                         *)
(* A file's text is a member of Contents and Missing is the absent file.   *)
(* Staging files and the hashing of the intent are abstracted: an intent   *)
(* is the pair of its operation and the texts it expects to replace.       *)
(***************************************************************************)
EXTENDS Naturals, FiniteSets

CONSTANTS
  Procs,       \* concurrent calls; each may belong to a process of its own
  Readers,     \* CatalogReader users
  Ops,         \* operation ids
  Files,       \* repository paths
  CatalogFile, \* the catalog, whose hash binds a reader to a generation
  Contents,    \* texts of files
  Missing,     \* the text of an absent file
  Binary,      \* files planned with encoding "base64"
  Writes,      \* Writes[o]: the files plan o names
  After,       \* After[o][f]: the text plan o leaves in f
  Direct,      \* <<f, c>>: writes made by withMemoryMutationLock callers
  InitFiles,   \* the repository at the start
  None,        \* no marker, no journal, no intent
  Torn,        \* a marker or journal whose creation was cut short
  Free, Stale, \* lock values: nobody, or a process known to be dead
  MaxFaults    \* bound on crashes, aborts and failed ports

ASSUME ConstantsAssumption ==
  /\ CatalogFile \in Files
  /\ Missing \in Contents
  /\ Binary \subseteq Files
  /\ Writes \in [Ops -> SUBSET Files]
  /\ After \in [Ops -> [Files -> Contents]]
  /\ Direct \subseteq Files \X Contents
  /\ InitFiles \in [Files -> Contents]
  /\ MaxFaults \in Nat

\* No catalog text occurs twice.  It names its generation, a hash of the catalog it replaces
\* and of the operation (ingest.ts:955, synchronize.ts:380, correction.ts:269); a history view
\* keeps the generation and brings the digest of its snapshot, whose artifact is planned as
\* absent (host-context-view.ts:71-77).  Only plans replace the catalog.
ASSUME CatalogAssumption ==
  /\ \A w \in Direct : w[1] # CatalogFile
  /\ \A o \in Ops : CatalogFile \in Writes[o] =>
       /\ After[o][CatalogFile] # InitFiles[CatalogFile]
       /\ \A q \in Ops \ {o} : CatalogFile \in Writes[q] =>
            After[q][CatalogFile] # After[o][CatalogFile]

Intents == [op : Ops, before : [Files -> Contents]]

ASSUME SentinelAssumption ==
  /\ None \notin Intents /\ Torn \notin Intents /\ None # Torn
  /\ Free \notin Procs /\ Stale \notin Procs /\ Free # Stale

VARIABLES
  files,     \* the working tree
  marker,    \* .stella-memory-transaction.json
  journal,   \* journal[o]: the file at plan o's journalPath
  lock,      \* .stella-memory-transaction.json.lock
  durable,   \* operations the durability port has confirmed
  acked,     \* operations some caller was told had succeeded
  pc,        \* pc[p]: where call p stands
  intent,    \* intent[p]: call p's frozen plan
  todo,      \* todo[p]: files call p has not visited yet
  rpc,       \* rpc[r]: where reader r stands
  rcat,      \* rcat[r]: the catalog text r loaded
  robj,      \* robj[r]: the other file r read, and its text
  window,    \* window[r]: published states since r loaded its catalog
  faults     \* faults so far

txVars     == <<files, marker, journal, lock, durable, acked, pc, intent, todo>>
readerVars == <<rpc, rcat, robj>>
vars       == <<txVars, readerVars, window, faults>>

Phases ==
  {"idle", "planned", "reclaiming", "relock", "locked", "mark", "marking", "validate", "write", "journal",
   "journaling", "persist", "publish", "unlink", "undo", "confirm", "release",
   "direct", "directLocked", "directWork"}

ReaderPhases ==
  {"idle", "loaded", "fenced", "bound", "read", "refenced", "accepted"}

\* Calls that hold the file lock.
Holding == Phases \ {"idle", "planned", "direct", "reclaiming", "relock"}

IsIntent(m) == m \notin {None, Torn}

-----------------------------------------------------------------------------
(* What a reader that respects the fence is entitled to see: while a marker
   names a plan, the texts that plan is replacing. *)
Published ==
  IF IsIntent(marker)
  THEN [f \in Files |-> IF f \in Writes[marker.op] THEN marker.before[f] ELSE files[f]]
  ELSE files

Committed == {o \in Ops : IsIntent(journal[o]) /\ ~(IsIntent(marker) /\ marker.op = o)}

Init ==
  /\ files = InitFiles
  /\ marker = None
  /\ journal = [o \in Ops |-> None]
  /\ lock = Free
  /\ durable = {}
  /\ acked = {}
  /\ pc = [p \in Procs |-> "idle"]
  /\ intent = [p \in Procs |-> None]
  /\ todo = [p \in Procs |-> {}]
  /\ rpc = [r \in Readers |-> "idle"]
  /\ rcat = [r \in Readers |-> Missing]
  /\ robj = [r \in Readers |-> <<CatalogFile, Missing>>]
  /\ window = [r \in Readers |-> {}]
  /\ faults = 0

Goto(p, from, to) == pc[p] = from /\ pc' = [pc EXCEPT ![p] = to]

Fault == faults < MaxFaults /\ faults' = faults + 1

-----------------------------------------------------------------------------
(* Faulty variants of the actions below, each the way the code could go wrong; no
   specification uses them, they show that the properties would notice. *)

\* What was seen stale is removed, although somebody else may have reclaimed and taken it since.
ReclaimWhatWasSeen(p) ==
  /\ Goto(p, "reclaiming", "relock")
  /\ lock' = Free
  /\ UNCHANGED <<files, marker, journal, durable, acked, intent, todo, readerVars, faults>>

\* A resumed plan is held to the texts it started from.
InspectStrictly(p) ==
  LET i    == intent[p]
      next == IF ~(marker \in {None, i}) \/ ~(journal[i.op] \in {None, i}) THEN "release"
              ELSE IF journal[i.op] # None /\ marker = None THEN "confirm"
              ELSE IF \E f \in Writes[i.op] : files[f] # i.before[f] THEN "release"
              ELSE IF marker # None THEN "validate" ELSE "mark"
  IN
  /\ Goto(p, "locked", next)
  /\ UNCHANGED <<files, marker, journal, lock, durable, acked, intent, todo, readerVars, faults>>

\* A resumed plan whose journal exists is taken to be persisted already.
WritesDoneTrustsJournal(p) ==
  /\ todo[p] = {}
  /\ Goto(p, "write", IF journal[intent[p].op] = None THEN "journal" ELSE "publish")
  /\ UNCHANGED <<files, marker, journal, lock, durable, acked, intent, todo, readerVars, faults>>

\* The catch block always lowers the fence.
UndoAlways(p) ==
  /\ Goto(p, "undo", "release")
  /\ marker' = None
  /\ UNCHANGED <<files, journal, lock, durable, acked, intent, todo, readerVars, faults>>

\* The fence is not looked at again once the lock is held.
RecheckNothing(p) ==
  /\ Goto(p, "directLocked", "directWork")
  /\ UNCHANGED <<files, marker, journal, lock, durable, acked, intent, todo, readerVars, faults>>

\* The fence is not looked at again after the object was read.
CheckFenceOnce(r) ==
  /\ rpc[r] \in {"loaded", "read"}
  /\ rpc' = [rpc EXCEPT ![r] =
       IF @ = "read" THEN "refenced" ELSE IF marker # None THEN "idle" ELSE "fenced"]
  /\ UNCHANGED <<txVars, rcat, robj, faults>>

-----------------------------------------------------------------------------
(* Callers *)

\* A caller reads the current texts behind a readable fence and freezes a plan.
Plan(p, o) ==
  /\ marker = None
  /\ Goto(p, "idle", "planned")
  /\ intent' = [intent EXCEPT ![p] =
       [op |-> o, before |-> [f \in Files |-> IF f \in Writes[o] THEN files[f] ELSE Missing]]]
  /\ UNCHANGED <<files, marker, journal, lock, durable, acked, todo, readerVars, faults>>

\* A caller reads the recorded plan back, from the marker or else from a journal.
Resume(p) ==
  /\ Goto(p, "idle", "planned")
  /\ \/ IsIntent(marker) /\ intent' = [intent EXCEPT ![p] = marker]
     \/ /\ marker = None
        /\ \E o \in Ops : IsIntent(journal[o]) /\ intent' = [intent EXCEPT ![p] = journal[o]]
  /\ UNCHANGED <<files, marker, journal, lock, durable, acked, todo, readerVars, faults>>

\* acquireFileLock: the lock file is created exclusively, at the first or at the second attempt.
AcquireLock(p) ==
  /\ pc[p] \in {"planned", "direct", "relock"}
  /\ lock = Free
  /\ lock' = p
  /\ pc' = [pc EXCEPT ![p] = IF intent[p] = None THEN "directLocked" ELSE "locked"]
  /\ UNCHANGED <<files, marker, journal, durable, acked, intent, todo, readerVars, faults>>

\* file_lock_stale: the owner of the lock is dead.
FindStale(p) ==
  /\ pc[p] \in {"planned", "direct"}
  /\ lock = Stale
  /\ pc' = [pc EXCEPT ![p] = "reclaiming"]
  /\ UNCHANGED <<files, marker, journal, lock, durable, acked, intent, todo, readerVars, faults>>

\* reclaimDefinitelyStaleFileLock: a lock is removed only if its owner is dead now; by then another
\* caller may have removed it, and hold it again.
Reclaim(p) ==
  /\ lock \in {Free, Stale}
  /\ Goto(p, "reclaiming", "relock")
  /\ lock' = Free
  /\ UNCHANGED <<files, marker, journal, durable, acked, intent, todo, readerVars, faults>>

\* memory_transaction_in_progress: a live owner has it, or the second attempt did not get it.
LockBusy(p) ==
  /\ \/ pc[p] \in {"planned", "direct", "reclaiming"} /\ lock \in Procs
     \/ pc[p] = "relock" /\ lock # Free
  /\ pc' = [pc EXCEPT ![p] = "idle"]
  /\ intent' = [intent EXCEPT ![p] = None]
  /\ UNCHANGED <<files, marker, journal, lock, durable, acked, todo, readerVars, faults>>

-----------------------------------------------------------------------------
(* applyMemoryTransaction under the lock *)

ExpectedText(i, f, resuming) ==
  files[f] = i.before[f] \/ (resuming /\ files[f] = After[i.op][f])

\* Every check that precedes the first write.
Inspect(p) ==
  LET i        == intent[p]
      resuming == marker # None
      recorded == journal[i.op] # None
      next     == IF ~(marker \in {None, i}) \/ ~(journal[i.op] \in {None, i}) THEN "release"
                  ELSE IF recorded /\ ~resuming THEN "confirm"
                  ELSE IF ~\A f \in Writes[i.op] : ExpectedText(i, f, resuming) THEN "release"
                  ELSE IF resuming THEN "validate" ELSE "mark"
  IN
  /\ Goto(p, "locked", next)
  /\ UNCHANGED <<files, marker, journal, lock, durable, acked, intent, todo, readerVars, faults>>

\* writeNew(marker): exclusive creation, then the bytes.
CreateMarker(p) ==
  /\ Goto(p, "mark", "marking")
  /\ marker' = Torn
  /\ UNCHANGED <<files, journal, lock, durable, acked, intent, todo, readerVars, faults>>

FillMarker(p) ==
  /\ Goto(p, "marking", "validate")
  /\ marker' = intent[p]
  /\ UNCHANGED <<files, journal, lock, durable, acked, intent, todo, readerVars, faults>>

\* ports.validate under the owner scope.
Validate(p) ==
  /\ Goto(p, "validate", "write")
  /\ todo' = [todo EXCEPT ![p] = Writes[intent[p].op]]
  /\ UNCHANGED <<files, marker, journal, lock, durable, acked, intent, readerVars, faults>>

\* One iteration of the write loop: a third text is a version conflict.
WriteFile(p, f) ==
  /\ f \in todo[p]
  /\ IF ExpectedText(intent[p], f, TRUE)
     THEN /\ Goto(p, "write", "write")
          /\ files' = [files EXCEPT ![f] = After[intent[p].op][f]]
     ELSE /\ Goto(p, "write", "undo")
          /\ UNCHANGED files
  /\ todo' = [todo EXCEPT ![p] = @ \ {f}]
  /\ UNCHANGED <<marker, journal, lock, durable, acked, intent, readerVars, faults>>

\* The journal is created only when the first inspection found none.
WritesDone(p) ==
  /\ todo[p] = {}
  /\ Goto(p, "write", IF journal[intent[p].op] = None THEN "journal" ELSE "persist")
  /\ UNCHANGED <<files, marker, journal, lock, durable, acked, intent, todo, readerVars, faults>>

CreateJournal(p) ==
  /\ Goto(p, "journal", "journaling")
  /\ journal' = [journal EXCEPT ![intent[p].op] = Torn]
  /\ UNCHANGED <<files, marker, lock, durable, acked, intent, todo, readerVars, faults>>

FillJournal(p) ==
  /\ Goto(p, "journaling", "persist")
  /\ journal' = [journal EXCEPT ![intent[p].op] = intent[p]]
  /\ UNCHANGED <<files, marker, lock, durable, acked, intent, todo, readerVars, faults>>

\* ports.persist succeeds.
Persist(p) ==
  /\ Goto(p, "persist", "publish")
  /\ durable' = durable \union {intent[p].op}
  /\ UNCHANGED <<files, marker, journal, lock, acked, intent, todo, readerVars, faults>>

\* ports.publishView succeeds (or is absent).
PublishView(p) ==
  /\ Goto(p, "publish", "unlink")
  /\ UNCHANGED <<files, marker, journal, lock, durable, acked, intent, todo, readerVars, faults>>

\* The fence is released: the commit point, and the caller's success.
Unlink(p) ==
  /\ marker = intent[p]
  /\ Goto(p, "unlink", "release")
  /\ marker' = None
  /\ acked' = acked \union {intent[p].op}
  /\ UNCHANGED <<files, journal, lock, durable, intent, todo, readerVars, faults>>

\* The catch block: the fence goes only if provably nothing was replaced.  A
\* base64 file is read as utf8 here, so it only ever matches an absent one.
Untouched(i) ==
  /\ journal[i.op] = None
  /\ marker = i
  /\ \A f \in Writes[i.op] :
       files[f] = i.before[f] /\ (f \in Binary => i.before[f] = Missing)

Undo(p) ==
  /\ Goto(p, "undo", "release")
  /\ marker' = IF Untouched(intent[p]) THEN None ELSE marker
  /\ UNCHANGED <<files, journal, lock, durable, acked, intent, todo, readerVars, faults>>

\* A completed operation only reconfirms its Git persistence.
Confirm(p) ==
  /\ Goto(p, "confirm", "release")
  /\ durable' = durable \union {intent[p].op}
  /\ acked' = acked \union {intent[p].op}
  /\ UNCHANGED <<files, marker, journal, lock, intent, todo, readerVars, faults>>

ReleaseLock(p) ==
  /\ Goto(p, "release", "idle")
  /\ lock' = Free
  /\ intent' = [intent EXCEPT ![p] = None]
  /\ todo' = [todo EXCEPT ![p] = {}]
  /\ UNCHANGED <<files, marker, journal, durable, acked, readerVars, faults>>

-----------------------------------------------------------------------------
(* withMemoryMutationLock: single-file writers outside any transaction *)

StartDirect(p) ==
  /\ marker = None
  /\ Goto(p, "idle", "direct")
  /\ UNCHANGED <<files, marker, journal, lock, durable, acked, intent, todo, readerVars, faults>>

\* The fence may have been raised, and its owner have died, since the first look.
RecheckDirect(p) ==
  /\ Goto(p, "directLocked", IF marker = None THEN "directWork" ELSE "release")
  /\ UNCHANGED <<files, marker, journal, lock, durable, acked, intent, todo, readerVars, faults>>

WriteDirect(p, w) ==
  /\ Goto(p, "directWork", "directWork")
  /\ files' = [files EXCEPT ![w[1]] = w[2]]
  /\ UNCHANGED <<marker, journal, lock, durable, acked, intent, todo, readerVars, faults>>

FinishDirect(p) ==
  /\ Goto(p, "directWork", "release")
  /\ UNCHANGED <<files, marker, journal, lock, durable, acked, intent, todo, readerVars, faults>>

-----------------------------------------------------------------------------
(* Faults *)

\* An abort signal, a rejected port or an I/O error inside the guarded region.  A
\* rejected persist may still have reached Git.
FailGuarded(p) ==
  /\ Fault
  /\ pc[p] \in {"validate", "write", "journal", "journaling", "persist", "publish", "unlink"}
  /\ pc' = [pc EXCEPT ![p] = "undo"]
  /\ \/ UNCHANGED durable
     \/ (pc[p] = "persist" /\ durable' = durable \union {intent[p].op})
  /\ UNCHANGED <<files, marker, journal, lock, acked, intent, todo, readerVars>>

\* The same outside it: no catch block runs, or the catch block itself fails.
FailPlain(p) ==
  /\ Fault
  /\ pc[p] \in {"locked", "mark", "marking", "undo", "confirm", "directLocked", "directWork"}
  /\ pc' = [pc EXCEPT ![p] = "release"]
  /\ UNCHANGED <<files, marker, journal, lock, durable, acked, intent, todo, readerVars>>

\* The process of call p dies; a lock it held is left behind.
Crash(p) ==
  /\ Fault
  /\ pc[p] # "idle"
  /\ pc' = [pc EXCEPT ![p] = "idle"]
  /\ lock' = IF lock = p THEN Stale ELSE lock
  /\ intent' = [intent EXCEPT ![p] = None]
  /\ todo' = [todo EXCEPT ![p] = {}]
  /\ UNCHANGED <<files, marker, journal, durable, acked, readerVars>>

-----------------------------------------------------------------------------
(* CatalogReader: load, assertCurrent, read, assertCurrent.  assertCurrent looks at
   the fence and then, separately, at the catalog. *)

LoadCatalog(r) ==
  /\ rpc[r] = "idle"
  /\ rpc' = [rpc EXCEPT ![r] = "loaded"]
  /\ rcat' = [rcat EXCEPT ![r] = files[CatalogFile]]
  /\ UNCHANGED <<txVars, robj, faults>>

FenceAbsent == marker = None

CheckFence(r) ==
  /\ rpc[r] \in {"loaded", "read"}
  /\ rpc' = [rpc EXCEPT ![r] =
       IF ~FenceAbsent THEN "idle" ELSE IF @ = "loaded" THEN "fenced" ELSE "refenced"]
  /\ UNCHANGED <<txVars, rcat, robj, faults>>

CheckGeneration(r) ==
  /\ rpc[r] \in {"fenced", "refenced"}
  /\ rpc' = [rpc EXCEPT ![r] =
       IF files[CatalogFile] # rcat[r] THEN "idle" ELSE IF @ = "fenced" THEN "bound" ELSE "accepted"]
  /\ UNCHANGED <<txVars, rcat, robj, faults>>

ReadObject(r, f) ==
  /\ rpc[r] = "bound"
  /\ rpc' = [rpc EXCEPT ![r] = "read"]
  /\ robj' = [robj EXCEPT ![r] = <<f, files[f]>>]
  /\ UNCHANGED <<txVars, rcat, faults>>

UseRead(r) ==
  /\ rpc[r] = "accepted"
  /\ rpc' = [rpc EXCEPT ![r] = "idle"]
  /\ UNCHANGED <<txVars, rcat, robj, faults>>

-----------------------------------------------------------------------------
Progress(p) ==
  \/ AcquireLock(p) \/ FindStale(p) \/ Reclaim(p) \/ LockBusy(p)
  \/ Inspect(p) \/ CreateMarker(p) \/ FillMarker(p)
  \/ Validate(p) \/ (\E f \in Files : WriteFile(p, f)) \/ WritesDone(p)
  \/ CreateJournal(p) \/ FillJournal(p) \/ Persist(p) \/ PublishView(p) \/ Unlink(p)
  \/ Undo(p) \/ Confirm(p) \/ ReleaseLock(p)
  \/ RecheckDirect(p) \/ FinishDirect(p)

ProcStep(p) ==
  \/ (\E o \in Ops : Plan(p, o)) \/ Resume(p) \/ Progress(p)
  \/ StartDirect(p) \/ (\E w \in Direct : WriteDirect(p, w))
  \/ FailGuarded(p) \/ FailPlain(p) \/ Crash(p)

ReaderStep(r) ==
  \/ LoadCatalog(r) \/ CheckFence(r) \/ CheckGeneration(r)
  \/ (\E f \in Files \ {CatalogFile} : ReadObject(r, f)) \/ UseRead(r)

\* History: what was published at some moment of each read in progress.
Observe ==
  window' = [r \in Readers |-> IF rpc'[r] = "idle" THEN {} ELSE window[r] \union {Published'}]

Next ==
  /\ (\E p \in Procs : ProcStep(p)) \/ (\E r \in Readers : ReaderStep(r))
  /\ Observe

Spec == Init /\ [][Next]_vars

\* A live process keeps running its call, and some caller retries what is pending.
FairSpec ==
  /\ Spec
  /\ \A p \in Procs : WF_vars(Progress(p) /\ Observe) /\ WF_vars(Resume(p) /\ Observe)

-----------------------------------------------------------------------------
(* Properties *)

\* Every variable keeps to the values the code can put in it.
TypeOK ==
  /\ files \in [Files -> Contents]
  /\ marker \in Intents \union {None, Torn}
  /\ journal \in [Ops -> Intents \union {None, Torn}]
  /\ lock \in Procs \union {Free, Stale}
  /\ durable \subseteq Ops
  /\ acked \subseteq Ops
  /\ pc \in [Procs -> Phases]
  /\ intent \in [Procs -> Intents \union {None}]
  /\ todo \in [Procs -> SUBSET Files]
  /\ rpc \in [Readers -> ReaderPhases]
  /\ rcat \in [Readers -> Contents]
  /\ robj \in [Readers -> Files \X Contents]
  /\ window \in [Readers -> SUBSET [Files -> Contents]]
  /\ faults \in 0..MaxFaults

\* Only one live call is ever past acquireMutationLock, also after a dead owner's
\* lock was reclaimed.
OneWriter == \A p \in Procs : pc[p] \in Holding => lock = p

\* While the marker names a plan, each of its files holds exactly the text before or
\* after it, and all hold the latter once the plan's journal exists: recovery by the
\* same intent never meets a third text, whoever died or failed in between.
FenceHolds ==
  IsIntent(marker) =>
    \A f \in Writes[marker.op] :
      \/ files[f] = After[marker.op][f]
      \/ files[f] = marker.before[f] /\ journal[marker.op] = None

\* A plan takes effect, and a caller is told so, only after its persist call (critical:
\* commit, pointer and push) has been confirmed.
PublishedIsDurable == Committed \subseteq durable /\ acked \subseteq Committed

\* Readers that respect the fence see every plan as one atomic step.
Publication == INSTANCE AtomicPublication
  WITH published <- Published, committed <- Committed, saved <- durable

AtomicallyPublished == Publication!ASpec

\* What CatalogReader hands out was published together with the catalog it is bound
\* to, at some moment of the read.
ReadsAreCurrent ==
  \A r \in Readers : rpc[r] = "accepted" =>
    \E s \in window[r] : s[CatalogFile] = rcat[r] /\ s[robj[r][1]] = robj[r][2]

\* A plan left pending by a failure or a dead process is eventually completed or
\* withdrawn by retries of its recorded intent, unless its journal was torn.
PendingPlanResolves ==
  IsIntent(marker) ~> (marker = None \/ \E o \in Ops : journal[o] = Torn)

\* "a killed process leaves its transaction fenced but the exact intent can reclaim
\* the dead owner's lock": whatever is left behind, retries lower the fence again.
FenceIsLowered == (marker # None) ~> (marker = None)
=============================================================================
