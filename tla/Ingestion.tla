------------------------------ MODULE Ingestion ------------------------------
(***************************************************************************)
(* Archiving an upstream conversation page by page: ingest                 *)
(* with its checkpoint (canghai/ingest.ts, ingest-progress.ts) and the     *)
(* release of archived events (archive-cleanup.ts).  One feed; page n      *)
(* takes its cursor from n-1 to n.  A checkpoint is [cursor, op, rows],    *)
(* rows the archived sources of its page.                                  *)
(***************************************************************************)
EXTENDS MemoryPublication

CONSTANTS
  Ingests,  \* operations that ingest
  Page,     \* Page[i]: the page operation i archives
  Events,   \* Events[n]: the events of page n, [id, content]
  Late      \* operations whose attachments may arrive after the first call

EventIds == UNION {{event.id : event \in Events[n]} : n \in DOMAIN Events}

\* The admissions of the request against the policy in force.
Admissible == TreeReadable /\ \E p \in PolicyRow(tree.catalog) : PolicyHolds(tree.catalog, p)

\* 0 stands for no checkpoint.
Cursor(t) == t.checkpoint.cursor

\* prepareCheckpoint: the page's cursor and the coverage of what it archived.
NextCheckpoint(i, policy) ==
  [cursor |-> Page[i], op |-> i, rows |-> {EventRef(event, i, policy) : event \in Events[Page[i]]}]

\* Variants, each the way the code could go wrong; no specification uses them.
IngestValidUnfenced(plan) == PolicyHolds(tree.catalog, plan.request)
PlanIngestAnywhere(i) ==
  LET before == tree.catalog
      policy == CHOOSE p \in PolicyRow(before) : TRUE
      rows   == ArchiveRows(before, Events[Page[i]], i, policy)
      after  == [before EXCEPT !.generation = i, !.parent = before.generation, !.rows = rows]
  IN /\ Recorded(<<i, "final">>) = NoPlan /\ Admissible /\ stage[i] # "torn"
     /\ StartFresh(i, [id |-> <<i, "final">>, request |-> policy,
          before |-> [catalog |-> before, checkpoint |-> tree.checkpoint],
          after  |-> [catalog |-> after, checkpoint |-> NextCheckpoint(i, policy)]], 0)
ReleaseEarly ==
  /\ LockFree /\ Cursor(tree) > 0
  /\ released' = released \cup Events[tree.checkpoint.cursor]
  /\ UNCHANGED <<repository, synced, call, callers, answered, edits, faults>>

-----------------------------------------------------------------------------
\* A first call whose attachments are still to be fetched leaves its declaration.
DeclareStage(i) ==
  /\ i \in Late \cap callers
  /\ call[i] = Idle /\ Recorded(<<i, "final">>) = NoPlan
  /\ Admissible
  /\ stage[i] = "none"
  /\ stage' = [stage EXCEPT ![i] = "declared"]
  /\ UNCHANGED <<tree, log, remote, marker, journal, synced, call, history, edits, faults>>

\* The declaration is written in place: a process that dies there leaves half of it.
TearStage(i) ==
  /\ i \in Late \cap callers
  /\ Fault
  /\ call[i] = Idle /\ Recorded(<<i, "final">>) = NoPlan
  /\ Admissible
  /\ stage[i] \in {"none", "declared"}
  /\ stage' = [stage EXCEPT ![i] = "torn"]
  /\ call' = [o \in Ops |-> Idle]
  /\ synced' = 0
  /\ UNCHANGED <<tree, log, remote, marker, journal, history, edits>>

\* A fresh page, complete: archive and checkpoint in one plan.  No rebuild is ever
\* supplied to an ingest, and a half-written declaration does not parse.
PlanIngest(i) ==
  LET before == tree.catalog
      page   == Events[Page[i]]
      policy == CHOOSE p \in PolicyRow(before) : TRUE
      rows   == ArchiveRows(before, page, i, policy)
      after  == [before EXCEPT !.generation = i, !.parent = before.generation, !.rows = rows]
  IN /\ MayCall(i) /\ Recorded(<<i, "final">>) = NoPlan
     /\ Admissible
     /\ stage[i] # "torn"
     /\ Cursor(tree) = Page[i] - 1
     /\ Archivable(before, page, i, policy)
     /\ ~ViewNeedsRebuild(before, after)
     /\ StartFresh(i, [id |-> <<i, "final">>, request |-> policy,
          before |-> [catalog |-> before, checkpoint |-> tree.checkpoint],
          after  |-> [catalog |-> after, checkpoint |-> NextCheckpoint(i, policy)]], 0)

\* A recorded plan is resumed as it is, before anything is read.
ResumeIngest(i) ==
  /\ Recorded(<<i, "final">>) # NoPlan
  /\ Start(i, Recorded(<<i, "final">>), 0)

\* validate: nobody else's fence, and the policy of the request still holds.
IngestValid(plan) == FenceReadable(tree) /\ PolicyHolds(tree.catalog, plan.request)

\* verifyArchiveCoverage: every original of the checkpoint's page is read again.
CoverageReadable ==
  /\ Cursor(tree) > 0
  /\ tree.checkpoint.rows \subseteq Readable(tree.catalog)
  /\ \A p \in PolicyRow(tree.catalog) : PolicyHolds(tree.catalog, p)

\* coordinateArchiveCleanup, resumeIngestCursor included: the page of the checkpoint.
Release ==
  /\ LockFree /\ TreeReadable
  /\ CoverageReadable
  /\ Dirty = {} /\ NoStageFile
  /\ synced' = HEAD
  /\ remote' = HEAD
  /\ released' = released \cup Events[tree.checkpoint.cursor]
  /\ UNCHANGED <<tree, log, marker, journal, call, stage, callers, answered, edits, faults>>
=============================================================================
