-------------------------- MODULE MemoryPublication --------------------------
(***************************************************************************)
(* One CangHai repository shared by everything that writes its memory: the *)
(* working tree and its commits, the transaction of memory-transaction.ts  *)
(* as its callers use it, the durability they hand it, the owner who edits *)
(* and commits in the same repository, and the death of the one process.   *)
(*                                                                         *)
(* The slots of a plan are written in one step here, with its journal:     *)
(* MemoryTransaction, which implements AtomicPublication, shows that no    *)
(* reader and no retry can tell.  A plan's objects are not modelled apart  *)
(* from the catalog rows that name them.                                   *)
(***************************************************************************)
EXTENDS MemoryCatalog, Sequences

CONSTANTS
  Ops,       \* operation ids of the writers
  Scenarios, \* what one behaviour may meet, [callers, edits, faults]: the operations
             \* called, a bound on the owner's edits and one on the faults
  InitTree,  \* the repository at the start, committed and synchronized
  None,
  MaxCalls,  \* bound on calls under way at once
  MaxCommits \* bound on the commits a fresh plan may find

VARIABLES
  tree,      \* [catalog, fence, checkpoint, files]: the working tree
  log,       \* the commits, [tree, plan, request], the first the oldest
  remote,    \* how many of them the remote has
  synced,    \* the commit the process knows to be there; 0 in a new process
  marker,    \* the plan in .stella-memory-transaction.json
  journal,   \* the plans that have a journal file
  call,      \* call[o]: [pc, plan, head], the call of operation o
  stage,     \* stage[o]: the transcript stage file of ingest o
  callers,   \* the operations of this behaviour's scenario
  answered,  \* operations some caller was told had succeeded
  released,  \* events the Host was told to release
  edits,     \* how often the owner may still edit
  faults     \* how many calls may still fail, or the process die

repository == <<tree, log, remote, marker, journal, stage>>
history    == <<callers, answered, released>>
vars       == <<repository, synced, call, history, edits, faults>>

Slots == {"catalog", "fence", "checkpoint"}

\* Stages of one operation are plans of their own; only synchronization has a block.
PlanIds == Ops \X {"block", "final"}

\* No marker, no synchronization in the tree.
NoPlan  == [id |-> None]
NoFence == [phase |-> "none"]

Idle == [pc |-> "idle", plan |-> NoPlan, head |-> 0]
Holding == {"raised", "written", "pushed"}

LockFree == \A o \in Ops : call[o].pc \notin Holding

HEAD == Len(log)
Committed == log[HEAD].tree

\* git log -1 -- journalPath: a journal is committed once; 0 stands for no commit.
CommitOf(id) ==
  IF \E k \in 1..HEAD : log[k].plan = id THEN CHOOSE k \in 1..HEAD : log[k].plan = id ELSE 0

Dirty == {s \in DOMAIN tree : tree[s] # Committed[s]}
NoStageFile == \A o \in Ops : stage[o] = "none"

\* assertMemoryTransactionReadable, for everybody but the owner of the marker.
FenceReadable(t) == t.fence.phase \in {"none", "partial", "completed"}
TreeReadable == marker = NoPlan /\ FenceReadable(tree)

\* A file of the owner's read through its row: the digest must still match.
Intact(cat, r) ==
  cat.rows[r].at # Gone =>
    tree.files[cat.rows[r].at] = IF r.id = PolicyPath THEN r.version ELSE r.version.content

\* An open policy, its file as the catalog recorded it.
PolicyHolds(cat, p) == p \in PolicyRow(cat) /\ p.version = Open /\ Intact(cat, p)

Init ==
  /\ tree = InitTree
  /\ log = <<[tree |-> InitTree, plan |-> None, request |-> None]>>
  /\ remote = 1
  /\ synced = 1
  /\ marker = NoPlan
  /\ journal = {}
  /\ call = [o \in Ops |-> Idle]
  /\ stage = [o \in Ops |-> "none"]
  /\ \E scenario \in Scenarios :
       callers = scenario.callers /\ edits = scenario.edits /\ faults = scenario.faults
  /\ answered = {}
  /\ released = {}

-----------------------------------------------------------------------------
(* Calls.  A plan is [id, request, before, after]: what its caller asked for and
   the text of each slot it names before and after it. *)

\* A caller that was told of a success does not call again.
MayCall(o) == call[o] = Idle /\ o \in callers \ answered

Start(o, plan, head) ==
  /\ MayCall(o)
  /\ Cardinality({p \in Ops : call[p] # Idle}) < MaxCalls
  /\ call' = [call EXCEPT ![o] = [pc |-> "planned", plan |-> plan, head |-> head]]
  /\ UNCHANGED <<repository, synced, history, edits, faults>>

StartFresh(o, plan, head) == HEAD <= MaxCommits /\ Start(o, plan, head)

\* A plan out of its journal file, which is committed with what the plan left.
Journaled(id) ==
  LET k == CommitOf(id)
      named == {s \in Slots : log[k].tree[s] # log[k-1].tree[s]}
  IN [id |-> id, request |-> log[k].request,
      before |-> [s \in named |-> log[k-1].tree[s]], after |-> [s \in named |-> log[k].tree[s]]]

\* readRecordedMemoryTransaction: the marker first, then the journal.
Recorded(id) ==
  IF marker # NoPlan THEN (IF marker.id = id THEN marker ELSE NoPlan)
  ELSE IF id \in journal THEN Journaled(id) ELSE NoPlan

At(o, pc) == call[o].pc = pc
Goto(o, pc) == call' = [call EXCEPT ![o].pc = pc]
Finish(o) == call' = [call EXCEPT ![o] = Idle]

Before(plan) == \A s \in DOMAIN plan.before : tree[s] = plan.before[s]
After(plan)  == \A s \in DOMAIN plan.after : tree[s] = plan.after[s]

\* ports.persist commits the plan's own paths, unless a former try has.
Committing(plan) ==
  log' = IF CommitOf(plan.id) # 0 THEN log
         ELSE Append(log, [plan |-> plan.id, request |-> plan.request, tree |->
                [s \in DOMAIN tree |-> IF s \in DOMAIN plan.after THEN tree[s] ELSE Committed[s]]])

\* Variants, each the way the code could go wrong; no specification uses them.
RaisableStale(plan) == LockFree /\ marker \in {NoPlan, plan} /\ (plan.id \in journal => Recorded(plan.id) = plan)
PersistBelieved(o, allowed) ==
  /\ At(o, "written") /\ allowed
  /\ Committing(call[o].plan)
  /\ synced' = Len(log')
  /\ Goto(o, "pushed")
  /\ UNCHANGED <<tree, remote, marker, journal, stage, history, edits, faults>>

\* The checks of applyMemoryTransaction that precede the marker.
Raisable(plan) ==
  /\ LockFree
  /\ marker \in {NoPlan, plan}
  /\ plan.id \in journal => Recorded(plan.id) = plan
  /\ Before(plan) \/ (marker = plan /\ After(plan))

Replayed(plan) == LockFree /\ marker = NoPlan /\ Recorded(plan.id) = plan

Raise(o) ==
  /\ At(o, "planned")
  /\ Raisable(call[o].plan) /\ ~Replayed(call[o].plan)
  /\ marker' = call[o].plan
  /\ Goto(o, "raised")
  /\ UNCHANGED <<tree, log, remote, journal, stage, synced, history, edits, faults>>

\* confirmPreviouslyCommitted: what HEAD holds is pushed.
Reconfirm(o, allowed) ==
  /\ At(o, "planned")
  /\ Replayed(call[o].plan) /\ allowed
  /\ CommitOf(call[o].plan.id) # 0
  /\ synced' = HEAD
  /\ remote' = HEAD
  /\ Goto(o, "lowered")
  /\ UNCHANGED <<tree, log, marker, journal, stage, history, edits, faults>>

Refuse(o, allowed) ==
  /\ At(o, "planned")
  /\ IF Replayed(call[o].plan) THEN ~allowed ELSE ~Raisable(call[o].plan)
  /\ Finish(o)
  /\ UNCHANGED <<repository, synced, history, edits, faults>>

\* ports.validate passes; every slot and the journal are written.
Write(o, valid) ==
  LET plan == call[o].plan
  IN /\ At(o, "raised")
     /\ valid
     /\ tree' = [s \in DOMAIN tree |-> IF s \in DOMAIN plan.after THEN plan.after[s] ELSE tree[s]]
     /\ journal' = journal \cup {plan.id}
     /\ Goto(o, "written")
     /\ UNCHANGED <<log, remote, marker, stage, synced, history, edits, faults>>

\* ports.persist: committed, and HEAD is pushed, whoever committed it.
Persist(o, allowed) ==
  /\ At(o, "written")
  /\ allowed
  /\ Committing(call[o].plan)
  /\ remote' = Len(log')
  /\ synced' = Len(log')
  /\ Goto(o, "pushed")
  /\ UNCHANGED <<tree, marker, journal, stage, history, edits, faults>>

\* ports.publishView passes and the marker is unlinked.
Lower(o, allowed) ==
  /\ At(o, "pushed")
  /\ allowed
  /\ marker' = NoPlan
  /\ Goto(o, "lowered")
  /\ UNCHANGED <<tree, log, remote, journal, stage, synced, history, edits, faults>>

\* A rejected port: the marker goes only if nothing can have been replaced.
Undo(o) ==
  /\ marker' = IF call[o].plan.id \notin journal /\ Before(call[o].plan) THEN NoPlan ELSE marker
  /\ Finish(o)
  /\ UNCHANGED <<tree, remote, journal, stage, synced, history, edits>>

Reject(o, pc, allowed) == At(o, pc) /\ ~allowed /\ Undo(o) /\ UNCHANGED <<log, faults>>

\* The answer: told only if the process knows HEAD to be on the remote.
Answer(o, receipt) ==
  /\ At(o, "lowered")
  /\ answered' = IF receipt /\ synced = HEAD THEN answered \cup {o} ELSE answered
  /\ stage' = IF synced = HEAD THEN [stage EXCEPT ![o] = "none"] ELSE stage
  /\ Finish(o)
  /\ UNCHANGED <<tree, log, remote, marker, journal, synced, callers, released, edits, faults>>

-----------------------------------------------------------------------------
(* Faults and the owner. *)

Fault == faults > 0 /\ faults' = faults - 1

\* An abort signal, a failed read, write, commit or push of one call: a rejected
\* persist may have committed.
Fail(o) ==
  /\ Fault
  /\ call[o].pc \in Holding
  /\ Undo(o)
  /\ UNCHANGED log \/ (At(o, "written") /\ Committing(call[o].plan))

\* The process dies; its lock is reclaimed by whoever comes next.
Crash ==
  /\ Fault
  /\ call' = [o \in Ops |-> Idle]
  /\ synced' = 0
  /\ UNCHANGED <<repository, history, edits>>

\* durability.initialize in the new process.
Initialize ==
  /\ synced = 0
  /\ synced' = HEAD
  /\ remote' = HEAD
  /\ UNCHANGED <<tree, log, marker, journal, call, stage, history, edits, faults>>

\* The owner edits, removes or moves files of their own.
OwnerEdit(f) ==
  /\ edits > 0
  /\ edits' = edits - 1
  /\ f # tree.files
  /\ tree' = [tree EXCEPT !.files = f]
  /\ UNCHANGED <<log, remote, marker, journal, stage, synced, call, history, faults>>

\* The owner commits what they edited and nothing of Stella's.
OwnerCommit ==
  /\ "files" \in Dirty
  /\ log' = Append(log, [plan |-> None, request |-> None, tree |-> [Committed EXCEPT !.files = tree.files]])
  /\ UNCHANGED <<tree, remote, marker, journal, stage, synced, call, history, edits, faults>>
=============================================================================
