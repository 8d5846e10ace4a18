--------------------------- MODULE Synchronization ---------------------------
(***************************************************************************)
(* synchronize (canghai/synchronize.ts): the owner's commits between two   *)
(* revisions become a generation in two transactions, a block that raises  *)
(* the synchronization fence and a final plan that publishes the reassessed*)
(* catalog and settles the fence, for all affected cognition or in batches.*)
(*                                                                         *)
(* The fence is [phase, op, request, gen, parent, batch, pending,          *)
(* completed, affected, withdrawn]; a request is [from, to, gen, targets]. *)
(* toRevision is HEAD when a call starts, as assertTree demands; the model *)
(* (the reasoning one) may replace or withdraw each target as it likes.    *)
(***************************************************************************)
EXTENDS Corrections

CONSTANT Syncs  \* operations that synchronize

\* targetIds left out.
Everything == {}

Block(s) == <<s, "block">>
Final(s) == <<s, "final">>

\* assertTree: HEAD, and nothing uncommitted but the allowed slots.
AssertTree(revision, allowed) == HEAD = revision /\ Dirty \subseteq allowed /\ NoStageFile

\* Variants, each the way the code could go wrong; no specification uses them.
ForgottenInheritance(original) == {}
AffectedBefore(s, original, affected) ==
  IF original.fence.phase = "partial" THEN original.fence.affected ELSE {}

-----------------------------------------------------------------------------
\* Pending versions that no later change replaced.
Inherited(original) ==
  LET prior == original.fence
  IN IF prior.phase # "partial" THEN {}
     ELSE {r \in prior.pending : \A c \in Current(original.catalog) : c.id # r.id}

PendingFence(s, request) ==
  LET original  == log[request.from].tree
      prior     == original.fence
      continued == prior.phase = "partial"
      inherited == Inherited(original)
      settled   == {r.id : r \in prior.pending \ inherited}
  IN [phase     |-> IF continued /\ inherited # {} /\ request.from = request.to THEN "partial" ELSE "pending",
      op        |-> s,
      request   |-> request,
      gen       |-> original.catalog.generation,
      parent    |-> IF continued THEN prior.parent ELSE s,
      batch     |-> IF continued THEN prior.batch \cup {s} ELSE {s},
      pending   |-> inherited,
      completed |-> IF continued THEN prior.completed \cup settled ELSE {},
      affected  |-> {r.id : r \in CurrentCognition(original.catalog)}
                      \cup IF continued THEN prior.affected ELSE {},
      withdrawn |-> {}]

\* A pending fence is taken over only from the same revision and generation.
TakenOver(s, request) ==
  tree.fence.phase = "pending" =>
    /\ tree.fence.request.from = request.from
    /\ tree.fence.gen = request.gen
    /\ tree.fence.op # s

\* recorded: while another stage's marker is up, a stage still finds its own journal.
OwnRecord(id) == IF marker.id # id /\ id \in journal THEN Journaled(id) ELSE Recorded(id)

\* A first call: the catalog did not change between the two revisions.
PlanBlock(s, request) ==
  LET original == log[request.from].tree
      continued == original.fence.phase = "partial"
  IN /\ MayCall(s) /\ OwnRecord(Block(s)) = NoPlan /\ OwnRecord(Final(s)) = NoPlan
     /\ request.to = HEAD /\ request.from \in 1..request.to
     /\ original.catalog = Committed.catalog
     /\ request.gen = original.catalog.generation
     /\ continued => s \notin original.fence.batch
     /\ AssertTree(request.to, {})
     /\ TakenOver(s, request)
     /\ StartFresh(s, [id |-> Block(s), request |-> request,
          before |-> [fence |-> tree.fence],
          after  |-> [fence |-> PendingFence(s, request)]], request.to)

\* A recorded block whose final plan is not: its own commit, if any, is on toRevision.
ResumeBlock(s) ==
  LET plan == OwnRecord(Block(s))
  IN /\ plan # NoPlan /\ OwnRecord(Final(s)) = NoPlan
     /\ Start(s, plan, plan.request.to)

\* A recorded final plan is published again, on the commit of its block.
ResumeFinal(s) ==
  /\ OwnRecord(Final(s)) # NoPlan
  /\ CommitOf(Block(s)) # 0
  /\ Start(s, OwnRecord(Final(s)), CommitOf(Block(s)))

-----------------------------------------------------------------------------
(* apply: the ports of both transactions.  revision is the plan's own commit, whose
   parent must be the expected one, or else the expected revision. *)
Based(s) == CommitOf(call[s].plan.id) \in {0, call[s].head + 1}
Revision(s) ==
  IF CommitOf(call[s].plan.id) # 0 THEN CommitOf(call[s].plan.id) ELSE call[s].head

SyncValid(s) == Based(s) /\ AssertTree(Revision(s), DOMAIN call[s].plan.after)
SyncPersist(s) == SyncValid(s) /\ After(call[s].plan)
SyncConfirmed(s) ==
  /\ Based(s) /\ AssertTree(Revision(s), {})
  /\ call[s].plan.id = Final(s) => After(call[s].plan)
SyncPublished(s) ==
  /\ CommitOf(call[s].plan.id) = call[s].head + 1
  /\ AssertTree(CommitOf(call[s].plan.id), {})

\* The block is down: what diagnostics says is HEAD is the block's revision from here.
Judge(s) ==
  /\ At(s, "lowered") /\ call[s].plan.id = Block(s)
  /\ call' = [call EXCEPT ![s].pc = "judging", ![s].head = HEAD]
  /\ UNCHANGED <<repository, synced, history, edits, faults>>

\* The reasoning is abandoned: a moved tree, a source that cannot be read, a failed
\* completion, a rejected verdict.
AbandonJudgement(s) ==
  /\ At(s, "judging")
  /\ Finish(s)
  /\ UNCHANGED <<repository, synced, history, edits, faults>>

\* What this batch affects, with what the batches it continues affected.
EverAffected(s, original, affected) ==
  {r.id : r \in affected}
    \cup IF original.fence.phase = "partial" THEN original.fence.affected ELSE {}

\* The fence a batch leaves: what it did not judge is pending.
SettledFence(s, fence, original, affected, targets, withdrawn) ==
  LET pending == affected \ targets
  IN [fence EXCEPT !.phase = IF pending = {} THEN "completed" ELSE "partial",
        !.gen = s, !.pending = pending, !.withdrawn = withdrawn,
        !.completed = (@ \ {r.id : r \in affected}) \cup {r.id : r \in targets},
        !.affected = EverAffected(s, original, affected)]

\* The plan over what the new look at the files found: every target is replaced
\* on what can be read now, or withdrawn.
Settles(s, found) ==
  LET request  == call[s].plan.request
      fence    == call[s].plan.after.fence
      original == log[request.from].tree
      unjudged == [original.catalog EXCEPT !.rows = found.rows]
      affected == found.affected \cup Inherited(original)
      targets  == {r \in affected : request.targets = Everything \/ r.id \in request.targets}
  IN /\ WellFormed(unjudged)
     /\ request.targets \subseteq {r.id : r \in targets}
     /\ \A r \in affected \ targets, c \in Current(unjudged) : c.id # r.id
     /\ \A r \in Readable(unjudged) \cup PolicyRow(unjudged) : Intact(unjudged, r)
     /\ \E withdrawn \in SUBSET {r.id : r \in targets} :
        \E support \in IF withdrawn = {r.id : r \in targets} THEN {{}} ELSE {{r} : r \in Readable(unjudged)} :
          LET replaced == {r.id : r \in targets} \ withdrawn
              after == Successor(original.catalog, Replaced(found.rows, [id \in replaced |-> support], s), s)
          IN /\ WellFormed(after)
             /\ call' = [call EXCEPT ![s].pc = "planned", ![s].plan =
                  [id |-> Final(s), request |-> request,
                   before |-> [catalog |-> original.catalog, fence |-> fence],
                   after  |-> [catalog |-> after,
                     fence |-> SettledFence(s, fence, original, affected, targets, withdrawn)]]]

PlanFinal(s) ==
  LET request  == call[s].plan.request
      original == log[request.from].tree
      to       == log[request.to].tree.files
  IN /\ At(s, "judging")
     /\ AssertTree(call[s].head, {})
     /\ marker = NoPlan /\ tree.fence = call[s].plan.after.fence
     /\ ~AmbiguousMove(original.files, to)
     /\ \E found \in {ReassessedRows(original.catalog, original.files, to, request.to)} : Settles(s, found)
     /\ UNCHANGED <<repository, synced, history, edits, faults>>

\* readReceipt: the settled fence is still this operation's.
Receipt(s) ==
  /\ call[s].plan.id = Final(s)
  /\ tree.fence.op = s /\ tree.fence.phase \in {"partial", "completed"}
=============================================================================
