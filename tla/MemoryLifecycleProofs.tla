------------------------ MODULE MemoryLifecycleProofs ------------------------
(***************************************************************************)
(* That the invariants of MemoryLifecycle hold for any operations, pages,  *)
(* files and repository to start from.                                     *)
(***************************************************************************)
EXTENDS MemoryCatalogProofs

Fields == Slots \cup {"files"}

CallShape == DOMAIN call = Ops /\ \A o \in Ops : DOMAIN call[o] = {"pc", "plan", "head"}

TreeShape == DOMAIN tree = Fields /\ \A k \in 1..HEAD : DOMAIN log[k].tree = Fields

Shape == CallShape /\ TreeShape /\ HEAD \in Nat \ {0} /\ \E S : log \in Seq(S)

\* The plans that are committed.
Done == {log[k].plan : k \in 1..HEAD}
Kept(id) == id \in Done

-----------------------------------------------------------------------------
(* What a step does to the calls, the repository and the marker. *)

Others(o) == \A p \in Ops \ {o} : call'[p] = call[p]

Goes(o, from, to) ==
  /\ call[o].pc = from /\ call'[o].pc = to /\ Others(o)
  /\ call'[o].plan = call[o].plan /\ call'[o].head = call[o].head

Quiet == UNCHANGED <<log, marker, journal>> /\ \A s \in Slots : tree'[s] = tree[s]

\* Calls end, the owner edits, the process learns of the remote or dies.
Aside == Quiet /\ \A o \in Ops : call'[o] \in {call[o], Idle}

Appended(entry) ==
  HEAD' = HEAD + 1 /\ log'[HEAD + 1] = entry /\ \A k \in 1..HEAD : log'[k] = log[k]

Resumes(o) ==
  \E id \in {<<o, "block">>, <<o, "final">>} :
    /\ \E plan \in {Recorded(id), OwnRecord(id)} : plan # NoPlan /\ call'[o].plan = plan
    /\ o \notin Syncs => id = <<o, "final">>
    /\ id = <<o, "block">> => call'[o].head = call'[o].plan.request.to

Begins(o) ==
  /\ Quiet /\ Others(o) /\ call[o] = Idle /\ call'[o].pc = "planned"
  /\ \/ Resumes(o)
     \/ o \in Ingests /\ PlanIngest(o)
     \/ o \in Corrects /\ \E e \in Refs(tree.catalog) : PlanCorrection(o, e)
     \/ o \in Syncs /\ \E request \in SyncRequests : PlanBlock(o, request)

Raises(o) ==
  /\ Goes(o, "planned", "raised") /\ UNCHANGED <<tree, log, journal>>
  /\ Raisable(call[o].plan) /\ ~Replayed(call[o].plan) /\ marker' = call[o].plan

Confirms(o) ==
  Goes(o, "planned", "lowered") /\ Quiet /\ Replayed(call[o].plan) /\ Kept(call[o].plan.id)

\* What the ports of each writer look at before anything is written.
Valid(o) == IF o \in Syncs THEN SyncValid(o) ELSE FenceReadable(tree)

Writes(o) ==
  /\ Goes(o, "raised", "written") /\ Valid(o) /\ UNCHANGED <<log, marker>>
  /\ journal' = journal \cup {call[o].plan.id}
  /\ \A s \in Slots : tree'[s] = IF s \in DOMAIN call[o].plan.after THEN call[o].plan.after[s] ELSE tree[s]

Entry(plan) ==
  [plan |-> plan.id, request |-> plan.request, tree |->
     [s \in DOMAIN tree |-> IF s \in DOMAIN plan.after THEN tree[s] ELSE Committed[s]]]

Commits(plan) == IF Kept(plan.id) THEN log' = log ELSE Appended(Entry(plan))

Persists(o) == Goes(o, "written", "pushed") /\ UNCHANGED <<tree, marker, journal>> /\ Commits(call[o].plan)

Lowers(o) == Goes(o, "pushed", "lowered") /\ UNCHANGED <<tree, log, journal>> /\ marker' = NoPlan

Undoes(o) ==
  /\ call[o].pc \in Holding /\ call'[o] = Idle /\ Others(o) /\ UNCHANGED <<tree, journal>>
  /\ marker' = IF call[o].plan.id \notin journal /\ Before(call[o].plan) THEN NoPlan ELSE marker
  /\ log' = log \/ (call[o].pc = "written" /\ Commits(call[o].plan))

Judges(o) ==
  /\ o \in Syncs /\ Quiet /\ Others(o) /\ call[o].pc = "lowered" /\ call[o].plan.id = Block(o)
  /\ call'[o].pc = "judging" /\ call'[o].plan = call[o].plan

Finalizes(o) == o \in Syncs /\ PlanFinal(o) /\ Quiet /\ Others(o) /\ call'[o].pc = "planned"

OwnerCommits ==
  /\ UNCHANGED <<tree, marker, journal, call>>
  /\ Appended([plan |-> None, request |-> None, tree |-> [Committed EXCEPT !.files = tree.files]])

Effect(o) ==
  \/ Begins(o) \/ Raises(o) \/ Confirms(o) \/ Writes(o) \/ Persists(o)
  \/ Lowers(o) \/ Undoes(o) \/ Judges(o) \/ Finalizes(o)

-----------------------------------------------------------------------------
(* Every step has one of these effects and keeps the shape of the state. *)

LEMMA Keeping ==
  ASSUME NEW id, Shape
  PROVE  /\ CommitOf(id) # 0 <=> Kept(id)
         /\ Kept(id) => CommitOf(id) \in 1..HEAD /\ log[CommitOf(id)].plan = id
<1>1. CASE Kept(id)
  <2>1. CommitOf(id) = CHOOSE k \in 1..HEAD : log[k].plan = id
    BY <1>1 DEF CommitOf, Kept, Done
  <2>2. CommitOf(id) \in 1..HEAD /\ log[CommitOf(id)].plan = id
    BY <1>1, <2>1 DEF Kept, Done
  <2>3. QED BY <1>1, <2>2 DEF Shape
<1>2. CASE ~Kept(id)
  BY <1>2 DEF CommitOf, Kept, Done
<1>3. QED BY <1>1, <1>2

LEMMA Appending ==
  ASSUME Shape, NEW entry, DOMAIN entry.tree = Fields, log' = Append(log, entry)
  PROVE  /\ Appended(entry) /\ HEAD' \in Nat \ {0} /\ \E S : log' \in Seq(S)
         /\ \A k \in 1..HEAD' : DOMAIN log'[k].tree = Fields
<1>1. PICK S : log \in Seq(S)
  BY DEF Shape
<1>2. /\ log' \in Seq(S \cup {entry}) /\ Len(log') = Len(log) + 1
      /\ log'[Len(log) + 1] = entry /\ \A k \in 1..Len(log) : log'[k] = log[k]
  BY <1>1
<1>3. Appended(entry) /\ HEAD' \in Nat \ {0}
  BY <1>1, <1>2 DEF Appended, HEAD, Shape
<1>4. \A k \in 1..HEAD' : DOMAIN log'[k].tree = Fields
  BY <1>2, <1>3 DEF HEAD, Shape, TreeShape
<1>5. QED BY <1>2, <1>3, <1>4

LEMMA CommittingIt ==
  ASSUME Shape, NEW plan, Committing(plan)
  PROVE  /\ Commits(plan) /\ HEAD' \in Nat \ {0} /\ \E S : log' \in Seq(S)
         /\ \A k \in 1..HEAD' : DOMAIN log'[k].tree = Fields
<1>1. CASE Kept(plan.id)
  <2>1. log' = log
    BY <1>1, Keeping DEF Committing
  <2>2. QED BY <1>1, <2>1 DEF Commits, Shape, TreeShape, HEAD
<1>2. CASE ~Kept(plan.id)
  <2>1. log' = Append(log, Entry(plan))
    BY <1>2, Keeping DEF Committing, Entry
  <2>2. DOMAIN Entry(plan).tree = Fields
    BY DEF Entry, Shape, TreeShape
  <2>3. QED BY <1>2, <2>1, <2>2, Appending DEF Commits
<1>3. QED BY <1>1, <1>2

LEMMA Going ==
  ASSUME CallShape, NEW o \in Ops, NEW to, Goto(o, to)
  PROVE  CallShape' /\ Goes(o, call[o].pc, to)
BY DEF CallShape, Goto, Goes, Others

LEMMA Finishing ==
  ASSUME CallShape, NEW o \in Ops, Finish(o)
  PROVE  CallShape' /\ call'[o] = Idle /\ Others(o)
BY DEF CallShape, Finish, Idle, Others

LEMMA Quieting ==
  ASSUME Shape, UNCHANGED <<tree, log>>, CallShape'
  PROVE  Shape' /\ \A s \in Slots : tree'[s] = tree[s]
BY DEF Shape, TreeShape, HEAD, Slots

LEMMA Starting ==
  ASSUME Shape, NEW o \in Ops, NEW plan, NEW head, Start(o, plan, head)
  PROVE  /\ Shape' /\ Quiet /\ Others(o) /\ call[o] = Idle
         /\ call'[o].pc = "planned" /\ call'[o].plan = plan /\ call'[o].head = head
<1>1. /\ call' = [call EXCEPT ![o] = [pc |-> "planned", plan |-> plan, head |-> head]]
      /\ call[o] = Idle /\ UNCHANGED <<tree, log, marker, journal>>
  BY DEF Start, MayCall, repository
<1>2. CallShape' /\ Others(o) /\ call'[o] = [pc |-> "planned", plan |-> plan, head |-> head]
  BY <1>1 DEF Shape, CallShape, Others
<1>3. QED BY <1>1, <1>2, Quieting DEF Quiet

LEMMA Raising ==
  ASSUME Shape, NEW o \in Ops, Raise(o)
  PROVE  Shape' /\ Raises(o)
<1>1. CallShape' /\ Goes(o, "planned", "raised")
  BY Going DEF Raise, At, Shape
<1>2. QED BY <1>1, Quieting DEF Raise, Raises

LEMMA Confirming ==
  ASSUME Shape, NEW o \in Ops, NEW allowed, Reconfirm(o, allowed)
  PROVE  Shape' /\ Confirms(o)
<1>1. CallShape' /\ Goes(o, "planned", "lowered")
  BY Going DEF Reconfirm, At, Shape
<1>2. QED BY <1>1, Quieting, Keeping DEF Reconfirm, Confirms, Quiet

LEMMA Writing ==
  ASSUME Shape, NEW o \in Ops, NEW valid, Write(o, valid), valid => Valid(o)
  PROVE  Shape' /\ Writes(o)
<1>1. CallShape' /\ Goes(o, "raised", "written")
  BY Going DEF Write, At, Shape
<1> DEFINE plan == call[o].plan
<1>2. /\ tree' = [s \in DOMAIN tree |-> IF s \in DOMAIN plan.after THEN plan.after[s] ELSE tree[s]]
      /\ UNCHANGED <<log, marker>> /\ journal' = journal \cup {plan.id} /\ valid
  BY DEF Write
<1>3. DOMAIN tree = Fields
  BY DEF Shape, TreeShape
<1>4. \A s \in Slots : tree'[s] = IF s \in DOMAIN plan.after THEN plan.after[s] ELSE tree[s]
  BY <1>2, <1>3 DEF Fields
<1>5. QED BY <1>1, <1>2, <1>3, <1>4 DEF Writes, Shape, TreeShape, HEAD

LEMMA Persisting ==
  ASSUME Shape, NEW o \in Ops, NEW allowed, Persist(o, allowed)
  PROVE  Shape' /\ Persists(o)
<1>1. CallShape' /\ Goes(o, "written", "pushed")
  BY Going DEF Persist, At, Shape
<1>2. UNCHANGED <<tree, marker, journal>> /\ Committing(call[o].plan)
  BY DEF Persist
<1>3. QED BY <1>1, <1>2, CommittingIt DEF Persists, Shape, TreeShape

LEMMA Lowering ==
  ASSUME Shape, NEW o \in Ops, NEW allowed, Lower(o, allowed)
  PROVE  Shape' /\ Lowers(o)
<1>1. CallShape' /\ Goes(o, "pushed", "lowered")
  BY Going DEF Lower, At, Shape
<1>2. QED BY <1>1, Quieting DEF Lower, Lowers

LEMMA Undoing ==
  ASSUME Shape, NEW o \in Ops, Undo(o), call[o].pc \in Holding,
         UNCHANGED log \/ (At(o, "written") /\ Committing(call[o].plan))
  PROVE  Shape' /\ Undoes(o)
<1>1. /\ CallShape' /\ call'[o] = Idle /\ Others(o) /\ UNCHANGED <<tree, journal>>
      /\ marker' = IF call[o].plan.id \notin journal /\ Before(call[o].plan) THEN NoPlan ELSE marker
  BY Finishing DEF Undo, Shape
<1>2. CASE UNCHANGED log
  BY <1>1, <1>2, Quieting DEF Undoes
<1>3. CASE At(o, "written") /\ Committing(call[o].plan)
  BY <1>1, <1>3, CommittingIt DEF Undoes, Shape, TreeShape, At
<1>4. QED BY <1>2, <1>3

LEMMA Ending ==
  ASSUME Shape, UNCHANGED <<tree, log, marker, journal>>,
         CallShape', \A o \in Ops : call'[o] \in {call[o], Idle}
  PROVE  Shape' /\ Aside
BY Quieting DEF Aside, Quiet

LEMMA Dropping ==
  ASSUME Shape, NEW o \in Ops, Finish(o), UNCHANGED <<tree, log, marker, journal>>
  PROVE  Shape' /\ Aside
<1>1. CallShape' /\ \A p \in Ops : call'[p] \in {call[p], Idle}
  BY Finishing DEF Shape, Others
<1>2. QED BY <1>1, Ending

LEMMA Dying ==
  ASSUME Shape, call' = call \/ call' = [o \in Ops |-> Idle], UNCHANGED <<tree, log, marker, journal>>
  PROVE  Shape' /\ Aside
<1>1. CallShape' /\ \A p \in Ops : call'[p] \in {call[p], Idle}
  BY DEF Shape, CallShape, Idle
<1>2. QED BY <1>1, Ending

LEMMA IngestEffect ==
  ASSUME Shape, NEW i \in Ingests, IngestStep(i)
  PROVE  Shape' /\ (Aside \/ Effect(i))
<1>1. i \in Ops /\ i \notin Syncs
  BY OperationsAssumption DEF OperationsAssumption
<1>2. CASE DeclareStage(i)
  BY <1>2, Dying DEF DeclareStage
<1>3. CASE TearStage(i)
  BY <1>3, Dying DEF TearStage
<1>4. CASE PlanIngest(i)
  BY <1>1, <1>4, Starting DEF PlanIngest, StartFresh, Effect, Begins
<1>5. CASE ResumeIngest(i)
  <2>1. Recorded(<<i, "final">>) # NoPlan /\ Start(i, Recorded(<<i, "final">>), 0)
    BY <1>5 DEF ResumeIngest
  <2>2. /\ Shape' /\ Quiet /\ Others(i) /\ call[i] = Idle
        /\ call'[i].pc = "planned" /\ call'[i].plan = Recorded(<<i, "final">>)
    BY <1>1, <2>1, Starting
  <2>3. Resumes(i)
    BY <2>1, <2>2 DEF Resumes
  <2>4. QED BY <2>2, <2>3 DEF Effect, Begins
<1>6. CASE Raise(i) \/ Reconfirm(i, TRUE) \/ Persist(i, TRUE) \/ Lower(i, FenceReadable(tree))
  BY <1>1, <1>6, Raising, Confirming, Persisting, Lowering DEF Effect
<1>7. CASE Refuse(i, TRUE)
  BY <1>1, <1>7, Dropping DEF Refuse, repository
<1>8. CASE Write(i, IngestValid(call[i].plan))
  BY <1>1, <1>8, Writing DEF Valid, IngestValid, Effect
<1>9. CASE Reject(i, "raised", IngestValid(call[i].plan)) \/ Fail(i)
  BY <1>1, <1>9, Undoing DEF Reject, Fail, At, Holding, Effect
<1>10. CASE Answer(i, TRUE)
  BY <1>1, <1>10, Dropping DEF Answer
<1>11. QED BY <1>2, <1>3, <1>4, <1>5, <1>6, <1>7, <1>8, <1>9, <1>10 DEF IngestStep

LEMMA CorrectEffect ==
  ASSUME Shape, NEW k \in Corrects, CorrectStep(k)
  PROVE  Shape' /\ (Aside \/ Effect(k))
<1>1. k \in Ops /\ k \notin Syncs
  BY OperationsAssumption DEF OperationsAssumption
<1>2. CASE \E e \in Refs(tree.catalog) : PlanCorrection(k, e)
  <2>1. PICK e \in Refs(tree.catalog) : PlanCorrection(k, e)
    BY <1>2
  <2>2. Shape' /\ Quiet /\ Others(k) /\ call[k] = Idle /\ call'[k].pc = "planned"
    BY <1>1, <2>1, Starting DEF PlanCorrection, StartFresh
  <2>3. QED BY <1>2, <2>2 DEF Effect, Begins
<1>3. CASE ResumeCorrection(k)
  <2>1. Recorded(<<k, "final">>) # NoPlan /\ Start(k, Recorded(<<k, "final">>), 0)
    BY <1>3 DEF ResumeCorrection
  <2>2. /\ Shape' /\ Quiet /\ Others(k) /\ call[k] = Idle
        /\ call'[k].pc = "planned" /\ call'[k].plan = Recorded(<<k, "final">>)
    BY <1>1, <2>1, Starting
  <2>3. Resumes(k)
    BY <2>1, <2>2 DEF Resumes
  <2>4. QED BY <2>2, <2>3 DEF Effect, Begins
<1>4. CASE Raise(k) \/ Reconfirm(k, CorrectionConfirmed(call[k].plan)) \/ Persist(k, TRUE) \/ Lower(k, FenceReadable(tree))
  BY <1>1, <1>4, Raising, Confirming, Persisting, Lowering DEF Effect
<1>5. CASE Refuse(k, CorrectionConfirmed(call[k].plan))
  BY <1>1, <1>5, Dropping DEF Refuse, repository
<1>6. CASE Write(k, CorrectionValid(call[k].plan))
  BY <1>1, <1>6, Writing DEF Valid, CorrectionValid, Effect
<1>7. CASE Reject(k, "raised", CorrectionValid(call[k].plan)) \/ Fail(k)
  BY <1>1, <1>7, Undoing DEF Reject, Fail, At, Holding, Effect
<1>8. CASE Answer(k, TRUE)
  BY <1>1, <1>8, Dropping DEF Answer
<1>9. QED BY <1>2, <1>3, <1>4, <1>5, <1>6, <1>7, <1>8 DEF CorrectStep

LEMMA SyncEffect ==
  ASSUME Shape, NEW s \in Syncs, SyncStep(s)
  PROVE  Shape' /\ (Aside \/ Effect(s))
<1>1. s \in Ops
  BY OperationsAssumption DEF OperationsAssumption
<1>2. CASE \E request \in SyncRequests : PlanBlock(s, request)
  <2>1. PICK request \in SyncRequests : PlanBlock(s, request)
    BY <1>2
  <2>2. Shape' /\ Quiet /\ Others(s) /\ call[s] = Idle /\ call'[s].pc = "planned"
    BY <1>1, <2>1, Starting DEF PlanBlock, StartFresh
  <2>3. QED BY <1>2, <2>2 DEF Effect, Begins
<1>3. CASE ResumeBlock(s)
  <2>1. OwnRecord(<<s, "block">>) # NoPlan
        /\ Start(s, OwnRecord(<<s, "block">>), OwnRecord(<<s, "block">>).request.to)
    BY <1>3 DEF ResumeBlock, Block
  <2>2. /\ Shape' /\ Quiet /\ Others(s) /\ call[s] = Idle
        /\ call'[s].pc = "planned" /\ call'[s].plan = OwnRecord(<<s, "block">>)
        /\ call'[s].head = OwnRecord(<<s, "block">>).request.to
    BY <1>1, <2>1, Starting
  <2>3. Resumes(s)
    BY <2>1, <2>2 DEF Resumes
  <2>4. QED BY <2>2, <2>3 DEF Effect, Begins
<1>4. CASE ResumeFinal(s)
  <2>1. OwnRecord(<<s, "final">>) # NoPlan /\ Start(s, OwnRecord(<<s, "final">>), CommitOf(Block(s)))
    BY <1>4 DEF ResumeFinal, Final
  <2>2. /\ Shape' /\ Quiet /\ Others(s) /\ call[s] = Idle
        /\ call'[s].pc = "planned" /\ call'[s].plan = OwnRecord(<<s, "final">>)
    BY <1>1, <2>1, Starting
  <2>3. Resumes(s)
    BY <2>1, <2>2 DEF Resumes
  <2>4. QED BY <2>2, <2>3 DEF Effect, Begins
<1>5. CASE Raise(s) \/ Reconfirm(s, SyncConfirmed(s)) \/ Persist(s, SyncPersist(s)) \/ Lower(s, SyncPublished(s))
  BY <1>1, <1>5, Raising, Confirming, Persisting, Lowering DEF Effect
<1>6. CASE Refuse(s, SyncConfirmed(s))
  BY <1>1, <1>6, Dropping DEF Refuse, repository
<1>7. CASE Write(s, SyncValid(s))
  BY <1>1, <1>7, Writing DEF Valid, Effect
<1>8. CASE \/ Reject(s, "raised", SyncValid(s)) \/ Reject(s, "written", SyncPersist(s))
           \/ Reject(s, "pushed", SyncPublished(s)) \/ Fail(s)
  BY <1>1, <1>8, Undoing DEF Reject, Fail, At, Holding, Effect
<1>9. CASE Judge(s)
  <2>1. /\ call' = [call EXCEPT ![s].pc = "judging", ![s].head = HEAD]
        /\ call[s].pc = "lowered" /\ call[s].plan.id = Block(s) /\ UNCHANGED <<tree, log, marker, journal>>
    BY <1>9 DEF Judge, At, repository
  <2>2. /\ CallShape' /\ Others(s) /\ call'[s].pc = "judging" /\ call'[s].plan = call[s].plan
    BY <1>1, <2>1 DEF Shape, CallShape, Others
  <2>3. QED BY <2>1, <2>2, Quieting DEF Effect, Judges, Quiet
<1>10. CASE AbandonJudgement(s) \/ (call[s].plan.id = Final(s) /\ Answer(s, Receipt(s)))
  BY <1>1, <1>10, Dropping DEF AbandonJudgement, Answer, repository
<1>11. CASE PlanFinal(s)
  <2>1. UNCHANGED <<tree, log, marker, journal>> /\ \E plan : call' = [call EXCEPT ![s].pc = "planned", ![s].plan = plan]
    BY <1>11 DEF PlanFinal, Settles, repository
  <2>2. CallShape' /\ Others(s) /\ call'[s].pc = "planned"
    BY <1>1, <2>1 DEF Shape, CallShape, Others
  <2>3. QED BY <1>11, <2>1, <2>2, Quieting DEF Effect, Finalizes, Quiet
<1>12. QED BY <1>2, <1>3, <1>4, <1>5, <1>6, <1>7, <1>8, <1>9, <1>10, <1>11 DEF SyncStep

LEMMA OwnerEffect ==
  ASSUME Shape, OwnerStep
  PROVE  Shape' /\ (Aside \/ OwnerCommits)
<1>1. ASSUME NEW f, OwnerEdit(f) PROVE Shape' /\ Aside
  <2>1. tree' = [tree EXCEPT !.files = f] /\ UNCHANGED <<log, marker, journal, call>>
    BY <1>1 DEF OwnerEdit
  <2>2. \A s \in Slots : tree'[s] = tree[s]
    BY <2>1 DEF Slots, Shape, TreeShape, Fields
  <2>3. QED BY <2>1, <2>2 DEF Aside, Quiet, Shape, TreeShape, CallShape, HEAD
<1>2. ASSUME OwnerCommit PROVE Shape' /\ OwnerCommits
  <2> DEFINE entry == [plan |-> None, request |-> None, tree |-> [Committed EXCEPT !.files = tree.files]]
  <2>1. log' = Append(log, entry) /\ UNCHANGED <<tree, marker, journal, call>>
    BY <1>2 DEF OwnerCommit
  <2>2. DOMAIN entry.tree = Fields
    BY DEF Committed, Shape, TreeShape
  <2> HIDE DEF entry
  <2>3. /\ Appended(entry) /\ HEAD' \in Nat \ {0} /\ \E S : log' \in Seq(S)
        /\ \A k \in 1..HEAD' : DOMAIN log'[k].tree = Fields
    BY <2>1, <2>2, Appending
  <2>4. QED BY <2>1, <2>3 DEF OwnerCommits, Shape, TreeShape, CallShape, entry
<1>3. QED BY <1>1, <1>2 DEF OwnerStep

LEMMA Effects ==
  ASSUME Shape, [Next]_vars
  PROVE  Shape' /\ (Aside \/ OwnerCommits \/ \E o \in Ops : Effect(o))
<1>1. CASE \E i \in Ingests : IngestStep(i)
  BY <1>1, IngestEffect, OperationsAssumption DEF OperationsAssumption
<1>2. CASE \E k \in Corrects : CorrectStep(k)
  BY <1>2, CorrectEffect, OperationsAssumption DEF OperationsAssumption
<1>3. CASE \E s \in Syncs : SyncStep(s)
  BY <1>3, SyncEffect, OperationsAssumption DEF OperationsAssumption
<1>4. CASE callers \cap Ingests # {} /\ Release
  BY <1>4, Dying DEF Release
<1>5. CASE OwnerStep
  BY <1>5, OwnerEffect
<1>6. CASE Crash
  BY <1>6, Dying DEF Crash, repository
<1>7. CASE Initialize
  BY <1>7, Dying DEF Initialize
<1>8. CASE UNCHANGED vars
  BY <1>8, Dying DEF vars, repository
<1>9. QED BY <1>1, <1>2, <1>3, <1>4, <1>5, <1>6, <1>7, <1>8 DEF Next

LEMMA ShapeAtFirst == Init => Shape
<1>1. SUFFICES ASSUME Init PROVE Shape
  OBVIOUS
<1>2. /\ tree = InitTree /\ log = <<[tree |-> InitTree, plan |-> None, request |-> None]>>
      /\ call = [o \in Ops |-> Idle]
  BY <1>1 DEF Init
<1>3. HEAD = 1 /\ log[1].tree = InitTree
  BY <1>2 DEF HEAD
<1>4. \E S : log \in Seq(S)
  <2>1. log \in Seq({[tree |-> InitTree, plan |-> None, request |-> None]})
    BY <1>2
  <2>2. QED BY <2>1
<1>5. DOMAIN InitTree = Fields
  BY StartAssumption DEF StartAssumption, Fields
<1>6. QED BY <1>2, <1>3, <1>4, <1>5 DEF Shape, TreeShape, CallShape, Idle

LEMMA Shaped == Spec => []Shape
<1>1. Shape /\ [Next]_vars => Shape'
  BY Effects
<1>2. QED BY <1>1, ShapeAtFirst, PTL DEF Spec

-----------------------------------------------------------------------------
(* Transactions: a slot of the working tree differs from its last commit only *)
(* under the marker of the plan that names it, and only until it is committed.*)

PlanShape(plan) ==
  plan.id \in PlanIds /\ DOMAIN plan.before = DOMAIN plan.after /\ DOMAIN plan.after \subseteq Slots

IdsOf(o) == IF o \in Syncs THEN {<<o, "block">>, <<o, "final">>} ELSE {<<o, "final">>}

Pcs == {"idle", "planned", "judging", "lowered"} \cup Holding

Calls ==
  \A o \in Ops :
    /\ call[o].pc \in Pcs
    /\ call[o].pc # "idle" => call[o].plan.id \in IdsOf(o) /\ PlanShape(call[o].plan)
    /\ call[o].pc \in {"pushed", "lowered", "judging"} => Kept(call[o].plan.id)
    /\ call[o].pc = "judging" => call[o].plan.id = <<o, "block">>

\* Who is past the marker holds it, alone.
Held ==
  \A o \in Ops : call[o].pc \in Holding =>
    /\ marker = call[o].plan
    /\ call[o].pc \in {"written", "pushed"} => call[o].plan.id \in journal
    /\ \A p \in Ops : call[p].pc \in Holding => p = o

\* A plan is committed once.
Line ==
  /\ \A k \in 1..HEAD : log[k].plan \in PlanIds \cup {None}
  /\ \A j, k \in 1..HEAD : log[j].plan = log[k].plan /\ log[k].plan # None => j = k

\* What has a journal is committed or under the marker.
Journals ==
  /\ journal \subseteq PlanIds
  /\ \A id \in PlanIds : Kept(id) => id \in journal
  /\ \A id \in journal : Kept(id) \/ marker.id = id

Marked ==
  marker # NoPlan =>
    /\ PlanShape(marker)
    /\ IF marker.id \in journal THEN After(marker) ELSE Before(marker)
    /\ ~Kept(marker.id) => \A s \in DOMAIN marker.before : Committed[s] = marker.before[s]

Settled ==
  \A s \in Slots : tree[s] # Committed[s] => marker # NoPlan /\ s \in DOMAIN marker.after /\ ~Kept(marker.id)

Transactions == Calls /\ Held /\ Line /\ Journals /\ Marked /\ Settled

-----------------------------------------------------------------------------
(* Transactions is an invariant. *)

LEMMA Logging ==
  ASSUME Shape
  PROVE  /\ log' = log => Done' = Done /\ Committed' = Committed /\ HEAD' = HEAD
         /\ \A entry : Appended(entry) => Done' = Done \cup {entry.plan} /\ Committed' = entry.tree
<1>1. log' = log => Done' = Done /\ Committed' = Committed /\ HEAD' = HEAD
  BY DEF Done, Committed, HEAD
<1>2. ASSUME NEW entry, Appended(entry) PROVE Done' = Done \cup {entry.plan} /\ Committed' = entry.tree
  <2>1. HEAD' = HEAD + 1 /\ log'[HEAD + 1] = entry /\ \A k \in 1..HEAD : log'[k] = log[k]
    BY <1>2 DEF Appended
  <2>2. HEAD \in Nat
    BY DEF Shape
  <2>3. Committed' = log'[HEAD'].tree
    BY DEF Committed
  <2>4. Done' = {log'[k].plan : k \in 1..HEAD'}
    BY DEF Done
  <2> HIDE DEF HEAD
  <2>5. QED BY <2>1, <2>2, <2>3, <2>4 DEF Done
<1>3. QED BY <1>1, <1>2

LEMMA NoPlanId == \A id \in PlanIds : id # NoPlan.id /\ \A plan : plan.id \in PlanIds => plan # NoPlan
BY OperationsAssumption DEF OperationsAssumption, NoPlan

LEMMA SameLine ==
  ASSUME Line, log' = log
  PROVE  Line'
BY DEF Line, HEAD

LEMMA LongerLine ==
  ASSUME Shape, Line, NEW entry, Appended(entry),
         entry.plan = None \/ (entry.plan \in PlanIds /\ ~Kept(entry.plan))
  PROVE  Line'
<1>1. HEAD' = HEAD + 1 /\ log'[HEAD + 1] = entry /\ \A k \in 1..HEAD : log'[k] = log[k]
  BY DEF Appended
<1>2. HEAD \in Nat
  BY DEF Shape
<1>3. \A k \in 1..HEAD : entry.plan # None => log[k].plan # entry.plan
  BY DEF Kept, Done
<1>4. Line' <=> /\ \A k \in 1..HEAD' : log'[k].plan \in PlanIds \cup {None}
                /\ \A j, k \in 1..HEAD' : log'[j].plan = log'[k].plan /\ log'[k].plan # None => j = k
  BY DEF Line
<1> HIDE DEF HEAD
<1>5. QED BY <1>1, <1>2, <1>3, <1>4 DEF Line

\* Nothing is written, the marker stays, and no call takes it.
LEMMA SettledQuietly ==
  ASSUME Shape, Transactions, Quiet
  PROVE  Line' /\ Journals' /\ Marked' /\ Settled'
<1>1. /\ Done' = Done /\ Committed' = Committed /\ log' = log /\ marker' = marker /\ journal' = journal
      /\ \A s \in Slots : tree'[s] = tree[s]
  BY Logging DEF Quiet
<1>2. Line' /\ Journals'
  BY <1>1, SameLine DEF Transactions, Journals, Kept
<1>3. Settled'
  BY <1>1 DEF Transactions, Settled, Kept
<1>4. Marked'
  BY <1>1 DEF Transactions, Marked, Kept, PlanShape, Before, After
<1>5. QED BY <1>2, <1>3, <1>4

LEMMA TransactionsAside ==
  ASSUME Shape, Transactions, Aside
  PROVE  Transactions'
<1>1. Done' = Done /\ marker' = marker /\ journal' = journal /\ \A o \in Ops : call'[o] \in {call[o], Idle}
  BY Logging DEF Aside, Quiet
<1>2. Line' /\ Journals' /\ Marked' /\ Settled'
  BY SettledQuietly DEF Aside
<1>3. Idle.pc = "idle"
  BY DEF Idle
<1>4. Calls'
  BY <1>1, <1>3 DEF Transactions, Calls, Pcs, Kept
<1>5. Held'
  BY <1>1, <1>3 DEF Transactions, Held, Holding
<1>6. QED BY <1>2, <1>4, <1>5 DEF Transactions

\* One call moves without taking the marker.
LEMMA TransactionsCall ==
  ASSUME Shape, Transactions, Quiet, NEW o \in Ops, Others(o),
         call'[o].pc \in {"planned", "lowered", "judging"},
         call'[o].plan.id \in IdsOf(o), PlanShape(call'[o].plan),
         call'[o].pc # "planned" => Kept(call'[o].plan.id),
         call'[o].pc = "judging" => call'[o].plan.id = <<o, "block">>
  PROVE  Transactions'
<1>1. Done' = Done /\ marker' = marker /\ journal' = journal
  BY Logging DEF Quiet
<1>2. Line' /\ Journals' /\ Marked' /\ Settled'
  BY SettledQuietly
<1>3. Calls'
  BY <1>1 DEF Transactions, Calls, Pcs, Kept, Others, PlanShape
<1>4. Held'
  BY <1>1 DEF Transactions, Held, Holding, Others
<1>5. QED BY <1>2, <1>3, <1>4 DEF Transactions
\* What is recorded of a plan is a plan of that id.
LEMMA Recording ==
  ASSUME Transactions, NEW id \in PlanIds, Recorded(id) # NoPlan
  PROVE  /\ Recorded(id).id = id /\ PlanShape(Recorded(id))
         /\ \/ marker.id = id /\ Recorded(id) = marker
            \/ marker = NoPlan /\ Kept(id) /\ Recorded(id) = Journaled(id)
<1>1. CASE marker # NoPlan
  BY <1>1 DEF Recorded, Transactions, Marked
<1>2. CASE marker = NoPlan
  <2>1. id \in journal /\ Recorded(id) = Journaled(id)
    BY <1>2 DEF Recorded
  <2>2. Kept(id)
    BY <1>2, <2>1, NoPlanId DEF Transactions, Journals
  <2>3. Journaled(id).id = id /\ PlanShape(Journaled(id))
    BY DEF Journaled, PlanShape
  <2>4. QED BY <1>2, <2>1, <2>2, <2>3
<1>3. QED BY <1>1, <1>2

LEMMA OwnRecording ==
  ASSUME Transactions, NEW id \in PlanIds, OwnRecord(id) # NoPlan
  PROVE  /\ OwnRecord(id).id = id /\ PlanShape(OwnRecord(id))
         /\ \/ marker.id = id /\ OwnRecord(id) = marker
            \/ marker.id # id /\ Kept(id) /\ OwnRecord(id) = Journaled(id)
<1>1. CASE marker.id # id /\ id \in journal
  <2>1. OwnRecord(id) = Journaled(id) /\ Kept(id)
    BY <1>1 DEF OwnRecord, Transactions, Journals
  <2>2. Journaled(id).id = id /\ PlanShape(Journaled(id))
    BY DEF Journaled, PlanShape
  <2>3. QED BY <1>1, <2>1, <2>2
<1>2. CASE ~(marker.id # id /\ id \in journal)
  <2>1. OwnRecord(id) = Recorded(id)
    BY <1>2 DEF OwnRecord
  <2>2. QED BY <2>1, Recording, NoPlanId
<1>3. QED BY <1>1, <1>2

\* Other writers read nothing but the marker while one is up.
LEMMA ReadAlike ==
  ASSUME Transactions, NEW id \in PlanIds, Recorded(id) # NoPlan
  PROVE  OwnRecord(id) = Recorded(id)
BY Recording, NoPlanId DEF OwnRecord

LEMMA IdsOfPlans == \A o \in Ops : IdsOf(o) \subseteq PlanIds
BY DEF IdsOf, PlanIds

LEMMA TransactionsBegin ==
  ASSUME Shape, Transactions, NEW o \in Ops, Begins(o)
  PROVE  Transactions'
<1>1. CASE Resumes(o)
  <2>1. PICK id \in {<<o, "block">>, <<o, "final">>} :
          /\ \E plan \in {Recorded(id), OwnRecord(id)} : plan # NoPlan /\ call'[o].plan = plan
          /\ o \notin Syncs => id = <<o, "final">>
    BY <1>1 DEF Resumes
  <2>2. id \in IdsOf(o) /\ id \in PlanIds
    BY <2>1 DEF IdsOf, PlanIds
  <2>3. QED BY <2>1, <2>2, ReadAlike, OwnRecording, TransactionsCall DEF Begins
<1>2. CASE o \in Ingests /\ PlanIngest(o)
  <2>1. call'[o].plan.id = <<o, "final">> /\ PlanShape(call'[o].plan)
    BY <1>2, Starting DEF PlanIngest, StartFresh, PlanShape, PlanIds, Slots
  <2>2. QED BY <2>1, TransactionsCall DEF Begins, IdsOf
<1>3. CASE o \in Corrects /\ \E e \in Refs(tree.catalog) : PlanCorrection(o, e)
  <2>1. PICK e \in Refs(tree.catalog) : PlanCorrection(o, e)
    BY <1>3
  <2>2. call'[o].plan.id = <<o, "final">> /\ PlanShape(call'[o].plan)
    BY <2>1, Starting DEF PlanCorrection, StartFresh, PlanShape, PlanIds, Slots
  <2>3. QED BY <2>2, TransactionsCall DEF Begins, IdsOf
<1>4. CASE o \in Syncs /\ \E request \in SyncRequests : PlanBlock(o, request)
  <2>1. PICK request \in SyncRequests : PlanBlock(o, request)
    BY <1>4
  <2>2. call'[o].plan.id = <<o, "block">> /\ PlanShape(call'[o].plan)
    BY <2>1, Starting DEF PlanBlock, StartFresh, PlanShape, PlanIds, Slots, Block
  <2>3. QED BY <1>4, <2>2, TransactionsCall DEF Begins, IdsOf
<1>5. QED BY <1>1, <1>2, <1>3, <1>4 DEF Begins

LEMMA TransactionsConfirm ==
  ASSUME Shape, Transactions, NEW o \in Ops, Confirms(o)
  PROVE  Transactions'
<1>1. call'[o].plan.id \in IdsOf(o) /\ PlanShape(call'[o].plan)
  BY DEF Confirms, Goes, Transactions, Calls
<1>2. QED BY <1>1, TransactionsCall DEF Confirms, Goes

LEMMA TransactionsJudge ==
  ASSUME Shape, Transactions, NEW o \in Ops, Judges(o)
  PROVE  Transactions'
<1>1. call'[o].plan.id \in IdsOf(o) /\ PlanShape(call'[o].plan) /\ Kept(call'[o].plan.id)
  BY DEF Judges, Transactions, Calls
<1>2. QED BY <1>1, TransactionsCall DEF Judges, Block

LEMMA TransactionsFinal ==
  ASSUME Shape, Transactions, NEW o \in Ops, Finalizes(o)
  PROVE  Transactions'
<1> DEFINE
  block    == call[o].plan
  request  == block.request
  fence    == block.after.fence
  original == log[request.from].tree
  found    == ReassessedRows(original.catalog, original.files, log[request.to].tree.files, request.to)
  affected == found.affected \cup Inherited(original)
  targets  == {r \in affected : request.targets = Everything \/ r.id \in request.targets}
  after(withdrawn, support) ==
    Successor(original.catalog,
      Replaced(found.rows, [id \in {r.id : r \in targets} \ withdrawn |-> support], o), o)
<1>1. \E withdrawn, support :
        call' = [call EXCEPT ![o].pc = "planned", ![o].plan =
          [id |-> Final(o), request |-> request, before |-> [catalog |-> original.catalog, fence |-> fence],
           after |-> [catalog |-> after(withdrawn, support),
                      fence |-> SettledFence(o, fence, original, affected, targets, withdrawn)]]]
  <2>1. \E f \in {found} : Settles(o, f)
    BY DEF Finalizes, PlanFinal
  <2>2. PICK f \in {found} : Settles(o, f)
    BY <2>1
  <2>3. Settles(o, found)
    <3> HIDE DEF found
    <3>1. QED BY <2>2
  <2>4. QED BY <2>3 DEF Settles
<1>2. call'[o].plan.id = <<o, "final">> /\ PlanShape(call'[o].plan)
  <2> HIDE DEF request, fence, original, after, targets, affected
  <2>1. DOMAIN call = Ops /\ DOMAIN call[o] = {"pc", "plan", "head"}
    BY DEF Shape, CallShape
  <2>2. QED BY <1>1, <2>1 DEF Final, PlanShape, PlanIds, Slots
<1>3. QED BY <1>2, TransactionsCall DEF Finalizes, IdsOf

\* A plan that is raised is not committed, or its marker was up already.
LEMMA Raised ==
  ASSUME Transactions, NEW plan, PlanShape(plan), Raisable(plan), ~Replayed(plan)
  PROVE  \/ marker = plan
         \/ marker = NoPlan /\ plan.id \notin journal /\ ~Kept(plan.id) /\ Before(plan)
<1>1. SUFFICES ASSUME marker # plan
               PROVE  marker = NoPlan /\ plan.id \notin journal /\ ~Kept(plan.id) /\ Before(plan)
  OBVIOUS
<1>2. marker = NoPlan /\ Before(plan) /\ LockFree
  BY <1>1 DEF Raisable
<1>3. plan.id \notin journal
  BY <1>2 DEF Raisable, Replayed
<1>4. QED BY <1>2, <1>3 DEF Transactions, Journals, PlanShape

LEMMA TransactionsRaise ==
  ASSUME Shape, Transactions, NEW o \in Ops, Raises(o)
  PROVE  Transactions'
<1> DEFINE plan == call[o].plan
<1>1. /\ Goes(o, "planned", "raised") /\ tree' = tree /\ log' = log /\ journal' = journal
      /\ Raisable(plan) /\ ~Replayed(plan) /\ marker' = plan
      /\ Done' = Done /\ Committed' = Committed
  BY Logging DEF Raises
<1>2. plan.id \in IdsOf(o) /\ PlanShape(plan) /\ plan # NoPlan
  BY <1>1, NoPlanId DEF Transactions, Calls, Goes, PlanShape
<1>3. \A p \in Ops : call[p].pc \notin Holding
  BY <1>1 DEF Raisable, LockFree
<1>4. \/ marker = plan
      \/ marker = NoPlan /\ plan.id \notin journal /\ ~Kept(plan.id) /\ Before(plan)
  BY <1>1, <1>2, Raised
<1> HIDE DEF plan
<1>5. call'[o].plan = plan /\ call'[o].pc = "raised" /\ Others(o)
  BY <1>1 DEF Goes, plan
<1>6. Calls'
  BY <1>1, <1>2, <1>5 DEF Transactions, Calls, Pcs, Holding, Kept, Others, PlanShape
<1>7. Held'
  BY <1>1, <1>3, <1>5 DEF Held, Holding, Others
<1>8. Line' /\ Journals'
  <2>1. \A id \in journal : Kept(id) \/ plan.id = id
    BY <1>4, NoPlanId DEF Transactions, Journals
  <2>2. QED BY <1>1, <2>1, SameLine DEF Transactions, Journals, Kept
<1>9. Settled'
  BY <1>1, <1>4 DEF Transactions, Settled, Kept
<1>10. Marked'
  <2>1. CASE marker = plan
    BY <1>1, <2>1 DEF Transactions, Marked, Kept, PlanShape, Before, After
  <2>2. CASE marker = NoPlan /\ plan.id \notin journal /\ ~Kept(plan.id) /\ Before(plan)
    <3>1. \A s \in DOMAIN plan.before : Committed[s] = plan.before[s]
      BY <1>2, <2>2 DEF Transactions, Settled, Before, PlanShape
    <3>2. QED BY <1>1, <1>2, <2>2, <3>1 DEF Marked, PlanShape, Before
  <2>3. QED BY <1>4, <2>1, <2>2
<1>11. QED BY <1>6, <1>7, <1>8, <1>9, <1>10 DEF Transactions

LEMMA TransactionsWrite ==
  ASSUME Shape, Transactions, NEW o \in Ops, Writes(o)
  PROVE  Transactions' /\ (call[o].plan.id \in journal => \A s \in Slots : tree'[s] = tree[s])
<1> DEFINE plan == call[o].plan
<1>1. /\ Goes(o, "raised", "written") /\ log' = log /\ marker' = marker
      /\ journal' = journal \cup {plan.id}
      /\ \A s \in Slots : tree'[s] = IF s \in DOMAIN plan.after THEN plan.after[s] ELSE tree[s]
      /\ Done' = Done /\ Committed' = Committed
  BY Logging DEF Writes
<1>2. plan.id \in IdsOf(o) /\ PlanShape(plan) /\ plan # NoPlan /\ marker = plan /\ plan.id \in PlanIds
  BY <1>1, NoPlanId DEF Transactions, Calls, Goes, PlanShape, Held, Holding
<1>3. call'[o].plan = plan /\ call'[o].pc = "written" /\ Others(o) /\ call[o].pc = "raised"
  BY <1>1 DEF Goes
<1>4. \A p \in Ops : call[p].pc \in Holding => p = o
  BY <1>3 DEF Transactions, Held, Holding
<1> HIDE DEF plan
<1>5. \A s \in DOMAIN plan.after : s \in Slots /\ tree'[s] = plan.after[s]
  BY <1>1, <1>2 DEF PlanShape
<1>6. plan.id \in journal => \A s \in Slots : tree'[s] = tree[s]
  BY <1>1, <1>2 DEF Transactions, Marked, After
<1>7. Kept(plan.id) => plan.id \in journal
  BY <1>2 DEF Transactions, Journals
<1>8. Calls'
  BY <1>1, <1>2, <1>3 DEF Transactions, Calls, Pcs, Holding, Kept, Others, PlanShape
<1>9. Held'
  BY <1>1, <1>2, <1>3, <1>4 DEF Held, Holding, Others
<1>10. Line' /\ Journals'
  BY <1>1, <1>2, <1>7, SameLine DEF Transactions, Journals, Kept
<1>11. Settled'
  BY <1>1, <1>2, <1>5, <1>6, <1>7 DEF Transactions, Settled, Kept
<1>12. Marked'
  BY <1>1, <1>2, <1>5, <1>6, <1>7 DEF Transactions, Marked, Kept, After
<1>13. QED BY <1>6, <1>8, <1>9, <1>10, <1>11, <1>12 DEF Transactions, plan

\* A commit of the plan under the marker leaves nothing of it to be committed.
LEMMA CommittingMarked ==
  ASSUME Shape, Transactions, NEW plan, plan = marker, plan # NoPlan, plan.id \in journal,
         UNCHANGED <<tree, marker, journal>>, Commits(plan)
  PROVE  /\ Done' = Done \cup {plan.id} /\ Line' /\ Journals' /\ Marked'
         /\ \A s \in Slots : tree'[s] = Committed'[s]
<1>1. PlanShape(plan) /\ plan.id \in PlanIds /\ After(plan)
  BY DEF Transactions, Marked, PlanShape
<1>2. CASE Kept(plan.id)
  <2>1. log' = log /\ Done' = Done /\ Committed' = Committed
    BY <1>2, Logging DEF Commits
  <2>2. Line'
    BY <2>1, SameLine DEF Transactions
  <2>3. QED BY <1>1, <1>2, <2>1, <2>2 DEF Transactions, Kept, Journals, Marked, Settled, After, PlanShape
<1>3. CASE ~Kept(plan.id)
  <2>1. Appended(Entry(plan)) /\ Entry(plan).plan = plan.id
    BY <1>3 DEF Commits, Entry
  <2>2. Done' = Done \cup {plan.id} /\ Committed' = Entry(plan).tree
    BY <2>1, Logging
  <2>3. \A s \in Slots : Entry(plan).tree[s] = IF s \in DOMAIN plan.after THEN tree[s] ELSE Committed[s]
    BY DEF Entry, Shape, TreeShape, Fields
  <2>4. Line'
    BY <1>1, <1>3, <2>1, LongerLine DEF Transactions
  <2>5. \A s \in Slots : tree'[s] = Committed'[s]
    BY <2>2, <2>3 DEF Transactions, Settled
  <2>6. Journals' /\ Marked'
    BY <1>1, <2>2 DEF Transactions, Kept, Journals, Marked, After, PlanShape
  <2>7. QED BY <2>2, <2>4, <2>5, <2>6
<1>4. QED BY <1>2, <1>3

LEMMA TransactionsPersist ==
  ASSUME Shape, Transactions, NEW o \in Ops, Persists(o)
  PROVE  Transactions'
<1> DEFINE plan == call[o].plan
<1>1. /\ Goes(o, "written", "pushed") /\ UNCHANGED <<tree, marker, journal>> /\ Commits(plan)
      /\ plan = marker /\ plan # NoPlan /\ plan.id \in journal /\ plan.id \in IdsOf(o) /\ PlanShape(plan)
  BY NoPlanId DEF Persists, Transactions, Calls, Goes, PlanShape, Held, Holding
<1>2. /\ Done' = Done \cup {plan.id} /\ Line' /\ Journals' /\ Marked'
      /\ \A s \in Slots : tree'[s] = Committed'[s]
  BY <1>1, CommittingMarked
<1>3. \A p \in Ops : call[p].pc \in Holding => p = o
  BY <1>1 DEF Transactions, Held, Holding, Goes
<1>4. Calls'
  BY <1>1, <1>2 DEF Transactions, Calls, Pcs, Holding, Kept, Goes, Others, PlanShape
<1>5. Held'
  BY <1>1, <1>3 DEF Held, Holding, Goes, Others
<1>6. Settled'
  BY <1>2 DEF Settled
<1>7. QED BY <1>2, <1>4, <1>5, <1>6 DEF Transactions

LEMMA TransactionsLower ==
  ASSUME Shape, Transactions, NEW o \in Ops, Lowers(o)
  PROVE  Transactions'
<1>1. /\ Goes(o, "pushed", "lowered") /\ UNCHANGED <<tree, log, journal>> /\ marker' = NoPlan
      /\ Done' = Done /\ Committed' = Committed
  BY Logging DEF Lowers
<1>2. marker = call[o].plan /\ Kept(marker.id) /\ \A p \in Ops : call[p].pc \in Holding => p = o
  BY <1>1 DEF Transactions, Held, Holding, Goes, Calls
<1>3. Calls'
  BY <1>1 DEF Transactions, Calls, Pcs, Holding, Kept, Goes, Others, PlanShape
<1>4. Held'
  BY <1>1, <1>2 DEF Held, Holding, Goes, Others
<1>5. Line' /\ Journals' /\ Marked' /\ Settled'
  BY <1>1, <1>2, SameLine DEF Transactions, Journals, Marked, Settled, Kept
<1>6. QED BY <1>3, <1>4, <1>5 DEF Transactions

LEMMA TransactionsUndo ==
  ASSUME Shape, Transactions, NEW o \in Ops, Undoes(o)
  PROVE  Transactions'
<1> DEFINE plan == call[o].plan
<1>1. /\ call[o].pc \in Holding /\ call'[o] = Idle /\ Others(o) /\ UNCHANGED <<tree, journal>>
      /\ marker' = IF plan.id \notin journal /\ Before(plan) THEN NoPlan ELSE marker
      /\ plan = marker /\ PlanShape(plan) /\ plan # NoPlan
      /\ log' = log \/ (plan.id \in journal /\ Commits(plan))
      /\ Idle.pc = "idle"
  BY NoPlanId DEF Undoes, Transactions, Calls, PlanShape, Held, Holding, Idle
<1>2. \A p \in Ops : call[p].pc \in Holding => p = o
  BY <1>1 DEF Transactions, Held, Holding
<1>3. \A p \in Ops : call'[p].pc = "idle" \/ (call'[p] = call[p] /\ call'[p].pc \notin Holding)
  BY <1>1, <1>2 DEF Others
<1>4. Held'
  BY <1>3 DEF Held, Holding
<1>5. Done \subseteq Done' => Calls'
  BY <1>3 DEF Transactions, Calls, Pcs, Kept, PlanShape
<1>6. CASE plan.id \notin journal
  <2>1. Done' = Done /\ Committed' = Committed /\ log' = log
    BY <1>1, <1>6, Logging
  <2>2. ~Kept(plan.id)
    BY <1>1, <1>6 DEF Transactions, Journals, PlanShape
  <2>3. Before(plan) /\ marker' = NoPlan
    BY <1>1, <1>6 DEF Transactions, Marked
  <2>4. Settled'
    <3>1. \A s \in DOMAIN plan.after : tree[s] = Committed[s]
      BY <1>1, <2>2, <2>3 DEF Transactions, Marked, Before, PlanShape
    <3>2. QED BY <1>1, <2>1, <3>1 DEF Transactions, Settled
  <2>5. Line' /\ Journals' /\ Marked'
    BY <1>1, <1>6, <2>1, <2>3, SameLine DEF Transactions, Journals, Marked, Kept
  <2>6. QED BY <1>4, <1>5, <2>1, <2>4, <2>5 DEF Transactions
<1>7. CASE plan.id \in journal /\ log' = log
  <2>1. Done' = Done /\ Committed' = Committed /\ marker' = marker
    BY <1>1, <1>7, Logging
  <2>2. Line' /\ Journals' /\ Marked' /\ Settled'
    BY <1>1, <1>7, <2>1, SameLine DEF Transactions, Journals, Marked, Settled, Kept, PlanShape, Before, After
  <2>3. QED BY <1>4, <1>5, <2>1, <2>2 DEF Transactions
<1>8. CASE plan.id \in journal /\ Commits(plan)
  <2>1. UNCHANGED <<tree, marker, journal>>
    BY <1>1, <1>8
  <2>2. /\ Done' = Done \cup {plan.id} /\ Line' /\ Journals' /\ Marked'
        /\ \A s \in Slots : tree'[s] = Committed'[s]
    BY <1>1, <1>8, <2>1, CommittingMarked
  <2>3. QED BY <1>4, <1>5, <2>2 DEF Transactions, Settled
<1>9. QED BY <1>1, <1>6, <1>7, <1>8

LEMMA TransactionsOwner ==
  ASSUME Shape, Transactions, OwnerCommits
  PROVE  Transactions'
<1> DEFINE entry == [plan |-> None, request |-> None, tree |-> [Committed EXCEPT !.files = tree.files]]
<1>1. UNCHANGED <<tree, marker, journal, call>> /\ Appended(entry)
  BY DEF OwnerCommits
<1>2. Done' = Done \cup {None} /\ Committed' = entry.tree
  BY <1>1, Logging
<1>3. \A s \in Slots : Committed'[s] = Committed[s]
  BY <1>2 DEF Shape, TreeShape, Committed, Fields, Slots
<1>4. Line'
  BY <1>1, LongerLine DEF Transactions
<1>5. None \notin PlanIds
  BY OperationsAssumption DEF OperationsAssumption
<1> HIDE DEF entry
<1>6. Calls' /\ Held'
  BY <1>1, <1>2 DEF Transactions, Calls, Held, Kept, PlanShape
<1>7. Journals'
  BY <1>1, <1>2, <1>5 DEF Transactions, Journals, Kept
<1>8. Marked'
  <2>1. SUFFICES ASSUME marker # NoPlan PROVE Marked'
    BY <1>1 DEF Marked
  <2>2. marker.id \in PlanIds /\ (Kept(marker.id) <=> Kept(marker.id)')
    BY <1>1, <1>2, <1>5, <2>1 DEF Transactions, Marked, PlanShape, Kept
  <2>3. QED BY <1>1, <1>3, <2>1, <2>2 DEF Transactions, Marked, PlanShape, Before, After
<1>9. Settled'
  <2>1. marker # NoPlan => marker.id # None
    BY <1>5 DEF Transactions, Marked, PlanShape
  <2>2. QED BY <1>1, <1>2, <1>3, <2>1 DEF Transactions, Settled, Kept
<1>10. QED BY <1>4, <1>6, <1>7, <1>8, <1>9 DEF Transactions

LEMMA TransactionsStep ==
  ASSUME Shape, Transactions, [Next]_vars
  PROVE  Transactions'
<1>1. ASSUME NEW o \in Ops, Effect(o) PROVE Transactions'
  BY <1>1, TransactionsBegin, TransactionsRaise, TransactionsConfirm, TransactionsWrite, TransactionsPersist,
     TransactionsLower, TransactionsUndo, TransactionsJudge, TransactionsFinal DEF Effect
<1>2. QED BY <1>1, Effects, TransactionsAside, TransactionsOwner

LEMMA TransactionsAtFirst == Init => Transactions
<1>1. SUFFICES ASSUME Init PROVE Transactions
  OBVIOUS
<1>2. /\ tree = InitTree /\ log = <<[tree |-> InitTree, plan |-> None, request |-> None]>>
      /\ call = [o \in Ops |-> Idle] /\ marker = NoPlan /\ journal = {}
  BY <1>1 DEF Init
<1>3. HEAD = 1 /\ log[1].plan = None /\ Committed = InitTree
  BY <1>2 DEF HEAD, Committed
<1>4. Done = {None}
  BY <1>3 DEF Done
<1>5. Calls /\ Held
  BY <1>2 DEF Calls, Held, Idle, Pcs, Holding
<1>6. Line /\ Journals
  BY <1>2, <1>3, <1>4, OperationsAssumption DEF Line, Journals, Kept, OperationsAssumption
<1>7. Marked /\ Settled
  BY <1>2, <1>3 DEF Marked, Settled
<1>8. QED BY <1>5, <1>6, <1>7 DEF Transactions

LEMMA Transacted == Spec => []Transactions
<1>1. Shape /\ Transactions /\ [Next]_vars => Transactions'
  BY TransactionsStep
<1>2. QED BY <1>1, TransactionsAtFirst, Shaped, PTL DEF Spec

-----------------------------------------------------------------------------
(* What the process knows of the remote, and what it has told.               *)

Stages == {"none", "declared", "torn"}

\* What a step may do to it.
Learns ==
  /\ callers' = callers
  /\ \/ remote' = remote /\ synced' \in {synced, 0}
     \/ remote' = HEAD' /\ synced' = HEAD'
  /\ \/ answered' = answered
     \/ \E o \in Ops : /\ answered' = answered \cup {o} /\ call[o].pc = "lowered"
                       /\ call[o].plan.id = <<o, "final">>
                       /\ synced = HEAD /\ UNCHANGED <<log, remote>>
  /\ \/ released' = released
     \/ /\ Cursor(tree) > 0 /\ Dirty = {} /\ UNCHANGED <<tree, log>>
        /\ released' = released \cup Events[Cursor(tree)] /\ remote' = HEAD
  /\ stage \in [Ops -> Stages] => stage' \in [Ops -> Stages]
  /\ \A o \in Ops : call'[o].pc # "idle" => call[o].pc # "idle" \/ o \in callers

\* The steps of a call that every writer takes.
LEMMA LearningInCall ==
  ASSUME Shape, Transactions, NEW o \in Ops,
         \/ \E plan, head : Start(o, plan, head)
         \/ Raise(o)
         \/ \E allowed : \/ Reconfirm(o, allowed) \/ Refuse(o, allowed) \/ Write(o, allowed) \/ Persist(o, allowed)
                         \/ Lower(o, allowed) \/ \E pc : Reject(o, pc, allowed)
         \/ Fail(o)
         \/ \E receipt : Answer(o, receipt) /\ call[o].plan.id = <<o, "final">>
  PROVE  Learns
<1>1. CASE \E plan, head : Start(o, plan, head)
  <2>1. PICK plan, head : Start(o, plan, head)
    BY <1>1
  <2>2. o \in callers /\ UNCHANGED <<log, tree, remote, synced, callers, answered, released, stage>>
    BY <2>1 DEF Start, MayCall, repository, history
  <2>3. Others(o)
    BY <2>1, Starting
  <2>4. QED BY <2>2, <2>3 DEF Learns, Others
<1>2. CASE Raise(o) \/ \E allowed : Write(o, allowed) \/ Lower(o, allowed)
  <2>1. UNCHANGED <<remote, synced, callers, answered, released, stage>> /\ call[o].pc \in {"planned", "raised", "pushed"}
    BY <1>2 DEF Raise, Write, Lower, history, At
  <2>2. Others(o)
    BY <1>2, Going DEF Raise, Write, Lower, Goes, Shape
  <2>3. QED BY <2>1, <2>2 DEF Learns, Others
<1>3. CASE \E allowed : Reconfirm(o, allowed)
  <2>1. UNCHANGED <<log, callers, answered, released, stage>> /\ remote' = HEAD /\ synced' = HEAD /\ call[o].pc = "planned"
    BY <1>3 DEF Reconfirm, history, At
  <2>2. Others(o) /\ HEAD' = HEAD
    BY <1>3, <2>1, Going DEF Reconfirm, Goes, Shape, HEAD
  <2>3. QED BY <2>1, <2>2 DEF Learns, Others
<1>4. CASE \E allowed : Persist(o, allowed)
  <2>1. UNCHANGED <<callers, answered, released, stage>> /\ remote' = Len(log') /\ synced' = Len(log') /\ call[o].pc = "written"
    BY <1>4 DEF Persist, history, At
  <2>2. Others(o) /\ HEAD' = Len(log')
    BY <1>4, Going DEF Persist, Goes, Shape, HEAD
  <2>3. QED BY <2>1, <2>2 DEF Learns, Others
<1>5. CASE Fail(o) \/ \E allowed : Refuse(o, allowed) \/ \E pc : Reject(o, pc, allowed)
  <2>1. UNCHANGED <<remote, synced, callers, answered, released, stage>> /\ Finish(o)
    BY <1>5 DEF Fail, Refuse, Reject, Undo, history, repository
  <2>2. Others(o) /\ call'[o].pc = "idle"
    BY <2>1, Finishing DEF Shape, Idle
  <2>3. QED BY <2>1, <2>2 DEF Learns, Others
<1>6. CASE \E receipt : Answer(o, receipt) /\ call[o].plan.id = <<o, "final">>
  <2>1. PICK receipt : Answer(o, receipt) /\ call[o].plan.id = <<o, "final">>
    BY <1>6
  <2>2. /\ UNCHANGED <<log, remote, synced, callers, released>> /\ Finish(o) /\ call[o].pc = "lowered"
        /\ answered' = answered \/ (synced = HEAD /\ answered' = answered \cup {o})
        /\ stage' \in {stage, [stage EXCEPT ![o] = "none"]}
    BY <2>1 DEF Answer, At
  <2>3. stage \in [Ops -> Stages] => stage' \in [Ops -> Stages]
    BY <2>2 DEF Stages
  <2>4. Others(o) /\ call'[o].pc = "idle"
    BY <2>2, Finishing DEF Shape, Idle
  <2>5. QED BY <2>1, <2>2, <2>3, <2>4 DEF Learns, Others
<1>7. QED BY <1>1, <1>2, <1>3, <1>4, <1>5, <1>6

LEMMA LearningAside ==
  ASSUME Shape, UNCHANGED <<callers, answered, released>>,
         remote' = remote /\ synced' \in {synced, 0},
         stage \in [Ops -> Stages] => stage' \in [Ops -> Stages],
         \A o \in Ops : call'[o].pc # "idle" => call[o].pc # "idle"
  PROVE  Learns
BY DEF Learns

LEMMA Learning ==
  ASSUME Shape, Transactions, [Next]_vars
  PROVE  Learns
<1>1. CASE \E i \in Ingests : IngestStep(i)
  <2>1. PICK i \in Ingests : IngestStep(i)
    BY <1>1
  <2>2. i \in Ops /\ i \notin Syncs
    BY OperationsAssumption DEF OperationsAssumption
  <2>3. call[i].pc # "idle" => call[i].plan.id = <<i, "final">>
    BY <2>2 DEF Transactions, Calls, IdsOf
  <2>4. CASE DeclareStage(i) \/ TearStage(i)
    <3>1. /\ UNCHANGED <<callers, answered, released>> /\ remote' = remote /\ synced' \in {synced, 0}
          /\ stage' \in {[stage EXCEPT ![i] = "declared"], [stage EXCEPT ![i] = "torn"]}
          /\ call' = call \/ call' = [o \in Ops |-> Idle]
      BY <2>4 DEF DeclareStage, TearStage, history
    <3>2. stage \in [Ops -> Stages] => stage' \in [Ops -> Stages]
      BY <3>1 DEF Stages
    <3>3. QED BY <3>1, <3>2, LearningAside DEF Idle
  <2>5. CASE PlanIngest(i) \/ ResumeIngest(i)
    <3>1. \E plan, head : Start(i, plan, head)
      BY <2>5 DEF PlanIngest, ResumeIngest, StartFresh
    <3>2. QED BY <2>2, <3>1, LearningInCall
  <2>6. CASE Answer(i, TRUE)
    BY <2>2, <2>3, <2>6, LearningInCall DEF Answer, At
  <2>7. CASE \/ Raise(i) \/ Reconfirm(i, TRUE) \/ Refuse(i, TRUE)
             \/ Write(i, IngestValid(call[i].plan)) \/ Reject(i, "raised", IngestValid(call[i].plan))
             \/ Persist(i, TRUE) \/ Lower(i, FenceReadable(tree)) \/ Fail(i)
    <3> HIDE DEF Learns
    <3>1. QED BY <2>2, <2>7, LearningInCall
  <2>8. QED BY <2>1, <2>4, <2>5, <2>6, <2>7 DEF IngestStep
<1>2. CASE \E k \in Corrects : CorrectStep(k)
  <2>1. PICK k \in Corrects : CorrectStep(k)
    BY <1>2
  <2>2. k \in Ops /\ k \notin Syncs
    BY OperationsAssumption DEF OperationsAssumption
  <2>3. call[k].pc # "idle" => call[k].plan.id = <<k, "final">>
    BY <2>2 DEF Transactions, Calls, IdsOf
  <2>4. CASE ResumeCorrection(k) \/ \E e \in Refs(tree.catalog) : PlanCorrection(k, e)
    <3>1. \E plan, head : Start(k, plan, head)
      BY <2>4 DEF PlanCorrection, ResumeCorrection, StartFresh
    <3>2. QED BY <2>2, <3>1, LearningInCall
  <2>5. CASE Answer(k, TRUE)
    BY <2>2, <2>3, <2>5, LearningInCall DEF Answer, At
  <2>6. CASE \/ Raise(k) \/ Reconfirm(k, CorrectionConfirmed(call[k].plan)) \/ Refuse(k, CorrectionConfirmed(call[k].plan))
             \/ Write(k, CorrectionValid(call[k].plan)) \/ Reject(k, "raised", CorrectionValid(call[k].plan))
             \/ Persist(k, TRUE) \/ Lower(k, FenceReadable(tree)) \/ Fail(k)
    BY <2>2, <2>6, LearningInCall
  <2>7. QED BY <2>1, <2>4, <2>5, <2>6 DEF CorrectStep
<1>3. CASE \E s \in Syncs : SyncStep(s)
  <2>1. PICK s \in Syncs : SyncStep(s)
    BY <1>3
  <2>2. s \in Ops
    BY OperationsAssumption DEF OperationsAssumption
  <2>3. CASE ResumeBlock(s) \/ ResumeFinal(s) \/ \E request \in SyncRequests : PlanBlock(s, request)
    <3>1. \E plan, head : Start(s, plan, head)
      BY <2>3 DEF PlanBlock, ResumeBlock, ResumeFinal, StartFresh
    <3>2. QED BY <2>2, <3>1, LearningInCall
  <2>4. CASE Judge(s) \/ AbandonJudgement(s) \/ PlanFinal(s)
    <3>1. UNCHANGED <<remote, stage, synced, callers, answered, released>> /\ call[s].pc # "idle"
      BY <2>4 DEF Judge, AbandonJudgement, PlanFinal, Settles, repository, history, At
    <3>2. Others(s)
      BY <2>2, <2>4 DEF Judge, AbandonJudgement, PlanFinal, Settles, Finish, Shape, CallShape, Others
    <3>3. QED BY <3>1, <3>2, LearningAside DEF Others
  <2>5. CASE call[s].plan.id = Final(s) /\ Answer(s, Receipt(s))
    BY <2>2, <2>5, LearningInCall DEF Final
  <2>6. CASE \/ Raise(s) \/ Reconfirm(s, SyncConfirmed(s)) \/ Refuse(s, SyncConfirmed(s))
             \/ Write(s, SyncValid(s)) \/ Reject(s, "raised", SyncValid(s))
             \/ Persist(s, SyncPersist(s)) \/ Reject(s, "written", SyncPersist(s))
             \/ Lower(s, SyncPublished(s)) \/ Reject(s, "pushed", SyncPublished(s)) \/ Fail(s)
    BY <2>2, <2>6, LearningInCall
  <2>7. QED BY <2>1, <2>3, <2>4, <2>5, <2>6 DEF SyncStep
<1>4. CASE callers \cap Ingests # {} /\ Release
  BY <1>4 DEF Release, CoverageReadable, Cursor, Learns, HEAD
<1>5. CASE OwnerStep \/ UNCHANGED vars
  BY <1>5, LearningAside DEF OwnerStep, OwnerEdit, OwnerCommit, vars, history, repository
<1>6. CASE Crash
  BY <1>6, LearningAside DEF Crash, repository, history, Idle
<1>7. CASE Initialize
  BY <1>7 DEF Initialize, history, Learns, HEAD
<1>8. QED BY <1>1, <1>2, <1>3, <1>4, <1>5, <1>6, <1>7 DEF Next

LEMMA Growing ==
  ASSUME Shape, [Next]_vars
  PROVE  HEAD \in Nat /\ HEAD' \in Nat /\ HEAD' >= HEAD /\ \A k \in 1..HEAD : log'[k] = log[k]
<1>1. HEAD \in Nat /\ HEAD' \in Nat
  BY Effects DEF Shape
<1>2. log' = log => HEAD' = HEAD
  BY DEF HEAD
<1>3. log' = log \/ \E entry : Appended(entry)
  BY Effects DEF Aside, OwnerCommits, Effect, Begins, Raises, Confirms, Writes, Persists, Lowers, Undoes, Judges,
                 Finalizes, Quiet, Commits
<1>4. QED BY <1>1, <1>2, <1>3 DEF Appended

Told ==
  /\ remote \in 1..HEAD /\ synced \in 0..remote
  /\ stage \in [Ops -> Stages]
  /\ callers \subseteq Ops /\ answered \subseteq callers
  /\ \A o \in Ops : call[o].pc # "idle" => o \in callers
  /\ \A o \in answered : \E k \in 1..remote : log[k].plan = <<o, "final">>

LEMMA ToldStep ==
  ASSUME Shape, Transactions, Told, [Next]_vars
  PROVE  Told'
<1>1. HEAD \in Nat /\ HEAD' \in Nat /\ HEAD' >= HEAD /\ \A k \in 1..HEAD : log'[k] = log[k]
  BY Growing
<1>2. Learns
  BY Learning
<1>3. HEAD >= 1
  BY DEF Shape
<1>4. remote' \in 1..HEAD' /\ synced' \in 0..remote' /\ remote' >= remote /\ remote \in 1..HEAD
  BY <1>1, <1>2, <1>3 DEF Told, Learns
<1>5. \A o \in answered : \E k \in 1..remote' : log'[k].plan = <<o, "final">>
  <2>1. SUFFICES ASSUME NEW o \in answered
                 PROVE  \E k \in 1..remote' : log'[k].plan = <<o, "final">>
    OBVIOUS
  <2>2. PICK k \in 1..remote : log[k].plan = <<o, "final">>
    BY DEF Told
  <2>3. k \in 1..remote' /\ k \in 1..HEAD
    BY <1>1, <1>4
  <2>4. log'[k] = log[k]
    BY <1>1, <2>3
  <2>5. QED BY <2>2, <2>3, <2>4
<1>6. stage' \in [Ops -> Stages] /\ callers' = callers /\ callers' \subseteq Ops
      /\ \A o \in Ops : call'[o].pc # "idle" => o \in callers
  BY <1>2 DEF Told, Learns
<1>7. CASE answered' = answered
  BY <1>4, <1>5, <1>6, <1>7 DEF Told
<1>8. CASE answered' # answered
  <2>1. PICK o \in Ops : /\ answered' = answered \cup {o} /\ call[o].pc = "lowered"
                         /\ call[o].plan.id = <<o, "final">>
                         /\ synced = HEAD /\ UNCHANGED <<log, remote>>
    BY <1>2, <1>8 DEF Learns
  <2>2. remote = HEAD /\ o \in callers
    BY <1>1, <1>4, <2>1 DEF Told
  <2>3. \E k \in 1..remote : log[k].plan = <<o, "final">>
    BY <2>1, <2>2 DEF Transactions, Calls, Kept, Done
  <2>4. \A p \in answered' : \E k \in 1..remote' : log'[k].plan = <<p, "final">>
    BY <1>5, <2>1, <2>3
  <2>5. answered' \subseteq callers'
    BY <1>6, <2>1, <2>2 DEF Told
  <2>6. QED BY <1>4, <1>6, <2>4, <2>5 DEF Told
<1>9. QED BY <1>7, <1>8

LEMMA ToldAtFirst == Init => Told
<1>1. SUFFICES ASSUME Init PROVE Told
  OBVIOUS
<1>2. HEAD = 1
  BY <1>1 DEF Init, HEAD
<1>3. callers \subseteq Ops
  BY <1>1, OperationsAssumption DEF Init, OperationsAssumption
<1>4. QED BY <1>1, <1>2, <1>3 DEF Init, Told, Stages, Idle

LEMMA Telling == Spec => []Told
<1>1. Shape /\ Transactions /\ Told /\ [Next]_vars => Told'
  BY ToldStep
<1>2. QED BY <1>1, ToldAtFirst, Shaped, Transacted, PTL DEF Spec

LEMMA CommitOfOne ==
  ASSUME Shape, Line, NEW id \in PlanIds, NEW k \in 1..HEAD, log[k].plan = id
  PROVE  CommitOf(id) = k
<1>1. Kept(id) /\ id # None
  BY OperationsAssumption DEF Kept, Done, OperationsAssumption
<1>2. CommitOf(id) \in 1..HEAD /\ log[CommitOf(id)].plan = id
  BY <1>1, Keeping
<1>3. QED BY <1>1, <1>2 DEF Line

\* What a caller was told had succeeded is committed and on the remote (git-durability
\* under applyMemoryTransaction): the answer waits for the push of what HEAD then was.
THEOREM AnswersAreRemote == Spec => []AnsweredIsRemote
<1>1. Shape /\ Transactions /\ Told => AnsweredIsRemote
  <2>1. SUFFICES ASSUME Shape, Transactions, Told, NEW o \in answered
                 PROVE  CommitOf(<<o, "final">>) \in 1..remote
    BY DEF AnsweredIsRemote
  <2>2. PICK k \in 1..remote : log[k].plan = <<o, "final">>
    BY <2>1 DEF Told
  <2>3. k \in 1..HEAD /\ <<o, "final">> \in PlanIds
    BY <2>1 DEF Told, PlanIds, Shape
  <2>4. QED BY <2>1, <2>2, <2>3, CommitOfOne DEF Transactions
<1>2. QED BY <1>1, Shaped, Transacted, Telling, PTL

-----------------------------------------------------------------------------
(* Plans: what a plan that may still be written does to each slot.            *)

\* Can be raised no more: its commit is in the log and its marker is down.
Dead(plan) == Kept(plan.id) /\ marker.id # plan.id

Waiting(fence) == {r.id : r \in fence.pending}

FenceGood(fence) ==
  fence # NoFence =>
    /\ fence.phase \in {"pending", "partial", "completed"}
    /\ \A r, q \in fence.pending : r.id = q.id => r = q
    /\ Waiting(fence) \subseteq Cognition /\ Waiting(fence) \cap fence.completed = {}
    /\ Waiting(fence) \cup fence.completed \subseteq fence.affected
    /\ fence.phase = "completed" => fence.pending = {}

NewCatalog(plan) ==
  "catalog" \in DOMAIN plan.after =>
    /\ plan.id[2] = "final"
    /\ Advance(plan.before.catalog, plan.after.catalog, plan.id[1])
    /\ plan.before.catalog.generation # plan.id[1]

NewCheckpoint(plan) ==
  "checkpoint" \in DOMAIN plan.after =>
    /\ "catalog" \in DOMAIN plan.after
    /\ Cursor(plan.after) \in DOMAIN Events /\ Cursor(plan.before) = Cursor(plan.after) - 1
    /\ Covers(plan.after.catalog, Events[Cursor(plan.after)])

NewFence(plan) ==
  "fence" \in DOMAIN plan.after =>
    /\ plan.id[1] \in Syncs
    /\ plan.after.fence # NoFence /\ FenceGood(plan.after.fence)
    /\ <<plan.after.fence.op, "block">> \in journal \cup {plan.id}

\* A block is over revisions of one catalog, none of them under a fence.
BlockText(plan) ==
  LET request == plan.request
  IN /\ request.from \in 1..HEAD /\ request.to \in 1..HEAD
     /\ log[request.from].tree.catalog = log[request.to].tree.catalog
     /\ log[request.from].tree.fence.phase # "pending"
     /\ DOMAIN plan.after = {"fence"} /\ plan.after.fence = PendingFence(plan.id[1], request)

BlockPlan(plan) ==
  plan.id[1] \in Syncs /\ plan.id[2] = "block" =>
    /\ BlockText(plan) /\ plan.before.fence # plan.after.fence
    /\ plan.before.fence.phase = "pending" =>
         plan.before.fence.request.from = plan.request.from /\ plan.after.fence.phase = "pending"

FinalPlan(plan) ==
  plan.id[1] \in Syncs /\ plan.id[2] = "final" =>
    /\ DOMAIN plan.after = {"catalog", "fence"}
    /\ plan.request.to \in 1..HEAD /\ Describes(plan.after.catalog, log[plan.request.to].tree.files)
    /\ plan.after.fence.phase # "pending"

\* What was understood at first, and what became of it.
Understandings == {r.id : r \in CurrentCognition(log[1].tree.catalog)}

Dropped(id) == \E k \in 1..HEAD : log[k].tree.fence # NoFence /\ id \in log[k].tree.fence.withdrawn

Known(cat, fence, id) ==
  \/ \E r \in CurrentCognition(cat) : r.id = id
  \/ fence # NoFence /\ id \in fence.withdrawn \cup Waiting(fence)

Knows(cat, fence) == \A id \in Understandings : Known(cat, fence, id) \/ Dropped(id)

NewKnowledge(plan) ==
  IF plan.id[1] \notin Syncs
  THEN "catalog" \in DOMAIN plan.after => Remembers(plan.before.catalog, plan.after.catalog)
  ELSE Knows(IF plan.id[2] = "block" THEN log[plan.request.from].tree.catalog ELSE plan.after.catalog,
             plan.after.fence)

Live(plan) ==
  /\ NewCatalog(plan) /\ NewCheckpoint(plan) /\ NewFence(plan)
  /\ BlockPlan(plan) /\ FinalPlan(plan) /\ NewKnowledge(plan)

Plans ==
  /\ marker # NoPlan => Live(marker)
  /\ \A o \in Ops :
       /\ call[o].pc = "planned" => Live(call[o].plan) \/ Dead(call[o].plan)
       /\ call[o].pc \in {"planned", "raised"} /\ call[o].plan.id = <<o, "block">> =>
            call[o].head = call[o].plan.request.to
       /\ call[o].pc \in {"lowered", "judging"} /\ call[o].plan.id = <<o, "block">> => BlockText(call[o].plan)

\* The block of an operation, as it is committed.
Blocks ==
  \A k \in 1..HEAD, s \in Syncs : log[k].plan = Block(s) =>
    LET request == log[k].request
    IN /\ k > 1 /\ request.from \in 1..(k-1) /\ request.to \in 1..(k-1)
       /\ log[request.from].tree.catalog = log[request.to].tree.catalog
       /\ log[request.from].tree.fence.phase # "pending"
       /\ log[k].tree.fence = PendingFence(s, request) /\ log[k-1].tree.fence # log[k].tree.fence
       /\ \A slot \in Slots \ {"fence"} : log[k].tree[slot] = log[k-1].tree[slot]

\* A fence that is up stays up, over the same revision, until the catalog changes.
Takeovers ==
  \A j, k \in 1..HEAD :
    j <= k /\ log[j].tree.fence.phase = "pending" /\ log[j].tree.catalog = log[k].tree.catalog =>
      /\ log[k].tree.fence.phase = "pending"
      /\ log[k].tree.fence.request.from = log[j].tree.fence.request.from
      /\ log[j].tree.fence.request.from \in 1..(j-1)

\* Every committed catalog is sound and its maker's plan committed; every fence is readable.
History ==
  \A k \in 1..HEAD :
    LET t == log[k].tree
    IN /\ Sound(t.catalog) /\ FenceGood(t.fence) /\ Knows(t.catalog, t.fence)
       /\ t.catalog.generation \in Ops => Kept(<<t.catalog.generation, "final">>)

\* A final plan is committed over the revision it was asked for.
Publications ==
  \A k \in Finals :
    /\ log[k].request.to \in 1..HEAD
    /\ Describes(log[k].tree.catalog, log[log[k].request.to].tree.files)

LogContents == History /\ Blocks /\ Takeovers /\ Publications /\ OneLine

\* So it is in the working tree, where the maker's plan may still be under its marker.
TreeContents ==
  /\ Sound(tree.catalog) /\ FenceGood(tree.fence) /\ Knows(tree.catalog, tree.fence)
  /\ tree.catalog.generation \in Ops => <<tree.catalog.generation, "final">> \in journal
  /\ tree.fence # NoFence => <<tree.fence.op, "block">> \in journal
  /\ Cursor(tree) = 0 \/ Cursor(tree) \in DOMAIN Events
  /\ CheckpointCoversArchive /\ FencedCatalogIsStable

Contents == Plans /\ LogContents /\ TreeContents

-----------------------------------------------------------------------------
(* What is said of a plan stays true as the log and the journal grow.        *)

Grown == HEAD \in Nat \ {0} /\ HEAD' \in Nat /\ HEAD' >= HEAD /\ \A k \in 1..HEAD : log'[k] = log[k]

LEMMA StableFence ==
  ASSUME Grown, NEW s, NEW request, request.from \in 1..HEAD
  PROVE  PendingFence(s, request)' = PendingFence(s, request)
<1>1. log'[request.from] = log[request.from]
  BY DEF Grown
<1>2. QED BY <1>1 DEF PendingFence, Inherited

LEMMA StableText ==
  ASSUME Grown
  PROVE  \A plan : BlockText(plan) => BlockText(plan)'
<1>1. SUFFICES ASSUME NEW plan, BlockText(plan) PROVE BlockText(plan)'
  OBVIOUS
<1> DEFINE request == plan.request
<1>2. /\ request.from \in 1..HEAD /\ request.to \in 1..HEAD
      /\ log[request.from].tree.catalog = log[request.to].tree.catalog
      /\ log[request.from].tree.fence.phase # "pending"
      /\ DOMAIN plan.after = {"fence"} /\ plan.after.fence = PendingFence(plan.id[1], request)
  BY <1>1 DEF BlockText
<1> HIDE DEF request
<1>3. PendingFence(plan.id[1], request)' = PendingFence(plan.id[1], request) /\ request' = request
  BY <1>2, StableFence DEF request
<1>4. /\ log'[request.from] = log[request.from] /\ log'[request.to] = log[request.to]
      /\ request.from \in 1..HEAD' /\ request.to \in 1..HEAD'
  BY <1>2 DEF Grown
<1>5. QED BY <1>2, <1>3, <1>4 DEF BlockText, request

LEMMA StableKnowledge ==
  ASSUME Grown
  PROVE  Understandings' = Understandings /\ \A cat, fence : Knows(cat, fence) => Knows(cat, fence)'
<1>1. \A id : Dropped(id) => Dropped(id)'
  BY DEF Grown, Dropped
<1>2. log'[1] = log[1]
  BY DEF Grown
<1>3. Understandings' = Understandings
  BY <1>2 DEF Understandings
<1>4. QED BY <1>1, <1>3 DEF Knows

LEMMA StableLive ==
  ASSUME Grown, journal \subseteq journal'
  PROVE  \A plan : Live(plan) => Live(plan)'
<1>1. SUFFICES ASSUME NEW plan, Live(plan) PROVE Live(plan)'
  OBVIOUS
<1>2. NewCatalog(plan)' /\ NewCheckpoint(plan)'
  BY <1>1 DEF Live, NewCatalog, NewCheckpoint
<1>3. NewFence(plan)'
  BY <1>1 DEF Live, NewFence
<1>4. BlockPlan(plan)'
  BY <1>1, StableText DEF Live, BlockPlan
<1>5. FinalPlan(plan)'
  <2>1. SUFFICES ASSUME plan.id[1] \in Syncs, plan.id[2] = "final" PROVE FinalPlan(plan)'
    BY DEF FinalPlan
  <2>2. plan.request.to \in 1..HEAD
    BY <1>1, <2>1 DEF Live, FinalPlan
  <2>3. log'[plan.request.to] = log[plan.request.to] /\ plan.request.to \in 1..HEAD'
    BY <2>2 DEF Grown
  <2>4. QED BY <1>1, <2>1, <2>3 DEF Live, FinalPlan
<1>6. NewKnowledge(plan)'
  <2>1. CASE plan.id[1] \notin Syncs
    BY <1>1, <2>1 DEF Live, NewKnowledge
  <2>2. CASE plan.id[1] \in Syncs /\ plan.id[2] # "block"
    BY <1>1, <2>2, StableKnowledge DEF Live, NewKnowledge
  <2>3. CASE plan.id[1] \in Syncs /\ plan.id[2] = "block"
    <3>1. plan.request.from \in 1..HEAD
      BY <1>1, <2>3 DEF Live, BlockPlan, BlockText
    <3>2. log'[plan.request.from] = log[plan.request.from]
      BY <3>1 DEF Grown
    <3>3. QED BY <1>1, <2>3, <3>2, StableKnowledge DEF Live, NewKnowledge
  <2>4. QED BY <2>1, <2>2, <2>3
<1>7. QED BY <1>2, <1>3, <1>4, <1>5, <1>6 DEF Live

LEMMA GrownStep ==
  ASSUME Shape, [Next]_vars
  PROVE  Grown /\ journal \subseteq journal'
<1>1. Grown
  BY Growing DEF Grown, Shape
<1>2. journal \subseteq journal'
  BY Effects DEF Aside, OwnerCommits, Effect, Begins, Raises, Confirms, Writes, Persists, Lowers, Undoes, Judges,
                 Finalizes, Quiet
<1>3. QED BY <1>1, <1>2
-----------------------------------------------------------------------------
(* The fences a synchronization makes.                                       *)

LEMMA NoFencePhase == NoFence.phase = "none"
BY DEF NoFence

LEMMA BlockFence ==
  ASSUME NEW s, NEW request, NEW original, original = log[request.from].tree,
         FenceGood(original.fence), original.fence.phase # "pending",
         NEW fence, fence = PendingFence(s, request)
  PROVE  /\ fence.op = s /\ fence.request = request /\ fence.gen = original.catalog.generation
         /\ fence.phase \in {"pending", "partial"} /\ (request.from # request.to => fence.phase = "pending")
         /\ fence # NoFence /\ FenceGood(fence) /\ fence.pending = Inherited(original)
         /\ original.fence # NoFence => \A id \in Waiting(original.fence) :
              id \in Waiting(fence) \/ \E r \in CurrentCognition(original.catalog) : r.id = id
<1> DEFINE prior == original.fence
           continued == prior.phase = "partial"
           inherited == Inherited(original)
           settled == {r.id : r \in prior.pending \ inherited}
<1>1. /\ fence.op = s /\ fence.request = request /\ fence.gen = original.catalog.generation
      /\ fence.phase = IF continued /\ inherited # {} /\ request.from = request.to THEN "partial" ELSE "pending"
      /\ fence.pending = inherited
      /\ fence.completed = IF continued THEN prior.completed \cup settled ELSE {}
      /\ fence.affected = {r.id : r \in CurrentCognition(original.catalog)}
                            \cup IF continued THEN prior.affected ELSE {}
  BY DEF PendingFence
<1>2. inherited = IF prior.phase # "partial" THEN {}
                  ELSE {r \in prior.pending : \A c \in Current(original.catalog) : c.id # r.id}
  BY DEF Inherited
<1>3. continued => prior # NoFence
  BY NoFencePhase
<1>4. prior # NoFence =>
        /\ prior.phase \in {"pending", "partial", "completed"}
        /\ \A r, q \in prior.pending : r.id = q.id => r = q
        /\ Waiting(prior) \subseteq Cognition /\ Waiting(prior) \cap prior.completed = {}
        /\ Waiting(prior) \cup prior.completed \subseteq prior.affected
        /\ prior.phase = "completed" => prior.pending = {}
  BY DEF FenceGood
<1>5. prior # NoFence => prior.phase \in {"partial", "completed"}
  BY <1>4
<1> HIDE DEF inherited, settled, prior
<1>6. fence.phase \in {"pending", "partial"} /\ fence # NoFence
  BY <1>1, NoFencePhase
<1>7. inherited # {} => continued /\ inherited \subseteq prior.pending
  BY <1>2
<1>8. /\ \A r, q \in fence.pending : r.id = q.id => r = q
      /\ Waiting(fence) \subseteq Cognition
  BY <1>1, <1>3, <1>4, <1>7 DEF Waiting
<1>9. Waiting(fence) \cap fence.completed = {}
  <2>1. SUFFICES ASSUME NEW r \in inherited, r.id \in fence.completed PROVE FALSE
    BY <1>1 DEF Waiting
  <2>2. continued /\ r \in prior.pending
    BY <1>7, <2>1
  <2>3. CASE r.id \in prior.completed
    BY <1>3, <1>4, <2>2, <2>3 DEF Waiting
  <2>4. CASE r.id \in settled
    <3>1. PICK q \in prior.pending \ inherited : q.id = r.id
      BY <2>4 DEF settled
    <3>2. QED BY <1>3, <1>4, <2>1, <2>2, <3>1
  <2>5. QED BY <1>1, <2>1, <2>2, <2>3, <2>4
<1>10. Waiting(fence) \cup fence.completed \subseteq fence.affected
  <2>1. SUFFICES ASSUME continued PROVE Waiting(fence) \cup fence.completed \subseteq fence.affected
    BY <1>1, <1>7 DEF Waiting
  <2>2. Waiting(fence) \subseteq Waiting(prior) /\ settled \subseteq Waiting(prior)
    BY <1>1, <1>7 DEF Waiting, settled
  <2>3. QED BY <1>1, <1>3, <1>4, <2>1, <2>2
<1>11. FenceGood(fence)
  BY <1>6, <1>8, <1>9, <1>10 DEF FenceGood
<1>12. ASSUME prior # NoFence, NEW id \in Waiting(prior)
       PROVE  id \in Waiting(fence) \/ \E r \in CurrentCognition(original.catalog) : r.id = id
  <2>1. PICK r \in prior.pending : r.id = id
    BY <1>12 DEF Waiting
  <2>2. id \in Cognition /\ prior.phase = "partial"
    BY <1>4, <1>5, <1>12, <2>1
  <2>3. r \in inherited \/ \E c \in Current(original.catalog) : c.id = r.id
    BY <1>2, <2>1, <2>2
  <2>4. QED BY <1>1, <2>1, <2>2, <2>3 DEF Waiting, CurrentCognition
<1>13. QED BY <1>1, <1>6, <1>11, <1>12 DEF prior, inherited

\* A batch of a synchronization: what it judged, with what it inherited, and whom it judged.
Batch(s, request, original, judged, affected, targets, withdrawn, settled) ==
  /\ request.from \in 1..HEAD /\ original = log[request.from].tree
  /\ FenceGood(original.fence) /\ original.fence.phase # "pending" /\ Knows(original.catalog, original.fence)
  /\ WellFormed(original.catalog) /\ judged \subseteq CurrentCognition(original.catalog)
  /\ affected = judged \cup Inherited(original)
  /\ targets = {r \in affected : request.targets = Everything \/ r.id \in request.targets}
  /\ settled = SettledFence(s, PendingFence(s, request), original, affected, targets, withdrawn)

LEMMA BatchFence ==
  ASSUME NEW s, NEW request, NEW original, NEW judged, NEW affected, NEW targets, NEW withdrawn, NEW settled,
         Batch(s, request, original, judged, affected, targets, withdrawn, settled)
  PROVE  /\ settled.op = s /\ settled.phase \in {"partial", "completed"}
         /\ settled # NoFence /\ FenceGood(settled)
         /\ settled.withdrawn = withdrawn /\ settled.pending = affected \ targets
         /\ targets \subseteq affected /\ \A r \in affected : r.id \in Cognition
<1>0. /\ original = log[request.from].tree /\ FenceGood(original.fence)
      /\ \A r, q \in Current(original.catalog) : r.id = q.id => r = q
      /\ judged \subseteq CurrentCognition(original.catalog) /\ affected = judged \cup Inherited(original)
      /\ targets = {r \in affected : request.targets = Everything \/ r.id \in request.targets}
      /\ settled = SettledFence(s, PendingFence(s, request), original, affected, targets, withdrawn)
  BY DEF Batch, WellFormed
<1> USE <1>0
<1> DEFINE fence == PendingFence(s, request)
           prior == original.fence
           pending == affected \ targets
<1>1. DOMAIN fence = {"phase", "op", "request", "gen", "parent", "batch", "pending", "completed", "affected", "withdrawn"}
  BY DEF PendingFence
<1>2. fence.op = s /\ fence.completed = IF prior.phase = "partial"
                                        THEN prior.completed \cup {r.id : r \in prior.pending \ Inherited(original)} ELSE {}
  BY DEF PendingFence
<1> HIDE DEF fence
<1>3. settled = [fence EXCEPT !.phase = IF pending = {} THEN "completed" ELSE "partial",
                   !.gen = s, !.pending = pending, !.withdrawn = withdrawn,
                   !.completed = (@ \ {r.id : r \in affected}) \cup {r.id : r \in targets},
                   !.affected = EverAffected(s, original, affected)]
  BY DEF SettledFence, fence
<1> HIDE DEF pending, prior
<1>4. /\ settled.op = s /\ settled.phase = IF pending = {} THEN "completed" ELSE "partial"
      /\ settled.pending = pending /\ settled.withdrawn = withdrawn
      /\ settled.completed = (fence.completed \ {r.id : r \in affected}) \cup {r.id : r \in targets}
      /\ settled.affected = EverAffected(s, original, affected)
  BY <1>1, <1>2, <1>3
<1>5. settled.affected = {r.id : r \in affected} \cup IF prior.phase = "partial" THEN prior.affected ELSE {}
  BY <1>4 DEF EverAffected, prior
<1>6. Inherited(original) = IF prior.phase # "partial" THEN {}
                            ELSE {r \in prior.pending : \A c \in Current(original.catalog) : c.id # r.id}
  BY DEF Inherited, prior
<1>7. prior.phase = "partial" =>
        /\ \A r, q \in prior.pending : r.id = q.id => r = q
        /\ Waiting(prior) \subseteq Cognition /\ Waiting(prior) \cup prior.completed \subseteq prior.affected
  BY NoFencePhase DEF FenceGood, prior
<1>8. \A r \in affected : r.id \in Cognition
  BY <1>6, <1>7 DEF Waiting, CurrentCognition
<1>9. \A r, q \in affected : r.id = q.id => r = q
  BY <1>6, <1>7 DEF CurrentCognition
<1>10. pending \subseteq affected /\ targets \subseteq affected /\ \A r \in pending, q \in targets : r.id # q.id
  BY <1>9 DEF pending
<1>11. Waiting(settled) \subseteq {r.id : r \in affected}
  BY <1>4, <1>10 DEF Waiting
<1>12. ASSUME NEW id \in Waiting(settled), id \in settled.completed PROVE FALSE
  <2>1. PICK r \in pending : r.id = id
    BY <1>4, <1>12 DEF Waiting
  <2>2. id \in {q.id : q \in affected}
    BY <1>11, <1>12
  <2>3. PICK q \in targets : q.id = id
    BY <1>4, <1>12, <2>2
  <2>4. QED BY <1>10, <2>1, <2>3
<1>13. fence.completed \subseteq IF prior.phase = "partial" THEN prior.affected ELSE {}
  BY <1>2, <1>7 DEF Waiting
<1>14. Waiting(settled) \cup settled.completed \subseteq settled.affected
  <2>1. {r.id : r \in targets} \subseteq {r.id : r \in affected}
    BY <1>10
  <2>2. settled.completed \subseteq fence.completed \cup {r.id : r \in targets}
    BY <1>4
  <2> HIDE DEF fence
  <2>3. QED BY <1>5, <1>11, <1>13, <2>1, <2>2
<1>15. settled # NoFence /\ settled.phase \in {"partial", "completed"} /\ (settled.phase = "completed" => settled.pending = {})
  BY <1>4, NoFencePhase
<1>16. FenceGood(settled)
  <2>1. \A r, q \in settled.pending : r.id = q.id => r = q
    BY <1>4, <1>9, <1>10
  <2>2. Waiting(settled) \subseteq Cognition
    <3>1. {r.id : r \in affected} \subseteq Cognition
      BY <1>8
    <3>2. QED BY ONLY <1>11, <3>1
  <2>3. Waiting(settled) \cap settled.completed = {}
    BY <1>12
  <2>4. settled.phase \in {"pending", "partial", "completed"}
    BY <1>15
  <2>5. QED BY ONLY <1>14, <1>15, <2>1, <2>2, <2>3, <2>4 DEF FenceGood
<1>17. QED BY <1>4, <1>8, <1>10, <1>15, <1>16 DEF pending
-----------------------------------------------------------------------------
(* What is in the log and in the tree, when neither changes.                 *)

LEMMA SameLog ==
  ASSUME Shape, LogContents, log' = log
  PROVE  LogContents'
<1>1. Grown /\ HEAD' = HEAD /\ Done' = Done
  BY Logging DEF Grown, Shape, HEAD
<1>2. History'
  BY <1>1, StableKnowledge DEF LogContents, History, Kept
<1>3. Blocks'
  <2>1. SUFFICES ASSUME NEW k \in 1..HEAD, NEW s \in Syncs, log[k].plan = Block(s)
                 PROVE  (log[k].tree.fence = PendingFence(s, log[k].request))'
    BY <1>1 DEF LogContents, Blocks
  <2>2. log[k].request.from \in 1..HEAD /\ log[k].tree.fence = PendingFence(s, log[k].request)
    BY <1>1, <2>1 DEF LogContents, Blocks, Grown
  <2>3. \A request : request.from \in 1..HEAD => PendingFence(s, request)' = PendingFence(s, request)
    BY <1>1, StableFence
  <2>4. QED BY <2>2, <2>3
<1>4. Takeovers' /\ Publications' /\ OneLine'
  BY <1>1 DEF LogContents, Takeovers, Publications, Finals, OneLine
<1>5. QED BY <1>2, <1>3, <1>4 DEF LogContents

LEMMA SameTree ==
  ASSUME TreeContents, Grown, \A s \in Slots : tree'[s] = tree[s], journal \subseteq journal'
  PROVE  TreeContents'
<1>1. tree'.catalog = tree.catalog /\ tree'.fence = tree.fence /\ Cursor(tree)' = Cursor(tree)
  BY DEF Slots, Cursor
<1>2. \A cat, fence : Knows(cat, fence) => Knows(cat, fence)'
  BY StableKnowledge
<1>3. Knows(tree.catalog, tree.fence)'
  BY <1>1, <1>2 DEF TreeContents
<1>4. QED BY <1>1, <1>3 DEF TreeContents, CheckpointCoversArchive, FencedCatalogIsStable
-----------------------------------------------------------------------------
(* Plans, step by step.                                                      *)

LEMMA GrownDone ==
  ASSUME Grown
  PROVE  Done \subseteq Done'
<1>1. SUFFICES ASSUME NEW k \in 1..HEAD PROVE log[k].plan \in Done'
  BY DEF Done
<1>2. k \in 1..HEAD' /\ log'[k] = log[k]
  BY DEF Grown
<1>3. QED BY <1>2 DEF Done

LEMMA StableDead ==
  ASSUME Grown, marker' \in {marker, NoPlan}
  PROVE  \A plan : plan.id \in PlanIds /\ Dead(plan) => Dead(plan)'
BY GrownDone, NoPlanId DEF Dead, Kept

\* One call moves; the marker stays or goes.
LEMMA PlansCall ==
  ASSUME Transactions, Plans, Grown, journal \subseteq journal', marker' \in {marker, NoPlan},
         NEW o \in Ops, Others(o),
         call'[o].pc = "planned" =>
           call'[o].plan.id \in PlanIds /\ (Live(call'[o].plan) \/ Dead(call'[o].plan)),
         call'[o].pc \in {"planned", "raised"} /\ call'[o].plan.id = <<o, "block">> =>
           call'[o].head = call'[o].plan.request.to,
         call'[o].pc \in {"lowered", "judging"} /\ call'[o].plan.id = <<o, "block">> => BlockText(call'[o].plan)
  PROVE  Plans'
<1>1. \A plan : Live(plan) => Live(plan)'
  BY StableLive
<1>2. \A plan : plan.id \in PlanIds /\ Dead(plan) => Dead(plan)'
  BY StableDead
<1>3. \A plan : BlockText(plan) => BlockText(plan)'
  BY StableText
<1>4. (marker # NoPlan => Live(marker))'
  BY <1>1 DEF Plans
<1>5. ASSUME NEW p \in Ops
      PROVE  (call[p].pc = "planned" => Live(call[p].plan) \/ Dead(call[p].plan))'
  <2>1. CASE p = o
    BY <1>1, <1>2, <2>1
  <2>2. CASE p # o
    <3>1. call'[p] = call[p] /\ (call[p].pc = "planned" => call[p].plan.id \in PlanIds)
      BY <2>2 DEF Others, Transactions, Calls, PlanShape
    <3>2. QED BY <1>1, <1>2, <3>1 DEF Plans
  <2>3. QED BY <2>1, <2>2
<1>6. ASSUME NEW p \in Ops
      PROVE  (call[p].pc \in {"planned", "raised"} /\ call[p].plan.id = <<p, "block">> =>
                call[p].head = call[p].plan.request.to)'
  BY DEF Plans, Others
<1>7. ASSUME NEW p \in Ops
      PROVE  (call[p].pc \in {"lowered", "judging"} /\ call[p].plan.id = <<p, "block">> => BlockText(call[p].plan))'
  BY <1>3 DEF Plans, Others
<1>8. QED BY <1>4, <1>5, <1>6, <1>7 DEF Plans

LEMMA PlansAside ==
  ASSUME Transactions, Plans, Grown, Aside
  PROVE  Plans'
<1>1. (\A plan : Live(plan) => Live(plan)') /\ \A plan : BlockText(plan) => BlockText(plan)'
  BY StableLive, StableText DEF Aside, Quiet
<1>2. marker' = marker /\ Idle.pc = "idle" /\ \A p \in Ops : call'[p] \in {call[p], Idle}
  BY DEF Aside, Quiet, Idle
<1>3. \A plan : plan.id \in PlanIds /\ Dead(plan) => Dead(plan)'
  BY <1>2, StableDead
<1>4. (marker # NoPlan => Live(marker))'
  BY <1>1, <1>2 DEF Plans
<1>5. ASSUME NEW p \in Ops
      PROVE  (call[p].pc = "planned" => Live(call[p].plan) \/ Dead(call[p].plan))'
  <2>1. call[p].pc = "planned" => call[p].plan.id \in PlanIds
    BY DEF Transactions, Calls, PlanShape
  <2>2. call'[p] = call[p] \/ call'[p].pc = "idle"
    BY <1>2
  <2>3. QED BY <1>1, <1>3, <2>1, <2>2 DEF Plans
<1>6. ASSUME NEW p \in Ops
      PROVE  /\ (call[p].pc \in {"planned", "raised"} /\ call[p].plan.id = <<p, "block">> =>
                  call[p].head = call[p].plan.request.to)'
             /\ (call[p].pc \in {"lowered", "judging"} /\ call[p].plan.id = <<p, "block">> => BlockText(call[p].plan))'
  <2>1. call'[p] = call[p] \/ call'[p].pc = "idle"
    BY <1>2
  <2>2. QED BY <1>1, <2>1 DEF Plans
<1>7. QED BY <1>4, <1>5, <1>6 DEF Plans

LEMMA PlansRaise ==
  ASSUME Shape, Transactions, Plans, Grown, NEW o \in Ops, Raises(o)
  PROVE  Plans'
<1>1. /\ Goes(o, "planned", "raised") /\ journal' = journal /\ marker' = call[o].plan
      /\ Raisable(call[o].plan) /\ ~Replayed(call[o].plan) /\ Done' = Done
  BY Logging DEF Raises
<1>2. call[o].plan.id \in IdsOf(o) /\ PlanShape(call[o].plan)
  BY <1>1 DEF Transactions, Calls, Goes
<1>3. \/ marker = call[o].plan
      \/ marker = NoPlan /\ ~Kept(call[o].plan.id)
  BY <1>1, <1>2, Raised
<1>4. call[o].plan # NoPlan
  BY <1>2, NoPlanId DEF PlanShape
<1>5. Live(call[o].plan)
  BY <1>1, <1>3, <1>4 DEF Plans, Dead, Goes
<1>6. (\A plan : Live(plan) => Live(plan)') /\ \A plan : BlockText(plan) => BlockText(plan)'
  BY <1>1, StableLive, StableText
<1>7. (marker # NoPlan => Live(marker))'
  BY <1>1, <1>5, <1>6
<1>8. ASSUME NEW p \in Ops
      PROVE  (call[p].pc = "planned" => Live(call[p].plan) \/ Dead(call[p].plan))'
  <2>1. CASE p = o
    BY <1>1, <2>1 DEF Goes
  <2>2. CASE p # o
    <3>1. call'[p] = call[p] /\ (call[p].pc = "planned" => call[p].plan.id \in IdsOf(p))
      BY <1>1, <2>2 DEF Goes, Others, Transactions, Calls
    <3>2. call[p].pc = "planned" => call[p].plan.id # marker'.id
      BY <1>1, <1>2, <2>2, <3>1 DEF IdsOf
    <3>3. Kept(call[p].plan.id) <=> Kept(call[p].plan.id)'
      BY <1>1, <3>1 DEF Kept
    <3>4. call[p].pc = "planned" => (Live(call[p].plan) \/ Kept(call[p].plan.id))
      BY DEF Plans, Dead
    <3>5. Kept(call[p].plan.id) /\ call[p].pc = "planned" => Dead(call[p].plan)'
      BY <3>1, <3>2, <3>3 DEF Dead
    <3>6. QED BY <1>6, <3>1, <3>4, <3>5
  <2>3. QED BY <2>1, <2>2
<1>9. ASSUME NEW p \in Ops
      PROVE  /\ (call[p].pc \in {"planned", "raised"} /\ call[p].plan.id = <<p, "block">> =>
                  call[p].head = call[p].plan.request.to)'
             /\ (call[p].pc \in {"lowered", "judging"} /\ call[p].plan.id = <<p, "block">> => BlockText(call[p].plan))'
  BY <1>1, <1>6 DEF Plans, Goes, Others
<1>10. QED BY <1>7, <1>8, <1>9 DEF Plans
LEMMA JournaledBlock ==
  ASSUME Shape, LogContents, NEW s \in Syncs, Kept(Block(s))
  PROVE  BlockText(Journaled(Block(s)))
<1>1. PICK k \in 1..HEAD : k = CommitOf(Block(s)) /\ log[k].plan = Block(s)
  BY Keeping
<1> DEFINE request == log[k].request
           named == {slot \in Slots : log[k].tree[slot] # log[k-1].tree[slot]}
<1>2. /\ request.from \in 1..HEAD /\ request.to \in 1..HEAD
      /\ log[request.from].tree.catalog = log[request.to].tree.catalog
      /\ log[request.from].tree.fence.phase # "pending"
      /\ log[k].tree.fence = PendingFence(s, request) /\ log[k-1].tree.fence # log[k].tree.fence
      /\ \A slot \in Slots \ {"fence"} : log[k].tree[slot] = log[k-1].tree[slot]
  <2>1. Blocks /\ HEAD \in Nat
    BY DEF LogContents, Shape
  <2>2. /\ request.from \in 1..(k-1) /\ request.to \in 1..(k-1)
        /\ log[request.from].tree.catalog = log[request.to].tree.catalog
        /\ log[request.from].tree.fence.phase # "pending"
        /\ log[k].tree.fence = PendingFence(s, request) /\ log[k-1].tree.fence # log[k].tree.fence
        /\ \A slot \in Slots \ {"fence"} : log[k].tree[slot] = log[k-1].tree[slot]
    BY <1>1, <2>1 DEF Blocks
  <2> HIDE DEF request
  <2>3. request.from \in 1..HEAD /\ request.to \in 1..HEAD
    BY <1>1, <2>1, <2>2
  <2>4. QED BY <2>2, <2>3
<1>3. named = {"fence"}
  BY <1>2 DEF Slots
<1>4. /\ Journaled(Block(s)).request = request /\ Journaled(Block(s)).id = Block(s)
      /\ Journaled(Block(s)).after = [slot \in named |-> log[k].tree[slot]]
  BY <1>1 DEF Journaled
<1> HIDE DEF named
<1>5. DOMAIN Journaled(Block(s)).after = {"fence"} /\ Journaled(Block(s)).after.fence = PendingFence(s, request)
  BY <1>2, <1>3, <1>4
<1>6. Journaled(Block(s)).id[1] = s
  BY <1>4 DEF Block
<1> HIDE DEF request
<1>7. QED BY <1>2, <1>4, <1>5, <1>6 DEF BlockText, request

LEMMA PlansConfirm ==
  ASSUME Shape, Transactions, Plans, LogContents, Grown, NEW o \in Ops, Confirms(o)
  PROVE  Plans'
<1>1. /\ Goes(o, "planned", "lowered") /\ Quiet /\ Replayed(call[o].plan) /\ Kept(call[o].plan.id)
  BY DEF Confirms
<1>2. call[o].plan.id \in IdsOf(o) /\ PlanShape(call[o].plan)
  BY <1>1 DEF Goes, Transactions, Calls
<1>3. Recorded(call[o].plan.id) = call[o].plan /\ marker = NoPlan /\ call[o].plan.id \in PlanIds
  BY <1>1, <1>2 DEF Replayed, PlanShape
<1>4. call[o].plan = Journaled(call[o].plan.id)
  BY <1>2, <1>3, NoPlanId, Recording DEF PlanShape
<1>5. ASSUME call[o].plan.id = <<o, "block">> PROVE BlockText(call[o].plan)
  <2>1. o \in Syncs /\ Block(o) = call[o].plan.id
    BY <1>2, <1>5 DEF IdsOf, Block
  <2>2. BlockText(Journaled(Block(o)))
    BY <1>1, <2>1, JournaledBlock
  <2>3. QED BY <1>4, <2>1, <2>2
<1>6. /\ call'[o].pc = "lowered" /\ call'[o].plan = call[o].plan /\ Others(o)
      /\ marker' = marker /\ journal' = journal
  BY <1>1 DEF Goes, Quiet
<1>7. QED BY <1>5, <1>6, PlansCall

LEMMA PlansInTransaction ==
  ASSUME Shape, Transactions, Plans, Grown, journal \subseteq journal', NEW o \in Ops,
         Writes(o) \/ Persists(o) \/ Lowers(o) \/ Undoes(o) \/ Judges(o)
  PROVE  Plans'
<1>1. marker' \in {marker, NoPlan} /\ Others(o)
  BY DEF Writes, Persists, Lowers, Undoes, Judges, Goes, Quiet
<1>2. call'[o].pc \notin {"planned", "raised"}
  BY DEF Writes, Persists, Lowers, Undoes, Judges, Goes, Idle
<1>3. ASSUME call'[o].pc \in {"lowered", "judging"}, call'[o].plan.id = <<o, "block">>
      PROVE  BlockText(call'[o].plan)
  <2>1. Lowers(o) \/ Judges(o)
    BY <1>3 DEF Writes, Persists, Undoes, Goes, Idle
  <2>2. CASE Lowers(o)
    <3>1. call[o].pc = "pushed" /\ call'[o].plan = call[o].plan /\ call[o].plan = marker /\ PlanShape(call[o].plan)
      BY <2>2 DEF Lowers, Goes, Transactions, Held, Holding, Calls
    <3>2. o \in Syncs
      <4>1. call[o].plan.id \in IdsOf(o)
        BY <3>1 DEF Transactions, Calls
      <4>2. <<o, "block">> \in IdsOf(o)
        BY <1>3, <3>1, <4>1
      <4>3. <<o, "block">> # <<o, "final">>
        OBVIOUS
      <4>4. QED BY <4>2, <4>3 DEF IdsOf
    <3>3. Live(call[o].plan)
      BY <3>1, NoPlanId DEF Plans, PlanShape
    <3>4. QED BY <1>3, <3>1, <3>2, <3>3 DEF Live, BlockPlan
  <2>3. CASE Judges(o)
    BY <1>3, <2>3 DEF Judges, Plans
  <2>4. QED BY <2>1, <2>2, <2>3
<1>4. QED BY <1>1, <1>2, <1>3, PlansCall
-----------------------------------------------------------------------------
(* What is planned: by an ingest, a correction, a block and a final plan.    *)

\* What a writer plans over tree.catalog is live, the writer having published nothing yet.
LEMMA WriterPlan ==
  ASSUME Transactions, Contents, NEW o \in Ops, o \notin Syncs, <<o, "final">> \notin journal,
         NEW plan, plan.id = <<o, "final">>, "catalog" \in DOMAIN plan.after, "fence" \notin DOMAIN plan.after,
         plan.before.catalog = tree.catalog,
         Advance(tree.catalog, plan.after.catalog, o), Remembers(tree.catalog, plan.after.catalog),
         NewCheckpoint(plan)
  PROVE  Live(plan)
<1>1. plan.id[1] = o /\ plan.id[2] = "final"
  OBVIOUS
<1>2. tree.catalog.generation # o
  BY DEF Contents, TreeContents
<1>3. NewCatalog(plan) /\ NewFence(plan) /\ BlockPlan(plan) /\ FinalPlan(plan)
  BY <1>1, <1>2 DEF NewCatalog, NewFence, BlockPlan, FinalPlan
<1>4. NewKnowledge(plan)
  BY <1>1 DEF NewKnowledge
<1>5. QED BY <1>3, <1>4 DEF Live

\* What has no record has no journal, once there is no marker.
LEMMA Unrecorded ==
  ASSUME NEW id \in PlanIds, Recorded(id) = NoPlan, marker = NoPlan
  PROVE  id \notin journal
<1>1. Journaled(id).id = id
  BY DEF Journaled
<1>2. Journaled(id) # NoPlan
  BY <1>1, NoPlanId
<1>3. QED BY <1>2 DEF Recorded

LEMMA IngestPlanned ==
  ASSUME Shape, Transactions, Contents, NEW i \in Ingests, PlanIngest(i)
  PROVE  Live(call'[i].plan)
<1>1. PICK policy : policy = CHOOSE p \in PolicyRow(tree.catalog) : TRUE
  OBVIOUS
<1> DEFINE n == Page[i]
           rows == ArchiveRows(tree.catalog, Events[n], i, policy)
<1>2. PICK after : after = [tree.catalog EXCEPT !.generation = i, !.parent = tree.catalog.generation, !.rows = rows]
  OBVIOUS
<1>3. PICK plan : plan = [id |-> <<i, "final">>, request |-> policy,
          before |-> [catalog |-> tree.catalog, checkpoint |-> tree.checkpoint],
          after  |-> [catalog |-> after, checkpoint |-> NextCheckpoint(i, policy)]]
  OBVIOUS
<1>4. /\ Recorded(<<i, "final">>) = NoPlan /\ marker = NoPlan /\ Cursor(tree) = n - 1
      /\ ~ViewNeedsRebuild(tree.catalog, after) /\ Start(i, plan, 0)
  BY <1>1, <1>2, <1>3 DEF PlanIngest, StartFresh, Admissible, TreeReadable
<1>5. i \in Ops /\ i \notin Syncs /\ n \in DOMAIN Events
  BY OperationsAssumption, IdsAssumption DEF OperationsAssumption, IdsAssumption
<1>6. <<i, "final">> \notin journal
  BY <1>4, <1>5, Unrecorded DEF PlanIds
<1>7. Sound(tree.catalog)
  BY DEF Contents, TreeContents
<1>8. Advance(tree.catalog, after, i) /\ Covers(after, Events[n]) /\ Remembers(tree.catalog, after)
  BY <1>2, <1>4, <1>5, <1>7, Ingesting
<1> HIDE DEF n
<1>9. /\ plan.id = <<i, "final">> /\ DOMAIN plan.after = {"catalog", "checkpoint"}
      /\ plan.before.catalog = tree.catalog /\ plan.before.checkpoint = tree.checkpoint
      /\ plan.after.catalog = after /\ plan.after.checkpoint.cursor = n
  BY <1>3 DEF NextCheckpoint, n
<1>10. NewCheckpoint(plan)
  BY <1>4, <1>5, <1>8, <1>9 DEF NewCheckpoint, Cursor
<1>11. Live(plan)
  BY <1>5, <1>6, <1>8, <1>9, <1>10, WriterPlan
<1>12. call'[i].plan = plan
  BY <1>4, <1>5, Starting
<1>13. QED BY <1>11, <1>12

LEMMA CorrectionPlanned ==
  ASSUME Shape, Transactions, Contents, NEW k \in Corrects, NEW e, PlanCorrection(k, e)
  PROVE  Live(call'[k].plan)
<1>0. PICK cat : cat = tree.catalog
  OBVIOUS
<1>1. PICK ids, proposal, plan, after :
         /\ ids \in SUBSET {r.id : r \in Candidates(cat)} /\ proposal \in Proposals(cat, ids)
         /\ ScopeComplete(cat, ids)
         /\ after = CorrectedCatalog(cat, proposal, e, k)
         /\ plan = [id |-> <<k, "final">>, request |-> e,
                    before |-> [catalog |-> cat], after |-> [catalog |-> after]]
         /\ Start(k, plan, 0)
  BY <1>0 DEF PlanCorrection, StartFresh
<1>2. DOMAIN proposal = ids /\ \A id \in ids : proposal[id].cites \subseteq Current(cat)
  BY <1>1 DEF Proposals, Candidates, Originals, SourceRows, CurrentCognition
<1>3. /\ Recorded(<<k, "final">>) = NoPlan /\ marker = NoPlan /\ e.id \in EventIds
      /\ ids \subseteq {r.id : r \in CurrentCognition(cat)} /\ ScopeComplete(cat, ids)
      /\ Start(k, plan, 0)
  BY <1>1 DEF PlanCorrection, TreeReadable, Candidates
<1>4. k \in Ops /\ k \notin Syncs
  BY OperationsAssumption DEF OperationsAssumption
<1>5. <<k, "final">> \notin journal
  BY <1>3, <1>4, Unrecorded DEF PlanIds
<1>6. Advance(tree.catalog, after, k) /\ Remembers(tree.catalog, after)
  BY <1>0, <1>1, <1>2, <1>3, Correcting DEF Contents, TreeContents
<1>7. /\ plan.id = <<k, "final">> /\ DOMAIN plan.after = {"catalog"}
      /\ plan.before.catalog = tree.catalog /\ plan.after.catalog = after
  BY <1>0, <1>1
<1>8. NewCheckpoint(plan)
  BY <1>7 DEF NewCheckpoint
<1>9. Live(plan)
  BY <1>4, <1>5, <1>6, <1>7, <1>8, WriterPlan
<1>10. call'[k].plan = plan
  BY <1>3, <1>4, Starting
<1>11. QED BY <1>9, <1>10

LEMMA BlockPlanned ==
  ASSUME Shape, Transactions, Contents, NEW s \in Syncs, NEW request \in SyncRequests, PlanBlock(s, request)
  PROVE  /\ Live(call'[s].plan) \/ Dead(call'[s].plan)
         /\ call'[s].plan.id = <<s, "block">> /\ call'[s].head = call'[s].plan.request.to
<1>1. PICK fence : fence = PendingFence(s, request)
  OBVIOUS
<1>2. PICK plan : plan = [id |-> <<s, "block">>, request |-> request,
          before |-> [fence |-> tree.fence], after |-> [fence |-> fence]]
  OBVIOUS
<1>3. PICK original : original = log[request.from].tree
  OBVIOUS
<1>4. /\ OwnRecord(<<s, "block">>) = NoPlan /\ request.to = HEAD /\ request.from \in 1..HEAD
      /\ original.catalog = Committed.catalog /\ Dirty = {}
      /\ request.gen = original.catalog.generation /\ TakenOver(s, request)
      /\ Start(s, plan, request.to)
  BY <1>1, <1>2, <1>3 DEF PlanBlock, Block, StartFresh, AssertTree
<1>5. s \in Ops
  BY OperationsAssumption DEF OperationsAssumption
<1>6. call'[s].plan = plan /\ call'[s].head = request.to
  BY <1>4, <1>5, Starting
<1>7. /\ plan.id = <<s, "block">> /\ plan.id[1] = s /\ plan.id[2] = "block" /\ plan.request = request
      /\ DOMAIN plan.after = {"fence"} /\ plan.after.fence = fence /\ plan.before.fence = tree.fence
  BY <1>2
<1>8. plan.id \in PlanIds
  BY <1>5, <1>7 DEF PlanIds
<1>9. plan.id \notin journal
  <2>1. SUFFICES ASSUME plan.id \in journal PROVE FALSE
    OBVIOUS
  <2>2. Journaled(plan.id) # NoPlan
    BY <1>8, NoPlanId DEF Journaled
  <2>3. marker.id = plan.id
    BY <1>4, <1>7, <2>1, <2>2 DEF OwnRecord
  <2>4. marker # NoPlan
    BY <1>8, <2>3, NoPlanId
  <2>5. QED BY <1>4, <1>7, <2>3, <2>4 DEF OwnRecord, Recorded
<1>10. Live(plan)
  <2>1. tree.catalog = Committed.catalog /\ tree.fence = Committed.fence
    BY <1>4 DEF Dirty, Shape, TreeShape, Fields, Slots
  <2>2. HEAD \in 1..HEAD /\ Committed = log[HEAD].tree
    BY DEF Shape, Committed
  <2>3. ASSUME original.fence.phase = "pending" PROVE FALSE
    <3>1. /\ log[HEAD].tree.fence.phase = "pending"
          /\ log[HEAD].tree.fence.request.from = original.fence.request.from
          /\ original.fence.request.from < request.from
      BY <1>3, <1>4, <2>2, <2>3 DEF Contents, LogContents, Takeovers
    <3>2. tree.fence.request.from = request.from
      BY <1>4, <2>1, <2>2, <3>1 DEF TakenOver
    <3>3. request.from \in Nat
      BY <1>4
    <3>4. QED BY <2>1, <2>2, <3>1, <3>2, <3>3
  <2>4. FenceGood(original.fence) /\ Knows(original.catalog, original.fence)
    BY <1>3, <1>4 DEF Contents, LogContents, History
  <2>5. /\ fence.op = s /\ fence.request = request
        /\ fence.phase \in {"pending", "partial"} /\ (request.from # request.to => fence.phase = "pending")
        /\ fence # NoFence /\ FenceGood(fence)
        /\ original.fence # NoFence => \A id \in Waiting(original.fence) :
             id \in Waiting(fence) \/ \E r \in CurrentCognition(original.catalog) : r.id = id
    BY <1>1, <1>3, <2>3, <2>4, BlockFence
  <2>6. NewCatalog(plan) /\ NewCheckpoint(plan) /\ NewFence(plan) /\ FinalPlan(plan)
    BY <1>7, <2>5 DEF NewCatalog, NewCheckpoint, NewFence, FinalPlan
  <2>7. BlockText(plan)
    BY <1>1, <1>3, <1>4, <1>7, <2>2, <2>3 DEF BlockText
  <2>8. tree.fence # fence
    BY <1>7, <1>9, <2>5 DEF Contents, TreeContents
  <2>9. ASSUME tree.fence.phase = "pending" PROVE tree.fence.request.from = request.from /\ fence.phase = "pending"
    <3>1. tree.fence.request.from = request.from
      BY <1>4, <2>9 DEF TakenOver
    <3>2. tree.fence.request.from < HEAD
      BY <2>1, <2>2, <2>9 DEF Contents, LogContents, Takeovers
    <3>3. QED BY <1>4, <2>5, <3>1, <3>2
  <2>10. BlockPlan(plan)
    BY <1>7, <2>7, <2>8, <2>9 DEF BlockPlan
  <2>11. NewKnowledge(plan)
    <3>1. ASSUME NEW id \in Understandings PROVE Known(original.catalog, fence, id) \/ Dropped(id)
      <4>1. Known(original.catalog, original.fence, id) \/ Dropped(id)
        BY <2>4 DEF Knows
      <4>2. original.fence # NoFence /\ id \in original.fence.withdrawn => Dropped(id)
        BY <1>3, <1>4 DEF Dropped
      <4>3. QED BY <2>5, <4>1, <4>2 DEF Known
    <3>2. Knows(original.catalog, fence)
      BY <3>1 DEF Knows
    <3>3. QED BY <1>3, <1>7, <3>2 DEF NewKnowledge
  <2>12. QED BY <2>6, <2>10, <2>11 DEF Live
<1>11. QED BY <1>4, <1>6, <1>7, <1>10

\* What became of every understanding an earlier generation knew, after a batch.
LEMMA BatchKnowledge ==
  ASSUME NEW s, NEW request, NEW original, NEW judged, NEW affected, NEW targets, NEW withdrawn, NEW settled,
         Batch(s, request, original, judged, affected, targets, withdrawn, settled),
         NEW to, NEW replaced, NEW after,
         Judged(original.catalog, to, judged, replaced, s, after), replaced = {r.id : r \in targets} \ withdrawn
  PROVE  Knows(after, settled)
<1>0. /\ original = log[request.from].tree /\ request.from \in 1..HEAD /\ Knows(original.catalog, original.fence)
      /\ affected = judged \cup Inherited(original)
  BY DEF Batch
<1>7. /\ settled # NoFence /\ settled.withdrawn = withdrawn /\ settled.pending = affected \ targets
  BY BatchFence
<1>8. ASSUME original.fence # NoFence, NEW id \in Waiting(original.fence)
      PROVE  (\E r \in Inherited(original) : r.id = id) \/ \E r \in CurrentCognition(original.catalog) : r.id = id
  <2>1. PICK pending : pending = PendingFence(s, request)
    OBVIOUS
  <2>2. FenceGood(original.fence) /\ original.fence.phase # "pending"
    BY DEF Batch
  <2>3. pending.pending = Inherited(original)
        /\ (id \in Waiting(pending) \/ \E r \in CurrentCognition(original.catalog) : r.id = id)
    BY ONLY <1>0, <1>8, <2>1, <2>2, BlockFence
  <2>4. QED BY <2>3 DEF Waiting
<1>1. SUFFICES ASSUME NEW id \in Understandings PROVE Known(after, settled, id) \/ Dropped(id)
  BY DEF Knows
<1>2. ASSUME NEW r \in affected, r.id = id PROVE Known(after, settled, id)
  <2>1. CASE r \in targets /\ id \in withdrawn
    BY <1>7, <2>1 DEF Known
  <2>2. CASE r \in targets /\ id \notin withdrawn
    <3>1. id \in replaced
      BY <1>2, <2>2
    <3>2. QED BY <3>1 DEF Known, Judged
  <2>3. CASE r \notin targets
    BY <1>2, <1>7, <2>3 DEF Known, Waiting
  <2>4. QED BY <2>1, <2>2, <2>3
<1>3. ASSUME NEW r \in CurrentCognition(original.catalog), r.id = id PROVE Known(after, settled, id)
  <2>1. (\E q \in CurrentCognition(after) : q.id = id) \/ r \in judged
    BY <1>3 DEF Judged
  <2>2. QED BY <1>0, <1>2, <1>3, <2>1 DEF Known
<1>4. Known(original.catalog, original.fence, id) \/ Dropped(id)
  BY <1>0 DEF Knows
<1>5. original.fence # NoFence /\ id \in original.fence.withdrawn => Dropped(id)
  BY <1>0 DEF Dropped
<1>6. QED BY <1>0, <1>2, <1>3, <1>4, <1>5, <1>8 DEF Known

LEMMA FinalPlanned ==
  ASSUME Shape, Transactions, Contents, NEW s \in Syncs, Finalizes(s)
  PROVE  call'[s].plan.id = <<s, "final">> /\ (Live(call'[s].plan) \/ Dead(call'[s].plan))
<1> DEFINE
  block    == call[s].plan
  request  == block.request
  original == log[request.from].tree
  to       == log[request.to].tree.files
  found    == ReassessedRows(original.catalog, original.files, to, request.to)
  unjudged == [original.catalog EXCEPT !.rows = found.rows]
  affected == found.affected \cup Inherited(original)
  targets  == {r \in affected : request.targets = Everything \/ r.id \in request.targets}
<1>1. /\ marker = NoPlan /\ call[s].pc = "judging" /\ WellFormed(unjudged)
      /\ \E withdrawn \in SUBSET {r.id : r \in targets} :
         \E support \in IF withdrawn = {r.id : r \in targets} THEN {{}} ELSE {{r} : r \in Readable(unjudged)} :
           call' = [call EXCEPT ![s].pc = "planned", ![s].plan =
             [id |-> Final(s), request |-> request,
              before |-> [catalog |-> original.catalog, fence |-> block.after.fence],
              after |-> [catalog |-> Successor(original.catalog,
                           Replaced(found.rows, [id \in {r.id : r \in targets} \ withdrawn |-> support], s), s),
                         fence |-> SettledFence(s, block.after.fence, original, affected, targets, withdrawn)]]]
  <2>1. \E f \in {found} : Settles(s, f)
    BY DEF Finalizes, PlanFinal
  <2>2. PICK f \in {found} : Settles(s, f)
    BY <2>1
  <2>3. Settles(s, found)
    <3> HIDE DEF found
    <3>1. QED BY <2>2
  <2>4. marker = NoPlan /\ call[s].pc = "judging"
    BY DEF Finalizes, PlanFinal, At
  <2>5. QED BY <2>3, <2>4 DEF Settles
<1>3. /\ block = call[s].plan /\ request = block.request
      /\ original = log[request.from].tree /\ to = log[request.to].tree.files
  OBVIOUS
<1>4. /\ found = ReassessedRows(original.catalog, original.files, to, request.to)
      /\ unjudged = [original.catalog EXCEPT !.rows = found.rows]
      /\ affected = found.affected \cup Inherited(original)
      /\ targets = {r \in affected : request.targets = Everything \/ r.id \in request.targets}
  OBVIOUS
<1> HIDE DEF block, request, original, to, found, unjudged, affected, targets
<1>9. PICK withdrawn, support :
     /\ withdrawn \in SUBSET {r.id : r \in targets}
     /\ support \in IF withdrawn = {r.id : r \in targets} THEN {{}} ELSE {{r} : r \in Readable(unjudged)}
     /\ call' = [call EXCEPT ![s].pc = "planned", ![s].plan =
          [id |-> Final(s), request |-> request,
           before |-> [catalog |-> original.catalog, fence |-> block.after.fence],
           after |-> [catalog |-> Successor(original.catalog,
                        Replaced(found.rows, [id \in {r.id : r \in targets} \ withdrawn |-> support], s), s),
                      fence |-> SettledFence(s, block.after.fence, original, affected, targets, withdrawn)]]]
  BY <1>1
<1>10. PICK replaced : replaced = {r.id : r \in targets} \ withdrawn
  OBVIOUS
<1>11. PICK after : after = Successor(original.catalog, Replaced(found.rows, [id \in replaced |-> support], s), s)
  OBVIOUS
<1>12. PICK settled : settled = SettledFence(s, block.after.fence, original, affected, targets, withdrawn)
  OBVIOUS
<1>13. /\ s \in Ops /\ DOMAIN call = Ops /\ DOMAIN call[s] = {"pc", "plan", "head"}
       /\ marker = NoPlan /\ call[s].pc = "judging" /\ WellFormed(unjudged)
  BY <1>1, OperationsAssumption DEF OperationsAssumption, Shape, CallShape
<1>14. PICK plan : plan = [id |-> Final(s), request |-> request,
           before |-> [catalog |-> original.catalog, fence |-> block.after.fence],
           after |-> [catalog |-> after, fence |-> settled]]
  OBVIOUS
<1>15. call'[s].plan = plan
  BY <1>9, <1>10, <1>11, <1>12, <1>13, <1>14
<1>16. /\ plan.id = <<s, "final">> /\ plan.id[1] = s /\ plan.id[2] = "final" /\ plan.request = request
       /\ DOMAIN plan.after = {"catalog", "fence"} /\ plan.after.catalog = after /\ plan.after.fence = settled
       /\ plan.before.catalog = original.catalog
  BY <1>14 DEF Final
<1>17. /\ block.id = <<s, "block">> /\ block.id[1] = s /\ BlockText(block) /\ <<s, "block">> \in journal
  <2>1. block.id = <<s, "block">> /\ Kept(<<s, "block">>)
    BY <1>3, <1>13 DEF Transactions, Calls
  <2>2. <<s, "block">> \in PlanIds
    BY <1>13 DEF PlanIds
  <2>3. BlockText(block)
    BY <1>3, <1>13, <2>1 DEF Contents, Plans
  <2>4. QED BY <2>1, <2>2, <2>3 DEF Transactions, Journals
<1>18. /\ request.from \in 1..HEAD /\ request.to \in 1..HEAD /\ original.fence.phase # "pending"
       /\ block.after.fence = PendingFence(s, request)
  BY <1>3, <1>17 DEF BlockText
<1>19. /\ Sound(original.catalog) /\ FenceGood(original.fence) /\ Knows(original.catalog, original.fence)
       /\ original.catalog.generation \in Ops => Kept(<<original.catalog.generation, "final">>)
  BY <1>3, <1>18 DEF Contents, LogContents, History
<1>20. Reassessed(original.catalog, to, found)
  BY <1>4, <1>19, Reassessing
<1>21. found.affected \subseteq CurrentCognition(original.catalog)
       /\ \A r, q \in Current(original.catalog) : r.id = q.id => r = q
  BY <1>19, <1>20 DEF Reassessed, Sound, CatalogOK, WellFormed
<1>22. Batch(s, request, original, found.affected, affected, targets, withdrawn, settled)
  BY <1>3, <1>4, <1>12, <1>18, <1>19, <1>21 DEF Batch, Sound, CatalogOK
<1>23. /\ settled.op = s /\ settled.phase \in {"partial", "completed"}
       /\ settled # NoFence /\ FenceGood(settled)
       /\ targets \subseteq affected /\ \A r \in affected : r.id \in Cognition
  BY <1>22, BatchFence
<1>24. Judged(original.catalog, to, found.affected, replaced, s, after)
  <2>1. unjudged.rows = found.rows /\ Unique(found.rows)
    BY <1>4, <1>13, <1>19 DEF Sound, CatalogOK, WellFormed, Unique, Current, Refs
  <2>2. support \subseteq Readable(unjudged)
    BY <1>9
  <2>3. \A r \in Inherited(original), c \in Current(original.catalog) : c.id # r.id
    BY DEF Inherited
  <2>4. replaced \in SUBSET Cognition /\ replaced \subseteq {r.id : r \in found.affected \cup Inherited(original)}
    BY <1>4, <1>10, <1>23
  <2>5. QED BY <1>11, <1>19, <1>20, <2>1, <2>2, <2>3, <2>4, Judging
<1>25. Knows(after, settled)
  BY <1>10, <1>22, <1>24, BatchKnowledge
<1>26. CASE <<s, "final">> \in journal
  <2>1. <<s, "final">> \in PlanIds /\ marker.id # <<s, "final">>
    BY <1>13, NoPlanId DEF PlanIds
  <2>2. Kept(<<s, "final">>)
    BY <1>26, <2>1 DEF Transactions, Journals
  <2>3. QED BY <1>15, <1>16, <2>1, <2>2 DEF Dead
<1>27. CASE <<s, "final">> \notin journal
  <2>1. original.catalog.generation # s
    BY <1>13, <1>19, <1>27 DEF Transactions, Journals, PlanIds
  <2>2. NewCatalog(plan) /\ NewCheckpoint(plan) /\ NewFence(plan) /\ BlockPlan(plan)
    BY <1>16, <1>17, <1>23, <1>24, <2>1 DEF NewCatalog, NewCheckpoint, NewFence, BlockPlan, Judged
  <2>3. FinalPlan(plan)
    BY <1>3, <1>16, <1>18, <1>23, <1>24 DEF FinalPlan, Judged
  <2>4. NewKnowledge(plan)
    BY <1>16, <1>25 DEF NewKnowledge
  <2>5. QED BY <1>15, <1>16, <2>2, <2>3, <2>4 DEF Live
<1>28. QED BY <1>26, <1>27

LEMMA PlansBegin ==
  ASSUME Shape, Transactions, Contents, Grown, NEW o \in Ops, Begins(o)
  PROVE  Plans'
<1>1. Quiet /\ Others(o) /\ call'[o].pc = "planned" /\ marker' = marker /\ journal' = journal
  BY DEF Begins, Quiet
<1>2. SUFFICES /\ call'[o].plan.id \in PlanIds /\ (Live(call'[o].plan) \/ Dead(call'[o].plan))
               /\ call'[o].plan.id = <<o, "block">> => call'[o].head = call'[o].plan.request.to
  BY <1>1, PlansCall DEF Contents
<1>3. CASE Resumes(o)
  <2>1. PICK id \in {<<o, "block">>, <<o, "final">>} :
          /\ \E plan \in {Recorded(id), OwnRecord(id)} : plan # NoPlan /\ call'[o].plan = plan
          /\ id = <<o, "block">> => call'[o].head = call'[o].plan.request.to
    BY <1>3 DEF Resumes
  <2>2. id \in PlanIds /\ OwnRecord(id) # NoPlan /\ call'[o].plan = OwnRecord(id)
    BY <2>1, ReadAlike DEF PlanIds, Contents
  <2>3. /\ OwnRecord(id).id = id
        /\ \/ marker.id = id /\ OwnRecord(id) = marker
           \/ marker.id # id /\ Kept(id)
    BY <2>1, <2>2, OwnRecording
  <2>4. CASE OwnRecord(id) = marker
    BY <2>1, <2>2, <2>3, <2>4 DEF Contents, Plans
  <2>5. CASE marker.id # id /\ Kept(id)
    BY <2>1, <2>2, <2>3, <2>5, NoPlanId DEF Dead
  <2>6. QED BY <2>3, <2>4, <2>5
<1>4. CASE o \in Ingests /\ PlanIngest(o)
  <2>1. call'[o].plan.id = <<o, "final">>
    BY <1>4, Starting DEF PlanIngest, StartFresh
  <2>2. QED BY <1>4, <2>1, IngestPlanned DEF PlanIds
<1>5. CASE o \in Corrects /\ \E e \in Refs(tree.catalog) : PlanCorrection(o, e)
  <2>1. PICK e \in Refs(tree.catalog) : PlanCorrection(o, e)
    BY <1>5
  <2>2. call'[o].plan.id = <<o, "final">>
    BY <2>1, Starting DEF PlanCorrection, StartFresh
  <2>3. QED BY <1>5, <2>1, <2>2, CorrectionPlanned DEF PlanIds
<1>6. CASE o \in Syncs /\ \E request \in SyncRequests : PlanBlock(o, request)
  <2>1. PICK request \in SyncRequests : PlanBlock(o, request)
    BY <1>6
  <2>2. /\ Live(call'[o].plan) \/ Dead(call'[o].plan)
        /\ call'[o].plan.id = <<o, "block">> /\ call'[o].head = call'[o].plan.request.to
    BY <1>6, <2>1, BlockPlanned
  <2>3. QED BY <2>2 DEF PlanIds
<1>7. QED BY <1>1, <1>3, <1>4, <1>5, <1>6 DEF Begins

LEMMA PlansFinal ==
  ASSUME Shape, Transactions, Contents, Grown, NEW o \in Ops, Finalizes(o)
  PROVE  Plans'
<1>1. o \in Syncs /\ Others(o) /\ call'[o].pc = "planned" /\ marker' = marker /\ journal' = journal
  BY DEF Finalizes, Quiet
<1>2. call'[o].plan.id = <<o, "final">> /\ (Live(call'[o].plan) \/ Dead(call'[o].plan))
  BY <1>1, FinalPlanned
<1>3. <<o, "final">> \in PlanIds /\ <<o, "final">> # <<o, "block">>
  BY DEF PlanIds
<1>4. QED BY <1>1, <1>2, <1>3, PlansCall DEF Contents

LEMMA PlansOwner ==
  ASSUME Transactions, Plans, Grown, OwnerCommits
  PROVE  Plans'
<1>1. marker' = marker /\ call' = call /\ journal' = journal
  BY DEF OwnerCommits
<1>2. (\A plan : Live(plan) => Live(plan)') /\ \A plan : BlockText(plan) => BlockText(plan)'
  BY <1>1, StableLive, StableText
<1>3. \A plan : plan.id \in PlanIds /\ Dead(plan) => Dead(plan)'
  BY <1>1, StableDead
<1>4. \A p \in Ops : call[p].pc = "planned" => call[p].plan.id \in PlanIds
  BY DEF Transactions, Calls, PlanShape
<1>5. (marker # NoPlan => Live(marker))'
  BY <1>1, <1>2 DEF Plans
<1>6. ASSUME NEW p \in Ops
      PROVE  (call[p].pc = "planned" => Live(call[p].plan) \/ Dead(call[p].plan))'
  BY <1>1, <1>2, <1>3, <1>4 DEF Plans
<1>7. ASSUME NEW p \in Ops
      PROVE  /\ (call[p].pc \in {"planned", "raised"} /\ call[p].plan.id = <<p, "block">> =>
                  call[p].head = call[p].plan.request.to)'
             /\ (call[p].pc \in {"lowered", "judging"} /\ call[p].plan.id = <<p, "block">> => BlockText(call[p].plan))'
  BY <1>1, <1>2 DEF Plans
<1>8. QED BY <1>5, <1>6, <1>7 DEF Plans

LEMMA PlansStep ==
  ASSUME Shape, Transactions, Contents, [Next]_vars
  PROVE  Plans'
<1>1. Grown /\ journal \subseteq journal' /\ Plans /\ LogContents
  BY GrownStep DEF Contents
<1>2. Aside \/ OwnerCommits \/ \E o \in Ops : Effect(o)
  BY Effects
<1>3. QED BY <1>1, <1>2, PlansAside, PlansOwner, PlansBegin, PlansRaise, PlansConfirm, PlansInTransaction, PlansFinal
          DEF Effect
-----------------------------------------------------------------------------
(* What the tree says once a plan is written.                                *)

\* A block is written over the catalog its two revisions share.
LEMMA BlockOver ==
  ASSUME Shape, Transactions, Contents, NEW s \in Syncs, SyncValid(s), call[s].pc = "raised",
         NEW plan, plan = call[s].plan, plan.id = <<s, "block">>, ~Kept(plan.id), BlockText(plan)
  PROVE  tree.catalog = log[plan.request.from].tree.catalog
<1>1. s \in Ops
  BY OperationsAssumption DEF OperationsAssumption
<1>2. CommitOf(plan.id) = 0
  BY Keeping
<1>3. call[s].head = plan.request.to
  BY <1>1 DEF Contents, Plans
<1>4. HEAD = plan.request.to /\ Dirty \subseteq {"fence"}
  BY <1>2, <1>3 DEF SyncValid, Revision, AssertTree, BlockText
<1>5. tree.catalog = Committed.catalog
  BY <1>4 DEF Dirty, Shape, TreeShape, Fields, Slots
<1>6. QED BY <1>4, <1>5 DEF Committed, BlockText

LEMMA TreeWrite ==
  ASSUME Shape, Transactions, Contents, Grown, NEW o \in Ops, Writes(o)
  PROVE  TreeContents'
<1>1. PICK plan : plan = call[o].plan
  OBVIOUS
<1>2. /\ call[o].pc = "raised" /\ Valid(o) /\ log' = log /\ journal' = journal \cup {plan.id}
      /\ \A s \in Slots : tree'[s] = IF s \in DOMAIN plan.after THEN plan.after[s] ELSE tree[s]
  BY <1>1 DEF Writes, Goes
<1>3. /\ plan = marker /\ plan.id \in IdsOf(o) /\ plan.id \in PlanIds
      /\ DOMAIN plan.before = DOMAIN plan.after /\ DOMAIN plan.after \subseteq Slots
  BY <1>1, <1>2 DEF Transactions, Held, Holding, Calls, PlanShape
<1>4. Live(plan)
  BY <1>3, NoPlanId DEF Contents, Plans
<1>5. /\ plan.id[1] = o /\ plan.id[2] \in {"block", "final"} /\ plan.id = <<plan.id[1], plan.id[2]>>
      /\ o \notin Syncs => plan.id[2] = "final"
  BY <1>3 DEF IdsOf
<1>6. CASE plan.id \in journal
  <2>1. \A s \in Slots : tree'[s] = tree[s]
    BY <1>1, <1>6, TransactionsWrite
  <2>2. QED BY <1>2, <2>1, SameTree DEF Contents
<1>7. CASE plan.id \notin journal
  <2>1. ~Kept(plan.id) /\ \A s \in DOMAIN plan.after : tree[s] = plan.before[s]
    BY <1>3, <1>7, NoPlanId DEF Transactions, Journals, Marked, Before
  <2>2. PICK cat, fence, t : cat = tree'.catalog /\ fence = tree'.fence /\ t = tree'
    OBVIOUS
  <2>3. /\ cat = IF "catalog" \in DOMAIN plan.after THEN plan.after.catalog ELSE tree.catalog
        /\ fence = IF "fence" \in DOMAIN plan.after THEN plan.after.fence ELSE tree.fence
        /\ t.checkpoint = IF "checkpoint" \in DOMAIN plan.after THEN plan.after.checkpoint ELSE tree.checkpoint
    BY <1>2, <2>2 DEF Slots
  <2>4. /\ Sound(tree.catalog) /\ FenceGood(tree.fence) /\ Knows(tree.catalog, tree.fence)
        /\ tree.catalog.generation \in Ops => <<tree.catalog.generation, "final">> \in journal
        /\ tree.fence # NoFence => <<tree.fence.op, "block">> \in journal
        /\ Cursor(tree) = 0 \/ Cursor(tree) \in DOMAIN Events
        /\ \A n \in 1..Cursor(tree) : Covers(tree.catalog, Events[n])
        /\ tree.fence.phase = "pending" => tree.catalog.generation = tree.fence.gen
    BY DEF Contents, TreeContents, CheckpointCoversArchive, FencedCatalogIsStable
  <2>5. "catalog" \in DOMAIN plan.after =>
          /\ plan.id[2] = "final" /\ Sound(plan.after.catalog)
          /\ plan.after.catalog.generation = o /\ Refs(tree.catalog) \subseteq Refs(plan.after.catalog)
    BY <1>4, <1>5, <2>1 DEF Live, NewCatalog, Advance
  <2>6. "fence" \in DOMAIN plan.after =>
          /\ o \in Syncs /\ plan.after.fence # NoFence /\ FenceGood(plan.after.fence)
          /\ <<plan.after.fence.op, "block">> \in journal'
    BY <1>2, <1>4, <1>5 DEF Live, NewFence
  <2>7. Sound(cat) /\ Refs(tree.catalog) \subseteq Refs(cat) /\ (cat.generation \in Ops => <<cat.generation, "final">> \in journal')
    BY <1>2, <1>5, <2>3, <2>4, <2>5
  <2>8. FenceGood(fence) /\ (fence # NoFence => <<fence.op, "block">> \in journal')
    BY <1>2, <2>3, <2>4, <2>6
  <2>9. \A n : Covers(tree.catalog, Events[n]) => Covers(cat, Events[n])
    BY <2>7 DEF Covers
  <2>10. (Cursor(t) = 0 \/ Cursor(t) \in DOMAIN Events) /\ \A n \in 1..Cursor(t) : Covers(cat, Events[n])
    <3>1. CASE "checkpoint" \notin DOMAIN plan.after
      <4>1. Cursor(t) = Cursor(tree)
        BY <2>3, <3>1 DEF Cursor
      <4>2. QED BY <2>4, <2>9, <4>1
    <3>2. CASE "checkpoint" \in DOMAIN plan.after
      <4>1. /\ "catalog" \in DOMAIN plan.after
            /\ Cursor(plan.after) \in DOMAIN Events /\ Cursor(plan.before) = Cursor(plan.after) - 1
            /\ Covers(plan.after.catalog, Events[Cursor(plan.after)])
        BY <1>4, <3>2 DEF Live, NewCheckpoint
      <4>2. Cursor(t) = Cursor(plan.after) /\ Cursor(tree) = Cursor(plan.before) /\ cat = plan.after.catalog
        BY <2>1, <2>3, <3>2, <4>1 DEF Cursor
      <4>3. Cursor(t) \in Nat \ {0} /\ Cursor(tree) = Cursor(t) - 1 /\ Covers(cat, Events[Cursor(t)])
        BY <4>1, <4>2, IdsAssumption DEF IdsAssumption
      <4>4. ASSUME NEW n \in 1..Cursor(t) PROVE Covers(cat, Events[n])
        <5>1. n = Cursor(t) \/ n \in 1..Cursor(tree)
          BY <4>3
        <5>2. QED BY <2>4, <2>9, <4>3, <5>1
      <4>5. QED BY <4>1, <4>2, <4>4
    <3>3. QED BY <3>1, <3>2
  <2>11. Knows(cat, fence) /\ (fence.phase = "pending" => cat.generation = fence.gen)
    <3>1. CASE o \notin Syncs
      <4>1. fence = tree.fence /\ fence.phase # "pending"
        BY <1>2, <2>3, <2>6, <3>1 DEF Valid, FenceReadable
      <4>2. \A r \in CurrentCognition(tree.catalog) : \E q \in CurrentCognition(cat) : q.id = r.id
        BY <1>4, <1>5, <2>1, <2>3, <3>1 DEF Live, NewKnowledge, Remembers
      <4>3. QED BY <2>4, <4>1, <4>2 DEF Knows, Known
    <3>2. CASE o \in Syncs /\ plan.id[2] = "block"
      <4>1. BlockText(plan) /\ Knows(log[plan.request.from].tree.catalog, plan.after.fence)
        BY <1>4, <1>5, <3>2 DEF Live, BlockPlan, NewKnowledge
      <4>2. tree.catalog = log[plan.request.from].tree.catalog
        BY <1>1, <1>2, <1>5, <2>1, <3>2, <4>1, BlockOver DEF Valid
      <4>3. cat = tree.catalog /\ fence = plan.after.fence /\ plan.after.fence = PendingFence(o, plan.request)
        BY <1>5, <2>3, <4>1 DEF BlockText
      <4>4. fence.gen = tree.catalog.generation
        <5>1. \A request : PendingFence(o, request).gen = log[request.from].tree.catalog.generation
          BY DEF PendingFence
        <5>2. QED BY <4>2, <4>3, <5>1
      <4>5. QED BY <4>1, <4>2, <4>3, <4>4
    <3>3. CASE o \in Syncs /\ plan.id[2] = "final"
      <4>1. /\ DOMAIN plan.after = {"catalog", "fence"} /\ plan.after.fence.phase # "pending"
            /\ Knows(plan.after.catalog, plan.after.fence)
        BY <1>4, <1>5, <3>3 DEF Live, FinalPlan, NewKnowledge
      <4>2. QED BY <2>3, <4>1
    <3>4. QED BY <1>5, <3>1, <3>2, <3>3
  <2>12. Knows(cat, fence)'
    BY <2>11, StableKnowledge
  <2>13. Knows(tree.catalog, tree.fence)'
    BY <2>2, <2>12
  <2>14. Cursor(t) = Cursor(tree)'
    BY <2>2 DEF Cursor
  <2>15. QED BY <2>2, <2>7, <2>8, <2>10, <2>11, <2>13, <2>14 DEF TreeContents, CheckpointCoversArchive, FencedCatalogIsStable
<1>8. QED BY <1>6, <1>7
-----------------------------------------------------------------------------
(* What the log says once it is longer.                                      *)

\* What an entry has to say to follow the log as it is.
Follows(entry) ==
  LET t == entry.tree
  IN /\ Sound(t.catalog) /\ FenceGood(t.fence) /\ Knows(t.catalog, t.fence)
     /\ t.catalog.generation \in Ops => <<t.catalog.generation, "final">> \in Done \cup {entry.plan}
     /\ \A s \in Syncs : entry.plan = Block(s) =>
          LET request == entry.request
          IN /\ request.from \in 1..HEAD /\ request.to \in 1..HEAD
             /\ log[request.from].tree.catalog = log[request.to].tree.catalog
             /\ log[request.from].tree.fence.phase # "pending"
             /\ t.fence = PendingFence(s, request) /\ Committed.fence # t.fence
             /\ \A slot \in Slots \ {"fence"} : t[slot] = Committed[slot]
     /\ t.fence.phase = "pending" => t.fence.request.from \in 1..HEAD
     /\ \A j \in 1..HEAD : log[j].tree.fence.phase = "pending" /\ log[j].tree.catalog = t.catalog =>
          t.fence.phase = "pending" /\ t.fence.request.from = log[j].tree.fence.request.from
     /\ \A s \in Syncs : entry.plan = Final(s) =>
          entry.request.to \in 1..HEAD /\ Describes(t.catalog, log[entry.request.to].tree.files)
     /\ \/ t.catalog = Committed.catalog
        \/ t.catalog.parent = Committed.catalog.generation /\ t.catalog.generation # Committed.catalog.generation

LEMMA LongerLog ==
  ASSUME Shape, LogContents, Grown, NEW entry, Appended(entry), Follows(entry)
  PROVE  LogContents'
<1>1. PICK n : n = HEAD
  OBVIOUS
<1>2. /\ n \in Nat \ {0} /\ HEAD' = n + 1 /\ log'[n + 1] = entry /\ \A k \in 1..n : log'[k] = log[k]
      /\ Committed = log[n].tree
  BY <1>1 DEF Appended, Shape, Committed
<1>3. \A k \in 1..HEAD' : k \in 1..n \/ k = n + 1
  BY <1>2
<1>4. Done' = Done \cup {entry.plan}
  BY Logging
<1>5. History'
  <2>1. \A cat, fence : Knows(cat, fence) => Knows(cat, fence)'
    BY StableKnowledge
  <2>2. ASSUME NEW k \in 1..n
        PROVE  (LET t == log[k].tree
                IN /\ Sound(t.catalog) /\ FenceGood(t.fence) /\ Knows(t.catalog, t.fence)
                   /\ t.catalog.generation \in Ops => Kept(<<t.catalog.generation, "final">>))'
    <3>1. PICK t : t = log[k].tree /\ t = log'[k].tree
      BY <1>2
    <3>2. /\ Sound(t.catalog) /\ FenceGood(t.fence) /\ Knows(t.catalog, t.fence)
          /\ t.catalog.generation \in Ops => Kept(<<t.catalog.generation, "final">>)
      BY <1>1, <3>1 DEF LogContents, History
    <3>3. Knows(t.catalog, t.fence)'
      BY <2>1, <3>2
    <3>4. QED BY <1>4, <3>1, <3>2, <3>3 DEF Kept
  <2>3. /\ Sound(log'[n + 1].tree.catalog) /\ FenceGood(log'[n + 1].tree.fence)
        /\ (Knows(log[n + 1].tree.catalog, log[n + 1].tree.fence))'
        /\ log'[n + 1].tree.catalog.generation \in Ops => <<log'[n + 1].tree.catalog.generation, "final">> \in Done'
    <3>1. PICK t : t = entry.tree
      OBVIOUS
    <3>2. /\ Sound(t.catalog) /\ FenceGood(t.fence) /\ Knows(t.catalog, t.fence)
          /\ t.catalog.generation \in Ops => <<t.catalog.generation, "final">> \in Done'
      BY <1>4, <3>1 DEF Follows
    <3>3. Knows(t.catalog, t.fence)'
      BY <2>1, <3>2
    <3>4. t = log'[n + 1].tree
      BY <1>2, <3>1
    <3>5. QED BY <3>2, <3>3, <3>4
  <2>4. QED BY <1>3, <2>2, <2>3 DEF History, Kept
<1>6. Blocks'
  <2>1. SUFFICES ASSUME NEW k \in 1..HEAD', NEW s \in Syncs, log'[k].plan = Block(s),
                        NEW request, request = log'[k].request
                 PROVE  /\ k > 1 /\ request.from \in 1..(k-1) /\ request.to \in 1..(k-1)
                        /\ log'[request.from].tree.catalog = log'[request.to].tree.catalog
                        /\ log'[request.from].tree.fence.phase # "pending"
                        /\ log'[k].tree.fence = PendingFence(s, request)'
                        /\ log'[k-1].tree.fence # log'[k].tree.fence
                        /\ \A slot \in Slots \ {"fence"} : log'[k].tree[slot] = log'[k-1].tree[slot]
    BY DEF Blocks
  <2>2. /\ k > 1 /\ request.from \in 1..(k-1) /\ request.to \in 1..(k-1)
        /\ log[request.from].tree.catalog = log[request.to].tree.catalog
        /\ log[request.from].tree.fence.phase # "pending"
        /\ log'[k].tree.fence = PendingFence(s, request)
        /\ log[k-1].tree.fence # log'[k].tree.fence
        /\ \A slot \in Slots \ {"fence"} : log'[k].tree[slot] = log[k-1].tree[slot]
    <3>1. CASE k \in 1..n
      <4>1. log'[k] = log[k]
        BY <1>2, <3>1
      <4>2. QED BY <1>1, <2>1, <3>1, <4>1 DEF LogContents, Blocks
    <3>2. CASE k = n + 1
      BY <1>1, <1>2, <2>1, <3>2 DEF Follows
    <3>3. QED BY <1>3, <3>1, <3>2
  <2>3. request.from \in 1..n /\ request.to \in 1..n /\ k - 1 \in 1..n
    BY <1>2, <2>2
  <2>4. PendingFence(s, request)' = PendingFence(s, request)
    BY <1>1, <2>3, StableFence
  <2>5. QED BY <1>2, <2>2, <2>3, <2>4
<1>7. Takeovers'
  <2>1. SUFFICES ASSUME NEW j \in 1..HEAD', NEW k \in 1..HEAD', j <= k,
                        log'[j].tree.fence.phase = "pending", log'[j].tree.catalog = log'[k].tree.catalog
                 PROVE  /\ log'[k].tree.fence.phase = "pending"
                        /\ log'[k].tree.fence.request.from = log'[j].tree.fence.request.from
                        /\ log'[j].tree.fence.request.from \in 1..(j-1)
    BY DEF Takeovers
  <2>2. CASE k \in 1..n
    <3>1. j \in 1..n /\ log'[j] = log[j] /\ log'[k] = log[k]
      BY <1>2, <2>1, <2>2
    <3>2. QED BY <1>1, <2>1, <2>2, <3>1 DEF LogContents, Takeovers
  <2>3. CASE k = n + 1 /\ j = n + 1
    BY <1>1, <1>2, <2>1, <2>3 DEF Follows
  <2>4. CASE k = n + 1 /\ j \in 1..n
    <3>1. log'[j] = log[j] /\ log'[k] = entry
      BY <1>2, <2>4
    <3>2. log[j].tree.fence.request.from \in 1..(j-1)
      BY <1>1, <1>2, <2>1, <2>4, <3>1 DEF LogContents, Takeovers
    <3>3. QED BY <1>1, <2>1, <2>4, <3>1, <3>2 DEF Follows
  <2>5. QED BY <1>3, <2>2, <2>3, <2>4
<1>8. Publications'
  <2>1. SUFFICES ASSUME NEW k \in 1..HEAD', NEW s \in Syncs, log'[k].plan = Final(s)
                 PROVE  /\ log'[k].request.to \in 1..HEAD'
                        /\ Describes(log'[k].tree.catalog, log'[log'[k].request.to].tree.files)
    BY DEF Publications, Finals
  <2>2. log'[k].request.to \in 1..n /\ Describes(log'[k].tree.catalog, log[log'[k].request.to].tree.files)
    <3>1. CASE k \in 1..n
      <4>1. log'[k] = log[k]
        BY <1>2, <3>1
      <4>2. QED BY <1>1, <2>1, <3>1, <4>1 DEF LogContents, Publications, Finals
    <3>2. CASE k = n + 1
      BY <1>1, <1>2, <2>1, <3>2 DEF Follows
    <3>3. QED BY <1>3, <3>1, <3>2
  <2>3. QED BY <1>2, <2>2
<1>9. OneLine'
  <2>1. SUFFICES ASSUME NEW k \in 2..HEAD', NEW older, NEW newer,
                        older = log'[k-1].tree.catalog, newer = log'[k].tree.catalog
                 PROVE  newer = older \/ (newer.parent = older.generation /\ newer.generation # older.generation)
    BY DEF OneLine
  <2>2. CASE k \in 2..n
    <3>1. log'[k] = log[k] /\ log'[k-1] = log[k-1]
      BY <1>2, <2>2
    <3>2. QED BY <1>1, <2>1, <2>2, <3>1 DEF LogContents, OneLine
  <2>3. CASE k = n + 1
    <3>1. log'[k] = entry /\ older = Committed.catalog
      BY <1>2, <2>1, <2>3
    <3>2. QED BY <2>1, <3>1 DEF Follows
  <2>4. QED BY <1>2, <2>2, <2>3
<1>10. QED BY <1>5, <1>6, <1>7, <1>8, <1>9 DEF LogContents

\* The commit of the plan under the marker follows.
LEMMA CommitFollows ==
  ASSUME Shape, Transactions, Contents, NEW plan, plan = marker, plan # NoPlan, plan.id \in journal, ~Kept(plan.id)
  PROVE  Follows(Entry(plan))
<1>1. PICK entry, t, last : entry = Entry(plan) /\ t = entry.tree /\ last = Committed
  OBVIOUS
<1>2. /\ entry.plan = plan.id /\ entry.request = plan.request
      /\ \A s \in Slots : t[s] = IF s \in DOMAIN plan.after THEN tree[s] ELSE last[s]
  BY <1>1 DEF Entry, Shape, TreeShape, Fields
<1>3. /\ plan.id \in PlanIds /\ DOMAIN plan.before = DOMAIN plan.after /\ DOMAIN plan.after \subseteq Slots
      /\ \A s \in DOMAIN plan.after : tree[s] = plan.after[s] /\ last[s] = plan.before[s]
  BY <1>1 DEF Transactions, Marked, PlanShape, After
<1>4. /\ \A s \in Slots : t[s] = tree[s]
      /\ \A s \in DOMAIN plan.after : t[s] = plan.after[s] /\ last[s] = plan.before[s]
      /\ \A s \in Slots \ DOMAIN plan.after : t[s] = last[s]
  BY <1>1, <1>2, <1>3 DEF Transactions, Settled
<1>5. /\ t.catalog = tree.catalog /\ t.fence = tree.fence
      /\ "catalog" \in DOMAIN plan.after => t.catalog = plan.after.catalog /\ last.catalog = plan.before.catalog
      /\ "fence" \in DOMAIN plan.after => t.fence = plan.after.fence /\ last.fence = plan.before.fence
      /\ "catalog" \notin DOMAIN plan.after => t.catalog = last.catalog
      /\ "fence" \notin DOMAIN plan.after => t.fence = last.fence
  BY <1>4 DEF Slots
<1>6. Live(plan) /\ LogContents /\ TreeContents
  BY DEF Contents, Plans
<1>7. PICK o \in Ops, stage0 \in {"block", "final"} : plan.id = <<o, stage0>>
  BY <1>3 DEF PlanIds
<1>8. plan.id[1] = o /\ plan.id[2] = stage0
  BY <1>7
<1>9. HEAD \in 1..HEAD /\ HEAD \in Nat /\ last = log[HEAD].tree
  BY <1>1 DEF Shape, Committed
<1>10. /\ Sound(t.catalog) /\ FenceGood(t.fence) /\ Knows(t.catalog, t.fence)
       /\ t.catalog.generation \in Ops => <<t.catalog.generation, "final">> \in Done \cup {entry.plan}
  <2>1. \A id \in journal : id \in Done \cup {plan.id}
    BY DEF Transactions, Journals, Kept
  <2>2. QED BY <1>2, <1>5, <1>6, <2>1 DEF TreeContents
<1>11. "fence" \in DOMAIN plan.after => o \in Syncs
  BY <1>6, <1>8 DEF Live, NewFence
<1>12. "catalog" \in DOMAIN plan.after =>
         /\ stage0 = "final" /\ t.catalog.generation = o
         /\ t.catalog.parent = last.catalog.generation /\ last.catalog.generation # o
  BY <1>5, <1>6, <1>8 DEF Live, NewCatalog, Advance
<1>13. o \in Syncs /\ stage0 = "block" =>
         /\ BlockText(plan) /\ plan.before.fence # plan.after.fence /\ DOMAIN plan.after = {"fence"}
         /\ plan.after.fence = PendingFence(o, plan.request)
         /\ plan.before.fence.phase = "pending" =>
              plan.before.fence.request.from = plan.request.from /\ plan.after.fence.phase = "pending"
  BY <1>6, <1>8 DEF Live, BlockPlan, BlockText
<1>14. o \in Syncs /\ stage0 = "final" =>
         /\ DOMAIN plan.after = {"catalog", "fence"} /\ plan.after.fence.phase # "pending"
         /\ plan.request.to \in 1..HEAD /\ Describes(plan.after.catalog, log[plan.request.to].tree.files)
  BY <1>6, <1>8 DEF Live, FinalPlan
<1>15. \A s \in Syncs : (plan.id = Block(s) => s = o /\ stage0 = "block") /\ (plan.id = Final(s) => s = o /\ stage0 = "final")
  BY <1>7 DEF Block, Final
<1>16. ASSUME NEW s \in Syncs, entry.plan = Block(s), NEW request, request = entry.request
       PROVE  /\ request.from \in 1..HEAD /\ request.to \in 1..HEAD
              /\ log[request.from].tree.catalog = log[request.to].tree.catalog
              /\ log[request.from].tree.fence.phase # "pending"
              /\ t.fence = PendingFence(s, request) /\ last.fence # t.fence
              /\ \A slot \in Slots \ {"fence"} : t[slot] = last[slot]
  <2>1. s = o /\ stage0 = "block" /\ request = plan.request
    BY <1>2, <1>15, <1>16
  <2>2. t.fence = plan.after.fence /\ last.fence = plan.before.fence /\ \A slot \in Slots \ {"fence"} : t[slot] = last[slot]
    BY <1>4, <1>5, <1>13, <1>16, <2>1
  <2>3. BlockText(plan) /\ plan.before.fence # plan.after.fence /\ plan.after.fence = PendingFence(s, request)
    BY <1>13, <1>16, <2>1
  <2>4. QED BY <2>1, <2>2, <2>3 DEF BlockText
<1>17. o \in Syncs /\ stage0 = "block" => t.fence.request = plan.request /\ plan.request.from \in 1..HEAD
  <2>1. \A s, request : PendingFence(s, request).request = request
    BY DEF PendingFence
  <2>2. QED BY <1>5, <1>13, <2>1 DEF BlockText
<1>18. last.fence.phase = "pending" => last.fence.request.from \in 1..(HEAD-1)
  BY <1>6, <1>9 DEF LogContents, Takeovers
<1>19. ASSUME t.fence.phase = "pending" PROVE t.fence.request.from \in 1..HEAD
  <2>1. CASE "fence" \notin DOMAIN plan.after
    BY <1>5, <1>9, <1>18, <1>19, <2>1
  <2>2. CASE "fence" \in DOMAIN plan.after
    <3>1. o \in Syncs /\ stage0 = "block"
      BY <1>5, <1>7, <1>11, <1>14, <1>19, <2>2
    <3>2. QED BY <1>9, <1>17, <3>1
  <2>3. QED BY <2>1, <2>2
<1>20. ASSUME NEW j \in 1..HEAD, log[j].tree.fence.phase = "pending", log[j].tree.catalog = t.catalog
       PROVE  t.fence.phase = "pending" /\ t.fence.request.from = log[j].tree.fence.request.from
  <2>1. "catalog" \notin DOMAIN plan.after
    <3>1. SUFFICES ASSUME "catalog" \in DOMAIN plan.after PROVE FALSE
      OBVIOUS
    <3>2. log[j].tree.catalog.generation = o /\ <<o, "final">> = plan.id
      BY <1>7, <1>12, <1>20, <3>1
    <3>3. Kept(plan.id)
      BY <1>6, <3>2 DEF LogContents, History
    <3>4. QED BY <3>3
  <2>2. /\ last.fence.phase = "pending" /\ last.fence.request.from = log[j].tree.fence.request.from
    <3>1. j <= HEAD /\ log[j].tree.catalog = log[HEAD].tree.catalog
      BY <1>5, <1>9, <1>20, <2>1
    <3>2. QED BY <1>6, <1>9, <1>20, <3>1 DEF LogContents, Takeovers
  <2>3. CASE "fence" \notin DOMAIN plan.after
    BY <1>5, <2>2, <2>3
  <2>4. CASE "fence" \in DOMAIN plan.after
    <3>1. o \in Syncs /\ stage0 = "block"
      BY <1>7, <1>11, <1>14, <2>1, <2>4
    <3>2. QED BY <1>5, <1>13, <1>17, <2>2, <2>4, <3>1
  <2>5. QED BY <2>3, <2>4
<1>21. ASSUME NEW s \in Syncs, entry.plan = Final(s)
       PROVE  entry.request.to \in 1..HEAD /\ Describes(t.catalog, log[entry.request.to].tree.files)
  BY <1>2, <1>5, <1>14, <1>15, <1>21
<1>22. \/ t.catalog = last.catalog
       \/ t.catalog.parent = last.catalog.generation /\ t.catalog.generation # last.catalog.generation
  BY <1>5, <1>12
<1>23. Follows(entry)
  BY <1>1, <1>10, <1>16, <1>19, <1>20, <1>21, <1>22 DEF Follows
<1>24. QED BY <1>1, <1>23

\* What the owner commits follows.
LEMMA OwnerFollows ==
  ASSUME Shape, Contents
  PROVE  Follows([plan |-> None, request |-> None, tree |-> [Committed EXCEPT !.files = tree.files]])
<1>1. PICK entry, t, last :
        /\ entry = [plan |-> None, request |-> None, tree |-> [Committed EXCEPT !.files = tree.files]]
        /\ t = entry.tree /\ last = Committed
  OBVIOUS
<1>2. HEAD \in 1..HEAD /\ HEAD \in Nat /\ last = log[HEAD].tree /\ DOMAIN last = Fields
  BY <1>1 DEF Shape, TreeShape, Committed
<1>3. entry.plan = None /\ t = [last EXCEPT !.files = tree.files]
  BY <1>1
<1>4. t.catalog = last.catalog /\ t.fence = last.fence
  BY <1>2, <1>3 DEF Fields, Slots
<1>5. \A s \in Syncs : Block(s) # None /\ Final(s) # None
  BY OperationsAssumption DEF OperationsAssumption, PlanIds, Block, Final
<1>6. /\ Sound(t.catalog) /\ FenceGood(t.fence) /\ Knows(t.catalog, t.fence)
      /\ t.catalog.generation \in Ops => <<t.catalog.generation, "final">> \in Done
  BY <1>2, <1>4 DEF Contents, LogContents, History, Kept
<1>7. t.fence.phase = "pending" => t.fence.request.from \in 1..(HEAD-1)
  BY <1>2, <1>4 DEF Contents, LogContents, Takeovers
<1>8. ASSUME NEW j \in 1..HEAD, log[j].tree.fence.phase = "pending", log[j].tree.catalog = t.catalog
      PROVE  t.fence.phase = "pending" /\ t.fence.request.from = log[j].tree.fence.request.from
  <2>1. j <= HEAD /\ log[j].tree.catalog = log[HEAD].tree.catalog
    BY <1>2, <1>4, <1>8
  <2>2. QED BY <1>2, <1>4, <1>8, <2>1 DEF Contents, LogContents, Takeovers
<1>9. t.fence.phase = "pending" => t.fence.request.from \in 1..HEAD
  BY <1>2, <1>7
<1>10. Follows(entry)
  BY <1>1, <1>3, <1>4, <1>5, <1>6, <1>8, <1>9 DEF Follows
<1>11. QED BY <1>1, <1>10

LEMMA LogStep ==
  ASSUME Shape, Transactions, Contents, Grown, Aside \/ OwnerCommits \/ \E o \in Ops : Effect(o)
  PROVE  LogContents'
<1>1. CASE log' = log
  BY <1>1, SameLog DEF Contents
<1>2. CASE OwnerCommits
  <2>1. Appended([plan |-> None, request |-> None, tree |-> [Committed EXCEPT !.files = tree.files]])
    BY <1>2 DEF OwnerCommits
  <2>2. QED BY <2>1, OwnerFollows, LongerLog DEF Contents
<1>3. CASE log' # log /\ \E o \in Ops : Effect(o)
  <2>1. PICK o \in Ops : Effect(o)
    BY <1>3
  <2>2. call[o].pc = "written" /\ Commits(call[o].plan)
    BY <1>3, <2>1 DEF Effect, Begins, Raises, Confirms, Writes, Persists, Lowers, Undoes, Judges, Finalizes, Quiet, Goes
  <2>3. PICK plan : plan = call[o].plan
    OBVIOUS
  <2>4. plan = marker /\ plan.id \in journal /\ plan.id \in PlanIds
    BY <2>2, <2>3 DEF Transactions, Held, Holding, Calls, PlanShape
  <2>5. ~Kept(plan.id) /\ Appended(Entry(plan))
    BY <1>3, <2>2, <2>3 DEF Commits
  <2>6. Follows(Entry(plan))
    BY <2>4, <2>5, NoPlanId, CommitFollows
  <2>7. QED BY <2>5, <2>6, LongerLog DEF Contents
<1>4. QED BY <1>1, <1>2, <1>3 DEF Aside, Quiet

LEMMA TreeStep ==
  ASSUME Shape, Transactions, Contents, Grown, journal \subseteq journal',
         Aside \/ OwnerCommits \/ \E o \in Ops : Effect(o)
  PROVE  TreeContents'
<1>1. CASE \E o \in Ops : Writes(o)
  BY <1>1, TreeWrite
<1>2. CASE \A s \in Slots : tree'[s] = tree[s]
  BY <1>2, SameTree DEF Contents
<1>3. QED BY <1>1, <1>2 DEF Aside, OwnerCommits, Effect, Begins, Raises, Confirms, Persists, Lowers, Undoes,
                            Judges, Finalizes, Quiet

LEMMA ContentsStep ==
  ASSUME Shape, Transactions, Contents, [Next]_vars
  PROVE  Contents'
<1>1. Grown /\ journal \subseteq journal'
  BY GrownStep
<1>2. Aside \/ OwnerCommits \/ \E o \in Ops : Effect(o)
  BY Effects
<1>3. QED BY <1>1, <1>2, PlansStep, LogStep, TreeStep DEF Contents

LEMMA ContentsAtFirst == Init => Contents
<1>1. SUFFICES ASSUME Init PROVE Contents
  OBVIOUS
<1>2. /\ tree = InitTree /\ log = <<[tree |-> InitTree, plan |-> None, request |-> None]>>
      /\ marker = NoPlan /\ call = [o \in Ops |-> Idle]
  BY <1>1 DEF Init
<1>3. HEAD = 1 /\ log[1].tree = InitTree /\ log[1].plan = None
  BY <1>2 DEF HEAD
<1>4. /\ Sound(InitTree.catalog) /\ InitTree.catalog.generation \notin Ops /\ InitTree.fence = NoFence
      /\ NoFence.phase = "none"
      /\ Cursor(InitTree) = 0 \/ Cursor(InitTree) \in DOMAIN Events
      /\ \A n \in 1..Cursor(InitTree) : Covers(InitTree.catalog, Events[n])
  BY StartAssumption, NoFencePhase DEF StartAssumption, Sound
<1>5. FenceGood(InitTree.fence) /\ Knows(InitTree.catalog, InitTree.fence)
  BY <1>3, <1>4 DEF FenceGood, Knows, Known, Understandings
<1>6. \A s \in Syncs : Block(s) # None /\ Final(s) # None
  BY OperationsAssumption DEF OperationsAssumption, PlanIds, Block, Final
<1>7. Plans
  BY <1>2 DEF Plans, Idle
<1>8. History /\ Blocks /\ Takeovers /\ Publications /\ OneLine
  <2>1. \A k \in 1..HEAD : k = 1
    BY <1>3
  <2>2. History
    BY <1>3, <1>4, <1>5, <2>1 DEF History
  <2>3. Blocks /\ Publications
    BY <1>3, <1>6, <2>1 DEF Blocks, Publications, Finals
  <2>4. Takeovers
    BY <1>3, <1>4, <2>1 DEF Takeovers
  <2>5. OneLine
    BY <1>3 DEF OneLine
  <2>6. QED BY <2>2, <2>3, <2>4, <2>5
<1>9. TreeContents
  BY <1>2, <1>4, <1>5 DEF TreeContents, CheckpointCoversArchive, FencedCatalogIsStable
<1>10. QED BY <1>7, <1>8, <1>9 DEF Contents, LogContents

LEMMA Contained == Spec => []Contents
<1>1. Shape /\ Transactions /\ Contents /\ [Next]_vars => Contents'
  BY ContentsStep
<1>2. QED BY <1>1, ContentsAtFirst, Shaped, Transacted, PTL DEF Spec

-----------------------------------------------------------------------------
(* What the Host was told to release, and the owner's files.                 *)

EveryEvent == UNION {Events[n] : n \in DOMAIN Events}

Releases == released \subseteq EveryEvent /\ ReleasedIsRecoverable

LEMMA ReleasesStep ==
  ASSUME Shape, Transactions, Told, Contents, Releases, [Next]_vars
  PROVE  Releases'
<1>1. HEAD \in Nat \ {0} /\ HEAD' \in Nat /\ HEAD' >= HEAD /\ \A k \in 1..HEAD : log'[k] = log[k]
  BY Growing DEF Shape
<1>2. Learns /\ Told'
  BY Learning, ToldStep
<1>3. remote \in 1..HEAD /\ remote' \in 1..HEAD' /\ remote' >= remote
  BY <1>1, <1>2 DEF Told, Learns
<1>4. ASSUME NEW event \in released
      PROVE  \E k \in 1..remote' : \E r \in Refs(log'[k].tree.catalog) :
               r.id = event.id /\ r.version.content = event.content
  <2>1. PICK k \in 1..remote : \E r \in Refs(log[k].tree.catalog) :
               r.id = event.id /\ r.version.content = event.content
    BY DEF Releases, ReleasedIsRecoverable
  <2>2. k \in 1..remote' /\ log'[k] = log[k]
    BY <1>1, <1>3
  <2>3. QED BY <2>1, <2>2
<1>5. CASE released' = released
  BY <1>4, <1>5 DEF Releases, ReleasedIsRecoverable
<1>6. CASE released' # released
  <2>1. PICK n : /\ n = Cursor(tree) /\ n > 0 /\ Dirty = {} /\ log' = log
                 /\ released' = released \cup Events[n] /\ remote' = HEAD
    BY <1>2, <1>6 DEF Learns
  <2>2. n \in DOMAIN Events /\ n \in 1..Cursor(tree)
    <3>1. n = 0 \/ n \in DOMAIN Events
      BY <2>1 DEF Contents, TreeContents
    <3>2. QED BY <2>1, <3>1, IdsAssumption DEF IdsAssumption
  <2>3. Covers(tree.catalog, Events[n])
    BY <2>2 DEF Contents, TreeContents, CheckpointCoversArchive
  <2>4. tree.catalog = log'[HEAD].tree.catalog
    BY <2>1 DEF Dirty, Committed, Shape, TreeShape, Fields, Slots
  <2>5. HEAD \in 1..remote'
    BY <1>1, <2>1
  <2>6. ASSUME NEW event \in Events[n]
        PROVE  \E k \in 1..remote' : \E r \in Refs(log'[k].tree.catalog) :
                 r.id = event.id /\ r.version.content = event.content
    BY <2>3, <2>4, <2>5 DEF Covers
  <2>7. released' \subseteq EveryEvent
    BY <2>1, <2>2 DEF Releases, EveryEvent
  <2>8. \A event \in released' : \E k \in 1..remote' : \E r \in Refs(log'[k].tree.catalog) :
          r.id = event.id /\ r.version.content = event.content
    BY <1>4, <2>1, <2>6
  <2>9. QED BY <2>7, <2>8 DEF Releases, ReleasedIsRecoverable
<1>7. QED BY <1>5, <1>6

LEMMA Releasing == Spec => []Releases
<1>1. Init => Releases
  BY DEF Init, Releases, ReleasedIsRecoverable
<1>2. Shape /\ Transactions /\ Told /\ Contents /\ Releases /\ [Next]_vars => Releases'
  BY ReleasesStep
<1>3. QED BY <1>1, <1>2, Shaped, Transacted, Telling, Contained, PTL DEF Spec

Filed == DOMAIN tree.files = Paths

\* A plan names no file of the owner's.
LEMMA FiledInCall ==
  ASSUME Shape, Transactions, Filed, NEW o \in Ops, NEW allowed, Write(o, allowed)
  PROVE  Filed'
<1>1. tree' = [s \in DOMAIN tree |-> IF s \in DOMAIN call[o].plan.after THEN call[o].plan.after[s] ELSE tree[s]]
      /\ call[o].pc = "raised"
  BY DEF Write, At
<1>2. DOMAIN call[o].plan.after \subseteq Slots
  BY <1>1 DEF Transactions, Calls, PlanShape
<1>3. DOMAIN tree = Fields /\ "files" \in Fields /\ "files" \notin Slots
  BY DEF Shape, TreeShape, Fields, Slots
<1>4. tree'.files = tree.files
  BY <1>1, <1>2, <1>3
<1>5. QED BY <1>4 DEF Filed

LEMMA FiledStep ==
  ASSUME Shape, Transactions, Filed, [Next]_vars
  PROVE  Filed'
<1>1. CASE \E i \in Ingests : IngestStep(i)
  <2>1. PICK i \in Ingests : IngestStep(i)
    BY <1>1
  <2>2. i \in Ops
    BY OperationsAssumption DEF OperationsAssumption
  <2>3. CASE Write(i, IngestValid(call[i].plan))
    BY <2>2, <2>3, FiledInCall
  <2>4. CASE ~Write(i, IngestValid(call[i].plan))
    <3>1. tree' = tree
      BY <2>1, <2>4 DEF IngestStep, DeclareStage, TearStage, PlanIngest, ResumeIngest, StartFresh, Start, MayCall, Raise,
         Reconfirm, Refuse, Reject, Undo, Persist, Lower, Answer, Fail, repository
    <3>2. QED BY <3>1 DEF Filed
  <2>5. QED BY <2>3, <2>4
<1>2. CASE \E k \in Corrects : CorrectStep(k)
  <2>1. PICK k \in Corrects : CorrectStep(k)
    BY <1>2
  <2>2. k \in Ops
    BY OperationsAssumption DEF OperationsAssumption
  <2>3. CASE Write(k, CorrectionValid(call[k].plan))
    BY <2>2, <2>3, FiledInCall
  <2>4. CASE ~Write(k, CorrectionValid(call[k].plan))
    <3>1. tree' = tree
      BY <2>1, <2>4 DEF CorrectStep, PlanCorrection, ResumeCorrection, StartFresh, Start, MayCall, Raise,
         Reconfirm, Refuse, Reject, Undo, Persist, Lower, Answer, Fail, repository
    <3>2. QED BY <3>1 DEF Filed
  <2>5. QED BY <2>3, <2>4
<1>3. CASE \E s \in Syncs : SyncStep(s)
  <2>1. PICK s \in Syncs : SyncStep(s)
    BY <1>3
  <2>2. s \in Ops
    BY OperationsAssumption DEF OperationsAssumption
  <2>3. CASE Write(s, SyncValid(s))
    BY <2>2, <2>3, FiledInCall
  <2>4. CASE ~Write(s, SyncValid(s))
    <3>1. tree' = tree
      BY <2>1, <2>4 DEF SyncStep, PlanBlock, ResumeBlock, ResumeFinal, StartFresh, Start, MayCall, Raise, Judge,
         AbandonJudgement, PlanFinal, Reconfirm, Refuse, Reject, Undo, Persist, Lower, Answer, Fail, repository
    <3>2. QED BY <3>1 DEF Filed
  <2>5. QED BY <2>3, <2>4
<1>4. CASE OwnerStep
  <2>1. ASSUME NEW f, DOMAIN f = Paths, OwnerEdit(f) PROVE Filed'
    <3>1. tree' = [tree EXCEPT !.files = f] /\ DOMAIN tree = Fields /\ "files" \in Fields
      BY <2>1 DEF OwnerEdit, Shape, TreeShape, Fields
    <3>2. QED BY <2>1, <3>1 DEF Filed
  <2>2. CASE \E p \in Paths : \E c \in Texts[p] : OwnerEdit([tree.files EXCEPT ![p] = c])
    <3>1. PICK p, c : OwnerEdit([tree.files EXCEPT ![p] = c])
      BY <2>2
    <3>2. DOMAIN [tree.files EXCEPT ![p] = c] = Paths
      BY DEF Filed
    <3>3. QED BY <2>1, <3>1, <3>2
  <2>3. CASE \E p, q \in Paths \ {PolicyPath} :
               OwnerEdit([tree.files EXCEPT ![q] = tree.files[p], ![p] = Gone])
    <3>1. PICK p, q : OwnerEdit([tree.files EXCEPT ![q] = tree.files[p], ![p] = Gone])
      BY <2>3
    <3>2. DOMAIN [tree.files EXCEPT ![q] = tree.files[p], ![p] = Gone] = Paths
      BY DEF Filed
    <3>3. QED BY <2>1, <3>1, <3>2
  <2>4. CASE OwnerCommit
    BY <2>4 DEF OwnerCommit, Filed
  <2>5. QED BY <1>4, <2>2, <2>3, <2>4 DEF OwnerStep
<1>5. CASE (callers \cap Ingests # {} /\ Release) \/ Crash \/ Initialize \/ UNCHANGED vars
  BY <1>5 DEF Release, Crash, Initialize, vars, repository, Filed
<1>6. QED BY <1>1, <1>2, <1>3, <1>4, <1>5 DEF Next

LEMMA Filing == Spec => []Filed
<1>1. Init => Filed
  BY StartAssumption DEF Init, Filed, StartAssumption
<1>2. Shape /\ Transactions /\ Filed /\ [Next]_vars => Filed'
  BY FiledStep
<1>3. QED BY <1>1, <1>2, Shaped, Transacted, PTL DEF Spec

-----------------------------------------------------------------------------
(* The invariants of MemoryLifecycle.                                        *)

\* The values of the variables are the ones the code can hold: a call under way has a
\* plan of its own operation, the marker a plan some call made, and the catalog parses.
THEOREM TypesHold == Spec => []TypeOK
<1>1. ASSUME Shape, Transactions, Told, Contents, Releases, Filed PROVE TypeOK
  <2>1. DOMAIN tree = Slots \cup {"files"} /\ DOMAIN tree.files = Paths /\ HEAD >= 1
    BY <1>1 DEF Shape, TreeShape, Fields, Filed
  <2>2. CatalogOK(tree.catalog) /\ Cursor(tree) \in Nat
    BY <1>1, IdsAssumption DEF Contents, TreeContents, Sound, IdsAssumption
  <2>3. /\ remote \in 1..HEAD /\ synced \in 0..remote /\ stage \in [Ops -> {"none", "declared", "torn"}]
        /\ answered \subseteq callers
    BY <1>1 DEF Told, Stages
  <2>4. (\A k \in 1..HEAD : log[k].plan \in PlanIds \cup {None}) /\ journal \subseteq PlanIds
    BY <1>1 DEF Transactions, Line, Journals
  <2>5. marker.id \in PlanIds \cup {None}
    BY <1>1 DEF Transactions, Marked, PlanShape, NoPlan
  <2>6. \A o \in Ops :
          /\ call[o].pc \in {"idle", "planned", "judging", "lowered"} \cup Holding
          /\ call[o].pc # "idle" => call[o].plan.id \in {<<o, "block">>, <<o, "final">>}
    BY <1>1 DEF Transactions, Calls, Pcs, IdsOf
  <2>7. released \subseteq UNION {Events[n] : n \in DOMAIN Events}
    BY <1>1 DEF Releases, EveryEvent
  <2>8. QED BY <2>1, <2>2, <2>3, <2>4, <2>5, <2>6, <2>7 DEF TypeOK
<1>2. QED BY <1>1, Shaped, Transacted, Telling, Contained, Releasing, Filing, PTL

\* The Host forgets an event only when its text can be had from the remote
\* (archive-cleanup.ts): the checkpoint covers its page, and what it covers is pushed.
THEOREM ReleasesAreRecoverable == Spec => []ReleasedIsRecoverable
<1>1. Releases => ReleasedIsRecoverable
  BY DEF Releases
<1>2. QED BY <1>1, Releasing, PTL

\* A checkpoint never runs ahead of the archive (ingest.ts, prepareCheckpoint): every
\* later generation still names the events of every page up to the cursor.
THEOREM CheckpointsCover == Spec => []CheckpointCoversArchive
<1>1. Contents => CheckpointCoversArchive
  BY DEF Contents, TreeContents
<1>2. QED BY <1>1, Contained, PTL

\* No writer loses another one's generation (memory-transaction.ts, the before texts of
\* a plan): each committed catalog was prepared from the one committed before it.
THEOREM CatalogsFormOneLine == Spec => []OneLine
<1>1. Contents => OneLine
  BY DEF Contents, LogContents
<1>2. QED BY <1>1, Contained, PTL

\* While a synchronization fence is up nobody publishes a catalog
\* (assertMemoryTransactionReadable and the ports of synchronize.ts).
THEOREM FencesHoldCatalogs == Spec => []FencedCatalogIsStable
<1>1. Contents => FencedCatalogIsStable
  BY DEF Contents, TreeContents
<1>2. QED BY <1>1, Contained, PTL

\* A catalog a synchronization committed says of the owner's files what the revision it
\* was asked for holds (prepareSourceChanges of synchronization-plan.ts).
THEOREM PublicationsAreSynchronized == Spec => []PublishedIsSynchronized
<1>1. Contents => PublishedIsSynchronized
  BY DEF Contents, LogContents, Publications, PublishedIsSynchronized
<1>2. QED BY <1>1, Contained, PTL

\* Current cognition never rests on what was replaced or removed, through any number of
\* ingests, corrections and synchronizations (dependents, prepareCorrection's scope).
THEOREM CognitionIsGrounded == Spec => []CognitionRestsOnCurrent
<1>1. Contents => CognitionRestsOnCurrent
  BY DEF Contents, TreeContents, Sound, CognitionRestsOnCurrent
<1>2. QED BY <1>1, Contained, PTL

\* Nothing that was understood drops out unnoticed, however synchronizations are cut in
\* batches and continued (migrateSynchronizationState and the batches of synchronize.ts).
THEOREM NothingIsForgotten == Spec => []NothingForgotten
<1>1. ASSUME Contents, NEW old \in CurrentCognition(log[1].tree.catalog)
      PROVE  \/ \E r \in CurrentCognition(tree.catalog) : r.id = old.id
             \/ tree.fence # NoFence /\ old.id \in tree.fence.withdrawn \cup {r.id : r \in tree.fence.pending}
             \/ \E k \in 1..HEAD : log[k].tree.fence # NoFence /\ old.id \in log[k].tree.fence.withdrawn
  <2>1. old.id \in Understandings
    BY <1>1 DEF Understandings
  <2>2. Known(tree.catalog, tree.fence, old.id) \/ Dropped(old.id)
    BY <1>1, <2>1 DEF Contents, TreeContents, Knows
  <2>3. QED BY <2>2 DEF Known, Dropped, Waiting
<1>2. Contents => NothingForgotten
  BY <1>1 DEF NothingForgotten
<1>3. QED BY <1>2, Contained, PTL

\* The fence some batch leaves can be parsed by the next one (the parse of
\* migrateSynchronizationState): one pending version of an id, nothing both pending and
\* completed, all of it affected.
THEOREM FencesAreReadable == Spec => []ProgressIsReadable
<1>1. Contents => ProgressIsReadable
  BY DEF Contents, TreeContents, FenceGood, Waiting, ProgressIsReadable
<1>2. QED BY <1>1, Contained, PTL

\* A view stands only on sources that are current, whoever published the catalog
\* (view-migration.ts: a view is rebuilt when what it stands on changes).
THEOREM ViewsAreCurrent == Spec => []ViewIsCurrent
<1>1. Contents => ViewIsCurrent
  BY DEF Contents, TreeContents, Sound, ViewIsCurrent
<1>2. QED BY <1>1, Contained, PTL
=============================================================================
