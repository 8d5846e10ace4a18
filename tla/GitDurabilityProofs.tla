------------------------- MODULE GitDurabilityProofs -------------------------
(***************************************************************************)
(* GitDurability for every set of instances, writes and policies and any   *)
(* number of owner commits, calls and faults: one inductive invariant,     *)
(* from which the order of commit, pointer and push, what is reported and  *)
(* shown, and the clock of normal writes follow.  An instance's part of    *)
(* the invariant survives the steps of the others because revisions only   *)
(* grow and nobody commits in its name (Unaffected).                       *)
(***************************************************************************)
EXTENDS GitDurability, TLAPS

Commits == [author : Insts \union {Owner}, write : Writes \union {NoWrite}]

Executions ==
  [op : OpNames, write : Writes \union {NoWrite}, phase : Phases, stage : Stages, rev : Nat]

Types ==
  /\ branch \in Seq(Commits)
  /\ pointer \in Nat /\ remote \in Nat
  /\ inst \in [Insts -> Instance]
  /\ run \in [Insts -> Executions]
  /\ done \subseteq Writes
  /\ recorded \in [Insts -> SUBSET Writes]
  /\ owner \in Nat /\ calls \in Nat /\ faults \in Nat

Shared ==
  /\ remote <= pointer /\ pointer <= Tip
  /\ \A w \in done : Contains(remote, w)

\* What an instance remembers of revisions is not ahead of them.
Behind(i) ==
  /\ run[i].rev <= Tip
  /\ inst[i].config <= pointer /\ inst[i].confirmed <= pointer
  /\ inst[i].synchronized <= remote
  /\ At(i, "cas") => inst[i].config <= run[i].rev
  /\ run[i].phase \in {"push", "verify"} => run[i].rev <= pointer

\* The shape of an operation under way.
Underway(i) ==
  /\ inst[i].initialized => inst[i].up
  /\ ~inst[i].up => At(i, "idle") /\ recorded[i] = {}
  /\ run[i].phase \in {"idle", "commit", "enlist"} => run[i].stage = "commit"
  /\ run[i].phase \in {"init", "classify"} => ~inst[i].initialized /\ run[i].stage = "commit"
  /\ run[i].phase \notin {"idle", "init", "classify"} /\ run[i].stage \in {"commit", "push"} =>
       inst[i].initialized
  /\ run[i].phase \notin {"idle", "init", "classify"} /\ run[i].stage = "commit" =>
       run[i].op \in {"critical", "normal"}
  /\ At(i, "enlist") => run[i].op # "critical"

\* What an operation is about to report has been committed.
Carried(i) ==
  /\ \A w \in recorded[i] : Contains(Tip, w)
  /\ ~At(i, "idle") =>
       /\ run[i].op \in {"critical", "normal"} =>
            run[i].write \in Writes /\ Kind[run[i].write] = run[i].op
       /\ run[i].op \in {"flush", "diagnostics"} => run[i].write = NoWrite
       /\ run[i].op = "confirm" => Contains(Tip, run[i].write)
  /\ run[i].phase \in {"readHead", "cas", "push", "verify", "enlist"}
     /\ run[i].stage \in {"commit", "push"} /\ run[i].write # NoWrite =>
       Contains(Tip, run[i].write)

\* The critical flag is up only when nothing critical of the instance is outstanding.
Flagged(i) ==
  inst[i].critical => \A k \in (remote + 1)..Tip : ~(branch[k].author = i /\ KindOf(k) = "critical")

\* A pending normal write has a clock, or a flush or its failure stands for it.
Clocked(i) ==
  /\ inst[i].scheduled => inst[i].timers > 0
  /\ inst[i].timers > 0 \/ inst[i].flushQueued => inst[i].initialized
  /\ ~inst[i].initialized /\ run[i].stage # "initNormal" /\ inst[i].pendingSince # 0 =>
       inst[i].error # "none"
  /\ (\E w \in recorded[i] : ~Contains(remote, w)) => inst[i].pendingSince # 0
  /\ inst[i].pendingSince # 0 =>
       \/ inst[i].timers > 0 \/ inst[i].flushQueued \/ inst[i].error # "none"
       \/ ~At(i, "idle")
          /\ (run[i].stage = "initNormal" \/ (run[i].op = "flush" /\ run[i].stage = "push"))

Local(i) == Behind(i) /\ Underway(i) /\ Carried(i) /\ Flagged(i) /\ Clocked(i)

IInv == Types /\ Shared /\ \A i \in Insts : Local(i)

-----------------------------------------------------------------------------
(* One instance moves *)

\* What a step may do to the state all instances share.
Grows(i) ==
  /\ Tip <= Tip' /\ pointer <= pointer' /\ remote <= remote'
  /\ \A k \in 1..Tip : branch'[k] = branch[k]
  /\ \A k \in (Tip + 1)..Tip' : branch'[k].author \in {i, Owner}

Others(i) ==
  \A j \in Insts \ {i} : inst'[j] = inst[j] /\ run'[j] = run[j] /\ recorded'[j] = recorded[j]

Step(i) == Types' /\ Shared' /\ Grows(i) /\ Others(i) /\ Local(i)'

\* The length of a branch, and its commits, are what their types say.
LEMMA BranchFacts ==
  ASSUME NEW b \in Seq(Commits)
  PROVE  Len(b) \in Nat /\ \A k \in 1..Len(b) : b[k] \in Commits
OBVIOUS

LEMMA Beyond ==
  ASSUME NEW a \in Nat, NEW b \in Nat, NEW c \in Nat, a <= b, NEW k \in (b + 1)..c
  PROVE  k \in (a + 1)..c
OBVIOUS

LEMMA AtMostTrans ==
  ASSUME NEW a \in Nat, NEW b \in Nat, NEW c \in Nat, a <= b, b <= c
  PROVE  a <= c
OBVIOUS

LEMMA FieldTypes ==
  ASSUME NEW f \in Instance
  PROVE  /\ f.config \in Nat /\ f.confirmed \in Nat /\ f.synchronized \in Nat
         /\ f.pendingSince \in Nat /\ f.timers \in Nat
         /\ f.up \in BOOLEAN /\ f.initialized \in BOOLEAN /\ f.critical \in BOOLEAN
         /\ f.scheduled \in BOOLEAN /\ f.flushQueued \in BOOLEAN
         /\ f.error \in {"none", "critical", "normal"}
BY DEF Instance

LEMMA RunTypes ==
  ASSUME NEW r \in Executions
  PROVE  /\ r.op \in OpNames /\ r.write \in Writes \union {NoWrite} /\ r.phase \in Phases
         /\ r.stage \in Stages /\ r.rev \in Nat
BY DEF Executions

\* An instance's part of the invariant survives what others do.
LEMMA Unaffected ==
  ASSUME IInv, Types', NEW i, NEW j \in Insts, j # i, Grows(i),
         inst'[j] = inst[j], run'[j] = run[j], recorded'[j] = recorded[j]
  PROVE  Local(j)'
<1>1. /\ branch \in Seq(Commits) /\ Tip \in Nat /\ branch' \in Seq(Commits) /\ Tip' \in Nat
      /\ remote \in Nat /\ remote' \in Nat /\ pointer \in Nat /\ pointer' \in Nat
      /\ remote <= Tip /\ inst[j] \in Instance /\ run[j] \in Executions
  BY BranchFacts DEF IInv, Types, Shared, Tip
<1>2. Local(j)
  BY DEF IInv
<1>3. ASSUME NEW w, Contains(Tip, w)
      PROVE  Contains(Tip, w)'
  BY <1>1, <1>3 DEF Contains, Grows
<1>4. ASSUME NEW w, Contains(remote, w)
      PROVE  Contains(remote, w)'
  BY <1>1, <1>4 DEF Contains, Grows
<1>5. Behind(j)'
  <2>1. /\ inst[j].config \in Nat /\ inst[j].confirmed \in Nat /\ inst[j].synchronized \in Nat
        /\ run[j].rev \in Nat
    BY <1>1, FieldTypes, RunTypes
  <2>2. Tip <= Tip' /\ pointer <= pointer' /\ remote <= remote'
    BY DEF Grows
  <2>3. Behind(j)
    BY <1>2 DEF Local
  <2>4. run[j].rev <= Tip'
    BY <1>1, <2>1, <2>2, <2>3, AtMostTrans DEF Behind
  <2>5. inst[j].config <= pointer' /\ inst[j].confirmed <= pointer'
    BY <1>1, <2>1, <2>2, <2>3, AtMostTrans DEF Behind
  <2>6. inst[j].synchronized <= remote'
    BY <1>1, <2>1, <2>2, <2>3, AtMostTrans DEF Behind
  <2>7. run[j].phase \in {"push", "verify"} => run[j].rev <= pointer'
    BY <1>1, <2>1, <2>2, <2>3, AtMostTrans DEF Behind
  <2> QED
    BY <2>3, <2>4, <2>5, <2>6, <2>7 DEF Behind, At
<1>6. Underway(j)'
  BY <1>2 DEF Local, Underway, At
<1>7. Carried(j)'
  BY <1>2, <1>3 DEF Local, Carried, At
<1>8. Flagged(j)'
  <2>1. SUFFICES ASSUME inst[j].critical, NEW k \in (remote' + 1)..Tip', branch'[k].author = j
                 PROVE  ~(KindOf(k) = "critical")'
    BY DEF Flagged
  <2>2. k \in (remote + 1)..Tip'
    BY <1>1, <2>1 DEF Grows
  <2>3. k \notin (Tip + 1)..Tip'
    BY <2>1, DurabilityAssumption DEF Grows, DurabilityAssumption
  <2>4. k \in (remote + 1)..Tip /\ branch'[k] = branch[k]
    BY <1>1, <2>2, <2>3 DEF Grows
  <2> QED
    BY <1>2, <2>1, <2>4 DEF Local, Flagged, KindOf
<1>9. Clocked(j)'
  BY <1>2, <1>4 DEF Local, Clocked, At
<1> QED
  BY <1>5, <1>6, <1>7, <1>8, <1>9 DEF Local

\* So a step of one instance preserves the invariant when it preserves that instance's part.
LEMMA StepPreserves ==
  ASSUME IInv, NEW i \in Insts, Step(i)
  PROVE  IInv'
<1>1. ASSUME NEW j \in Insts
      PROVE  Local(j)'
  <2>1. CASE j = i
    BY <2>1 DEF Step
  <2>2. CASE j # i
    BY <2>2, Unaffected DEF Step, Others
  <2> QED
    BY <2>1, <2>2
<1> QED
  BY <1>1 DEF IInv, Step

-----------------------------------------------------------------------------
(* The helpers *)

LEMMA RejectedFields ==
  ASSUME NEW i \in Insts, inst[i] \in Instance
  PROVE  /\ Rejected(i) \in Instance
         /\ Rejected(i).up = inst[i].up /\ Rejected(i).initialized = inst[i].initialized
         /\ Rejected(i).config = inst[i].config /\ Rejected(i).confirmed = inst[i].confirmed
         /\ Rejected(i).synchronized = inst[i].synchronized
         /\ Rejected(i).critical => inst[i].critical
         /\ Rejected(i).pendingSince = inst[i].pendingSince
         /\ Rejected(i).scheduled = inst[i].scheduled /\ Rejected(i).timers = inst[i].timers
         /\ Rejected(i).flushQueued = inst[i].flushQueued
         /\ inst[i].error # "none" => Rejected(i).error # "none"
         /\ run[i].stage = "initNormal" \/ (run[i].op = "flush" /\ run[i].stage = "push") =>
              Rejected(i).error # "none"
<1>1. Rejected(i) \in Instance
  BY DEF Rejected, Instance
<1>2. /\ Rejected(i).config = inst[i].config /\ Rejected(i).confirmed = inst[i].confirmed
      /\ Rejected(i).synchronized = inst[i].synchronized
      /\ Rejected(i).pendingSince = inst[i].pendingSince /\ Rejected(i).timers = inst[i].timers
  BY DEF Rejected, Instance
<1>3. Rejected(i).up = inst[i].up /\ Rejected(i).initialized = inst[i].initialized
  BY DEF Rejected, Instance
<1>4. /\ Rejected(i).scheduled = inst[i].scheduled
      /\ Rejected(i).flushQueued = inst[i].flushQueued
  BY DEF Rejected, Instance
<1>5. Rejected(i).critical => inst[i].critical
  BY DEF Rejected, Instance
<1>6. inst[i].error # "none" => Rejected(i).error # "none"
  BY DEF Rejected, Instance
<1>7. run[i].stage = "initNormal" => Rejected(i).error # "none"
  BY DEF Rejected, Instance
<1>8. run[i].op = "flush" /\ run[i].stage = "push" => Rejected(i).error # "none"
  BY DEF Rejected, Instance
<1> QED
  BY <1>1, <1>2, <1>3, <1>4, <1>5, <1>6, <1>7, <1>8

LEMMA IdleType == Idle \in Executions
BY DEF Idle, Executions, OpNames, Phases, Stages

LEMMA EnterFields ==
  ASSUME NEW r \in Executions, NEW f \in Instance
  PROVE  LET e == Enter(r, f) IN
         /\ e \in Executions
         /\ e.rev \in {0, r.rev}
         /\ e.phase \in {"idle", "commit", "readHead"}
         /\ e.phase # "idle" => e.op = r.op /\ e.write = r.write
         /\ e.phase = "idle" => e.stage = "commit"
         /\ e.phase = "commit" => e.op \in {"critical", "normal"} /\ e.stage = "commit"
         /\ e.phase = "readHead" => e.op \in {"flush", "confirm"} /\ e.stage = "push"
         /\ r.op = "flush" /\ f.pendingSince # 0 => e.phase = "readHead" /\ e.op = "flush"
<1>1. CASE r.op = "flush" /\ f.pendingSince = 0
  BY <1>1, IdleType DEF Enter, Idle
<1>2. CASE ~(r.op = "flush" /\ f.pendingSince = 0)
  <2> DEFINE b == Body(r.op)
  <2>1. Enter(r, f) = [r EXCEPT !.phase = b.phase, !.stage = b.stage]
    BY <1>2 DEF Enter
  <2>2. r.op \in OpNames
    BY DEF Executions
  <2>3. CASE r.op \in {"critical", "normal"}
    BY <2>1, <2>3 DEF Executions, Body, Phases, Stages
  <2>4. CASE r.op \in {"flush", "confirm"}
    BY <2>1, <2>4 DEF Executions, Body, Phases, Stages
  <2>5. CASE r.op = "diagnostics"
    BY <2>1, <2>5 DEF Executions, Body, Phases, Stages
  <2> QED
    BY <2>2, <2>3, <2>4, <2>5 DEF OpNames
<1> QED
  BY <1>1, <1>2

LEMMA ConfirmedFields ==
  ASSUME NEW r \in Executions, NEW i \in Insts
  PROVE  LET c == Confirmed(r, i) IN
         /\ c \in Executions
         /\ c.op = r.op /\ c.write = r.write /\ c.rev = r.rev
         /\ r.stage # "commit" => c.phase = "push" /\ c.stage = r.stage
         /\ r.stage = "commit" =>
              \/ c.phase = "readHead" /\ c.stage = "push"
              \/ c.phase = "enlist" /\ c.stage = "commit" /\ c.op # "critical"
BY DEF Confirmed, Executions, Phases, Stages

LEMMA ScheduledFields ==
  ASSUME NEW f \in Instance, f.scheduled => f.timers > 0
  PROVE  /\ Scheduled(f) \in Instance
         /\ Scheduled(f).up = f.up /\ Scheduled(f).initialized = f.initialized
         /\ Scheduled(f).config = f.config /\ Scheduled(f).confirmed = f.confirmed
         /\ Scheduled(f).synchronized = f.synchronized /\ Scheduled(f).critical = f.critical
         /\ Scheduled(f).pendingSince = f.pendingSince /\ Scheduled(f).error = f.error
         /\ Scheduled(f).flushQueued = f.flushQueued
         /\ Scheduled(f).scheduled /\ Scheduled(f).timers > 0
<1>1. CASE f.scheduled
  BY <1>1 DEF Scheduled
<1>2. CASE ~f.scheduled
  <2> DEFINE n == f.timers + 1
  <2>1. Scheduled(f) = [f EXCEPT !.scheduled = TRUE, !.timers = n]
    BY <1>2 DEF Scheduled
  <2> n \in Nat /\ n > 0
    BY FieldTypes
  <2> HIDE DEF n
  <2>2. Scheduled(f) \in Instance
    BY <2>1 DEF Instance
  <2>3. /\ Scheduled(f).config = f.config /\ Scheduled(f).confirmed = f.confirmed
        /\ Scheduled(f).synchronized = f.synchronized
        /\ Scheduled(f).pendingSince = f.pendingSince /\ Scheduled(f).error = f.error
        /\ Scheduled(f).timers > 0
    BY <2>1 DEF Instance
  <2>4. /\ Scheduled(f).up = f.up /\ Scheduled(f).initialized = f.initialized
        /\ Scheduled(f).critical = f.critical /\ Scheduled(f).flushQueued = f.flushQueued
        /\ Scheduled(f).scheduled
    BY <2>1 DEF Instance
  <2> QED
    BY <2>2, <2>3, <2>4
<1> QED
  BY <1>1, <1>2

-----------------------------------------------------------------------------
(* Steps of one instance that leave the branch alone *)

LEMMA Facts ==
  ASSUME IInv, NEW i \in Insts
  PROVE  /\ branch \in Seq(Commits) /\ Tip \in Nat /\ pointer \in Nat /\ remote \in Nat
         /\ remote <= pointer /\ pointer <= Tip /\ remote <= Tip
         /\ inst[i] \in Instance /\ run[i] \in Executions
         /\ Behind(i) /\ Underway(i) /\ Carried(i) /\ Flagged(i) /\ Clocked(i)
BY BranchFacts DEF IInv, Types, Shared, Local, Tip

\* The shared part of a step that leaves the shared state alone.
LEMMA Quiet ==
  ASSUME IInv, NEW i \in Insts, UNCHANGED <<branch, pointer, remote, done>>
  PROVE  /\ Grows(i) /\ Shared' /\ done' \subseteq Writes
         /\ branch' \in Seq(Commits) /\ pointer' \in Nat /\ remote' \in Nat
<1>1. Tip' = Tip
  BY DEF Tip
<1>2. Grows(i)
  BY <1>1, Facts DEF Grows
<1>3. Shared'
  BY <1>1 DEF Shared, IInv, Contains
<1> QED
  BY <1>2, <1>3 DEF IInv, Types

\* The types after a step that replaces the instance by f and its operation by t.
LEMMA Moved ==
  ASSUME IInv, NEW i \in Insts, NEW f \in Instance, NEW t \in Executions,
         inst' = [inst EXCEPT ![i] = f], run' = [run EXCEPT ![i] = t], UNCHANGED recorded,
         branch' \in Seq(Commits), pointer' \in Nat, remote' \in Nat, done' \subseteq Writes,
         owner' \in Nat, calls' \in Nat, faults' \in Nat
  PROVE  Types' /\ Others(i) /\ inst'[i] = f /\ run'[i] = t
<1>1. inst \in [Insts -> Instance] /\ run \in [Insts -> Executions]
      /\ recorded \in [Insts -> SUBSET Writes]
  BY DEF IInv, Types
<1>2. inst' \in [Insts -> Instance] /\ inst'[i] = f /\ \A j \in Insts \ {i} : inst'[j] = inst[j]
  BY <1>1
<1>3. run' \in [Insts -> Executions] /\ run'[i] = t /\ \A j \in Insts \ {i} : run'[j] = run[j]
  BY <1>1
<1> QED
  BY <1>1, <1>2, <1>3 DEF Types, Others

\* The same for a step that changes what the instance accepted.
LEMMA Recording ==
  ASSUME IInv, NEW i \in Insts, NEW f \in Instance, NEW t \in Executions, NEW s \in SUBSET Writes,
         inst' = [inst EXCEPT ![i] = f], run' = [run EXCEPT ![i] = t],
         recorded' = [recorded EXCEPT ![i] = s],
         UNCHANGED <<branch, pointer, remote, done>>,
         owner' \in Nat, calls' \in Nat, faults' \in Nat
  PROVE  /\ Types' /\ Others(i) /\ inst'[i] = f /\ run'[i] = t /\ recorded'[i] = s
         /\ Grows(i) /\ Shared' /\ Tip' = Tip
<1>1. inst \in [Insts -> Instance] /\ run \in [Insts -> Executions]
      /\ recorded \in [Insts -> SUBSET Writes]
  BY DEF IInv, Types
<1>2. inst' \in [Insts -> Instance] /\ inst'[i] = f /\ \A j \in Insts \ {i} : inst'[j] = inst[j]
  BY <1>1
<1>3. run' \in [Insts -> Executions] /\ run'[i] = t /\ \A j \in Insts \ {i} : run'[j] = run[j]
  BY <1>1
<1>4. /\ recorded' \in [Insts -> SUBSET Writes] /\ recorded'[i] = s
      /\ \A j \in Insts \ {i} : recorded'[j] = recorded[j]
  BY <1>1
<1>5. Tip' = Tip
  BY DEF Tip
<1> QED
  BY <1>2, <1>3, <1>4, <1>5, Quiet DEF Types, Others

LEMMA Counting ==
  ASSUME IInv
  PROVE  /\ owner \in Nat /\ calls \in Nat /\ faults \in Nat
         /\ UNCHANGED bounds => owner' \in Nat /\ calls' \in Nat /\ faults' \in Nat
         /\ Fault /\ UNCHANGED <<owner, calls>> => owner' \in Nat /\ calls' \in Nat /\ faults' \in Nat
BY DEF IInv, Types, bounds, Fault

\* However an operation fails, it leaves an instance that claims no more than before and
\* whose pending write still shows.
LEMMA Rejects ==
  ASSUME IInv, NEW i \in Insts, ~At(i, "idle"), Reject(i),
         UNCHANGED <<branch, remote, done, recorded>>,
         pointer' \in Nat, pointer <= pointer', pointer' <= Tip,
         owner' \in Nat, calls' \in Nat, faults' \in Nat
  PROVE  Step(i)
<1> DEFINE f == Rejected(i)
<1>1. /\ branch \in Seq(Commits) /\ Tip' = Tip /\ Tip \in Nat /\ remote \in Nat
      /\ inst[i] \in Instance /\ f \in Instance /\ Idle \in Executions /\ done \subseteq Writes
  BY Facts, RejectedFields, IdleType DEF Tip, IInv, Types
<1>2. Types' /\ Others(i) /\ inst'[i] = f /\ run'[i] = Idle
  BY <1>1, Moved DEF Reject
<1>3. Grows(i) /\ Shared'
  BY <1>1, Facts DEF Grows, Shared, IInv, Contains
<1>4. /\ f.up = inst[i].up /\ f.initialized = inst[i].initialized
      /\ f.config = inst[i].config /\ f.confirmed = inst[i].confirmed
      /\ f.synchronized = inst[i].synchronized
      /\ f.critical => inst[i].critical
      /\ f.pendingSince = inst[i].pendingSince
      /\ f.scheduled = inst[i].scheduled /\ f.timers = inst[i].timers
      /\ f.flushQueued = inst[i].flushQueued
      /\ inst[i].error # "none" => f.error # "none"
      /\ run[i].stage = "initNormal" \/ (run[i].op = "flush" /\ run[i].stage = "push") =>
           f.error # "none"
  BY <1>1, RejectedFields
<1> HIDE DEF f
<1>5. Idle.phase = "idle" /\ Idle.rev = 0 /\ Idle.stage = "commit"
  BY DEF Idle
<1>6. Behind(i)'
  BY <1>1, <1>2, <1>4, <1>5, Facts, FieldTypes DEF Behind, At
<1>7. Underway(i)'
  BY <1>2, <1>4, <1>5, Facts DEF Underway, At
<1>8. Carried(i)'
  BY <1>1, <1>2, <1>5, Facts DEF Carried, At, Contains
<1>9. Flagged(i)'
  BY <1>1, <1>2, <1>4, Facts DEF Flagged, KindOf
<1>10. Clocked(i)'
  BY <1>2, <1>4, <1>5, Facts DEF Clocked, At, Contains
<1> QED
  BY <1>2, <1>3, <1>6, <1>7, <1>8, <1>9, <1>10 DEF Step, Local

\* An operation begins its body, or has nothing to do, with fields that keep their promises.
LEMMA Enters ==
  ASSUME IInv, NEW i \in Insts, NEW f \in Instance, NEW r \in Executions,
         inst' = [inst EXCEPT ![i] = f], run' = [run EXCEPT ![i] = Enter(r, f)],
         UNCHANGED <<branch, pointer, remote, recorded>>,
         Shared', done' \subseteq Writes,
         owner' \in Nat, calls' \in Nat, faults' \in Nat,
         inst[i].up, f.up, f.initialized, f.config = inst[i].config, f.confirmed = inst[i].confirmed,
         f.synchronized <= remote, r.rev <= Tip,
         r.op \in {"critical", "normal"} => r.write \in Writes /\ Kind[r.write] = r.op,
         r.op \in {"flush", "diagnostics"} => r.write = NoWrite,
         r.op = "confirm" => Contains(Tip, r.write),
         f.critical => \A k \in (remote + 1)..Tip : ~(branch[k].author = i /\ KindOf(k) = "critical"),
         f.scheduled => f.timers > 0,
         (\E w \in recorded[i] : ~Contains(remote, w)) => f.pendingSince # 0,
         f.pendingSince # 0 =>
           f.timers > 0 \/ f.flushQueued \/ f.error # "none" \/ r.op = "flush"
  PROVE  Step(i)
<1> DEFINE e == Enter(r, f)
<1>1. /\ e \in Executions
      /\ e.rev \in {0, r.rev}
      /\ e.phase \in {"idle", "commit", "readHead"}
      /\ e.phase # "idle" => e.op = r.op /\ e.write = r.write
      /\ e.phase = "idle" => e.stage = "commit"
      /\ e.phase = "commit" => e.op \in {"critical", "normal"} /\ e.stage = "commit"
      /\ e.phase = "readHead" => e.op \in {"flush", "confirm"} /\ e.stage = "push"
      /\ r.op = "flush" /\ f.pendingSince # 0 => e.phase = "readHead" /\ e.op = "flush"
  BY EnterFields
<1>2. /\ branch \in Seq(Commits) /\ Tip' = Tip /\ Tip \in Nat /\ remote \in Nat /\ pointer \in Nat
  BY Facts DEF Tip
<1>3. Types' /\ Others(i) /\ inst'[i] = f /\ run'[i] = e
  BY <1>1, <1>2, Moved
<1> HIDE DEF e
<1>4. Grows(i)
  BY <1>2 DEF Grows
<1>5. Behind(i)'
  <2>1. e.rev \in Nat /\ e.rev <= Tip
    BY <1>1, <1>2, RunTypes
  <2>2. inst[i].config <= pointer /\ inst[i].confirmed <= pointer
    BY Facts DEF Behind
  <2> QED
    BY <1>1, <1>2, <1>3, <2>1, <2>2 DEF Behind, At
<1>6. Underway(i)'
  BY <1>1, <1>3, Facts DEF Underway, At
<1>7. Carried(i)'
  BY <1>1, <1>2, <1>3, Facts DEF Carried, At, Contains
<1>8. Flagged(i)'
  BY <1>2, <1>3 DEF Flagged, KindOf
<1>9. Clocked(i)'
  <2>1. f.pendingSince # 0 =>
           \/ f.timers > 0 \/ f.flushQueued \/ f.error # "none"
           \/ e.phase # "idle" /\ e.op = "flush" /\ e.stage = "push"
    BY <1>1
  <2> QED
    BY <1>3, <2>1 DEF Clocked, At, Contains
<1> QED
  BY <1>3, <1>4, <1>5, <1>6, <1>7, <1>8, <1>9 DEF Step, Local

\* An operation goes on with its next command: revisions may have moved forward, and the
\* instance may have learned of them or started its clock.
LEMMA GoesOn ==
  ASSUME IInv, NEW i \in Insts, NEW f \in Instance, NEW t \in Executions,
         inst' = [inst EXCEPT ![i] = f], run' = [run EXCEPT ![i] = t],
         UNCHANGED <<branch, done, recorded>>,
         owner' \in Nat, calls' \in Nat, faults' \in Nat,
         pointer' \in Nat, pointer <= pointer', pointer' <= Tip,
         remote' \in Nat, remote <= remote', remote' <= pointer,
         run[i].phase \notin {"idle", "init", "commit"},
         t.phase \notin {"idle", "init", "classify", "commit"},
         t.op = run[i].op, t.write = run[i].write, t.rev <= Tip,
         t.stage = run[i].stage \/ run[i].stage = "commit",
         t.phase = "cas" => f.config <= t.rev,
         t.phase \in {"push", "verify"} => t.rev <= pointer',
         t.phase = "enlist" => t.stage = "commit" /\ t.op # "critical",
         At(i, "classify") => t.stage \notin {"commit", "push"},
         f.up = inst[i].up, f.initialized = inst[i].initialized, f.critical = inst[i].critical,
         f.config <= pointer', f.confirmed <= pointer', f.synchronized = inst[i].synchronized,
         f.scheduled = inst[i].scheduled, f.timers = inst[i].timers,
         f.flushQueued = inst[i].flushQueued, f.error = inst[i].error,
         \/ f.pendingSince = inst[i].pendingSince
         \/ f.pendingSince # 0 /\ t.stage = "initNormal"
  PROVE  Step(i)
<1>1. /\ branch \in Seq(Commits) /\ Tip' = Tip /\ Tip \in Nat /\ remote \in Nat /\ pointer \in Nat
      /\ remote <= Tip /\ done \subseteq Writes
  BY Facts DEF Tip, IInv, Types
<1>2. Types' /\ Others(i) /\ inst'[i] = f /\ run'[i] = t
  BY <1>1, Moved
<1>3. ASSUME NEW w, Contains(remote, w)
      PROVE  Contains(remote, w)'
  BY <1>1, <1>3 DEF Contains
<1>4. Grows(i)
  BY <1>1 DEF Grows
<1>5. Shared'
  BY <1>1, <1>3 DEF Shared, IInv
<1>6. Behind(i)'
  <2>1. f.synchronized <= remote'
    <3>1. inst[i].synchronized <= remote /\ inst[i].synchronized \in Nat
      BY Facts, FieldTypes DEF Behind
    <3> QED
      BY <1>1, <3>1, AtMostTrans
  <2> QED
    BY <1>1, <1>2, <2>1 DEF Behind, At
<1>7. Underway(i)'
  BY <1>2, Facts DEF Underway, At
<1>8. Carried(i)'
  <2>1. ~At(i, "classify") =>
          run[i].phase \in {"readHead", "cas", "push", "verify", "enlist"}
    BY Facts, RunTypes DEF Phases, At
  <2> QED
    BY <1>1, <1>2, <2>1, Facts DEF Carried, At, Contains
<1>9. Flagged(i)'
  <2>1. SUFFICES ASSUME f.critical, NEW k \in (remote' + 1)..Tip
                 PROVE  ~(branch[k].author = i /\ KindOf(k) = "critical")
    BY <1>1, <1>2 DEF Flagged, KindOf
  <2>2. inst[i].critical
    BY <2>1
  <2>3. k \in (remote + 1)..Tip
    BY <1>1, Beyond
  <2> QED
    BY <2>2, <2>3, Facts DEF Flagged
<1>10. Clocked(i)'
  BY <1>2, <1>3, Facts DEF Clocked, At
<1> QED
  BY <1>2, <1>4, <1>5, <1>6, <1>7, <1>8, <1>9, <1>10 DEF Step, Local

-----------------------------------------------------------------------------
(* The actions *)

LEMMA RegisterStep ==
  ASSUME IInv, NEW i \in Insts, Register(i)
  PROVE  Step(i)
<1> DEFINE f == Fresh(TRUE, pointer)
<1>1. f \in Instance /\ run[i] \in Executions /\ run' = [run EXCEPT ![i] = run[i]]
  BY Facts DEF Register, Fresh, Instance, IInv, Types
<1>2. Types' /\ Others(i) /\ inst'[i] = f /\ run'[i] = run[i]
  BY <1>1, Quiet, Moved, Counting DEF Register
<1>3. Tip' = Tip /\ At(i, "idle") /\ recorded'[i] = {} /\ run[i].stage = "commit"
  BY Facts DEF Register, Tip, Underway, At
<1>4. Local(i)'
  BY <1>2, <1>3, Facts DEF Register, Local, Behind, Underway, Carried, Flagged, Clocked, At, Fresh, Contains
<1> QED
  BY <1>2, <1>4, Quiet DEF Step, Register

LEMMA StartStep ==
  ASSUME IInv, NEW i \in Insts, NEW op \in OpNames, NEW w \in Writes \union {NoWrite}, Start(i, op, w)
  PROVE  Step(i)
<1> DEFINE r == [Idle EXCEPT !.op = op, !.write = w]
           f == inst[i]
<1>1. /\ r \in Executions /\ r.op = op /\ r.write = w /\ r.rev = 0 /\ r.stage = "commit"
      /\ [r EXCEPT !.phase = "init"] \in Executions
  BY IdleType DEF Idle, Executions, Phases
<1>2. /\ f \in Instance /\ inst \in [Insts -> Instance] /\ inst' = [inst EXCEPT ![i] = f]
      /\ done' \subseteq Writes /\ Shared' /\ Grows(i) /\ Tip' = Tip
      /\ owner' \in Nat /\ calls' \in Nat /\ faults' \in Nat
  BY Facts, Quiet, Counting DEF Start, IInv, Types, Tip
<1>3. /\ op \in {"critical", "normal"} => w \in Writes /\ Kind[w] = op
      /\ op \in {"flush", "diagnostics"} => w = NoWrite
      /\ op = "confirm" => Contains(Tip, w)
  BY DEF Start
<1>4. CASE inst[i].initialized
  <2>1. run' = [run EXCEPT ![i] = Enter(r, f)]
    BY <1>4 DEF Start
  <2> HIDE DEF r
  <2>2. f.pendingSince # 0 => f.timers > 0 \/ f.flushQueued \/ f.error # "none"
    BY Facts DEF Clocked, At, Start
  <2> QED
    <3>1. /\ f.up /\ f.synchronized <= remote /\ r.rev <= Tip
          /\ f.critical => \A k \in (remote + 1)..Tip : ~(branch[k].author = i /\ KindOf(k) = "critical")
          /\ f.scheduled => f.timers > 0
          /\ (\E v \in recorded[i] : ~Contains(remote, v)) => f.pendingSince # 0
      BY <1>1, Facts DEF Start, Behind, Flagged, Clocked
    <3>2. UNCHANGED <<branch, pointer, remote, recorded>>
      BY DEF Start
    <3> QED
      BY <1>1, <1>2, <1>3, <1>4, <2>1, <2>2, <3>1, <3>2, Enters
<1>5. CASE ~inst[i].initialized
  <2> DEFINE t == [r EXCEPT !.phase = "init"]
  <2>1. run' = [run EXCEPT ![i] = t]
    BY <1>5 DEF Start
  <2>2. t \in Executions /\ t.op = op /\ t.write = w /\ t.rev = 0 /\ t.stage = "commit" /\ t.phase = "init"
    BY <1>1
  <2> HIDE DEF t, r
  <2>3. Types' /\ Others(i) /\ inst'[i] = f /\ run'[i] = t
    <3>1. UNCHANGED recorded /\ branch' \in Seq(Commits) /\ pointer' \in Nat /\ remote' \in Nat
      BY Quiet DEF Start
    <3> QED
      BY <1>2, <2>1, <2>2, <3>1, Moved
  <2>4. Behind(i)'
    <3>1. UNCHANGED <<pointer, remote>>
      BY DEF Start
    <3>2. inst'[i] = inst[i] /\ run'[i].rev = 0 /\ run'[i].phase = "init" /\ Tip' = Tip /\ Tip \in Nat
      BY <1>2, <2>2, <2>3, Facts
    <3> QED
      BY <3>1, <3>2, Facts DEF Behind, At
  <2>7. Underway(i)'
    BY <2>2, <2>3, Facts, <1>5 DEF Underway, At, Start
  <2>5. Carried(i)'
    BY <1>2, <1>3, <2>2, <2>3, Facts DEF Carried, At, Start, Contains
  <2>6. Flagged(i)' /\ Clocked(i)'
    BY <1>2, <2>2, <2>3, Facts DEF Flagged, KindOf, Clocked, At, Start, Contains
  <2> QED
    BY <1>2, <2>3, <2>4, <2>5, <2>6, <2>7 DEF Step, Local
<1> QED
  BY <1>4, <1>5

LEMMA TimerFiresStep ==
  ASSUME IInv, NEW i \in Insts, TimerFires(i)
  PROVE  Step(i)
<1> DEFINE n == inst[i].timers - 1
           f == [inst[i] EXCEPT !.timers = n, !.scheduled = FALSE, !.flushQueued = TRUE]
<1>1. n \in Nat
  BY Facts, FieldTypes DEF TimerFires
<1>2. inst' = [inst EXCEPT ![i] = f] /\ run' = [run EXCEPT ![i] = run[i]]
  BY DEF TimerFires, IInv, Types
<1> HIDE DEF n
<1>3. f \in Instance
  BY <1>1, Facts DEF Instance
<1>4. /\ f.up = inst[i].up /\ f.initialized = inst[i].initialized /\ f.critical = inst[i].critical
      /\ f.config = inst[i].config /\ f.confirmed = inst[i].confirmed
      /\ f.synchronized = inst[i].synchronized /\ f.pendingSince = inst[i].pendingSince
      /\ f.error = inst[i].error /\ ~f.scheduled /\ f.flushQueued
  BY Facts DEF Instance
<1> HIDE DEF f
<1>5. Types' /\ Others(i) /\ inst'[i] = f /\ run'[i] = run[i]
  BY <1>2, <1>3, Facts, Quiet, Moved, Counting DEF TimerFires
<1>6. inst[i].initialized /\ Tip' = Tip
  BY Facts DEF TimerFires, Clocked, Tip
<1>7. Behind(i)' /\ Underway(i)'
  BY <1>4, <1>5, <1>6, Facts DEF TimerFires, Behind, Underway, At
<1>8. Carried(i)' /\ Flagged(i)'
  BY <1>4, <1>5, <1>6, Facts DEF TimerFires, Carried, Flagged, KindOf, At, Contains
<1>9. Clocked(i)'
  BY <1>4, <1>5, <1>6, Facts DEF TimerFires, Clocked, At, Contains
<1> QED
  BY <1>5, <1>7, <1>8, <1>9, Quiet DEF Step, Local, TimerFires

LEMMA StartQueuedFlushStep ==
  ASSUME IInv, NEW i \in Insts, StartQueuedFlush(i)
  PROVE  Step(i)
<1> DEFINE r == [Idle EXCEPT !.op = "flush"]
           f == [inst[i] EXCEPT !.flushQueued = FALSE]
<1>1. r \in Executions /\ r.op = "flush" /\ r.write = NoWrite /\ r.rev = 0
  BY IdleType DEF Idle, Executions, OpNames
<1>2. f \in Instance
  BY Facts DEF Instance
<1>3. /\ f.up = inst[i].up /\ f.initialized = inst[i].initialized /\ f.critical = inst[i].critical
      /\ f.config = inst[i].config /\ f.confirmed = inst[i].confirmed
      /\ f.synchronized = inst[i].synchronized /\ f.pendingSince = inst[i].pendingSince
      /\ f.error = inst[i].error /\ f.scheduled = inst[i].scheduled /\ f.timers = inst[i].timers
  BY Facts DEF Instance
<1>4. inst[i].initialized /\ inst[i].up
  BY Facts DEF StartQueuedFlush, Clocked, Underway
<1>5. Enter(r, inst[i]) = Enter(r, f)
  BY <1>3 DEF Enter
<1>6. inst' = [inst EXCEPT ![i] = f] /\ run' = [run EXCEPT ![i] = Enter(r, f)]
  BY <1>4, <1>5 DEF StartQueuedFlush
<1> HIDE DEF f, r
<1>7. /\ UNCHANGED <<branch, pointer, remote, recorded>> /\ Shared' /\ done' \subseteq Writes
      /\ owner' \in Nat /\ calls' \in Nat /\ faults' \in Nat
  BY Quiet, Counting DEF StartQueuedFlush
<1>8. /\ f.synchronized <= remote /\ 0 <= Tip
      /\ f.critical => \A k \in (remote + 1)..Tip : ~(branch[k].author = i /\ KindOf(k) = "critical")
      /\ f.scheduled => f.timers > 0
      /\ (\E w \in recorded[i] : ~Contains(remote, w)) => f.pendingSince # 0
  BY <1>3, Facts DEF Behind, Flagged, Clocked
<1> QED
  BY <1>1, <1>2, <1>3, <1>4, <1>6, <1>7, <1>8, Enters

LEMMA ReadRevisionsStep ==
  ASSUME IInv, NEW i \in Insts, ReadRevisions(i)
  PROVE  Step(i)
<1> DEFINE g == [inst[i] EXCEPT !.synchronized = remote]
           f == [g EXCEPT !.critical = TRUE, !.initialized = TRUE]
<1>1. /\ inst[i].up /\ ~inst[i].initialized /\ run[i].stage = "commit"
      /\ run[i] \in Executions /\ inst[i] \in Instance /\ remote \in Nat
  BY Facts DEF ReadRevisions, Underway, At
<1>2. /\ UNCHANGED <<branch, pointer, remote, done, recorded>>
      /\ owner' \in Nat /\ calls' \in Nat /\ faults' \in Nat
  BY Counting DEF ReadRevisions
<1>3. /\ g \in Instance
      /\ g.up = inst[i].up /\ g.initialized = inst[i].initialized /\ g.critical = inst[i].critical
      /\ g.config = inst[i].config /\ g.confirmed = inst[i].confirmed
      /\ g.synchronized = remote /\ g.pendingSince = inst[i].pendingSince
      /\ g.error = inst[i].error /\ g.scheduled = inst[i].scheduled
      /\ g.timers = inst[i].timers /\ g.flushQueued = inst[i].flushQueued
  BY <1>1 DEF Instance
<1>4. CASE Tip = remote
  <2> HIDE DEF g
  <2>1. /\ f \in Instance
        /\ f.up = g.up /\ f.initialized /\ f.config = g.config /\ f.confirmed = g.confirmed
        /\ f.synchronized = g.synchronized /\ f.pendingSince = g.pendingSince
        /\ f.error = g.error /\ f.scheduled = g.scheduled /\ f.timers = g.timers
        /\ f.flushQueued = g.flushQueued
    BY <1>3 DEF Instance
  <2>2. /\ inst' = [inst EXCEPT ![i] = f]
        /\ run' = [run EXCEPT ![i] = Enter(run[i], f)]
    <3>1. Initialized(i, [g EXCEPT !.critical = TRUE])
      BY <1>4 DEF ReadRevisions, g
    <3>2. [[g EXCEPT !.critical = TRUE] EXCEPT !.initialized = TRUE] = f
      BY <1>3 DEF Instance
    <3>3. Enter(run[i], [g EXCEPT !.critical = TRUE]) = Enter(run[i], f)
      BY <1>3 DEF Enter, Instance
    <3> QED
      BY <3>1, <3>2, <3>3 DEF Initialized
  <2> HIDE DEF f
  <2>3. /\ f.synchronized <= remote
        /\ f.critical => \A k \in (remote + 1)..Tip : ~(branch[k].author = i /\ KindOf(k) = "critical")
        /\ f.scheduled => f.timers > 0
        /\ (\E w \in recorded[i] : ~Contains(remote, w)) => f.pendingSince # 0
        /\ f.pendingSince # 0 => f.error # "none"
    BY <1>1, <1>3, <1>4, <2>1, Facts DEF Clocked
  <2>4. /\ run[i].rev <= Tip
        /\ run[i].op \in {"critical", "normal"} => run[i].write \in Writes /\ Kind[run[i].write] = run[i].op
        /\ run[i].op \in {"flush", "diagnostics"} => run[i].write = NoWrite
        /\ run[i].op = "confirm" => Contains(Tip, run[i].write)
    BY Facts DEF Behind, Carried, At, ReadRevisions
  <2> QED
    BY <1>1, <1>2, <1>3, <2>1, <2>2, <2>3, <2>4, Enters, Quiet
<1>5. CASE Tip # remote
  <2> DEFINE t == [run[i] EXCEPT !.phase = "classify"]
  <2>1. inst' = [inst EXCEPT ![i] = g] /\ run' = [run EXCEPT ![i] = t]
    BY <1>5 DEF ReadRevisions, Goto
  <2>2. /\ t \in Executions /\ t.phase = "classify" /\ t.op = run[i].op /\ t.write = run[i].write
        /\ t.rev = run[i].rev /\ t.stage = run[i].stage
    BY <1>1 DEF Executions, Phases
  <2> HIDE DEF g, t
  <2>3. /\ Types' /\ Others(i) /\ inst'[i] = g /\ run'[i] = t /\ Tip' = Tip
        /\ Shared' /\ Grows(i)
    BY <1>2, <1>3, <2>1, <2>2, Quiet, Moved DEF Tip
  <2>4. Underway(i)'
    BY <1>1, <1>2, <1>3, <2>2, <2>3, Facts DEF Underway, At
  <2>7. Behind(i)'
    BY <1>1, <1>2, <1>3, <2>2, <2>3, Facts DEF Behind, At
  <2>5. Carried(i)' /\ Flagged(i)'
    BY <1>1, <1>2, <1>3, <2>2, <2>3, Facts DEF Carried, Flagged, KindOf, At, Contains, ReadRevisions
  <2>6. Clocked(i)'
    BY <1>1, <1>2, <1>3, <2>2, <2>3, Facts DEF Clocked, At, Contains, ReadRevisions
  <2> QED
    BY <2>3, <2>4, <2>5, <2>6, <2>7 DEF Step, Local
<1> QED
  BY <1>4, <1>5

LEMMA ClassifyStep ==
  ASSUME IInv, NEW i \in Insts, Classify(i)
  PROVE  Step(i)
<1> DEFINE first == inst[i].synchronized + 1
           f == [inst[i] EXCEPT !.pendingSince = first]
           t(stage) == [run[i] EXCEPT !.phase = "readHead", !.stage = stage]
<1>1. /\ inst[i].up /\ ~inst[i].initialized /\ run[i].stage = "commit" /\ At(i, "classify")
      /\ run[i] \in Executions /\ inst[i] \in Instance /\ Tip \in Nat /\ pointer \in Nat
      /\ pointer <= Tip
  BY Facts DEF Classify, Underway, At
<1>2. /\ UNCHANGED <<branch, pointer, remote, done, recorded, bounds>>
      /\ owner' \in Nat /\ calls' \in Nat /\ faults' \in Nat
      /\ remote' \in Nat /\ remote <= remote' /\ remote' <= pointer
      /\ pointer' \in Nat /\ pointer <= pointer' /\ pointer' <= Tip
      /\ run[i].phase = "classify"
  BY Counting, Facts DEF Classify, At
<1>3. first \in Nat /\ first # 0
  BY <1>1, FieldTypes
<1> HIDE DEF first
<1>4. /\ f \in Instance
      /\ f.up = inst[i].up /\ f.initialized = inst[i].initialized /\ f.critical = inst[i].critical
      /\ f.config = inst[i].config /\ f.confirmed = inst[i].confirmed
      /\ f.synchronized = inst[i].synchronized /\ f.pendingSince = first
      /\ f.error = inst[i].error /\ f.scheduled = inst[i].scheduled
      /\ f.timers = inst[i].timers /\ f.flushQueued = inst[i].flushQueued
  BY <1>1, <1>3 DEF Instance
<1>5. ASSUME NEW stage \in {"initCritical", "initNormal"}
      PROVE  /\ t(stage) \in Executions /\ t(stage).phase = "readHead" /\ t(stage).stage = stage
             /\ t(stage).op = run[i].op /\ t(stage).write = run[i].write /\ t(stage).rev = run[i].rev
  BY <1>1 DEF Executions, Phases, Stages
<1>6. \/ Reject(i)
      \/ run' = [run EXCEPT ![i] = t("initCritical")] /\ UNCHANGED inst
      \/ run' = [run EXCEPT ![i] = t("initNormal")] /\ inst' = [inst EXCEPT ![i] = f]
      \/ Initialized(i, Scheduled(f))
  BY DEF Classify, first
<1>7. CASE Reject(i)
  BY <1>1, <1>2, <1>7, Rejects, Facts DEF At
<1>8. CASE run' = [run EXCEPT ![i] = t("initCritical")] /\ UNCHANGED inst
  <2> DEFINE u == t("initCritical")
  <2>1. /\ u \in Executions /\ u.phase = "readHead" /\ u.stage = "initCritical"
        /\ u.op = run[i].op /\ u.write = run[i].write /\ u.rev = run[i].rev
        /\ run' = [run EXCEPT ![i] = u] /\ inst' = [inst EXCEPT ![i] = inst[i]]
    BY <1>5, <1>8 DEF IInv, Types
  <2> HIDE DEF u
  <2>2. inst[i].config <= pointer' /\ inst[i].confirmed <= pointer' /\ u.rev <= Tip
    BY <1>2, <2>1, Facts DEF Behind
  <2> QED
    BY <1>1, <1>2, <2>1, <2>2, GoesOn
<1>9. CASE run' = [run EXCEPT ![i] = t("initNormal")] /\ inst' = [inst EXCEPT ![i] = f]
  <2> DEFINE u == t("initNormal")
  <2>1. /\ u \in Executions /\ u.phase = "readHead" /\ u.stage = "initNormal"
        /\ u.op = run[i].op /\ u.write = run[i].write /\ u.rev = run[i].rev
        /\ run' = [run EXCEPT ![i] = u]
    BY <1>5, <1>9
  <2> HIDE DEF u, f
  <2>2. f.config <= pointer' /\ f.confirmed <= pointer' /\ u.rev <= Tip
    BY <1>2, <1>4, <2>1, Facts DEF Behind
  <2> QED
    BY <1>1, <1>2, <1>3, <1>4, <1>9, <2>1, <2>2, GoesOn
<1>10. CASE Initialized(i, Scheduled(f))
  <2> DEFINE h == Scheduled(f)
             e == [h EXCEPT !.initialized = TRUE]
  <2>1. f.scheduled => f.timers > 0
    BY <1>4, Facts DEF Clocked
  <2> HIDE DEF f
  <2>2. /\ h \in Instance /\ h.up = f.up /\ h.config = f.config /\ h.confirmed = f.confirmed
        /\ h.synchronized = f.synchronized /\ h.critical = f.critical
        /\ h.pendingSince = f.pendingSince /\ h.timers > 0
    BY <1>4, <2>1, ScheduledFields
  <2> HIDE DEF h
  <2>3. /\ e \in Instance /\ e.up = h.up /\ e.initialized /\ e.config = h.config
        /\ e.confirmed = h.confirmed /\ e.synchronized = h.synchronized
        /\ e.critical = h.critical /\ e.pendingSince = h.pendingSince /\ e.timers = h.timers
    BY <2>2 DEF Instance
  <2>4. inst' = [inst EXCEPT ![i] = e] /\ run' = [run EXCEPT ![i] = Enter(run[i], e)]
    <3>1. Enter(run[i], h) = Enter(run[i], e)
      BY <2>3 DEF Enter
    <3> QED
      BY <1>10, <3>1 DEF Initialized, h
  <2> HIDE DEF e
  <2>5. /\ e.critical => \A k \in (remote + 1)..Tip : ~(branch[k].author = i /\ KindOf(k) = "critical")
        /\ e.synchronized <= remote
    BY <1>4, <2>2, <2>3, Facts DEF Flagged, Behind
  <2>6. /\ run[i].rev <= Tip
        /\ run[i].op \in {"critical", "normal"} => run[i].write \in Writes /\ Kind[run[i].write] = run[i].op
        /\ run[i].op \in {"flush", "diagnostics"} => run[i].write = NoWrite
        /\ run[i].op = "confirm" => Contains(Tip, run[i].write)
    BY <1>1, Facts DEF Behind, Carried, At
  <2> QED
    BY <1>1, <1>2, <1>3, <1>4, <2>2, <2>3, <2>4, <2>5, <2>6, Enters, Quiet
<1> QED
  BY <1>6, <1>7, <1>8, <1>9, <1>10

LEMMA CommitStep ==
  ASSUME IInv, NEW i \in Insts, Commit(i)
  PROVE  Step(i)
<1>w. PICK w : w = run[i].write
  OBVIOUS
<1> DEFINE b == inst[i].critical /\ run[i].op # "critical"
           f == IF Contains(Tip, w) THEN inst[i] ELSE [inst[i] EXCEPT !.critical = b]
           t == [run[i] EXCEPT !.phase = "readHead"]
           c == [author |-> i, write |-> w]
<1>1. /\ run[i] \in Executions /\ inst[i] \in Instance /\ branch \in Seq(Commits)
      /\ Tip \in Nat /\ pointer \in Nat /\ remote \in Nat /\ remote <= Tip /\ pointer <= Tip
      /\ inst[i].up /\ inst[i].initialized /\ run[i].stage = "commit"
      /\ run[i].op \in {"critical", "normal"} /\ w \in Writes /\ Kind[w] = run[i].op
  BY <1>w, Facts DEF Commit, Underway, Carried, At
<1>2. /\ f \in Instance
      /\ f.up = inst[i].up /\ f.initialized = inst[i].initialized
      /\ f.config = inst[i].config /\ f.confirmed = inst[i].confirmed
      /\ f.synchronized = inst[i].synchronized /\ f.pendingSince = inst[i].pendingSince
      /\ f.error = inst[i].error /\ f.scheduled = inst[i].scheduled
      /\ f.timers = inst[i].timers /\ f.flushQueued = inst[i].flushQueued
      /\ f.critical => inst[i].critical
      /\ f.critical /\ ~Contains(Tip, w) => run[i].op # "critical"
  <2>1. CASE Contains(Tip, w)
    BY <1>1, <2>1
  <2>2. CASE ~Contains(Tip, w)
    <3>1. f = [inst[i] EXCEPT !.critical = b] /\ b \in BOOLEAN
      BY <2>2
    <3>2. (b => inst[i].critical) /\ (b => run[i].op # "critical")
      OBVIOUS
    <3> HIDE DEF b, f
    <3>3. /\ f.up = inst[i].up /\ f.initialized = inst[i].initialized
          /\ f.config = inst[i].config /\ f.confirmed = inst[i].confirmed
          /\ f.synchronized = inst[i].synchronized /\ f.pendingSince = inst[i].pendingSince
          /\ f.error = inst[i].error /\ f.scheduled = inst[i].scheduled
          /\ f.timers = inst[i].timers /\ f.flushQueued = inst[i].flushQueued
      BY <1>1, <3>1 DEF Instance
    <3>4. f.critical = b /\ f \in Instance
      BY <1>1, <3>1 DEF Instance
    <3> QED
      BY <3>2, <3>3, <3>4
  <2> QED
    BY <2>1, <2>2
<1>3. /\ t \in Executions /\ t.phase = "readHead" /\ t.op = run[i].op /\ t.write = w
      /\ t.rev = run[i].rev /\ t.stage = "commit"
  BY <1>1, <1>w DEF Executions, Phases
<1>4. inst' = [inst EXCEPT ![i] = f] /\ run' = [run EXCEPT ![i] = t]
  BY <1>w DEF Commit, Goto, IInv, Types
<1>5. branch' = IF Contains(Tip, w) THEN branch ELSE Append(branch, c)
  BY <1>w DEF Commit
<1>6. c \in Commits
  BY <1>1 DEF Commits
<1> HIDE DEF f, t
<1>7. /\ branch' \in Seq(Commits) /\ Tip' \in Nat /\ Tip <= Tip'
      /\ \A k \in 1..Tip : branch'[k] = branch[k]
      /\ \A k \in (Tip + 1)..Tip' : branch'[k] = c /\ ~Contains(Tip, w)
      /\ Contains(Tip, w)'
  <2>1. CASE Contains(Tip, w)
    BY <1>1, <1>5, <2>1 DEF Tip, Contains
  <2>2. CASE ~Contains(Tip, w)
    <3>1. branch' = Append(branch, c) /\ Tip' = Tip + 1
      BY <1>1, <1>5, <1>6, <2>2 DEF Tip
    <3>2. branch' \in Seq(Commits) /\ branch'[Tip + 1] = c /\ \A k \in 1..Tip : branch'[k] = branch[k]
      BY <1>1, <1>6, <3>1 DEF Tip
    <3>3. Contains(Tip, w)'
      BY <1>1, <3>1, <3>2 DEF Contains
    <3>4. \A k \in (Tip + 1)..Tip' : k = Tip + 1
      BY <1>1, <3>1
    <3>5. Tip' \in Nat /\ Tip <= Tip'
      BY <1>1, <3>1
    <3> QED
      BY <2>2, <3>2, <3>3, <3>4, <3>5
  <2> QED
    BY <2>1, <2>2
<1>8. /\ UNCHANGED <<pointer, remote, done, recorded>>
      /\ owner' \in Nat /\ calls' \in Nat /\ faults' \in Nat /\ done \subseteq Writes
  BY Counting DEF Commit, IInv, Types
<1>9. Types' /\ Others(i) /\ inst'[i] = f /\ run'[i] = t
  BY <1>1, <1>2, <1>3, <1>4, <1>7, <1>8, Moved
<1>10. Grows(i)
  BY <1>1, <1>7, <1>8 DEF Grows
<1>11. ASSUME NEW r \in Nat, r <= Tip, NEW v, Contains(r, v)
       PROVE  /\ \E k \in 1..r : branch'[k].write = v
              /\ Contains(Tip, v)'
  <2>1. PICK k \in 1..r : branch[k].write = v
    BY <1>11 DEF Contains
  <2>2. k \in 1..Tip /\ k \in 1..Tip'
    BY <1>1, <1>7, <1>11
  <2>3. branch'[k].write = v
    BY <1>7, <2>1, <2>2
  <2> QED
    BY <2>1, <2>2, <2>3 DEF Contains
<1>12. Shared'
  <2>1. \A v : Contains(remote, v) => Contains(remote, v)'
    BY <1>1, <1>8, <1>11 DEF Contains
  <2>2. pointer' <= Tip' /\ remote' <= pointer'
    BY <1>1, <1>7, <1>8, Facts
  <2> QED
    BY <1>8, <2>1, <2>2 DEF Shared, IInv
<1>13. Behind(i)'
  <2>1. /\ run[i].rev \in Nat /\ run[i].rev <= Tip
        /\ inst[i].config <= pointer /\ inst[i].confirmed <= pointer
        /\ inst[i].synchronized <= remote
    BY <1>1, Facts, RunTypes DEF Behind
  <2>2. run[i].rev <= Tip'
    BY <1>1, <1>7, <2>1, AtMostTrans
  <2> QED
    BY <1>2, <1>3, <1>8, <1>9, <2>1, <2>2 DEF Behind, At
<1>14. Underway(i)'
  BY <1>1, <1>2, <1>3, <1>9 DEF Underway, At
<1>15. Carried(i)'
  <2>1. \A v \in recorded[i] : Contains(Tip, v)'
    BY <1>1, <1>11, Facts DEF Carried
  <2>2. w # NoWrite
    BY <1>1, DurabilityAssumption DEF DurabilityAssumption
  <2>3. Contains(Tip, w)'
    BY <1>7
  <2> QED
    BY <1>1, <1>3, <1>8, <1>9, <2>1, <2>3 DEF Carried, At
<1>16. Flagged(i)'
  <2>1. SUFFICES ASSUME f.critical, NEW k \in (remote + 1)..Tip', branch'[k].author = i, KindOf(k)' = "critical"
                 PROVE  FALSE
    BY <1>8, <1>9 DEF Flagged
  <2>2. CASE k \in (remote + 1)..Tip
    <3>1. branch'[k] = branch[k]
      BY <1>1, <1>7, <2>2
    <3> QED
      BY <1>2, <2>1, <2>2, <3>1, Facts DEF Flagged, KindOf
  <2>3. CASE k \in (Tip + 1)..Tip'
    <3>1. KindOf(k)' = Kind[w]
      BY <1>7, <2>3, DurabilityAssumption DEF KindOf, DurabilityAssumption
    <3> QED
      BY <1>1, <1>2, <1>7, <2>1, <2>3, <3>1
  <2> QED
    BY <1>1, <1>7, <2>1, <2>2, <2>3
<1>17. Clocked(i)'
  <2>1. \A v \in recorded[i] : Contains(remote, v) => Contains(remote, v)'
    BY <1>1, <1>8, <1>11 DEF Contains
  <2> QED
    BY <1>1, <1>2, <1>3, <1>8, <1>9, <2>1, Facts DEF Clocked, At
<1> QED
  BY <1>9, <1>10, <1>12, <1>13, <1>14, <1>15, <1>16, <1>17 DEF Step, Local

LEMMA ReadHeadStep ==
  ASSUME IInv, NEW i \in Insts, ReadHead(i)
  PROVE  Step(i)
<1> DEFINE r == [run[i] EXCEPT !.rev = Tip]
           c == Confirmed(r, i)
           t == IF Tip = inst[i].confirmed THEN c ELSE [r EXCEPT !.phase = "cas"]
<1>1. /\ run[i] \in Executions /\ inst[i] \in Instance /\ Tip \in Nat /\ pointer \in Nat
      /\ pointer <= Tip /\ inst[i].config <= pointer /\ inst[i].confirmed <= pointer
      /\ run[i].phase = "readHead"
  BY Facts DEF ReadHead, At, Behind
<1>2. /\ r \in Executions /\ r.op = run[i].op /\ r.write = run[i].write /\ r.rev = Tip
      /\ r.stage = run[i].stage
  BY <1>1 DEF Executions
<1>3. /\ inst' = [inst EXCEPT ![i] = inst[i]] /\ run' = [run EXCEPT ![i] = t]
      /\ UNCHANGED <<branch, pointer, remote, done, recorded>>
      /\ owner' \in Nat /\ calls' \in Nat /\ faults' \in Nat
  BY Counting DEF ReadHead, IInv, Types
<1>4. /\ c \in Executions
      /\ c.op = r.op /\ c.write = r.write /\ c.rev = r.rev
      /\ r.stage # "commit" => c.phase = "push" /\ c.stage = r.stage
      /\ r.stage = "commit" =>
           \/ c.phase = "readHead" /\ c.stage = "push"
           \/ c.phase = "enlist" /\ c.stage = "commit" /\ c.op # "critical"
  BY <1>2, ConfirmedFields
<1> HIDE DEF c
<1>5. /\ t \in Executions /\ t.op = run[i].op /\ t.write = run[i].write /\ t.rev = Tip
      /\ t.stage = run[i].stage \/ run[i].stage = "commit"
      /\ t.phase \in {"cas", "push", "readHead", "enlist"}
      /\ t.phase = "push" => Tip = inst[i].confirmed
      /\ t.phase = "enlist" => t.stage = "commit" /\ t.op # "critical"
  <2>1. CASE Tip = inst[i].confirmed
    BY <1>2, <1>4, <2>1
  <2>2. CASE Tip # inst[i].confirmed
    BY <1>2, <2>2 DEF Executions, Phases
  <2> QED
    BY <2>1, <2>2
<1> HIDE DEF t
<1>6. ~At(i, "classify")
  BY <1>1 DEF At
<1>7. /\ remote \in Nat /\ remote <= pointer
  BY Facts
<1>8. inst[i].config <= Tip
  BY <1>1, FieldTypes
<1>9. /\ pointer' \in Nat /\ pointer <= pointer' /\ pointer' <= Tip
      /\ remote' \in Nat /\ remote <= remote' /\ remote' <= pointer
      /\ inst[i].config <= pointer' /\ inst[i].confirmed <= pointer'
      /\ t.rev <= Tip
      /\ t.phase = "cas" => inst[i].config <= t.rev
      /\ t.phase \in {"push", "verify"} => t.rev <= pointer'
  BY <1>1, <1>3, <1>5, <1>7, <1>8
<1>10. /\ run[i].phase \notin {"idle", "init", "commit"}
       /\ t.phase \notin {"idle", "init", "classify", "commit"}
  BY <1>1, <1>5
<1> QED
  BY <1>1, <1>3, <1>5, <1>6, <1>9, <1>10, GoesOn

LEMMA AdvancePointerStep ==
  ASSUME IInv, NEW i \in Insts, AdvancePointer(i)
  PROVE  Step(i)
<1>1. /\ run[i] \in Executions /\ inst[i] \in Instance /\ Tip \in Nat /\ pointer \in Nat
      /\ remote \in Nat /\ remote <= pointer /\ pointer <= Tip
      /\ run[i].phase = "cas" /\ run[i].rev \in Nat /\ run[i].rev <= Tip
      /\ inst[i].config <= run[i].rev
      /\ UNCHANGED <<branch, remote, done, recorded>>
      /\ owner' \in Nat /\ calls' \in Nat /\ faults' \in Nat
  BY Facts, RunTypes, Counting DEF AdvancePointer, At, Behind
<1>2. CASE pointer = inst[i].config
  <2> DEFINE v == run[i].rev
             f == [inst[i] EXCEPT !.config = v, !.confirmed = v]
             t == Confirmed(run[i], i)
  <2>1. inst' = [inst EXCEPT ![i] = f] /\ run' = [run EXCEPT ![i] = t] /\ pointer' = v
    BY <1>2 DEF AdvancePointer
  <2>2. /\ f \in Instance
        /\ f.up = inst[i].up /\ f.initialized = inst[i].initialized /\ f.critical = inst[i].critical
        /\ f.config = v /\ f.confirmed = v
        /\ f.synchronized = inst[i].synchronized /\ f.pendingSince = inst[i].pendingSince
        /\ f.error = inst[i].error /\ f.scheduled = inst[i].scheduled
        /\ f.timers = inst[i].timers /\ f.flushQueued = inst[i].flushQueued
    BY <1>1 DEF Instance
  <2>3. /\ t \in Executions
        /\ t.op = run[i].op /\ t.write = run[i].write /\ t.rev = v
        /\ t.stage = run[i].stage \/ run[i].stage = "commit"
        /\ t.phase \in {"push", "readHead", "enlist"}
        /\ t.phase = "enlist" => t.stage = "commit" /\ t.op # "critical"
    BY <1>1, ConfirmedFields
  <2>4. v \in Nat /\ v <= Tip /\ pointer <= v /\ remote <= v /\ v <= v /\ ~At(i, "classify")
    BY <1>1, <1>2 DEF At
  <2> HIDE DEF f, t, v
  <2>5. /\ pointer' \in Nat /\ pointer <= pointer' /\ pointer' <= Tip
        /\ remote' \in Nat /\ remote <= remote' /\ remote' <= pointer
        /\ f.config <= pointer' /\ f.confirmed <= pointer'
        /\ t.rev <= Tip
        /\ t.phase \in {"push", "verify"} => t.rev <= pointer'
    BY <1>1, <2>1, <2>2, <2>3, <2>4
  <2>6. /\ run[i].phase \notin {"idle", "init", "commit"}
        /\ t.phase \notin {"idle", "init", "classify", "commit", "cas"}
    BY <1>1, <2>3
  <2> QED
    BY <1>1, <2>1, <2>2, <2>3, <2>4, <2>5, <2>6, GoesOn
<1>3. CASE pointer # inst[i].config
  <2>1. Reject(i) /\ pointer' = pointer
    BY <1>3 DEF AdvancePointer
  <2> QED
    BY <1>1, <2>1, Rejects DEF At
<1> QED
  BY <1>2, <1>3

LEMMA AdvanceUnansweredStep ==
  ASSUME IInv, NEW i \in Insts, AdvanceUnanswered(i)
  PROVE  Step(i)
<1>1. /\ ~At(i, "idle") /\ Reject(i) /\ UNCHANGED <<branch, remote, done, recorded>>
      /\ pointer' = run[i].rev /\ pointer = inst[i].config
      /\ inst[i].config <= run[i].rev /\ run[i].rev <= Tip
      /\ run[i] \in Executions /\ pointer \in Nat
      /\ owner' \in Nat /\ calls' \in Nat /\ faults' \in Nat
  BY Facts, Counting DEF AdvanceUnanswered, At, Behind
<1> QED
  BY <1>1, RunTypes, Rejects

LEMMA FailStep ==
  ASSUME IInv, NEW i \in Insts, Fail(i)
  PROVE  Step(i)
BY Facts, Counting, Rejects DEF Fail

LEMMA PushStep ==
  ASSUME IInv, NEW i \in Insts, Push(i)
  PROVE  Step(i)
<1>1. /\ run[i] \in Executions /\ inst[i] \in Instance /\ Tip \in Nat /\ pointer \in Nat
      /\ remote \in Nat /\ remote <= pointer /\ pointer <= Tip
      /\ run[i].phase = "push" /\ run[i].rev \in Nat /\ run[i].rev <= pointer /\ run[i].rev <= Tip
      /\ inst[i].config <= pointer /\ inst[i].confirmed <= pointer
      /\ UNCHANGED <<branch, pointer, done, recorded>>
      /\ owner' \in Nat /\ calls' \in Nat /\ faults' \in Nat
  BY Facts, RunTypes, Counting DEF Push, At, Behind
<1>2. CASE run[i].rev >= remote
  <2> DEFINE t == [run[i] EXCEPT !.phase = "verify"]
  <2>1. /\ inst' = [inst EXCEPT ![i] = inst[i]] /\ run' = [run EXCEPT ![i] = t]
        /\ remote' = run[i].rev
    BY <1>2 DEF Push, Goto, IInv, Types
  <2>2. /\ t \in Executions
        /\ t.op = run[i].op /\ t.write = run[i].write /\ t.rev = run[i].rev
        /\ t.stage = run[i].stage /\ t.phase = "verify"
    BY <1>1 DEF Executions, Phases
  <2>3. ~At(i, "classify")
    BY <1>1 DEF At
  <2> HIDE DEF t
  <2>4. /\ pointer' \in Nat /\ pointer <= pointer' /\ pointer' <= Tip
        /\ remote' \in Nat /\ remote <= remote' /\ remote' <= pointer
        /\ inst[i].config <= pointer' /\ inst[i].confirmed <= pointer'
        /\ t.rev <= Tip /\ t.rev <= pointer'
    BY <1>1, <1>2, <2>1, <2>2
  <2>5. /\ run[i].phase \notin {"idle", "init", "commit"}
        /\ t.phase \notin {"idle", "init", "classify", "commit", "cas", "enlist"}
    BY <1>1, <2>2
  <2> QED
    BY <1>1, <2>1, <2>2, <2>3, <2>4, <2>5, GoesOn
<1>3. CASE ~(run[i].rev >= remote)
  <2>1. Reject(i) /\ remote' = remote
    BY <1>3 DEF Push
  <2> QED
    BY <1>1, <2>1, Rejects DEF At
<1> QED
  BY <1>2, <1>3

LEMMA VerifyStep ==
  ASSUME IInv, NEW i \in Insts, Verify(i)
  PROVE  Step(i)
<1> DEFINE f == Pushed(i)
<1>w. PICK w : w = run[i].write
  OBVIOUS
<1>1. /\ run[i] \in Executions /\ inst[i] \in Instance /\ Tip \in Nat /\ pointer \in Nat
      /\ remote \in Nat /\ remote <= pointer /\ pointer <= Tip
      /\ run[i].phase = "verify" /\ run[i].rev \in Nat /\ run[i].rev <= Tip
      /\ inst[i].up
      /\ UNCHANGED <<branch, pointer, remote, recorded>>
      /\ owner' \in Nat /\ calls' \in Nat /\ faults' \in Nat /\ done \subseteq Writes
      /\ Shared
  BY Facts, RunTypes, Counting DEF Verify, At, Behind, Underway, IInv, Types
<1>2. CASE ~(Tip = run[i].rev /\ remote = run[i].rev)
  <2>1. Reject(i) /\ UNCHANGED done
    BY <1>2 DEF Verify
  <2> QED
    BY <1>1, <2>1, Rejects DEF At
<1>3. CASE Tip = run[i].rev /\ remote = run[i].rev
  <2>1. /\ f \in Instance
        /\ f.up = inst[i].up /\ f.initialized = inst[i].initialized
        /\ f.config = inst[i].config /\ f.confirmed = inst[i].confirmed
        /\ f.synchronized = run[i].rev
        /\ f.timers = inst[i].timers /\ f.flushQueued = inst[i].flushQueued
        /\ f.scheduled => inst[i].scheduled
        /\ f.pendingSince # 0 => f.pendingSince = inst[i].pendingSince /\ f.error = inst[i].error
                                 /\ run[i].stage # "initNormal"
                                 /\ ~(run[i].op = "flush" /\ run[i].stage = "push")
    <3> DEFINE g == [inst[i] EXCEPT !.synchronized = run[i].rev, !.critical = TRUE]
    <3>1. /\ g \in Instance
          /\ g.up = inst[i].up /\ g.initialized = inst[i].initialized
          /\ g.config = inst[i].config /\ g.confirmed = inst[i].confirmed
          /\ g.synchronized = run[i].rev
          /\ g.timers = inst[i].timers /\ g.flushQueued = inst[i].flushQueued
          /\ g.scheduled = inst[i].scheduled
          /\ g.pendingSince = inst[i].pendingSince /\ g.error = inst[i].error
      BY <1>1 DEF Instance
    <3>2. CASE run[i].stage \in {"initCritical", "initNormal"}
      <4>1. f = [g EXCEPT !.pendingSince = 0]
        BY <3>2 DEF Pushed
      <4> HIDE DEF f, g
      <4> QED
        BY <3>1, <4>1 DEF Instance
    <3>3. CASE run[i].stage = "push" /\ run[i].op \in {"critical", "normal"}
      <4>1. f = [g EXCEPT !.pendingSince = 0, !.error = "none"]
        BY <3>3 DEF Pushed
      <4> HIDE DEF f, g
      <4> QED
        BY <3>1, <4>1 DEF Instance
    <3>4. CASE run[i].stage = "push" /\ run[i].op = "flush"
      <4>1. f = [g EXCEPT !.pendingSince = 0, !.error = "none", !.scheduled = FALSE]
        BY <3>4 DEF Pushed
      <4> HIDE DEF f, g
      <4> QED
        BY <3>1, <4>1 DEF Instance
    <3>5. CASE /\ run[i].stage \notin {"initCritical", "initNormal"}
               /\ ~(run[i].stage = "push" /\ run[i].op \in {"critical", "normal", "flush"})
      <4>1. f = g
        BY <3>5 DEF Pushed
      <4> HIDE DEF f, g
      <4> QED
        BY <3>1, <3>5, <4>1
    <3> QED
      BY <3>2, <3>3, <3>4, <3>5
  <2> HIDE DEF f
  <2>2. \A k \in (remote + 1)..Tip : FALSE
    BY <1>1, <1>3
  <2>3. /\ f.scheduled => f.timers > 0
        /\ f.pendingSince # 0 => f.timers > 0 \/ f.flushQueued \/ f.error # "none"
    BY <1>1, <2>1, Facts DEF Clocked
  <2>4. \A v \in recorded[i] : Contains(remote, v)
    BY <1>3, Facts DEF Carried
  <2>5. CASE run[i].stage = "push"
    <3>1. inst' = [inst EXCEPT ![i] = f] /\ run' = [run EXCEPT ![i] = Idle]
      BY <1>3, <2>5 DEF Verify, f
    <3>2. done' = done \union ({w} \ {NoWrite})
      BY <1>3, <2>5, <1>w DEF Verify
    <3>3. w # NoWrite => Contains(Tip, w) /\ w \in Writes
      BY <1>1, <1>w, <2>5, Facts, RunTypes DEF Carried
    <3>4. done' \subseteq Writes /\ \A v \in done' : Contains(remote, v)
      BY <1>1, <1>3, <3>2, <3>3 DEF Shared
    <3>5. Tip' = Tip /\ branch \in Seq(Commits) /\ Idle \in Executions
      BY <1>1, Facts, IdleType DEF Tip
    <3>6. Types' /\ Others(i) /\ inst'[i] = f /\ run'[i] = Idle
      BY <1>1, <2>1, <3>1, <3>4, <3>5, Moved
    <3>7. Grows(i)
      BY <1>1, <3>5 DEF Grows
    <3>8. Shared'
      BY <1>1, <3>4, <3>5 DEF Shared, Contains
    <3>9. Idle.phase = "idle" /\ Idle.rev = 0 /\ Idle.stage = "commit"
      BY DEF Idle
    <3>10. Behind(i)'
      BY <1>1, <1>3, <2>1, <3>5, <3>6, <3>9, Facts DEF Behind, At
    <3>11. Underway(i)'
      BY <1>1, <2>1, <3>6, <3>9, Facts DEF Underway, At
    <3>12. Carried(i)'
      BY <1>1, <3>5, <3>6, <3>9, Facts DEF Carried, At, Contains
    <3>13. Flagged(i)'
      BY <1>1, <2>2, <3>5, <3>6 DEF Flagged
    <3>14. Clocked(i)'
      <4>1. inst[i].initialized
        BY <1>1, <2>5, Facts DEF Underway
      <4> QED
        BY <1>1, <2>1, <2>3, <2>4, <3>6, <3>9, <4>1 DEF Clocked, At, Contains
    <3> QED
      BY <3>6, <3>7, <3>8, <3>10, <3>11, <3>12, <3>13, <3>14 DEF Step, Local
  <2>6. CASE run[i].stage # "push"
    <3> DEFINE e == [f EXCEPT !.initialized = TRUE]
    <3>1. /\ e \in Instance /\ e.up = f.up /\ e.initialized /\ e.config = f.config
          /\ e.confirmed = f.confirmed /\ e.synchronized = f.synchronized
          /\ e.pendingSince = f.pendingSince /\ e.timers = f.timers /\ e.error = f.error
          /\ e.flushQueued = f.flushQueued /\ e.scheduled = f.scheduled
      BY <2>1 DEF Instance
    <3>2. inst' = [inst EXCEPT ![i] = e] /\ run' = [run EXCEPT ![i] = Enter(run[i], e)]
      <4>1. Initialized(i, f) /\ UNCHANGED done
        BY <1>3, <2>6 DEF Verify, f
      <4>2. Enter(run[i], f) = Enter(run[i], e)
        BY <3>1 DEF Enter
      <4> QED
        BY <4>1, <4>2 DEF Initialized
    <3> HIDE DEF e
    <3>3. UNCHANGED done
      BY <1>3, <2>6 DEF Verify
    <3>4. Shared' /\ done' \subseteq Writes
      BY <1>1, <3>3, Quiet
    <3>5. /\ run[i].op \in {"critical", "normal"} => run[i].write \in Writes /\ Kind[run[i].write] = run[i].op
          /\ run[i].op \in {"flush", "diagnostics"} => run[i].write = NoWrite
          /\ run[i].op = "confirm" => Contains(Tip, run[i].write)
      BY <1>1, Facts DEF Carried, At
    <3>6. /\ e.up /\ e.config = inst[i].config /\ e.confirmed = inst[i].confirmed
          /\ e.synchronized <= remote
          /\ e.critical => \A k \in (remote + 1)..Tip : ~(branch[k].author = i /\ KindOf(k) = "critical")
          /\ e.scheduled => e.timers > 0
          /\ (\E v \in recorded[i] : ~Contains(remote, v)) => e.pendingSince # 0
          /\ e.pendingSince # 0 => e.timers > 0 \/ e.flushQueued \/ e.error # "none"
      BY <1>1, <1>3, <2>1, <2>2, <2>3, <2>4, <3>1
    <3> QED
      BY <1>1, <3>1, <3>2, <3>4, <3>5, <3>6, Enters
  <2> QED
    BY <2>5, <2>6
<1> QED
  BY <1>2, <1>3

LEMMA EnlistStep ==
  ASSUME IInv, NEW i \in Insts, Enlist(i)
  PROVE  Step(i)
<1>w. PICK w : w = run[i].write
  OBVIOUS
<1> DEFINE p == IF inst[i].pendingSince = 0 THEN Tip ELSE inst[i].pendingSince
           g == [inst[i] EXCEPT !.pendingSince = p]
           f == IF Tip = inst[i].synchronized THEN inst[i] ELSE Scheduled(g)
           s == recorded[i] \union {w}
<1>1. /\ run[i] \in Executions /\ inst[i] \in Instance /\ Tip \in Nat /\ pointer \in Nat
      /\ remote \in Nat /\ remote <= pointer /\ pointer <= Tip /\ remote <= Tip
      /\ run[i].phase = "enlist" /\ run[i].stage = "commit" /\ inst[i].up /\ inst[i].initialized
      /\ run[i].op \in {"critical", "normal"} /\ w \in Writes
      /\ inst[i].synchronized \in Nat /\ inst[i].synchronized <= remote
      /\ UNCHANGED <<branch, pointer, remote, done>>
      /\ owner' \in Nat /\ calls' \in Nat /\ faults' \in Nat
      /\ recorded[i] \in SUBSET Writes
  BY <1>w, Facts, FieldTypes, Counting DEF Enlist, At, Behind, Underway, Carried, IInv, Types
<1>2. Contains(Tip, w)
  <2>1. w # NoWrite
    BY <1>1, DurabilityAssumption DEF DurabilityAssumption
  <2> QED
    BY <1>1, <1>w, <2>1, Facts DEF Carried
<1>3. /\ inst' = [inst EXCEPT ![i] = f] /\ run' = [run EXCEPT ![i] = Idle]
      /\ recorded' = [recorded EXCEPT ![i] = s]
  <2>1. inst' = [inst EXCEPT ![i] = f]
    <3>1. CASE Tip = inst[i].synchronized
      BY <3>1 DEF Enlist, IInv, Types
    <3>2. CASE Tip # inst[i].synchronized
      BY <3>2 DEF Enlist
    <3> QED
      BY <3>1, <3>2
  <2>2. run' = [run EXCEPT ![i] = Idle]
    BY DEF Enlist
  <2>3. recorded' = [recorded EXCEPT ![i] = s]
    BY <1>w DEF Enlist
  <2> QED
    BY <2>1, <2>2, <2>3
<1>4. p \in Nat /\ (Tip # inst[i].synchronized => p # 0)
  BY <1>1, FieldTypes
<1> HIDE DEF p
<1>5. /\ g \in Instance
      /\ g.up = inst[i].up /\ g.initialized = inst[i].initialized /\ g.critical = inst[i].critical
      /\ g.config = inst[i].config /\ g.confirmed = inst[i].confirmed
      /\ g.synchronized = inst[i].synchronized /\ g.pendingSince = p
      /\ g.error = inst[i].error /\ g.scheduled = inst[i].scheduled
      /\ g.timers = inst[i].timers /\ g.flushQueued = inst[i].flushQueued
  BY <1>1, <1>4 DEF Instance
<1> HIDE DEF g
<1>6. inst[i].scheduled => inst[i].timers > 0
  BY Facts DEF Clocked
<1>7. /\ f \in Instance
      /\ f.up = inst[i].up /\ f.initialized = inst[i].initialized /\ f.critical = inst[i].critical
      /\ f.config = inst[i].config /\ f.confirmed = inst[i].confirmed
      /\ f.synchronized = inst[i].synchronized
      /\ f.scheduled => f.timers > 0
      /\ Tip # inst[i].synchronized => f.pendingSince # 0 /\ f.timers > 0
      /\ Tip = inst[i].synchronized =>
           f.pendingSince = inst[i].pendingSince /\ f.timers = inst[i].timers
           /\ f.flushQueued = inst[i].flushQueued /\ f.error = inst[i].error
  <2>1. CASE Tip = inst[i].synchronized
    BY <1>1, <1>6, <2>1
  <2>2. CASE Tip # inst[i].synchronized
    <3>1. g.scheduled => g.timers > 0
      BY <1>5, <1>6
    <3> DEFINE h == Scheduled(g)
    <3>2. /\ h \in Instance
          /\ h.up = g.up /\ h.initialized = g.initialized
          /\ h.config = g.config /\ h.confirmed = g.confirmed
          /\ h.synchronized = g.synchronized /\ h.critical = g.critical
          /\ h.pendingSince = g.pendingSince /\ h.timers > 0
      BY <1>5, <3>1, ScheduledFields
    <3>3. f = h
      BY <2>2
    <3> HIDE DEF f, h
    <3> QED
      BY <1>4, <1>5, <2>2, <3>2, <3>3
  <2> QED
    BY <2>1, <2>2
<1> HIDE DEF f
<1>8. s \in SUBSET Writes
  BY <1>1
<1>9. /\ Types' /\ Others(i) /\ inst'[i] = f /\ run'[i] = Idle /\ recorded'[i] = s
      /\ Grows(i) /\ Shared' /\ Tip' = Tip
  BY <1>1, <1>3, <1>7, <1>8, Recording, IdleType
<1>10. Idle.phase = "idle" /\ Idle.rev = 0 /\ Idle.stage = "commit"
  BY DEF Idle
<1>11. Behind(i)'
  BY <1>1, <1>7, <1>9, <1>10, Facts DEF Behind, At
<1>12. Underway(i)'
  BY <1>1, <1>7, <1>9, <1>10 DEF Underway, At
<1>13. Carried(i)'
  BY <1>1, <1>2, <1>9, <1>10, Facts DEF Carried, At, Contains
<1>14. Flagged(i)'
  BY <1>1, <1>7, <1>9, Facts DEF Flagged, KindOf
<1>15. Clocked(i)'
  <2>1. Tip = inst[i].synchronized => \A v \in s : Contains(remote, v)
    <3>1. Tip = inst[i].synchronized => Tip = remote
      BY <1>1
    <3> QED
      BY <1>2, <3>1, Facts DEF Carried
  <2> HIDE DEF s
  <2>2. Tip = inst[i].synchronized /\ inst[i].pendingSince # 0 =>
          inst[i].timers > 0 \/ inst[i].flushQueued \/ inst[i].error # "none"
    BY <1>1, Facts DEF Clocked
  <2>3. \A v \in s : Contains(remote, v) => Contains(remote, v)'
    BY <1>1 DEF Contains
  <2> QED
    BY <1>1, <1>7, <1>9, <1>10, <2>1, <2>2, <2>3 DEF Clocked, At
<1> QED
  BY <1>9, <1>11, <1>12, <1>13, <1>14, <1>15 DEF Step, Local

LEMMA CrashStep ==
  ASSUME IInv, NEW i \in Insts, Crash(i)
  PROVE  Step(i)
<1> DEFINE f == Fresh(FALSE, 0)
<1>1. /\ f \in Instance /\ f.config = 0 /\ f.confirmed = 0 /\ f.synchronized = 0
      /\ ~f.up /\ ~f.initialized /\ ~f.critical /\ f.pendingSince = 0 /\ ~f.scheduled
      /\ f.timers = 0 /\ ~f.flushQueued
  BY DEF Fresh, Instance
<1>2. /\ inst' = [inst EXCEPT ![i] = f] /\ run' = [run EXCEPT ![i] = Idle]
      /\ recorded' = [recorded EXCEPT ![i] = {}]
      /\ UNCHANGED <<branch, pointer, remote, done>>
      /\ owner' \in Nat /\ calls' \in Nat /\ faults' \in Nat
  BY Counting DEF Crash
<1> HIDE DEF f
<1>3. /\ Types' /\ Others(i) /\ inst'[i] = f /\ run'[i] = Idle /\ recorded'[i] = {}
      /\ Grows(i) /\ Shared' /\ Tip' = Tip
  BY <1>1, <1>2, Recording, IdleType
<1>4. Idle.phase = "idle" /\ Idle.rev = 0 /\ Idle.stage = "commit"
  BY DEF Idle
<1>5. Behind(i)' /\ Underway(i)'
  BY <1>1, <1>2, <1>3, <1>4, Facts DEF Behind, Underway, At
<1>6. Carried(i)' /\ Flagged(i)' /\ Clocked(i)'
  BY <1>1, <1>3, <1>4 DEF Carried, Flagged, Clocked, At
<1> QED
  BY <1>3, <1>5, <1>6 DEF Step, Local

-----------------------------------------------------------------------------
(* The owner and the operator *)

\* Steps that move no instance leave each one's part of the invariant alone.
LEMMA NobodyMoves ==
  ASSUME IInv, UNCHANGED <<inst, run, recorded>>, Types', Shared', Grows(Owner)
  PROVE  IInv'
<1>1. ASSUME NEW j \in Insts
      PROVE  Local(j)'
  <2>1. Owner # j
    BY DurabilityAssumption DEF DurabilityAssumption
  <2> QED
    BY <2>1, Unaffected
<1> QED
  BY <1>1 DEF IInv

LEMMA OwnerCommitKeeps ==
  ASSUME IInv, OwnerCommit
  PROVE  IInv'
<1> DEFINE c == [author |-> Owner, write |-> NoWrite]
<1>1. /\ branch \in Seq(Commits) /\ Tip \in Nat /\ pointer \in Nat /\ remote \in Nat
      /\ remote <= pointer /\ pointer <= Tip /\ remote <= Tip
  BY BranchFacts DEF IInv, Types, Shared, Tip
<1>2. c \in Commits
  BY DEF Commits
<1>3. branch' = Append(branch, c) /\ Tip' = Tip + 1
  BY <1>1, <1>2 DEF OwnerCommit, Tip
<1>4. branch' \in Seq(Commits) /\ branch'[Tip + 1] = c /\ \A k \in 1..Tip : branch'[k] = branch[k]
  BY <1>1, <1>2, <1>3 DEF Tip
<1>5. Types'
  BY <1>4 DEF OwnerCommit, IInv, Types
<1>6. Grows(Owner)
  <2>1. \A k \in (Tip + 1)..Tip' : k = Tip + 1
    BY <1>1, <1>3
  <2>2. Tip <= Tip'
    BY <1>1, <1>3
  <2>3. pointer <= pointer' /\ remote <= remote'
    BY <1>1 DEF OwnerCommit
  <2>4. \A k \in (Tip + 1)..Tip' : branch'[k].author = Owner
    BY <1>4, <2>1
  <2> QED
    BY <1>4, <2>2, <2>3, <2>4 DEF Grows
<1>7. Shared'
  <2>1. ASSUME NEW w, Contains(remote, w)
        PROVE  Contains(remote, w)'
    <3>1. PICK k \in 1..remote : branch[k].write = w
      BY <2>1 DEF Contains
    <3>2. k \in 1..Tip
      BY <1>1
    <3> QED
      BY <1>4, <3>1, <3>2 DEF Contains, OwnerCommit
  <2> QED
    BY <1>1, <1>3, <2>1 DEF Shared, OwnerCommit, IInv
<1> QED
  BY <1>5, <1>6, <1>7, NobodyMoves DEF OwnerCommit

LEMMA ReconcileKeeps ==
  ASSUME IInv, Reconcile
  PROVE  IInv'
<1>1. /\ branch \in Seq(Commits) /\ Tip \in Nat /\ pointer \in Nat /\ remote \in Nat
      /\ remote <= pointer /\ pointer <= Tip /\ remote <= Tip
  BY BranchFacts DEF IInv, Types, Shared, Tip
<1>2. Tip' = Tip /\ pointer' = Tip
  BY DEF Reconcile, Tip
<1>3. Types'
  BY <1>1, <1>2, Counting DEF Reconcile, IInv, Types
<1>4. Grows(Owner)
  BY <1>1, <1>2 DEF Grows, Reconcile
<1>5. Shared'
  BY <1>1, <1>2 DEF Shared, Reconcile, IInv, Contains
<1> QED
  BY <1>3, <1>4, <1>5, NobodyMoves DEF Reconcile

-----------------------------------------------------------------------------
(* The specification *)

LEMMA Initially == Init => IInv
<1> SUFFICES ASSUME Init
             PROVE  IInv
  OBVIOUS
<1>1. /\ branch \in Seq(Commits) /\ Tip = 1
  BY DEF Init, Commits, Tip
<1>2. /\ Fresh(FALSE, 0) \in Instance /\ Idle \in Executions
  BY IdleType DEF Fresh, Instance
<1>3. owner \in Nat /\ calls \in Nat /\ faults \in Nat
  BY DurabilityAssumption DEF Init, DurabilityAssumption
<1>4. Types
  BY <1>1, <1>2, <1>3 DEF Init, Types
<1>5. Shared
  BY <1>1 DEF Init, Shared
<1>6. ASSUME NEW i \in Insts
      PROVE  Local(i)
  <2>1. inst[i] = Fresh(FALSE, 0) /\ run[i] = Idle /\ recorded[i] = {}
    BY DEF Init
  <2>2. Behind(i) /\ Underway(i)
    BY <1>1, <2>1 DEF Init, Behind, Underway, At, Fresh, Idle
  <2>3. Carried(i) /\ Flagged(i) /\ Clocked(i)
    BY <2>1 DEF Carried, Flagged, Clocked, At, Fresh, Idle
  <2> QED
    BY <2>2, <2>3 DEF Local
<1> QED
  BY <1>4, <1>5, <1>6 DEF IInv

LEMMA Inductive == IInv /\ [Next]_vars => IInv'
<1> SUFFICES ASSUME IInv, [Next]_vars
             PROVE  IInv'
  OBVIOUS
<1>1. CASE UNCHANGED vars
  <2>1. UNCHANGED <<branch, pointer, remote, inst, run, done, recorded, owner, calls, faults>>
    BY <1>1 DEF vars, bounds
  <2> QED
    BY <2>1 DEF IInv, Types, Shared, Local, Behind, Underway, Carried, Flagged, KindOf, Clocked, At, Contains, Tip
<1>2. ASSUME NEW i \in Insts, Register(i)
      PROVE  IInv'
  BY <1>2, RegisterStep, StepPreserves
<1>3. ASSUME NEW i \in Insts, NEW op \in OpNames, NEW w \in Writes \union {NoWrite}, Start(i, op, w)
      PROVE  IInv'
  BY <1>3, StartStep, StepPreserves
<1>4. ASSUME NEW i \in Insts, TimerFires(i)
      PROVE  IInv'
  BY <1>4, TimerFiresStep, StepPreserves
<1>5. ASSUME NEW i \in Insts, Progress(i)
      PROVE  IInv'
  <2>1. CASE ReadRevisions(i)
    BY <2>1, ReadRevisionsStep, StepPreserves
  <2>2. CASE Classify(i)
    BY <2>2, ClassifyStep, StepPreserves
  <2>3. CASE Commit(i)
    BY <2>3, CommitStep, StepPreserves
  <2>4. CASE ReadHead(i)
    BY <2>4, ReadHeadStep, StepPreserves
  <2>5. CASE AdvancePointer(i)
    BY <2>5, AdvancePointerStep, StepPreserves
  <2>6. CASE Push(i)
    BY <2>6, PushStep, StepPreserves
  <2>7. CASE Verify(i)
    BY <2>7, VerifyStep, StepPreserves
  <2>8. CASE Enlist(i)
    BY <2>8, EnlistStep, StepPreserves
  <2>9. CASE StartQueuedFlush(i)
    BY <2>9, StartQueuedFlushStep, StepPreserves
  <2> QED
    BY <1>5, <2>1, <2>2, <2>3, <2>4, <2>5, <2>6, <2>7, <2>8, <2>9 DEF Progress
<1>6. ASSUME NEW i \in Insts, AdvanceUnanswered(i) \/ Fail(i) \/ Crash(i)
      PROVE  IInv'
  BY <1>6, AdvanceUnansweredStep, FailStep, CrashStep, StepPreserves
<1> QED
  BY <1>1, <1>2, <1>3, <1>4, <1>5, <1>6, OwnerCommitKeeps, ReconcileKeeps DEF Next

THEOREM Invariance == Spec => []IInv
  BY Initially, Inductive, PTL DEF Spec

\* Type correctness of everything the instances and their checkout keep.
THEOREM GitTypes == Spec => []TypeOK
<1>1. IInv => TypeOK
  <2> SUFFICES ASSUME IInv
               PROVE  TypeOK
    OBVIOUS
  <2>1. /\ Tip \in Nat /\ branch \in Seq(Commits) /\ pointer \in 0..Tip /\ remote \in 0..Tip
    <3>1. branch \in Seq(Commits) /\ pointer \in Nat /\ remote \in Nat /\ remote <= pointer /\ pointer <= Tip
      BY DEF IInv, Types, Shared
    <3>2. Tip \in Nat
      BY <3>1, BranchFacts DEF Tip
    <3> QED
      BY <3>1, <3>2
  <2> DEFINE Bounded == [op : OpNames, write : Writes \union {NoWrite}, phase : Phases,
                         stage : Stages, rev : Revisions]
  <2>2. ASSUME NEW i \in Insts
        PROVE  run[i] \in Bounded
    <3>1. run[i] \in Executions /\ run[i].rev <= Tip
      BY Facts DEF Behind
    <3>2. run[i].rev \in Revisions
      BY <2>1, <3>1, RunTypes DEF Revisions
    <3> QED
      BY <3>1, <3>2 DEF Executions
  <2>3. run \in [Insts -> Bounded]
    BY <2>2 DEF IInv, Types
  <2> QED
    BY <2>1, <2>3 DEF TypeOK, IInv, Types, Commits, Revisions
<1> QED
  BY <1>1, Invariance, PTL

\* The order of commit, pointer and push (MEMORY-LIFECYCLE), whatever crashed or failed.
THEOREM PointerFirst == Spec => []PointerBeforePush
<1>1. IInv => PointerBeforePush
  BY DEF IInv, Shared, PointerBeforePush
<1> QED
  BY <1>1, Invariance, PTL

\* Synchronization that a call reported is on the remote.
THEOREM Reported == Spec => []ReportedIsRemote
<1>1. IInv => ReportedIsRemote
  BY DEF IInv, Shared, ReportedIsRemote
<1> QED
  BY <1>1, Invariance, PTL

\* criticalSynchronized and synchronizedRevision never overclaim.
THEOREM Diagnostics == Spec => []DiagnosticsAreTruthful
<1>1. IInv => DiagnosticsAreTruthful
  BY DEF IInv, Local, Behind, Flagged, DiagnosticsAreTruthful
<1> QED
  BY <1>1, Invariance, PTL

\* An accepted normal write runs on the RPO clock until it is on the remote.
THEOREM OnTheClock == Spec => []RecordedIsClocked
<1>1. IInv => RecordedIsClocked
  BY DEF IInv, Local, Clocked, RecordedIsClocked
<1> QED
  BY <1>1, Invariance, PTL
=============================================================================
