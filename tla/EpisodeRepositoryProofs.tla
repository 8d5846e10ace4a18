----------------------- MODULE EpisodeRepositoryProofs -----------------------
(***************************************************************************)
(* EpisodeRepository for every set of calls, versions and requests: one    *)
(* inductive invariant, from which the type, the readability of the        *)
(* episode, what an answer guarantees and what a read returns follow, and  *)
(* from which every step implements a step of VersionedRecord.             *)
(***************************************************************************)
EXTENDS EpisodeRepository, TLAPS

Taken == ToSet(log)

Locked == \A p \in Procs : job[p].pc # "idle" => lock = p

\* Who executes what, and under which fence.
Role ==
  \A p \in Procs :
    /\ job[p].pc \in ApplyPhases => job[p].req \in Applies /\ fence = None
    /\ job[p].pc \in FencedPhases \union {"inspect"} => job[p].req \in Outcomes
    /\ job[p].pc \in FencedPhases => fence = job[p].req

\* The operation files name the requests that took effect, and the fenced one.
Journals ==
  /\ \A o \in Ops : intents[o] # None => intents[o].op = o
  /\ \A q \in Taken : intents[q.op] = q
  /\ \A o \in journal : intents[o] \in Taken \/ (intents[o] = fence /\ fence # None)
  /\ \A q \in Taken : q \in Outcomes => q.op \in journal
  /\ saved.journal \subseteq journal

\* What took effect did so once, each on the version before it, and shares its prediction.
Order ==
  /\ Len(log) = 0 => Visible = None
  /\ Len(log) > 0 => log[Len(log)].next = Visible
  /\ \A i \in DOMAIN log : log[i].expected = IF i = 1 THEN None ELSE log[i - 1].next
  /\ \A i, j \in DOMAIN log : log[i] = log[j] => i = j
  /\ \A q \in Taken : Prediction[q.next] = Prediction[Visible] /\ q.expected # q.next

\* Until the opening takes effect, a prediction on disk is that of its recorded intent.
Opening ==
  current = None /\ sealed # None =>
    \E q \in Applies : q.expected = None /\ intents[q.op] = q /\ sealed = Prediction[q.next]

\* The files while an outcome is fenced.
Fenced ==
  fence # None =>
    /\ Legal(fence) /\ fence.expected # fence.next
    /\ current \in {fence.expected, fence.next}
    /\ fence.expected \in archive /\ sealed = Prediction[fence.expected]
    /\ current = fence.next => fence.next \in archive
    /\ fence.op \in journal => current = fence.next
    /\ \A q \in Taken : q.op # fence.op

\* What call p relies on in each phase of apply.
ApplyingBy(p) ==
  LET pc == job[p].pc  q == job[p].req IN
    /\ pc = "intend" => intents[q.op] \in {None, q}
    /\ pc \in ApplyPhases \ {"check", "intend"} => intents[q.op] = q
    /\ pc \in ApplyPhases \ {"check", "intend", "archive"} => q.next \in archive
    /\ pc \in {"intend", "archive", "seal"} =>
         IF job[p].replay THEN q \in Taken ELSE current = q.expected /\ Legal(q)
    /\ pc = "replace" =>
         /\ current = q.expected /\ Legal(q)
         /\ Prediction[q.next] # None => sealed = Prediction[q.next]
    /\ pc \in {"mark", "persist", "answer"} => q \in Taken
    /\ pc \in {"persist", "answer"} => q.op \in journal
    /\ pc = "answer" => q.op \in saved.journal

Applying == \A p \in Procs : ApplyingBy(p)

\* And in each phase of an outcome.
ClosingBy(p) ==
  LET pc == job[p].pc  q == job[p].req IN
    /\ pc \in FencedPhases => intents[q.op] \in {None, q}
    /\ pc \in FencedPhases \ {"file"} => q.next \in archive
    /\ pc \in {"record", "save", "lower"} => current = q.next
    /\ pc \in {"save", "lower"} => intents[q.op] = q /\ q.op \in journal
    /\ pc = "lower" => q.op \in saved.journal

Closing == \A p \in Procs : ClosingBy(p)

\* Version v took effect no earlier than request q.
Later(q, v) == \E i, j \in DOMAIN log : i =< j /\ log[i] = q /\ log[j].next = v

SavedFor(q) ==
  /\ q.next \in saved.archive
  /\ saved.current = current \/ Later(q, saved.current)
  /\ q \in Applies /\ Prediction[q.next] # None => saved.sealed = Prediction[q.next]

Savings ==
  /\ \A o \in saved.journal : SavedFor(intents[o])
  /\ \A q \in answered : q \in Taken /\ q.op \in saved.journal

WasVisible(v, since) == \E i \in DOMAIN log : since =< i /\ log[i].next = v

ReadingInv ==
  \A r \in Readers : LET read == reading[r] IN
    /\ read.since =< Len(log)
    /\ read.pc \in {"archive", "sealed", "verify"} =>
         \/ WasVisible(read.version, read.since)
         \/ fence # None /\ current = fence.next /\ read.version = fence.next
    /\ read.pc = "returned" => WasVisible(read.version, read.since)

IInv ==
  /\ TypeOK /\ Locked /\ Role /\ Journals /\ Order /\ Opening /\ EpisodeStaysReadable /\ Fenced
  /\ Applying /\ Closing /\ Savings /\ ReadingInv
-----------------------------------------------------------------------------
(* Steps and what they leave alone *)

\* Steps of a call that write to the repository.
WriteStep(p) ==
  \/ Intend(p) \/ Archive(p) \/ Seal(p) \/ Replace(p) \/ Mark(p) \/ Persist(p)
  \/ RaiseFence(p) \/ FileOutcome(p) \/ SwapOutcome(p) \/ RecordOutcome(p) \/ SaveOutcome(p)
  \/ LowerFence(p) \/ Withdraw(p)

\* All other steps of a call.
CallStep(p) ==
  \/ (\E q \in Applies : Apply(p, q)) \/ (\E q \in Outcomes : ApplyOutcome(p, q))
  \/ Check(p) \/ Answer(p) \/ Confirm(p) \/ Stop(p)

ReadStep(r) == BeginRead(r) \/ ReadCurrent(r) \/ ReadArchive(r) \/ ReadSealed(r) \/ EndRead(r)

LEMMA Steps ==
  Next => \/ \E p \in Procs : WriteStep(p) \/ CallStep(p)
          \/ \E r \in Readers : ReadStep(r)
BY DEF Next, WriteStep, CallStep, ReadStep

disk == <<fence, current, archive, sealed, intents, journal, saved, log>>

\* A call that is not writing leaves the disk alone, and every call's progress but its own.
LEMMA CallFrame ==
  ASSUME TypeOK, NEW p \in Procs, CallStep(p)
  PROVE  /\ UNCHANGED disk /\ UNCHANGED reading
         /\ \A other \in Procs \ {p} : job'[other] = job[other]
BY DEF CallStep, Apply, ApplyOutcome, Check, Answer, Confirm, Stop, Begin, Goto, Finish, disk,
       TypeOK

\* A read changes nothing but its own progress.
LEMMA ReadFrame ==
  ASSUME TypeOK, NEW r \in Readers, ReadStep(r)
  PROVE  /\ UNCHANGED disk /\ UNCHANGED <<lock, job, answered>>
         /\ \A other \in Readers \ {r} : reading'[other] = reading[other]
BY DEF ReadStep, BeginRead, ReadCurrent, ReadArchive, ReadSealed, EndRead, ReadOn, GiveUp,
       disk, TypeOK

\* Who writes is at work, and leaves every other call's progress alone.
LEMMA WriteFrame ==
  ASSUME TypeOK, NEW p \in Procs, WriteStep(p)
  PROVE  /\ job[p].pc # "idle" /\ UNCHANGED reading
         /\ \A other \in Procs \ {p} : job'[other] = job[other]
         /\ lock' = lock \/ (lock' = None /\ job'[p].pc = "idle")
BY DEF WriteStep, Intend, Archive, Seal, Replace, Mark, Persist, RaiseFence, FileOutcome,
       SwapOutcome, RecordOutcome, SaveOutcome, LowerFence, Withdraw, At, Goto, Finish, Idle, TypeOK

\* What took effect is a set that only grows by the request appended.
LEMMA Appended ==
  ASSUME log \in Seq(Requests), NEW q \in Requests, log' = Append(log, q)
  PROVE  /\ Taken' = Taken \union {q}
         /\ Len(log') = Len(log) + 1 /\ log'[Len(log')] = q
         /\ \A i \in DOMAIN log : i \in DOMAIN log' /\ log'[i] = log[i]
BY DEF Taken, ToSet

LEMMA TakenType == log \in Seq(Requests) => Taken \subseteq Requests
BY DEF Taken, ToSet

\* A request names an operation, a version or None, and a version.
LEMMA RequestType ==
  ASSUME NEW q \in Requests
  PROVE  q.op \in Ops /\ q.expected \in Versions \union {None} /\ q.next \in Versions /\ q # None
BY RequestsAssumption DEF Ops
-----------------------------------------------------------------------------
(* The invariant, conjunct by conjunct *)

LEMMA TypeStep == TypeOK /\ Role /\ Next => TypeOK'
<1> SUFFICES ASSUME TypeOK, Role, Next PROVE TypeOK'
  OBVIOUS
<1>1. ASSUME NEW p \in Procs, NEW q \in Requests, NEW pc \in Phases, Begin(p, q, pc)
      PROVE  job' \in [Procs -> [pc : Phases, req : Requests \union {None}, replay : BOOLEAN]]
  BY <1>1 DEF Begin, TypeOK
<1>2. ASSUME NEW p \in Procs, NEW pc \in Phases, Goto(p, pc)
      PROVE  job' \in [Procs -> [pc : Phases, req : Requests \union {None}, replay : BOOLEAN]]
  BY <1>2 DEF Goto, TypeOK
<1>3. ASSUME NEW p \in Procs, Finish(p)
      PROVE  job' \in [Procs -> [pc : Phases, req : Requests \union {None}, replay : BOOLEAN]]
  BY <1>3 DEF Finish, Idle, Phases, TypeOK
<1>4. /\ Applies \subseteq Requests /\ Outcomes \subseteq Requests
      /\ ApplyPhases \union FencedPhases \union {"inspect"} \subseteq Phases
  BY DEF Requests, Phases
<1>5. \A p \in Procs : At(p, "idle") \/ Req(p) \in Requests
  BY <1>4 DEF At, Req, Role, TypeOK, Phases
<1>6. ASSUME NEW p \in Procs, WriteStep(p) PROVE TypeOK'
  <2>1. Req(p) \in Requests
    BY <1>5, <1>6, WriteFrame DEF At
  <2>2. Req(p).op \in Ops /\ Req(p).next \in Versions
        /\ Prediction[Req(p).next] \in Predictions
    BY <2>1, RequestType DEF Predictions
  <2>3. CASE Intend(p)
    BY <2>1, <2>2, <2>3, <1>2, <1>4 DEF Intend, TypeOK, ApplyPhases
  <2>4. CASE Archive(p)
    BY <2>1, <2>2, <2>4, <1>2, <1>4 DEF Archive, TypeOK, ApplyPhases
  <2>5. CASE Seal(p)
    BY <2>1, <2>2, <2>5, <1>2, <1>4 DEF Seal, TypeOK, ApplyPhases
  <2>6. CASE Replace(p)
    BY <2>1, <2>2, <2>6, <1>2, <1>4 DEF Replace, TypeOK, ApplyPhases
  <2>7. CASE Mark(p)
    BY <2>1, <2>2, <2>7, <1>2, <1>4 DEF Mark, TypeOK, ApplyPhases
  <2>8. CASE Persist(p)
    BY <2>1, <2>2, <2>8, <1>2, <1>4 DEF Persist, TypeOK, ApplyPhases
  <2>9. CASE RaiseFence(p)
    <3>1. Req(p) \in Outcomes
      BY <2>9 DEF RaiseFence, Role, At, Req
    <3> QED BY <3>1, <2>9, <1>2, <1>4 DEF RaiseFence, TypeOK, FencedPhases
  <2>10. CASE FileOutcome(p)
    BY <2>1, <2>2, <2>10, <1>2, <1>4 DEF FileOutcome, TypeOK, FencedPhases
  <2>11. CASE SwapOutcome(p)
    BY <2>1, <2>2, <2>11, <1>2, <1>4 DEF SwapOutcome, TypeOK, FencedPhases
  <2>12. CASE RecordOutcome(p)
    BY <2>1, <2>2, <2>12, <1>2, <1>4 DEF RecordOutcome, TypeOK, FencedPhases
  <2>13. CASE SaveOutcome(p)
    BY <2>1, <2>2, <2>13, <1>2, <1>4 DEF SaveOutcome, TypeOK, FencedPhases
  <2>14. CASE LowerFence(p)
    BY <2>1, <2>2, <2>14, <1>3 DEF LowerFence, TypeOK
  <2>15. CASE Withdraw(p)
    BY <2>15, <1>3 DEF Withdraw, TypeOK
  <2> QED BY <1>6, <2>3, <2>4, <2>5, <2>6, <2>7, <2>8, <2>9, <2>10, <2>11, <2>12, <2>13,
             <2>14, <2>15 DEF WriteStep
<1>7. ASSUME NEW p \in Procs, CallStep(p) PROVE TypeOK'
  <2>1. UNCHANGED disk /\ UNCHANGED reading
    BY <1>7, CallFrame
  <2>2. CASE \E q \in Applies : Apply(p, q)
    BY <2>1, <2>2, <1>1, <1>4 DEF Apply, disk, TypeOK, ApplyPhases
  <2>3. CASE \E q \in Outcomes : ApplyOutcome(p, q)
    BY <2>1, <2>3, <1>1, <1>4 DEF ApplyOutcome, disk, TypeOK
  <2>4. CASE Check(p)
    <3>1. Req(p) \in Requests /\ "persist" \in Phases /\ "intend" \in Phases
      BY <2>4, <1>4, <1>5 DEF Check, At, ApplyPhases
    <3>2. job' \in [Procs -> [pc : Phases, req : Requests \union {None}, replay : BOOLEAN]]
      <4>1. CASE Req(p).op \in journal
        BY <2>4, <3>1, <1>2, <4>1 DEF Check
      <4>2. CASE Req(p).op \notin journal
        <5>1. PICK replay \in BOOLEAN :
                job' = [job EXCEPT ![p] = [pc |-> "intend", req |-> Req(p), replay |-> replay]]
          BY <2>4, <4>2 DEF Check
        <5> QED BY <3>1, <5>1 DEF TypeOK
      <4> QED BY <4>1, <4>2
    <3> QED BY <2>1, <2>4, <3>2 DEF Check, disk, TypeOK
  <2>5. CASE Answer(p)
    BY <2>1, <2>5, <1>3, <1>5 DEF Answer, disk, TypeOK, At
  <2>6. CASE Confirm(p)
    BY <2>1, <2>6, <1>3, <1>5 DEF Confirm, disk, TypeOK, At
  <2>7. CASE Stop(p)
    BY <2>1, <2>7, <1>3 DEF Stop, disk, TypeOK
  <2> QED BY <1>7, <2>2, <2>3, <2>4, <2>5, <2>6, <2>7 DEF CallStep
<1>8. ASSUME NEW r \in Readers, ReadStep(r) PROVE TypeOK'
  <2>1. UNCHANGED disk /\ UNCHANGED <<lock, job, answered>>
    BY <1>8, ReadFrame
  <2>2. reading' \in [Readers -> [pc : ReadPhases, version : Versions \union {None}, since : Nat]]
    <3>1. Len(log) \in Nat /\ current \in Versions \union {None}
      BY DEF TypeOK
    <3> USE DEF ReadPhases
    <3>a. ASSUME NEW pc \in ReadPhases, ReadOn(r, pc)
          PROVE  reading' \in [Readers ->
                               [pc : ReadPhases, version : Versions \union {None}, since : Nat]]
      BY <3>a DEF ReadOn, TypeOK
    <3>b. ASSUME GiveUp(r)
          PROVE  reading' \in [Readers ->
                               [pc : ReadPhases, version : Versions \union {None}, since : Nat]]
      BY <3>b DEF GiveUp, Quiet, TypeOK
    <3>2. CASE BeginRead(r)
      BY <3>1, <3>2 DEF BeginRead, TypeOK
    <3>3. CASE ReadCurrent(r)
      <4> DEFINE found == [pc |-> "archive", version |-> current, since |-> reading[r].since]
      <4>1. reading[r].since \in Nat
        BY DEF TypeOK
      <4>2. found \in [pc : ReadPhases, version : Versions \union {None}, since : Nat]
        BY <3>1, <4>1
      <4>3. reading' = [reading EXCEPT ![r] = found] \/ GiveUp(r)
        BY <3>3 DEF ReadCurrent
      <4> HIDE DEF found
      <4> QED BY <3>b, <4>2, <4>3 DEF TypeOK
    <3>4. CASE ReadArchive(r)
      BY <3>4, <3>a, <3>b DEF ReadArchive
    <3>5. CASE ReadSealed(r)
      BY <3>5, <3>a, <3>b DEF ReadSealed
    <3>6. CASE EndRead(r)
      BY <3>6, <3>a, <3>b DEF EndRead
    <3> QED BY <1>8, <3>2, <3>3, <3>4, <3>5, <3>6 DEF ReadStep
  <2> QED BY <2>1, <2>2 DEF disk, TypeOK
<1> QED BY <1>6, <1>7, <1>8, Steps

\* Only the owner of the lock is at work.
LEMMA Alone ==
  ASSUME TypeOK, Locked, NEW p \in Procs, WriteStep(p) \/ CallStep(p)
  PROVE  \A other \in Procs \ {p} : job'[other] = job[other] /\ job'[other].pc = "idle"
<1>1. \A other \in Procs \ {p} : job'[other] = job[other]
  BY WriteFrame, CallFrame
<1>2. CASE job[p].pc # "idle"
  BY <1>1, <1>2 DEF Locked
<1>3. CASE job[p].pc = "idle"
  <2>1. ~WriteStep(p)
    BY <1>3, WriteFrame
  <2>2. lock = None \/ Answer(p) \/ Confirm(p) \/ Check(p) \/ Stop(p)
    BY <2>1 DEF CallStep, Apply, ApplyOutcome
  <2>3. lock = None
    BY <1>3, <2>2 DEF Answer, Confirm, Check, Stop, At
  <2> QED BY <1>1, <2>3, RequestsAssumption DEF Locked
<1> QED BY <1>2, <1>3

LEMMA LockedStep == TypeOK /\ Locked /\ Next => Locked'
<1> SUFFICES ASSUME TypeOK, Locked, Next PROVE Locked'
  OBVIOUS
<1>1. ASSUME NEW p \in Procs, WriteStep(p) PROVE Locked'
  BY <1>1, Alone, WriteFrame DEF Locked
<1>2. ASSUME NEW p \in Procs, CallStep(p) PROVE Locked'
  <2>1. lock' = p \/ job'[p].pc = "idle" \/ (lock' = lock /\ job[p].pc # "idle")
    BY <1>2 DEF CallStep, Apply, ApplyOutcome, Check, Answer, Confirm, Stop, Finish, Idle, At,
                TypeOK
  <2> QED BY <1>2, <2>1, Alone DEF Locked
<1>3. ASSUME NEW r \in Readers, ReadStep(r) PROVE Locked'
  BY <1>3, ReadFrame DEF Locked
<1> QED BY <1>1, <1>2, <1>3, Steps

\* Where a step takes its call, and what it does to the fence.
LEMMA Moves ==
  ASSUME TypeOK, NEW p \in Procs, WriteStep(p) \/ CallStep(p)
  PROVE  \/ job'[p].pc = "idle"
         \/ job'[p].pc = "check" /\ job'[p].req \in Applies /\ fence = None /\ fence' = fence
         \/ job'[p].pc = "inspect" /\ job'[p].req \in Outcomes /\ fence' = fence
         \/ /\ job[p].pc \in ApplyPhases /\ job'[p].pc \in ApplyPhases
            /\ job'[p].req = job[p].req /\ fence' = fence
         \/ /\ job[p].pc = "inspect" /\ job'[p].pc = "file"
            /\ job'[p].req = job[p].req /\ fence' = job[p].req
         \/ /\ job[p].pc \in FencedPhases /\ job'[p].pc \in FencedPhases
            /\ job'[p].req = job[p].req /\ fence' = fence
<1>1. CASE WriteStep(p)
  <2> USE DEF At, Goto, Finish, Idle, Req, ApplyPhases, FencedPhases, TypeOK
  <2>1. CASE Intend(p) \/ Archive(p) \/ Seal(p) \/ Replace(p) \/ Mark(p) \/ Persist(p)
    BY <2>1 DEF Intend, Archive, Seal, Replace, Mark, Persist
  <2>2. CASE RaiseFence(p)
    BY <2>2 DEF RaiseFence
  <2>3. CASE FileOutcome(p) \/ SwapOutcome(p) \/ RecordOutcome(p) \/ SaveOutcome(p)
    BY <2>3 DEF FileOutcome, SwapOutcome, RecordOutcome, SaveOutcome
  <2>4. CASE LowerFence(p) \/ Withdraw(p)
    BY <2>4 DEF LowerFence, Withdraw
  <2> QED BY <1>1, <2>1, <2>2, <2>3, <2>4 DEF WriteStep
<1>2. CASE CallStep(p)
  <2>1. CASE \E q \in Applies : Apply(p, q)
    BY <2>1 DEF Apply, Begin, TypeOK
  <2>2. CASE \E q \in Outcomes : ApplyOutcome(p, q)
    BY <2>2 DEF ApplyOutcome, Begin, TypeOK
  <2>3. CASE Check(p)
    BY <2>3 DEF Check, Goto, Req, At, ApplyPhases, TypeOK
  <2>4. CASE Answer(p) \/ Confirm(p) \/ Stop(p)
    BY <2>4 DEF Answer, Confirm, Stop, Finish, Idle, TypeOK
  <2> QED BY <1>2, <2>1, <2>2, <2>3, <2>4 DEF CallStep
<1> QED BY <1>1, <1>2

LEMMA RoleStep == TypeOK /\ Locked /\ Role /\ Next => Role'
<1> SUFFICES ASSUME TypeOK, Locked, Role, Next PROVE Role'
  OBVIOUS
<1> USE DEF ApplyPhases, FencedPhases
<1>1. ASSUME NEW p \in Procs, WriteStep(p) \/ CallStep(p) PROVE Role'
  <2>1. ASSUME NEW other \in Procs \ {p} PROVE job'[other].pc = "idle"
    BY <1>1, Alone
  <2>2. /\ job'[p].pc \in ApplyPhases => job'[p].req \in Applies /\ fence' = None
        /\ job'[p].pc \in FencedPhases \union {"inspect"} => job'[p].req \in Outcomes
        /\ job'[p].pc \in FencedPhases => fence' = job'[p].req
    BY <1>1, Moves DEF Role
  <2> QED BY <2>1, <2>2 DEF Role
<1>2. ASSUME NEW r \in Readers, ReadStep(r) PROVE Role'
  BY <1>2, ReadFrame DEF Role, disk
<1> QED BY <1>1, <1>2, Steps

LEMMA Disjoint == \A q \in Applies : q \notin Outcomes
BY OutcomeAssumption

LEMMA JournalsStep ==
  TypeOK /\ Role /\ Journals /\ Fenced /\ Applying /\ Closing /\ Next => Journals'
<1> SUFFICES ASSUME TypeOK, Role, Journals, Fenced, Applying, Closing, Next PROVE Journals'
  OBVIOUS
<1>1. ASSUME NEW p \in Procs, WriteStep(p) PROVE Journals'
  <2> DEFINE q == Req(p)
  <2>1. /\ q \in Requests /\ q.op \in Ops /\ q # None
        /\ At(p, job[p].pc) /\ q = job[p].req
    BY <1>1, WriteFrame, RequestType DEF Role, TypeOK, Phases, Req, At, Requests
  <2>2. Taken \subseteq Requests /\ \A t \in Taken : t.op \in Ops
    BY TakenType, RequestType DEF TypeOK
  <2>3. ASSUME UNCHANGED log PROVE Taken' = Taken
    BY <2>3 DEF Taken
  <2>4. CASE Intend(p)
    <3>1. intents[q.op] \in {None, q}
      BY <2>1, <2>4 DEF Applying, ApplyingBy, Intend, At
    <3>2. intents' = [intents EXCEPT ![q.op] = q] /\ UNCHANGED <<fence, journal, saved, log>>
      BY <2>4 DEF Intend
    <3>3. \A o \in Ops : intents[o] # None => intents'[o] = intents[o]
      BY <2>1, <3>1, <3>2 DEF TypeOK
    <3> QED BY <2>1, <2>2, <2>3, <3>2, <3>3, RequestType DEF Journals, TypeOK
  <2>5. CASE Replace(p)
    <3>1. intents[q.op] = q /\ q \in Applies
      BY <2>1, <2>5 DEF Applying, ApplyingBy, Role, Replace, At, ApplyPhases
    <3>2. Taken' = Taken \union {q} /\ UNCHANGED <<fence, intents, journal, saved>>
      BY <2>1, <2>5, Appended DEF Replace, TypeOK
    <3> QED BY <3>1, <3>2, Disjoint DEF Journals
  <2>6. CASE Mark(p)
    <3>1. intents[q.op] = q /\ q \in Taken
      BY <2>1, <2>6 DEF Applying, ApplyingBy, Mark, At, ApplyPhases
    <3>2. journal' = journal \union {q.op} /\ UNCHANGED <<fence, intents, saved, log>>
      BY <2>6 DEF Mark
    <3> QED BY <2>3, <3>1, <3>2 DEF Journals
  <2>7. CASE Persist(p)
    <3>1. q.op \in journal
      BY <2>1, <2>7 DEF Applying, ApplyingBy, Persist, At, ApplyPhases
    <3>2. saved'.journal = saved.journal \union {q.op} /\ UNCHANGED <<fence, intents, journal, log>>
      BY <2>7 DEF Persist
    <3> QED BY <2>3, <3>1, <3>2 DEF Journals
  <2>8. CASE RaiseFence(p)
    <3>1. fence' = q /\ fence \in {None, q} /\ UNCHANGED <<intents, journal, saved, log>>
      BY <2>8 DEF RaiseFence
    <3> QED BY <2>1, <2>3, <3>1 DEF Journals
  <2>9. CASE RecordOutcome(p)
    <3>1. intents[q.op] \in {None, q} /\ fence = q
      BY <2>1, <2>9 DEF Closing, ClosingBy, Role, RecordOutcome, At, FencedPhases
    <3>2. /\ intents' = [intents EXCEPT ![q.op] = q] /\ journal' = journal \union {q.op}
          /\ UNCHANGED <<fence, saved, log>>
      BY <2>9 DEF RecordOutcome
    <3>3. /\ \A o \in Ops : intents[o] # None => intents'[o] = intents[o]
          /\ intents'[q.op] = q
      BY <2>1, <3>1, <3>2 DEF TypeOK
    <3>4. \A o \in Ops : intents'[o] # None => intents'[o].op = o
      BY <2>1, <3>2, <3>3 DEF Journals, TypeOK
    <3>5. \A o \in journal : intents[o] # None
      BY <2>2, RequestType DEF Journals
    <3>6. \A o \in journal : intents'[o] = intents[o]
      BY <3>3, <3>5 DEF TypeOK
    <3>7. \A t \in Taken : intents'[t.op] = t
      BY <2>2, <3>3, RequestType DEF Journals
    <3> QED BY <2>1, <2>3, <3>1, <3>2, <3>3, <3>4, <3>6, <3>7 DEF Journals
  <2>10. CASE SaveOutcome(p)
    <3>1. q.op \in journal
      BY <2>1, <2>10 DEF Closing, ClosingBy, SaveOutcome, At, FencedPhases
    <3>2. saved'.journal = saved.journal \union {q.op} /\ UNCHANGED <<fence, intents, journal, log>>
      BY <2>10 DEF SaveOutcome, TypeOK
    <3> QED BY <2>3, <3>1, <3>2 DEF Journals
  <2>11. CASE LowerFence(p)
    <3>1. intents[q.op] = q /\ q.op \in journal /\ fence = q
      BY <2>1, <2>11 DEF Closing, ClosingBy, Role, LowerFence, At, FencedPhases
    <3>2. Taken' = Taken \union {q} /\ fence' = None /\ UNCHANGED <<intents, journal, saved>>
      BY <2>1, <2>11, Appended DEF LowerFence, TypeOK
    <3> QED BY <3>1, <3>2 DEF Journals
  <2>12. CASE Withdraw(p)
    <3>1. fence = q /\ q.op \notin journal
      BY <2>1, <2>12 DEF Role, Withdraw, At, FencedPhases
    <3>2. \A o \in journal : intents[o] # q
      BY <2>1, <3>1 DEF Journals, TypeOK
    <3> QED BY <2>3, <2>12, <3>1, <3>2 DEF Withdraw, Journals
  <2>13. CASE Archive(p) \/ Seal(p) \/ FileOutcome(p) \/ SwapOutcome(p)
    <3>1. UNCHANGED <<fence, intents, journal, saved, log>>
      BY <2>13 DEF Archive, Seal, FileOutcome, SwapOutcome
    <3> QED BY <2>3, <3>1 DEF Journals
  <2> QED BY <1>1, <2>4, <2>5, <2>6, <2>7, <2>8, <2>9, <2>10, <2>11, <2>12, <2>13
          DEF WriteStep
<1>2. ASSUME UNCHANGED disk PROVE Journals'
  BY <1>2 DEF Journals, Taken, disk
<1> QED BY <1>1, <1>2, CallFrame, ReadFrame, Steps

\* The visible version, once something took effect, is a version.
LEMMA VisibleType ==
  ASSUME TypeOK, Order
  PROVE  /\ Visible \in Versions \union {None}
         /\ Visible = None <=> Taken = {}
<1>1. /\ Len(log) \in Nat /\ Taken \subseteq Requests
      /\ Len(log) > 0 <=> Taken # {}
  <2>1. log \in Seq(Requests) /\ DOMAIN log = 1..Len(log) /\ Len(log) \in Nat
    BY DEF TypeOK
  <2>2. ASSUME Len(log) > 0 PROVE log[Len(log)] \in Taken
    BY <2>1, <2>2 DEF Taken, ToSet
  <2>3. ASSUME Taken # {} PROVE Len(log) > 0
    <3>1. DOMAIN log # {}
      BY <2>3 DEF Taken, ToSet
    <3> QED BY <2>1, <3>1
  <2> QED BY <2>1, <2>2, <2>3, TakenType
<1>2. fence # None => fence.expected \in Versions
  BY OutcomeAssumption DEF TypeOK
<1>3. Visible \in Versions \union {None}
  BY <1>2 DEF Visible, TypeOK
<1>4. Len(log) > 0 => log[Len(log)] \in Requests
  BY <1>1 DEF TypeOK
<1>5. Len(log) > 0 => Visible # None
  BY <1>4, RequestType, RequestsAssumption DEF Order
<1> QED BY <1>1, <1>3, <1>5 DEF Order

LEMMA Growth ==
  ASSUME TypeOK, Order, NEW q \in Requests, Legal(q), q.expected # q.next, q \notin Taken,
         Visible = q.expected, Visible' = q.next, log' = Append(log, q)
  PROVE  Order'
<1>1. /\ Taken' = Taken \union {q} /\ Len(log') = Len(log) + 1 /\ log'[Len(log')] = q
      /\ Len(log) \in Nat
  BY Appended DEF TypeOK
<1>2. Taken \subseteq Requests /\ q.next \in Versions
  BY TakenType, RequestType DEF TypeOK
<1>3. ASSUME NEW t \in Taken
      PROVE  Prediction[t.next] = Prediction[q.next] /\ t.expected # t.next
  <2>1. q.expected \in Versions
    BY VisibleType, <1>3
  <2>3. Prediction[q.expected] = Prediction[q.next]
    BY <2>1, RequestsAssumption DEF Legal, LegalChange
  <2>5. Prediction[t.next] = Prediction[q.expected] /\ t.expected # t.next
    BY DEF Order
  <2> QED BY <2>3, <2>5
<1>4. /\ DOMAIN log = 1..Len(log) /\ DOMAIN log' = 1..Len(log) + 1
      /\ \A i \in DOMAIN log : log'[i] = log[i] /\ log[i] \in Taken
      /\ log'[Len(log) + 1] = q
  BY DEF TypeOK, Taken, ToSet
<1>5. \A i \in DOMAIN log' : log'[i].expected = IF i = 1 THEN None ELSE log'[i - 1].next
  <2> SUFFICES ASSUME NEW i \in DOMAIN log'
               PROVE  log'[i].expected = IF i = 1 THEN None ELSE log'[i - 1].next
    OBVIOUS
  <2>1. CASE i \in DOMAIN log
    <3>1. i # 1 => i - 1 \in DOMAIN log
      BY <1>1, <1>4, <2>1
    <3> QED BY <1>4, <2>1, <3>1 DEF Order
  <2>2. CASE i = Len(log) + 1
    <3>1. CASE Len(log) = 0
      BY <1>4, <2>2, <3>1 DEF Order
    <3>2. CASE Len(log) # 0
      <4>1. Len(log) \in DOMAIN log /\ i - 1 = Len(log) /\ i # 1 /\ Len(log) > 0
        BY <1>1, <1>4, <2>2, <3>2
      <4> QED BY <1>4, <2>2, <4>1 DEF Order
    <3> QED BY <3>1, <3>2
  <2> QED BY <1>1, <1>4, <2>1, <2>2
<1>6. \A i, j \in DOMAIN log' : log'[i] = log'[j] => i = j
  <2>1. \A i \in DOMAIN log' : i \in DOMAIN log \/ i = Len(log) + 1
    BY <1>1, <1>4
  <2> QED BY <1>4, <2>1 DEF Order
<1> QED BY <1>1, <1>3, <1>5, <1>6 DEF Order

\* What a call is about to publish has not taken effect, under whatever body.
LEMMA Fresh ==
  ASSUME TypeOK, Role, Journals, Order, Applying, NEW p \in Procs, Replace(p)
  PROVE  /\ Req(p) \in Applies /\ fence = None
         /\ current = Req(p).expected /\ Legal(Req(p)) /\ Req(p).expected # Req(p).next
         /\ \A t \in Taken : t.op # Req(p).op
<1> DEFINE q == Req(p)
<1>1. /\ q \in Applies /\ q \in Requests /\ fence = None /\ intents[q.op] = q
      /\ current = q.expected /\ Legal(q)
  BY DEF Replace, At, Req, Role, Applying, ApplyingBy, ApplyPhases, Requests
<1>2. Visible = q.expected
  BY <1>1 DEF Visible
<1>3. Taken \subseteq Requests /\ q.next \in Versions
  BY <1>1, TakenType, RequestType DEF TypeOK
<1>4. q \notin Taken
  <2> SUFFICES ASSUME q \in Taken PROVE FALSE
    OBVIOUS
  <2>1. q.expected # None
    BY <1>2, VisibleType, RequestsAssumption
  <2>2. PICK i \in DOMAIN log : log[i] = q
    BY DEF Taken, ToSet
  <2>3. Len(log) \in Nat /\ DOMAIN log = 1..Len(log) /\ i \in 1..Len(log)
    BY <2>2 DEF TypeOK
  <2>4. i # 1 /\ log[i - 1].next = q.expected
    BY <2>1, <2>2 DEF Order
  <2>5. i - 1 \in DOMAIN log /\ Len(log) \in DOMAIN log /\ Len(log) > 0 /\ i - 1 # Len(log)
    BY <2>3, <2>4
  <2>6. log[Len(log)].next = q.expected
    BY <1>2, <2>5 DEF Order
  <2>7. log[i - 1] \in Taken /\ log[Len(log)] \in Taken
    BY <2>5 DEF Taken, ToSet
  <2>8. log[i - 1].op = log[Len(log)].op
    BY <1>3, <2>4, <2>6, <2>7, OneOperationPerVersion
  <2>9. log[i - 1] = log[Len(log)]
    BY <2>7, <2>8 DEF Journals
  <2> QED BY <2>5, <2>9 DEF Order
<1>5. \A t \in Taken : t.op # q.op
  BY <1>1, <1>4 DEF Journals
<1>6. q.expected # q.next
  <2> SUFFICES ASSUME q.expected = q.next PROVE FALSE
    OBVIOUS
  <2>1. Visible # None
    BY <1>2, <1>3, RequestsAssumption
  <2>2. Len(log) \in Nat /\ Len(log) > 0
    BY <2>1 DEF TypeOK, Order
  <2>3. log[Len(log)] \in Taken /\ log[Len(log)].next = q.next
    BY <1>2, <2>2 DEF Order, Taken, ToSet, TypeOK
  <2> QED BY <1>1, <1>3, <1>5, <2>3, OneOperationPerVersion
<1> QED BY <1>1, <1>5, <1>6

LEMMA OrderStep ==
  TypeOK /\ Role /\ Journals /\ Order /\ Fenced /\ Applying /\ Closing /\ Next => Order'
<1> SUFFICES ASSUME TypeOK, Role, Journals, Order, Fenced, Applying, Closing, Next PROVE Order'
  OBVIOUS
<1>1. ASSUME Visible' = Visible, UNCHANGED log PROVE Order'
  BY <1>1 DEF Order, Taken
<1>2. ASSUME NEW p \in Procs, WriteStep(p) PROVE Order'
  <2> DEFINE q == Req(p)
  <2>1. q \in Requests /\ At(p, job[p].pc) /\ q = job[p].req /\ q # None
    BY <1>2, WriteFrame, RequestType DEF Role, TypeOK, Phases, Req, At, Requests
  <2>2. CASE Replace(p)
    BY <2>1, <2>2, Fresh, Growth DEF Replace, Visible
  <2>3. CASE LowerFence(p)
    <3>1. fence = q /\ current = q.next
      BY <2>1, <2>3 DEF LowerFence, Role, Closing, ClosingBy, At, FencedPhases
    <3>2. Legal(q) /\ q.expected # q.next /\ Visible = q.expected /\ q \notin Taken
      BY <2>1, <3>1 DEF Fenced, Visible
    <3> QED BY <2>1, <2>3, <3>1, <3>2, Growth DEF LowerFence, Visible
  <2>4. CASE RaiseFence(p)
    BY <1>1, <2>1, <2>4 DEF RaiseFence, Unmoved, Visible
  <2>5. CASE Withdraw(p)
    <3>1. fence = q
      BY <2>1, <2>5 DEF Withdraw, Role, At, FencedPhases
    <3> QED BY <1>1, <2>1, <2>5, <3>1 DEF Withdraw, Visible
  <2>6. CASE SwapOutcome(p)
    <3>1. fence = q
      BY <2>1, <2>6 DEF SwapOutcome, Role, At, FencedPhases
    <3> QED BY <1>1, <2>1, <2>6, <3>1 DEF SwapOutcome, Visible
  <2>7. CASE \/ Intend(p) \/ Archive(p) \/ Seal(p) \/ Mark(p) \/ Persist(p) \/ FileOutcome(p)
             \/ RecordOutcome(p) \/ SaveOutcome(p)
    <3>1. UNCHANGED <<fence, current, log>>
      BY <2>7 DEF Intend, Archive, Seal, Mark, Persist, FileOutcome, RecordOutcome, SaveOutcome
    <3> QED BY <1>1, <3>1 DEF Visible
  <2> QED BY <1>2, <2>2, <2>3, <2>4, <2>5, <2>6, <2>7 DEF WriteStep
<1>3. ASSUME UNCHANGED disk PROVE Order'
  BY <1>1, <1>3 DEF disk, Visible
<1> QED BY <1>2, <1>3, CallFrame, ReadFrame, Steps

\* A legal change keeps the prediction.
LEMMA Unchanged ==
  ASSUME NEW q \in Requests, Legal(q), q.expected # None
  PROVE  Prediction[q.expected] = Prediction[q.next]
BY DEF Legal, LegalChange

LEMMA OpeningStep ==
  TypeOK /\ Role /\ Order /\ Opening /\ Applying /\ Closing /\ Next => Opening'
<1> SUFFICES ASSUME TypeOK, Role, Order, Opening, Applying, Closing, Next PROVE Opening'
  OBVIOUS
<1>1. ASSUME NEW p \in Procs, WriteStep(p) PROVE Opening'
  <2> DEFINE q == Req(p)
  <2>1. /\ q \in Requests /\ At(p, job[p].pc) /\ q = job[p].req
        /\ q.op \in Ops /\ q.next \in Versions
    BY <1>1, WriteFrame, RequestType DEF Role, TypeOK, Phases, Req, At, Requests
  <2>2. CASE Intend(p) \/ RecordOutcome(p)
    <3>1. intents[q.op] \in {None, q}
      BY <2>1, <2>2 DEF Intend, RecordOutcome, Applying, ApplyingBy, Closing, ClosingBy, At,
                        FencedPhases
    <3>2. intents' = [intents EXCEPT ![q.op] = q] /\ UNCHANGED <<current, sealed>>
      BY <2>2 DEF Intend, RecordOutcome
    <3>3. \A a \in Requests : intents[a.op] = a => intents'[a.op] = a
      BY <2>1, <3>1, <3>2, RequestType DEF TypeOK
    <3> QED BY <3>2, <3>3 DEF Opening, Requests
  <2>3. CASE Seal(p)
    <3>1. UNCHANGED <<current, intents>>
      BY <2>3 DEF Seal
    <3>2. CASE Prediction[q.next] = None
      BY <2>3, <3>1, <3>2 DEF Seal, Opening
    <3>3. CASE current = None /\ Prediction[q.next] # None
      <4>1. q \in Applies /\ fence = None /\ intents[q.op] = q
        BY <2>1, <2>3 DEF Seal, At, Role, Applying, ApplyingBy, ApplyPhases
      <4>2. Taken = {}
        BY <3>3, <4>1, VisibleType DEF Visible
      <4>3. q.expected = None
        BY <2>1, <2>3, <3>3, <4>2 DEF Seal, At, Applying, ApplyingBy
      <4> QED BY <2>3, <3>1, <3>3, <4>1, <4>3 DEF Seal, Opening
    <3> QED BY <3>1, <3>2, <3>3 DEF Opening
  <2>4. CASE Replace(p) \/ SwapOutcome(p)
    <3>1. current' # None
      BY <2>1, <2>4, RequestsAssumption DEF Replace, SwapOutcome
    <3> QED BY <3>1 DEF Opening
  <2>5. CASE \/ Archive(p) \/ Mark(p) \/ Persist(p) \/ RaiseFence(p) \/ FileOutcome(p)
             \/ SaveOutcome(p) \/ LowerFence(p) \/ Withdraw(p)
    <3>1. UNCHANGED <<current, sealed, intents>>
      BY <2>5 DEF Archive, Mark, Persist, RaiseFence, FileOutcome, SaveOutcome, LowerFence,
                  Withdraw
    <3> QED BY <3>1 DEF Opening
  <2> QED BY <1>1, <2>2, <2>3, <2>4, <2>5 DEF WriteStep
<1>2. ASSUME UNCHANGED disk PROVE Opening'
  BY <1>2 DEF Opening, disk
<1> QED BY <1>1, <1>2, CallFrame, ReadFrame, Steps

LEMMA ReadableStep ==
  /\ TypeOK /\ Role /\ Journals /\ Order /\ Opening /\ EpisodeStaysReadable /\ Fenced
  /\ Applying /\ Closing /\ Next
  => EpisodeStaysReadable'
<1> SUFFICES ASSUME TypeOK, Role, Journals, Order, Opening, EpisodeStaysReadable, Fenced,
                    Applying, Closing, Next
             PROVE  EpisodeStaysReadable'
  OBVIOUS
<1>1. ASSUME NEW p \in Procs, WriteStep(p) PROVE EpisodeStaysReadable'
  <2> DEFINE q == Req(p)
  <2>1. /\ q \in Requests /\ At(p, job[p].pc) /\ q = job[p].req /\ q # None
        /\ q.next \in Versions
    BY <1>1, WriteFrame, RequestType DEF Role, TypeOK, Phases, Req, At, Requests
  <2>2. CASE Archive(p)
    BY <2>2 DEF Archive, EpisodeStaysReadable, Readable
  <2>3. CASE Seal(p)
    <3>1. fence = None /\ UNCHANGED <<current, archive>>
      BY <2>1, <2>3 DEF Seal, At, Role, ApplyPhases
    <3>2. CASE current # None
      <4>1. Prediction[q.next] = Prediction[current]
        <5>1. CASE job[p].replay
          BY <2>1, <2>3, <3>1, <5>1 DEF Seal, At, Applying, ApplyingBy, Order, Visible
        <5>2. CASE ~job[p].replay
          BY <2>1, <2>3, <3>2, <5>2, Unchanged DEF Seal, At, Applying, ApplyingBy
        <5> QED BY <5>1, <5>2
      <4> QED BY <2>3, <3>1, <4>1 DEF Seal, EpisodeStaysReadable, Readable
    <3> QED BY <3>1, <3>2 DEF EpisodeStaysReadable, Readable
  <2>4. CASE Replace(p)
    <3>1. /\ q \in Applies /\ fence = None /\ current = q.expected /\ Legal(q)
          /\ intents[q.op] = q /\ q.next \in archive
          /\ Prediction[q.next] # None => sealed = Prediction[q.next]
      BY <2>1, <2>4 DEF Replace, At, Role, Applying, ApplyingBy, ApplyPhases
    <3>2. sealed = Prediction[q.next]
      <4>1. CASE current # None
        BY <2>1, <3>1, <4>1, Unchanged DEF EpisodeStaysReadable, Readable
      <4>2. CASE current = None /\ sealed # None
        BY <3>1, <4>2, OneOpening DEF Opening
      <4> QED BY <3>1, <4>1, <4>2
    <3> QED BY <2>4, <3>1, <3>2 DEF Replace, EpisodeStaysReadable, Readable
  <2>5. CASE LowerFence(p)
    <3>1. fence = q /\ current = q.next
      BY <2>1, <2>5 DEF LowerFence, At, Role, Closing, ClosingBy, FencedPhases
    <3>2. q \in Outcomes /\ q.expected # None
      BY <2>1, <2>5, OutcomeAssumption, RequestsAssumption DEF LowerFence, At, Role, FencedPhases
    <3> QED BY <2>1, <2>5, <3>1, <3>2, Unchanged
            DEF LowerFence, Fenced, EpisodeStaysReadable, Readable
  <2>6. CASE Withdraw(p)
    <3>1. fence = q
      BY <2>1, <2>6 DEF Withdraw, At, Role, FencedPhases
    <3> QED BY <2>1, <2>6, <3>1 DEF Withdraw, Fenced, EpisodeStaysReadable, Readable
  <2>7. CASE RaiseFence(p) \/ FileOutcome(p) \/ SwapOutcome(p)
    <3>1. fence' = q
      BY <2>1, <2>7 DEF RaiseFence, FileOutcome, SwapOutcome, At, Role, FencedPhases
    <3> QED BY <2>1, <3>1 DEF EpisodeStaysReadable
  <2>8. CASE Intend(p) \/ Mark(p) \/ Persist(p) \/ RecordOutcome(p) \/ SaveOutcome(p)
    <3>1. UNCHANGED <<fence, current, archive, sealed>>
      BY <2>8 DEF Intend, Mark, Persist, RecordOutcome, SaveOutcome
    <3> QED BY <3>1 DEF EpisodeStaysReadable, Readable
  <2> QED BY <1>1, <2>2, <2>3, <2>4, <2>5, <2>6, <2>7, <2>8 DEF WriteStep
<1>2. ASSUME UNCHANGED disk PROVE EpisodeStaysReadable'
  BY <1>2 DEF EpisodeStaysReadable, Readable, disk
<1> QED BY <1>1, <1>2, CallFrame, ReadFrame, Steps

LEMMA FencedStep ==
  TypeOK /\ Role /\ Journals /\ EpisodeStaysReadable /\ Fenced /\ Closing /\ Next => Fenced'
<1> SUFFICES ASSUME TypeOK, Role, Journals, EpisodeStaysReadable, Fenced, Closing, Next
             PROVE  Fenced'
  OBVIOUS
<1>1. ASSUME NEW p \in Procs, WriteStep(p) PROVE Fenced'
  <2> DEFINE q == Req(p)
  <2>1. q \in Requests /\ At(p, job[p].pc) /\ q = job[p].req /\ q # None
    BY <1>1, WriteFrame, RequestType DEF Role, TypeOK, Phases, Req, At, Requests
  <2>2. CASE RaiseFence(p)
    <3>1. /\ fence' = q /\ fence \in {None, q} /\ Legal(q) /\ Unmoved(q)
          /\ q.op \in journal => fence = q
          /\ UNCHANGED <<current, archive, sealed, journal, log>>
      BY <2>2 DEF RaiseFence
    <3>2. CASE fence = q
      BY <3>1, <3>2 DEF Fenced, Taken, Legal, LegalChange
    <3>3. CASE fence = None
      <4>1. current = q.expected /\ q.next \notin archive /\ q.op \notin journal
        BY <2>1, <3>1, <3>3 DEF Unmoved
      <4>2. q \in Outcomes /\ q.expected \in Versions /\ q.expected # None
        BY <2>1, <2>2, OutcomeAssumption, RequestsAssumption DEF RaiseFence, At, Role
      <4>3. q.expected \in archive /\ sealed = Prediction[q.expected]
        BY <3>3, <4>1, <4>2 DEF EpisodeStaysReadable, Readable
      <4>4. \A t \in Taken : t.op # q.op
        <5>1. \A t \in Taken : t \in Applies \/ t \in Outcomes
          BY TakenType DEF TypeOK, Requests
        <5> QED BY <4>1, <4>2, <5>1, OutcomeAssumption DEF Journals
      <4> QED BY <3>1, <4>1, <4>3, <4>4 DEF Fenced, Taken, Legal, LegalChange
    <3> QED BY <3>1, <3>2, <3>3
  <2>3. CASE FileOutcome(p)
    BY <2>3 DEF FileOutcome, Fenced, Taken, Legal, LegalChange
  <2>4. CASE SwapOutcome(p)
    <3>1. fence = q /\ q.next \in archive
      BY <2>1, <2>4 DEF SwapOutcome, At, Role, Closing, ClosingBy, FencedPhases
    <3> QED BY <2>4, <3>1 DEF SwapOutcome, Fenced, Taken, Legal, LegalChange
  <2>5. CASE LowerFence(p) \/ Withdraw(p)
    BY <2>5 DEF LowerFence, Withdraw, Fenced
  <2>6. CASE RecordOutcome(p) \/ SaveOutcome(p)
    <3>1. UNCHANGED <<fence, current, archive, sealed, log>>
      BY <2>6 DEF RecordOutcome, SaveOutcome
    <3>2. fence = q /\ current = q.next
      BY <2>1, <2>6 DEF RecordOutcome, SaveOutcome, At, Role, Closing, ClosingBy, FencedPhases
    <3> QED BY <3>1, <3>2 DEF Fenced, Taken, Legal, LegalChange
  <2>7. CASE Intend(p) \/ Archive(p) \/ Seal(p) \/ Replace(p) \/ Mark(p) \/ Persist(p)
    <3>1. fence' = None
      BY <2>1, <2>7 DEF Intend, Archive, Seal, Replace, Mark, Persist, At, Role, ApplyPhases
    <3> QED BY <3>1 DEF Fenced
  <2> QED BY <1>1, <2>2, <2>3, <2>4, <2>5, <2>6, <2>7 DEF WriteStep
<1>2. ASSUME UNCHANGED disk PROVE Fenced'
  BY <1>2 DEF Fenced, Taken, Legal, LegalChange, disk
<1> QED BY <1>1, <1>2, CallFrame, ReadFrame, Steps

\* A recorded request whose version is current has taken effect.
LEMMA Replayed ==
  ASSUME TypeOK, Journals, Order, fence = None, NEW q \in Requests, intents[q.op] = q,
         current = q.next
  PROVE  q \in Taken
<1>1. Visible = q.next /\ q.next # None
  BY RequestType, RequestsAssumption DEF Visible
<1>2. Len(log) \in Nat /\ Len(log) > 0
  BY <1>1 DEF Order, TypeOK
<1>3. log[Len(log)] \in Taken /\ log[Len(log)] \in Requests /\ log[Len(log)].next = q.next
  BY <1>1, <1>2 DEF Order, Taken, ToSet, TypeOK
<1> QED BY <1>3, OneOperationPerVersion DEF Journals

LEMMA ApplyingStep ==
  TypeOK /\ Locked /\ Role /\ Journals /\ Order /\ Applying /\ Next => Applying'
<1> SUFFICES ASSUME TypeOK, Locked, Role, Journals, Order, Applying, Next PROVE Applying'
  OBVIOUS
<1> USE DEF ApplyPhases
<1>1. \A p \in Procs : ApplyingBy(p)
  BY DEF Applying
<1>2. ASSUME NEW p \in Procs, ApplyingBy(p)', WriteStep(p) \/ CallStep(p) PROVE Applying'
  <2>1. \A other \in Procs \ {p} : job'[other].pc = "idle"
    BY <1>2, Alone
  <2> QED BY <1>2, <2>1 DEF Applying, ApplyingBy
<1>3. ASSUME NEW p \in Procs, job'[p].pc \in {"idle", "inspect", "check"} \union FencedPhases
      PROVE  ApplyingBy(p)'
  BY <1>3 DEF ApplyingBy, FencedPhases
<1>4. ASSUME NEW p \in Procs, WriteStep(p) PROVE ApplyingBy(p)'
  <2> DEFINE q == Req(p)
  <2>1. /\ q \in Requests /\ At(p, job[p].pc) /\ q = job[p].req /\ q.op \in Ops
        /\ job[p] \in [pc : Phases, req : Requests \union {None}, replay : BOOLEAN]
    BY <1>4, WriteFrame, RequestType DEF Role, TypeOK, Phases, Req, At, Requests, FencedPhases
  <2>2. ASSUME NEW pc \in Phases, Goto(p, pc)
        PROVE  job'[p].pc = pc /\ job'[p].req = q /\ job'[p].replay = job[p].replay
    BY <2>1, <2>2 DEF Goto, TypeOK
  <2>3. ASSUME UNCHANGED log PROVE Taken' = Taken
    BY <2>3 DEF Taken
  <2> USE DEF Phases
  <2>4. CASE Intend(p)
    <3>1. intents'[q.op] = q
      BY <2>1, <2>4 DEF Intend, TypeOK
    <3> QED BY <1>1, <2>1, <2>2, <2>3, <2>4, <3>1 DEF Intend, ApplyingBy, At
  <2>5. CASE Archive(p)
    BY <1>1, <2>1, <2>2, <2>3, <2>5 DEF Archive, ApplyingBy, At
  <2>6. CASE Seal(p)
    BY <1>1, <2>1, <2>2, <2>3, <2>6 DEF Seal, ApplyingBy, At
  <2>7. CASE Replace(p)
    <3>1. q \in Taken'
      BY <2>1, <2>7, Appended DEF Replace, TypeOK
    <3> QED BY <1>1, <2>1, <2>2, <2>7, <3>1 DEF Replace, ApplyingBy, At
  <2>8. CASE Mark(p)
    BY <1>1, <2>1, <2>2, <2>3, <2>8 DEF Mark, ApplyingBy, At
  <2>9. CASE Persist(p)
    <3>1. q.op \in saved'.journal
      BY <2>9 DEF Persist
    <3> QED BY <1>1, <2>1, <2>2, <2>3, <2>9, <3>1 DEF Persist, ApplyingBy, At
  <2>10. CASE \/ RaiseFence(p) \/ FileOutcome(p) \/ SwapOutcome(p) \/ RecordOutcome(p)
              \/ SaveOutcome(p) \/ LowerFence(p) \/ Withdraw(p)
    <3>1. job[p].pc \in FencedPhases \union {"inspect"}
      BY <2>10 DEF RaiseFence, FileOutcome, SwapOutcome, RecordOutcome, SaveOutcome, LowerFence,
                   Withdraw, At, FencedPhases
    <3> QED BY <1>3, <1>4, <3>1, Moves DEF FencedPhases
  <2> QED BY <1>4, <2>4, <2>5, <2>6, <2>7, <2>8, <2>9, <2>10 DEF WriteStep
<1>5. ASSUME NEW p \in Procs, CallStep(p) PROVE ApplyingBy(p)'
  <2> DEFINE q == Req(p)
  <2>1. UNCHANGED disk
    BY <1>5, CallFrame
  <2>2. CASE Check(p)
    <3>1. /\ q \in Applies /\ q \in Requests /\ q # None /\ fence = None /\ q = job[p].req
          /\ job[p] \in [pc : Phases, req : Requests \union {None}, replay : BOOLEAN]
      BY <2>2, RequestsAssumption DEF Check, Role, At, Req, Requests, TypeOK
    <3>2. CASE q.op \in journal
      <4>1. intents[q.op] = q /\ q \in Taken
        BY <2>2, <3>1, <3>2, TakenType, RequestsAssumption DEF Check, Journals, TypeOK
      <4>2. job'[p].pc = "persist" /\ job'[p].req = q
        BY <2>2, <3>1, <3>2 DEF Check, Goto, TypeOK
      <4>3. q.next \in archive
        BY <2>2, <3>2 DEF Check
      <4> QED BY <2>1, <3>2, <4>1, <4>2, <4>3 DEF ApplyingBy, disk, Taken
    <3>3. CASE q.op \notin journal
      <4> DEFINE replay == Recorded(q) /\ current = q.next
      <4>1. /\ intents[q.op] \in {None, q}
            /\ replay \/ (current = q.expected /\ Legal(q))
            /\ job' = [job EXCEPT ![p] = [pc |-> "intend", req |-> q, replay |-> replay]]
        BY <2>2, <3>3 DEF Check
      <4>2. job'[p] = [pc |-> "intend", req |-> q, replay |-> replay]
        BY <4>1 DEF TypeOK
      <4>3. replay => q \in Taken
        BY <3>1, Replayed DEF Recorded
      <4>4. /\ job'[p].pc = "intend" /\ job'[p].req = q
            /\ IF job'[p].replay THEN q \in Taken ELSE current = q.expected /\ Legal(q)
        <5> HIDE DEF replay
        <5>1. CASE replay
          BY <4>2, <4>3, <5>1
        <5>2. CASE ~replay
          BY <4>1, <4>2, <5>2
        <5> QED BY <5>1, <5>2
      <4> HIDE DEF replay
      <4> QED BY <2>1, <4>1, <4>4 DEF ApplyingBy, disk, Taken
    <3> QED BY <3>2, <3>3
  <2>3. CASE ~Check(p)
    <3>1. job'[p].pc \in {"idle", "inspect", "check"}
      <4>1. CASE \E a \in Applies : Apply(p, a)
        BY <4>1 DEF Apply, Begin, TypeOK
      <4>2. CASE \E a \in Outcomes : ApplyOutcome(p, a)
        BY <4>2 DEF ApplyOutcome, Begin, TypeOK
      <4>3. CASE Answer(p) \/ Confirm(p) \/ Stop(p)
        BY <4>3 DEF Answer, Confirm, Stop, Finish, Idle, TypeOK
      <4> QED BY <1>5, <2>3, <4>1, <4>2, <4>3 DEF CallStep
    <3> QED BY <1>3, <3>1
  <2> QED BY <2>2, <2>3
<1>6. ASSUME NEW r \in Readers, ReadStep(r) PROVE Applying'
  <2>1. UNCHANGED disk /\ UNCHANGED job
    BY <1>6, ReadFrame
  <2> QED BY <2>1 DEF Applying, ApplyingBy, Taken, disk, Legal, LegalChange
<1> QED BY <1>2, <1>4, <1>5, <1>6, Steps

LEMMA ClosingStep == TypeOK /\ Locked /\ Role /\ Closing /\ Next => Closing'
<1> SUFFICES ASSUME TypeOK, Locked, Role, Closing, Next PROVE Closing'
  OBVIOUS
<1> USE DEF FencedPhases
<1>1. \A p \in Procs : ClosingBy(p)
  BY DEF Closing
<1>2. ASSUME NEW p \in Procs, ClosingBy(p)', WriteStep(p) \/ CallStep(p) PROVE Closing'
  <2>1. \A other \in Procs \ {p} : job'[other].pc = "idle"
    BY <1>2, Alone
  <2> QED BY <1>2, <2>1 DEF Closing, ClosingBy
<1>3. ASSUME NEW p \in Procs, job'[p].pc \in {"idle", "inspect"} \union ApplyPhases
      PROVE  ClosingBy(p)'
  BY <1>3 DEF ClosingBy, ApplyPhases
<1>4. ASSUME NEW p \in Procs, WriteStep(p) PROVE ClosingBy(p)'
  <2> DEFINE q == Req(p)
  <2>1. /\ q \in Requests /\ At(p, job[p].pc) /\ q = job[p].req /\ q.op \in Ops
        /\ job[p] \in [pc : Phases, req : Requests \union {None}, replay : BOOLEAN]
    BY <1>4, WriteFrame, RequestType DEF Role, TypeOK, Phases, Req, At, Requests, ApplyPhases
  <2>2. ASSUME NEW pc \in Phases, Goto(p, pc) PROVE job'[p].pc = pc /\ job'[p].req = q
    BY <2>1, <2>2 DEF Goto, TypeOK
  <2> USE DEF Phases
  <2>3. CASE RaiseFence(p)
    BY <2>1, <2>2, <2>3 DEF RaiseFence, ClosingBy
  <2>4. CASE FileOutcome(p)
    BY <1>1, <2>1, <2>2, <2>4 DEF FileOutcome, ClosingBy, At
  <2>5. CASE SwapOutcome(p)
    BY <1>1, <2>1, <2>2, <2>5 DEF SwapOutcome, ClosingBy, At
  <2>6. CASE RecordOutcome(p)
    <3>1. intents'[q.op] = q
      BY <2>1, <2>6 DEF RecordOutcome, TypeOK
    <3> QED BY <1>1, <2>1, <2>2, <2>6, <3>1 DEF RecordOutcome, ClosingBy, At
  <2>7. CASE SaveOutcome(p)
    <3>1. q.op \in saved'.journal
      BY <2>7 DEF SaveOutcome, TypeOK
    <3> QED BY <1>1, <2>1, <2>2, <2>7, <3>1 DEF SaveOutcome, ClosingBy, At
  <2>8. CASE \/ LowerFence(p) \/ Withdraw(p)
    <3>1. job'[p].pc = "idle"
      BY <2>8 DEF LowerFence, Withdraw, Finish, Idle, TypeOK
    <3> QED BY <1>3, <3>1
  <2>9. CASE Intend(p) \/ Archive(p) \/ Seal(p) \/ Replace(p) \/ Mark(p) \/ Persist(p)
    <3>1. job[p].pc \in ApplyPhases
      BY <2>9 DEF Intend, Archive, Seal, Replace, Mark, Persist, At, ApplyPhases
    <3> QED BY <1>3, <1>4, <3>1, Moves DEF ApplyPhases
  <2> QED BY <1>4, <2>3, <2>4, <2>5, <2>6, <2>7, <2>8, <2>9 DEF WriteStep
<1>5. ASSUME NEW p \in Procs, CallStep(p) PROVE ClosingBy(p)'
  <2>1. job'[p].pc \in {"idle", "inspect"} \union ApplyPhases
    <3>1. job[p].pc \notin FencedPhases \/ Stop(p)
      BY <1>5 DEF CallStep, Apply, ApplyOutcome, Check, Answer, Confirm, At
    <3>2. Stop(p) => job'[p].pc = "idle"
      BY DEF Stop, Finish, Idle, TypeOK
    <3>3. job'[p].pc # "file"
      BY <1>5 DEF CallStep, Apply, ApplyOutcome, Check, Answer, Confirm, Stop, Begin, Goto, Finish,
                  Idle, TypeOK
    <3> QED BY <1>5, <3>1, <3>2, <3>3, Moves DEF ApplyPhases
  <2> QED BY <1>3, <2>1
<1>6. ASSUME NEW r \in Readers, ReadStep(r) PROVE Closing'
  <2>1. UNCHANGED disk /\ UNCHANGED job
    BY <1>6, ReadFrame
  <2> QED BY <2>1 DEF Closing, ClosingBy, disk
<1> QED BY <1>2, <1>4, <1>5, <1>6, Steps

\* What took effect earlier stays earlier as the log grows.
LEMMA LaterStays ==
  ASSUME log \in Seq(Requests), NEW q \in Requests, log' = Append(log, q), NEW t, NEW v,
         Later(t, v)
  PROVE  Later(t, v)'
BY Appended DEF Later

\* The visible version is the last that took effect.
LEMMA NowLater ==
  ASSUME TypeOK, Order, NEW t \in Taken
  PROVE  Later(t, Visible)
<1>1. PICK i \in DOMAIN log : log[i] = t
  BY DEF Taken, ToSet
<1>2. DOMAIN log = 1..Len(log) /\ Len(log) \in Nat
  BY DEF TypeOK
<1>3. i =< Len(log) /\ Len(log) \in DOMAIN log /\ Len(log) > 0
  BY <1>1, <1>2
<1> QED BY <1>1, <1>3 DEF Later, Order

LEMMA SavingsStep ==
  /\ TypeOK /\ Role /\ Journals /\ Order /\ EpisodeStaysReadable /\ Fenced
  /\ Applying /\ Closing /\ Savings /\ Next
  => Savings'
<1> SUFFICES ASSUME TypeOK, Role, Journals, Order, EpisodeStaysReadable, Fenced, Applying,
                    Closing, Savings, Next
             PROVE  Savings'
  OBVIOUS
<1>1. /\ Taken \subseteq Requests
      /\ \A o \in saved.journal : o \in journal /\ o \in Ops /\ intents[o] \in Requests
  <2>1. Taken \subseteq Requests /\ saved.journal \subseteq journal /\ journal \subseteq Ops
    BY TakenType DEF TypeOK, Journals
  <2> QED BY <2>1, RequestType DEF Journals, TypeOK, Requests
<1>2. ASSUME NEW p \in Procs, WriteStep(p) PROVE Savings'
  <2> DEFINE q == Req(p)
  <2>1. /\ q \in Requests /\ At(p, job[p].pc) /\ q = job[p].req /\ q # None
        /\ q.op \in Ops /\ q.next \in Versions
    BY <1>2, WriteFrame, RequestType DEF Role, TypeOK, Phases, Req, At, Requests
  <2>2. ASSUME UNCHANGED <<saved, current, log, answered>>,
               \A o \in saved.journal : intents'[o] = intents[o]
        PROVE  Savings'
    BY <2>2 DEF Savings, SavedFor, Later, Taken
  <2>3. CASE Intend(p) \/ RecordOutcome(p)
    <3>1. intents[q.op] \in {None, q}
      BY <2>1, <2>3 DEF Intend, RecordOutcome, Applying, ApplyingBy, Closing, ClosingBy, At,
                        FencedPhases
    <3>2. intents' = [intents EXCEPT ![q.op] = q] /\ UNCHANGED <<saved, current, log, answered>>
      BY <2>3 DEF Intend, RecordOutcome
    <3>3. \A o \in saved.journal : intents'[o] = intents[o]
      BY <1>1, <2>1, <3>1, <3>2, RequestsAssumption DEF TypeOK
    <3> QED BY <2>2, <3>2, <3>3
  <2>4. CASE Replace(p)
    <3>1. fence = None /\ Visible = current
      BY <2>1, <2>4 DEF Replace, At, Role, ApplyPhases, Visible
    <3>2. log' = Append(log, q) /\ UNCHANGED <<saved, intents, answered>>
      BY <2>4 DEF Replace
    <3>3. ASSUME NEW o \in saved.journal PROVE SavedFor(intents[o])'
      <4>1. intents[o] \in Taken
        BY <1>1, <3>1 DEF Journals
      <4>2. Later(intents[o], current)
        BY <3>1, <4>1, NowLater
      <4>3. SavedFor(intents[o])
        BY DEF Savings
      <4>4. Later(intents[o], saved.current)
        BY <4>2, <4>3 DEF SavedFor
      <4>5. Later(intents[o], saved.current)'
        BY <2>1, <3>2, <4>4, LaterStays DEF TypeOK
      <4> QED BY <3>2, <4>3, <4>5 DEF SavedFor
    <3>4. Taken' = Taken \union {q}
      BY <2>1, <3>2, Appended DEF TypeOK
    <3> QED BY <3>2, <3>3, <3>4 DEF Savings
  <2>5. CASE Persist(p)
    <3>1. /\ q \in Taken /\ q \in Applies /\ fence = None /\ intents[q.op] = q
          /\ q.next \in archive
      BY <2>1, <2>5 DEF Persist, At, Role, Applying, ApplyingBy, ApplyPhases
    <3>2. /\ saved'.current = current /\ saved'.archive = saved.archive \union {q.next}
          /\ saved'.sealed = IF Prediction[q.next] = None THEN saved.sealed ELSE sealed
          /\ saved'.journal = saved.journal \union {q.op}
          /\ UNCHANGED <<current, intents, log, answered>>
      BY <2>5 DEF Persist
    <3>3. current # None /\ sealed = Prediction[current] /\ Visible = current
      BY <3>1, VisibleType DEF Visible, EpisodeStaysReadable, Readable
    <3>4. ASSUME NEW t \in Taken
          PROVE  Prediction[t.next] = sealed
      BY <3>3 DEF Order
    <3>5. \A o \in saved.journal : intents[o] \in Taken
      BY <1>1, <3>1 DEF Journals
    <3>6. \A o \in saved'.journal : SavedFor(intents[o])'
      BY <3>1, <3>2, <3>3, <3>4, <3>5 DEF Savings, SavedFor
    <3> QED BY <3>2, <3>6 DEF Savings, Taken
  <2>6. CASE SaveOutcome(p)
    <3>1. q \in Outcomes /\ fence = q /\ current = q.next /\ intents[q.op] = q
      BY <2>1, <2>6 DEF SaveOutcome, At, Role, Closing, ClosingBy, FencedPhases
    <3>2. /\ saved'.current = current /\ saved'.archive = saved.archive \union {q.next}
          /\ saved'.sealed = saved.sealed /\ saved'.journal = saved.journal \union {q.op}
          /\ UNCHANGED <<current, intents, log, answered>>
      BY <2>6 DEF SaveOutcome, TypeOK
    <3>3. \A o \in saved'.journal : SavedFor(intents[o])'
      BY <3>1, <3>2, Disjoint DEF Savings, SavedFor
    <3> QED BY <3>2, <3>3 DEF Savings, Taken
  <2>7. CASE LowerFence(p)
    <3>1. q.op \in saved.journal
      BY <2>1, <2>7 DEF LowerFence, At, Closing, ClosingBy, FencedPhases
    <3>2. /\ Taken' = Taken \union {q} /\ answered' = answered \union {q}
          /\ log' = Append(log, q) /\ UNCHANGED <<current, intents, saved>>
      BY <2>1, <2>7, Appended DEF LowerFence, TypeOK
    <3>3. ASSUME NEW t, Later(t, saved.current) PROVE Later(t, saved.current)'
      BY <2>1, <3>2, <3>3, LaterStays DEF TypeOK
    <3>4. \A o \in saved.journal : SavedFor(intents[o])'
      BY <3>2, <3>3 DEF Savings, SavedFor
    <3> QED BY <3>1, <3>2, <3>4 DEF Savings
  <2>8. CASE \/ Archive(p) \/ Seal(p) \/ Mark(p) \/ RaiseFence(p) \/ FileOutcome(p)
             \/ Withdraw(p)
    <3>1. UNCHANGED <<intents, saved, current, log, answered>>
      BY <2>8 DEF Archive, Seal, Mark, RaiseFence, FileOutcome, Withdraw
    <3> QED BY <2>2, <3>1
  <2>9. CASE SwapOutcome(p)
    <3>1. fence = q /\ current' = q.next /\ UNCHANGED <<intents, saved, log, answered>>
      BY <2>1, <2>9 DEF SwapOutcome, At, Role, FencedPhases
    <3>2. CASE current = q.next
      BY <2>2, <3>1, <3>2
    <3>3. CASE current # q.next
      <4>1. current = q.expected /\ Visible = current /\ q.op \notin journal
        BY <2>1, <3>1, <3>3 DEF Fenced, Visible
      <4>2. ASSUME NEW o \in saved.journal PROVE SavedFor(intents[o])'
        <5>1. intents[o] \in Taken
          BY <1>1, <3>1, <4>1 DEF Journals
        <5>2. SavedFor(intents[o]) /\ Later(intents[o], current)
          BY <4>1, <5>1, NowLater DEF Savings
        <5> QED BY <3>1, <5>2 DEF SavedFor, Later
      <4> QED BY <3>1, <4>2 DEF Savings, Taken
    <3> QED BY <3>2, <3>3
  <2> QED BY <1>2, <2>3, <2>4, <2>5, <2>6, <2>7, <2>8, <2>9 DEF WriteStep
<1>3. ASSUME UNCHANGED disk,
             \A q \in answered' \ answered : q \in Taken /\ q.op \in saved.journal
      PROVE  Savings'
  BY <1>3 DEF Savings, SavedFor, Later, Taken, disk
<1>4. ASSUME NEW p \in Procs, CallStep(p) PROVE Savings'
  <2> DEFINE q == Req(p)
  <2>1. UNCHANGED disk
    BY <1>4, CallFrame
  <2>2. CASE Answer(p)
    <3>1. q \in Taken /\ q.op \in saved.journal
      BY <2>2 DEF Answer, At, Req, Applying, ApplyingBy
    <3> QED BY <1>3, <2>1, <2>2, <3>1 DEF Answer
  <2>3. CASE Confirm(p)
    <3>1. fence = None /\ intents[q.op] = q /\ q.op \in saved.journal
      BY <2>3 DEF Confirm
    <3>2. q \in Taken
      BY <1>1, <3>1 DEF Journals
    <3> QED BY <1>3, <2>1, <2>3, <3>1, <3>2 DEF Confirm
  <2>4. CASE UNCHANGED answered
    BY <1>3, <2>1, <2>4
  <2> QED BY <1>4, <2>2, <2>3, <2>4 DEF CallStep, Apply, ApplyOutcome, Check, Stop
<1>5. ASSUME NEW r \in Readers, ReadStep(r) PROVE Savings'
  BY <1>3, <1>5, ReadFrame
<1> QED BY <1>2, <1>4, <1>5, Steps

\* What was visible stays so as the log grows.
LEMMA SeenStays ==
  ASSUME log \in Seq(Requests), NEW q \in Requests, log' = Append(log, q), NEW v, NEW since,
         WasVisible(v, since)
  PROVE  WasVisible(v, since)'
BY Appended DEF WasVisible

LEMMA ReadingStep ==
  TypeOK /\ Role /\ Order /\ Fenced /\ Closing /\ ReadingInv /\ Next => ReadingInv'
<1> SUFFICES ASSUME TypeOK, Role, Order, Fenced, Closing, ReadingInv, Next PROVE ReadingInv'
  OBVIOUS
<1>1. Len(log) \in Nat /\ \A r \in Readers : reading[r].since \in Nat
  BY DEF TypeOK
<1>2. ASSUME NEW p \in Procs, WriteStep(p) PROVE ReadingInv'
  <2> DEFINE q == Req(p)
  <2>1. q \in Requests /\ At(p, job[p].pc) /\ q = job[p].req /\ q # None
    BY <1>2, WriteFrame, RequestType DEF Role, TypeOK, Phases, Req, At, Requests
  <2>2. UNCHANGED reading
    BY <1>2, WriteFrame
  <2>3. ASSUME UNCHANGED log,
               fence # None /\ current = fence.next => fence' = fence /\ current' = current
        PROVE  ReadingInv'
    BY <2>2, <2>3 DEF ReadingInv, WasVisible
  <2>4. ASSUME log' = Append(log, q),
               fence # None /\ current = fence.next => q = fence
        PROVE  ReadingInv'
    <3>1. Len(log') = Len(log) + 1 /\ log'[Len(log')] = q
      BY <2>1, <2>4, Appended DEF TypeOK
    <3>2. ASSUME NEW v, NEW since, WasVisible(v, since) PROVE WasVisible(v, since)'
      BY <2>1, <2>4, <3>2, SeenStays DEF TypeOK
    <3>3. ASSUME NEW r \in Readers
          PROVE  \E i \in DOMAIN log' : reading[r].since =< i /\ log'[i].next = q.next
      <4>1. reading[r].since =< Len(log') /\ Len(log') \in DOMAIN log'
        BY <1>1, <2>1, <2>4, <3>1 DEF ReadingInv, TypeOK
      <4> QED BY <3>1, <4>1
    <3>4. ASSUME NEW r \in Readers PROVE reading[r].since =< Len(log')
      BY <1>1, <3>1 DEF ReadingInv
    <3> QED BY <2>2, <2>4, <3>2, <3>3, <3>4 DEF ReadingInv, WasVisible
  <2>5. CASE Replace(p)
    <3>1. fence = None
      BY <2>1, <2>5 DEF Replace, At, Role, ApplyPhases
    <3> QED BY <2>4, <2>5, <3>1 DEF Replace
  <2>6. CASE LowerFence(p)
    <3>1. fence = q
      BY <2>1, <2>6 DEF LowerFence, At, Role, FencedPhases
    <3> QED BY <2>4, <2>6, <3>1 DEF LowerFence
  <2>7. CASE RaiseFence(p)
    BY <2>3, <2>7 DEF RaiseFence
  <2>8. CASE SwapOutcome(p)
    <3>1. fence = q
      BY <2>1, <2>8 DEF SwapOutcome, At, Role, FencedPhases
    <3> QED BY <2>3, <2>8, <3>1 DEF SwapOutcome
  <2>9. CASE Withdraw(p)
    <3>1. fence = q /\ current = q.expected
      BY <2>1, <2>9 DEF Withdraw, At, Role, FencedPhases
    <3> QED BY <2>1, <2>3, <2>9, <3>1 DEF Withdraw, Fenced
  <2>10. CASE \/ Intend(p) \/ Archive(p) \/ Seal(p) \/ Mark(p) \/ Persist(p) \/ FileOutcome(p)
              \/ RecordOutcome(p) \/ SaveOutcome(p)
    <3>1. UNCHANGED <<fence, current, log>>
      BY <2>10 DEF Intend, Archive, Seal, Mark, Persist, FileOutcome, RecordOutcome, SaveOutcome
    <3> QED BY <2>3, <3>1
  <2> QED BY <1>2, <2>5, <2>6, <2>7, <2>8, <2>9, <2>10 DEF WriteStep
<1>3. ASSUME NEW p \in Procs, CallStep(p) PROVE ReadingInv'
  BY <1>3, CallFrame DEF ReadingInv, WasVisible, disk
<1>4. ASSUME NEW r \in Readers, ReadStep(r) PROVE ReadingInv'
  <2>1. UNCHANGED <<fence, current, log>>
        /\ \A other \in Readers \ {r} : reading'[other] = reading[other]
    BY <1>4, ReadFrame DEF disk
  <2> DEFINE Good(read) ==
        /\ read.since =< Len(log)
        /\ read.pc \in {"archive", "sealed", "verify"} =>
             \/ WasVisible(read.version, read.since)
             \/ fence # None /\ current = fence.next /\ read.version = fence.next
        /\ read.pc = "returned" => WasVisible(read.version, read.since)
  <2>2. \A other \in Readers : Good(reading[other])
    BY DEF ReadingInv
  <2>3. Good(reading'[r])
    <3>1. CASE BeginRead(r)
      BY <1>1, <3>1 DEF BeginRead, TypeOK
    <3>2. CASE GiveUp(r)
      BY <1>1, <3>2 DEF GiveUp, Quiet, TypeOK
    <3>3. CASE ReadCurrent(r) /\ current # None
      <4>1. reading'[r] = [pc |-> "archive", version |-> current, since |-> reading[r].since]
        BY <3>3 DEF ReadCurrent, TypeOK
      <4>2. CASE Visible = current
        <5>1. Len(log) > 0 /\ log[Len(log)].next = current
          BY <1>1, <3>3, <4>2 DEF Order
        <5>2. Len(log) \in DOMAIN log /\ reading[r].since =< Len(log)
          BY <1>1, <2>2, <5>1 DEF TypeOK
        <5>3. WasVisible(current, reading[r].since)
          BY <5>1, <5>2 DEF WasVisible
        <5> QED BY <4>1, <5>2, <5>3
      <4>3. CASE Visible # current
        <5>1. fence # None /\ current = fence.next
          BY <4>3 DEF Visible, Fenced
        <5> QED BY <2>2, <4>1, <5>1
      <4> QED BY <4>2, <4>3
    <3>4. ASSUME NEW pc \in {"sealed", "verify"}, ReadOn(r, pc),
                 reading[r].pc \in {"archive", "sealed"}
          PROVE  Good(reading'[r])
      <4>1. /\ reading'[r].pc = pc /\ reading'[r].version = reading[r].version
            /\ reading'[r].since = reading[r].since
        BY <3>4 DEF ReadOn, TypeOK
      <4> QED BY <2>2, <3>4, <4>1
    <3>5. CASE EndRead(r) /\ fence = None
      <4>1. /\ reading[r].pc = "verify"
            /\ reading'[r].pc = "returned" /\ reading'[r].version = reading[r].version
            /\ reading'[r].since = reading[r].since
        BY <3>5 DEF EndRead, ReadOn, ReadAt, TypeOK
      <4> QED BY <2>2, <3>5, <4>1
    <3> QED BY <1>4, <3>1, <3>2, <3>3, <3>4, <3>5
            DEF ReadStep, ReadCurrent, ReadArchive, ReadSealed, EndRead, ReadAt
  <2> QED BY <2>1, <2>2, <2>3 DEF ReadingInv, WasVisible
<1> QED BY <1>2, <1>3, <1>4, Steps
-----------------------------------------------------------------------------
(* The theorems *)

LEMMA InitInv == Init => IInv
<1> SUFFICES ASSUME Init PROVE IInv
  OBVIOUS
<1> USE DEF Init, Idle, Quiet
<1>1. TypeOK
  BY DEF TypeOK, Phases, ReadPhases, Predictions
<1>2. Locked /\ Role
  BY DEF Locked, Role, ApplyPhases, FencedPhases
<1>3. Taken = {} /\ Len(log) = 0
  BY DEF Taken, ToSet
<1>4. Journals /\ Order
  BY <1>3 DEF Journals, Order, Visible
<1>5. Opening /\ EpisodeStaysReadable /\ Fenced
  BY DEF Opening, EpisodeStaysReadable, Readable, Fenced
<1>6. Applying /\ Closing
  BY DEF Applying, ApplyingBy, Closing, ClosingBy, ApplyPhases, FencedPhases
<1>7. Savings /\ ReadingInv
  BY <1>3 DEF Savings, ReadingInv
<1> QED BY <1>1, <1>2, <1>4, <1>5, <1>6, <1>7 DEF IInv

LEMMA StepInv == IInv /\ [Next]_vars => IInv'
<1>1. IInv /\ Next => IInv'
  BY TypeStep, LockedStep, RoleStep, JournalsStep, OrderStep, OpeningStep, ReadableStep,
     FencedStep, ApplyingStep, ClosingStep, SavingsStep, ReadingStep DEF IInv
<1>2. ASSUME IInv, UNCHANGED vars PROVE IInv'
  <2> USE <1>2 DEF IInv, vars
  <2>1. TypeOK' /\ Locked' /\ Role'
    BY DEF TypeOK, Locked, Role
  <2>2. Taken' = Taken /\ Visible' = Visible
    BY DEF Taken, Visible
  <2>3. Journals' /\ Order' /\ Opening'
    BY <2>2 DEF Journals, Order, Opening
  <2>4. EpisodeStaysReadable' /\ Fenced'
    BY <2>2 DEF EpisodeStaysReadable, Readable, Fenced
  <2>5. Applying' /\ Closing'
    BY <2>2 DEF Applying, ApplyingBy, Closing, ClosingBy
  <2>6. Savings' /\ ReadingInv'
    BY <2>2 DEF Savings, SavedFor, Later, ReadingInv, WasVisible
  <2> QED BY <2>1, <2>3, <2>4, <2>5, <2>6
<1> QED BY <1>1, <1>2

THEOREM EpisodeInvariance == Spec => []IInv
BY InitInv, StepInv, PTL DEF Spec

\* Every variable keeps its type.
THEOREM EpisodeTypes == Spec => []TypeOK
<1>1. IInv => TypeOK
  BY DEF IInv
<1> QED BY EpisodeInvariance, <1>1, PTL

\* No call of apply and no outcome, stopped wherever it was, leaves an episode that #record
\* rejects behind a fence that is down.
THEOREM NeverUnreadable == Spec => []EpisodeStaysReadable
<1>1. IInv => EpisodeStaysReadable
  BY DEF IInv
<1> QED BY EpisodeInvariance, <1>1, PTL

\* Whoever was given a result finds it, or what followed it, in the last commits.
THEOREM AnswersAreSaved == Spec => []AnsweredIsSaved
<1>1. ASSUME IInv PROVE AnsweredIsSaved
  <2> SUFFICES ASSUME NEW q \in answered
               PROVE  /\ q.next \in saved.archive /\ q.op \in saved.journal
                      /\ saved.current = current \/ Later(q, saved.current)
                      /\ q \in Applies /\ Prediction[q.next] # None
                           => saved.sealed = Prediction[q.next]
    BY DEF AnsweredIsSaved, Later
  <2>1. q \in Taken /\ q.op \in saved.journal /\ q \in Requests
    BY <1>1 DEF IInv, Savings, TypeOK
  <2>2. intents[q.op] = q
    BY <1>1, <2>1 DEF IInv, Journals
  <2>3. SavedFor(q)
    BY <1>1, <2>1, <2>2 DEF IInv, Savings
  <2> QED BY <2>1, <2>3 DEF SavedFor
<1> QED BY EpisodeInvariance, <1>1, PTL

\* A read without the lock returns a version that was visible while it ran.
THEOREM ReadsAreCurrent == Spec => []ReadWasCurrent
<1>1. ASSUME IInv PROVE ReadWasCurrent
  <2>1. ASSUME NEW r \in Readers, ReadAt(r, "returned")
        PROVE  \E i \in DOMAIN log : i >= reading[r].since /\ log[i].next = reading[r].version
    <3>1. WasVisible(reading[r].version, reading[r].since)
      BY <1>1, <2>1 DEF IInv, ReadingInv, ReadAt
    <3>2. DOMAIN log = 1..Len(log) /\ Len(log) \in Nat /\ reading[r].since \in Nat
      BY <1>1 DEF IInv, TypeOK
    <3> QED BY <3>1, <3>2 DEF WasVisible
  <2> QED BY <2>1 DEF ReadWasCurrent
<1> QED BY EpisodeInvariance, <1>1, PTL
-----------------------------------------------------------------------------
(* Every step implements a step of the record *)

RegisterStep == [Register!RNext]_(Register!rvars)

LEMMA WriteImplements ==
  ASSUME IInv, NEW p \in Procs, WriteStep(p)
  PROVE  RegisterStep
<1> DEFINE q == Req(p)
<1>1. q \in Requests /\ At(p, job[p].pc) /\ q = job[p].req
  BY WriteFrame, RequestType DEF IInv, Role, TypeOK, Phases, Req, At, Requests
<1>2. log \in Seq(Requests)
  BY DEF IInv, TypeOK
<1>3. CASE Replace(p)
  <2>1. /\ fence = None /\ current = q.expected /\ Legal(q)
        /\ \A t \in Taken : t.op # q.op
    BY <1>3, Fresh DEF IInv
  <2>2. Visible = q.expected /\ Visible' = q.next /\ UNCHANGED answered
    BY <1>3, <2>1 DEF Visible, Replace
  <2>3. Taken' = Taken \union {q}
    BY <1>1, <1>2, <1>3, Appended DEF Replace
  <2>4. Register!Take(q)
    BY <1>1, <2>1, <2>2, <2>3 DEF Register!Take, Taken
  <2> QED BY <1>1, <2>4 DEF RegisterStep, Register!RNext
<1>4. CASE LowerFence(p)
  <2>1. fence = q /\ current = q.next
    BY <1>1, <1>4 DEF IInv, Role, Closing, ClosingBy, LowerFence, At, FencedPhases
  <2>2. Legal(q) /\ \A t \in Taken : t.op # q.op
    BY <1>1, <2>1, RequestType DEF IInv, Fenced
  <2>3. Visible = q.expected /\ Visible' = q.next /\ answered' = answered \union {q}
    BY <1>1, <1>4, <2>1, RequestType DEF Visible, LowerFence
  <2>4. Taken' = Taken \union {q}
    BY <1>1, <1>2, <1>4, Appended DEF LowerFence
  <2>5. Register!TakeAndAnswer(q)
    BY <1>1, <2>2, <2>3, <2>4 DEF Register!TakeAndAnswer, Taken
  <2> QED BY <1>1, <2>5 DEF RegisterStep, Register!RNext
<1>5. ASSUME UNCHANGED <<log, answered>>, Visible' = Visible PROVE RegisterStep
  BY <1>5 DEF RegisterStep, Register!rvars
<1>6. CASE RaiseFence(p)
  <2>1. fence = None => Visible = q.expected
    BY <1>1, <1>6, RequestType DEF RaiseFence, Unmoved, Visible
  <2>2. fence' = q /\ Visible' = q.expected
    BY <1>1, <1>6, RequestType DEF RaiseFence, Visible
  <2>3. fence # None => Visible = q.expected
    BY <1>6 DEF RaiseFence, Visible
  <2> QED BY <1>5, <1>6, <2>1, <2>2, <2>3 DEF RaiseFence
<1>7. CASE Withdraw(p)
  <2>1. fence = q
    BY <1>1, <1>7 DEF IInv, Role, Withdraw, At, FencedPhases
  <2> QED BY <1>1, <1>5, <1>7, <2>1, RequestType DEF Withdraw, Visible
<1>8. CASE SwapOutcome(p)
  <2>1. fence = q
    BY <1>1, <1>8 DEF IInv, Role, SwapOutcome, At, FencedPhases
  <2> QED BY <1>1, <1>5, <1>8, <2>1, RequestType DEF SwapOutcome, Visible
<1>9. CASE \/ Intend(p) \/ Archive(p) \/ Seal(p) \/ Mark(p) \/ Persist(p) \/ FileOutcome(p)
           \/ RecordOutcome(p) \/ SaveOutcome(p)
  <2>1. UNCHANGED <<fence, current, log, answered>>
    BY <1>9 DEF Intend, Archive, Seal, Mark, Persist, FileOutcome, RecordOutcome, SaveOutcome
  <2> QED BY <1>5, <2>1 DEF Visible
<1> QED BY <1>3, <1>4, <1>6, <1>7, <1>8, <1>9 DEF WriteStep

LEMMA CallImplements ==
  ASSUME IInv, NEW p \in Procs, CallStep(p)
  PROVE  RegisterStep
<1>1. UNCHANGED <<log, Visible>>
  BY CallFrame DEF IInv, disk, Visible
<1>2. CASE UNCHANGED answered
  BY <1>1, <1>2 DEF RegisterStep, Register!rvars
<1>3. ASSUME NEW q \in Taken, answered' = answered \union {q} PROVE RegisterStep
  <2>1. q \in Requests
    BY <1>3, TakenType DEF IInv, TypeOK
  <2>2. Register!Answer(q)
    BY <1>1, <1>3 DEF Register!Answer, Taken
  <2> QED BY <2>1, <2>2 DEF RegisterStep, Register!RNext
<1>4. CASE Answer(p)
  <2>1. Req(p) \in Taken
    BY <1>4 DEF IInv, Applying, ApplyingBy, Answer, At, Req
  <2> QED BY <1>3, <1>4, <2>1 DEF Answer
<1>5. CASE Confirm(p)
  <2>1. Req(p) \in Taken
    BY <1>5 DEF IInv, Journals, Confirm
  <2> QED BY <1>3, <1>5, <2>1 DEF Confirm
<1>6. CASE \/ (\E q \in Applies : Apply(p, q)) \/ (\E q \in Outcomes : ApplyOutcome(p, q))
           \/ Check(p) \/ Stop(p)
  <2>1. UNCHANGED answered
    BY <1>6 DEF Apply, ApplyOutcome, Check, Stop
  <2> QED BY <1>2, <2>1
<1> QED BY <1>4, <1>5, <1>6 DEF CallStep

LEMMA StepImplements == IInv /\ [Next]_vars => RegisterStep
<1> SUFFICES ASSUME IInv, [Next]_vars PROVE RegisterStep
  OBVIOUS
<1>1. ASSUME UNCHANGED <<log, fence, current, answered>> PROVE RegisterStep
  BY <1>1 DEF RegisterStep, Register!rvars, Visible
<1>2. ASSUME NEW r \in Readers, ReadStep(r) PROVE RegisterStep
  BY <1>1, <1>2, ReadFrame DEF IInv, disk
<1>3. CASE UNCHANGED vars
  BY <1>1, <1>3 DEF vars
<1> QED BY <1>2, <1>3, Steps, WriteImplements, CallImplements

\* Refinement: to whoever respects the fence the episode is one compare-and-set record; each
\* operation takes effect at most once, legally, on the version it expected, then is answered.
THEOREM EpisodeIsARecord == Spec => CompareAndSet
<1>1. Init => Register!RInit
  BY DEF Init, Register!RInit, Visible, ToSet
<1>2. IInv /\ [Next]_vars => [Register!RNext]_(Register!rvars)
  BY StepImplements DEF RegisterStep
<1> QED BY EpisodeInvariance, <1>1, <1>2, PTL DEF Spec, CompareAndSet, Register!RSpec
=============================================================================
