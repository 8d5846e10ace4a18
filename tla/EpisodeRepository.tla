-------------------------- MODULE EpisodeRepository --------------------------
(***************************************************************************)
(* One Praxis episode on disk: the operations of EpisodeRepository         *)
(* (praxis/episode-repository.ts) that open, recommend and revise it, the  *)
(* outcome transaction that closes it (praxis/outcome-transaction.ts,      *)
(* canghai/memory-transaction.ts) and reads made without the lock.  Calls  *)
(* may be repeated, with the same or another body, and may stop anywhere:  *)
(* a cancelled signal, a failing port, a full disk or the death of the     *)
(* process.  Staging files, the exclusive creation of the lock and the     *)
(* evidence ports' verdicts are left out (a refusal of a port is a stop).  *)
(***************************************************************************)
EXTENDS Naturals, Sequences, SequencesExt

CONSTANTS
  Procs,
  Readers,
  Versions,    \* contents of the episode
  None,
  Applies,     \* requests of apply: [op, expected, next]
  Outcomes,    \* requests that come as a memory transaction
  Status,      \* Status[v], the episode's status
  Updated,     \* Updated[v], its updatedAt
  Prediction,  \* Prediction[v], None when the episode holds none
  Inputs,      \* Inputs[v], its historicalInputRefs
  Advice,      \* Advice[v], its decision, None when it holds none
  Sourced      \* versions whose decision names input references

Requests == Applies \union Outcomes

Ops == {q.op : q \in Requests}

\* updatedAt is the time of the Host event a request answers; an opening and its advice share it.
ASSUME UpdatedAssumption == Updated \in [Versions -> Nat]

ASSUME RequestsAssumption ==
  /\ Requests \subseteq [op : Ops, expected : Versions \union {None}, next : Versions]
  /\ None \notin Versions /\ None \notin Procs /\ None \notin Requests

\* A version names the run it was written by.
ASSUME OneOperationPerVersion ==
  \A q1, q2 \in Requests : q1.next = q2.next => q1.op = q2.op

\* The id of a new episode and of the operation that opens it come from one run.
ASSUME OneOpening ==
  \A q1, q2 \in Applies : q1.expected = None /\ q2.expected = None => q1.op = q2.op

ASSUME OutcomeAssumption ==
  /\ \A q \in Outcomes : q.expected \in Versions
  /\ {q.op : q \in Outcomes} \intersect {q.op : q \in Applies} = {}

ApplyPhases == {"check", "intend", "archive", "seal", "replace", "mark", "persist", "answer"}
FencedPhases == {"file", "swap", "record", "save", "lower"}
Phases == {"idle", "inspect"} \union ApplyPhases \union FencedPhases
ReadPhases == {"idle", "current", "archive", "sealed", "verify", "returned"}

VARIABLES
  lock,      \* owner of the memory mutation lock
  fence,     \* the outcome named by the transaction marker, or None
  current,   \* episode.json
  archive,   \* .versions
  sealed,    \* prediction.json
  intents,   \* intents[o]: the request in .operations/o.json, or an outcome's journal
  journal,   \* operations with .applied.json, and outcomes with a journal
  saved,     \* what the last commits hold of current, archive, sealed and journal
  job,       \* job[p]: the call p executes
  reading,   \* reading[r]: the read r executes
  log,       \* history: requests in the order they took effect
  answered   \* history: requests whose caller was given a result

vars == <<lock, fence, current, archive, sealed, intents, journal, saved, job, reading, log,
          answered>>

Idle == [pc |-> "idle", req |-> None, replay |-> FALSE]
Quiet == [pc |-> "idle", version |-> None, since |-> 0]

Init ==
  /\ lock = None /\ fence = None
  /\ current = None /\ archive = {} /\ sealed = None
  /\ intents = [o \in Ops |-> None] /\ journal = {}
  /\ saved = [current |-> None, archive |-> {}, sealed |-> None, journal |-> {}]
  /\ job = [p \in Procs |-> Idle]
  /\ reading = [r \in Readers |-> Quiet]
  /\ log = <<>> /\ answered = {}

At(p, pc) == job[p].pc = pc
Req(p) == job[p].req
Goto(p, pc) == job' = [job EXCEPT ![p].pc = pc]
Finish(p) == job' = [job EXCEPT ![p] = Idle]

-----------------------------------------------------------------------------
(* validateEpisodeV2Transition, and the check of an opening *)

Transitions ==
  [open |-> {"recommended", "abandoned", "expired"},
   recommended |-> {"recommended", "acted", "closed", "abandoned", "expired"},
   acted |-> {"observing", "closed"}, observing |-> {"closed"},
   closed |-> {}, abandoned |-> {}, expired |-> {}]

\* Faulty variant of LegalChange: a sealed prediction may be dropped or added later.
LegalUnsealed(v, w) ==
  \/ v = w
  \/ /\ Updated[w] >= Updated[v]
     /\ Status[w] \in Transitions[Status[v]]
     /\ Inputs[w] = Inputs[v]

LegalChange(v, w) ==
  \/ v = w
  \/ /\ Updated[w] >= Updated[v]
     /\ Status[w] \in Transitions[Status[v]]
     /\ Prediction[w] = Prediction[v]
     /\ Inputs[w] = Inputs[v]
     /\ Status[v] = "recommended" /\ Status[w] = "recommended" /\ Advice[v] # Advice[w]
          => w \in Sourced

Legal(q) ==
  IF q.expected = None THEN Status[q.next] = "open" ELSE LegalChange(q.expected, q.next)

\* #record finds no episode, or one it accepts.
Readable(version, archived, prediction) ==
  version = None \/ (version \in archived /\ prediction = Prediction[version])

-----------------------------------------------------------------------------
(* apply *)

Begin(p, q, pc) == job' = [job EXCEPT ![p] = [pc |-> pc, req |-> q, replay |-> FALSE]]

(* withMemoryMutationLock, which checks the fence before and once it holds the *)
(* lock.  A call that finds the lock taken or the fence up is refused.         *)
Apply(p, q) ==
  /\ At(p, "idle")
  /\ lock = None /\ fence = None
  /\ lock' = p
  /\ Begin(p, q, "check")
  /\ UNCHANGED <<fence, current, archive, sealed, intents, journal, saved, reading, log, answered>>

Recorded(q) == intents[q.op] = q

\* Faulty variant of Check: a recorded operation need not compare versions again.
CheckTrustingIntent(p) ==
  LET q == Req(p) IN
  /\ At(p, "check")
  /\ intents[q.op] \in {None, q}
  /\ Readable(current, archive, sealed)
  /\ IF q.op \in journal
     THEN /\ q.next \in archive
          /\ Goto(p, "persist")
     ELSE /\ Recorded(q) \/ (current = q.expected /\ Legal(q))
          /\ job' = [job EXCEPT ![p] = [pc |-> "intend", req |-> q,
                                        replay |-> Recorded(q) /\ current = q.next]]
  /\ UNCHANGED <<lock, fence, current, archive, sealed, intents, journal, saved, reading, log,
                 answered>>

\* Faulty variant of Check: the answer of an applied operation is already on the remote.
CheckAnswersApplied(p) ==
  LET q == Req(p) IN
  /\ At(p, "check")
  /\ intents[q.op] \in {None, q}
  /\ Readable(current, archive, sealed)
  /\ IF q.op \in journal
     THEN /\ q.next \in archive
          /\ Goto(p, "answer")
     ELSE LET replay == Recorded(q) /\ current = q.next IN
          /\ replay \/ (current = q.expected /\ Legal(q))
          /\ job' = [job EXCEPT ![p] = [pc |-> "intend", req |-> q, replay |-> replay]]
  /\ UNCHANGED <<lock, fence, current, archive, sealed, intents, journal, saved, reading, log,
                 answered>>

(* The journal, the record, compare and set, the transition.  A call that is *)
(* refused stops.                                                            *)
Check(p) ==
  LET q == Req(p) IN
  /\ At(p, "check")
  /\ intents[q.op] \in {None, q}
  /\ Readable(current, archive, sealed)
  /\ IF q.op \in journal
     THEN /\ q.next \in archive
          /\ Goto(p, "persist")
     ELSE LET replay == Recorded(q) /\ current = q.next IN
          /\ replay \/ (current = q.expected /\ Legal(q))
          /\ job' = [job EXCEPT ![p] = [pc |-> "intend", req |-> q, replay |-> replay]]
  /\ UNCHANGED <<lock, fence, current, archive, sealed, intents, journal, saved, reading, log,
                 answered>>

Intend(p) ==
  /\ At(p, "intend")
  /\ intents' = [intents EXCEPT ![Req(p).op] = Req(p)]
  /\ Goto(p, "archive")
  /\ UNCHANGED <<lock, fence, current, archive, sealed, journal, saved, reading, log, answered>>

Archive(p) ==
  /\ At(p, "archive")
  /\ archive' = archive \union {Req(p).next}
  /\ Goto(p, "seal")
  /\ UNCHANGED <<lock, fence, current, sealed, intents, journal, saved, reading, log, answered>>

\* prediction.json is never replaced: another content stops the call.
Seal(p) ==
  LET prediction == Prediction[Req(p).next] IN
  /\ At(p, "seal")
  /\ prediction # None => sealed \in {None, prediction}
  /\ sealed' = IF prediction = None THEN sealed ELSE prediction
  /\ Goto(p, IF job[p].replay THEN "mark" ELSE "replace")
  /\ UNCHANGED <<lock, fence, current, archive, intents, journal, saved, reading, log, answered>>

Replace(p) ==
  /\ At(p, "replace")
  /\ current' = Req(p).next
  /\ log' = Append(log, Req(p))
  /\ Goto(p, "mark")
  /\ UNCHANGED <<lock, fence, archive, sealed, intents, journal, saved, reading, answered>>

Mark(p) ==
  /\ At(p, "mark")
  /\ journal' = journal \union {Req(p).op}
  /\ Goto(p, "persist")
  /\ UNCHANGED <<lock, fence, current, archive, sealed, intents, saved, reading, log, answered>>

\* The port commits the working tree's content of the paths it is given.
Persist(p) ==
  LET q == Req(p) IN
  /\ At(p, "persist")
  /\ saved' = [current |-> current,
               archive |-> saved.archive \union {q.next},
               sealed |-> IF Prediction[q.next] = None THEN saved.sealed ELSE sealed,
               journal |-> saved.journal \union {q.op}]
  /\ Goto(p, "answer")
  /\ UNCHANGED <<lock, fence, current, archive, sealed, intents, journal, reading, log, answered>>

Answer(p) ==
  /\ At(p, "answer")
  /\ answered' = answered \union {Req(p)}
  /\ lock' = None
  /\ Finish(p)
  /\ UNCHANGED <<fence, current, archive, sealed, intents, journal, saved, reading, log>>

-----------------------------------------------------------------------------
(* The outcome transaction; its recovery calls it again with the plan of the marker *)

\* applyMemoryTransaction takes the lock whether or not a fence is up.
ApplyOutcome(p, q) ==
  /\ At(p, "idle")
  /\ lock = None
  /\ lock' = p
  /\ Begin(p, q, "inspect")
  /\ UNCHANGED <<fence, current, archive, sealed, intents, journal, saved, reading, log, answered>>

\* Every file is as the plan found it or, when the plan is resumed, as it leaves it.
Unmoved(q) ==
  /\ current = q.expected \/ (fence = q /\ current = q.next)
  /\ q.next \notin archive \/ fence = q

RaiseFence(p) ==
  LET q == Req(p) IN
  /\ At(p, "inspect")
  /\ fence \in {None, q} /\ intents[q.op] \in {None, q}
  /\ q.op \in journal => fence = q
  /\ Unmoved(q) /\ Legal(q)
  /\ fence' = q
  /\ Goto(p, "file")
  /\ UNCHANGED <<lock, current, archive, sealed, intents, journal, saved, reading, log, answered>>

\* The journal is there and the fence is down: nothing is left to do.
Confirm(p) ==
  LET q == Req(p) IN
  /\ At(p, "inspect")
  /\ fence = None /\ intents[q.op] = q
  /\ q.op \in saved.journal
  /\ answered' = answered \union {q}
  /\ lock' = None
  /\ Finish(p)
  /\ UNCHANGED <<fence, current, archive, sealed, intents, journal, saved, reading, log>>

FileOutcome(p) ==
  /\ At(p, "file")
  /\ archive' = archive \union {Req(p).next}
  /\ Goto(p, "swap")
  /\ UNCHANGED <<lock, fence, current, sealed, intents, journal, saved, reading, log, answered>>

SwapOutcome(p) ==
  /\ At(p, "swap")
  /\ current' = Req(p).next
  /\ Goto(p, "record")
  /\ UNCHANGED <<lock, fence, archive, sealed, intents, journal, saved, reading, log, answered>>

RecordOutcome(p) ==
  /\ At(p, "record")
  /\ intents' = [intents EXCEPT ![Req(p).op] = Req(p)]
  /\ journal' = journal \union {Req(p).op}
  /\ Goto(p, "save")
  /\ UNCHANGED <<lock, fence, current, archive, sealed, saved, reading, log, answered>>

SaveOutcome(p) ==
  /\ At(p, "save")
  /\ saved' = [saved EXCEPT !.current = current,
                            !.archive = @ \union {Req(p).next},
                            !.journal = @ \union {Req(p).op}]
  /\ Goto(p, "lower")
  /\ UNCHANGED <<lock, fence, current, archive, sealed, intents, journal, reading, log, answered>>

LowerFence(p) ==
  /\ At(p, "lower")
  /\ fence' = None
  /\ log' = Append(log, Req(p))
  /\ answered' = answered \union {Req(p)}
  /\ lock' = None
  /\ Finish(p)
  /\ UNCHANGED <<current, archive, sealed, intents, journal, saved, reading>>

\* A failure before anything was written withdraws the marker.
Withdraw(p) ==
  LET q == Req(p) IN
  /\ At(p, "file")
  /\ current = q.expected /\ q.next \notin archive /\ q.op \notin journal
  /\ fence' = None
  /\ lock' = None
  /\ Finish(p)
  /\ UNCHANGED <<current, archive, sealed, intents, journal, saved, reading, log, answered>>

\* An error, a cancelled signal, the end of the process: what is on disk stays.
Stop(p) ==
  /\ ~At(p, "idle")
  /\ lock' = IF lock = p THEN None ELSE lock
  /\ Finish(p)
  /\ UNCHANGED <<fence, current, archive, sealed, intents, journal, saved, reading, log, answered>>

-----------------------------------------------------------------------------
(* read, which takes no lock *)

ReadAt(r, pc) == reading[r].pc = pc
ReadOn(r, pc) == reading' = [reading EXCEPT ![r].pc = pc]
GiveUp(r) == reading' = [reading EXCEPT ![r] = Quiet]

BeginRead(r) ==
  /\ reading[r].pc \in {"idle", "returned"}
  /\ fence = None
  /\ reading' = [reading EXCEPT ![r] = [pc |-> "current", version |-> None, since |-> Len(log)]]
  /\ UNCHANGED <<lock, fence, current, archive, sealed, intents, journal, saved, job, log, answered>>

ReadCurrent(r) ==
  /\ ReadAt(r, "current")
  /\ IF current = None
     THEN GiveUp(r)
     ELSE reading' = [reading EXCEPT ![r] = [pc |-> "archive", version |-> current,
                                             since |-> reading[r].since]]
  /\ UNCHANGED <<lock, fence, current, archive, sealed, intents, journal, saved, job, log, answered>>

ReadArchive(r) ==
  /\ ReadAt(r, "archive")
  /\ IF reading[r].version \in archive THEN ReadOn(r, "sealed") ELSE GiveUp(r)
  /\ UNCHANGED <<lock, fence, current, archive, sealed, intents, journal, saved, job, log, answered>>

ReadSealed(r) ==
  /\ ReadAt(r, "sealed")
  /\ IF sealed = Prediction[reading[r].version] THEN ReadOn(r, "verify") ELSE GiveUp(r)
  /\ UNCHANGED <<lock, fence, current, archive, sealed, intents, journal, saved, job, log, answered>>

\* Faulty variant of EndRead: the fence was down when the read began.
EndReadUnchecked(r) ==
  /\ ReadAt(r, "verify")
  /\ ReadOn(r, "returned")
  /\ UNCHANGED <<lock, fence, current, archive, sealed, intents, journal, saved, job, log, answered>>

EndRead(r) ==
  /\ ReadAt(r, "verify")
  /\ IF fence = None THEN ReadOn(r, "returned") ELSE GiveUp(r)
  /\ UNCHANGED <<lock, fence, current, archive, sealed, intents, journal, saved, job, log, answered>>

-----------------------------------------------------------------------------
Next ==
  \/ \E p \in Procs :
       \/ \E q \in Applies : Apply(p, q)
       \/ \E q \in Outcomes : ApplyOutcome(p, q)
       \/ Check(p) \/ Intend(p) \/ Archive(p) \/ Seal(p) \/ Replace(p) \/ Mark(p)
       \/ Persist(p) \/ Answer(p)
       \/ RaiseFence(p) \/ Confirm(p) \/ FileOutcome(p) \/ SwapOutcome(p)
       \/ RecordOutcome(p) \/ SaveOutcome(p) \/ LowerFence(p) \/ Withdraw(p)
       \/ Stop(p)
  \/ \E r \in Readers :
       BeginRead(r) \/ ReadCurrent(r) \/ ReadArchive(r) \/ ReadSealed(r) \/ EndRead(r)

Spec == Init /\ [][Next]_vars

-----------------------------------------------------------------------------
(* Properties *)

Predictions == {Prediction[v] : v \in Versions} \union {None}

\* The type of every variable: a lock or fence is a call or None, a file a version or absent.
TypeOK ==
  /\ lock \in Procs \union {None}
  /\ fence \in Outcomes \union {None}
  /\ current \in Versions \union {None} /\ archive \in SUBSET Versions
  /\ sealed \in Predictions /\ journal \in SUBSET Ops
  /\ saved \in [current : Versions \union {None}, archive : SUBSET Versions,
                sealed : Predictions, journal : SUBSET Ops]
  /\ intents \in [Ops -> Requests \union {None}]
  /\ job \in [Procs -> [pc : Phases, req : Requests \union {None}, replay : BOOLEAN]]
  /\ reading \in [Readers -> [pc : ReadPhases, version : Versions \union {None}, since : Nat]]
  /\ log \in Seq(Requests) /\ answered \in SUBSET Requests

\* While no fence is up, the episode on disk is one #record accepts, whatever call was
\* stopped where: its version is archived and prediction.json is the prediction it holds.
EpisodeStaysReadable == fence = None => Readable(current, archive, sealed)

\* A caller of apply, or of an outcome, that was given a result can rely on the commit: the
\* version it wrote is archived there with its prediction, the operation is recorded, and
\* episode.json there is that on disk or a version that took effect no earlier than the caller's.
AnsweredIsSaved ==
  \A q \in answered :
    /\ q.next \in saved.archive /\ q.op \in saved.journal
    /\ \/ saved.current = current
       \/ \E i, j \in DOMAIN log : i =< j /\ log[i] = q /\ log[j].next = saved.current
    /\ q \in Applies /\ Prediction[q.next] # None => saved.sealed = Prediction[q.next]

\* A read made without the lock returns a version that was current, for readers that
\* respect the fence, at some time between its beginning and its end.
ReadWasCurrent ==
  \A r \in Readers :
    ReadAt(r, "returned") =>
      \E i \in DOMAIN log : i >= reading[r].since /\ log[i].next = reading[r].version

\* While an outcome is fenced its effect is not yet visible.
Visible == IF fence = None THEN current ELSE fence.expected

Register == INSTANCE VersionedRecord WITH
  Allowed <- {q \in Requests : Legal(q)},
  record <- Visible, taken <- ToSet(log)

\* Operations and outcomes implement a compare-and-set record: each takes effect at most once,
\* on the version it expected, by a legal transition, and only then is it answered.
CompareAndSet == Register!RSpec
=============================================================================
