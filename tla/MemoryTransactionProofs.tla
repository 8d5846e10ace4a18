----------------------- MODULE MemoryTransactionProofs -----------------------
(***************************************************************************)
(* Safety of MemoryTransaction for every number of calls, plans and files: *)
(* one inductive invariant, from which type correctness, exclusion, the    *)
(* fence and durability before publication follow, and from which every    *)
(* step implements a step of AtomicPublication; and what a CatalogReader   *)
(* hands out, whatever happened between its two looks at the fence.        *)
(***************************************************************************)
EXTENDS MemoryTransaction, TLAPS

\* Phases whose call executes or abandons the plan named by the marker.
Guarded ==
  {"validate", "write", "journal", "journaling", "persist", "publish", "unlink", "undo"}

Before(i) == \A f \in Writes[i.op] : files[f] = i.before[f]
Replaced(i) == \A f \in Writes[i.op] : files[f] = After[i.op][f]

\* What call p relies on in each of its phases.
PhaseInv(p) ==
  /\ pc[p] \in Guarded \union {"planned", "locked", "mark", "marking", "confirm"} =>
       intent[p] \in Intents
  /\ pc[p] \in {"mark", "marking"} => journal[intent[p].op] = None /\ Before(intent[p])
  /\ pc[p] = "mark" => marker = None
  /\ pc[p] = "marking" => marker = Torn
  /\ pc[p] \in Guarded => marker = intent[p]
  /\ pc[p] \in {"validate", "write"} => journal[intent[p].op] \in {None, intent[p]}
  /\ pc[p] = "write" =>
       /\ todo[p] \subseteq Writes[intent[p].op]
       /\ \A f \in Writes[intent[p].op] \ todo[p] : files[f] = After[intent[p].op][f]
  /\ pc[p] \in {"journal", "journaling", "persist", "publish", "unlink"} => Replaced(intent[p])
  /\ pc[p] = "journal" => journal[intent[p].op] = None
  /\ pc[p] = "journaling" => journal[intent[p].op] = Torn
  /\ pc[p] \in {"persist", "publish", "unlink", "confirm"} => journal[intent[p].op] = intent[p]
  /\ pc[p] \in {"publish", "unlink"} => intent[p].op \in durable
  /\ pc[p] \in {"confirm", "directWork"} => marker = None

IInv ==
  /\ TypeOK
  /\ OneWriter
  /\ \A p \in Procs : PhaseInv(p)
  /\ FenceHolds
  /\ PublishedIsDurable
-----------------------------------------------------------------------------
(* Steps and what they leave alone *)

\* Steps that change a file: they are taken under the lock.
FileStep(p) ==
  \/ CreateMarker(p) \/ FillMarker(p) \/ (\E f \in Files : WriteFile(p, f))
  \/ CreateJournal(p) \/ FillJournal(p) \/ Unlink(p) \/ Undo(p)
  \/ (\E w \in Direct : WriteDirect(p, w))

\* All other steps of a call.
QuietStep(p) ==
  \/ (\E o \in Ops : Plan(p, o)) \/ Resume(p) \/ AcquireLock(p) \/ FindStale(p) \/ Reclaim(p) \/ LockBusy(p) \/ Inspect(p)
  \/ Validate(p) \/ WritesDone(p) \/ Persist(p) \/ PublishView(p) \/ Confirm(p)
  \/ ReleaseLock(p) \/ StartDirect(p) \/ RecheckDirect(p) \/ FinishDirect(p)
  \/ FailGuarded(p) \/ FailPlain(p) \/ Crash(p)

LEMMA CallSteps == \A p \in Procs : ProcStep(p) <=> FileStep(p) \/ QuietStep(p)
  BY DEF ProcStep, Progress, FileStep, QuietStep

\* A quiet step leaves the files, the marker and the journals alone; it can only add
\* the operation of its own plan to the durable ones.
LEMMA QuietFrame ==
  ASSUME NEW p \in Procs, QuietStep(p)
  PROVE  /\ UNCHANGED <<files, marker, journal>>
         /\ durable' \in {durable, durable \union {intent[p].op}}
         /\ durable' # durable => pc[p] \in {"persist", "confirm"}
         /\ acked' # acked => Confirm(p)
BY DEF QuietStep, Plan, Resume, AcquireLock, FindStale, Reclaim, LockBusy, Inspect, Validate, WritesDone, Persist,
       PublishView, Confirm, ReleaseLock, StartDirect, RecheckDirect, FinishDirect,
       FailGuarded, FailPlain, Crash, Goto

\* Whoever changes a file holds the lock before and after.
LEMMA FileFrame ==
  ASSUME TypeOK, NEW p \in Procs, FileStep(p)
  PROVE  pc[p] \in Holding /\ lock' = lock
BY DEF FileStep, CreateMarker, FillMarker, WriteFile, CreateJournal, FillJournal, Unlink, Undo,
       WriteDirect, Goto, Holding, Phases

\* A step of one call leaves the program counter and the plan of the others alone.
LEMMA OtherCalls ==
  ASSUME TypeOK, NEW p \in Procs, ProcStep(p), NEW q \in Procs, q # p
  PROVE  UNCHANGED <<pc[q], intent[q], todo[q]>>
<1> USE DEF TypeOK, Goto
<1>1. ASSUME NEW o \in Ops, Plan(p, o) PROVE UNCHANGED <<pc[q], intent[q], todo[q]>> BY <1>1 DEF Plan
<1>2. CASE Resume(p) BY <1>2 DEF Resume
<1>3. CASE AcquireLock(p) BY <1>3 DEF AcquireLock
<1>4. CASE LockBusy(p) BY <1>4 DEF LockBusy
<1>5. CASE Inspect(p) BY <1>5 DEF Inspect
<1>6. CASE CreateMarker(p) BY <1>6 DEF CreateMarker
<1>7. CASE FillMarker(p) BY <1>7 DEF FillMarker
<1>8. CASE Validate(p) BY <1>8 DEF Validate
<1>9. ASSUME NEW f \in Files, WriteFile(p, f) PROVE UNCHANGED <<pc[q], intent[q], todo[q]>> BY <1>9 DEF WriteFile
<1>10. CASE WritesDone(p) BY <1>10 DEF WritesDone
<1>11. CASE CreateJournal(p) BY <1>11 DEF CreateJournal
<1>12. CASE FillJournal(p) BY <1>12 DEF FillJournal
<1>13. CASE Persist(p) BY <1>13 DEF Persist
<1>14. CASE PublishView(p) BY <1>14 DEF PublishView
<1>15. CASE Unlink(p) BY <1>15 DEF Unlink
<1>16. CASE Undo(p) BY <1>16 DEF Undo
<1>17. CASE Confirm(p) BY <1>17 DEF Confirm
<1>18. CASE ReleaseLock(p) BY <1>18 DEF ReleaseLock
<1>19. CASE StartDirect(p) BY <1>19 DEF StartDirect
<1>20. CASE FindStale(p) \/ Reclaim(p) BY <1>20 DEF FindStale, Reclaim
<1>21. CASE RecheckDirect(p) BY <1>21 DEF RecheckDirect
<1>22. ASSUME NEW w \in Direct, WriteDirect(p, w) PROVE UNCHANGED <<pc[q], intent[q], todo[q]>> BY <1>22 DEF WriteDirect
<1>23. CASE FinishDirect(p) BY <1>23 DEF FinishDirect
<1>24. CASE FailGuarded(p) BY <1>24 DEF FailGuarded
<1>25. CASE FailPlain(p) BY <1>25 DEF FailPlain
<1>26. CASE Crash(p) BY <1>26 DEF Crash
<1> QED BY <1>1, <1>2, <1>3, <1>4, <1>5, <1>6, <1>7, <1>8, <1>9, <1>10, <1>11, <1>12,
     <1>13, <1>14, <1>15, <1>16, <1>17, <1>18, <1>19, <1>20, <1>21, <1>22, <1>23, <1>24,
     <1>25, <1>26 DEF ProcStep, Progress

-----------------------------------------------------------------------------
(* Each part of the invariant is preserved by a step of a call *)

\* The variables a call may change.
CallTypes ==
  /\ files \in [Files -> Contents]
  /\ marker \in Intents \union {None, Torn}
  /\ journal \in [Ops -> Intents \union {None, Torn}]
  /\ lock \in Procs \union {Free, Stale}
  /\ durable \subseteq Ops
  /\ acked \subseteq Ops
  /\ pc \in [Procs -> Phases]
  /\ intent \in [Procs -> Intents \union {None}]
  /\ todo \in [Procs -> SUBSET Files]

LEMMA TypeStep ==
  ASSUME IInv, NEW p \in Procs, ProcStep(p)
  PROVE  CallTypes'
<1>a. CallTypes /\ PhaseInv(p)
  BY DEF IInv, TypeOK, CallTypes
<1> USE <1>a, ConstantsAssumption
       DEF Goto, CallTypes, PhaseInv, Guarded, Phases, Intents, IsIntent
<1>1. ASSUME NEW o \in Ops, Plan(p, o) PROVE CallTypes' BY <1>1 DEF Plan
<1>2. CASE Resume(p)
  <2>1. UNCHANGED <<files, marker, journal, lock, durable, acked, todo>> BY <1>2 DEF Resume
  <2>2. \/ intent' = [intent EXCEPT ![p] = marker] /\ marker \in Intents
        \/ \E o \in Ops : intent' = [intent EXCEPT ![p] = journal[o]] /\ journal[o] \in Intents
    BY <1>2 DEF Resume
  <2>3. pc' \in [Procs -> Phases] BY <1>2 DEF Resume
  <2> QED BY <2>1, <2>2, <2>3
<1>3. CASE AcquireLock(p) BY <1>3 DEF AcquireLock
<1>4. CASE LockBusy(p) BY <1>4 DEF LockBusy
<1>5. CASE Inspect(p) BY <1>5 DEF Inspect
<1>6. CASE CreateMarker(p) BY <1>6 DEF CreateMarker
<1>7. CASE FillMarker(p) BY <1>7 DEF FillMarker
<1>8. CASE Validate(p) BY <1>8 DEF Validate
<1>9. ASSUME NEW f \in Files, WriteFile(p, f) PROVE CallTypes'
  <2>1. pc[p] = "write" BY <1>9 DEF WriteFile
  <2>2. After[intent[p].op][f] \in Contents BY <2>1
  <2> QED BY <1>9, <2>2 DEF WriteFile
<1>10. CASE WritesDone(p) BY <1>10 DEF WritesDone
<1>11. CASE CreateJournal(p) BY <1>11 DEF CreateJournal
<1>12. CASE FillJournal(p) BY <1>12 DEF FillJournal
<1>13. CASE Persist(p) BY <1>13 DEF Persist
<1>14. CASE PublishView(p) BY <1>14 DEF PublishView
<1>15. CASE Unlink(p) BY <1>15 DEF Unlink
<1>16. CASE Undo(p) BY <1>16 DEF Undo
<1>17. CASE Confirm(p) BY <1>17 DEF Confirm
<1>18. CASE ReleaseLock(p) BY <1>18 DEF ReleaseLock
<1>19. CASE StartDirect(p) BY <1>19 DEF StartDirect
<1>20. CASE FindStale(p) \/ Reclaim(p) BY <1>20 DEF FindStale, Reclaim
<1>21. CASE RecheckDirect(p) BY <1>21 DEF RecheckDirect
<1>22. ASSUME NEW w \in Direct, WriteDirect(p, w) PROVE CallTypes' BY <1>22 DEF WriteDirect
<1>23. CASE FinishDirect(p) BY <1>23 DEF FinishDirect
<1>24. CASE FailGuarded(p) BY <1>24 DEF FailGuarded
<1>25. CASE FailPlain(p) BY <1>25 DEF FailPlain
<1>26. CASE Crash(p) BY <1>26 DEF Crash
<1> QED BY <1>1, <1>2, <1>3, <1>4, <1>5, <1>6, <1>7, <1>8, <1>9, <1>10, <1>11, <1>12,
     <1>13, <1>14, <1>15, <1>16, <1>17, <1>18, <1>19, <1>20, <1>21, <1>22, <1>23, <1>24,
     <1>25, <1>26 DEF ProcStep, Progress

\* A call enters the holding phases only by taking a lock that is free or stale.
LEMMA OwnerStep ==
  ASSUME IInv, NEW p \in Procs, ProcStep(p)
  PROVE  OneWriter'
<1>a. CallTypes /\ OneWriter
  BY DEF IInv, TypeOK, CallTypes
<1> USE <1>a, SentinelAssumption DEF Goto, CallTypes, OneWriter, Phases, Holding
<1>1. ASSUME NEW o \in Ops, Plan(p, o) PROVE OneWriter' BY <1>1 DEF Plan
<1>2. CASE Resume(p) BY <1>2 DEF Resume
<1>3. CASE AcquireLock(p) BY <1>3 DEF AcquireLock
<1>4. CASE LockBusy(p) BY <1>4 DEF LockBusy
<1>5. CASE Inspect(p) BY <1>5 DEF Inspect
<1>6. CASE CreateMarker(p) BY <1>6 DEF CreateMarker
<1>7. CASE FillMarker(p) BY <1>7 DEF FillMarker
<1>8. CASE Validate(p) BY <1>8 DEF Validate
<1>9. ASSUME NEW f \in Files, WriteFile(p, f) PROVE OneWriter' BY <1>9 DEF WriteFile
<1>10. CASE WritesDone(p) BY <1>10 DEF WritesDone
<1>11. CASE CreateJournal(p) BY <1>11 DEF CreateJournal
<1>12. CASE FillJournal(p) BY <1>12 DEF FillJournal
<1>13. CASE Persist(p) BY <1>13 DEF Persist
<1>14. CASE PublishView(p) BY <1>14 DEF PublishView
<1>15. CASE Unlink(p) BY <1>15 DEF Unlink
<1>16. CASE Undo(p) BY <1>16 DEF Undo
<1>17. CASE Confirm(p) BY <1>17 DEF Confirm
<1>18. CASE ReleaseLock(p) BY <1>18 DEF ReleaseLock
<1>19. CASE StartDirect(p) BY <1>19 DEF StartDirect
<1>20. CASE FindStale(p) \/ Reclaim(p) BY <1>20 DEF FindStale, Reclaim
<1>21. CASE RecheckDirect(p) BY <1>21 DEF RecheckDirect
<1>22. ASSUME NEW w \in Direct, WriteDirect(p, w) PROVE OneWriter' BY <1>22 DEF WriteDirect
<1>23. CASE FinishDirect(p) BY <1>23 DEF FinishDirect
<1>24. CASE FailGuarded(p) BY <1>24 DEF FailGuarded
<1>25. CASE FailPlain(p) BY <1>25 DEF FailPlain
<1>26. CASE Crash(p) BY <1>26 DEF Crash
<1> QED BY <1>1, <1>2, <1>3, <1>4, <1>5, <1>6, <1>7, <1>8, <1>9, <1>10, <1>11, <1>12,
     <1>13, <1>14, <1>15, <1>16, <1>17, <1>18, <1>19, <1>20, <1>21, <1>22, <1>23, <1>24,
     <1>25, <1>26 DEF ProcStep, Progress

\* Each phase establishes what the next one relies on.
LEMMA OwnPhaseStep ==
  ASSUME IInv, NEW p \in Procs, ProcStep(p)
  PROVE  PhaseInv(p)'
<1>a. CallTypes /\ PhaseInv(p)
  BY DEF IInv, TypeOK, CallTypes
<1> USE <1>a, ConstantsAssumption, SentinelAssumption
       DEF Goto, CallTypes, PhaseInv, Guarded, Phases, Intents, IsIntent, Before, Replaced,
           ExpectedText
<1>1. ASSUME NEW o \in Ops, Plan(p, o) PROVE PhaseInv(p)' BY <1>1 DEF Plan
<1>2. CASE Resume(p) BY <1>2 DEF Resume
<1>3. CASE AcquireLock(p) BY <1>3 DEF AcquireLock
<1>4. CASE LockBusy(p) BY <1>4 DEF LockBusy
<1>5. CASE Inspect(p) BY <1>5 DEF Inspect
<1>6. CASE CreateMarker(p) BY <1>6 DEF CreateMarker
<1>7. CASE FillMarker(p) BY <1>7 DEF FillMarker
<1>8. CASE Validate(p) BY <1>8 DEF Validate
<1>9. ASSUME NEW f \in Files, WriteFile(p, f) PROVE PhaseInv(p)' BY <1>9 DEF WriteFile
<1>10. CASE WritesDone(p) BY <1>10 DEF WritesDone
<1>11. CASE CreateJournal(p) BY <1>11 DEF CreateJournal
<1>12. CASE FillJournal(p) BY <1>12 DEF FillJournal
<1>13. CASE Persist(p) BY <1>13 DEF Persist
<1>14. CASE PublishView(p) BY <1>14 DEF PublishView
<1>15. CASE Unlink(p) BY <1>15 DEF Unlink
<1>16. CASE Undo(p) BY <1>16 DEF Undo
<1>17. CASE Confirm(p) BY <1>17 DEF Confirm
<1>18. CASE ReleaseLock(p) BY <1>18 DEF ReleaseLock
<1>19. CASE StartDirect(p) BY <1>19 DEF StartDirect
<1>20. CASE FindStale(p) \/ Reclaim(p) BY <1>20 DEF FindStale, Reclaim
<1>21. CASE RecheckDirect(p) BY <1>21 DEF RecheckDirect
<1>22. ASSUME NEW w \in Direct, WriteDirect(p, w) PROVE PhaseInv(p)' BY <1>22 DEF WriteDirect
<1>23. CASE FinishDirect(p) BY <1>23 DEF FinishDirect
<1>24. CASE FailGuarded(p) BY <1>24 DEF FailGuarded
<1>25. CASE FailPlain(p) BY <1>25 DEF FailPlain
<1>26. CASE Crash(p) BY <1>26 DEF Crash
<1> QED BY <1>1, <1>2, <1>3, <1>4, <1>5, <1>6, <1>7, <1>8, <1>9, <1>10, <1>11, <1>12,
     <1>13, <1>14, <1>15, <1>16, <1>17, <1>18, <1>19, <1>20, <1>21, <1>22, <1>23, <1>24,
     <1>25, <1>26 DEF ProcStep, Progress

\* No call relies on what another one may change: files change only under the lock,
\* and a call that does not hold it relies on its plan alone.
LEMMA OtherPhaseStep ==
  ASSUME IInv, NEW p \in Procs, ProcStep(p), NEW q \in Procs, q # p
  PROVE  PhaseInv(q)'
<1>1. TypeOK /\ OneWriter /\ PhaseInv(q)
  BY DEF IInv
<1>2. UNCHANGED <<pc[q], intent[q], todo[q]>>
  BY <1>1, OtherCalls
<1>3. CASE QuietStep(p)
  <2>1. UNCHANGED <<files, marker, journal>> /\ durable \subseteq durable'
    BY <1>3, QuietFrame
  <2> QED BY <1>1, <1>2, <2>1 DEF PhaseInv, Before, Replaced
<1>4. CASE FileStep(p)
  <2>1. pc[q] \notin Holding /\ pc[q] \in Phases
    BY <1>1, <1>4, FileFrame DEF OneWriter, TypeOK
  <2> QED BY <1>1, <1>2, <2>1 DEF PhaseInv, Holding, Guarded, Phases
<1> QED BY <1>3, <1>4, CallSteps

\* Only the holder of the marker's plan touches its files, and only towards After.
LEMMA FenceStep ==
  ASSUME IInv, NEW p \in Procs, ProcStep(p)
  PROVE  FenceHolds'
<1>a. CallTypes /\ FenceHolds /\ PhaseInv(p)
  BY DEF IInv, TypeOK, CallTypes
<1> USE <1>a, ConstantsAssumption, SentinelAssumption
       DEF Goto, CallTypes, FenceHolds, PhaseInv, Guarded, Intents, IsIntent, Before, Replaced
<1>1. CASE CreateMarker(p) BY <1>1 DEF CreateMarker
<1>2. CASE FillMarker(p) BY <1>2 DEF FillMarker
<1>3. ASSUME NEW f \in Files, WriteFile(p, f) PROVE FenceHolds'
  <2>1. pc[p] = "write" /\ marker = intent[p] /\ marker \in Intents /\ f \in Writes[marker.op]
    BY <1>3 DEF WriteFile
  <2>2. files' \in {files, [files EXCEPT ![f] = After[marker.op][f]]}
    BY <1>3, <2>1 DEF WriteFile
  <2>3. UNCHANGED <<marker, journal>> BY <1>3 DEF WriteFile
  <2>4. \A g \in Files : files'[g] = files[g] \/ (g = f /\ files'[g] = After[marker.op][f])
    BY <2>2
  <2>5. Writes[marker.op] \subseteq Files BY <2>1
  <2> QED BY <2>1, <2>3, <2>4, <2>5
<1>4. CASE CreateJournal(p) BY <1>4 DEF CreateJournal
<1>5. CASE FillJournal(p) BY <1>5 DEF FillJournal
<1>6. CASE Unlink(p) BY <1>6 DEF Unlink
<1>7. CASE Undo(p) BY <1>7 DEF Undo
<1>8. ASSUME NEW w \in Direct, WriteDirect(p, w) PROVE FenceHolds' BY <1>8 DEF WriteDirect
<1>9. CASE QuietStep(p) BY <1>9, QuietFrame
<1> QED BY <1>1, <1>2, <1>3, <1>4, <1>5, <1>6, <1>7, <1>8, <1>9, CallSteps DEF FileStep

\* A plan leaves the fence behind only after persist, and the caller hears of it then.
LEMMA DurableStep ==
  ASSUME IInv, NEW p \in Procs, ProcStep(p)
  PROVE  PublishedIsDurable'
<1>a. CallTypes /\ PublishedIsDurable /\ PhaseInv(p)
  BY DEF IInv, TypeOK, CallTypes
<1> USE <1>a, ConstantsAssumption, SentinelAssumption
       DEF Goto, CallTypes, PublishedIsDurable, Committed, PhaseInv, Guarded, Intents, IsIntent
<1>1. CASE CreateMarker(p) BY <1>1 DEF CreateMarker
<1>2. CASE FillMarker(p) BY <1>2 DEF FillMarker
<1>3. ASSUME NEW f \in Files, WriteFile(p, f) PROVE PublishedIsDurable' BY <1>3 DEF WriteFile
<1>4. CASE CreateJournal(p) BY <1>4 DEF CreateJournal
<1>5. CASE FillJournal(p) BY <1>5 DEF FillJournal
<1>6. CASE Unlink(p) BY <1>6 DEF Unlink
<1>7. CASE Undo(p) BY <1>7 DEF Undo, Untouched
<1>8. ASSUME NEW w \in Direct, WriteDirect(p, w) PROVE PublishedIsDurable' BY <1>8 DEF WriteDirect
<1>9. CASE QuietStep(p) BY <1>9, QuietFrame DEF Confirm
<1> QED BY <1>1, <1>2, <1>3, <1>4, <1>5, <1>6, <1>7, <1>8, <1>9, CallSteps DEF FileStep

-----------------------------------------------------------------------------
(* The invariant *)

LEMMA Initially == Init => IInv
<1> SUFFICES ASSUME Init PROVE IInv
  OBVIOUS
<1> USE ConstantsAssumption, SentinelAssumption DEF Init
<1>1. TypeOK BY DEF TypeOK, Phases, ReaderPhases
<1>2. OneWriter BY DEF OneWriter, Holding
<1>3. \A p \in Procs : PhaseInv(p) BY DEF PhaseInv, Guarded
<1>4. FenceHolds BY DEF FenceHolds, IsIntent
<1>5. PublishedIsDurable BY DEF PublishedIsDurable, Committed, IsIntent
<1> QED BY <1>1, <1>2, <1>3, <1>4, <1>5 DEF IInv

\* Readers change nothing but their own state, and keep it well typed.
LEMMA ReaderTypes ==
  ASSUME TypeOK, NEW r \in Readers, ReaderStep(r)
  PROVE  /\ UNCHANGED <<txVars, faults>>
         /\ rpc' \in [Readers -> ReaderPhases]
         /\ rcat' \in [Readers -> Contents]
         /\ robj' \in [Readers -> Files \X Contents]
<1> USE ConstantsAssumption DEF TypeOK, ReaderPhases
<1>1. CASE LoadCatalog(r) BY <1>1 DEF LoadCatalog
<1>2. CASE CheckFence(r) BY <1>2 DEF CheckFence
<1>3. CASE CheckGeneration(r) BY <1>3 DEF CheckGeneration
<1>4. ASSUME NEW f \in Files, ReadObject(r, f)
      PROVE  /\ UNCHANGED <<txVars, faults, rcat>>
             /\ rpc' \in [Readers -> ReaderPhases]
             /\ robj' \in [Readers -> Files \X Contents]
  BY <1>4 DEF ReadObject
<1>5. CASE UseRead(r) BY <1>5 DEF UseRead
<1> QED BY <1>1, <1>2, <1>3, <1>4, <1>5 DEF ReaderStep, TypeOK

\* What is observed is a state of the repository.
LEMMA ObserveTypes ==
  ASSUME TypeOK, CallTypes', Observe
  PROVE  window' \in [Readers -> SUBSET [Files -> Contents]]
<1>1. Published' \in [Files -> Contents]
  BY DEF CallTypes, Published, IsIntent, Intents
<1> QED BY <1>1 DEF Observe, TypeOK

\* A step of a call leaves the readers alone.
LEMMA CallFrame ==
  ASSUME TypeOK, NEW p \in Procs, ProcStep(p)
  PROVE  UNCHANGED readerVars /\ faults' \in 0..MaxFaults
<1> USE ConstantsAssumption DEF TypeOK, Fault
<1>1. ASSUME NEW o \in Ops, Plan(p, o) PROVE UNCHANGED readerVars /\ faults' \in 0..MaxFaults BY <1>1 DEF Plan
<1>2. CASE Resume(p) BY <1>2 DEF Resume
<1>3. CASE AcquireLock(p) BY <1>3 DEF AcquireLock
<1>4. CASE LockBusy(p) BY <1>4 DEF LockBusy
<1>5. CASE Inspect(p) BY <1>5 DEF Inspect
<1>6. CASE CreateMarker(p) BY <1>6 DEF CreateMarker
<1>7. CASE FillMarker(p) BY <1>7 DEF FillMarker
<1>8. CASE Validate(p) BY <1>8 DEF Validate
<1>9. ASSUME NEW f \in Files, WriteFile(p, f) PROVE UNCHANGED readerVars /\ faults' \in 0..MaxFaults BY <1>9 DEF WriteFile
<1>10. CASE WritesDone(p) BY <1>10 DEF WritesDone
<1>11. CASE CreateJournal(p) BY <1>11 DEF CreateJournal
<1>12. CASE FillJournal(p) BY <1>12 DEF FillJournal
<1>13. CASE Persist(p) BY <1>13 DEF Persist
<1>14. CASE PublishView(p) BY <1>14 DEF PublishView
<1>15. CASE Unlink(p) BY <1>15 DEF Unlink
<1>16. CASE Undo(p) BY <1>16 DEF Undo
<1>17. CASE Confirm(p) BY <1>17 DEF Confirm
<1>18. CASE ReleaseLock(p) BY <1>18 DEF ReleaseLock
<1>19. CASE StartDirect(p) BY <1>19 DEF StartDirect
<1>20. CASE FindStale(p) \/ Reclaim(p) BY <1>20 DEF FindStale, Reclaim
<1>21. CASE RecheckDirect(p) BY <1>21 DEF RecheckDirect
<1>22. ASSUME NEW w \in Direct, WriteDirect(p, w) PROVE UNCHANGED readerVars /\ faults' \in 0..MaxFaults BY <1>22 DEF WriteDirect
<1>23. CASE FinishDirect(p) BY <1>23 DEF FinishDirect
<1>24. CASE FailGuarded(p) BY <1>24 DEF FailGuarded
<1>25. CASE FailPlain(p) BY <1>25 DEF FailPlain
<1>26. CASE Crash(p) BY <1>26 DEF Crash
<1> QED BY <1>1, <1>2, <1>3, <1>4, <1>5, <1>6, <1>7, <1>8, <1>9, <1>10, <1>11, <1>12,
     <1>13, <1>14, <1>15, <1>16, <1>17, <1>18, <1>19, <1>20, <1>21, <1>22, <1>23, <1>24,
     <1>25, <1>26 DEF ProcStep, Progress

LEMMA CallPreserves ==
  ASSUME IInv, NEW p \in Procs, ProcStep(p), Observe
  PROVE  IInv'
<1>1. CallTypes' BY TypeStep
<1>2. UNCHANGED readerVars /\ faults' \in 0..MaxFaults BY CallFrame DEF IInv
<1>3. TypeOK'
  BY <1>1, <1>2, ObserveTypes DEF IInv, TypeOK, CallTypes, readerVars
<1>4. \A q \in Procs : PhaseInv(q)'
  BY OwnPhaseStep, OtherPhaseStep
<1> QED BY <1>3, <1>4, OwnerStep, FenceStep, DurableStep DEF IInv

LEMMA ReaderPreserves ==
  ASSUME IInv, NEW r \in Readers, ReaderStep(r), Observe
  PROVE  IInv'
<1>1. TypeOK BY DEF IInv
<1>2. UNCHANGED <<txVars, faults>> BY <1>1, ReaderTypes
<1>3. TypeOK'
  <2>1. CallTypes' BY <1>1, <1>2 DEF txVars, TypeOK, CallTypes
  <2> QED BY <1>1, <1>2, <2>1, ReaderTypes, ObserveTypes DEF TypeOK, CallTypes
<1>4. OneWriter' BY <1>2 DEF IInv, txVars, OneWriter
<1>5. \A p \in Procs : PhaseInv(p)' BY <1>2 DEF IInv, txVars, PhaseInv, Before, Replaced
<1>6. FenceHolds' BY <1>2 DEF IInv, txVars, FenceHolds
<1>7. PublishedIsDurable' BY <1>2 DEF IInv, txVars, PublishedIsDurable, Committed
<1> QED BY <1>3, <1>4, <1>5, <1>6, <1>7 DEF IInv

LEMMA StutterPreserves == IInv /\ UNCHANGED vars => IInv'
<1> SUFFICES ASSUME IInv, UNCHANGED vars PROVE IInv'
  OBVIOUS
<1> USE DEF IInv, vars, txVars, readerVars
<1>1. TypeOK' BY DEF TypeOK
<1>2. OneWriter' BY DEF OneWriter
<1>3. \A p \in Procs : PhaseInv(p)' BY DEF PhaseInv, Before, Replaced
<1>4. FenceHolds' BY DEF FenceHolds
<1>5. PublishedIsDurable' BY DEF PublishedIsDurable, Committed
<1> QED BY <1>1, <1>2, <1>3, <1>4, <1>5

\* The invariant is inductive: whatever calls, readers and faults do next.
THEOREM Invariance == Spec => []IInv
<1>1. IInv /\ [Next]_vars => IInv'
  BY CallPreserves, ReaderPreserves, StutterPreserves DEF Next
<1> QED BY Initially, <1>1, PTL DEF Spec

\* Every variable of the transaction keeps its type.
THEOREM TypeCorrect == Spec => []TypeOK
<1>1. IInv => TypeOK BY DEF IInv
<1> QED BY Invariance, <1>1, PTL

\* acquireMutationLock excludes: however locks are left and reclaimed, one call is past it.
THEOREM Exclusion == Spec => []OneWriter
<1>1. IInv => OneWriter BY DEF IInv
<1> QED BY Invariance, <1>1, PTL

\* The fence protects: a pending plan's files are before or after it, never a third text.
THEOREM FenceProtects == Spec => []FenceHolds
<1>1. IInv => FenceHolds BY DEF IInv
<1> QED BY Invariance, <1>1, PTL

\* Nothing takes effect, or is reported, before its persistence was confirmed.
THEOREM DurableBeforePublished == Spec => []PublishedIsDurable
<1>1. IInv => PublishedIsDurable BY DEF IInv
<1> QED BY Invariance, <1>1, PTL

-----------------------------------------------------------------------------
(* The transaction implements AtomicPublication *)

AStep == [Publication!ANext]_(Publication!avars)

LEMMA FileStepImplements ==
  ASSUME IInv, NEW p \in Procs, FileStep(p)
  PROVE  AStep
<1>a. /\ CallTypes /\ FenceHolds /\ PublishedIsDurable /\ PhaseInv(p)
      /\ IsIntent(marker) => marker \in Intents
  BY DEF IInv, TypeOK, CallTypes, IsIntent
<1> USE <1>a, ConstantsAssumption, SentinelAssumption DEF Goto, CallTypes, Intents
\* Raising the fence over files that still hold the texts before shows nothing new.
<1>1. CASE CreateMarker(p)
  <2>1. marker = None /\ marker' = Torn /\ UNCHANGED <<files, journal, durable>>
    BY <1>1 DEF CreateMarker, PhaseInv
  <2>2. UNCHANGED <<Published, Committed>> BY <2>1 DEF Published, Committed, IsIntent
  <2> QED BY <2>1, <2>2 DEF AStep, Publication!avars
<1>2. CASE FillMarker(p)
  <2>1. /\ marker = Torn /\ marker' = intent[p] /\ intent[p] \in Intents
        /\ journal[intent[p].op] = None /\ Before(intent[p])
        /\ UNCHANGED <<files, journal, durable>>
    BY <1>2 DEF FillMarker, PhaseInv
  <2>2. UNCHANGED Published BY <2>1 DEF Published, IsIntent, Before
  <2>3. UNCHANGED Committed BY <2>1 DEF Committed, IsIntent
  <2> QED BY <2>1, <2>2, <2>3 DEF AStep, Publication!avars
\* Behind the fence files change unseen.
<1>3. ASSUME NEW f \in Files, WriteFile(p, f) PROVE AStep
  <2>1. /\ marker = intent[p] /\ IsIntent(marker) /\ f \in Writes[marker.op]
        /\ UNCHANGED <<marker, journal, durable>>
        /\ files' \in {files, [files EXCEPT ![f] = After[intent[p].op][f]]}
    BY <1>3 DEF WriteFile, PhaseInv, Guarded, IsIntent
  <2>2. \A g \in Files \ Writes[marker.op] : files'[g] = files[g] BY <2>1
  <2>3. UNCHANGED Published BY <2>1, <2>2 DEF Published
  <2>4. UNCHANGED Committed BY <2>1 DEF Committed
  <2> QED BY <2>1, <2>3, <2>4 DEF AStep, Publication!avars
<1>4. CASE CreateJournal(p) \/ FillJournal(p)
  <2>1. /\ marker = intent[p] /\ intent[p] \in Intents /\ IsIntent(marker)
        /\ UNCHANGED <<files, marker, durable>>
        /\ \A o \in Ops \ {intent[p].op} : journal'[o] = journal[o]
    BY <1>4 DEF CreateJournal, FillJournal, PhaseInv, Guarded, IsIntent
  <2>2. UNCHANGED Published BY <2>1 DEF Published
  <2>3. UNCHANGED Committed BY <2>1 DEF Committed
  <2> QED BY <2>1, <2>2, <2>3 DEF AStep, Publication!avars
\* Lowering it publishes the whole plan.
<1>5. CASE Unlink(p)
  <2> DEFINE o == intent[p].op
  <2>1. /\ marker = intent[p] /\ intent[p] \in Intents /\ IsIntent(marker) /\ marker' = None
        /\ journal[o] = intent[p] /\ o \in durable /\ o \in Ops
        /\ Replaced(intent[p])
        /\ UNCHANGED <<files, journal, durable>>
    BY <1>5 DEF Unlink, PhaseInv, Guarded, IsIntent
  <2>2. o \notin Committed /\ Committed' = Committed \union {o}
    BY <2>1 DEF Committed, IsIntent
  <2>3. Published' = Publication!Overwrite(Published, o)
    BY <2>1 DEF Published, Publication!Overwrite, Replaced, IsIntent
  <2>4. Publication!Publish(o)
    BY <2>1, <2>2, <2>3 DEF Publication!Publish
  <2> QED BY <2>1, <2>4 DEF AStep, Publication!ANext
\* Withdrawing a plan that replaced nothing shows nothing new either.
<1>6. CASE Undo(p)
  <2>1. UNCHANGED <<files, journal, durable>> BY <1>6 DEF Undo
  <2>2. CASE Untouched(intent[p])
    <3>1. /\ marker = intent[p] /\ intent[p] \in Intents /\ IsIntent(marker) /\ marker' = None
          /\ journal[marker.op] = None /\ Before(marker)
      BY <1>6, <2>2 DEF Undo, Untouched, PhaseInv, Guarded, IsIntent, Before
    <3>2. UNCHANGED Published BY <2>1, <3>1 DEF Published, Before, IsIntent
    <3>3. UNCHANGED Committed BY <2>1, <3>1 DEF Committed, IsIntent
    <3> QED BY <2>1, <3>2, <3>3 DEF AStep, Publication!avars
  <2>3. CASE ~Untouched(intent[p])
    BY <1>6, <2>1, <2>3 DEF Undo, Published, Committed, AStep, Publication!avars
  <2> QED BY <2>2, <2>3
<1>7. ASSUME NEW w \in Direct, WriteDirect(p, w) PROVE AStep
  <2>1. /\ marker = None /\ UNCHANGED <<marker, journal, durable>>
        /\ files' = [files EXCEPT ![w[1]] = w[2]]
    BY <1>7 DEF WriteDirect, PhaseInv
  <2>2. Published' = [Published EXCEPT ![w[1]] = w[2]] BY <2>1 DEF Published, IsIntent
  <2>3. UNCHANGED Committed BY <2>1 DEF Committed, IsIntent
  <2>4. Publication!Replace(w) BY <2>1, <2>2, <2>3 DEF Publication!Replace
  <2> QED BY <2>4 DEF AStep, Publication!ANext
<1> QED BY <1>1, <1>2, <1>3, <1>4, <1>5, <1>6, <1>7 DEF FileStep

LEMMA QuietStepImplements ==
  ASSUME IInv, NEW p \in Procs, QuietStep(p)
  PROVE  AStep
<1>1. UNCHANGED <<files, marker, journal>> BY QuietFrame
<1>2. UNCHANGED <<Published, Committed>> BY <1>1 DEF Published, Committed
<1>3. CASE durable' = durable
  BY <1>2, <1>3 DEF AStep, Publication!avars
<1>4. CASE durable' # durable
  <2>1. pc[p] \in {"persist", "confirm"} /\ durable' = durable \union {intent[p].op}
    BY <1>4, QuietFrame
  <2>2. intent[p].op \in Ops BY <2>1 DEF IInv, PhaseInv, Guarded, Intents
  <2>3. Publication!Save(intent[p].op) BY <1>2, <2>1 DEF Publication!Save
  <2> QED BY <2>2, <2>3 DEF AStep, Publication!ANext
<1> QED BY <1>3, <1>4

LEMMA StepImplements == IInv /\ [Next]_vars => AStep
<1> SUFFICES ASSUME IInv, [Next]_vars PROVE AStep
  OBVIOUS
<1>1. ASSUME NEW p \in Procs, ProcStep(p) PROVE AStep
  BY <1>1, FileStepImplements, QuietStepImplements, CallSteps
<1>2. ASSUME UNCHANGED txVars PROVE AStep
  BY <1>2 DEF txVars, AStep, Publication!avars, Published, Committed
<1>3. ASSUME NEW r \in Readers, ReaderStep(r) PROVE UNCHANGED txVars
  BY <1>3, ReaderTypes DEF IInv
<1> QED BY <1>1, <1>2, <1>3 DEF Next, vars

\* Refinement: to whoever respects the fence, every plan takes effect on all its files
\* in one step, once, and after its persistence was confirmed.
THEOREM Atomicity == Spec => AtomicallyPublished
<1>1. Init => Publication!AInit
  BY ConstantsAssumption, SentinelAssumption
     DEF Init, Publication!AInit, Published, Committed, IsIntent
<1>2. IInv /\ [Next]_vars => [Publication!ANext]_(Publication!avars)
  BY StepImplements DEF AStep
<1> QED BY Invariance, <1>1, <1>2, PTL DEF Spec, AtomicallyPublished, Publication!ASpec

-----------------------------------------------------------------------------
(* What a reader hands out was published *)

\* Plan o leaves the text c in the catalog.
Leaves(o, c) == CatalogFile \in Writes[o] /\ After[o][CatalogFile] = c

\* The catalog text c is the first one, or that of a plan that took effect.
Settled(c) == c = InitFiles[CatalogFile] \/ \E o \in Committed : Leaves(o, c)

\* It is that of the plan that is pending.
Underway(c) == IsIntent(marker) /\ Leaves(marker.op, c)

\* It is not there and never will be again.
Lost(c) == files[CatalogFile] # c /\ \A o \in Ops : Leaves(o, c) => o \in Committed

\* Nobody plans to leave the catalog as it is, but for plans that are long completed.
Fresh(i) ==
  CatalogFile \in Writes[i.op] => i.before[CatalogFile] # After[i.op][CatalogFile] \/ IsIntent(journal[i.op])

CatalogInv ==
  /\ Settled(files[CatalogFile]) \/ Underway(files[CatalogFile])
  /\ \A p \in Procs : intent[p] # None => Fresh(intent[p])
  /\ IsIntent(marker) => Fresh(marker)
  /\ \A o \in Ops : IsIntent(journal[o]) => journal[o].op = o

Held(c) == files[CatalogFile] = c \/ Lost(c)

\* The object that r has read was published with its catalog while r was reading.
Seen(r) == \E s \in window[r] : s[CatalogFile] = rcat[r] /\ s[robj[r][1]] = robj[r][2]

\* It is the pending plan's, which has replaced it and can no longer withdraw.
Coming(r) ==
  LET f == robj[r][1]
  IN  IsIntent(marker) /\ f \in Writes[marker.op] /\ files[f] = robj[r][2] /\ files[f] # marker.before[f]

ReaderInv(r) ==
  /\ rpc[r] # "idle" => Held(rcat[r])
  /\ rpc[r] \notin {"idle", "loaded"} => Settled(rcat[r]) \/ Lost(rcat[r])
  /\ rpc[r] = "read" => Seen(r) \/ Lost(rcat[r]) \/ Coming(r)
  /\ rpc[r] = "refenced" => Seen(r) \/ Lost(rcat[r])
  /\ rpc[r] = "accepted" => Seen(r)

ReadInv == CatalogInv /\ \A r \in Readers : ReaderInv(r)
-----------------------------------------------------------------------------
(* Steps of a call, as a reader meets them *)

\* What took effect stays in effect.
LEMMA CommittedStays ==
  ASSUME IInv, NEW p \in Procs, ProcStep(p)
  PROVE  Committed \subseteq Committed'
<1>1. AStep
  BY FileStepImplements, QuietStepImplements, CallSteps
<1>2. QED BY <1>1 DEF AStep, Publication!ANext, Publication!avars, Publication!Save, Publication!Publish,
                      Publication!Replace

\* Journals and plans are written once.
LEMMA JournalStays ==
  ASSUME IInv, NEW p \in Procs, ProcStep(p), NEW o \in Ops
  PROVE  /\ IsIntent(journal[o]) => journal'[o] = journal[o]
         /\ IsIntent(journal'[o]) => journal'[o] = journal[o] \/ journal'[o].op = o
<1>1. CallTypes /\ PhaseInv(p)
  BY DEF IInv, TypeOK, CallTypes
<1>2. CASE QuietStep(p)
  BY <1>2, QuietFrame
<1>3. CASE CreateJournal(p)
  BY <1>1, <1>3, SentinelAssumption DEF CreateJournal, Goto, PhaseInv, CallTypes, IsIntent, Guarded
<1>4. CASE FillJournal(p)
  BY <1>1, <1>4, SentinelAssumption DEF FillJournal, Goto, PhaseInv, CallTypes, IsIntent, Guarded
<1>5. CASE journal' = journal
  BY <1>5
<1>6. QED BY <1>2, <1>3, <1>4, <1>5, CallSteps DEF FileStep, CreateMarker, FillMarker, WriteFile, Unlink, Undo,
                                                 WriteDirect

\* Only the files of plan i change, to what it leaves in them.
OnlyWrites(i) ==
  \A f \in Files : files'[f] # files[f] => f \in Writes[i.op] /\ files'[f] = After[i.op][f]

\* The plan of the marker stays until it took effect or has replaced nothing, and only it
\* replaces its files meanwhile.
LEMMA PendingPlan ==
  ASSUME IInv, NEW p \in Procs, ProcStep(p), IsIntent(marker)
  PROVE  \/ marker' = marker /\ OnlyWrites(marker)
         \/ /\ marker' = None /\ files' = files /\ journal' = journal
            /\ IsIntent(journal[marker.op]) \/ (journal[marker.op] = None /\ Before(marker))
<1>1. CallTypes /\ PhaseInv(p) /\ marker \in Intents
  BY DEF IInv, TypeOK, CallTypes, IsIntent
<1>2. CASE QuietStep(p)
  BY <1>2, QuietFrame DEF OnlyWrites
<1>3. CASE CreateMarker(p) \/ FillMarker(p)
  BY <1>1, <1>3 DEF CreateMarker, FillMarker, Goto, PhaseInv, IsIntent
<1>4. ASSUME NEW f \in Files, WriteFile(p, f)
      PROVE  marker' = marker /\ OnlyWrites(marker)
  <2>1. marker = intent[p] /\ f \in Writes[marker.op] /\ marker' = marker
    BY <1>1, <1>4 DEF WriteFile, Goto, PhaseInv, Guarded
  <2>2. files' = files \/ files' = [files EXCEPT ![f] = After[marker.op][f]]
    BY <1>4, <2>1 DEF WriteFile
  <2>3. QED BY <1>1, <2>1, <2>2 DEF CallTypes, OnlyWrites
<1>5. CASE CreateJournal(p) \/ FillJournal(p)
  BY <1>5 DEF CreateJournal, FillJournal, OnlyWrites
<1>6. CASE Unlink(p)
  BY <1>1, <1>6 DEF Unlink, Goto, PhaseInv, IsIntent
<1>7. CASE Undo(p)
  BY <1>1, <1>7 DEF Undo, Untouched, Goto, PhaseInv, Guarded, Before, OnlyWrites
<1>8. ASSUME NEW w \in Direct, WriteDirect(p, w) PROVE FALSE
  BY <1>1, <1>8 DEF WriteDirect, Goto, PhaseInv, IsIntent
<1>9. QED BY <1>2, <1>3, <1>4, <1>5, <1>6, <1>7, <1>8, CallSteps DEF FileStep

\* Without a pending plan nobody replaces the catalog.
LEMMA CatalogStands ==
  ASSUME IInv, NEW p \in Procs, ProcStep(p), ~IsIntent(marker)
  PROVE  files'[CatalogFile] = files[CatalogFile]
<1>1. CallTypes /\ PhaseInv(p)
  BY DEF IInv, TypeOK, CallTypes
<1>2. CASE QuietStep(p)
  BY <1>2, QuietFrame
<1>3. ASSUME NEW f \in Files, WriteFile(p, f) PROVE FALSE
  BY <1>1, <1>3, SentinelAssumption DEF WriteFile, Goto, PhaseInv, Guarded, IsIntent, CallTypes
<1>4. ASSUME NEW w \in Direct, WriteDirect(p, w) PROVE files'[CatalogFile] = files[CatalogFile]
  <2>1. w[1] # CatalogFile /\ files' = [files EXCEPT ![w[1]] = w[2]]
    BY <1>4, CatalogAssumption DEF WriteDirect
  <2>2. QED BY <1>1, <2>1, ConstantsAssumption DEF CallTypes
<1>5. CASE files' = files
  BY <1>5
<1>6. QED BY <1>2, <1>3, <1>4, <1>5, CallSteps DEF FileStep, CreateMarker, FillMarker, CreateJournal, FillJournal,
                                                 Unlink, Undo

\* The catalog changes only to what the pending plan leaves there.
LEMMA CatalogChange ==
  ASSUME IInv, NEW p \in Procs, ProcStep(p), files'[CatalogFile] # files[CatalogFile]
  PROVE  IsIntent(marker) /\ marker' = marker /\ marker.op \in Ops /\ Leaves(marker.op, files'[CatalogFile])
<1>1. IsIntent(marker)
  BY CatalogStands
<1>2. marker.op \in Ops
  BY <1>1 DEF IInv, TypeOK, IsIntent, Intents
<1>3. QED BY <1>1, <1>2, PendingPlan, ConstantsAssumption DEF Leaves, OnlyWrites

\* No two plans leave the same catalog, and none leaves the first one.
LEMMA CatalogsDiffer ==
  ASSUME NEW o \in Ops, NEW c, Leaves(o, c)
  PROVE  c # InitFiles[CatalogFile] /\ \A q \in Ops : Leaves(q, c) => q = o
BY CatalogAssumption DEF Leaves

LEMMA LostStays ==
  ASSUME IInv, NEW p \in Procs, ProcStep(p), NEW c, Lost(c)
  PROVE  Lost(c)'
<1>1. Committed \subseteq Committed'
  BY CommittedStays
<1>2. ASSUME NEW o \in Ops, Leaves(o, c) PROVE o \in Committed'
  BY <1>1, <1>2 DEF Lost
<1>3. files'[CatalogFile] # c
  <2>1. SUFFICES ASSUME files'[CatalogFile] = c PROVE FALSE
    OBVIOUS
  <2>2. files'[CatalogFile] # files[CatalogFile]
    BY <2>1 DEF Lost
  <2>3. IsIntent(marker) /\ marker.op \in Ops /\ Leaves(marker.op, c)
    BY <2>1, <2>2, CatalogChange
  <2>4. marker.op \notin Committed
    BY <2>3 DEF Committed
  <2>5. QED BY <2>3, <2>4 DEF Lost
<1>4. QED BY <1>2, <1>3 DEF Lost, Leaves

LEMMA SettledStays ==
  ASSUME IInv, NEW p \in Procs, ProcStep(p), NEW c, Settled(c)
  PROVE  Settled(c)'
BY CommittedStays DEF Settled, Leaves

\* A catalog that is replaced is lost.
LEMMA HeldStays ==
  ASSUME IInv, CatalogInv, NEW p \in Procs, ProcStep(p), NEW c, Held(c)
  PROVE  Held(c)'
<1>1. CASE Lost(c)
  BY <1>1, LostStays DEF Held
<1>2. CASE files[CatalogFile] = c /\ files'[CatalogFile] # c
  <2>1. IsIntent(marker) /\ marker.op \in Ops /\ ~Leaves(marker.op, c)
    BY <1>2, CatalogChange DEF Leaves
  <2>2. Settled(c)
    BY <1>2, <2>1 DEF CatalogInv, Underway
  <2>3. ASSUME NEW o \in Ops, Leaves(o, c) PROVE o \in Committed'
    <3>1. PICK q \in Committed : Leaves(q, c)
      BY <2>2, <2>3, CatalogsDiffer DEF Settled
    <3>2. q \in Ops /\ o = q
      BY <2>3, <3>1, CatalogsDiffer DEF Committed
    <3>3. QED BY <3>1, <3>2, CommittedStays
  <2>4. QED BY <1>2, <2>3 DEF Held, Lost, Leaves
<1>3. QED BY <1>1, <1>2 DEF Held

-----------------------------------------------------------------------------
(* The invariant of the readers is inductive *)

\* Nobody freezes a plan for a catalog that is there already, but of a completed plan.
LEMMA PlansAreFresh ==
  ASSUME IInv, CatalogInv, NEW p \in Procs, ProcStep(p), intent'[p] # None
  PROVE  Fresh(intent[p])'
<1>1. CallTypes
  BY DEF IInv, TypeOK, CallTypes
<1>2. ASSUME NEW i, i \in Intents, Fresh(i) PROVE Fresh(i)'
  <2>1. i.op \in Ops
    BY <1>2 DEF Intents
  <2>2. IsIntent(journal[i.op]) => journal'[i.op] = journal[i.op]
    BY <2>1, JournalStays
  <2>3. QED BY <1>2, <2>2 DEF Fresh
<1>3. ASSUME intent'[p] = intent[p] PROVE Fresh(intent[p])'
  <2>1. PICK i : i = intent[p]
    OBVIOUS
  <2>2. i \in Intents /\ Fresh(i)
    BY <1>1, <1>3, <2>1 DEF CallTypes, CatalogInv
  <2>3. Fresh(i)'
    BY <1>2, <2>2
  <2>4. QED BY <1>3, <2>1, <2>3 DEF Fresh
<1>4. ASSUME NEW o \in Ops, Plan(p, o) PROVE Fresh(intent[p])'
  <2>1. PICK i : i = [op |-> o, before |-> [f \in Files |-> IF f \in Writes[o] THEN files[f] ELSE Missing]]
    OBVIOUS
  <2>2. intent'[p] = i /\ marker = None
    BY <1>1, <1>4, <2>1 DEF Plan, CallTypes
  <2>3. i \in Intents /\ i.op = o
    BY <1>1, <2>1, ConstantsAssumption DEF CallTypes, Intents
  <2>4. ASSUME CatalogFile \in Writes[o], i.before[CatalogFile] = After[o][CatalogFile]
        PROVE  IsIntent(journal[o])
    <3>1. Leaves(o, files[CatalogFile])
      BY <2>1, <2>4, ConstantsAssumption DEF Leaves
    <3>2. Settled(files[CatalogFile])
      BY <2>2 DEF CatalogInv, Underway, IsIntent
    <3>3. PICK q \in Committed : Leaves(q, files[CatalogFile])
      BY <3>1, <3>2, CatalogsDiffer DEF Settled
    <3>4. q = o
      BY <3>1, <3>3, CatalogsDiffer DEF Committed
    <3>5. QED BY <3>3, <3>4 DEF Committed
  <2>5. Fresh(i)
    BY <2>3, <2>4 DEF Fresh
  <2>6. Fresh(i)'
    BY <1>2, <2>3, <2>5
  <2>7. QED BY <2>2, <2>6 DEF Fresh
<1>5. CASE Resume(p)
  <2>1. PICK i \in Intents : intent'[p] = i /\ (i = marker \/ \E o \in Ops : i = journal[o])
    BY <1>1, <1>5 DEF Resume, CallTypes, IsIntent
  <2>2. IsIntent(i)
    BY <2>1, SentinelAssumption DEF IsIntent
  <2>3. Fresh(i)
    BY <2>1, <2>2 DEF CatalogInv, Fresh
  <2>4. Fresh(i)'
    BY <1>2, <2>1, <2>3
  <2>5. QED BY <2>1, <2>4 DEF Fresh
<1>6. CASE ReleaseLock(p) \/ Crash(p) \/ LockBusy(p)
  BY <1>1, <1>6 DEF ReleaseLock, Crash, LockBusy, CallTypes
<1>7. CASE UNCHANGED intent
  BY <1>3, <1>7
<1>8. QED
  BY <1>4, <1>5, <1>6, <1>7 DEF ProcStep, Progress, AcquireLock, FindStale, Reclaim, Inspect, CreateMarker,
     FillMarker, Validate, WriteFile, WritesDone, CreateJournal, FillJournal, Persist, PublishView, Unlink, Undo, Confirm,
     RecheckDirect, FinishDirect, StartDirect, WriteDirect, FailGuarded, FailPlain

\* A plan becomes pending only as the plan of the call that raises the fence.
LEMMA MarkerComes ==
  ASSUME IInv, NEW p \in Procs, ProcStep(p), IsIntent(marker')
  PROVE  marker' = marker \/ (marker' = intent[p] /\ intent'[p] = intent[p] /\ intent[p] \in Intents)
<1>1. CallTypes /\ PhaseInv(p)
  BY DEF IInv, TypeOK, CallTypes
<1>2. CASE QuietStep(p)
  BY <1>2, QuietFrame
<1>3. CASE FillMarker(p)
  BY <1>1, <1>3 DEF FillMarker, Goto, PhaseInv
<1>4. CASE CreateMarker(p)
  BY <1>4 DEF CreateMarker, IsIntent
<1>5. QED BY <1>2, <1>3, <1>4, CallSteps DEF FileStep, CreateJournal, FillJournal, WriteFile, Unlink, Undo,
                                            WriteDirect, IsIntent

\* The catalog is the first one, or that of a plan that took effect or is pending.
LEMMA CatalogStep ==
  ASSUME IInv, CatalogInv, NEW p \in Procs, ProcStep(p)
  PROVE  CatalogInv'
<1>1. CallTypes /\ CallTypes'
  BY TypeStep DEF IInv, TypeOK, CallTypes
<1>2. \A o \in Ops : IsIntent(journal'[o]) => journal'[o].op = o
  BY JournalStays DEF CatalogInv
<1>3. \A q \in Procs : intent'[q] # None => Fresh(intent[q])'
  <2>1. SUFFICES ASSUME NEW q \in Procs, intent'[q] # None PROVE Fresh(intent[q])'
    OBVIOUS
  <2>2. CASE q = p
    BY <2>1, <2>2, PlansAreFresh
  <2>3. CASE q # p
    <3>1. PICK i : i = intent[q]
      OBVIOUS
    <3>2. intent'[q] = i
      BY <2>3, <3>1, OtherCalls DEF IInv
    <3>3. i \in Intents /\ Fresh(i)
      BY <1>1, <2>1, <3>1, <3>2 DEF CallTypes, CatalogInv
    <3>4. i.op \in Ops
      BY <3>3 DEF Intents
    <3>5. IsIntent(journal[i.op]) => journal'[i.op] = journal[i.op]
      BY <3>4, JournalStays
    <3>6. Fresh(i)'
      BY <3>3, <3>5 DEF Fresh
    <3>7. QED BY <3>2, <3>6 DEF Fresh
  <2>4. QED BY <2>2, <2>3
<1>4. IsIntent(marker') => Fresh(marker)'
  <2>1. SUFFICES ASSUME IsIntent(marker') PROVE Fresh(marker)'
    OBVIOUS
  <2>2. PICK i : i = marker'
    OBVIOUS
  <2>3. CASE marker' = marker
    <3>1. i \in Intents /\ Fresh(i)
      BY <1>1, <2>1, <2>2, <2>3 DEF CallTypes, CatalogInv, IsIntent
    <3>2. i.op \in Ops
      BY <3>1 DEF Intents
    <3>3. IsIntent(journal[i.op]) => journal'[i.op] = journal[i.op]
      BY <3>2, JournalStays
    <3>4. Fresh(i)'
      BY <3>1, <3>3 DEF Fresh
    <3>5. QED BY <2>2, <3>4 DEF Fresh
  <2>4. CASE marker' = intent[p] /\ intent'[p] = intent[p] /\ intent[p] \in Intents
    <3>1. intent'[p] # None /\ intent'[p] = i
      BY <2>2, <2>4, SentinelAssumption
    <3>2. Fresh(intent[p])'
      BY <3>1, PlansAreFresh
    <3>3. QED BY <2>4, <3>2 DEF Fresh
  <2>5. QED BY <2>1, <2>3, <2>4, MarkerComes
<1>5. Settled(files[CatalogFile])' \/ Underway(files[CatalogFile])'
  <2>1. PICK c : c = files'[CatalogFile]
    OBVIOUS
  <2>2. CASE c # files[CatalogFile]
    <3>1. IsIntent(marker) /\ marker' = marker /\ Leaves(marker.op, c)
      BY <2>1, <2>2, CatalogChange
    <3>2. Underway(c)'
      BY <3>1 DEF Underway, Leaves
    <3>3. QED BY <2>1, <3>2 DEF Settled, Underway, Leaves
  <2>3. CASE c = files[CatalogFile] /\ Settled(c)
    <3>1. Settled(c)'
      BY <2>3, SettledStays
    <3>2. QED BY <2>1, <3>1 DEF Settled, Underway, Leaves
  <2>4. CASE c = files[CatalogFile] /\ Underway(c)
    <3>1. IsIntent(marker) /\ Leaves(marker.op, c) /\ marker \in Intents
      BY <1>1, <2>4 DEF Underway, CallTypes, IsIntent
    <3>2. CASE marker' = marker
      <4>1. Underway(c)'
        BY <3>1, <3>2 DEF Underway, Leaves
      <4>2. QED BY <2>1, <4>1 DEF Settled, Underway, Leaves
    <3>3. CASE marker' = None /\ journal' = journal /\ IsIntent(journal[marker.op])
      <4>1. PICK o : o = marker.op
        OBVIOUS
      <4>2. o \in Ops /\ Leaves(o, c) /\ IsIntent(journal[o])
        BY <3>1, <3>3, <4>1 DEF Intents
      <4>3. o \in Committed'
        BY <3>3, <4>2 DEF Committed, IsIntent
      <4>4. Settled(c)'
        BY <4>2, <4>3 DEF Settled, Leaves
      <4>5. QED BY <2>1, <4>4 DEF Settled, Underway, Leaves
    <3>4. CASE journal[marker.op] = None /\ Before(marker)
      <4>1. CatalogFile \in Writes[marker.op] /\ After[marker.op][CatalogFile] = c
        BY <3>1 DEF Leaves
      <4>2. marker.before[CatalogFile] = c
        BY <2>4, <3>4, <4>1 DEF Before
      <4>3. QED BY <3>1, <3>4, <4>1, <4>2 DEF CatalogInv, Fresh, IsIntent
    <3>5. QED BY <3>1, <3>2, <3>3, <3>4, PendingPlan
  <2>5. QED BY <2>1, <2>2, <2>3, <2>4 DEF CatalogInv
<1>6. QED BY <1>2, <1>3, <1>4, <1>5 DEF CatalogInv

\* What was published during a read stays in its window.
LEMMA WindowGrows ==
  ASSUME IInv, Observe, NEW r \in Readers, rpc'[r] # "idle"
  PROVE  window'[r] = window[r] \union {Published'}
BY DEF Observe

\* A step of a call disturbs no reader.
LEMMA ReaderKept ==
  ASSUME IInv, CatalogInv, NEW p \in Procs, ProcStep(p), Observe, NEW r \in Readers, ReaderInv(r)
  PROVE  ReaderInv(r)'
<1>1. UNCHANGED <<rpc, rcat, robj>>
  BY CallFrame DEF IInv, readerVars
<1>2. PICK c : c = rcat[r]
  OBVIOUS
<1>3. rcat'[r] = c
  BY <1>1, <1>2
<1>4. Lost(c) => Lost(c)'
  BY LostStays
<1>5. Settled(c) => Settled(c)'
  BY SettledStays
<1>6. Held(c) => Held(c)'
  BY HeldStays
<1>7. rpc[r] # "idle" => window'[r] = window[r] \union {Published'}
  BY <1>1, WindowGrows
<1>8. Seen(r) /\ rpc[r] # "idle" => Seen(r)'
  BY <1>1, <1>7 DEF Seen
<1>9. ASSUME rpc[r] = "read", Coming(r), Held(c)
      PROVE  Seen(r)' \/ Lost(c)' \/ Coming(r)'
  <2>1. PICK f, t : f = robj[r][1] /\ t = robj[r][2]
    OBVIOUS
  <2>2. /\ IsIntent(marker) /\ marker \in Intents
        /\ f \in Writes[marker.op] /\ f \in Files /\ files[f] = t /\ files[f] # marker.before[f]
    BY <1>9, <2>1 DEF Coming, IInv, TypeOK, IsIntent
  <2>3. CASE marker' = marker /\ OnlyWrites(marker)
    <3>1. files[f] = After[marker.op][f]
      BY <2>2 DEF IInv, FenceHolds
    <3>2. files'[f] = files[f]
      BY <2>2, <2>3, <3>1 DEF OnlyWrites
    <3>3. QED BY <1>1, <2>1, <2>2, <2>3, <3>2 DEF Coming
  <2>4. CASE /\ marker' = None /\ files' = files /\ journal' = journal
             /\ IsIntent(journal[marker.op]) \/ (journal[marker.op] = None /\ Before(marker))
    <3>1. Published' = files
      BY <2>4 DEF Published, IsIntent
    <3>2. CASE files[CatalogFile] = c
      <4>1. files \in window'[r]
        BY <1>7, <1>9, <3>1
      <4>2. Seen(r)'
        BY <1>1, <1>2, <2>1, <2>2, <3>2, <4>1 DEF Seen
      <4>3. QED BY <4>2
    <3>3. QED BY <1>4, <1>9, <3>2 DEF Held
  <2>5. QED BY <2>2, <2>3, <2>4, PendingPlan
<1>10. (rpc[r] # "idle" => Held(rcat[r]))'
  BY <1>1, <1>2, <1>6 DEF ReaderInv, Held, Lost, Leaves
<1>11. (rpc[r] \notin {"idle", "loaded"} => Settled(rcat[r]) \/ Lost(rcat[r]))'
  BY <1>1, <1>2, <1>4, <1>5 DEF ReaderInv, Settled, Lost, Leaves
<1>12. (rpc[r] = "read" => Seen(r) \/ Lost(rcat[r]) \/ Coming(r))'
  BY <1>1, <1>2, <1>4, <1>8, <1>9 DEF ReaderInv, Lost, Leaves
<1>13. (rpc[r] = "refenced" => Seen(r) \/ Lost(rcat[r]))'
  BY <1>1, <1>2, <1>4, <1>8 DEF ReaderInv, Lost, Leaves
<1>14. (rpc[r] = "accepted" => Seen(r))'
  BY <1>1, <1>8 DEF ReaderInv
<1>15. QED BY <1>10, <1>11, <1>12, <1>13, <1>14 DEF ReaderInv

\* A catalog that took effect and is still there is published: no pending plan has left it.
LEMMA SettledIsPublished ==
  ASSUME IInv, Settled(files[CatalogFile])
  PROVE  Published[CatalogFile] = files[CatalogFile]
<1>1. SUFFICES ASSUME IsIntent(marker), CatalogFile \in Writes[marker.op]
               PROVE  files[CatalogFile] = marker.before[CatalogFile]
  BY ConstantsAssumption DEF Published
<1>2. marker.op \in Ops
  BY <1>1 DEF IInv, TypeOK, IsIntent, Intents
<1>3. SUFFICES ASSUME Leaves(marker.op, files[CatalogFile]) PROVE FALSE
  BY <1>1, <1>2 DEF IInv, FenceHolds, Leaves
<1>4. PICK q \in Committed : Leaves(q, files[CatalogFile])
  BY <1>2, <1>3, CatalogsDiffer DEF Settled
<1>5. q = marker.op
  BY <1>2, <1>3, <1>4, CatalogsDiffer DEF Committed
<1>6. QED BY <1>1, <1>4, <1>5 DEF Committed

\* A file is published as it stands, unless the pending plan has replaced it.
LEMMA FileIsPublished ==
  ASSUME IInv, NEW f \in Files
  PROVE  \/ Published[f] = files[f]
         \/ IsIntent(marker) /\ f \in Writes[marker.op] /\ files[f] # marker.before[f]
BY DEF Published

\* The steps of a reader rely on the fence, the catalog and what it saw before.
LEMMA ReaderMoves ==
  ASSUME IInv, CatalogInv, NEW q \in Readers, ReaderStep(q), Observe, NEW r \in Readers, ReaderInv(r)
  PROVE  ReaderInv(r)'
<1>1. UNCHANGED <<files, marker, journal>>
  BY ReaderTypes DEF IInv, txVars
<1>2. /\ rpc \in [Readers -> ReaderPhases] /\ rcat \in [Readers -> Contents]
      /\ robj \in [Readers -> Files \X Contents]
  BY DEF IInv, TypeOK
<1>3. \A c : (Settled(c)' <=> Settled(c)) /\ (Lost(c)' <=> Lost(c)) /\ (Held(c)' <=> Held(c))
  BY <1>1 DEF Settled, Lost, Held, Leaves, Committed
<1>4. rpc'[r] # "idle" => window'[r] = window[r] \union {Published}
  <2>1. Published' = Published
    BY <1>1 DEF Published
  <2>2. QED BY <2>1, WindowGrows
<1>5. CASE q # r \/ UNCHANGED <<rpc[r], rcat[r], robj[r]>>
  <2>1. UNCHANGED <<rpc[r], rcat[r], robj[r]>>
    BY <1>2, <1>5 DEF ReaderStep, LoadCatalog, CheckFence, CheckGeneration, ReadObject, UseRead
  <2>2. Seen(r) /\ rpc[r] # "idle" => Seen(r)'
    BY <1>4, <2>1 DEF Seen
  <2>3. Coming(r)' <=> Coming(r)
    BY <1>1, <2>1 DEF Coming
  <2>4. QED BY <1>1, <2>1, <2>2, <2>3 DEF ReaderInv, Settled, Lost, Held, Leaves, Committed
<1>6. CASE q = r /\ LoadCatalog(r)
  <2>1. rpc'[r] = "loaded" /\ rcat'[r] = files[CatalogFile]
    BY <1>2, <1>6 DEF LoadCatalog
  <2>2. QED BY <1>1, <2>1 DEF ReaderInv, Held
<1>7. CASE q = r /\ CheckFence(r)
  <2>1. SUFFICES ASSUME rpc'[r] # "idle" PROVE ReaderInv(r)'
    BY DEF ReaderInv
  <2>2. /\ marker = None /\ UNCHANGED <<rcat[r], robj[r]>>
        /\ \/ rpc[r] = "loaded" /\ rpc'[r] = "fenced"
           \/ rpc[r] = "read" /\ rpc'[r] = "refenced"
    BY <1>2, <1>7, <2>1 DEF CheckFence, FenceAbsent
  <2>3. PICK c : c = rcat[r] /\ c = rcat'[r]
    BY <2>2
  <2>4. Held(c)
    BY <2>2, <2>3 DEF ReaderInv
  <2>5. Settled(c) \/ Lost(c)
    BY <2>2, <2>4 DEF Held, CatalogInv, Underway, IsIntent
  <2>6. rpc[r] = "read" => Seen(r) \/ Lost(c)
    BY <2>2, <2>3 DEF ReaderInv, Coming, IsIntent
  <2>7. Seen(r) => Seen(r)'
    BY <1>4, <2>1, <2>2 DEF Seen
  <2>8. QED BY <1>1, <2>2, <2>3, <2>4, <2>5, <2>6, <2>7 DEF ReaderInv, Settled, Lost, Held, Leaves, Committed
<1>8. CASE q = r /\ CheckGeneration(r)
  <2>1. SUFFICES ASSUME rpc'[r] # "idle" PROVE ReaderInv(r)'
    BY DEF ReaderInv
  <2>2. /\ files[CatalogFile] = rcat[r] /\ UNCHANGED <<rcat[r], robj[r]>>
        /\ \/ rpc[r] = "fenced" /\ rpc'[r] = "bound"
           \/ rpc[r] = "refenced" /\ rpc'[r] = "accepted"
    BY <1>2, <1>8, <2>1 DEF CheckGeneration
  <2>3. PICK c : c = rcat[r] /\ c = rcat'[r]
    BY <2>2
  <2>4. Held(c) /\ ~Lost(c) /\ Settled(c)
    BY <2>2, <2>3 DEF ReaderInv, Held, Lost
  <2>5. rpc[r] = "refenced" => Seen(r)
    BY <2>2, <2>3, <2>4 DEF ReaderInv
  <2>6. Seen(r) => Seen(r)'
    BY <1>4, <2>1, <2>2 DEF Seen
  <2>7. QED BY <1>1, <2>2, <2>3, <2>4, <2>5, <2>6 DEF ReaderInv, Settled, Lost, Held, Leaves, Committed
<1>9. ASSUME NEW f \in Files, q = r, ReadObject(r, f) PROVE ReaderInv(r)'
  <2>1. /\ rpc[r] = "bound" /\ rpc'[r] = "read" /\ UNCHANGED rcat[r]
        /\ robj'[r] = <<f, files[f]>>
    BY <1>2, <1>9 DEF ReadObject
  <2>2. PICK c : c = rcat[r] /\ c = rcat'[r]
    BY <2>1
  <2>3. Held(c) /\ (Settled(c) \/ Lost(c))
    BY <2>1, <2>2 DEF ReaderInv
  <2>4. ASSUME ~Lost(c) PROVE Seen(r)' \/ Coming(r)'
    <3>1. Published[CatalogFile] = c
      BY <2>3, <2>4, SettledIsPublished DEF Held
    <3>2. Published \in window'[r]
      BY <1>4, <2>1
    <3>3. CASE Published[f] = files[f]
      BY <2>1, <2>2, <3>1, <3>2, <3>3 DEF Seen
    <3>4. CASE IsIntent(marker) /\ f \in Writes[marker.op] /\ files[f] # marker.before[f]
      BY <1>1, <2>1, <3>4 DEF Coming
    <3>5. QED BY <1>9, <3>3, <3>4, FileIsPublished
  <2>5. QED BY <1>1, <2>1, <2>2, <2>3, <2>4 DEF ReaderInv, Settled, Lost, Held, Leaves, Committed
<1>10. CASE q = r /\ UseRead(r)
  BY <1>2, <1>10 DEF UseRead, ReaderInv
<1>11. QED BY <1>5, <1>6, <1>7, <1>8, <1>9, <1>10 DEF ReaderStep

LEMMA ReadInvStep == IInv /\ ReadInv /\ [Next]_vars => ReadInv'
<1> SUFFICES ASSUME IInv, ReadInv, [Next]_vars PROVE ReadInv'
  OBVIOUS
<1>1. ASSUME NEW p \in Procs, ProcStep(p), Observe PROVE ReadInv'
  BY <1>1, CatalogStep, ReaderKept DEF ReadInv
<1>2. ASSUME UNCHANGED txVars PROVE CatalogInv'
  BY <1>2 DEF ReadInv, CatalogInv, txVars, Settled, Underway, Leaves, Committed, Fresh
<1>3. ASSUME NEW q \in Readers, ReaderStep(q), Observe PROVE ReadInv'
  <2>1. UNCHANGED txVars
    BY <1>3, ReaderTypes DEF IInv
  <2>2. CatalogInv'
    BY <1>2, <2>1
  <2>3. \A r \in Readers : ReaderInv(r)'
    BY <1>3, ReaderMoves DEF ReadInv
  <2>4. QED BY <2>2, <2>3 DEF ReadInv
<1>4. CASE UNCHANGED vars
  <2>1. UNCHANGED txVars /\ UNCHANGED <<rpc, rcat, robj, window>>
    BY <1>4 DEF vars, readerVars
  <2>2. CatalogInv'
    BY <1>2, <2>1
  <2>3. \A r \in Readers : ReaderInv(r)'
    BY <2>1 DEF txVars, ReadInv, ReaderInv, Held, Settled, Lost, Leaves, Committed, Seen, Coming
  <2>4. QED BY <2>2, <2>3 DEF ReadInv
<1>5. QED BY <1>1, <1>3, <1>4 DEF Next

LEMMA ReadInvInitially == Init => ReadInv
BY ConstantsAssumption, SentinelAssumption
   DEF Init, ReadInv, CatalogInv, ReaderInv, Settled, Underway, IsIntent

\* What CatalogReader hands out was published together with the catalog it is bound to, at
\* some moment of the read: looking at the fence and at the catalog before and after the
\* object is enough, although the two looks are apart.
THEOREM ReadersAreBound == Spec => []ReadsAreCurrent
<1>1. ReadInv => ReadsAreCurrent
  BY DEF ReadInv, ReaderInv, Seen, ReadsAreCurrent
<1>2. QED BY Invariance, ReadInvInitially, ReadInvStep, <1>1, PTL DEF Spec
=============================================================================
