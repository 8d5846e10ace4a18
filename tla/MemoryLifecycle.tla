--------------------------- MODULE MemoryLifecycle ---------------------------
(***************************************************************************)
(* The life of CangHai's memory: ingestion, corrections and                *)
(* synchronizations of one repository, while its owner edits and commits   *)
(* in it and the process may die.                                          *)
(***************************************************************************)
EXTENDS Synchronization

CONSTANTS
  Texts,   \* Texts[p]: what the owner may write in file p
  Batches  \* the sets of targets a synchronization is asked for

ASSUME OperationsAssumption ==
  /\ Ops = Ingests \cup Corrects \cup Syncs
  /\ Ingests \cap Corrects = {} /\ Ingests \cap Syncs = {} /\ Corrects \cap Syncs = {}
  /\ \A scenario \in Scenarios : scenario.callers \subseteq Ops
  /\ None \notin PlanIds

\* Objects of different kinds have different ids, and a page has an event once.
ASSUME IdsAssumption ==
  /\ Cognition \cap Paths = {} /\ EventIds \cap (Cognition \cup Paths) = {} /\ PolicyPath \in Paths
  /\ DOMAIN Events \subseteq Nat \ {0} /\ \A i \in Ingests : Page[i] \in DOMAIN Events
  /\ \A n \in DOMAIN Events : \A a, b \in Events[n] : a.id = b.id => a = b

IngestStep(i) ==
  \/ DeclareStage(i) \/ TearStage(i) \/ PlanIngest(i) \/ ResumeIngest(i)
  \/ Raise(i) \/ Reconfirm(i, TRUE) \/ Refuse(i, TRUE)
  \/ Write(i, IngestValid(call[i].plan)) \/ Reject(i, "raised", IngestValid(call[i].plan))
  \/ Persist(i, TRUE) \/ Lower(i, FenceReadable(tree)) \/ Answer(i, TRUE)
  \/ Fail(i)

CorrectStep(k) ==
  \/ \E e \in Refs(tree.catalog) : PlanCorrection(k, e)
  \/ ResumeCorrection(k)
  \/ Raise(k)
  \/ Reconfirm(k, CorrectionConfirmed(call[k].plan)) \/ Refuse(k, CorrectionConfirmed(call[k].plan))
  \/ Write(k, CorrectionValid(call[k].plan)) \/ Reject(k, "raised", CorrectionValid(call[k].plan))
  \/ Persist(k, TRUE) \/ Lower(k, FenceReadable(tree)) \/ Answer(k, TRUE)
  \/ Fail(k)

SyncRequests ==
  [from : 1..HEAD, to : {HEAD}, gen : {tree.catalog.generation}, targets : Batches]

SyncStep(s) ==
  \/ \E request \in SyncRequests : PlanBlock(s, request)
  \/ ResumeBlock(s) \/ ResumeFinal(s)
  \/ Raise(s) \/ Reconfirm(s, SyncConfirmed(s)) \/ Refuse(s, SyncConfirmed(s))
  \/ Write(s, SyncValid(s)) \/ Reject(s, "raised", SyncValid(s))
  \/ Persist(s, SyncPersist(s)) \/ Reject(s, "written", SyncPersist(s))
  \/ Lower(s, SyncPublished(s)) \/ Reject(s, "pushed", SyncPublished(s))
  \/ Judge(s) \/ AbandonJudgement(s)
  \/ PlanFinal(s)
  \/ call[s].plan.id = Final(s) /\ Answer(s, Receipt(s))
  \/ Fail(s)

OwnerStep ==
  \/ \E p \in Paths : \E c \in Texts[p] : OwnerEdit([tree.files EXCEPT ![p] = c])
  \/ \E p, q \in Paths \ {PolicyPath} :
       tree.files[q] = Gone /\ tree.files[p] # Gone /\ OwnerEdit([tree.files EXCEPT ![q] = tree.files[p], ![p] = Gone])
  \/ OwnerCommit

Next ==
  \/ \E i \in Ingests : IngestStep(i)
  \/ \E k \in Corrects : CorrectStep(k)
  \/ \E s \in Syncs : SyncStep(s)
  \/ callers \cap Ingests # {} /\ Release \* bound: cleanup is asked for beside ingests
  \/ OwnerStep \/ Crash \/ Initialize

Spec == Init /\ [][Next]_vars

-----------------------------------------------------------------------------
(* What a catalog has to say, by itself and of the owner's files. *)

RowsOK(rows) ==
  \A r \in DOMAIN rows :
    /\ DOMAIN rows[r] = {"status", "deps", "at"}
    /\ rows[r].status \in {"current", "superseded", "removed"}
    /\ r.id \in Cognition => rows[r].at = Gone
    /\ r.id \in Cognition \cup {PolicyPath} \/ DOMAIN r.version = {"content", "policy", "born"}

CatalogOK(cat) ==
  /\ DOMAIN cat = {"generation", "parent", "rows", "view"}
  /\ RowsOK(cat.rows) /\ WellFormed(cat)

ViewHolds(cat) == cat.view # NoView => cat.view \subseteq Current(cat)

\* The version of an object that the operation which recorded r replaced.
ReplacedWith(cat, r, d) ==
  LET successor == Replacement(d.id, r.version)
  IN d.id \in Cognition /\ d # successor /\ successor \in Refs(cat)

CognitionHolds(cat) ==
  \A r \in CurrentCognition(cat) : \A d \in cat.rows[r].deps :
    d \in Current(cat) \/ d.id \in EventIds \/ ReplacedWith(cat, r, d)

Covers(cat, page) == \A event \in page : \E r \in Refs(cat) : r.id = event.id /\ r.version.content = event.content

Describes(cat, files) ==
  \A r \in Current(cat) : cat.rows[r].at # Gone =>
    files[cat.rows[r].at] = IF r.id = PolicyPath THEN r.version ELSE r.version.content

\* The repository a verification starts from is one Stella has left.
ASSUME StartAssumption ==
  /\ DOMAIN InitTree = Slots \cup {"files"} /\ DOMAIN InitTree.files = Paths
  /\ CatalogOK(InitTree.catalog) /\ InitTree.catalog.generation \notin Ops
  /\ ViewHolds(InitTree.catalog) /\ CognitionHolds(InitTree.catalog)
  /\ InitTree.fence = NoFence
  /\ Cursor(InitTree) = 0 \/ Cursor(InitTree) \in DOMAIN Events
  /\ \A n \in 1..Cursor(InitTree) : Covers(InitTree.catalog, Events[n])

-----------------------------------------------------------------------------
(* Properties. *)

Finals == {k \in 1..HEAD : \E s \in Syncs : log[k].plan = Final(s)}

\* The values of the variables are the ones the code can hold: a call in progress
\* has a plan of its own operation, a marker is a plan some call made.
TypeOK ==
  /\ DOMAIN tree = Slots \cup {"files"}
  /\ DOMAIN tree.files = Paths
  /\ CatalogOK(tree.catalog) /\ Cursor(tree) \in Nat
  /\ HEAD >= 1 /\ remote \in 1..HEAD /\ synced \in 0..remote
  /\ \A k \in 1..HEAD : log[k].plan \in PlanIds \cup {None}
  /\ marker.id \in PlanIds \cup {None}
  /\ journal \subseteq PlanIds
  /\ \A o \in Ops :
       /\ call[o].pc \in {"idle", "planned", "judging", "lowered"} \cup Holding
       /\ call[o].pc # "idle" => call[o].plan.id \in {<<o, "block">>, <<o, "final">>}
  /\ stage \in [Ops -> {"none", "declared", "torn"}]
  /\ answered \subseteq callers /\ released \subseteq UNION {Events[n] : n \in DOMAIN Events}

\* A checkpoint never runs ahead of the archive: the catalog has, in whatever state,
\* every event of every page up to the cursor, with its text (ingest.ts, prepareCheckpoint).
CheckpointCoversArchive ==
  \A n \in 1..Cursor(tree) : Covers(tree.catalog, Events[n])

\* No writer loses another one's generation: committed catalogs form one line, each
\* prepared from the one before it.
OneLine ==
  \A k \in 2..HEAD :
    LET older == log[k-1].tree.catalog
        newer == log[k].tree.catalog
    IN newer = older \/ (newer.parent = older.generation /\ newer.generation # older.generation)

\* While a synchronization fence is up nobody publishes a catalog: what is reassessed
\* is what the fence was raised over.
FencedCatalogIsStable ==
  tree.fence.phase = "pending" => tree.catalog.generation = tree.fence.gen

\* A catalog a synchronization committed says of the owner's files what the revision
\* it was asked for holds: no current row of an older text, a removed file or an old policy.
PublishedIsSynchronized ==
  \A k \in Finals : Describes(log[k].tree.catalog, log[log[k].request.to].tree.files)

\* Nothing is replaced or removed under current cognition, through any number of
\* operations: what it rests on is current, an archived event that may have been edited, or
\* an object the operation that recorded it replaced itself, after it (prepareCorrection).
CognitionRestsOnCurrent == CognitionHolds(tree.catalog)

\* Nothing that was understood drops out unnoticed: it is current, it waits in the
\* fence for a later batch, or some synchronization withdrew it explicitly.
NothingForgotten ==
  \A old \in CurrentCognition(log[1].tree.catalog) :
    \/ \E r \in CurrentCognition(tree.catalog) : r.id = old.id
    \/ tree.fence # NoFence /\ old.id \in tree.fence.withdrawn \cup {r.id : r \in tree.fence.pending}
    \/ \E k \in 1..HEAD : log[k].tree.fence # NoFence /\ old.id \in log[k].tree.fence.withdrawn

\* The fence some batch leaves can be parsed by the next one: one pending version of
\* an id, nothing both pending and completed, all of it affected (migrateSynchronizationState).
ProgressIsReadable ==
  tree.fence # NoFence =>
    LET waiting == {r.id : r \in tree.fence.pending}
    IN /\ \A r, q \in tree.fence.pending : r.id = q.id => r = q
       /\ waiting \cap tree.fence.completed = {}
       /\ waiting \cup tree.fence.completed \subseteq tree.fence.affected

\* A view stands only on sources that are current, whoever published the catalog.
ViewIsCurrent == ViewHolds(tree.catalog)

\* What a caller was told had succeeded is committed and on the remote.
AnsweredIsRemote == \A o \in answered : CommitOf(<<o, "final">>) \in 1..remote

\* The Host forgets an event only when its text can be had from the remote.
ReleasedIsRecoverable ==
  \A event \in released : \E k \in 1..remote : \E r \in Refs(log[k].tree.catalog) :
    r.id = event.id /\ r.version.content = event.content
=============================================================================
