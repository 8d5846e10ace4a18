---------------------------- MODULE MemoryCatalog ----------------------------
(***************************************************************************)
(* What the writers of CangHai's memory compute from a catalog: which rows *)
(* are eligible, what an archived page adds, what a change of the owner's  *)
(* files does to the rows that rest on it, and when a view must be rebuilt *)
(* (canghai/catalog-reader.ts, ingest.ts, synchronization-plan.ts,         *)
(* view-migration.ts, learning/correction.ts).                             *)
(*                                                                         *)
(* A catalog is [generation, parent, rows, view].  rows maps an exact      *)
(* reference [id, version] to [status, deps, at].  A source stands with    *)
(* its evidence and coverage, a cognition (an understanding or a piece of  *)
(* ongoing work) with its change record.  A version is what the hash of    *)
(* the object covers: the content, the policy it is bound to and the       *)
(* operation or revision that recorded it; paths are not part of it.       *)
(***************************************************************************)
EXTENDS Naturals, FiniteSets

CONSTANTS
  Paths,      \* paths of the owner's own files
  PolicyPath, \* the owner's source policy, whose id is this path
  Declared,   \* paths the corpus registry declares as sources
  Cognition,  \* ids of understandings and works
  Open,       \* the policy text that lets Stella retain and learn
  Gone,       \* the content of a file that is not there
  NoView      \* a catalog without views

(***************************************************************************)
(* Eligibility (CatalogReader).                                            *)
(***************************************************************************)
Refs(cat) == DOMAIN cat.rows

Current(cat) == {r \in Refs(cat) : cat.rows[r].status = "current"}

CurrentCognition(cat) == {r \in Current(cat) : r.id \in Cognition}

\* A row is eligible while it and everything it rests on is current: the largest set of
\* current rows that rest on nothing else.
Eligible(cat) ==
  UNION {kept \in SUBSET Current(cat) : \A r \in kept : cat.rows[r].deps \subseteq kept}

PolicyRow(cat) == {r \in Current(cat) : r.id = PolicyPath}

\* What the policies in force let Stella read and learn from.
Readable(cat) ==
  {r \in Eligible(cat) : /\ r.id \notin Cognition \cup {PolicyPath}
                         /\ \A p \in cat.rows[r].deps : p.version = Open}

\* parseMemoryCatalog: one current version of an id.
WellFormed(cat) == \A r, s \in Current(cat) : r.id = s.id => r = s

(***************************************************************************)
(* Rows.                                                                   *)
(***************************************************************************)
Mark(rows, refs, status) ==
  [r \in DOMAIN rows |-> IF r \in refs THEN [rows[r] EXCEPT !.status = status] ELSE rows[r]]

\* plan.add: new rows, or an old version brought back.
Put(rows, new) == [r \in DOMAIN rows \cup DOMAIN new |-> IF r \in DOMAIN new THEN new[r] ELSE rows[r]]

Row(deps, at) == [status |-> "current", deps |-> deps, at |-> at]

\* Sets of current rows that miss no current row resting on them or on a changed row.
Closures(cat, changed) ==
  LET current == Current(cat)
  IN {found \in SUBSET current : \A r \in current : cat.rows[r].deps \cap (changed \cup found) # {} => r \in found}

\* The rows that rest on a changed row, through whatever rests on it in turn.
Dependents(cat, changed) ==
  LET closures == Closures(cat, changed)
  IN changed \cup {r \in Current(cat) : \A found \in closures : r \in found}

(***************************************************************************)
(* Views.                                                                  *)
(***************************************************************************)
\* A variant: rows that lost their status are not looked at; no specification uses it.
NewRefs(before, after) == Refs(after) \ Refs(before)

\* New or rewritten rows, and rows that are no longer current.
CatalogChangedRefs(before, after) ==
     {r \in Refs(after) : r \in Refs(before) => before.rows[r] # after.rows[r]}
  \cup {r \in Current(before) : r \notin Current(after)}

\* A view that names no source is bound to the whole evidence plane.
ViewNeedsRebuild(before, after) ==
  LET changed == CatalogChangedRefs(before, after)
  IN before.view # NoView /\
     IF before.view = {} THEN \E r \in changed : r.id \notin Cognition
     ELSE before.view \cap changed # {}

\* An admitted rebuild reads the current versions of the same objects.
Rebuilt(before, after) == {r \in Current(after) : \E o \in before.view : o.id = r.id}

\* The next generation, its views reauthenticated or rebuilt.
Successor(before, rows, operation) ==
  LET after == [before EXCEPT !.generation = operation, !.parent = before.generation, !.rows = rows]
  IN [after EXCEPT !.view = IF ViewNeedsRebuild(before, after) THEN Rebuilt(before, after) ELSE @]

(***************************************************************************)
(* Ingestion: buildArchive and applyArchiveToCatalog.                      *)
(***************************************************************************)
\* One archived event of a page: its content, under the policy of the request.
EventRef(event, operation, policy) ==
  [id |-> event.id, version |-> [content |-> event.content, policy |-> policy.version, born |-> operation]]

\* archive_catalog_conflict: an event whose rows were all retired is not archived again.
Archivable(cat, page, operation, policy) ==
  \A event \in page :
    LET n == EventRef(event, operation, policy)
    IN IF n \in Refs(cat) THEN cat.rows[n] = Row({policy}, Gone)
       ELSE \/ \E r \in Current(cat) : r.id = n.id
            \/ \A r \in Refs(cat) : r.id # n.id

\* A variant: an edited event leaves its older version current; no specification uses it.
ArchiveRowsKept(cat, page, operation, policy) ==
  Put(cat.rows, [n \in {EventRef(event, operation, policy) : event \in page} |-> Row({policy}, Gone)])

ArchiveRows(cat, page, operation, policy) ==
  LET new == {EventRef(event, operation, policy) : event \in page}
      superseded == {r \in Current(cat) : \E n \in new : n.id = r.id /\ n # r}
  IN Put(Mark(cat.rows, superseded, "superseded"), [n \in new |-> Row({policy}, Gone)])

(***************************************************************************)
(* Synchronization: prepareSourceChanges over two committed file maps.     *)
(***************************************************************************)
Removals(from, to)  == {p \in Paths : from[p] # Gone /\ to[p] = Gone}
Additions(from, to) == {p \in Paths : from[p] = Gone /\ to[p] # Gone}

\* git's exact renames; a move counts only when its two ends are unique.
Moves(from, to) ==
  {m \in Removals(from, to) \X Additions(from, to) : from[m[1]] = to[m[2]]}
AmbiguousMove(from, to) ==
  \E m, n \in Moves(from, to) : m # n /\ from[m[1]] = from[n[1]]
MovedTo(from, to, p) ==
  IF \E m \in Moves(from, to) : m[1] = p
  THEN (CHOOSE m \in Moves(from, to) : m[1] = p)[2] ELSE p

\* The policy that holds after the change, wherever its file went; none once it is gone.
PolicyFiles(cat, from, to) == {MovedTo(from, to, cat.rows[p].at) : p \in PolicyRow(cat)}
NextPolicy(cat, from, to) ==
  {[id |-> PolicyPath, version |-> to[f]] : f \in {g \in PolicyFiles(cat, from, to) : to[g] # Gone}}

\* The current sources, their next version and where their file lies.
SourceRows(cat) == {r \in Current(cat) : r.id \notin Cognition \cup {PolicyPath}}
Relocated(cat, from, to, r) ==
  IF cat.rows[r].at = Gone THEN Gone ELSE MovedTo(from, to, cat.rows[r].at)
Unavailable(cat, from, to, r) ==
  \/ NextPolicy(cat, from, to) = {}
  \/ cat.rows[r].at # Gone /\ to[Relocated(cat, from, to, r)] = Gone
\* A variant: a source's digest is not taken again; no specification uses it.
VersionKept(cat, from, to, r) ==
  LET policy == CHOOSE p \in NextPolicy(cat, from, to) : TRUE
  IN [id |-> r.id, version |-> [r.version EXCEPT !.policy = policy.version]]

NextVersion(cat, from, to, r) ==
  LET policy == CHOOSE p \in NextPolicy(cat, from, to) : TRUE
  IN [id |-> r.id,
      version |-> [r.version EXCEPT !.policy = policy.version,
                     !.content = IF cat.rows[r].at = Gone THEN @ ELSE to[Relocated(cat, from, to, r)]]]

\* Declared files nobody had registered; the revision tells their record apart.
Discovered(cat, from, to, revision) ==
  LET moved == {m[2] : m \in Moves(from, to)}
  IN {[id |-> p, version |-> [content |-> to[p], policy |-> q.version, born |-> revision]] :
        p \in (Additions(from, to) \cap Declared) \ (moved \cup {PolicyPath}), q \in NextPolicy(cat, from, to)}

\* The rows of the next generation before any cognition is reassessed.
ReassessedRows(cat, from, to, revision) ==
  LET policies == PolicyRow(cat)
      removed  == {r \in SourceRows(cat) : Unavailable(cat, from, to, r)}
      kept     == SourceRows(cat) \ removed
      stale    == {r \in kept : NextVersion(cat, from, to, r) # r}
      oldPolicies == policies \ NextPolicy(cat, from, to)
      changed  == removed \cup stale \cup oldPolicies
      found    == Discovered(cat, from, to, revision)
      affected == IF found # {} THEN CurrentCognition(cat)
                  ELSE {r \in Dependents(cat, changed) : r.id \in Cognition}
      gone     == {r \in Refs(cat) : \E s \in removed : r.id = s.id}
                    \cup (IF NextPolicy(cat, from, to) = {} THEN policies ELSE {})
      marked   == Mark(Mark(cat.rows, (stale \cup oldPolicies \cup affected) \ gone, "superseded"), gone, "removed")
  IN [rows |-> Put(marked,
        [r \in NextPolicy(cat, from, to) \cup {NextVersion(cat, from, to, k) : k \in kept} \cup found |->
           IF r \in NextPolicy(cat, from, to) THEN Row({}, CHOOSE f \in PolicyFiles(cat, from, to) : TRUE)
           ELSE Row(NextPolicy(cat, from, to),
                    IF r \in found THEN r.id
                    ELSE Relocated(cat, from, to, CHOOSE k \in kept : NextVersion(cat, from, to, k) = r))]),
      affected |-> affected]

(***************************************************************************)
(* Reassessment and correction: replaced cognition.                        *)
(***************************************************************************)
\* Every replacement is a new version recorded by the operation.
Replacement(id, operation) == [id |-> id, version |-> operation]

\* support[id]: what the new version of id rests on.
Replaced(rows, support, operation) ==
  Put(Mark(rows, {r \in DOMAIN rows : r.id \in DOMAIN support /\ rows[r].status = "current"}, "superseded"),
      [r \in {Replacement(id, operation) : id \in DOMAIN support} |-> Row(support[r.id], Gone)])
=============================================================================
