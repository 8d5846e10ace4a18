-------------------------- MODULE MemoryCatalogProofs --------------------------
(***************************************************************************)
(* What the operators of MemoryCatalog and Corrections do to a catalog:    *)
(* every catalog they make from a good one is good.                        *)
(***************************************************************************)
EXTENDS MemoryLifecycle, TLAPS

Sound(cat) == CatalogOK(cat) /\ ViewHolds(cat) /\ CognitionHolds(cat)

Statuses == {"current", "superseded", "removed"}

\* One current version of an id.
Unique(rows) ==
  \A r, s \in DOMAIN rows : rows[r].status = "current" /\ rows[s].status = "current" /\ r.id = s.id => r = s

\* The next generation, made by operation.
Advance(before, after, operation) ==
  /\ Sound(after)
  /\ after.generation = operation /\ after.parent = before.generation
  /\ Refs(before) \subseteq Refs(after)

\* Everything that was understood is, in this version or the next.
Remembers(before, after) == \A r \in CurrentCognition(before) : \E q \in CurrentCognition(after) : q.id = r.id

-----------------------------------------------------------------------------
(* Rows *)

LEMMA Marking ==
  ASSUME NEW rows, NEW refs, NEW status \in Statuses, RowsOK(rows)
  PROVE  /\ DOMAIN Mark(rows, refs, status) = DOMAIN rows
         /\ RowsOK(Mark(rows, refs, status))
         /\ \A r \in DOMAIN rows :
              /\ Mark(rows, refs, status)[r].status = IF r \in refs THEN status ELSE rows[r].status
              /\ Mark(rows, refs, status)[r].deps = rows[r].deps
              /\ Mark(rows, refs, status)[r].at = rows[r].at
              /\ r \notin refs => Mark(rows, refs, status)[r] = rows[r]
BY DEF Mark, RowsOK, Statuses

LEMMA Putting ==
  ASSUME NEW rows, NEW new, RowsOK(rows), RowsOK(new)
  PROVE  RowsOK(Put(rows, new))
BY DEF Put, RowsOK

LEMMA ARow ==
  ASSUME NEW deps, NEW at
  PROVE  /\ DOMAIN Row(deps, at) = {"status", "deps", "at"}
         /\ Row(deps, at).status = "current" /\ Row(deps, at).deps = deps /\ Row(deps, at).at = at
BY DEF Row

\* A view whose rows a change does not touch is as current as it was.
LEMMA UntouchedView ==
  ASSUME NEW before, NEW after, ViewHolds(before), after.view = before.view,
         ~ViewNeedsRebuild(before, after)
  PROVE  ViewHolds(after)
<1>1. SUFFICES ASSUME before.view # NoView, NEW r \in before.view PROVE r \in Current(after)
  BY DEF ViewHolds
<1>2. r \in Current(before)
  BY <1>1 DEF ViewHolds
<1>3. r \notin CatalogChangedRefs(before, after)
  BY <1>1 DEF ViewNeedsRebuild
<1>4. QED BY <1>2, <1>3 DEF CatalogChangedRefs

\* The next generation: its rows are what the operation made of them, its view holds.
LEMMA Succeeding ==
  ASSUME NEW before, NEW rows, NEW operation, CatalogOK(before), ViewHolds(before)
  PROVE  LET after == Successor(before, rows, operation)
         IN /\ DOMAIN after = {"generation", "parent", "rows", "view"}
            /\ after.generation = operation /\ after.parent = before.generation /\ after.rows = rows
            /\ ViewHolds(after)
<1> DEFINE next  == [before EXCEPT !.generation = operation, !.parent = before.generation, !.rows = rows]
           after == Successor(before, rows, operation)
<1>1. /\ DOMAIN next = {"generation", "parent", "rows", "view"} /\ next.view = before.view
      /\ next.generation = operation /\ next.parent = before.generation /\ next.rows = rows
  BY DEF CatalogOK
<1>2. after = [next EXCEPT !.view = IF ViewNeedsRebuild(before, next) THEN Rebuilt(before, next) ELSE @]
  BY DEF Successor
<1> HIDE DEF next, after
<1>3. /\ DOMAIN after = {"generation", "parent", "rows", "view"}
      /\ after.generation = operation /\ after.parent = before.generation /\ after.rows = rows
      /\ after.view = IF ViewNeedsRebuild(before, next) THEN Rebuilt(before, next) ELSE before.view
  BY <1>1, <1>2
<1>4. Current(after) = Current(next)
  BY <1>1, <1>3 DEF Current, Refs
<1>5. ASSUME ViewNeedsRebuild(before, next) PROVE ViewHolds(after)
  BY <1>3, <1>4, <1>5 DEF Rebuilt, ViewHolds
<1>6. ASSUME ~ViewNeedsRebuild(before, next) PROVE ViewHolds(after)
  <2>1. ViewHolds(next)
    BY <1>1, <1>6, UntouchedView
  <2>2. QED BY <1>1, <1>3, <1>4, <1>6, <2>1 DEF ViewHolds
<1>7. QED BY <1>3, <1>5, <1>6 DEF after

-----------------------------------------------------------------------------
(* Ingestion *)

\* The rows that archiving a page leaves: its events, one version of each, and whatever
\* is no event as it was.
Archives(cat, page, rows) ==
  /\ RowsOK(rows) /\ Unique(rows) /\ Refs(cat) \subseteq DOMAIN rows
  /\ \A event \in page : \E r \in DOMAIN rows : r.id = event.id /\ r.version.content = event.content
  /\ \A r \in DOMAIN rows : r.id \notin EventIds => r \in Refs(cat) /\ rows[r] = cat.rows[r]

LEMMA Archiving ==
  ASSUME NEW cat, Sound(cat), NEW n \in DOMAIN Events, NEW operation, NEW policy,
         NEW rows, rows = ArchiveRows(cat, Events[n], operation, policy)
  PROVE  Archives(cat, Events[n], rows)
<1> DEFINE new == {EventRef(event, operation, policy) : event \in Events[n]}
           superseded == {r \in Current(cat) : \E e \in new : e.id = r.id /\ e # r}
           marked == Mark(cat.rows, superseded, "superseded")
           added == [r \in new |-> Row({policy}, Gone)]
<1>1. rows = Put(marked, added)
  BY DEF ArchiveRows
<1>2. \A r \in new : r.id \in EventIds
  BY DEF EventRef, EventIds
<1>3. \A r, s \in new : r.id = s.id => r = s
  BY IdsAssumption DEF EventRef, IdsAssumption
<1>4. RowsOK(added) /\ DOMAIN added = new
  <2>1. \A r \in new : DOMAIN r.version = {"content", "policy", "born"}
    BY DEF EventRef
  <2> HIDE DEF new
  <2>2. QED BY <2>1, ARow DEF RowsOK
<1>5. RowsOK(cat.rows) /\ WellFormed(cat)
  BY DEF Sound, CatalogOK
<1>6. /\ DOMAIN marked = DOMAIN cat.rows /\ RowsOK(marked)
      /\ \A r \in DOMAIN cat.rows :
           /\ marked[r].status = IF r \in superseded THEN "superseded" ELSE cat.rows[r].status
           /\ r \notin superseded => marked[r] = cat.rows[r]
  BY <1>5, Marking DEF Statuses
<1>7. \A r \in superseded : r.id \in EventIds /\ r \in Current(cat)
  BY <1>2
<1>8. \A r \in new : added[r].status = "current"
  BY ARow
<1> HIDE DEF marked, added
<1>9. /\ DOMAIN rows = DOMAIN cat.rows \cup new /\ RowsOK(rows)
      /\ \A r \in new : rows[r] = added[r]
      /\ \A r \in DOMAIN cat.rows \ new : rows[r] = marked[r]
  <2> HIDE DEF new, superseded
  <2>1. RowsOK(rows)
    BY <1>1, <1>4, <1>6, Putting
  <2>2. QED BY <1>1, <1>4, <1>6, <2>1 DEF Put
<1>10. ASSUME NEW r \in DOMAIN rows, NEW s \in DOMAIN rows, rows[r].status = "current",
              rows[s].status = "current", r.id = s.id
       PROVE  r = s
  <2>1. ASSUME NEW x \in DOMAIN rows, x \notin new, rows[x].status = "current"
        PROVE  x \in Current(cat) /\ \A e \in new : e.id # x.id
    <3>1. x \in DOMAIN cat.rows /\ marked[x].status = "current"
      BY <1>9, <2>1
    <3>2. x \notin superseded /\ cat.rows[x].status = "current"
      BY <1>6, <3>1
    <3>3. QED BY <2>1, <3>1, <3>2 DEF Current, Refs
  <2> HIDE DEF new, superseded
  <2>2. QED BY <1>3, <1>5, <1>10, <2>1 DEF WellFormed
<1>11. \A r \in DOMAIN rows : r.id \notin EventIds => r \in Refs(cat) /\ rows[r] = cat.rows[r]
  BY <1>2, <1>6, <1>7, <1>9 DEF Refs
<1>12. \A event \in Events[n] :
         /\ EventRef(event, operation, policy) \in DOMAIN rows
         /\ EventRef(event, operation, policy).id = event.id
         /\ EventRef(event, operation, policy).version.content = event.content
  BY <1>9 DEF EventRef
<1>13. Unique(rows)
  BY <1>10 DEF Unique
<1>14. QED BY <1>9, <1>11, <1>12, <1>13 DEF Archives, Refs

\* What an operation replaced besides r stays so.
LEMMA StaysReplaced ==
  ASSUME NEW cat, NEW after, NEW r, NEW d, ReplacedWith(cat, r, d), Refs(cat) \subseteq Refs(after)
  PROVE  ReplacedWith(after, r, d)
BY DEF ReplacedWith

LEMMA Ingesting ==
  ASSUME NEW cat, Sound(cat), NEW n \in DOMAIN Events, NEW operation, NEW policy, NEW after,
         after = [cat EXCEPT !.generation = operation, !.parent = cat.generation,
                             !.rows = ArchiveRows(cat, Events[n], operation, policy)],
         ~ViewNeedsRebuild(cat, after)
  PROVE  Advance(cat, after, operation) /\ Covers(after, Events[n]) /\ Remembers(cat, after)
<1> DEFINE rows == ArchiveRows(cat, Events[n], operation, policy)
<1>1. Archives(cat, Events[n], rows)
  BY Archiving
<1> HIDE DEF rows
<1>2. CatalogOK(cat) /\ ViewHolds(cat) /\ CognitionHolds(cat)
  BY DEF Sound
<1>3. /\ DOMAIN after = {"generation", "parent", "rows", "view"} /\ after.view = cat.view
      /\ after.generation = operation /\ after.parent = cat.generation /\ after.rows = rows
  BY <1>2 DEF CatalogOK, rows
<1>4. CatalogOK(after) /\ Refs(cat) \subseteq Refs(after)
  BY <1>1, <1>3 DEF CatalogOK, WellFormed, Unique, Current, Refs, Archives
<1>5. ViewHolds(after)
  BY <1>2, <1>3, UntouchedView
<1>6. \A r \in Refs(after) : r.id \notin EventIds => r \in Refs(cat) /\ after.rows[r] = cat.rows[r]
  BY <1>1, <1>3 DEF Archives, Refs
<1>7. \A r \in Refs(cat) : r.id \notin EventIds => r \in Refs(after) /\ after.rows[r] = cat.rows[r]
  BY <1>4, <1>6
<1>8. Remembers(cat, after)
  BY <1>7, IdsAssumption DEF Remembers, CurrentCognition, Current, IdsAssumption
<1>9. CognitionHolds(after)
  <2>1. SUFFICES ASSUME NEW r \in CurrentCognition(after), NEW d \in after.rows[r].deps, d.id \notin EventIds
                 PROVE  d \in Current(after) \/ ReplacedWith(after, r, d)
    BY DEF CognitionHolds
  <2>2. r \in CurrentCognition(cat) /\ d \in cat.rows[r].deps
    BY <1>6, <2>1, IdsAssumption DEF CurrentCognition, Current, IdsAssumption
  <2>3. d \in Current(cat) \/ ReplacedWith(cat, r, d)
    BY <1>2, <2>1, <2>2 DEF CognitionHolds
  <2>4. CASE d \in Current(cat)
    BY <1>7, <2>1, <2>4 DEF Current
  <2>5. CASE ReplacedWith(cat, r, d)
    BY <1>4, <2>5, StaysReplaced
  <2>6. QED BY <2>3, <2>4, <2>5
<1>10. Covers(after, Events[n])
  BY <1>1, <1>3 DEF Archives, Covers, Refs
<1>11. QED BY <1>3, <1>4, <1>5, <1>8, <1>9, <1>10 DEF Advance, Sound

-----------------------------------------------------------------------------
(* Replaced cognition *)

\* What rests on a changed row, or on what rests on one, is found.
LEMMA Resting ==
  ASSUME NEW cat, NEW changed, NEW r \in Current(cat), NEW d \in cat.rows[r].deps,
         d \in Dependents(cat, changed)
  PROVE  r \in Dependents(cat, changed)
<1>1. SUFFICES ASSUME NEW found \in Closures(cat, changed) PROVE r \in found
  BY DEF Dependents
<1>2. d \in changed \cup found
  BY <1>1 DEF Dependents
<1>3. QED BY <1>1, <1>2 DEF Closures

\* The rows that replacing the objects of support leaves: the new versions rest on what
\* support says, the old ones are superseded, everything else is as it was.
Replaces(rows, support, new, made) ==
  /\ RowsOK(made) /\ Unique(made) /\ DOMAIN made = DOMAIN rows \cup new
  /\ \A r \in new : made[r].status = "current" /\ made[r].deps = support[r.id] /\ made[r].at = Gone
  /\ \A r \in DOMAIN rows \ new :
       /\ made[r].status = IF r.id \in DOMAIN support /\ rows[r].status = "current"
                           THEN "superseded" ELSE rows[r].status
       /\ made[r].deps = rows[r].deps /\ made[r].at = rows[r].at

LEMMA Replacing ==
  ASSUME NEW rows, NEW support, NEW operation, NEW new, NEW made,
         RowsOK(rows), Unique(rows), DOMAIN support \subseteq Cognition,
         new = {Replacement(id, operation) : id \in DOMAIN support}, made = Replaced(rows, support, operation)
  PROVE  Replaces(rows, support, new, made)
<1> DEFINE old == {r \in DOMAIN rows : r.id \in DOMAIN support /\ rows[r].status = "current"}
           marked == Mark(rows, old, "superseded")
           added == [r \in new |-> Row(support[r.id], Gone)]
<1>1. made = Put(marked, added)
  BY DEF Replaced
<1>2. \A r \in new : r.id \in DOMAIN support
  BY DEF Replacement
<1>3. \A r, s \in new : r.id = s.id => r = s
  BY DEF Replacement
<1>4. RowsOK(added) /\ DOMAIN added = new
  BY <1>2, ARow DEF RowsOK
<1>5. \A r \in new : added[r].status = "current" /\ added[r].deps = support[r.id] /\ added[r].at = Gone
  BY ARow
<1>6. /\ DOMAIN marked = DOMAIN rows /\ RowsOK(marked)
      /\ \A r \in DOMAIN rows :
           /\ marked[r].status = IF r \in old THEN "superseded" ELSE rows[r].status
           /\ marked[r].deps = rows[r].deps /\ marked[r].at = rows[r].at
  BY Marking DEF Statuses
<1> HIDE DEF marked, added
<1>7. /\ DOMAIN made = DOMAIN rows \cup new /\ RowsOK(made)
      /\ \A r \in new : made[r] = added[r]
      /\ \A r \in DOMAIN rows \ new : made[r] = marked[r]
  <2> HIDE DEF old
  <2>1. RowsOK(made)
    BY <1>1, <1>4, <1>6, Putting
  <2>2. QED BY <1>1, <1>4, <1>6, <2>1 DEF Put
<1>8. ASSUME NEW r \in DOMAIN made, NEW s \in DOMAIN made, made[r].status = "current",
             made[s].status = "current", r.id = s.id
      PROVE  r = s
  <2>1. ASSUME NEW x \in DOMAIN made, x \notin new, made[x].status = "current"
        PROVE  x \in DOMAIN rows /\ rows[x].status = "current" /\ x.id \notin DOMAIN support
    <3>1. x \in DOMAIN rows /\ marked[x].status = "current"
      BY <1>7, <2>1
    <3>2. QED BY <1>6, <3>1
  <2> HIDE DEF old
  <2>2. QED BY <1>2, <1>3, <1>8, <2>1 DEF Unique
<1>9. Unique(made)
  BY <1>8 DEF Unique
<1>10. QED BY <1>5, <1>6, <1>7, <1>9 DEF Replaces

LEMMA Correcting ==
  ASSUME NEW cat, Sound(cat), NEW e, e.id \in EventIds, NEW k, NEW proposal, NEW ids, ids = DOMAIN proposal,
         ids \subseteq {r.id : r \in CurrentCognition(cat)}, ScopeComplete(cat, ids),
         \A id \in ids : proposal[id].cites \subseteq Current(cat),
         NEW after, after = CorrectedCatalog(cat, proposal, e, k)
  PROVE  Advance(cat, after, k) /\ Remembers(cat, after)
<1> DEFINE support == [id \in ids |-> {e} \cup {Rebind(proposal, id, c, k) : c \in proposal[id].cites}]
           new     == {Replacement(id, k) : id \in ids}
           made    == Replaced(cat.rows, support, k)
<1>1. after = Successor(cat, made, k)
  BY DEF CorrectedCatalog
<1>2. CatalogOK(cat) /\ RowsOK(cat.rows) /\ Unique(cat.rows) /\ ViewHolds(cat) /\ CognitionHolds(cat)
  BY DEF Sound, CatalogOK, WellFormed, Unique, Current, Refs
<1>3. ids \subseteq Cognition /\ DOMAIN support = ids
  BY DEF CurrentCognition
<1>4. \A id \in ids : Replacement(id, k).id = id
  BY DEF Replacement
<1> HIDE DEF support
<1>5. /\ RowsOK(made) /\ Unique(made) /\ DOMAIN made = Refs(cat) \cup new
      /\ \A r \in new : made[r].status = "current" /\ made[r].deps = support[r.id]
      /\ \A r \in Refs(cat) \ new :
           /\ made[r].status = IF r.id \in ids /\ cat.rows[r].status = "current"
                               THEN "superseded" ELSE cat.rows[r].status
           /\ made[r].deps = cat.rows[r].deps
  <2>1. new = {Replacement(id, k) : id \in DOMAIN support}
    BY <1>3
  <2>2. DOMAIN support \subseteq Cognition
    BY <1>3
  <2>3. made = Replaced(cat.rows, support, k)
    OBVIOUS
  <2> HIDE DEF new, made
  <2>4. Replaces(cat.rows, support, new, made)
    BY <1>2, <2>1, <2>2, <2>3, Replacing
  <2>5. QED BY <1>3, <2>4 DEF Refs, Replaces
<1> HIDE DEF made
<1>6. /\ DOMAIN after = {"generation", "parent", "rows", "view"}
      /\ after.generation = k /\ after.parent = cat.generation /\ after.rows = made
      /\ ViewHolds(after)
  BY <1>1, <1>2, Succeeding
<1>7. CatalogOK(after) /\ Refs(cat) \subseteq Refs(after)
  BY <1>5, <1>6 DEF CatalogOK, WellFormed, Unique, Current, Refs
<1>8. /\ \A r \in new : r \in Current(after)
      /\ \A r \in Current(cat) : r.id \notin ids => r \in Current(after)
      /\ \A r \in Current(after) \ new : r \in Current(cat) /\ r.id \notin ids /\ after.rows[r].deps = cat.rows[r].deps
  BY <1>4, <1>5, <1>6 DEF Current, Refs
<1>9. ASSUME NEW r \in CurrentCognition(after), NEW d \in after.rows[r].deps
      PROVE  d \in Current(after) \/ d.id \in EventIds \/ ReplacedWith(after, r, d)
  <2>1. CASE r \in new
    <3>1. PICK id \in ids : r = Replacement(id, k)
      BY <2>1
    <3>2. d = e \/ \E c \in proposal[id].cites : d = Rebind(proposal, id, c, k)
      <4>1. d \in support[r.id] /\ r.id = id
        BY <1>4, <1>5, <1>6, <1>9, <2>1, <3>1
      <4>2. QED BY <4>1 DEF support
    <3>3. CASE d = e
      BY <3>3
    <3>4. CASE \E c \in proposal[id].cites : d = Rebind(proposal, id, c, k)
      <4>1. PICK c \in proposal[id].cites : d = Rebind(proposal, id, c, k)
        BY <3>4
      <4>2. c \in Current(cat)
        BY <4>1
      <4>3. CASE c.id \notin ids
        BY <1>8, <4>1, <4>2, <4>3 DEF Rebind
      <4>4. CASE c.id \in ids
        <5>1. Replacement(c.id, k) \in new /\ Replacement(c.id, k) \in Current(after)
          BY <1>8, <4>4
        <5>2. r.version = k
          BY <3>1 DEF Replacement
        <5>3. d = Replacement(c.id, k) \/ d = c
          BY <4>1 DEF Rebind
        <5>4. CASE d = c /\ d # Replacement(c.id, k)
          BY <1>3, <4>4, <5>1, <5>2, <5>4 DEF ReplacedWith, Current
        <5>5. QED BY <5>1, <5>3, <5>4
      <4>5. QED BY <4>3, <4>4
    <3>5. QED BY <3>2, <3>3, <3>4
  <2>2. CASE r \notin new
    <3>1. r \in CurrentCognition(cat) /\ r.id \notin ids /\ d \in cat.rows[r].deps
      BY <1>8, <1>9, <2>2 DEF CurrentCognition
    <3>2. CASE d.id \in EventIds
      BY <3>2
    <3>3. CASE d \in Current(cat)
      <4>1. SUFFICES ASSUME d.id \in ids PROVE FALSE
        BY <1>8, <3>3
      <4>2. d \in {c \in CurrentCognition(cat) : c.id \in ids}
        BY <1>3, <3>3, <4>1 DEF CurrentCognition
      <4>3. r \in Dependents(cat, {c \in CurrentCognition(cat) : c.id \in ids})
        BY <3>1, <4>2, Resting DEF Dependents, CurrentCognition
      <4>4. QED BY <3>1, <4>3 DEF ScopeComplete, CurrentCognition
    <3>4. CASE ReplacedWith(cat, r, d)
      BY <1>7, <3>4, StaysReplaced
    <3>5. QED BY <1>2, <3>1, <3>2, <3>3, <3>4 DEF CognitionHolds
  <2>3. QED BY <2>1, <2>2
<1>10. \A r \in CurrentCognition(cat) : \E q \in CurrentCognition(after) : q.id = r.id
  BY <1>4, <1>8 DEF CurrentCognition
<1>11. Sound(after)
  BY <1>6, <1>7, <1>9 DEF Sound, CognitionHolds
<1>12. QED BY <1>6, <1>7, <1>10, <1>11 DEF Advance, Remembers

-----------------------------------------------------------------------------
(* Reassessment *)

\* What a reassessment of cat for the owner's files to leaves, made = [rows, affected].
Reassessed(cat, to, made) ==
  /\ RowsOK(made.rows) /\ Refs(cat) \subseteq DOMAIN made.rows
  /\ made.affected \subseteq CurrentCognition(cat)
  /\ \A r \in DOMAIN made.rows : r.id \in Cognition =>
       /\ r \in Refs(cat) /\ made.rows[r].deps = cat.rows[r].deps
       /\ made.rows[r].status = "current" <=> r \in Current(cat) /\ r \notin made.affected
  /\ \A r \in CurrentCognition(cat) \ made.affected : \A d \in cat.rows[r].deps :
       d.id \in EventIds \/ (d \in DOMAIN made.rows /\ made.rows[d].status = "current") \/ ReplacedWith(cat, r, d)
  /\ \A r \in DOMAIN made.rows : made.rows[r].status = "current" /\ made.rows[r].at # Gone =>
       to[made.rows[r].at] = IF r.id = PolicyPath THEN r.version ELSE r.version.content

\* The next version of a source keeps its id and says what its file says.
LEMMA NextVersions ==
  ASSUME NEW cat, NEW from, NEW to, NEW k \in SourceRows(cat), RowsOK(cat.rows)
  PROVE  LET r == NextVersion(cat, from, to, k)
         IN /\ r.id = k.id /\ r.id \notin Cognition \cup {PolicyPath}
            /\ DOMAIN r.version = {"content", "policy", "born"}
            /\ Relocated(cat, from, to, k) # Gone => r.version.content = to[Relocated(cat, from, to, k)]
<1>1. DOMAIN k.version = {"content", "policy", "born"} /\ k.id \notin Cognition \cup {PolicyPath}
  BY DEF SourceRows, RowsOK, Current, Refs
<1>2. cat.rows[k].at = Gone => Relocated(cat, from, to, k) = Gone
  BY DEF Relocated
<1>3. QED BY <1>1, <1>2 DEF NextVersion

LEMMA Reassessing ==
  ASSUME NEW cat, Sound(cat), NEW from, NEW to, NEW revision, NEW made,
         made = ReassessedRows(cat, from, to, revision)
  PROVE  Reassessed(cat, to, made)
<1> DEFINE policies == PolicyRow(cat)
           next     == NextPolicy(cat, from, to)
           removed  == {r \in SourceRows(cat) : Unavailable(cat, from, to, r)}
           kept     == SourceRows(cat) \ removed
           stale    == {r \in kept : NextVersion(cat, from, to, r) # r}
           oldPolicies == policies \ next
           changed  == removed \cup stale \cup oldPolicies
           found    == Discovered(cat, from, to, revision)
           affected == IF found # {} THEN CurrentCognition(cat)
                       ELSE {r \in Dependents(cat, changed) : r.id \in Cognition}
           gone     == {r \in Refs(cat) : \E s \in removed : r.id = s.id}
                         \cup (IF next = {} THEN policies ELSE {})
           set      == (stale \cup oldPolicies \cup affected) \ gone
           marked   == Mark(Mark(cat.rows, set, "superseded"), gone, "removed")
           versions == {NextVersion(cat, from, to, k) : k \in kept}
           new      == next \cup versions \cup found
           policyAt == CHOOSE f \in PolicyFiles(cat, from, to) : TRUE
           source(r) == CHOOSE k \in kept : NextVersion(cat, from, to, k) = r
           added    == [r \in new |->
                          IF r \in next THEN Row({}, policyAt)
                          ELSE Row(next, IF r \in found THEN r.id ELSE Relocated(cat, from, to, source(r)))]
<1>1. made.rows = Put(marked, added) /\ made.affected = affected
  BY DEF ReassessedRows
<1>2. /\ RowsOK(cat.rows) /\ CognitionHolds(cat)
      /\ \A r, s \in Current(cat) : r.id = s.id => r = s
  BY DEF Sound, CatalogOK, WellFormed
<1>3. \A r \in next : r.id = PolicyPath
  BY DEF NextPolicy
<1>4. \A r \in found : /\ r.id \in Paths \ {PolicyPath} /\ r.version.content = to[r.id]
                        /\ DOMAIN r.version = {"content", "policy", "born"}
  BY DEF Discovered, Additions
<1>5. \A k \in kept : k \in SourceRows(cat)
  OBVIOUS
<1>6. \A k \in kept :
        /\ NextVersion(cat, from, to, k).id = k.id /\ k.id \notin Cognition \cup {PolicyPath}
        /\ DOMAIN NextVersion(cat, from, to, k).version = {"content", "policy", "born"}
        /\ Relocated(cat, from, to, k) # Gone
             => NextVersion(cat, from, to, k).version.content = to[Relocated(cat, from, to, k)]
  <2> HIDE DEF kept
  <2>1. QED BY <1>2, <1>5, NextVersions
<1>7. \A r \in new :
        /\ r.id \notin Cognition
        /\ r.id = PolicyPath \/ DOMAIN r.version = {"content", "policy", "born"}
  <2> HIDE DEF kept, next, found
  <2>1. QED BY <1>3, <1>4, <1>6, IdsAssumption DEF IdsAssumption
<1>8. RowsOK(added) /\ DOMAIN added = new
  <2> HIDE DEF new, found, next, source, policyAt
  <2>1. QED BY <1>7, ARow DEF RowsOK
<1>8a. \A r \in new :
         /\ added[r].status = "current"
         /\ r \in next => added[r].at = policyAt
         /\ r \notin next /\ r \in found => added[r].at = r.id
         /\ r \notin next /\ r \notin found => added[r].at = Relocated(cat, from, to, source(r))
  <2> HIDE DEF new, found, next, source, policyAt
  <2>1. QED BY DEF Row
<1>9. /\ DOMAIN marked = Refs(cat) /\ RowsOK(marked)
      /\ \A r \in Refs(cat) :
           /\ marked[r].status = IF r \in gone THEN "removed" ELSE IF r \in set THEN "superseded" ELSE cat.rows[r].status
           /\ marked[r].deps = cat.rows[r].deps /\ marked[r].at = cat.rows[r].at
  <2> HIDE DEF set, gone
  <2> DEFINE once == Mark(cat.rows, set, "superseded")
  <2>1. /\ DOMAIN once = DOMAIN cat.rows /\ RowsOK(once)
        /\ \A r \in DOMAIN cat.rows :
             /\ once[r].status = IF r \in set THEN "superseded" ELSE cat.rows[r].status
             /\ once[r].deps = cat.rows[r].deps /\ once[r].at = cat.rows[r].at
    BY <1>2, Marking DEF Statuses
  <2>2. marked = Mark(once, gone, "removed")
    OBVIOUS
  <2> HIDE DEF once, marked
  <2>3. /\ DOMAIN marked = DOMAIN once /\ RowsOK(marked)
        /\ \A r \in DOMAIN once :
             /\ marked[r].status = IF r \in gone THEN "removed" ELSE once[r].status
             /\ marked[r].deps = once[r].deps /\ marked[r].at = once[r].at
    BY <2>1, <2>2, Marking DEF Statuses
  <2>4. QED BY <2>1, <2>3 DEF Refs
<1>10. /\ DOMAIN made.rows = Refs(cat) \cup new /\ RowsOK(made.rows)
       /\ \A r \in new : made.rows[r] = added[r]
       /\ \A r \in Refs(cat) \ new : made.rows[r] = marked[r]
  <2> HIDE DEF marked, added, new
  <2>1. RowsOK(made.rows)
    BY <1>1, <1>8, <1>9, Putting
  <2>2. QED BY <1>1, <1>8, <1>9, <2>1 DEF Put
<1>11. /\ policies \subseteq Current(cat) /\ SourceRows(cat) \subseteq Current(cat)
       /\ \A r \in policies \cup SourceRows(cat) : r.id \notin Cognition
       /\ \A r \in policies : r.id = PolicyPath
  BY IdsAssumption DEF PolicyRow, SourceRows, IdsAssumption
<1>12. removed \cup kept = SourceRows(cat) /\ stale \subseteq kept
  OBVIOUS
<1>13. \A r \in gone : r.id \notin Cognition
  BY <1>11
<1>14. affected \subseteq CurrentCognition(cat)
  <2>1. changed \subseteq Current(cat)
    BY <1>11
  <2> HIDE DEF changed, found
  <2>2. QED BY <2>1 DEF CurrentCognition, Dependents
<1> HIDE DEF policies, next, removed, kept, stale, oldPolicies, found, affected, gone, marked, versions, added
<1>15. ASSUME NEW r \in DOMAIN made.rows, r.id \in Cognition
       PROVE  /\ r \in Refs(cat) /\ made.rows[r].deps = cat.rows[r].deps
              /\ made.rows[r].status = "current" <=> r \in Current(cat) /\ r \notin affected
  <2>1. r \in Refs(cat) /\ r \notin new /\ r \notin gone /\ made.rows[r] = marked[r]
    BY <1>7, <1>10, <1>13, <1>15
  <2>2. r \in set <=> r \in affected
    BY <1>11, <1>12, <1>15, <2>1 DEF oldPolicies
  <2>3. QED BY <1>9, <1>14, <2>1, <2>2 DEF Current, CurrentCognition
<1>16. ASSUME NEW r \in CurrentCognition(cat), r \notin affected, NEW d \in cat.rows[r].deps, d.id \notin EventIds,
             ~ReplacedWith(cat, r, d)
       PROVE  d \in DOMAIN made.rows /\ made.rows[d].status = "current"
  <2>1. d \in Current(cat)
    BY <1>2, <1>16 DEF CognitionHolds
  <2>2. found = {} /\ affected = {x \in Dependents(cat, changed) : x.id \in Cognition}
    BY <1>16 DEF affected
  <2>3. d \notin Dependents(cat, changed)
    BY <1>16, <2>2, Resting DEF CurrentCognition
  <2>4. d \notin changed
    BY <2>3 DEF Dependents
  <2>5. d \notin gone
    BY <1>2, <1>11, <1>12, <2>1, <2>4 DEF gone, oldPolicies
  <2>6. d \notin set
    BY <2>2, <2>3, <2>4
  <2>7. CASE d \in new
    BY <1>10, <1>8a, <2>7
  <2>8. CASE d \notin new
    BY <1>9, <1>10, <2>1, <2>5, <2>6, <2>8 DEF Current, Refs
  <2>9. QED BY <2>7, <2>8
<1>17. ASSUME NEW r \in DOMAIN made.rows, made.rows[r].status = "current", made.rows[r].at # Gone
       PROVE  to[made.rows[r].at] = IF r.id = PolicyPath THEN r.version ELSE r.version.content
  <2>1. CASE r \in next
    <3>1. made.rows[r].at = policyAt /\ r.id = PolicyPath
      BY <1>3, <1>10, <1>8a, <2>1
    <3>2. PICK f \in PolicyFiles(cat, from, to) : r.version = to[f]
      BY <2>1 DEF next, NextPolicy
    <3>3. PolicyFiles(cat, from, to) = {f}
      BY <1>2, <3>2 DEF PolicyFiles, PolicyRow
    <3>4. QED BY <3>1, <3>2, <3>3
  <2>2. CASE r \in found \ next
    <3>1. made.rows[r].at = r.id
      BY <1>10, <1>8a, <2>2
    <3>2. QED BY <1>4, <2>2, <3>1
  <2>3. CASE r \in versions \ (found \cup next)
    <3>1. \E k \in kept : NextVersion(cat, from, to, k) = r
      BY <2>3 DEF versions
    <3>2. source(r) \in kept /\ NextVersion(cat, from, to, source(r)) = r
      BY <3>1
    <3>3. made.rows[r].at = Relocated(cat, from, to, source(r))
      BY <1>10, <1>8a, <2>3
    <3> HIDE DEF source
    <3>4. QED BY <1>6, <1>17, <3>2, <3>3
  <2>4. CASE r \notin new
    <3>1. r \in Refs(cat) /\ r \notin gone /\ r \notin set /\ cat.rows[r].status = "current"
                          /\ made.rows[r].at = cat.rows[r].at
      BY <1>9, <1>10, <1>17, <2>4
    <3>2. r \in Current(cat) /\ r.id \notin Cognition
      BY <1>2, <1>17, <3>1 DEF Current, RowsOK, Refs
    <3>3. r \notin policies
      BY <2>4, <3>1 DEF oldPolicies
    <3>4. r \in SourceRows(cat)
      BY <3>2, <3>3 DEF SourceRows, policies, PolicyRow
    <3>5. r \notin removed
      BY <3>1 DEF gone
    <3>6. r \in kept /\ NextVersion(cat, from, to, r) = r
      BY <1>12, <3>1, <3>4, <3>5 DEF stale
    <3>7. QED BY <2>4, <3>6 DEF versions
  <2>5. QED BY <2>1, <2>2, <2>3, <2>4
<1>18. QED BY <1>1, <1>10, <1>14, <1>15, <1>16, <1>17 DEF Reassessed

\* The catalog a synchronization publishes: current cognition that is not replaced was
\* not affected, or it is withdrawn or left to a later batch.
Judged(cat, to, affected, replaced, s, after) ==
  /\ Advance(cat, after, s) /\ Describes(after, to)
  /\ \A r \in CurrentCognition(cat) :
       \/ \E q \in CurrentCognition(after) : q.id = r.id
       \/ r \in affected /\ r.id \notin replaced
  /\ \A id \in replaced : \E q \in CurrentCognition(after) : q.id = id

LEMMA Judging ==
  ASSUME NEW cat, Sound(cat), NEW to, NEW made, Reassessed(cat, to, made), Unique(made.rows),
         NEW unjudged, unjudged.rows = made.rows, NEW support, support \subseteq Readable(unjudged),
         NEW inherited, \A r \in inherited, c \in Current(cat) : c.id # r.id,
         NEW replaced \in SUBSET Cognition, replaced \subseteq {r.id : r \in made.affected \cup inherited},
         NEW s, NEW after, after = Successor(cat, Replaced(made.rows, [id \in replaced |-> support], s), s)
  PROVE  Judged(cat, to, made.affected, replaced, s, after)
<1> DEFINE supports == [id \in replaced |-> support]
           new == {Replacement(id, s) : id \in DOMAIN supports}
           rows == Replaced(made.rows, supports, s)
<1>1. \A r \in support : r \in DOMAIN made.rows /\ made.rows[r].status = "current" /\ r.id \notin Cognition
  <2>1. Readable(unjudged) \subseteq Current(unjudged)
    BY DEF Readable, Eligible
  <2>2. QED BY <2>1 DEF Readable, Current, Refs
<1>2. /\ CatalogOK(cat) /\ ViewHolds(cat) /\ CognitionHolds(cat)
      /\ \A r, c \in Current(cat) : r.id = c.id => r = c
  BY DEF Sound, CatalogOK, WellFormed
<1>3. Replaces(made.rows, supports, new, rows)
  <2>1. DOMAIN supports \subseteq Cognition /\ RowsOK(made.rows)
    BY DEF Reassessed
  <2>2. new = {Replacement(id, s) : id \in DOMAIN supports} /\ rows = Replaced(made.rows, supports, s)
    OBVIOUS
  <2> HIDE DEF supports, new, rows
  <2>3. QED BY <2>1, <2>2, Replacing
<1>4. \A r \in new : r.id \in replaced /\ supports[r.id] = support
  BY DEF Replacement
<1>5. \A id \in replaced : Replacement(id, s) \in new /\ Replacement(id, s).id = id
  BY DEF Replacement
<1>6. DOMAIN supports = replaced
  OBVIOUS
<1>7. after = Successor(cat, rows, s)
  OBVIOUS
<1> HIDE DEF supports, new, rows
<1>8. /\ DOMAIN after = {"generation", "parent", "rows", "view"}
      /\ after.generation = s /\ after.parent = cat.generation /\ after.rows = rows
      /\ ViewHolds(after)
  BY <1>2, <1>7, Succeeding
<1>9. /\ RowsOK(rows) /\ Unique(rows) /\ DOMAIN rows = DOMAIN made.rows \cup new
      /\ \A r \in new : rows[r].status = "current" /\ rows[r].deps = support /\ rows[r].at = Gone
      /\ \A r \in DOMAIN made.rows \ new :
           /\ rows[r].status = IF r.id \in replaced /\ made.rows[r].status = "current"
                               THEN "superseded" ELSE made.rows[r].status
           /\ rows[r].deps = made.rows[r].deps /\ rows[r].at = made.rows[r].at
  BY <1>3, <1>4, <1>6 DEF Replaces
<1>10. CatalogOK(after) /\ Refs(cat) \subseteq Refs(after)
  BY <1>8, <1>9 DEF CatalogOK, WellFormed, Unique, Current, Refs, Reassessed
<1>11. /\ \A r \in new : r \in Current(after)
       /\ \A r \in DOMAIN made.rows : made.rows[r].status = "current" /\ r.id \notin replaced => r \in Current(after)
       /\ \A r \in Current(after) \ new :
            /\ r \in DOMAIN made.rows /\ made.rows[r].status = "current" /\ r.id \notin replaced
            /\ rows[r].deps = made.rows[r].deps /\ rows[r].at = made.rows[r].at
  BY <1>4, <1>8, <1>9 DEF Current, Refs
\* What is current cognition before and after was not affected, and nothing replaced is.
<1>12. ASSUME NEW d \in DOMAIN made.rows, made.rows[d].status = "current", d.id \in replaced
       PROVE  FALSE
  <2>1. d \in Current(cat) /\ d \notin made.affected
    BY <1>12 DEF Reassessed
  <2>2. PICK t \in made.affected \cup inherited : d.id = t.id
    BY <1>12
  <2>3. t \in made.affected => t \in Current(cat)
    BY DEF Reassessed, CurrentCognition
  <2>4. QED BY <1>2, <2>1, <2>2, <2>3
<1>13. ASSUME NEW r \in CurrentCognition(after), NEW d \in after.rows[r].deps
       PROVE  d \in Current(after) \/ d.id \in EventIds \/ ReplacedWith(after, r, d)
  <2>1. CASE r \in new
    BY <1>1, <1>8, <1>9, <1>11, <1>13, <2>1
  <2>2. CASE r \notin new
    <3>1. r \in CurrentCognition(cat) \ made.affected /\ d \in cat.rows[r].deps
      BY <1>8, <1>11, <1>13, <2>2 DEF Reassessed, CurrentCognition
    <3>2. d.id \in EventIds \/ (d \in DOMAIN made.rows /\ made.rows[d].status = "current") \/ ReplacedWith(cat, r, d)
      BY <3>1 DEF Reassessed
    <3>3. CASE ReplacedWith(cat, r, d)
      BY <1>10, <3>3, StaysReplaced
    <3>4. QED BY <1>11, <1>12, <3>2, <3>3
  <2>3. QED BY <2>1, <2>2
<1>14. ASSUME NEW r \in Current(after), after.rows[r].at # Gone
       PROVE  to[after.rows[r].at] = IF r.id = PolicyPath THEN r.version ELSE r.version.content
  <2>1. r \notin new
    BY <1>8, <1>9, <1>14
  <2>2. QED BY <1>8, <1>11, <1>14, <2>1 DEF Reassessed
<1>15. ASSUME NEW r \in CurrentCognition(cat), r \notin made.affected \/ r.id \in replaced
       PROVE  \E q \in CurrentCognition(after) : q.id = r.id
  <2>1. CASE r.id \in replaced
    BY <1>5, <1>11, <2>1 DEF CurrentCognition
  <2>2. CASE r.id \notin replaced
    <3>1. r \in DOMAIN made.rows /\ made.rows[r].status = "current"
      BY <1>15, <2>2 DEF Reassessed, CurrentCognition, Current
    <3>2. QED BY <1>11, <2>2, <3>1 DEF CurrentCognition
  <2>3. QED BY <2>1, <2>2
<1>16. Sound(after) /\ Describes(after, to)
  BY <1>8, <1>10, <1>13, <1>14 DEF Sound, CognitionHolds, Describes
<1>17. \A id \in replaced : \E q \in CurrentCognition(after) : q.id = id
  BY <1>5, <1>11 DEF CurrentCognition
<1>18. QED BY <1>8, <1>10, <1>15, <1>16, <1>17 DEF Judged, Advance
=============================================================================
