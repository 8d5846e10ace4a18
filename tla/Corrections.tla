----------------------------- MODULE Corrections -----------------------------
(***************************************************************************)
(* prepareCorrection and recoverCorrection of learning/correction.ts: an   *)
(* archived statement of the owner replaces understandings and works.      *)
(* The model proposes any set of them to replace, none when it finds no    *)
(* change or asks back (a change record is published all the same).        *)
(***************************************************************************)
EXTENDS Ingestion

CONSTANTS
  Corrects, \* operations that correct
  MaxCites  \* bound: how many of the objects it was shown a replacement cites

\* What the model is shown: the objects it may replace and the originals they rest on.
Candidates(cat) == Eligible(cat) \cap CurrentCognition(cat)
Originals(cat) == UNION {cat.rows[r].deps \cap SourceRows(cat) : r \in Candidates(cat)}

\* A variant: objects that rest on a replaced one are left alone; no specification uses it.
ScopeUnchecked(cat, ids) == ids \subseteq {r.id : r \in CurrentCognition(cat)}

\* Every current object that rests on a replaced one is replaced with it.
ScopeComplete(cat, ids) ==
  \A r \in Dependents(cat, {c \in CurrentCognition(cat) : c.id \in ids}) : r.id \in Cognition => r.id \in ids

\* What the model may propose for the objects it replaces: each of them cites, besides the
\* statement, anything it was shown, and has its turn.
Proposals(cat, ids) ==
  LET cited == {refs \in SUBSET (Candidates(cat) \cup Originals(cat)) : Cardinality(refs) <= MaxCites}
  IN [ids -> [cites : cited, turn : 1..Cardinality(ids)]]

\* An object waits for the replaced ones its old record rests on; what the new record
\* cites is not asked.
Ordered(cat, proposal) ==
  /\ \A a, b \in DOMAIN proposal : a # b => proposal[a].turn # proposal[b].turn
  /\ \A r, d \in {c \in CurrentCognition(cat) : c.id \in DOMAIN proposal} :
       d \in cat.rows[r].deps => proposal[d.id].turn < proposal[r.id].turn

\* rebind: a cited object that was replaced before is cited in its new version, one whose
\* turn has not come in the version that is about to be superseded.
Rebind(proposal, id, c, k) ==
  IF c.id \in DOMAIN proposal /\ proposal[c.id].turn < proposal[id].turn THEN Replacement(c.id, k) ELSE c

CorrectedCatalog(cat, proposal, e, k) ==
  Successor(cat, Replaced(cat.rows,
    [id \in DOMAIN proposal |-> {e} \cup {Rebind(proposal, id, c, k) : c \in proposal[id].cites}], k), k)

\* The originals of every candidate are read, the owner's live files included.
OriginalsIntact(cat) == \A s \in Originals(cat) : Intact(cat, s)

PlanCorrection(k, e) ==
  LET before == tree.catalog
  IN /\ MayCall(k) /\ Recorded(<<k, "final">>) = NoPlan
     /\ TreeReadable
     /\ e.id \in EventIds /\ e \in Readable(before)
     /\ \A p \in before.rows[e].deps : PolicyHolds(before, p)
     /\ OriginalsIntact(before)
     /\ \E ids \in SUBSET {r.id : r \in Candidates(before)} :
          /\ ScopeComplete(before, ids)
          /\ \E proposal \in Proposals(before, ids) :
               /\ Ordered(before, proposal)
               /\ StartFresh(k, [id |-> <<k, "final">>, request |-> e,
                    before |-> [catalog |-> before],
                    after  |-> [catalog |-> CorrectedCatalog(before, proposal, e, k)]], 0)

ResumeCorrection(k) ==
  /\ Recorded(<<k, "final">>) # NoPlan
  /\ Start(k, Recorded(<<k, "final">>), 0)

\* The owner's statement can still be read and learned from.
StatementHolds(cat, e) == e \in Readable(cat) /\ \A p \in cat.rows[e].deps : PolicyHolds(cat, p)

\* validate: on the catalog to be published, every candidate's originals included.
CorrectionValid(plan) ==
  /\ FenceReadable(tree)
  /\ StatementHolds(plan.after.catalog, plan.request)
  /\ OriginalsIntact(plan.after.catalog)

\* confirmPreviouslyCommitted of a recovered correction.
CorrectionConfirmed(plan) == FenceReadable(tree) /\ StatementHolds(tree.catalog, plan.request)
=============================================================================
