------------------------- MODULE RetrievalProgress -------------------------
(***************************************************************************)
(* The search for evidence of one Host session, asked question after       *)
(* question, as far as its progress is kept: the gate in front of a turn,  *)
(* the stored checkpoint, the rounds of the search, what an exhausted      *)
(* search leaves behind and what a finished one removes                    *)
(* (plugin.ts, canghai/retrieve.ts, semantic-retrieval.ts and              *)
(* retrieval-progress.ts).                                                 *)
(*                                                                         *)
(* Of a revision only one thing matters here: whether it is still HEAD.    *)
(* The generation and the model of a checkpoint do not change on their own *)
(* and are left out, and so are the pages of a round, what they select,    *)
(* and the load's cache of one second.  Nothing fails.                     *)
(***************************************************************************)
EXTENDS Naturals

CONSTANTS
  Questions,   \* what the owner asks in the session
  DataMode,    \* "read_only", "local_write" or "managed_durable_write"
  None         \* no checkpoint, no question

VARIABLES
  maxRounds,   \* the rounds the committed configuration allows
  file,        \* the session's checkpoint in the checkout
  committed,   \* the same in HEAD
  phase,       \* where the turn is
  question,    \* what it was asked
  round,       \* rounds completed by its search
  promised     \* questions answered with "progress was kept, ask again"

vars == <<maxRounds, file, committed, phase, question, round, promised>>

\* The limits parseSemanticRetrievalConfig puts on maxRounds.
RoundLimits == 1..4

Checkpoints == [question : Questions, rounds : RoundLimits, atHead : BOOLEAN]

Init ==
  /\ maxRounds \in RoundLimits
  /\ file = None /\ committed = None
  /\ phase = "idle" /\ question = None /\ round = 0
  /\ promised = {}

\* A commit moves HEAD away from the revision every stored checkpoint names.
Outdated(c) == IF c = None THEN None ELSE [c EXCEPT !.atHead = FALSE]

\* The checkpoint lies beside the catalog, outside the Episodes local_write may change.
CleanCheckout == file = committed

EndTurn == phase' = "idle" /\ question' = None /\ round' = 0

-----------------------------------------------------------------------------
(* A turn. *)

Ask(q) ==
  /\ phase = "idle"
  /\ phase' = "load" /\ question' = q
  /\ UNCHANGED <<maxRounds, file, committed, round, promised>>

\* consciousness.load: the checkout is clean at the configured revision or no turn runs.
Load ==
  /\ phase = "load"
  /\ IF CleanCheckout THEN phase' = "bind" /\ UNCHANGED <<question, round>> ELSE EndTurn
  /\ UNCHANGED <<maxRounds, file, committed, promised>>

\* Another question, or none: the search starts from nothing.
BindFresh ==
  /\ phase = "bind"
  /\ file # None => file.question # question
  /\ phase' = "search"
  /\ UNCHANGED <<maxRounds, file, committed, question, round, promised>>

\* The same question resumes if the checkpoint names this very revision and rounds are
\* left, and is refused otherwise (invalid_retrieval_checkpoint).
BindStored ==
  /\ phase = "bind"
  /\ file # None /\ file.question = question
  /\ IF file.atHead /\ file.rounds < maxRounds
     THEN /\ phase' = "search" /\ round' = file.rounds
          /\ promised' = promised \ {question}
          /\ UNCHANGED question
     ELSE EndTurn /\ UNCHANGED promised
  /\ UNCHANGED <<maxRounds, file, committed>>

\* One round: every page, then the review by the model, which stops or asks for more.
Review ==
  /\ phase = "search"
  /\ round' = round + 1
  /\ phase' \in {"found", IF round' < maxRounds THEN "search" ELSE "exhausted"}
  /\ UNCHANGED <<maxRounds, file, committed, question, promised>>

\* persistRetrievalCheckpoint, first half: the file, written in place.
WriteCheckpoint ==
  /\ phase = "exhausted"
  /\ DataMode # "read_only"
  /\ file' = [question |-> question, rounds |-> round, atHead |-> TRUE]
  /\ phase' = "kept"
  /\ UNCHANGED <<maxRounds, committed, question, round, promised>>

\* Second half, then the answer: managed writes commit the file, which moves HEAD and
\* the configured revision.  Who can still raise the rounds is told to ask again.
Blocked ==
  /\ phase = "kept" \/ (phase = "exhausted" /\ DataMode = "read_only")
  /\ IF DataMode = "managed_durable_write"
     THEN file' = Outdated(file) /\ committed' = file'
     ELSE UNCHANGED <<file, committed>>
  /\ promised' = IF phase = "kept" /\ round + 1 \in RoundLimits
                 THEN promised \union {question} ELSE promised
  /\ EndTurn
  /\ UNCHANGED maxRounds

\* clearRetrievalCheckpoint removes the file, whoever's it is; nothing commits that.
ClearCheckpoint ==
  /\ phase = "found"
  /\ file' = None
  /\ phase' = "admit"
  /\ UNCHANGED <<maxRounds, committed, question, round, promised>>

\* before_agent_run loads again; the answer's own records are then committed.
Answer ==
  /\ phase = "admit"
  /\ IF CleanCheckout
     THEN promised' = promised \ {question}
     ELSE UNCHANGED promised
  /\ EndTurn
  /\ UNCHANGED <<maxRounds, file, committed>>

-----------------------------------------------------------------------------
(* The owner, between turns, keeps the configured revision at HEAD. *)

\* Raise the limit by a commit.
RaiseRounds ==
  /\ phase = "idle"
  /\ maxRounds + 1 \in RoundLimits
  /\ maxRounds' = maxRounds + 1
  /\ file' = Outdated(file) /\ committed' = Outdated(committed)
  /\ UNCHANGED <<phase, question, round, promised>>

\* Undo what lies uncommitted in the checkout, or commit it.
Reconcile ==
  /\ phase = "idle"
  /\ ~CleanCheckout
  /\ \/ file' = committed /\ UNCHANGED committed
     \/ file' = Outdated(file) /\ committed' = file'
  /\ UNCHANGED <<maxRounds, phase, question, round, promised>>

TurnStep ==
  Load \/ BindFresh \/ BindStored \/ Review \/ WriteCheckpoint \/ Blocked
    \/ ClearCheckpoint \/ Answer

Next == (\E q \in Questions : Ask(q)) \/ TurnStep \/ RaiseRounds \/ Reconcile

\* Turns run to their end; the owner keeps asking every question, raises the limit and
\* cleans the checkout up.
FairSpec ==
  /\ Init /\ [][Next]_vars
  /\ WF_vars(TurnStep) /\ SF_vars(RaiseRounds) /\ SF_vars(Reconcile)
  /\ \A q \in Questions : SF_vars(Ask(q))

-----------------------------------------------------------------------------
(* Property *)

\* "Progress was kept; ask the same question again to continue the search, or raise the
\* rounds and retry": the search is then continued, or the question is answered.
ExhaustedSearchContinues ==
  \A q \in Questions : q \in promised ~> q \notin promised
=============================================================================
