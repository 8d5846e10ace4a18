--------------------------- MODULE VersionedRecord ---------------------------
(***************************************************************************)
(* What praxis/episode-repository.ts promises to its callers, together     *)
(* with the outcome transactions that write the same files: one record     *)
(* whose versions change by compare and set, an operation that takes       *)
(* effect at most once and with one content, and an answer only for an     *)
(* operation that took effect.  EpisodeRepository implements it.           *)
(***************************************************************************)
CONSTANTS
  Requests,  \* records [op, expected, next]
  None,
  Allowed    \* requests whose new version may follow the version they expect

VARIABLES
  record,    \* the version a reader is entitled to see, None before the first
  taken,     \* requests that took effect
  answered   \* requests whose caller was given a result

rvars == <<record, taken, answered>>

RInit == record = None /\ taken = {} /\ answered = {}

Take(q) ==
  /\ q \in Allowed
  /\ record = q.expected
  /\ \A other \in taken : other.op # q.op
  /\ record' = q.next
  /\ taken' = taken \union {q}
  /\ UNCHANGED answered

Answer(q) ==
  /\ q \in taken
  /\ answered' = answered \union {q}
  /\ UNCHANGED <<record, taken>>

\* An outcome transaction answers in the step that makes it visible.
TakeAndAnswer(q) ==
  /\ q \in Allowed
  /\ record = q.expected
  /\ \A other \in taken : other.op # q.op
  /\ record' = q.next
  /\ taken' = taken \union {q}
  /\ answered' = answered \union {q}

RNext == \E q \in Requests : Take(q) \/ Answer(q) \/ TakeAndAnswer(q)

RSpec == RInit /\ [][RNext]_rvars
=============================================================================
