-------------------------- MODULE AtomicPublication --------------------------
(***************************************************************************)
(* What canghai/memory-transaction.ts promises to everyone who respects    *)
(* its fence: a plan that names several files takes effect on all of them  *)
(* in one step, at most once, and only after its Git persistence has been  *)
(* confirmed.  MemoryTransaction implements this specification under the   *)
(* refinement mapping given there.                                         *)
(***************************************************************************)
CONSTANTS
  Ops,        \* operation ids of transaction plans
  Files,      \* repository paths
  Contents,   \* file contents, the absent file included
  Writes,     \* Writes[o]: the files plan o names
  After,      \* After[o][f]: what plan o leaves in file f
  Direct      \* <<f, c>>: single-file replacements made under the mutation lock

VARIABLES
  published,  \* the repository as a fence-respecting reader is entitled to see it
  committed,  \* plans that have taken effect
  saved       \* plans whose files and journal the durability port has confirmed

avars == <<published, committed, saved>>

Overwrite(state, o) ==
  [f \in Files |-> IF f \in Writes[o] THEN After[o][f] ELSE state[f]]

AInit ==
  /\ published \in [Files -> Contents]
  /\ committed = {}
  /\ saved = {}

\* The durability port confirms o; nothing becomes visible.
Save(o) ==
  /\ saved' = saved \union {o}
  /\ UNCHANGED <<published, committed>>

\* All files of o change together, once, and never before o is saved.
Publish(o) ==
  /\ o \in saved \ committed
  /\ published' = Overwrite(published, o)
  /\ committed' = committed \union {o}
  /\ UNCHANGED saved

\* A writer holding the mutation lock replaces one file.
Replace(w) ==
  /\ published' = [published EXCEPT ![w[1]] = w[2]]
  /\ UNCHANGED <<committed, saved>>

ANext ==
  \/ \E o \in Ops : Save(o) \/ Publish(o)
  \/ \E w \in Direct : Replace(w)

ASpec == AInit /\ [][ANext]_avars
=============================================================================
