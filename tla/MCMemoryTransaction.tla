------------------------- MODULE MCMemoryTransaction -------------------------
(***************************************************************************)
(* Two concurrent calls and one reader over a catalog, an object and an    *)
(* Episode.  Plan o1 publishes the object, plan o2 rewrites the Episode as *)
(* a binary file, both replace the catalog, and a lock-only writer         *)
(* replaces the Episode.                                                   *)
(***************************************************************************)
EXTENDS MemoryTransaction

CONSTANTS p1, p2, r1, o1, o2, cat, obj, ep, missing, c0, c1, c2, x1, e0, e1, e2

MCWrites == [o \in {o1, o2} |-> IF o = o1 THEN {cat, obj} ELSE {cat, ep}]
MCAfter ==
  [o \in {o1, o2} |-> [f \in {cat, obj, ep} |->
     CASE f = cat -> IF o = o1 THEN c1 ELSE c2
       [] f = obj -> x1
       [] OTHER   -> e2]]
MCInitFiles == [f \in {cat, obj, ep} |-> CASE f = cat -> c0 [] f = obj -> missing [] OTHER -> e0]
MCDirect == {<<ep, e1>>}
=============================================================================
