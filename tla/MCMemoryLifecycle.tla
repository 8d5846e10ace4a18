-------------------------- MODULE MCMemoryLifecycle --------------------------
EXTENDS MemoryLifecycle, TLC

CONSTANTS i2, i3, k1, s1, s2, p1, p2, pol, u, w, e1, e2, x, y, open, closed, nofile, g0, noview

Scenario(ops, e, f) == [callers |-> ops, edits |-> e, faults |-> f]
\* Two synchronizations differ in nothing but their names.
Interchangeable == Permutations({s1, s2})

MCScenarios == {
  Scenario({s1, s2}, 1, 0), Scenario({s1, s2}, 0, 1), Scenario({s1}, 2, 0), Scenario({s1}, 1, 1),
  Scenario({i2, s1}, 1, 0), Scenario({i2, s1}, 0, 1), Scenario({k1, s1}, 1, 0), Scenario({k1, s1}, 0, 1),
  Scenario({i2, k1}, 0, 1), Scenario({i2, i3}, 0, 1),
  Scenario({i2, k1, s1}, 0, 0), Scenario({k1, s1, s2}, 0, 0), Scenario({i2, i3, s1}, 0, 0), Scenario({i2, s1, s2}, 0, 0)}

MCTexts == [p \in {p1, p2, pol} |-> IF p = pol THEN {open, closed} ELSE IF p = p1 THEN {y, nofile} ELSE {x}]
MCEvents == <<{[id |-> e1, content |-> x]}, {[id |-> e1, content |-> y]}, {[id |-> e2, content |-> x]}>>
MCPage == [i \in {i2, i3} |-> IF i = i2 THEN 2 ELSE 3]

Policy0 == [id |-> pol, version |-> open]
Source0 == [id |-> p1, version |-> [content |-> x, policy |-> open, born |-> g0]]
Event0 == [id |-> e1, version |-> [content |-> x, policy |-> open, born |-> g0]]
U0 == [id |-> u, version |-> g0]
W0 == [id |-> w, version |-> g0]
Catalog0 ==
  [generation |-> g0, parent |-> None, view |-> {Source0},
   rows |-> [r \in {Policy0, Source0, Event0, U0, W0} |->
     CASE r = Policy0 -> Row({}, pol) [] r = Source0 -> Row({Policy0}, p1) [] r = Event0 -> Row({Policy0}, nofile)
       [] r = U0 -> Row({Source0}, nofile) [] OTHER -> Row({U0}, nofile)]]
MCInitTree ==
  [catalog |-> Catalog0, fence |-> NoFence, checkpoint |-> [cursor |-> 1, op |-> g0, rows |-> {Event0}],
   files |-> [p \in {p1, p2, pol} |-> CASE p = pol -> open [] p = p1 -> x [] OTHER -> nofile]]
MCBatches == {Everything, {u}}
=============================================================================
