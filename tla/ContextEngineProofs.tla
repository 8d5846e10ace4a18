------------------------- MODULE ContextEngineProofs -------------------------
(***************************************************************************)
(* What the end of the model phase means for the managed context, that     *)
(* what is sent and archived is a genuine conversation, that the reply     *)
(* stands behind what the Host has heard, and that a Host that keeps to    *)
(* the protocol gets it published: for any number of model calls, tools,   *)
(* batches, calls of the Host and faults.                                  *)
(***************************************************************************)
EXTENDS ContextEngine, FiniteSetTheorems, TLAPS

\* The fields of the records, whatever they hold.
Engines(S, H) ==
  [failed : BOOLEAN, closed : BOOLEAN, sealed : S, released : BOOLEAN, history : H]

AskRecords(P, I, H, A, B) == [at : P, input : I, had : H, answer : A, sent : B]

TurnRecords(P, R, D, A, B) == [permit : P, rejected : R, draft : D, archived : A, published : B]

OpRecords(K, A, W, I, H) == [kind : K, at : A, who : W, input : I, had : H]

IsEngine(e) == \E S, H : e \in Engines(S, H)
IsAsk(a) == \E P, I, H, A, B : a \in AskRecords(P, I, H, A, B)
IsOp(o) == \E K, A, W, I, H : o \in OpRecords(K, A, W, I, H)
IsTurn(t) == \E P, R, D, A, B : t \in TurnRecords(P, R, D, A, B)

EngineFields == IsEngine(engine)
OpFields == op # None => IsOp(op)
AskFields == \E P, I, H, A, B : ask \in [Asks -> AskRecords(P, I, H, A, B)]
TurnFields == IsTurn(turn)

\* An operation that the release overtook finds the authority closed; only the archive of
\* the completed turn starts afterwards.
Overtaken == engine.released /\ op # None => op.kind = "persist" \/ engine.closed

EndInv == EngineFields /\ OpFields /\ AskFields /\ TurnFields /\ Overtaken

\* What OverIsOver says of one step: of the engine, of the model calls, of the completion.
EngineEnds ==
  /\ engine.failed => engine'.failed
  /\ engine.released => engine'.sealed \in {engine.sealed, None}

AsksEnd ==
  \A m \in Asks :
    /\ engine.failed => (ask'[m].at = "done" => ask[m].at = "done")
    /\ engine.failed \/ engine.released =>
         /\ ask'[m].at \in Agreed => ask[m].at = ask'[m].at
         /\ ask'[m].sent # ask[m].sent => ask[m].at = "sending"

TurnEnds == engine.failed /\ turn'.permit = "publish" => turn.permit = "publish"

Ended == EngineEnds /\ AsksEnd /\ TurnEnds

-----------------------------------------------------------------------------
(* What the actions are made of *)

LEMMA LatchedFields ==
  ASSUME EngineFields
  PROVE  /\ IsEngine(Latched) /\ Latched.failed = TRUE /\ Latched.sealed = None
         /\ Latched.closed = engine.closed /\ Latched.released = engine.released
<1>1. PICK S, H : engine \in Engines(S, H)
  BY DEF EngineFields, IsEngine
<1>2. Latched \in Engines(S \union {None}, H)
  BY <1>1 DEF Latched, Engines
<1>3. /\ Latched.failed = TRUE /\ Latched.sealed = None
      /\ Latched.closed = engine.closed /\ Latched.released = engine.released
  BY <1>1 DEF Latched, Engines
<1>4. QED BY <1>2, <1>3 DEF IsEngine

\* The assignments to one field, each under a name of its own.
AskAt(m, at)    == ask' = [ask EXCEPT ![m].at = at]
PermitIs(p)     == turn' = [turn EXCEPT !.permit = p]
RejectedIs(b)   == turn' = [turn EXCEPT !.rejected = b]

LEMMA AskMoved ==
  ASSUME AskFields, NEW m, NEW at, AskAt(m, at)
  PROVE  /\ AskFields'
         /\ \A n \in Asks : /\ ask'[n].sent = ask[n].sent
                            /\ at # "done" => (ask'[n].at = "done" => ask[n].at = "done")
                            /\ at \notin Agreed => (ask'[n].at \in Agreed => ask[n].at = ask'[n].at)
<1>1. PICK P, I, H, A, B : ask \in [Asks -> AskRecords(P, I, H, A, B)]
  BY DEF AskFields
<1>2. ask' \in [Asks -> AskRecords(P \union {at}, I, H, A, B)]
  BY <1>1 DEF AskRecords, AskAt
<1>3. \A n \in Asks : /\ ask'[n].sent = ask[n].sent
                      /\ at # "done" => (ask'[n].at = "done" => ask[n].at = "done")
                      /\ at \notin Agreed => (ask'[n].at \in Agreed => ask[n].at = ask'[n].at)
  BY <1>1 DEF AskRecords, AskAt
<1>4. AskFields'
  BY <1>2 DEF AskFields
<1>5. QED BY <1>3, <1>4

LEMMA TurnMoved ==
  ASSUME TurnFields, NEW v
  PROVE  /\ PermitIs(v) => TurnFields' /\ turn'.permit = v
         /\ RejectedIs(v) => TurnFields' /\ turn'.permit = turn.permit
<1>1. PICK P, R, D, A, B : turn \in TurnRecords(P, R, D, A, B)
  BY DEF TurnFields, IsTurn
<1>2. ASSUME PermitIs(v) PROVE TurnFields' /\ turn'.permit = v
  <2>1. turn' \in TurnRecords(P \union {v}, R, D, A, B) /\ turn'.permit = v
    BY <1>1, <1>2 DEF PermitIs, TurnRecords
  <2>2. QED BY <2>1 DEF TurnFields, IsTurn
<1>3. ASSUME RejectedIs(v) PROVE TurnFields' /\ turn'.permit = turn.permit
  <2>1. turn' \in TurnRecords(P, R \union {v}, D, A, B) /\ turn'.permit = turn.permit
    BY <1>1, <1>3 DEF RejectedIs, TurnRecords
  <2>2. QED BY <2>1 DEF TurnFields, IsTurn
<1>4. QED BY <1>2, <1>3

\* An operation that ends changes no engine; its failure completes nothing.
LEMMA Settled ==
  ASSUME EndInv, NEW ok \in BOOLEAN, Settle(ok)
  PROVE  /\ op' = None /\ OpFields' /\ AskFields' /\ TurnFields'
         /\ \A m \in Asks : /\ ask'[m].sent = ask[m].sent
                            /\ ~ok => (ask'[m].at = "done" => ask[m].at = "done")
                            /\ ask'[m].at \in Agreed => ask[m].at = ask'[m].at
         /\ ~ok => (turn'.permit = "publish" => turn.permit = "publish")
<1>1. op' = None /\ OpFields'
  BY DEF Settle, OpFields
<1>2. /\ AskFields'
      /\ \A m \in Asks : /\ ask'[m].sent = ask[m].sent
                         /\ ~ok => (ask'[m].at = "done" => ask[m].at = "done")
                         /\ ask'[m].at \in Agreed => ask[m].at = ask'[m].at
  <2>1. CASE op.kind = "output"
    <3>1. PICK good \in BOOLEAN :
            /\ good => ok
            /\ AskAt(op.who, IF good THEN "done" ELSE "refused")
      BY <2>1 DEF Settle, AskAt
    <3>2. AskFields
      BY DEF EndInv
    <3>3. QED BY <3>1, <3>2, AskMoved DEF Agreed
  <2>2. CASE op.kind # "output"
    <3>1. ask' = ask
      BY <2>2 DEF Settle
    <3>2. QED BY <3>1 DEF EndInv, AskFields
  <2>3. QED BY <2>1, <2>2
<1>3. TurnFields' /\ (~ok => (turn'.permit = "publish" => turn.permit = "publish"))
  <2>0. TurnFields
    BY DEF EndInv
  <2>1. CASE op.kind = "output"
    <3>1. PICK good : RejectedIs(good)
      BY <2>1 DEF Settle, RejectedIs
    <3>2. QED BY <2>0, <3>1, TurnMoved
  <2>2. CASE op.kind = "persist"
    <3>1. PermitIs(IF ok THEN "publish" ELSE "ended")
      BY <2>2 DEF Settle, PermitIs
    <3>2. QED BY <2>0, <3>1, TurnMoved
  <2>3. CASE op.kind \notin {"output", "persist"}
    <3>1. turn' = turn
      BY <2>3 DEF Settle
    <3>2. QED BY <3>1, <2>0 DEF TurnFields
  <2>4. QED BY <2>1, <2>2, <2>3
<1>4. QED BY <1>1, <1>2, <1>3

LEMMA Thrown ==
  ASSUME EndInv, Throw
  PROVE  EndInv' /\ Ended
<1>1. Settle(FALSE) /\ engine' = Latched
  BY DEF Throw
<1>2. EngineFields' /\ EngineEnds
  BY <1>1, LatchedFields DEF EndInv, EngineFields, EngineEnds
<1>3. QED BY <1>1, <1>2, Settled DEF EndInv, Overtaken, Ended, AsksEnd, TurnEnds

\* A step that only moves the running operation on, or leaves everything alone.
LEMMA Unmoved ==
  ASSUME EndInv, OpFields', Overtaken', UNCHANGED <<engine, ask, turn>>
  PROVE  EndInv' /\ Ended
<1>1. EngineFields' /\ AskFields' /\ TurnFields'
  BY DEF EndInv, EngineFields, AskFields, TurnFields
<1>2. EngineEnds /\ AsksEnd /\ TurnEnds
  BY DEF EngineEnds, AsksEnd, TurnEnds
<1>3. QED BY <1>1, <1>2 DEF EndInv, Ended

LEMMA Moved ==
  ASSUME EndInv, op # None, NEW at, Goto(at)
  PROVE  OpFields' /\ op'.kind = op.kind
<1>1. PICK K, A, W, I, H : op \in OpRecords(K, A, W, I, H)
  BY DEF EndInv, OpFields, IsOp
<1>2. op' \in OpRecords(K, A \union {at}, W, I, H) /\ op'.kind = op.kind
  BY <1>1 DEF Goto, OpRecords
<1>3. QED BY <1>2 DEF OpFields, IsOp

\* A call that is let in finds the model phase open; one that is not changes no operation.
LEMMA Entered ==
  ASSUME EndInv, NEW o, NEW e, NEW ok \in BOOLEAN, Enter(o, e, ok),
         IsOp(o),
         e \in {engine, [engine EXCEPT !.sealed = None]}
  PROVE  EngineFields' /\ OpFields' /\ Overtaken' /\ EngineEnds
<1>e. /\ e.failed = engine.failed /\ e.closed = engine.closed /\ e.released = engine.released
      /\ e.sealed \in {engine.sealed, None}
      /\ IsEngine(e)
  <2>1. PICK S, H : engine \in Engines(S, H)
    BY DEF EndInv, EngineFields, IsEngine
  <2>2. e \in Engines(S \union {None}, H)
    BY <2>1 DEF Engines
  <2>3. QED BY <2>1, <2>2 DEF Engines, IsEngine
<1>1. CASE Enters(ok)
  BY <1>e, <1>1 DEF Enter, Enters, EndInv, EngineFields, OpFields, Overtaken, EngineEnds
<1>2. CASE ~Enters(ok) /\ engine.released
  BY <1>2 DEF Enter, EndInv, EngineFields, OpFields, Overtaken, EngineEnds
<1>3. CASE ~Enters(ok) /\ ~engine.released
  <2>1. engine' = Latched /\ op' = op
    BY <1>3 DEF Enter
  <2>2. QED BY <2>1, <1>3, LatchedFields DEF EndInv, EngineFields, OpFields, Overtaken, EngineEnds
<1>4. QED BY <1>1, <1>2, <1>3

LEMMA OperationFields ==
  ASSUME NEW kind, NEW at
  PROVE  IsOp(NewOp(kind, at)) /\ NewOp(kind, at).kind = kind
<1>1. NewOp(kind, at) \in OpRecords({kind}, {at}, {None}, {<<>>}, {engine.sealed})
  BY DEF NewOp, OpRecords
<1>2. QED BY <1>1 DEF IsOp, OpRecords

\* The gate lets nothing through after a failure or the release.
LEMMA Gated ==
  ASSUME EndInv, NEW m \in Asks, NEW a, EnterGate(m, a), UNCHANGED op,
         IsAsk(a),
         a.at # "done"
  PROVE  EndInv' /\ Ended
<1>1. CASE ~Delivers(m) \/ engine.released
  <2>1. RefusedAsk(m) /\ UNCHANGED engine
    BY <1>1 DEF EnterGate
  <2>2. AskFields' /\ AsksEnd
    <3>1. AskFields /\ AskAt(m, "refused")
      BY <2>1 DEF RefusedAsk, EndInv, AskAt
    <3>2. QED BY <3>1, AskMoved DEF AsksEnd, Agreed
  <2>3. TurnFields' /\ TurnEnds
    <3>1. TurnFields /\ RejectedIs(TRUE)
      BY <2>1 DEF RefusedAsk, EndInv, RejectedIs
    <3>2. QED BY <3>1, TurnMoved DEF TurnEnds
  <2>4. EngineFields' /\ EngineEnds /\ OpFields' /\ Overtaken'
    BY <2>1 DEF EndInv, EngineFields, EngineEnds, OpFields, Overtaken
  <2>5. QED BY <2>2, <2>3, <2>4 DEF EndInv, Ended
<1>2. CASE ~(~Delivers(m) \/ engine.released) /\ RefusedAsk(m) /\ engine' = Latched
  <2>2. AskFields' /\ AsksEnd
    <3>1. AskFields /\ AskAt(m, "refused")
      BY <1>2 DEF RefusedAsk, EndInv, AskAt
    <3>2. QED BY <3>1, AskMoved DEF AsksEnd, Agreed
  <2>3. TurnFields' /\ TurnEnds
    <3>1. TurnFields /\ RejectedIs(TRUE)
      BY <1>2 DEF RefusedAsk, EndInv, RejectedIs
    <3>2. QED BY <3>1, TurnMoved DEF TurnEnds
  <2>4. EngineFields' /\ EngineEnds /\ OpFields' /\ Overtaken'
    BY <1>2, LatchedFields DEF EndInv, EngineFields, EngineEnds, OpFields, Overtaken
  <2>5. QED BY <2>2, <2>3, <2>4 DEF EndInv, Ended
<1>3. CASE /\ ~engine.released /\ ~engine.failed
           /\ ask' = [ask EXCEPT ![m] = [a EXCEPT !.had = engine.sealed]] /\ UNCHANGED <<engine, turn>>
  <2>1. PICK P, I, H, A, B : ask \in [Asks -> AskRecords(P, I, H, A, B)]
    BY DEF EndInv, AskFields
  <2>2. PICK Q, J, G, Z, C : a \in AskRecords(Q, J, G, Z, C)
    BY DEF IsAsk
  <2>4. [a EXCEPT !.had = engine.sealed] \in
          AskRecords(P \union Q, I \union J, H \union {engine.sealed}, A \union Z, B \union C)
    BY <2>2 DEF AskRecords
  <2>5. ask' \in [Asks ->
          AskRecords(P \union Q, I \union J, H \union G \union {engine.sealed}, A \union Z, B \union C)]
    BY <1>3, <2>1, <2>4 DEF AskRecords
  <2>6. AskFields'
    BY <2>5 DEF AskFields
  <2>7. \A n \in Asks \ {m} : ask'[n] = ask[n]
    BY <1>3, <2>1
  <2>8. AsksEnd
    BY <1>3 DEF AsksEnd
  <2>3. TurnFields' /\ TurnEnds
    BY <1>3 DEF EndInv, TurnFields, TurnEnds
  <2>10. EngineFields' /\ EngineEnds /\ OpFields' /\ Overtaken'
    BY <1>3 DEF EndInv, EngineFields, EngineEnds, OpFields, Overtaken
  <2>9. QED BY <2>6, <2>8, <2>3, <2>10 DEF EndInv, Ended
<1>4. QED BY <1>1, <1>2, <1>3 DEF EnterGate

-----------------------------------------------------------------------------
(* Kinds of steps *)

LEMMA Untouched ==
  ASSUME EndInv, UNCHANGED <<engine, op, ask, turn>>
  PROVE  EndInv' /\ Ended
<1>1. OpFields' /\ Overtaken'
  BY DEF EndInv, OpFields, Overtaken
<1>2. QED BY <1>1, Unmoved

LEMMA MovedOnly ==
  ASSUME EndInv, op # None, NEW at, Goto(at), UNCHANGED <<engine, ask, turn>>
  PROVE  EndInv' /\ Ended
<1>1. OpFields' /\ Overtaken'
  BY Moved DEF EndInv, Overtaken
<1>2. QED BY <1>1, Unmoved

LEMMA EnteredOnly ==
  ASSUME EndInv, NEW o, NEW e, NEW ok \in BOOLEAN, Enter(o, e, ok), IsOp(o),
         e \in {engine, [engine EXCEPT !.sealed = None]}, UNCHANGED <<ask, turn>>
  PROVE  EndInv' /\ Ended
<1>1. EngineFields' /\ OpFields' /\ Overtaken' /\ EngineEnds
  BY Entered
<1>2. AskFields' /\ TurnFields' /\ AsksEnd /\ TurnEnds
  BY DEF EndInv, AskFields, TurnFields, AsksEnd, TurnEnds
<1>3. QED BY <1>1, <1>2 DEF EndInv, Ended

\* An operation of the model phase that is still valid was not overtaken by the release.
LEMMA SealedOnly ==
  ASSUME EndInv, op # None, op.kind # "persist", Valid,
         NEW x, engine' = [engine EXCEPT !.sealed = x], NEW at, Goto(at), UNCHANGED <<ask, turn>>
  PROVE  EndInv' /\ Ended
<1>1. PICK S, H : engine \in Engines(S, H)
  BY DEF EndInv, EngineFields, IsEngine
<1>2. engine' \in Engines(S \union {x}, H)
  BY <1>1 DEF Engines
<1>3. engine'.failed = engine.failed /\ engine'.closed = engine.closed /\ engine'.released = engine.released
  BY <1>1 DEF Engines
<1>4. EngineFields'
  BY <1>2 DEF EngineFields, IsEngine
<1>5. ~engine.released
  BY DEF EndInv, Overtaken, Valid
<1>6. OpFields' /\ Overtaken'
  BY <1>3, <1>5, Moved DEF EndInv, Overtaken
<1>7. AskFields' /\ TurnFields' /\ AsksEnd /\ TurnEnds
  BY DEF EndInv, AskFields, TurnFields, AsksEnd, TurnEnds
<1>8. QED BY <1>3, <1>4, <1>5, <1>6, <1>7 DEF EndInv, Ended, EngineEnds

LEMMA AskOnly ==
  ASSUME EndInv, NEW m, NEW at, AskAt(m, at), at \notin {"done"} \union Agreed, UNCHANGED <<engine, op, turn>>
  PROVE  EndInv' /\ Ended
<1>1. AskFields
  BY DEF EndInv
<1>2. AskFields' /\ AsksEnd
  BY <1>1, AskMoved DEF AsksEnd, Agreed
<1>3. EngineFields' /\ OpFields' /\ Overtaken' /\ TurnFields' /\ EngineEnds /\ TurnEnds
  BY DEF EndInv, EngineFields, OpFields, Overtaken, TurnFields, EngineEnds, TurnEnds
<1>4. QED BY <1>2, <1>3 DEF EndInv, Ended

LEMMA TurnOnly ==
  ASSUME EndInv, TurnFields', TurnEnds, UNCHANGED <<engine, op, ask>>
  PROVE  EndInv' /\ Ended
<1>1. EngineFields' /\ OpFields' /\ Overtaken' /\ AskFields' /\ EngineEnds /\ AsksEnd
  BY DEF EndInv, EngineFields, OpFields, Overtaken, AskFields, EngineEnds, AsksEnd
<1>2. QED BY <1>1 DEF EndInv, Ended

LEMMA ChangedOperation ==
  ASSUME NEW kind, NEW at, NEW x
  PROVE  /\ IsOp([NewOp(kind, at) EXCEPT !.who = x]) /\ [NewOp(kind, at) EXCEPT !.who = x].kind = kind
         /\ IsOp([NewOp(kind, at) EXCEPT !.input = x])
<1>1. NewOp(kind, at) \in OpRecords({kind}, {at}, {None}, {<<>>}, {engine.sealed})
  BY DEF NewOp, OpRecords
<1>2. /\ [NewOp(kind, at) EXCEPT !.who = x] \in OpRecords({kind}, {at}, {None, x}, {<<>>}, {engine.sealed})
      /\ [NewOp(kind, at) EXCEPT !.who = x].kind = kind
  BY <1>1 DEF OpRecords
<1>3. [NewOp(kind, at) EXCEPT !.input = x] \in OpRecords({kind}, {at}, {None}, {<<>>, x}, {engine.sealed})
  BY <1>1 DEF OpRecords
<1>4. QED BY <1>2, <1>3 DEF IsOp

-----------------------------------------------------------------------------
(* The actions *)

LEMMA HostSteps ==
  ASSUME EndInv,
         \/ Ingest \/ Assemble \/ Archived \/ Seal \/ Project
         \/ \E k \in 0..Len(heard) : Reassemble(SubSeq(heard, 1, k))
         \/ Compact \/ Summarize \/ SaveSummary \/ Return \/ PortFails
  PROVE  EndInv' /\ Ended
<1>1. CASE Ingest
  BY <1>1, OperationFields, EnteredOnly DEF Ingest, Called
<1>2. CASE Assemble
  BY <1>2, OperationFields, EnteredOnly DEF Assemble, Called
<1>3. CASE Archived
  BY <1>3, Thrown, MovedOnly DEF Archived
<1>4. CASE Seal
  <2>1. op # None /\ op.kind = "open"
    BY <1>4 DEF Seal, At, Runs
  <2>2. CASE ~Valid \/ engine.failed
    BY <1>4, <2>2, Thrown DEF Seal
  <2>3. CASE Valid /\ ~engine.failed
    <3>1. PICK x : engine' = [engine EXCEPT !.sealed = x] /\ Goto("return") /\ UNCHANGED <<ask, turn>>
      BY <1>4, <2>3 DEF Seal
    <3>2. QED BY <2>1, <2>3, <3>1, SealedOnly
  <2>4. QED BY <2>2, <2>3
<1>5. CASE Project
  <2>1. op # None /\ op.kind = "loop"
    BY <1>5 DEF Project, At, Runs
  <2>2. CASE ~(Valid /\ op.input = op.had.msgs)
    BY <1>5, <2>2, Thrown DEF Project
  <2>3. CASE Valid /\ op.input = op.had.msgs /\ op.had.timed
    <3>1. UNCHANGED <<engine, ask, turn>> /\ Goto("archive")
      BY <1>5, <2>3 DEF Project
    <3>2. QED BY <2>1, <3>1, MovedOnly
  <2>4. CASE Valid /\ op.input = op.had.msgs /\ ~op.had.timed
    <3>1. PICK x : engine' = [engine EXCEPT !.sealed = x] /\ Goto("archive") /\ UNCHANGED <<ask, turn>>
      BY <1>5, <2>4 DEF Project
    <3>2. QED BY <2>1, <2>4, <3>1, SealedOnly
  <2>5. QED BY <2>2, <2>3, <2>4
<1>6. ASSUME NEW k \in 0..Len(heard), Reassemble(SubSeq(heard, 1, k)) PROVE EndInv' /\ Ended
  <2> DEFINE input == SubSeq(heard, 1, k)
             ok == engine.sealed # None /\ Pending = {} /\ CompleteBatch(input)
  <2>1. Enter([NewOp("loop", "check") EXCEPT !.input = input], engine, ok) /\ UNCHANGED <<ask, turn>>
    BY <1>6 DEF Reassemble, Called
  <2>2. IsOp([NewOp("loop", "check") EXCEPT !.input = input]) /\ ok \in BOOLEAN
    BY ChangedOperation
  <2> HIDE DEF ok, input
  <2>3. QED BY <2>1, <2>2, EnteredOnly
<1>7. CASE Compact
  <2> DEFINE ok == Pending = {} /\ (engine.sealed # None => CompleteBatch(engine.sealed.msgs))
  <2>1. Enter(NewOp("compact", "summarize"), engine, ok) /\ UNCHANGED <<ask, turn>> /\ ok \in BOOLEAN
    BY <1>7 DEF Compact, Called
  <2> HIDE DEF ok
  <2>2. QED BY <2>1, OperationFields, EnteredOnly
<1>8. CASE Summarize
  BY <1>8, Thrown, MovedOnly DEF Summarize, At, Runs
<1>9. CASE SaveSummary
  <2>1. op # None /\ op.kind = "compact"
    BY <1>9 DEF SaveSummary, At, Runs
  <2>2. CASE ~(Valid /\ ~engine.failed)
    BY <1>9, <2>2, Thrown DEF SaveSummary
  <2>3. CASE Valid /\ ~engine.failed
    <3>1. /\ engine' = [engine EXCEPT !.history = @ + 1, !.sealed = None]
          /\ Goto("return") /\ UNCHANGED <<ask, turn>>
      BY <1>9, <2>3 DEF SaveSummary
    <3>2. PICK S, H : engine \in Engines(S, H)
      BY DEF EndInv, EngineFields, IsEngine
    <3>3. engine' \in Engines(S \union {None}, H \union {engine.history + 1})
      BY <3>1, <3>2 DEF Engines
    <3>4. engine'.failed = engine.failed /\ engine'.released = engine.released /\ ~engine.released
      BY <3>1, <3>2, <2>1, <2>3 DEF Engines, EndInv, Overtaken, Valid
    <3>5. EngineFields'
      BY <3>3 DEF EngineFields, IsEngine
    <3>6. OpFields' /\ Overtaken'
      BY <2>1, <3>1, <3>4, Moved DEF Overtaken
    <3>7. AskFields' /\ TurnFields' /\ AsksEnd /\ TurnEnds
      BY <3>1 DEF EndInv, AskFields, TurnFields, AsksEnd, TurnEnds
    <3>8. QED BY <3>4, <3>5, <3>6, <3>7 DEF EndInv, Ended, EngineEnds
  <2>4. QED BY <2>2, <2>3
<1>10. CASE Return
  <2>1. CASE engine.failed
    BY <1>10, <2>1, Thrown DEF Return
  <2>2. CASE ~engine.failed
    <3>1. engine' = engine /\ Settle(TRUE)
      BY <1>10, <2>2 DEF Return
    <3>2. /\ op' = None /\ OpFields' /\ AskFields' /\ TurnFields'
          /\ \A m \in Asks : ask'[m].sent = ask[m].sent /\ (ask'[m].at \in Agreed => ask[m].at = ask'[m].at)
      BY <3>1, Settled
    <3>3. EngineFields' /\ Overtaken'
      BY <3>1, <3>2 DEF EndInv, EngineFields, Overtaken
    <3>4. QED BY <2>2, <3>1, <3>2, <3>3 DEF EndInv, Ended, EngineEnds, AsksEnd, TurnEnds
  <2>3. QED BY <2>1, <2>2
<1>11. CASE PortFails
  BY <1>11, Thrown DEF PortFails
<1>12. QED BY <1>1, <1>2, <1>3, <1>4, <1>5, <1>6, <1>7, <1>8, <1>9, <1>10, <1>11

LEMMA ToolSteps ==
  ASSUME EndInv,
         (\E t \in Tools : ToolReturns(t) \/ ToolFails(t)) \/ NextResult \/ ExtendToolResult
  PROVE  EndInv' /\ Ended
<1>1. CASE \E t \in Tools : ToolReturns(t) \/ ToolFails(t)
  BY <1>1, Untouched DEF ToolReturns, ToolFails
<1>2. CASE NextResult
  <2> DEFINE t  == Head(queue)
             ok == engine.sealed # None /\ t \in Awaited(engine.sealed.msgs)
  <2>1. Enter([NewOp("result", "extend") EXCEPT !.who = t], engine, ok) /\ UNCHANGED <<ask, turn>>
    BY <1>2 DEF NextResult
  <2>2. IsOp([NewOp("result", "extend") EXCEPT !.who = t]) /\ ok \in BOOLEAN
    BY ChangedOperation
  <2> HIDE DEF ok, t
  <2>3. QED BY <2>1, <2>2, EnteredOnly
<1>3. CASE ExtendToolResult
  <2>1. op # None /\ op.kind = "result"
    BY <1>3 DEF ExtendToolResult, At, Runs
  <2>2. CASE ~Valid
    BY <1>3, <2>2, Thrown DEF ExtendToolResult
  <2>3. CASE Valid
    <3>1. PICK x : engine' = [engine EXCEPT !.sealed = x] /\ Goto("return") /\ UNCHANGED <<ask, turn>>
      BY <1>3, <2>3 DEF ExtendToolResult
    <3>2. QED BY <2>1, <2>3, <3>1, SealedOnly
  <2>4. QED BY <2>2, <2>3
<1>4. QED BY <1>1, <1>2, <1>3

\* A refused call is neither sent nor delivered.
LEMMA Refused ==
  ASSUME EndInv, NEW m \in Asks, RefusedAsk(m), EngineFields', OpFields', Overtaken', EngineEnds
  PROVE  EndInv' /\ Ended
<1>1. AskAt(m, "refused") /\ RejectedIs(TRUE) /\ AskFields /\ TurnFields
  BY DEF RefusedAsk, AskAt, RejectedIs, EndInv
<1>2. AskFields' /\ AsksEnd
  BY <1>1, AskMoved DEF AsksEnd, Agreed
<1>3. TurnFields' /\ TurnEnds
  BY <1>1, TurnMoved DEF TurnEnds
<1>4. QED BY <1>2, <1>3 DEF EndInv, Ended

LEMMA GateLeft ==
  ASSUME EndInv, NEW m \in Asks, LeaveGate(m)
  PROVE  EndInv' /\ Ended
<1>1. CASE ~GateHolds(m)
  <2>1. RefusedAsk(m) /\ UNCHANGED op /\ engine' = Latched
    BY <1>1 DEF LeaveGate
  <2>2. EngineFields' /\ EngineEnds /\ OpFields' /\ Overtaken'
    BY <2>1, LatchedFields DEF EndInv, EngineFields, EngineEnds, OpFields, Overtaken
  <2>3. QED BY <2>1, <2>2, Refused
<1>2. CASE GateHolds(m)
  <2>1. ~engine.failed /\ ~engine.released
    BY <1>2 DEF GateHolds
  <2>2. PICK p : ask' = [ask EXCEPT ![m] = [@ EXCEPT !.had = None, !.at = p]] /\ UNCHANGED <<engine, op, turn>>
    BY <1>2 DEF LeaveGate
  <2>3. PICK P, I, H, A, B : ask \in [Asks -> AskRecords(P, I, H, A, B)]
    BY DEF EndInv, AskFields
  <2>4. ask' \in [Asks -> AskRecords(P \union {p}, I, H \union {None}, A, B)]
    BY <2>2, <2>3 DEF AskRecords
  <2>5. AskFields'
    BY <2>4 DEF AskFields
  <2>6. QED BY <2>1, <2>2, <2>5
        DEF EndInv, Ended, EngineFields, OpFields, Overtaken, TurnFields, EngineEnds, AsksEnd, TurnEnds
<1>3. QED BY <1>1, <1>2

\* What is sent after a failure had been agreed to before.
LEMMA GoneOn ==
  ASSUME EndInv, NEW m \in Asks, OpenTransport(m) \/ SendPayload(m)
  PROVE  EndInv' /\ Ended
<1>1. /\ ask[m].at \in {"opening", "sending"} /\ UNCHANGED <<engine, op>>
      /\ EngineFields' /\ OpFields' /\ Overtaken' /\ EngineEnds
  BY DEF OpenTransport, SendPayload, EndInv, EngineFields, OpFields, Overtaken, EngineEnds
<1>2. CASE ~SourcesHold(m)
  <2>1. RefusedAsk(m)
    BY <1>2 DEF OpenTransport, SendPayload
  <2>2. QED BY <1>1, <2>1, Refused
<1>3. CASE SourcesHold(m) /\ OpenTransport(m)
  <2>1. AskAt(m, "opened") /\ turn' = turn /\ AskFields
    BY <1>3 DEF OpenTransport, AskAt, EndInv
  <2>2. AskFields' /\ AsksEnd
    BY <2>1, AskMoved DEF AsksEnd, Agreed
  <2>3. QED BY <1>1, <2>1, <2>2 DEF EndInv, Ended, TurnFields, TurnEnds
<1>4. CASE SourcesHold(m) /\ SendPayload(m)
  <2>1. /\ ask' = [ask EXCEPT ![m] = [@ EXCEPT !.at = "wire", !.sent = TRUE]]
        /\ turn' = turn /\ ask[m].at = "sending"
    BY <1>4 DEF SendPayload
  <2>2. PICK P, I, H, A, B : ask \in [Asks -> AskRecords(P, I, H, A, B)]
    BY DEF EndInv, AskFields
  <2>3. ask' \in [Asks -> AskRecords(P \union {"wire"}, I, H, A, B \union {TRUE})]
    BY <2>1, <2>2 DEF AskRecords
  <2>4. /\ ask'[m].at = "wire" /\ \A n \in Asks \ {m} : ask'[n] = ask[n]
    BY <2>1, <2>2 DEF AskRecords
  <2>5. AskFields'
    BY <2>3 DEF AskFields
  <2>6. AsksEnd /\ TurnEnds
    BY <2>1, <2>4 DEF AsksEnd, TurnEnds, Agreed
  <2>7. QED BY <1>1, <2>1, <2>5, <2>6 DEF EndInv, Ended, TurnFields
<1>5. QED BY <1>2, <1>3, <1>4

LEMMA OutputGiven ==
  ASSUME EndInv, NEW m \in Asks, ObserveOutput(m)
  PROVE  EndInv' /\ Ended
<1> DEFINE ok == engine.sealed # None
<1>1. EngineFields' /\ OpFields' /\ Overtaken' /\ EngineEnds
  <2>1. CASE SourcesHold(m)
    <3>1. Enter([NewOp("output", "extend") EXCEPT !.who = m], engine, ok)
      BY <2>1 DEF ObserveOutput
    <3>2. IsOp([NewOp("output", "extend") EXCEPT !.who = m]) /\ ok \in BOOLEAN
      BY ChangedOperation
    <3> HIDE DEF ok
    <3>3. QED BY <3>1, <3>2, Entered
  <2>2. CASE ~SourcesHold(m)
    BY <2>2 DEF ObserveOutput, EndInv, EngineFields, OpFields, Overtaken, EngineEnds
  <2>3. QED BY <2>1, <2>2
<1>2. CASE SourcesHold(m) /\ Enters(ok)
  <2>1. AskAt(m, "observing") /\ turn' = turn /\ AskFields
    BY <1>2 DEF ObserveOutput, AskAt, EndInv
  <2>2. AskFields' /\ AsksEnd
    BY <2>1, AskMoved DEF AsksEnd, Agreed
  <2>3. QED BY <1>1, <2>1, <2>2 DEF EndInv, Ended, TurnFields, TurnEnds
<1>3. CASE ~(SourcesHold(m) /\ Enters(ok))
  <2>1. RefusedAsk(m)
    BY <1>3 DEF ObserveOutput
  <2>2. QED BY <1>1, <2>1, Refused
<1>4. QED BY <1>2, <1>3

LEMMA AskSteps ==
  ASSUME EndInv, NEW m \in Asks,
         \/ \E k \in 1..Len(heard) : Ask(m, SubSeq(heard, 1, k))
         \/ Payload(m) \/ ModelFails(m) \/ LeaveGate(m) \/ OpenTransport(m) \/ SendPayload(m) \/ ObserveOutput(m)
         \/ \E calls \in Batches : ModelAnswers(m, calls)
  PROVE  EndInv' /\ Ended
<1>0. PICK P, I, H, A, B : ask \in [Asks -> AskRecords(P, I, H, A, B)]
  BY DEF EndInv, AskFields
<1>1. ASSUME NEW k \in 1..Len(heard), Ask(m, SubSeq(heard, 1, k)) PROVE EndInv' /\ Ended
  <2> DEFINE a == [NewAsk EXCEPT !.at = "transport", !.input = SubSeq(heard, 1, k)]
  <2>1. EnterGate(m, a) /\ UNCHANGED op
    BY <1>1 DEF Ask
  <2>2. a \in AskRecords({"transport"}, {SubSeq(heard, 1, k)}, {None}, {None}, BOOLEAN)
    BY DEF NewAsk, AskRecords
  <2>3. IsAsk(a) /\ a.at # "done"
    BY <2>2 DEF IsAsk, AskRecords
  <2> HIDE DEF a
  <2>4. QED BY <2>1, <2>3, Gated
<1>2. CASE Payload(m)
  <2> DEFINE a == [ask[m] EXCEPT !.at = "payload"]
  <2>1. EnterGate(m, a) /\ UNCHANGED op
    BY <1>2 DEF Payload
  <2>2. a \in AskRecords(P \union {"payload"}, I, H, A, B) /\ a.at = "payload"
    BY <1>0 DEF AskRecords
  <2>3. IsAsk(a) /\ a.at # "done"
    BY <2>2 DEF IsAsk
  <2> HIDE DEF a
  <2>4. QED BY <2>1, <2>3, Gated
<1>3. CASE ModelFails(m)
  <2>1. AskAt(m, "refused") /\ UNCHANGED <<engine, op, turn>>
    BY <1>3 DEF ModelFails, AskAt
  <2>2. QED BY <2>1, AskOnly DEF Agreed
<1>4. CASE LeaveGate(m) \/ OpenTransport(m) \/ SendPayload(m) \/ ObserveOutput(m)
  BY <1>4, GateLeft, GoneOn, OutputGiven
<1>5. ASSUME NEW calls \in Batches, ModelAnswers(m, calls) PROVE EndInv' /\ Ended
  <2> DEFINE a == [ask[m] EXCEPT !.at = "answer", !.answer = Answer(m, calls)]
  <2>1. EnterGate(m, a) /\ UNCHANGED op
    BY <1>5 DEF ModelAnswers
  <2>2. a \in AskRecords(P \union {"answer"}, I, H, A \union {Answer(m, calls)}, B) /\ a.at = "answer"
    BY <1>0 DEF AskRecords
  <2>3. IsAsk(a) /\ a.at # "done"
    BY <2>2 DEF IsAsk
  <2> HIDE DEF a
  <2>4. QED BY <2>1, <2>3, Gated
<1>6. QED BY <1>1, <1>2, <1>3, <1>4, <1>5

LEMMA ExtendStep ==
  ASSUME EndInv, ExtendAssistant
  PROVE  EndInv' /\ Ended
<1>1. op # None /\ op.kind = "output"
  BY DEF ExtendAssistant, At, Runs
<1>2. CASE ~(Valid /\ op.had.timed /\ ask[op.who].input = op.had.msgs)
  BY <1>2, Thrown DEF ExtendAssistant
<1>3. CASE Valid /\ op.had.timed /\ ask[op.who].input = op.had.msgs
  <2>1. PICK x : engine' = [engine EXCEPT !.sealed = x] /\ Goto("return") /\ UNCHANGED <<ask, turn>>
    BY <1>3 DEF ExtendAssistant
  <2>2. QED BY <1>1, <1>3, <2>1, SealedOnly
<1>4. QED BY <1>2, <1>3

LEMMA FinalSteps ==
  ASSUME EndInv,
         \/ ReleaseToCompletion \/ EndGeneration \/ Cancel
         \/ PersistCompletedHistory \/ CheckPersist \/ ArchiveHistory \/ Publish \/ SourcesMove
  PROVE  EndInv' /\ Ended
<1>0. PICK P, R, D, A, B : turn \in TurnRecords(P, R, D, A, B)
  BY DEF EndInv, TurnFields, IsTurn
<1>1. CASE ReleaseToCompletion
  <2>0. PICK S, H : engine \in Engines(S, H)
    BY DEF EndInv, EngineFields, IsEngine
  <2>1. AskFields' /\ TurnFields' /\ OpFields' /\ AsksEnd /\ TurnEnds /\ ~engine.released /\ op' = op
    BY <1>1 DEF ReleaseToCompletion, EndInv, AskFields, TurnFields, OpFields, AsksEnd, TurnEnds
  <2>2. CASE op # None \/ Pending # {}
    <3>1. engine' = [Latched EXCEPT !.released = TRUE, !.closed = TRUE]
      BY <1>1, <2>2 DEF ReleaseToCompletion
    <3>2. Latched \in Engines(S \union {None}, H) /\ Latched.failed = TRUE
      BY <2>0 DEF Latched, Engines
    <3>3. engine' \in Engines(S \union {None}, H)
      BY <3>1, <3>2 DEF Engines
    <3>4. engine'.failed = TRUE /\ engine'.closed = TRUE
      BY <3>1, <3>2 DEF Engines
    <3>5. EngineFields'
      BY <3>3 DEF EngineFields, IsEngine
    <3>6. QED BY <2>1, <3>4, <3>5 DEF EndInv, Ended, EngineEnds, Overtaken
  <2>3. CASE ~(op # None \/ Pending # {})
    <3>1. engine' = [engine EXCEPT !.released = TRUE] /\ op = None
      BY <1>1, <2>3 DEF ReleaseToCompletion
    <3>2. engine' \in Engines(S, H) /\ engine'.failed = engine.failed
      BY <2>0, <3>1 DEF Engines
    <3>3. EngineFields'
      BY <3>2 DEF EngineFields, IsEngine
    <3>4. QED BY <2>1, <3>1, <3>2, <3>3 DEF EndInv, Ended, EngineEnds, Overtaken
  <2>4. QED BY <2>2, <2>3
<1>2. CASE EndGeneration
  <2>1. turn' = [turn EXCEPT !.permit = "persist", !.draft = Last(heard)] /\ UNCHANGED <<engine, op, ask>>
    BY <1>2 DEF EndGeneration
  <2>2. turn' \in TurnRecords(P \union {"persist"}, R, D \union {Last(heard)}, A, B) /\ turn'.permit = "persist"
    BY <1>0, <2>1 DEF TurnRecords
  <2>3. TurnFields' /\ TurnEnds
    BY <2>2 DEF TurnFields, IsTurn, TurnEnds
  <2>4. QED BY <2>1, <2>3, TurnOnly
<1>3. CASE Cancel
  <2>1. TurnFields /\ PermitIs("ended") /\ UNCHANGED <<engine, op, ask>>
    BY <1>3 DEF Cancel, PermitIs, EndInv
  <2>2. TurnFields' /\ TurnEnds
    BY <2>1, TurnMoved DEF TurnEnds
  <2>3. QED BY <2>1, <2>2, TurnOnly
<1>4. CASE PersistCompletedHistory
  <2> DEFINE ok == /\ op = None /\ ~engine.failed /\ engine.sealed # None /\ Pending = {}
                   /\ IsFinal(engine.sealed.msgs)
  <2>1. /\ op' = IF engine.released /\ ok THEN NewOp("persist", "check") ELSE op
        /\ engine' = IF engine.released /\ ~ok THEN Latched ELSE engine
        /\ PermitIs(IF engine.released /\ ok THEN "persisting" ELSE "ended")
        /\ ask' = ask
    BY <1>4 DEF PersistCompletedHistory, PermitIs
  <2> HIDE DEF ok
  <2>2. TurnFields' /\ TurnEnds
    BY <2>1, TurnMoved DEF TurnEnds, EndInv
  <2>3. AskFields' /\ AsksEnd
    BY <2>1 DEF EndInv, AskFields, AsksEnd
  <2>4. OpFields' /\ Overtaken' /\ EngineFields' /\ EngineEnds
    BY <2>1, OperationFields, LatchedFields
    DEF EndInv, OpFields, Overtaken, EngineFields, EngineEnds
  <2>5. QED BY <2>2, <2>3, <2>4 DEF EndInv, Ended
<1>5. CASE CheckPersist
  BY <1>5, Thrown, MovedOnly DEF CheckPersist, At, Runs
<1>6. CASE ArchiveHistory
  <2>1. CASE ~Valid
    BY <1>6, <2>1, Thrown DEF ArchiveHistory
  <2>2. CASE Valid
    <3>1. PICK x : turn' = [turn EXCEPT !.archived = x] /\ Goto("recheck") /\ UNCHANGED <<engine, ask>>
      BY <1>6, <2>2 DEF ArchiveHistory
    <3>2. turn' \in TurnRecords(P, R, D, A \union {x}, B) /\ turn'.permit = turn.permit
      BY <1>0, <3>1 DEF TurnRecords
    <3>3. TurnFields' /\ TurnEnds
      BY <3>2 DEF TurnFields, IsTurn, TurnEnds
    <3>4. op # None
      BY <1>6 DEF ArchiveHistory, At, Runs
    <3>5. OpFields' /\ Overtaken' /\ EngineFields' /\ EngineEnds /\ AskFields' /\ AsksEnd
      BY <3>1, <3>4, Moved DEF EndInv, Overtaken, EngineFields, EngineEnds, AskFields, AsksEnd
    <3>6. QED BY <3>3, <3>5 DEF EndInv, Ended
  <2>3. QED BY <2>1, <2>2
<1>7. CASE Publish
  <2>1. PICK b : turn' = [turn EXCEPT !.permit = "ended", !.published = b]
    BY <1>7 DEF Publish
  <2>2. turn' \in TurnRecords(P \union {"ended"}, R, D, A, B \union {b}) /\ turn'.permit = "ended"
    BY <1>0, <2>1 DEF TurnRecords
  <2>3. TurnFields' /\ TurnEnds
    BY <2>2 DEF TurnFields, IsTurn, TurnEnds
  <2>4. QED BY <1>7, <2>3, TurnOnly DEF Publish
<1>8. CASE SourcesMove
  BY <1>8, Untouched DEF SourcesMove
<1>9. QED BY <1>1, <1>2, <1>3, <1>4, <1>5, <1>6, <1>7, <1>8

LEMMA Initially ==
  ASSUME Init
  PROVE  EndInv
<1>1. engine \in Engines({None}, {0}) /\ ~engine.released
  BY DEF Init, Engines
<1>2. turn \in TurnRecords({"generate"}, {FALSE}, {None}, {None}, {FALSE})
  BY DEF Init, TurnRecords
<1>3. ask \in [Asks -> AskRecords({"idle"}, {<<>>}, {None}, {None}, {FALSE})]
  BY DEF Init, NewAsk, AskRecords
<1>4. EngineFields /\ TurnFields /\ AskFields
  BY <1>1, <1>2, <1>3 DEF EngineFields, TurnFields, AskFields, IsEngine, IsTurn
<1>5. op = None
  BY DEF Init
<1>6. QED BY <1>4, <1>5 DEF EndInv, OpFields, Overtaken

LEMMA Steps ==
  ASSUME EndInv, [Next]_vars
  PROVE  EndInv' /\ Ended
<1>1. CASE UNCHANGED vars
  BY <1>1, Untouched DEF vars
<1>2. CASE Next
  BY <1>2, HostSteps, ToolSteps, AskSteps, ExtendStep, FinalSteps DEF Next
<1>3. QED BY <1>1, <1>2

-----------------------------------------------------------------------------

\* After a failure or the release the engine agrees to no further call, whatever was waiting
\* when it came; nothing is sent but what it had agreed to, a failure lets nothing be delivered
\* or kept, and after the release the verified context is never replaced.
THEOREM OverForGood == Spec => OverIsOver
<1>1. EndInv /\ [Next]_vars => EndInv'
  BY Steps
<1>2. Spec => []EndInv
  BY <1>1, Initially, PTL DEF Spec
<1>3. EndInv /\ [Next]_vars =>
        [/\ engine.failed =>
              /\ engine'.failed
              /\ \A m \in Asks : ask'[m].at = "done" => ask[m].at = "done"
              /\ turn'.permit = "publish" => turn.permit = "publish"
         /\ engine.released => engine'.sealed \in {engine.sealed, None}
         /\ engine.failed \/ engine.released =>
              \A m \in Asks : /\ ask'[m].at \in Agreed => ask[m].at = ask'[m].at
                              /\ ask'[m].sent # ask[m].sent => ask[m].at = "sending"]_vars
  BY Steps DEF Ended, EngineEnds, AsksEnd, TurnEnds
<1>4. QED BY <1>2, <1>3, PTL DEF Spec, OverIsOver

-----------------------------------------------------------------------------
(* Conversations as the engine makes them *)

\* The last answer of msgs is the one at i; there is none if i is 0.
LastAt(msgs, i) ==
  /\ i \in 0..Len(msgs)
  /\ i > 0 => msgs[i].role = "assistant"
  /\ \A j \in (i + 1)..Len(msgs) : msgs[j].role # "assistant"

\* How many of the calls in K come up to k.
Rank(K, k) == Cardinality({j \in K : j <= k})

\* The messages after i are the results of the calls in K, in call order.
Answered(msgs, i, K) ==
  LET calls == msgs[i].calls
  IN  /\ K \subseteq DOMAIN calls
      /\ Len(msgs) = i + Cardinality(K)
      /\ \A k \in K : msgs[i + Rank(K, k)] = Result(calls[k])
      /\ \A j \in (i + 1)..Len(msgs) : \E k \in K : j = i + Rank(K, k)

\* The answer to a call that is over.
Past(m) == ask[m].at \in {"observing", "done", "refused"}

Spoken(msgs) ==
  \A i \in 1..Len(msgs) : msgs[i].role = "assistant" =>
    msgs[i].by \in Asks /\ Past(msgs[i].by) /\ msgs[i].calls \in Batches

\* WholeBatches of the first messages.
WholeUpTo(msgs, last) ==
  \A i \in 1..last : msgs[i].role = "assistant" =>
    LET n == Len(msgs[i].calls)
    IN  /\ i + n <= last
        /\ \A j \in 1..n : msgs[i + j] = Result(msgs[i].calls[j])
        /\ i + n < last => msgs[i + n + 1].role # "toolResult"

\* A conversation as the engine makes it: whole, but for some results of its last answer.
Made(msgs, i) ==
  /\ LastAt(msgs, i)
  /\ i = 0 => Len(msgs) = 1 /\ msgs[1].role = "user"
  /\ i > 0 => /\ WholeUpTo(msgs, i - 1)
              /\ \E K \in SUBSET DOMAIN msgs[i].calls : Answered(msgs, i, K)

Genuine(msgs) ==
  /\ msgs \in Seq(Messages) /\ OwnAnswers(msgs) /\ Spoken(msgs)
  /\ \E i \in 0..Len(msgs) : Made(msgs, i)

GoodContext(c) == c # None => Genuine(c.msgs)

(* The inductive invariant *)

Kinds == {"ingest", "open", "loop", "compact", "result", "output", "persist"}

Places == {"archive", "seal", "check", "summarize", "save", "extend", "write", "recheck", "return"}

Over == {"observing", "done", "refused"}

EngineValues == [failed : BOOLEAN, closed : BOOLEAN, sealed : Contexts \union {None},
                 released : BOOLEAN, history : 0..MaxCalls]

OpValues == [kind : Kinds, at : Places, who : Asks \union Tools \union {None}, input : Seq(Messages),
             had : Contexts \union {None}]

AskValues ==
  [at : {"idle", "transport", "opening", "opened", "payload", "sending", "wire", "answer", "hearing",
         "observing", "done", "refused"},
   input : Seq(Messages), had : Contexts \union {None}, answer : Messages \union {None}, sent : BOOLEAN]

TurnValues == [permit : {"generate", "persist", "persisting", "publish", "ended"},
               rejected : BOOLEAN, draft : Messages \union {None},
               archived : Seq(Messages) \union {None}, published : BOOLEAN]

EnvValues == [moved : BOOLEAN, orderly : BOOLEAN, calls : 0..MaxCalls, faults : 0..MaxFaults]

EngineOK(e) == e \in EngineValues /\ GoodContext(e.sealed)

OpOK(o) ==
  o # None =>
    /\ o \in OpValues /\ GoodContext(o.had)
    /\ o.kind \in {"loop", "result", "output", "persist"} => o.had # None
    /\ o.kind = "result" => o.who \in Tools
    /\ o.kind = "result" /\ o.at = "extend" => o.who \in Awaited(o.had.msgs)
    /\ o.kind = "output" => o.who \in Asks
    /\ o.kind = "persist" => IsFinal(o.had.msgs)

Unsent == {"idle", "transport", "opening", "opened", "payload", "sending"}

WithAnswer == {"answer", "hearing", "observing", "done"}

AskOK(m, a) ==
  /\ a \in AskValues /\ GoodContext(a.had)
  /\ a.at \in Unsent \union {"wire"} => a.answer = None
  /\ a.at \in WithAnswer => \E calls \in Batches : a.answer = Answer(m, calls)
  /\ a.at \in Unsent => ~a.sent
  /\ a.at \in WithAnswer \union {"wire"} => a.sent
  /\ a.at \in {"transport", "payload", "answer"} => a.had # None
  /\ a.at \notin {"idle", "observing", "done", "refused"} => CompleteBatch(a.input)
  /\ a.at = "sending" \/ a.sent => Genuine(a.input) /\ WholeBatches(a.input)

AsksOK == ask \in [Asks -> AskValues] /\ \A m \in Asks : AskOK(m, ask[m])

TurnOK(t) ==
  /\ t \in TurnValues
  /\ t.archived # None => Genuine(t.archived) /\ WholeBatches(t.archived) /\ IsFinal(t.archived)

\* Whoever waits for the running operation.
Linked ==
  op # None =>
    /\ op.kind = "output" => ask[op.who].at = "observing"
    /\ op.kind = "result" => tool[op.who] = "running"
    /\ op.kind = "open" /\ op.at = "return" /\ ~engine.failed => engine.sealed # None

Compacting(o) == IF o # None /\ o.kind = "compact" /\ o.at # "return" THEN 1 ELSE 0

Counted == engine.history + Compacting(op) <= env.calls

HostOK ==
  /\ queue \in Seq(Tools)
  /\ tool \in [Tools -> {"idle", "queued", "running", "done", "failed"}]
  /\ heard \in Seq(Messages) /\ env \in EnvValues

ConvInv == EngineOK(engine) /\ OpOK(op) /\ AsksOK /\ TurnOK(turn) /\ Linked /\ Counted /\ HostOK

-----------------------------------------------------------------------------
(* Facts about conversations *)

LEMMA LastAnswerIs ==
  ASSUME NEW msgs, Len(msgs) \in Nat, NEW i, LastAt(msgs, i)
  PROVE  LastAnswer(msgs) = i
<1> DEFINE I == {j \in 1..Len(msgs) : msgs[j].role = "assistant"}
<1>1. LastAnswer(msgs) = IF I # {} THEN Max(I) ELSE 0
  BY DEF LastAnswer, SelectLastInSeq
<1>2. CASE i = 0
  BY <1>1, <1>2 DEF LastAt
<1>3. CASE i > 0
  <2>1. i \in I /\ \A j \in I : i >= j
    BY <1>3 DEF LastAt
  <2>2. \A x \in I : (\A j \in I : x >= j) => x = i
    BY <2>1
  <2> HIDE DEF I
  <2>3. Max(I) = i
    BY <2>1, <2>2 DEF Max
  <2>4. QED BY <1>1, <2>1, <2>3
<1>4. QED BY <1>2, <1>3 DEF LastAt

LEMMA Interval ==
  ASSUME NEW n \in Nat
  PROVE  IsFiniteSet(1..n) /\ Cardinality(1..n) = n
BY FS_Interval

\* Ranks count the elements of K in order.
LEMMA Ranks ==
  ASSUME NEW n \in Nat, NEW K \in SUBSET (1..n), NEW k \in Nat
  PROVE  /\ Rank(K, k) \in 0..Cardinality(K) /\ Cardinality(K) \in 0..n
         /\ k \in K => Rank(K, k) >= 1 /\ \A j \in K : j < k => Rank(K, j) < Rank(K, k)
         /\ k <= n => Rank(1..n, k) = k
<1>1. IsFiniteSet(1..n) /\ Cardinality(1..n) = n
  BY FS_Interval
<1>2. IsFiniteSet(K) /\ Cardinality(K) \in Nat /\ Cardinality(K) <= n
  BY <1>1, FS_Subset, FS_CardinalityType
<1>3. \A S \in SUBSET K : IsFiniteSet(S) /\ Cardinality(S) \in Nat /\ Cardinality(S) <= Cardinality(K)
  BY <1>2, FS_Subset, FS_CardinalityType
<1>4. Rank(K, k) \in 0..Cardinality(K)
  <2>1. {j \in K : j <= k} \in SUBSET K
    OBVIOUS
  <2>2. QED BY <1>3, <2>1 DEF Rank
<1>5. ASSUME k \in K PROVE Rank(K, k) >= 1 /\ \A j \in K : j < k => Rank(K, j) < Rank(K, k)
  <2>1. \A j \in K : j < k => Rank(K, j) < Rank(K, k)
    <3>1. SUFFICES ASSUME NEW j \in K, j < k PROVE Rank(K, j) < Rank(K, k)
      OBVIOUS
    <3> DEFINE A == {x \in K : x <= j}
               B == {x \in K : x <= k}
    <3>2. A \subseteq B /\ A # B /\ IsFiniteSet(B)
      <4>1. k \in B /\ k \notin A
        <5>1. j \in Nat
          OBVIOUS
        <5>2. k <= k /\ ~(k <= j)
          BY <3>1, <5>1
        <5>3. QED BY <1>5, <5>2
      <4>2. A \subseteq B
        <5>1. SUFFICES ASSUME NEW x \in K, x <= j PROVE x <= k
          OBVIOUS
        <5>2. x \in Nat /\ j \in Nat
          OBVIOUS
        <5>3. QED BY <3>1, <5>1, <5>2
      <4>3. B \in SUBSET K
        OBVIOUS
      <4> HIDE DEF A, B
      <4>4. QED BY <1>3, <4>1, <4>2, <4>3
    <3>3. Cardinality(A) < Cardinality(B)
      <4>1. Cardinality(A) \in Nat /\ Cardinality(B) \in Nat /\ Cardinality(A) <= Cardinality(B)
        BY <1>3, <3>2, FS_Subset
      <4> HIDE DEF A, B
      <4>2. Cardinality(A) # Cardinality(B)
        BY <3>2, FS_Subset
      <4>3. QED BY <4>1, <4>2
    <3>4. QED BY <3>3 DEF Rank
  <2>2. Rank(K, k) # 0
    <3>1. {j \in K : j <= k} # {} /\ IsFiniteSet({j \in K : j <= k})
      BY <1>3, <1>5
    <3>2. QED BY <3>1, FS_EmptySet DEF Rank
  <2>3. QED BY <1>4, <2>1, <2>2
<1>7. ASSUME k <= n PROVE Rank(1..n, k) = k
  <2>1. {j \in 1..n : j <= k} = 1..k
    BY <1>7
  <2>2. Cardinality(1..k) = k
    BY Interval
  <2>3. QED BY <2>1, <2>2 DEF Rank
<1>8. Cardinality(K) \in 0..n
  BY <1>2
<1>10. QED BY ONLY <1>4, <1>5, <1>7, <1>8

\* One more call in K moves the ones behind it on.
LEMMA RankAdded ==
  ASSUME NEW n \in Nat, NEW K \in SUBSET (1..n), NEW q \in (1..n) \ K, NEW k \in Nat
  PROVE  /\ Cardinality(K \cup {q}) = Cardinality(K) + 1
         /\ q <= k => Rank(K \cup {q}, k) = Rank(K, k) + 1
         /\ ~(q <= k) => Rank(K \cup {q}, k) = Rank(K, k)
<1>1. IsFiniteSet(K)
  <2>1. IsFiniteSet(1..n)
    BY FS_Interval
  <2>2. QED BY <2>1, FS_Subset
<1>2. Cardinality(K \cup {q}) = Cardinality(K) + 1
  BY <1>1, FS_AddElement
<1>3. ASSUME q <= k PROVE Rank(K \cup {q}, k) = Rank(K, k) + 1
  <2>1. {j \in K \cup {q} : j <= k} = {j \in K : j <= k} \cup {q} /\ q \notin {j \in K : j <= k}
    BY <1>3
  <2>2. IsFiniteSet({j \in K : j <= k})
    BY <1>1, FS_Subset
  <2>3. QED BY <2>1, <2>2, FS_AddElement DEF Rank
<1>4. ASSUME ~(q <= k) PROVE Rank(K \cup {q}, k) = Rank(K, k)
  <2>1. {j \in K \cup {q} : j <= k} = {j \in K : j <= k}
    BY <1>4
  <2>2. QED BY <2>1 DEF Rank
<1>5. QED BY <1>2, <1>3, <1>4

\* A call q outside K has its place between the ranks of the calls before and behind it.
IsBetween(K, q, k) ==
  /\ k < q => Rank(K, k) <= Rank(K, q) /\ Rank(K \cup {q}, k) = Rank(K, k)
  /\ q < k => Rank(K, q) < Rank(K, k) /\ Rank(K \cup {q}, k) = Rank(K, k) + 1

LEMMA RankOrder ==
  ASSUME NEW n \in Nat, NEW K \in SUBSET (1..n), NEW q \in (1..n) \ K, NEW k \in K
  PROVE  IsBetween(K, q, k)
<1> DEFINE L == K \cup {q}
<1>1. k \in Nat /\ q \in Nat /\ L \in SUBSET (1..n) /\ k \in L /\ q \in L /\ q <= q
  OBVIOUS
<1>2. Cardinality(K) \in 0..n /\ Rank(K, k) \in 0..Cardinality(K) /\ Rank(K, q) \in 0..Cardinality(K)
  BY <1>1, Ranks
<1>3. Rank(L, q) = Rank(K, q) + 1
  BY <1>1, RankAdded
<1>4. (q <= k => Rank(L, k) = Rank(K, k) + 1) /\ (~(q <= k) => Rank(L, k) = Rank(K, k))
  BY <1>1, RankAdded
<1> HIDE DEF L
<1>5. /\ k < q => Rank(L, k) < Rank(L, q)
      /\ q < k => Rank(L, q) < Rank(L, k)
  BY <1>1, Ranks
<1>6. Rank(K, k) \in Nat /\ Rank(K, q) \in Nat
  BY <1>2
<1>7. (k < q => ~(q <= k)) /\ (q < k => q <= k)
  BY <1>1
<1>8. k < q => Rank(K, k) < Rank(K, q) + 1
  BY <1>3, <1>4, <1>5, <1>7
<1>9. q < k => Rank(K, q) + 1 < Rank(K, k) + 1
  BY <1>3, <1>4, <1>5, <1>7
<1>10. QED BY <1>3, <1>4, <1>6, <1>7, <1>8, <1>9 DEF L, IsBetween

\* The results of calls stand behind i.
Follow(msgs, i, calls) ==
  /\ i + Len(calls) <= Len(msgs)
  /\ \A j \in 1..Len(calls) : msgs[i + j] = Result(calls[j])

IsSegment(msgs, i, m, calls) ==
  SubSeq(msgs, i + 1, i + m) = Results(calls) <=>
    Len(calls) = m /\ \A j \in 1..m : msgs[i + j] = Result(calls[j])

LEMMA Segment ==
  ASSUME NEW S, NEW msgs \in Seq(S), NEW i \in Nat, NEW calls, Len(calls) \in Nat, NEW m \in Nat,
         i + m <= Len(msgs)
  PROVE  IsSegment(msgs, i, m, calls)
<1> DEFINE n == Len(calls)
           part == SubSeq(msgs, i + 1, i + m)
           results == Results(calls)
<1>1. n \in Nat
  OBVIOUS
<1>2. results = [j \in 1..n |-> Result(calls[j])]
  BY DEF Results
<1>3. part = [j \in 1..m |-> msgs[i + j]]
  <2>1. Len(part) = m /\ part \in Seq(S)
    OBVIOUS
  <2>2. \A j \in 1..m : part[j] = msgs[i + j]
    OBVIOUS
  <2>3. QED BY <2>1, <2>2
<1>4. ASSUME part = results PROVE n = m /\ \A j \in 1..m : msgs[i + j] = Result(calls[j])
  <2>1. 1..n = 1..m
    BY <1>2, <1>3, <1>4
  <2> HIDE DEF n
  <2>2. n = m
    <3>1. Cardinality(1..n) = n /\ Cardinality(1..m) = m
      BY <1>1, Interval
    <3>2. QED BY <2>1, <3>1
  <2>3. \A j \in 1..m : part[j] = msgs[i + j] /\ results[j] = Result(calls[j])
    BY <1>2, <1>3, <2>2
  <2>4. QED BY <1>4, <2>2, <2>3
<1>5. ASSUME n = m, \A j \in 1..m : msgs[i + j] = Result(calls[j]) PROVE part = results
  BY <1>2, <1>3, <1>5
<1>6. QED BY <1>4, <1>5 DEF IsSegment

LEMMA Batch ==
  ASSUME NEW S, NEW msgs \in Seq(S), NEW i \in 0..Len(msgs), NEW calls, Len(calls) \in Nat
  PROVE  /\ SubSeq(msgs, i + 1, Len(msgs)) = Results(calls) <=>
              Follow(msgs, i, calls) /\ Len(msgs) = i + Len(calls)
         /\ i + Len(calls) <= Len(msgs) =>
              (SubSeq(msgs, i + 1, i + Len(calls)) = Results(calls) <=> Follow(msgs, i, calls))
<1> DEFINE n == Len(calls)
           m == Len(msgs) - i
<1>1. n \in Nat /\ m \in Nat /\ i \in Nat /\ Len(msgs) = i + m
  OBVIOUS
<1> HIDE DEF n, m
<1>2. SubSeq(msgs, i + 1, i + m) = Results(calls) <=>
           n = m /\ \A j \in 1..m : msgs[i + j] = Result(calls[j])
  <2>1. i + m <= Len(msgs) /\ Len(calls) \in Nat
    BY <1>1
  <2>2. SubSeq(msgs, i + 1, i + m) = Results(calls) <=>
           Len(calls) = m /\ \A j \in 1..m : msgs[i + j] = Result(calls[j])
    <3>1. IsSegment(msgs, i, m, calls)
      BY <1>1, <2>1, Segment, Zenon
    <3>2. QED BY <3>1 DEF IsSegment
  <2>3. QED BY <2>2 DEF n
<1>3. i + n <= Len(msgs) =>
        (SubSeq(msgs, i + 1, i + n) = Results(calls) <=> \A j \in 1..n : msgs[i + j] = Result(calls[j]))
  <2>1. SUFFICES ASSUME i + n <= Len(msgs)
                 PROVE  SubSeq(msgs, i + 1, i + n) = Results(calls) <=>
                          \A j \in 1..n : msgs[i + j] = Result(calls[j])
    OBVIOUS
  <2>2. SubSeq(msgs, i + 1, i + n) = Results(calls) <=>
           Len(calls) = n /\ \A j \in 1..n : msgs[i + j] = Result(calls[j])
    <3>1. Len(calls) \in Nat
      OBVIOUS
    <3>2. IsSegment(msgs, i, n, calls)
      BY <1>1, <2>1, <3>1, Segment, Zenon
    <3>3. QED BY <3>2 DEF IsSegment
  <2>3. QED BY <2>2 DEF n
<1>4. Follow(msgs, i, calls) <=> i + n <= i + m /\ \A j \in 1..n : msgs[i + j] = Result(calls[j])
  BY <1>1 DEF Follow, n
<1>5. SubSeq(msgs, i + 1, i + m) = Results(calls) <=> Follow(msgs, i, calls) /\ m = n
  BY <1>1, <1>2, <1>4
<1>6. QED BY <1>1, <1>3, <1>4, <1>5 DEF n

LEMMA MessageTypes ==
  ASSUME NEW msgs \in Seq(Messages), NEW i \in 1..Len(msgs)
  PROVE  /\ msgs[i] \in Messages /\ msgs[i].calls \in Seq(Tools) /\ Len(msgs[i].calls) \in Nat
         /\ DOMAIN msgs[i].calls = 1..Len(msgs[i].calls)
<1>1. msgs[i] \in Messages
  OBVIOUS
<1>2. msgs[i].calls \in Seq(Tools)
  BY <1>1 DEF Messages
<1>3. QED BY <1>1, <1>2

LEMMA WholeBy ==
  ASSUME NEW msgs \in Seq(Messages)
  PROVE  WholeBatches(msgs) <=> WholeUpTo(msgs, Len(msgs))
<1>1. ASSUME NEW i \in 1..Len(msgs)
      PROVE  LET n == Len(msgs[i].calls)
             IN  (i + n <= Len(msgs) /\ SubSeq(msgs, i + 1, i + n) = Results(msgs[i].calls)) <=>
                 (i + n <= Len(msgs) /\ \A j \in 1..n : msgs[i + j] = Result(msgs[i].calls[j]))
  <2> DEFINE calls == msgs[i].calls
  <2>1. Len(calls) \in Nat /\ i \in 0..Len(msgs)
    BY MessageTypes
  <2> HIDE DEF calls
  <2>2. i + Len(calls) <= Len(msgs) =>
          (SubSeq(msgs, i + 1, i + Len(calls)) = Results(calls) <=> Follow(msgs, i, calls))
    BY <2>1, Batch
  <2>3. QED BY <2>2 DEF Follow, calls
<1>2. QED BY <1>1 DEF WholeBatches, WholeUpTo

LEMMA CompleteAt ==
  ASSUME NEW msgs \in Seq(Messages), NEW i \in 1..Len(msgs), LastAt(msgs, i)
  PROVE  CompleteBatch(msgs) <=>
           /\ Len(msgs) = i + Len(msgs[i].calls)
           /\ \A j \in 1..Len(msgs[i].calls) : msgs[i + j] = Result(msgs[i].calls[j])
<1> DEFINE calls == msgs[i].calls
<1>1. LastAnswer(msgs) = i
  BY LastAnswerIs
<1>2. Len(calls) \in Nat /\ i \in 0..Len(msgs)
  BY MessageTypes
<1>3. CompleteBatch(msgs) <=> SubSeq(msgs, i + 1, Len(msgs)) = Results(calls)
  BY <1>1 DEF CompleteBatch
<1> HIDE DEF calls
<1>4. CompleteBatch(msgs) <=> Follow(msgs, i, calls) /\ Len(msgs) = i + Len(calls)
  BY <1>2, <1>3, Batch
<1>5. QED BY <1>2, <1>4 DEF Follow, calls

\* A conversation that ends with a complete batch is whole.
LEMMA Completed ==
  ASSUME NEW msgs \in Seq(Messages), NEW i \in 0..Len(msgs), Made(msgs, i), CompleteBatch(msgs)
  PROVE  WholeBatches(msgs)
<1>1. SUFFICES WholeUpTo(msgs, Len(msgs))
  BY WholeBy
<1>2. CASE i = 0
  <2>1. \A k \in 1..Len(msgs) : msgs[k].role # "assistant"
    <3>1. LastAt(msgs, 0)
      BY <1>2 DEF Made
    <3>2. QED BY <3>1 DEF LastAt
  <2>2. QED BY <2>1 DEF WholeUpTo
<1>3. CASE i > 0
  <2>1. LastAt(msgs, i) /\ WholeUpTo(msgs, i - 1)
    BY <1>3 DEF Made
  <2>2. /\ Len(msgs) = i + Len(msgs[i].calls)
        /\ \A j \in 1..Len(msgs[i].calls) : msgs[i + j] = Result(msgs[i].calls[j])
    BY <1>3, <2>1, CompleteAt
  <2>3. ASSUME NEW k \in 1..Len(msgs), msgs[k].role = "assistant"
        PROVE  LET n == Len(msgs[k].calls)
               IN  /\ k + n <= Len(msgs)
                   /\ \A j \in 1..n : msgs[k + j] = Result(msgs[k].calls[j])
                   /\ k + n < Len(msgs) => msgs[k + n + 1].role # "toolResult"
    <3> DEFINE n == Len(msgs[k].calls)
    <3>1. k <= i /\ n \in Nat
      BY <2>1, <2>3, MessageTypes DEF LastAt
    <3>2. CASE k = i
      BY <2>2, <3>2
    <3>3. CASE k < i
      <4>1. /\ k + n <= i - 1
            /\ \A j \in 1..n : msgs[k + j] = Result(msgs[k].calls[j])
            /\ k + n < i - 1 => msgs[k + n + 1].role # "toolResult"
        <5>1. k \in 1..(i - 1)
          BY <3>3
        <5>2. WholeUpTo(msgs, i - 1) /\ msgs[k].role = "assistant"
          BY <2>1, <2>3
        <5>3. QED BY ONLY <5>1, <5>2, Zenon DEF WholeUpTo
      <4>2. msgs[i].role # "toolResult"
        BY <1>3, <2>1 DEF LastAt
      <4> HIDE DEF n
      <4>3. k + n < Len(msgs) => msgs[k + n + 1].role # "toolResult"
        <5>1. CASE k + n < i - 1
          BY <4>1, <5>1
        <5>2. CASE ~(k + n < i - 1)
          <6>1. k + n + 1 = i
            BY <3>1, <4>1, <5>2
          <6>2. QED BY <4>2, <6>1
        <5>3. QED BY <5>1, <5>2
      <4>4. k + n <= Len(msgs)
        BY <3>1, <4>1
      <4>5. QED BY <4>1, <4>3, <4>4 DEF n
    <3>4. QED BY <3>1, <3>2, <3>3
  <2>4. QED BY <2>3 DEF WholeUpTo
<1>4. QED BY <1>2, <1>3

OwnAt(msgs, i) ==
  /\ ask[msgs[i].by].sent
  /\ ask[msgs[i].by].input = SubSeq(msgs, 1, i - 1)
  /\ ask[msgs[i].by].answer = msgs[i]
  /\ msgs[i].by \in Asks /\ Past(msgs[i].by) /\ msgs[i].calls \in Batches

Owned(msgs, last) == \A i \in 1..last : msgs[i].role = "assistant" => OwnAt(msgs, i)

LEMMA OwnedAll ==
  ASSUME NEW msgs
  PROVE  Owned(msgs, Len(msgs)) <=> OwnAnswers(msgs) /\ Spoken(msgs)
BY DEF Owned, OwnAt, OwnAnswers, Spoken

Agree(msgs, other, last) ==
  last \in 0..Len(msgs) /\ last <= Len(other) /\ \A j \in 1..last : other[j] = msgs[j]

LEMMA SamePrefix ==
  ASSUME NEW S, NEW msgs \in Seq(S), NEW other \in Seq(S), NEW last, Agree(msgs, other, last)
  PROVE  SubSeq(other, 1, last) = SubSeq(msgs, 1, last)
<1>1. last \in Nat /\ last <= Len(msgs) /\ last <= Len(other)
  BY DEF Agree
<1>2. /\ SubSeq(other, 1, last) = [j \in 1..last |-> other[j]]
      /\ SubSeq(msgs, 1, last) = [j \in 1..last |-> msgs[j]]
  BY <1>1
<1>3. QED BY <1>2 DEF Agree

LEMMA Carried ==
  ASSUME NEW msgs \in Seq(Messages), NEW other \in Seq(Messages), NEW last, Agree(msgs, other, last)
  PROVE  /\ Owned(msgs, last) => Owned(other, last)
         /\ WholeUpTo(msgs, last) => WholeUpTo(other, last)
<1>1. last \in Nat /\ last <= Len(msgs) /\ last <= Len(other) /\ \A j \in 1..last : other[j] = msgs[j]
  BY DEF Agree
<1>2. ASSUME NEW i \in 1..last, OwnAt(msgs, i) PROVE OwnAt(other, i)
  <2>1. Agree(msgs, other, i - 1)
    BY <1>1 DEF Agree
  <2>2. SubSeq(other, 1, i - 1) = SubSeq(msgs, 1, i - 1)
    BY <2>1, SamePrefix
  <2>3. other[i] = msgs[i]
    BY <1>1
  <2>4. QED BY <1>2, <2>2, <2>3 DEF OwnAt
<1>3. Owned(msgs, last) => Owned(other, last)
  BY <1>1, <1>2 DEF Owned
<1>4. ASSUME WholeUpTo(msgs, last) PROVE WholeUpTo(other, last)
  <2>1. SUFFICES ASSUME NEW k \in 1..last, other[k].role = "assistant"
                 PROVE  LET n == Len(other[k].calls)
                        IN  /\ k + n <= last
                            /\ \A j \in 1..n : other[k + j] = Result(other[k].calls[j])
                            /\ k + n < last => other[k + n + 1].role # "toolResult"
    BY DEF WholeUpTo
  <2> DEFINE n == Len(msgs[k].calls)
  <2>2. other[k] = msgs[k] /\ n \in Nat
    BY <1>1, MessageTypes
  <2>3. /\ k + n <= last
        /\ \A j \in 1..n : msgs[k + j] = Result(msgs[k].calls[j])
        /\ k + n < last => msgs[k + n + 1].role # "toolResult"
    BY <1>4, <2>1, <2>2 DEF WholeUpTo
  <2> HIDE DEF n
  <2>4. \A j \in 1..n : other[k + j] = msgs[k + j]
    BY <1>1, <2>2, <2>3
  <2>5. k + n < last => other[k + n + 1] = msgs[k + n + 1]
    BY <1>1, <2>2, <2>3
  <2>6. QED BY <2>2, <2>3, <2>4, <2>5 DEF n
<1>5. QED BY <1>3, <1>4

\* The first message of a context is the user's.
LEMMA Opening ==
  ASSUME NEW n \in 0..MaxCalls
  PROVE  Genuine(<<User(n)>>)
<1> DEFINE msgs == <<User(n)>>
<1>1. User(n) \in Messages
  BY DEF User, Messages
<1>2. msgs \in Seq(Messages) /\ Len(msgs) = 1 /\ msgs[1].role = "user"
  BY <1>1 DEF User
<1> HIDE DEF msgs
<1>3. \A j \in 1..Len(msgs) : msgs[j].role # "assistant"
  BY <1>2
<1>4. Owned(msgs, Len(msgs))
  BY <1>3 DEF Owned
<1>5. Made(msgs, 0) /\ 0 \in 0..Len(msgs)
  BY <1>2, <1>3 DEF Made, LastAt
<1>6. QED BY <1>2, <1>4, <1>5, OwnedAll DEF Genuine, msgs

\* The answer to a whole conversation joins it.
LEMMA Answering ==
  ASSUME NEW msgs, Genuine(msgs), WholeBatches(msgs), NEW m \in Asks, Past(m), ask[m].sent,
         ask[m].input = msgs, NEW calls \in Batches, ask[m].answer = Answer(m, calls)
  PROVE  /\ Genuine(Append(msgs, Answer(m, calls))) /\ Len(Append(msgs, Answer(m, calls))) = Len(msgs) + 1
         /\ Made(Append(msgs, Answer(m, calls)), Len(msgs) + 1)
<1> DEFINE answer == Answer(m, calls)
           other  == Append(msgs, answer)
           n      == Len(msgs)
<1>1. msgs \in Seq(Messages) /\ n \in Nat /\ Owned(msgs, n) /\ WholeUpTo(msgs, n)
  BY OwnedAll, WholeBy DEF Genuine
<1>2. answer \in Messages /\ answer.role = "assistant" /\ answer.by = m /\ answer.calls = calls
  BY BatchesAssumption DEF Answer, Messages
<1> HIDE DEF answer
<1>3. /\ other \in Seq(Messages) /\ Len(other) = n + 1 /\ other[n + 1] = answer
      /\ \A j \in 1..n : other[j] = msgs[j]
  BY <1>1, <1>2
<1>4. SubSeq(other, 1, n) = msgs
  <2>1. SubSeq(other, 1, n) = [j \in 1..n |-> other[j]]
    BY <1>1, <1>3
  <2>2. msgs = [j \in 1..n |-> msgs[j]]
    BY <1>1
  <2>3. QED BY <1>3, <2>1, <2>2
<1> HIDE DEF other, n
<1>5. Agree(msgs, other, n)
  BY <1>1, <1>3 DEF Agree, n
<1>6. Owned(other, n) /\ WholeUpTo(other, n)
  BY <1>1, <1>3, <1>5, Carried
<1>7. OwnAt(other, n + 1)
  BY <1>1, <1>2, <1>3, <1>4 DEF OwnAt, answer
<1>8. Owned(other, Len(other))
  BY <1>1, <1>3, <1>6, <1>7 DEF Owned
<1>9. LastAt(other, n + 1)
  BY <1>1, <1>2, <1>3 DEF LastAt
<1>10. Answered(other, n + 1, {})
  <2>1. Cardinality({}) = 0
    BY FS_EmptySet
  <2>2. (n + 2)..Len(other) = {} /\ n + 1 + 1 = n + 2
    BY <1>1, <1>3
  <2>3. QED BY <1>1, <1>3, <2>1, <2>2 DEF Answered
<1>11. Made(other, n + 1)
  BY <1>1, <1>6, <1>9, <1>10 DEF Made
<1>12. n + 1 \in 0..Len(other)
  BY <1>1, <1>3
<1>13. OwnAnswers(other) /\ Spoken(other)
  BY <1>8, OwnedAll
<1>14. Genuine(other)
  BY <1>3, <1>11, <1>12, <1>13 DEF Genuine
<1>15. QED BY <1>3, <1>11, <1>14 DEF other, answer, n

\* A whole conversation that ends with an answer is one the archive takes.
LEMMA FinalWhole ==
  ASSUME NEW msgs, Genuine(msgs), IsFinal(msgs)
  PROVE  /\ WholeBatches(msgs)
         /\ Len(msgs) \in 1..Len(msgs) /\ LastAt(msgs, Len(msgs)) /\ msgs[Len(msgs)].calls = <<>>
         /\ OwnAt(msgs, Len(msgs))
<1>1. /\ msgs \in Seq(Messages) /\ msgs # <<>>
      /\ msgs[Len(msgs)].role = "assistant" /\ msgs[Len(msgs)].calls = <<>>
  BY DEF Genuine, IsFinal, Last
<1>2. Len(msgs) \in 1..Len(msgs) /\ LastAt(msgs, Len(msgs))
  BY <1>1 DEF LastAt
<1>3. PICK i \in 0..Len(msgs) : Made(msgs, i)
  BY DEF Genuine
<1>4. i = Len(msgs)
  BY <1>1, <1>2, <1>3 DEF Made, LastAt
<1>5. CompleteBatch(msgs)
  BY <1>1, <1>2, CompleteAt
<1>6. WholeBatches(msgs)
  BY <1>1, <1>3, <1>5, Completed
<1>7. OwnAt(msgs, Len(msgs))
  BY <1>1, <1>2, OwnedAll DEF Genuine, Owned
<1>8. QED BY <1>1, <1>2, <1>6, <1>7

\* The calls that have no result yet are the ones outside K.
LEMMA AwaitedCalls ==
  ASSUME NEW msgs \in Seq(Messages), NEW i \in 1..Len(msgs), LastAt(msgs, i), msgs[i].calls \in Batches,
         NEW K \in SUBSET DOMAIN msgs[i].calls, Answered(msgs, i, K)
  PROVE  Awaited(msgs) = {msgs[i].calls[k] : k \in (DOMAIN msgs[i].calls) \ K}
<1> DEFINE calls == msgs[i].calls
           n == Len(calls)
<1>1. LastAnswer(msgs) = i /\ i > 0
  BY LastAnswerIs
<1>2. Awaited(msgs) = Range(calls) \ {msgs[j].by : j \in (i + 1)..Len(msgs)}
  BY <1>1 DEF Awaited
<1>3. calls \in Seq(Tools) /\ n \in Nat /\ DOMAIN calls = 1..n /\ IsInjective(calls)
  BY MessageTypes, BatchesAssumption
<1>4. /\ K \subseteq 1..n /\ Len(msgs) = i + Cardinality(K)
      /\ \A k \in K : msgs[i + Rank(K, k)] = Result(calls[k])
      /\ \A j \in (i + 1)..Len(msgs) : \E k \in K : j = i + Rank(K, k)
  BY <1>3 DEF Answered
<1> HIDE DEF calls, n
<1>5. \A k \in K : i + Rank(K, k) \in (i + 1)..Len(msgs)
  <2>1. SUFFICES ASSUME NEW k \in K PROVE i + Rank(K, k) \in (i + 1)..Len(msgs)
    OBVIOUS
  <2>2. k \in Nat
    BY <1>3, <1>4
  <2>3. Rank(K, k) \in 0..Cardinality(K) /\ Cardinality(K) \in 0..n /\ Rank(K, k) >= 1
    BY <1>3, <1>4, <2>2, Ranks
  <2>4. QED BY <1>3, <1>4, <2>3
<1>6. {msgs[j].by : j \in (i + 1)..Len(msgs)} = {calls[k] : k \in K}
  <2>1. ASSUME NEW j \in (i + 1)..Len(msgs) PROVE msgs[j].by \in {calls[k] : k \in K}
    <3>1. PICK k \in K : j = i + Rank(K, k)
      BY <1>4
    <3>2. msgs[j] = Result(calls[k])
      BY <1>4, <3>1
    <3>3. msgs[j].by = calls[k]
      BY <3>2 DEF Result
    <3>4. QED BY <3>3
  <2>2. ASSUME NEW k \in K PROVE calls[k] \in {msgs[j].by : j \in (i + 1)..Len(msgs)}
    <3> DEFINE j == i + Rank(K, k)
    <3>1. j \in (i + 1)..Len(msgs)
      BY <1>5
    <3>2. msgs[j] = Result(calls[k])
      BY <1>4
    <3> HIDE DEF j
    <3>3. msgs[j].by = calls[k]
      BY <3>2 DEF Result
    <3>4. QED BY <3>1, <3>3
  <2>3. QED BY <2>1, <2>2
<1>7. \A k, q \in DOMAIN calls : calls[k] = calls[q] => k = q
  BY <1>3 DEF IsInjective
<1>8. Range(calls) = {calls[k] : k \in DOMAIN calls}
  BY DEF Range
<1>9. K \subseteq DOMAIN calls
  BY <1>3, <1>4
<1> DEFINE A == Range(calls) \ {calls[k] : k \in K}
           B == {calls[k] : k \in (DOMAIN calls) \ K}
<1>10. A \subseteq B
  <2>1. SUFFICES ASSUME NEW x \in A PROVE x \in B
    OBVIOUS
  <2>2. PICK k \in DOMAIN calls : x = calls[k]
    BY <1>8
  <2>3. k \notin K
    BY <2>2
  <2>4. QED BY <2>2, <2>3
<1>11. B \subseteq A
  <2>1. SUFFICES ASSUME NEW k \in (DOMAIN calls) \ K PROVE calls[k] \in A
    OBVIOUS
  <2>2. calls[k] \in Range(calls)
    BY <1>8
  <2>3. \A q \in K : calls[q] # calls[k]
    BY <1>7, <1>9
  <2>4. QED BY <2>2, <2>3
<1>12. A = B
  BY <1>10, <1>11
<1>13. Awaited(msgs) = A
  BY <1>2, <1>6
<1>14. QED BY <1>12, <1>13 DEF calls

\* x stands at p in other, and what was there and behind it has moved on.
Inserted(msgs, other, p, x) ==
  /\ Len(other) = Len(msgs) + 1
  /\ \A j \in 1..Len(other) : other[j] = IF j < p THEN msgs[j] ELSE IF j = p THEN x ELSE msgs[j - 1]

LEMMA Insertion ==
  ASSUME NEW S, NEW msgs \in Seq(S), NEW x \in S, NEW p \in 1..(Len(msgs) + 1)
  PROVE  InsertAt(msgs, p, x) \in Seq(S) /\ Inserted(msgs, InsertAt(msgs, p, x), p, x)
<1> DEFINE a == SubSeq(msgs, 1, p - 1)
           b == SubSeq(msgs, p, Len(msgs))
<1>1. a \in Seq(S) /\ Len(a) = p - 1 /\ \A j \in 1..(p - 1) : a[j] = msgs[j]
  OBVIOUS
<1>2. b \in Seq(S) /\ Len(b) = Len(msgs) + 1 - p /\ \A j \in 1..(Len(msgs) + 1 - p) : b[j] = msgs[p + j - 1]
  OBVIOUS
<1> HIDE DEF a, b
<1> DEFINE c == a \o <<x>>
<1>3. c \in Seq(S) /\ Len(c) = p /\ \A j \in 1..p : c[j] = IF j < p THEN msgs[j] ELSE x
  BY <1>1
<1> HIDE DEF c
<1>4. c \o b \in Seq(S) /\ Len(c \o b) = Len(msgs) + 1
  <2>1. b \in Seq(S) /\ c \in Seq(S)
    BY <1>2, <1>3
  <2>2. c \o b \in Seq(S) /\ Len(c \o b) = Len(c) + Len(b)
    BY ONLY <2>1
  <2>3. Len(c \o b) = p + (Len(msgs) + 1 - p)
    BY <1>2, <1>3, <2>2
  <2>4. p + (Len(msgs) + 1 - p) = Len(msgs) + 1
    OBVIOUS
  <2>5. QED BY <2>2, <2>3, <2>4
<1>5. \A j \in 1..(Len(msgs) + 1) : (c \o b)[j] = IF j < p THEN msgs[j] ELSE IF j = p THEN x ELSE msgs[j - 1]
  <2>1. SUFFICES ASSUME NEW j \in 1..(Len(msgs) + 1)
                 PROVE  (c \o b)[j] = IF j < p THEN msgs[j] ELSE IF j = p THEN x ELSE msgs[j - 1]
    OBVIOUS
  <2>2. CASE j <= p
    <3>1. (c \o b)[j] = c[j]
      BY <1>2, <1>3, <2>2
    <3>2. QED BY <1>3, <2>2, <3>1
  <2>3. CASE p < j
    <3>1. (c \o b)[j] = b[j - p] /\ j - p \in 1..(Len(msgs) + 1 - p)
      BY <1>2, <1>3, <2>3
    <3>2. b[j - p] = msgs[p + (j - p) - 1] /\ p + (j - p) - 1 = j - 1
      BY <1>2, <3>1
    <3>3. QED BY <2>3, <3>1, <3>2
  <2>4. j <= p \/ p < j
    OBVIOUS
  <2>5. QED BY <2>2, <2>3, <2>4
<1>6. InsertAt(msgs, p, x) = c \o b
  BY Zenon DEF InsertAt, a, b, c
<1>7. QED BY <1>4, <1>5, <1>6 DEF Inserted

\* The result of a call outside K stands behind those of the calls in K before it.
LEMMA ResultAt ==
  ASSUME NEW msgs \in Seq(Messages), NEW i \in 1..Len(msgs), LastAt(msgs, i), msgs[i].calls \in Batches,
         NEW K \in SUBSET DOMAIN msgs[i].calls, Answered(msgs, i, K),
         NEW q \in (DOMAIN msgs[i].calls) \ K, NEW other, other = WithResult(msgs, msgs[i].calls[q])
  PROVE  /\ other \in Seq(Messages) /\ Agree(msgs, other, i) /\ LastAt(other, i)
         /\ Answered(other, i, K \cup {q})
<1> DEFINE calls == msgs[i].calls
           n == Len(calls)
           t == calls[q]
           p == i + 1 + Rank(K, q)
           L == K \cup {q}
<1>1. LastAnswer(msgs) = i /\ i \in Nat /\ i > 0
  BY LastAnswerIs
<1>2. calls \in Seq(Tools) /\ n \in Nat /\ DOMAIN calls = 1..n /\ IsInjective(calls)
  BY MessageTypes, BatchesAssumption
<1>3. K \in SUBSET (1..n) /\ q \in (1..n) \ K /\ t \in Tools /\ q \in Nat /\ L \in SUBSET (1..n) /\ q \in DOMAIN calls
  BY <1>2
<1>4. Awaited(msgs) = {calls[k] : k \in (DOMAIN calls) \ K}
  BY AwaitedCalls
<1>5. /\ Len(msgs) = i + Cardinality(K)
      /\ \A k \in K : msgs[i + Rank(K, k)] = Result(calls[k])
      /\ \A j \in (i + 1)..Len(msgs) : \E k \in K : j = i + Rank(K, k)
  BY DEF Answered
<1>6. other = WithResult(msgs, t)
  OBVIOUS
<1> HIDE DEF calls, n, t, L
<1>7. \A k, r \in DOMAIN calls : calls[k] = calls[r] => k = r
  BY <1>2 DEF IsInjective
<1>8. \A k \in DOMAIN calls : calls[k] \notin Awaited(msgs) <=> k \in K
  BY <1>4, <1>7
<1>9. other = InsertAt(msgs, p, Result(t))
  <2> DEFINE Before == {k \in DOMAIN calls : /\ calls[k] \notin Awaited(msgs)
                                             /\ \E r \in DOMAIN calls : calls[r] = t /\ k < r}
  <2>1. other = InsertAt(msgs, i + 1 + Cardinality(Before), Result(t))
    BY <1>1, <1>6, Zenon DEF WithResult, calls
  <2>2. Before = {k \in K : k <= q}
    <3>1. ASSUME NEW k \in Before PROVE k \in K /\ k <= q
      <4>1. k \in K /\ k \in DOMAIN calls
        BY <1>8
      <4>2. PICK r \in DOMAIN calls : calls[r] = t /\ k < r
        OBVIOUS
      <4>3. r = q
        BY <1>3, <1>7, <4>2 DEF t
      <4>4. QED BY <1>2, <4>1, <4>2, <4>3
    <3>2. ASSUME NEW k \in K, k <= q PROVE k \in Before
      <4>1. k \in DOMAIN calls /\ k # q /\ k \in Nat
        BY <1>2, <1>3
      <4>2. k < q /\ calls[q] = t
        BY <1>3, <3>2, <4>1 DEF t
      <4>3. QED BY <1>3, <1>8, <4>1, <4>2
    <3> HIDE DEF Before
    <3>3. QED BY <3>1, <3>2
  <2>3. Cardinality(Before) = Rank(K, q)
    BY <2>2 DEF Rank
  <2>4. QED BY <2>1, <2>3
<1>10. Rank(K, q) \in 0..Cardinality(K) /\ Cardinality(K) \in 0..n
  BY <1>2, <1>3, Ranks
<1>11. p \in 1..(Len(msgs) + 1) /\ p \in Nat /\ i < p
  BY <1>1, <1>5, <1>10
<1>12. Result(t) \in Messages /\ Result(t).role = "toolResult"
  BY <1>3 DEF Result, Messages
<1>13. other \in Seq(Messages) /\ Inserted(msgs, other, p, Result(t))
  <2> HIDE DEF p
  <2>1. InsertAt(msgs, p, Result(t)) \in Seq(Messages) /\ Inserted(msgs, InsertAt(msgs, p, Result(t)), p, Result(t))
    BY <1>11, <1>12, Insertion
  <2>2. QED BY <1>9, <2>1
<1>14. /\ Len(other) = Len(msgs) + 1
       /\ \A j \in 1..Len(other) : other[j] = IF j < p THEN msgs[j] ELSE IF j = p THEN Result(t) ELSE msgs[j - 1]
  BY <1>13 DEF Inserted
<1>15. Agree(msgs, other, i)
  BY <1>1, <1>11, <1>14 DEF Agree
<1>16. \A k \in K : k \in Nat /\ Rank(K, k) \in 1..Cardinality(K)
  <2>1. SUFFICES ASSUME NEW k \in K PROVE k \in Nat /\ Rank(K, k) \in 1..Cardinality(K)
    OBVIOUS
  <2>2. k \in Nat
    BY <1>3
  <2>3. Rank(K, k) \in 0..Cardinality(K) /\ Rank(K, k) >= 1
    BY <1>2, <1>3, <2>2, Ranks
  <2>4. QED BY <1>10, <2>2, <2>3
<1>17. \A k \in K : /\ k < q => Rank(K, k) <= Rank(K, q) /\ Rank(L, k) = Rank(K, k)
                    /\ q < k => Rank(K, q) < Rank(K, k) /\ Rank(L, k) = Rank(K, k) + 1
                    /\ (k < q \/ q < k)
  <2>1. SUFFICES ASSUME NEW k \in K
                 PROVE  /\ k < q => Rank(K, k) <= Rank(K, q) /\ Rank(L, k) = Rank(K, k)
                        /\ q < k => Rank(K, q) < Rank(K, k) /\ Rank(L, k) = Rank(K, k) + 1
                        /\ (k < q \/ q < k)
    OBVIOUS
  <2>2. k < q \/ q < k
    BY <1>3, <1>16
  <2>3. n \in Nat /\ K \in SUBSET (1..n) /\ q \in (1..n) \ K /\ k \in K
    BY <1>2, <1>3
  <2>4. IsBetween(K, q, k)
    BY <2>3, RankOrder, Zenon
  <2>5. QED BY <2>2, <2>4 DEF L, IsBetween
<1>18. Rank(L, q) = Rank(K, q) + 1 /\ Cardinality(L) = Cardinality(K) + 1
  <2>1. q <= q
    BY <1>3
  <2>2. QED BY <1>2, <1>3, <2>1, RankAdded DEF L
<1>19. \A k \in L : other[i + Rank(L, k)] = Result(calls[k])
  <2>1. SUFFICES ASSUME NEW k \in L PROVE other[i + Rank(L, k)] = Result(calls[k])
    OBVIOUS
  <2>2. CASE k = q
    <3>1. i + Rank(L, q) = p /\ p \in 1..Len(other)
      BY <1>1, <1>10, <1>11, <1>14, <1>18
    <3>2. QED BY <1>14, <2>2, <3>1 DEF t
  <2>3. CASE k \in K /\ k < q
    <3> DEFINE j == i + Rank(K, k)
    <3>1. j \in 1..Len(other) /\ j < p /\ Rank(L, k) = Rank(K, k)
      BY <1>1, <1>5, <1>10, <1>14, <1>16, <1>17, <2>3
    <3>2. msgs[j] = Result(calls[k])
      BY <1>5, <2>3
    <3> HIDE DEF j
    <3>3. other[j] = msgs[j]
      BY <1>14, <3>1
    <3>4. QED BY <3>1, <3>2, <3>3 DEF j
  <2>4. CASE k \in K /\ q < k
    <3> DEFINE j == i + Rank(K, k)
    <3>1. j \in 1..Len(msgs) /\ p <= j /\ Rank(L, k) = Rank(K, k) + 1
      BY <1>1, <1>5, <1>10, <1>14, <1>16, <1>17, <2>4
    <3>2. msgs[j] = Result(calls[k])
      BY <1>5, <2>4
    <3>5. i + Rank(L, k) = j + 1
      BY <1>1, <1>16, <2>4, <3>1
    <3> HIDE DEF j
    <3>6. j + 1 \in 1..Len(other) /\ ~(j + 1 < p) /\ j + 1 # p /\ (j + 1) - 1 = j
      BY <1>11, <1>14, <3>1
    <3>3. other[j + 1] = msgs[j]
      BY <1>14, <3>6
    <3>4. QED BY <3>2, <3>3, <3>5
  <2>5. k = q \/ k \in K
    BY DEF L
  <2>6. QED BY <1>17, <2>2, <2>3, <2>4, <2>5
<1>20. \A j \in (i + 1)..Len(other) : \E k \in L : j = i + Rank(L, k)
  <2>1. SUFFICES ASSUME NEW j \in (i + 1)..Len(other) PROVE \E k \in L : j = i + Rank(L, k)
    OBVIOUS
  <2>2. CASE j = p
    <3>1. q \in L /\ j = i + Rank(L, q)
      BY <1>1, <1>10, <1>18, <2>2 DEF L
    <3>2. QED BY <3>1
  <2>3. CASE j < p
    <3>1. j \in (i + 1)..Len(msgs)
      BY <1>11, <1>14, <2>3
    <3>2. PICK k \in K : j = i + Rank(K, k)
      BY <1>5, <3>1
    <3>3. ~(q < k)
      BY <1>1, <1>10, <1>16, <1>17, <2>3, <3>2
    <3>4. k \in L /\ j = i + Rank(L, k)
      BY <1>17, <3>2, <3>3 DEF L
    <3>5. QED BY <3>4
  <2>4. CASE p < j
    <3>1. j - 1 \in (i + 1)..Len(msgs)
      BY <1>1, <1>10, <1>14, <2>4
    <3>2. PICK k \in K : j - 1 = i + Rank(K, k)
      BY <1>5, <3>1
    <3>3. ~(k < q)
      BY <1>1, <1>10, <1>16, <1>17, <2>4, <3>2
    <3>4. Rank(L, k) = Rank(K, k) + 1 /\ k \in L
      BY <1>17, <3>2, <3>3 DEF L
    <3>5. j = i + Rank(L, k)
      BY <1>1, <1>16, <3>2, <3>4
    <3>6. QED BY <3>4, <3>5
  <2>5. j \in Nat
    BY <1>1
  <2>6. QED BY <1>11, <2>2, <2>3, <2>4, <2>5
<1>21. LastAt(other, i)
  <2>1. other[i] = msgs[i] /\ i \in 0..Len(other)
    BY <1>1, <1>11, <1>14
  <2>2. ASSUME NEW j \in (i + 1)..Len(other) PROVE other[j].role # "assistant"
    <3>1. PICK k \in L : j = i + Rank(L, k)
      BY <1>20
    <3>2. other[j] = Result(calls[k])
      BY <1>19, <3>1
    <3>3. QED BY <3>2 DEF Result
  <2>3. QED BY <1>1, <2>1, <2>2 DEF LastAt
<1>22. Len(other) = i + Cardinality(L)
  BY <1>1, <1>5, <1>10, <1>14, <1>18
<1>23. other[i].calls = calls
  BY <1>1, <1>11, <1>14 DEF calls
<1>24. Answered(other, i, L)
  BY <1>2, <1>3, <1>19, <1>20, <1>22, <1>23 DEF Answered
<1>25. QED BY <1>13, <1>15, <1>21, <1>24 DEF L

\* The result of an awaited call joins the conversation, and does not end it with an answer.
LEMMA Resulting ==
  ASSUME NEW msgs, Genuine(msgs), NEW t \in Awaited(msgs)
  PROVE  Genuine(WithResult(msgs, t)) /\ Last(WithResult(msgs, t)).role # "assistant"
<1>1. msgs \in Seq(Messages) /\ Owned(msgs, Len(msgs)) /\ Len(msgs) \in Nat
  BY OwnedAll DEF Genuine
<1>2. PICK i \in 0..Len(msgs) : Made(msgs, i)
  BY DEF Genuine
<1>3. LastAt(msgs, i)
  BY <1>2 DEF Made
<1>4. i > 0 /\ i \in 1..Len(msgs)
  <2>1. LastAnswer(msgs) = i
    BY <1>1, <1>3, LastAnswerIs
  <2>2. i # 0
    BY <2>1 DEF Awaited
  <2>3. QED BY <2>2
<1>5. msgs[i].role = "assistant" /\ OwnAt(msgs, i)
  BY <1>1, <1>3, <1>4 DEF LastAt, Owned
<1>6. PICK K \in SUBSET DOMAIN msgs[i].calls : Answered(msgs, i, K)
  BY <1>2, <1>4 DEF Made
<1>7. msgs[i].calls \in Batches
  BY <1>5 DEF OwnAt
<1>8. PICK q \in (DOMAIN msgs[i].calls) \ K : t = msgs[i].calls[q]
  BY <1>1, <1>3, <1>4, <1>6, <1>7, AwaitedCalls
<1>9. PICK other : other = WithResult(msgs, t)
  OBVIOUS
<1>10. /\ other \in Seq(Messages) /\ Agree(msgs, other, i) /\ LastAt(other, i)
       /\ Answered(other, i, K \cup {q})
  BY <1>1, <1>3, <1>4, <1>6, <1>7, <1>8, <1>9, ResultAt
<1>11. Owned(other, i) /\ WholeUpTo(other, i - 1) /\ other[i] = msgs[i]
  <2>1. Owned(msgs, i) /\ WholeUpTo(msgs, i - 1)
    BY <1>1, <1>2, <1>4 DEF Owned, Made
  <2>2. Agree(msgs, other, i - 1) /\ other[i] = msgs[i]
    BY <1>4, <1>10 DEF Agree
  <2>3. QED BY <1>1, <1>10, <2>1, <2>2, Carried
<1>12. Owned(other, Len(other)) /\ i \in 0..Len(other) /\ Len(other) \in Nat
  BY <1>4, <1>10, <1>11 DEF Owned, LastAt
<1>13. K \cup {q} \in SUBSET DOMAIN other[i].calls
  BY <1>11
<1>14. Made(other, i)
  BY <1>4, <1>10, <1>11, <1>13 DEF Made
<1>15. Genuine(other)
  BY <1>10, <1>12, <1>14, OwnedAll DEF Genuine
<1>16. Last(other).role # "assistant"
  <2>1. DOMAIN msgs[i].calls = 1..Len(msgs[i].calls) /\ Len(msgs[i].calls) \in Nat
    BY <1>1, <1>4, MessageTypes
  <2>2. Cardinality(K \cup {q}) = Cardinality(K) + 1 /\ Cardinality(K) \in Nat
    <3> DEFINE n == Len(msgs[i].calls)
    <3>1. n \in Nat /\ K \in SUBSET (1..n) /\ q \in (1..n) \ K /\ 0 \in Nat
      BY <2>1
    <3> HIDE DEF n
    <3>2. Cardinality(K) \in 0..n
      BY <3>1, Ranks
    <3>3. Cardinality(K \cup {q}) = Cardinality(K) + 1
      BY <3>1, RankAdded
    <3>4. QED BY <3>1, <3>2, <3>3
  <2>3. Len(other) = i + Cardinality(K \cup {q})
    BY <1>10 DEF Answered
  <2>4. Len(other) \in (i + 1)..Len(other)
    BY <1>4, <2>2, <2>3
  <2>5. QED BY <1>10, <2>4 DEF LastAt, Last
<1>17. QED BY <1>9, <1>15, <1>16

-----------------------------------------------------------------------------
(* What a step leaves of what was said *)

\* What was sent, and what it was answered, is for good.
AsksGrow ==
  \A m \in Asks :
    /\ ask[m].sent => ask'[m].sent /\ ask'[m].input = ask[m].input
    /\ Past(m) => ask'[m].at \in Over /\ ask'[m].answer = ask[m].answer

AsksStep ==
  AsksGrow /\ ask' \in [Asks -> AskValues] /\ \A m \in Asks : AskOK(m, ask'[m])

LEMMA Stable ==
  ASSUME AsksGrow, NEW msgs, Genuine(msgs)
  PROVE  Genuine(msgs)'
<1>1. \A i \in 1..Len(msgs) : OwnAt(msgs, i) => OwnAt(msgs, i)'
  BY DEF AsksGrow, OwnAt, Past, Over
<1>2. Owned(msgs, Len(msgs))
  BY OwnedAll DEF Genuine
<1>3. Owned(msgs, Len(msgs))'
  BY <1>1, <1>2 DEF Owned
<1>4. (OwnAnswers(msgs) /\ Spoken(msgs))'
  BY <1>3 DEF OwnAnswers, Spoken, Owned, OwnAt
<1>5. QED BY <1>4 DEF Genuine

LEMMA StableContext ==
  ASSUME AsksGrow, NEW c, GoodContext(c)
  PROVE  GoodContext(c)'
BY Stable DEF GoodContext

LEMMA StableEngine ==
  ASSUME AsksGrow, NEW e, EngineOK(e)
  PROVE  EngineOK(e)'
BY StableContext DEF EngineOK

LEMMA StableOperation ==
  ASSUME AsksGrow, NEW o, OpOK(o)
  PROVE  OpOK(o)'
BY StableContext DEF OpOK

LEMMA StableAsk ==
  ASSUME AsksGrow, NEW m, NEW a, AskOK(m, a)
  PROVE  AskOK(m, a)'
BY Stable, StableContext DEF AskOK

LEMMA StableTurn ==
  ASSUME AsksGrow, NEW t, TurnOK(t)
  PROVE  TurnOK(t)'
BY Stable DEF TurnOK

\* A step that keeps the parts keeps the whole.
LEMMA Preserved ==
  ASSUME AsksStep, EngineOK(engine'), OpOK(op'), TurnOK(turn'), Linked', Counted', HostOK'
  PROVE  ConvInv'
<1>0. AsksGrow
  BY DEF AsksStep
<1>1. EngineOK(engine)'
  <2>1. PICK e : e = engine'
    OBVIOUS
  <2>2. EngineOK(e)'
    BY <1>0, <2>1, StableEngine
  <2>3. QED BY <2>1, <2>2
<1>2. OpOK(op)'
  <2>1. PICK o : o = op'
    OBVIOUS
  <2>2. OpOK(o)'
    BY <1>0, <2>1, StableOperation
  <2>3. QED BY <2>1, <2>2
<1>3. TurnOK(turn)'
  <2>1. PICK t : t = turn'
    OBVIOUS
  <2>2. TurnOK(t)'
    BY <1>0, <2>1, StableTurn
  <2>3. QED BY <2>1, <2>2
<1>4. AsksOK'
  <2>1. ASSUME NEW m \in Asks PROVE AskOK(m, ask[m])'
    <3>1. PICK a : a = ask'[m]
      OBVIOUS
    <3>2. AskOK(m, a)
      BY <3>1 DEF AsksStep
    <3>3. AskOK(m, a)'
      BY <1>0, <3>2, StableAsk
    <3>4. QED BY <3>1, <3>3
  <2>2. QED BY <2>1 DEF AsksStep, AsksOK
<1>5. QED BY <1>1, <1>2, <1>3, <1>4 DEF ConvInv

LEMMA AsksSame ==
  ASSUME AsksOK, ask' = ask
  PROVE  AsksStep
BY DEF AsksOK, AsksStep, AsksGrow, Past, Over

\* One model call goes on.
LEMMA AskChanged ==
  ASSUME AsksOK, NEW m \in Asks, NEW b, AskOK(m, b), ask' = [ask EXCEPT ![m] = b],
         ask[m].sent => b.sent /\ b.input = ask[m].input,
         Past(m) => b.at \in Over /\ b.answer = ask[m].answer
  PROVE  AsksStep
<1>1. ask' \in [Asks -> AskValues] /\ ask'[m] = b /\ \A n \in Asks \ {m} : ask'[n] = ask[n]
  BY DEF AsksOK, AskOK
<1>2. \A n \in Asks : AskOK(n, ask'[n])
  BY <1>1 DEF AsksOK
<1>3. AsksGrow
  BY <1>1 DEF AsksGrow, Past, Over
<1>4. QED BY <1>1, <1>2, <1>3 DEF AsksStep

\* A call that is over for its caller, whatever it was.
LEMMA AskEnds ==
  ASSUME AsksOK, NEW m \in Asks, NEW at \in {"done", "refused"}, at = "done" => ask[m].at = "observing",
         ask' = [ask EXCEPT ![m].at = at]
  PROVE  AsksStep
<1> DEFINE b == [ask[m] EXCEPT !.at = at]
<1>1. AskOK(m, ask[m]) /\ ask[m] \in AskValues
  BY DEF AsksOK
<1>2. /\ b \in AskValues /\ b.at = at /\ b.input = ask[m].input /\ b.had = ask[m].had
      /\ b.answer = ask[m].answer /\ b.sent = ask[m].sent
  BY <1>1 DEF AskValues
<1>3. ask' = [ask EXCEPT ![m] = b]
  OBVIOUS
<1> HIDE DEF b
<1>4. AskOK(m, b)
  BY <1>1, <1>2 DEF AskOK, Unsent, WithAnswer
<1>5. QED BY <1>2, <1>3, <1>4, AskChanged DEF Over, Past

-----------------------------------------------------------------------------
(* What the actions do to a conversation *)

LEMMA LatchedOK ==
  ASSUME EngineOK(engine)
  PROVE  /\ EngineOK(Latched) /\ Latched.history = engine.history /\ Latched.failed
         /\ Latched.released = engine.released /\ Latched.closed = engine.closed /\ Latched.sealed = None
BY DEF EngineOK, EngineValues, Latched, GoodContext

LEMMA Joined ==
  ASSUME heard \in Seq(Messages), NEW settled
  PROVE  Gathered(settled) \in Seq(Messages)
<1>1. CASE heard # <<>> /\ Last(heard).role = "assistant"
  <2> DEFINE calls == Last(heard).calls
  <2>1. Last(heard) \in Messages
    BY <1>1 DEF Last
  <2>2. calls \in Seq(Tools)
    BY <2>1 DEF Messages
  <2> HIDE DEF calls
  <2>3. \A k \in 1..Len(calls) : Result(calls[k]) \in Messages
    BY <2>2 DEF Result, Messages
  <2>4. Results(calls) \in Seq(Messages)
    BY <2>2, <2>3 DEF Results
  <2>5. heard \o Results(calls) \in Seq(Messages)
    BY <2>4
  <2>6. QED BY <2>5 DEF Gathered, calls
<1>2. CASE ~(heard # <<>> /\ Last(heard).role = "assistant")
  BY <1>2 DEF Gathered
<1>3. QED BY <1>1, <1>2

LEMMA SettledAsks ==
  ASSUME ConvInv, op # None, NEW ok \in BOOLEAN, Settle(ok)
  PROVE  AsksStep /\ \A m \in Asks : ask'[m].input = ask[m].input /\ (ask[m].at = "done" => ask'[m].at = "done")
<1>1. CASE op.kind = "output"
  <2>1. PICK at \in {"done", "refused"} : ask' = [ask EXCEPT ![op.who].at = at]
    BY <1>1 DEF Settle
  <2>2. op.who \in Asks /\ ask[op.who].at = "observing" /\ AsksOK
    BY <1>1 DEF ConvInv, OpOK, Linked
  <2>3. AsksStep
    BY <2>1, <2>2, AskEnds
  <2>4. \A m \in Asks : ask'[m].input = ask[m].input /\ (ask[m].at = "done" => ask'[m].at = "done")
    BY <2>1, <2>2 DEF AsksOK, AskValues
  <2>5. QED BY <2>3, <2>4
<1>2. CASE op.kind # "output"
  <2>1. ask' = ask
    BY <1>2 DEF Settle
  <2>2. QED BY <2>1, AsksSame DEF ConvInv
<1>3. QED BY <1>1, <1>2

\* The operation that ends leaves its caller with a result or a refusal.
LEMMA SettledOK ==
  ASSUME ConvInv, op # None, NEW ok \in BOOLEAN, ok => op.at = "return" /\ ~engine.failed, Settle(ok),
         engine' = engine \/ engine' = Latched, env' \in EnvValues, env'.calls = env.calls
  PROVE  ConvInv'
<1>1. EngineOK(engine') /\ engine'.history = engine.history
  BY LatchedOK DEF ConvInv
<1>2. op' = None
  BY DEF Settle
<1>3. AsksStep
  BY SettledAsks
<1>4. TurnOK(turn')
  <2>1. PICK p, r : /\ turn' = [turn EXCEPT !.permit = p, !.rejected = r]
                    /\ p \in {turn.permit, "publish", "ended"} /\ r \in BOOLEAN
    <3>1. turn \in TurnValues
      BY DEF ConvInv, TurnOK
    <3>2. CASE op.kind = "output"
      <4>1. PICK r \in BOOLEAN : turn' = [turn EXCEPT !.rejected = r]
        BY <3>2, <3>1 DEF Settle, TurnValues
      <4>2. turn' = [turn EXCEPT !.permit = turn.permit, !.rejected = r]
        BY <3>1, <4>1 DEF TurnValues
      <4>3. QED BY <4>1, <4>2
    <3>3. CASE op.kind = "persist"
      <4>1. PICK p \in {"publish", "ended"} : turn' = [turn EXCEPT !.permit = p]
        BY <3>3 DEF Settle
      <4>2. turn' = [turn EXCEPT !.permit = p, !.rejected = turn.rejected] /\ turn.rejected \in BOOLEAN
        BY <3>1, <4>1 DEF TurnValues
      <4>3. QED BY <4>1, <4>2
    <3>4. CASE op.kind # "output" /\ op.kind # "persist"
      <4>1. turn' = turn
        BY <3>4 DEF Settle
      <4>2. turn' = [turn EXCEPT !.permit = turn.permit, !.rejected = turn.rejected] /\ turn.rejected \in BOOLEAN
        BY <3>1, <4>1 DEF TurnValues
      <4>3. QED BY <4>2
    <3>5. QED BY <3>2, <3>3, <3>4
  <2>2. turn' \in TurnValues /\ turn'.archived = turn.archived
    BY <2>1 DEF ConvInv, TurnOK, TurnValues
  <2>3. QED BY <2>2 DEF ConvInv, TurnOK
<1>5. OpOK(op') /\ Linked'
  BY <1>2 DEF OpOK, Linked
<1>6. Counted'
  <2>1. engine.history \in Nat /\ env.calls \in Nat /\ Compacting(op) \in {0, 1}
    BY DEF ConvInv, EngineOK, EngineValues, HostOK, EnvValues, Compacting
  <2>2. Compacting(op)' = 0
    BY <1>2 DEF Compacting
  <2>3. QED BY <1>1, <2>1, <2>2 DEF ConvInv, Counted
<1>7. HostOK'
  <2>1. tool' \in [Tools -> {"idle", "queued", "running", "done", "failed"}]
    BY DEF Settle, ConvInv, HostOK
  <2>2. heard' \in Seq(Messages)
    <3>1. CASE op.kind = "open" /\ ok
      <4>1. heard' = engine.sealed.msgs /\ engine.sealed # None
        BY <3>1 DEF Settle, ConvInv, Linked
      <4>2. QED BY <4>1 DEF ConvInv, EngineOK, GoodContext, Genuine
    <3>2. CASE op.kind = "output"
      <4>1. heard' = Append(ask[op.who].input, ask[op.who].answer) \/ heard' = heard
        BY <3>2 DEF Settle
      <4>2. ask[op.who].input \in Seq(Messages) /\ ask[op.who].answer \in Messages
        <5>1. op.who \in Asks /\ ask[op.who].at = "observing"
          BY <3>2 DEF ConvInv, OpOK, Linked
        <5>2. AskOK(op.who, ask[op.who])
          BY <5>1 DEF ConvInv, AsksOK
        <5>3. PICK calls \in Batches : ask[op.who].answer = Answer(op.who, calls)
          BY <5>1, <5>2 DEF AskOK, Unsent, WithAnswer
        <5>4. ask[op.who].answer \in Messages
          BY <5>1, <5>3, BatchesAssumption DEF Answer, Messages
        <5>5. QED BY <5>2, <5>4 DEF AskOK, AskValues
      <4>3. PICK a, b : a = ask[op.who].input /\ b = ask[op.who].answer
        OBVIOUS
      <4>4. Append(a, b) \in Seq(Messages)
        BY <4>2, <4>3
      <4>5. QED BY <4>1, <4>3, <4>4 DEF ConvInv, HostOK
    <3>3. CASE op.kind = "result"
      <4>1. PICK settled : settled = tool' /\ heard' = Gathered(settled)
        BY <3>3 DEF Settle
      <4>2. QED BY <4>1, Joined DEF ConvInv, HostOK
    <3>4. CASE ~(op.kind = "open" /\ ok) /\ op.kind # "output" /\ op.kind # "result"
      BY <3>4 DEF Settle, ConvInv, HostOK
    <3>5. QED BY <3>1, <3>2, <3>3, <3>4
  <2>3. queue' = queue
    BY DEF Settle
  <2>4. QED BY <2>1, <2>2, <2>3 DEF ConvInv, HostOK
<1>8. QED BY <1>1, <1>3, <1>4, <1>5, <1>6, <1>7, Preserved

\* A call is let in, or it is not.
LEMMA EnteredOK ==
  ASSUME ConvInv, NEW o, NEW e, NEW ok \in BOOLEAN, Enter(o, e, ok),
         Enters(ok) => OpOK(o) /\ EngineOK(e) /\ e.history = engine.history
  PROVE  /\ EngineOK(engine') /\ OpOK(op') /\ engine'.history = engine.history
         /\ \/ Enters(ok) /\ op = None /\ op' = o /\ engine' = e
            \/ ~Enters(ok) /\ op' = op /\ (engine' = engine \/ (engine' = Latched /\ ~engine.released))
<1>1. CASE Enters(ok)
  BY <1>1 DEF Enter, Enters
<1>2. CASE ~Enters(ok)
  <2>1. op' = op /\ (engine' = engine \/ (engine' = Latched /\ ~engine.released))
    BY <1>2 DEF Enter
  <2>2. QED BY <1>2, <2>1, LatchedOK DEF ConvInv
<1>3. QED BY <1>1, <1>2

IsNew(o, kind, at, who, input) ==
  /\ o \in OpValues /\ o.kind = kind /\ o.at = at /\ o.who = who /\ o.input = input
  /\ o.had = engine.sealed /\ GoodContext(o.had)

LEMMA NewOperation ==
  ASSUME ConvInv, NEW kind \in Kinds, NEW at \in Places, NEW who \in Asks \union Tools \union {None},
         NEW input \in Seq(Messages)
  PROVE  /\ IsNew(NewOp(kind, at), kind, at, None, <<>>)
         /\ IsNew([NewOp(kind, at) EXCEPT !.who = who], kind, at, who, <<>>)
         /\ IsNew([NewOp(kind, at) EXCEPT !.input = input], kind, at, None, input)
<1>1. engine.sealed \in Contexts \union {None} /\ GoodContext(engine.sealed)
  BY DEF ConvInv, EngineOK, EngineValues
<1>2. NewOp(kind, at) = [kind |-> kind, at |-> at, who |-> None, input |-> <<>>, had |-> engine.sealed]
  BY DEF NewOp
<1>3. <<>> \in Seq(Messages)
  OBVIOUS
<1>4. IsNew(NewOp(kind, at), kind, at, None, <<>>)
  BY <1>1, <1>2, <1>3 DEF OpValues, IsNew
<1>5. [NewOp(kind, at) EXCEPT !.who = who] =
        [kind |-> kind, at |-> at, who |-> who, input |-> <<>>, had |-> engine.sealed]
  BY <1>2
<1>6. [NewOp(kind, at) EXCEPT !.input = input] =
        [kind |-> kind, at |-> at, who |-> None, input |-> input, had |-> engine.sealed]
  BY <1>2
<1>7. IsNew([NewOp(kind, at) EXCEPT !.who = who], kind, at, who, <<>>)
  BY <1>1, <1>3, <1>5 DEF OpValues, IsNew
<1>8. IsNew([NewOp(kind, at) EXCEPT !.input = input], kind, at, None, input)
  BY <1>1, <1>6 DEF OpValues, IsNew
<1>9. QED BY <1>4, <1>7, <1>8

LEMMA PlainOperation ==
  ASSUME ConvInv, NEW kind \in Kinds, NEW at \in Places
  PROVE  IsNew(NewOp(kind, at), kind, at, None, <<>>)
<1>1. None \in Asks \union Tools \union {None} /\ <<>> \in Seq(Messages)
  OBVIOUS
<1>2. QED BY <1>1, NewOperation

LEMMA CallsCounted ==
  ASSUME ConvInv, NEW b, Called(b)
  PROVE  env' \in EnvValues /\ env'.calls = env.calls + 1
<1>1. env \in EnvValues
  BY DEF ConvInv, HostOK
<1>2. PICK x \in BOOLEAN : env' = [env EXCEPT !.calls = @ + 1, !.orderly = x]
  <2>1. env' = [env EXCEPT !.calls = @ + 1, !.orderly = env.orderly /\ b /\ ~Busy]
    BY DEF Called
  <2>2. (env.orderly /\ b /\ ~Busy) \in BOOLEAN
    OBVIOUS
  <2>3. QED BY <2>1, <2>2
<1>3. env.calls + 1 \in 0..MaxCalls
  BY <1>1, BoundsAssumption DEF EnvValues, Called
<1>4. QED BY <1>1, <1>2, <1>3 DEF EnvValues

\* One more call of the Host, let in or refused.
LEMMA HostCalls ==
  ASSUME ConvInv, NEW o, NEW e, NEW ok \in BOOLEAN, Enter(o, e, ok), NEW b, Called(b),
         Enters(ok) => OpOK(o) /\ EngineOK(e) /\ e.history = engine.history,
         o.kind \in {"ingest", "open", "loop", "compact"}, o.at # "return"
  PROVE  ConvInv'
<1>1. /\ EngineOK(engine') /\ OpOK(op') /\ engine'.history = engine.history
      /\ \/ Enters(ok) /\ op = None /\ op' = o /\ engine' = e
         \/ ~Enters(ok) /\ op' = op /\ (engine' = engine \/ (engine' = Latched /\ ~engine.released))
  BY EnteredOK
<1>2. UNCHANGED <<queue, tool, ask, heard, turn>>
  BY DEF Called
<1>3. AsksStep
  BY <1>2, AsksSame DEF ConvInv
<1>4. Linked'
  <2>1. CASE op' = o
    BY <2>1 DEF Linked
  <2>2. CASE op' = op /\ engine' = engine
    BY <1>2, <2>2 DEF Linked, ConvInv
  <2>3. CASE op' = op /\ engine' = Latched
    <3>1. engine'.failed
      BY <2>3, LatchedOK DEF ConvInv
    <3>2. QED BY <1>2, <2>3, <3>1 DEF Linked, ConvInv
  <2>4. QED BY <1>1, <2>1, <2>2, <2>3
<1>5. env' \in EnvValues /\ env'.calls = env.calls + 1
  BY CallsCounted
<1>6. Counted'
  <2>1. engine.history \in Nat /\ env.calls \in Nat /\ Compacting(op) \in {0, 1} /\ Compacting(op)' \in {0, 1}
    BY DEF ConvInv, EngineOK, EngineValues, HostOK, EnvValues, Compacting
  <2>2. engine.history <= env.calls
    BY <2>1 DEF ConvInv, Counted
  <2>3. QED BY <1>1, <1>5, <2>1, <2>2 DEF Counted
<1>7. HostOK'
  BY <1>2, <1>5 DEF ConvInv, HostOK
<1>8. TurnOK(turn')
  BY <1>2 DEF ConvInv
<1>9. QED BY <1>1, <1>3, <1>4, <1>6, <1>7, <1>8, Preserved

\* The running operation takes one step.
LEMMA WentOn ==
  ASSUME ConvInv, op # None, op.at # "return", NEW at \in Places, Goto(at), op.kind = "result" => at # "extend",
         UNCHANGED <<queue, tool, ask, heard, env>>, EngineOK(engine'), TurnOK(turn'),
         engine'.history = engine.history \/ (engine'.history = engine.history + 1 /\ Compacting(op) = 1 /\ at = "return"),
         op.kind = "open" /\ at = "return" /\ ~engine'.failed => engine'.sealed # None
  PROVE  ConvInv'
<1>1. OpOK(op) /\ op \in OpValues
  BY DEF ConvInv, OpOK
<1>2. /\ op' = [op EXCEPT !.at = at] /\ op' \in OpValues /\ op'.at = at /\ op'.kind = op.kind /\ op'.who = op.who
      /\ op'.input = op.input /\ op'.had = op.had
  BY <1>1 DEF Goto, OpValues
<1>3. OpOK(op')
  BY <1>1, <1>2 DEF OpOK
<1>4. Linked'
  BY <1>2 DEF ConvInv, Linked
<1>5. Counted'
  <2>1. engine.history \in Nat /\ env.calls \in Nat /\ Compacting(op) \in {0, 1} /\ Compacting(op)' \in {0, 1}
    BY DEF ConvInv, EngineOK, EngineValues, HostOK, EnvValues, Compacting
  <2>2. engine.history + Compacting(op) <= env.calls /\ env'.calls = env.calls
    BY DEF ConvInv, Counted
  <2>3. at = "return" => Compacting(op)' = 0
    BY <1>2 DEF Compacting
  <2>4. Compacting(op)' = 1 => Compacting(op) = 1
    BY <1>2 DEF Compacting
  <2>5. QED BY <2>1, <2>2, <2>3, <2>4 DEF Counted
<1>6. HostOK'
  BY DEF ConvInv, HostOK
<1>7. AsksStep
  BY AsksSame DEF ConvInv
<1>8. QED BY <1>3, <1>4, <1>5, <1>6, <1>7, Preserved

LEMMA EnvFields ==
  ASSUME ConvInv
  PROVE  env \in EnvValues /\ env.calls \in 0..MaxCalls /\ env.calls \in Nat
BY BoundsAssumption DEF ConvInv, HostOK, EnvValues

\* The running operation is thrown, and nothing else happens.
LEMMA ThrownOK ==
  ASSUME ConvInv, op # None, Throw, env' = env
  PROVE  ConvInv'
<1>1. engine' = Latched /\ Settle(FALSE)
  BY DEF Throw
<1>2. env' \in EnvValues /\ env'.calls = env.calls
  BY EnvFields
<1>3. QED BY <1>1, <1>2, SettledOK

LEMMA FaultOK ==
  ASSUME ConvInv, NEW moved \in BOOLEAN, Fault(moved)
  PROVE  env' \in EnvValues /\ env'.calls = env.calls
<1>1. env \in EnvValues
  BY EnvFields
<1>2. PICK x \in BOOLEAN : env' = [env EXCEPT !.faults = @ + 1, !.orderly = FALSE, !.moved = x]
  <2>1. env' = [env EXCEPT !.faults = @ + 1, !.orderly = FALSE, !.moved = env.moved \/ moved]
    BY DEF Fault
  <2>2. (env.moved \/ moved) \in BOOLEAN
    OBVIOUS
  <2>3. QED BY <2>1, <2>2
<1>3. env.faults + 1 \in 0..MaxFaults
  BY <1>1, BoundsAssumption DEF EnvValues, Fault
<1>4. QED BY <1>1, <1>2, <1>3 DEF EnvValues

LEMMA HeardPart ==
  ASSUME ConvInv, NEW k \in 0..Len(heard)
  PROVE  SubSeq(heard, 1, k) \in Seq(Messages)
BY DEF ConvInv, HostOK

LEMMA ConvHostSteps ==
  ASSUME ConvInv,
         \/ Ingest \/ Assemble \/ Archived \/ Seal \/ Project
         \/ \E k \in 0..Len(heard) : Reassemble(SubSeq(heard, 1, k))
         \/ Compact \/ Summarize \/ SaveSummary \/ Return \/ PortFails
  PROVE  ConvInv'
<1>1. CASE Ingest
  <2>1. PICK o : o = NewOp("ingest", "archive")
    OBVIOUS
  <2>2. IsNew(o, "ingest", "archive", None, <<>>)
    BY <2>1, PlainOperation DEF Kinds, Places
  <2>3. OpOK(o) /\ o.kind = "ingest" /\ o.at = "archive"
    BY <2>2 DEF IsNew, OpOK
  <2>4. Enter(o, engine, TRUE) /\ Called(TRUE) /\ EngineOK(engine)
    BY <1>1, <2>1 DEF Ingest, ConvInv
  <2>5. QED BY <2>3, <2>4, HostCalls
<1>2. CASE Assemble
  <2>1. PICK o : o = NewOp("open", "archive")
    OBVIOUS
  <2>2. IsNew(o, "open", "archive", None, <<>>)
    BY <2>1, PlainOperation DEF Kinds, Places
  <2>3. OpOK(o) /\ o.kind = "open" /\ o.at = "archive"
    BY <2>2 DEF IsNew, OpOK
  <2>4. PICK e : e = [engine EXCEPT !.sealed = None]
    OBVIOUS
  <2>5. EngineOK(e) /\ e.history = engine.history
    BY <2>4 DEF ConvInv, EngineOK, EngineValues, GoodContext
  <2>6. Enter(o, e, TRUE) /\ Called(TRUE)
    BY <1>2, <2>1, <2>4 DEF Assemble
  <2>7. QED BY <2>3, <2>5, <2>6, HostCalls
<1>3. CASE Archived
  <2>1. op # None /\ op.at = "archive" /\ env' = env
    BY <1>3 DEF Archived
  <2>2. CASE env.moved
    BY <1>3, <2>1, <2>2, ThrownOK DEF Archived
  <2>3. CASE ~env.moved
    <3>1. /\ Goto(IF op.kind = "open" THEN "seal" ELSE "return")
          /\ UNCHANGED <<engine, queue, tool, ask, heard, turn, env>>
      BY <1>3, <2>3 DEF Archived
    <3>2. EngineOK(engine') /\ TurnOK(turn') /\ engine'.history = engine.history
      BY <3>1 DEF ConvInv
    <3>3. PICK at \in {"seal", "return"} : Goto(at) /\ (op.kind = "open" => at = "seal")
      BY <3>1
    <3>4. QED BY <2>1, <3>1, <3>2, <3>3, WentOn DEF Places
  <2>4. QED BY <2>2, <2>3
<1>4. CASE Seal
  <2>1. op # None /\ op.kind = "open" /\ op.at = "seal" /\ env' = env
    BY <1>4 DEF Seal, At, Runs
  <2>2. CASE ~Valid \/ engine.failed
    BY <1>4, <2>1, <2>2, ThrownOK DEF Seal
  <2>3. CASE Valid /\ ~engine.failed
    <3> DEFINE c == [nr |-> env.calls, msgs |-> <<User(engine.history)>>, timed |-> FALSE]
    <3>1. /\ engine' = [engine EXCEPT !.sealed = c]
          /\ Goto("return") /\ UNCHANGED <<queue, tool, ask, heard, turn, env>>
      BY <1>4, <2>3 DEF Seal
    <3>2. engine.history \in 0..MaxCalls /\ engine \in EngineValues
      BY DEF ConvInv, EngineOK, EngineValues
    <3>3. Genuine(<<User(engine.history)>>)
      BY <3>2, Opening
    <3>4. c \in Contexts /\ GoodContext(c)
      BY <3>3, EnvFields DEF Contexts, GoodContext, Genuine
    <3> HIDE DEF c
    <3>5. c # None
      BY <3>4, NoneAssumption
    <3>6. EngineOK(engine') /\ engine'.history = engine.history /\ engine'.sealed # None
      BY <3>1, <3>2, <3>4, <3>5 DEF EngineOK, EngineValues
    <3>7. TurnOK(turn')
      BY <3>1 DEF ConvInv
    <3>8. QED BY <2>1, <3>1, <3>6, <3>7, WentOn DEF Places
  <2>4. QED BY <2>2, <2>3
<1>5. CASE Project
  <2>1. op # None /\ op.kind = "loop" /\ op.at = "check" /\ env' = env
    BY <1>5 DEF Project, At, Runs
  <2>2. CASE ~(Valid /\ op.input = op.had.msgs)
    BY <1>5, <2>1, <2>2, ThrownOK DEF Project
  <2>3. CASE Valid /\ op.input = op.had.msgs
    <3>1. /\ engine' = IF op.had.timed THEN engine
                       ELSE [engine EXCEPT !.sealed = [op.had EXCEPT !.timed = TRUE]]
          /\ Goto("archive") /\ UNCHANGED <<queue, tool, ask, heard, turn, env>>
      BY <1>5, <2>3 DEF Project
    <3>2. op.had \in Contexts /\ Genuine(op.had.msgs)
      BY <2>1 DEF ConvInv, OpOK, OpValues, GoodContext
    <3>3. PICK c : c = [op.had EXCEPT !.timed = TRUE]
      OBVIOUS
    <3>4. c \in Contexts /\ GoodContext(c)
      BY <3>2, <3>3 DEF Contexts, GoodContext
    <3>5. engine' = engine \/ engine' = [engine EXCEPT !.sealed = c]
      BY <3>1, <3>3
    <3>6. EngineOK(engine') /\ engine'.history = engine.history
      BY <3>4, <3>5 DEF ConvInv, EngineOK, EngineValues
    <3>7. TurnOK(turn')
      BY <3>1 DEF ConvInv
    <3>8. QED BY <2>1, <3>1, <3>6, <3>7, WentOn DEF Places
  <2>4. QED BY <2>2, <2>3
<1>6. ASSUME NEW k \in 0..Len(heard), Reassemble(SubSeq(heard, 1, k)) PROVE ConvInv'
  <2>1. PICK input : input = SubSeq(heard, 1, k)
    OBVIOUS
  <2>2. input \in Seq(Messages)
    BY <2>1, HeardPart
  <2>3. PICK o : o = [NewOp("loop", "check") EXCEPT !.input = input]
    OBVIOUS
  <2>4. IsNew(o, "loop", "check", None, input)
    BY <2>2, <2>3, NewOperation DEF Kinds, Places
  <2>5. PICK ok \in BOOLEAN : /\ ok = (engine.sealed # None /\ Pending = {} /\ CompleteBatch(input))
                              /\ Enter(o, engine, ok)
    BY <1>6, <2>1, <2>3 DEF Reassemble
  <2>6. PICK b : Called(b)
    BY <1>6 DEF Reassemble
  <2>7. Enters(ok) => OpOK(o)
    BY <2>4, <2>5 DEF IsNew, OpOK, Enters
  <2>8. o.kind = "loop" /\ o.at = "check" /\ EngineOK(engine)
    BY <2>4 DEF IsNew, ConvInv
  <2>9. QED BY <2>5, <2>6, <2>7, <2>8, HostCalls
<1>7. CASE Compact
  <2>1. PICK o : o = NewOp("compact", "summarize")
    OBVIOUS
  <2>2. IsNew(o, "compact", "summarize", None, <<>>)
    BY <2>1, PlainOperation DEF Kinds, Places
  <2>3. OpOK(o) /\ o.kind = "compact" /\ o.at = "summarize" /\ EngineOK(engine)
    BY <2>2 DEF IsNew, OpOK, ConvInv
  <2>4. PICK ok \in BOOLEAN : Enter(o, engine, ok)
    BY <1>7, <2>1 DEF Compact
  <2>5. PICK b : Called(b)
    BY <1>7 DEF Compact
  <2>6. QED BY <2>3, <2>4, <2>5, HostCalls
<1>8. CASE Summarize
  <2>1. op # None /\ op.kind = "compact" /\ op.at = "summarize" /\ env' = env
    BY <1>8 DEF Summarize, At, Runs
  <2>2. CASE ~Valid
    BY <1>8, <2>1, <2>2, ThrownOK DEF Summarize
  <2>3. CASE Valid
    <3>1. Goto("save") /\ UNCHANGED <<engine, queue, tool, ask, heard, turn, env>>
      BY <1>8, <2>3 DEF Summarize
    <3>2. EngineOK(engine') /\ TurnOK(turn') /\ engine'.history = engine.history
      BY <3>1 DEF ConvInv
    <3>3. QED BY <2>1, <3>1, <3>2, WentOn DEF Places
  <2>4. QED BY <2>2, <2>3
<1>9. CASE SaveSummary
  <2>1. op # None /\ op.kind = "compact" /\ op.at = "save" /\ env' = env
    BY <1>9 DEF SaveSummary, At, Runs
  <2>2. CASE ~(Valid /\ ~engine.failed)
    BY <1>9, <2>1, <2>2, ThrownOK DEF SaveSummary
  <2>3. CASE Valid /\ ~engine.failed
    <3>1. /\ engine' = [engine EXCEPT !.history = @ + 1, !.sealed = None]
          /\ Goto("return") /\ UNCHANGED <<queue, tool, ask, heard, turn, env>>
      BY <1>9, <2>3 DEF SaveSummary
    <3>2. Compacting(op) = 1
      BY <2>1 DEF Compacting
    <3>3. engine \in EngineValues /\ engine.history + 1 \in 0..MaxCalls
      <4>1. engine.history + 1 <= env.calls
        BY <3>2 DEF ConvInv, Counted
      <4>2. engine \in EngineValues
        BY DEF ConvInv, EngineOK
      <4>3. QED BY <4>1, <4>2, EnvFields, BoundsAssumption DEF EngineValues
    <3>4. EngineOK(engine') /\ engine'.history = engine.history + 1
      BY <3>1, <3>3 DEF EngineOK, EngineValues, GoodContext
    <3>5. TurnOK(turn')
      BY <3>1 DEF ConvInv
    <3>6. QED BY <2>1, <3>1, <3>2, <3>4, <3>5, WentOn DEF Places
  <2>4. QED BY <2>2, <2>3
<1>10. CASE Return
  <2>1. op # None /\ op.at = "return" /\ env' = env
    BY <1>10 DEF Return
  <2>2. CASE engine.failed
    BY <1>10, <2>1, <2>2, ThrownOK DEF Return
  <2>3. CASE ~engine.failed
    <3>1. engine' = engine /\ Settle(TRUE)
      BY <1>10, <2>3 DEF Return
    <3>2. QED BY <2>1, <2>3, <3>1, EnvFields, SettledOK
  <2>4. QED BY <2>2, <2>3
<1>11. CASE PortFails
  <2>1. op # None /\ Throw /\ Fault(FALSE)
    BY <1>11 DEF PortFails
  <2>2. engine' = Latched /\ Settle(FALSE)
    BY <2>1 DEF Throw
  <2>3. env' \in EnvValues /\ env'.calls = env.calls
    BY <2>1, FaultOK
  <2>4. QED BY <2>1, <2>2, <2>3, SettledOK
<1>12. QED BY <1>1, <1>2, <1>3, <1>4, <1>5, <1>6, <1>7, <1>8, <1>9, <1>10, <1>11

\* A step that leaves the engine, its operation, the model calls and the completion alone.
LEMMA HostOnly ==
  ASSUME ConvInv, UNCHANGED <<engine, op, ask, turn>>, HostOK', env'.calls = env.calls,
         Runs("result") => tool'[op.who] = tool[op.who]
  PROVE  ConvInv'
<1>1. AsksStep
  BY AsksSame DEF ConvInv
<1>2. EngineOK(engine') /\ OpOK(op') /\ TurnOK(turn')
  BY DEF ConvInv
<1>3. Linked'
  BY DEF ConvInv, Linked, Runs
<1>4. Counted'
  BY DEF ConvInv, Counted, Compacting
<1>5. QED BY <1>1, <1>2, <1>3, <1>4, Preserved

LEMMA EnvMoved ==
  ASSUME ConvInv, NEW x \in BOOLEAN, env' = [env EXCEPT !.orderly = x]
  PROVE  env' \in EnvValues /\ env'.calls = env.calls
BY EnvFields DEF EnvValues

LEMMA ConvToolSteps ==
  ASSUME ConvInv,
         (\E t \in Tools : ToolReturns(t) \/ ToolFails(t)) \/ NextResult \/ ExtendToolResult
  PROVE  ConvInv'
<1>0. HostOK
  BY DEF ConvInv
<1>1. ASSUME NEW t \in Tools, ToolReturns(t) PROVE ConvInv'
  <2>1. PICK x \in BOOLEAN : env' = [env EXCEPT !.orderly = x]
    <3>1. env' = [env EXCEPT !.orderly = env.orderly /\ t \in Awaited(heard) /\ (op = None \/ Runs("result"))]
      BY <1>1 DEF ToolReturns
    <3>2. (env.orderly /\ t \in Awaited(heard) /\ (op = None \/ Runs("result"))) \in BOOLEAN
      OBVIOUS
    <3>3. QED BY <3>1, <3>2
  <2>2. env' \in EnvValues /\ env'.calls = env.calls
    BY <2>1, EnvMoved
  <2>3. /\ tool' = [tool EXCEPT ![t] = "queued"] /\ queue' = Append(queue, t) /\ tool[t] = "idle"
        /\ UNCHANGED <<engine, op, ask, heard, turn>>
    BY <1>1 DEF ToolReturns
  <2>4. HostOK'
    BY <1>0, <2>2, <2>3 DEF HostOK
  <2>5. Runs("result") => tool'[op.who] = tool[op.who]
    BY <1>0, <2>3 DEF ConvInv, Linked, Runs, HostOK
  <2>6. QED BY <2>2, <2>3, <2>4, <2>5, HostOnly
<1>2. ASSUME NEW t \in Tools, ToolFails(t) PROVE ConvInv'
  <2>1. env' \in EnvValues /\ env'.calls = env.calls
    BY <1>2, FaultOK DEF ToolFails
  <2>2. /\ tool' = [tool EXCEPT ![t] = "failed"] /\ heard' = Gathered(tool') /\ tool[t] = "idle"
        /\ UNCHANGED <<engine, op, queue, ask, turn>>
    BY <1>2 DEF ToolFails
  <2>3. heard' \in Seq(Messages)
    <3>1. PICK settled : settled = tool' /\ heard' = Gathered(settled)
      BY <2>2
    <3>2. QED BY <1>0, <3>1, Joined DEF HostOK
  <2>4. HostOK'
    BY <1>0, <2>1, <2>2, <2>3 DEF HostOK
  <2>5. Runs("result") => tool'[op.who] = tool[op.who]
    BY <1>0, <2>2 DEF ConvInv, Linked, Runs, HostOK
  <2>6. QED BY <2>1, <2>2, <2>4, <2>5, HostOnly
<1>3. CASE NextResult
  <2>1. PICK t : t = Head(queue)
    OBVIOUS
  <2>2. t \in Tools /\ ~Runs("result") /\ Tail(queue) \in Seq(Tools)
    BY <1>0, <1>3, <2>1 DEF NextResult, HostOK
  <2>3. PICK o : o = [NewOp("result", "extend") EXCEPT !.who = t]
    OBVIOUS
  <2>4. PICK ok \in BOOLEAN : /\ ok = (engine.sealed # None /\ t \in Awaited(engine.sealed.msgs))
                              /\ Enter(o, engine, ok)
                              /\ tool' = [tool EXCEPT ![t] = IF Enters(ok) THEN "running" ELSE "failed"]
    BY <1>3, <2>1, <2>3 DEF NextResult
  <2>5. queue' = Tail(queue) /\ heard' = Gathered(tool') /\ UNCHANGED <<ask, turn, env>>
    BY <1>3 DEF NextResult
  <2>6. IsNew(o, "result", "extend", t, <<>>)
    <3>1. <<>> \in Seq(Messages)
      OBVIOUS
    <3>2. QED BY <2>2, <2>3, <3>1, NewOperation DEF Kinds, Places
  <2>7. Enters(ok) => OpOK(o)
    BY <2>2, <2>4, <2>6 DEF IsNew, OpOK, Enters
  <2>8. EngineOK(engine)
    BY DEF ConvInv
  <2>9. /\ EngineOK(engine') /\ OpOK(op') /\ engine'.history = engine.history
        /\ \/ Enters(ok) /\ op = None /\ op' = o /\ engine' = engine
           \/ ~Enters(ok) /\ op' = op /\ (engine' = engine \/ (engine' = Latched /\ ~engine.released))
    BY <2>4, <2>7, <2>8, EnteredOK
  <2>10. AsksStep /\ TurnOK(turn')
    BY <2>5, AsksSame DEF ConvInv
  <2>11. HostOK'
    <3>1. heard' \in Seq(Messages)
      <4>1. PICK settled : settled = tool' /\ heard' = Gathered(settled)
        BY <2>5
      <4>2. QED BY <1>0, <4>1, Joined DEF HostOK
    <3>2. tool' \in [Tools -> {"idle", "queued", "running", "done", "failed"}]
      BY <1>0, <2>4 DEF HostOK
    <3>3. QED BY <1>0, <2>2, <2>5, <3>1, <3>2 DEF HostOK
  <2>12. Linked'
    <3>1. CASE Enters(ok) /\ op' = o
      <4>1. tool'[t] = "running"
        BY <1>0, <2>2, <2>4, <3>1 DEF HostOK
      <4>2. op'.kind = "result" /\ op'.who = t
        BY <2>6, <3>1 DEF IsNew
      <4>3. QED BY <4>1, <4>2 DEF Linked
    <3>2. CASE op' = op /\ op # None
      <4>1. op.kind # "result"
        BY <2>2, <3>2 DEF Runs
      <4>2. engine' = engine \/ engine'.failed
        BY <2>9, LatchedOK, <2>8
      <4>3. QED BY <2>5, <3>2, <4>1, <4>2 DEF Linked, ConvInv
    <3>3. CASE op' = op /\ op = None
      BY <3>3 DEF Linked
    <3>4. QED BY <2>9, <3>1, <3>2, <3>3
  <2>13. Counted'
    <3>1. engine.history \in Nat /\ env.calls \in Nat /\ Compacting(op) \in {0, 1}
      BY DEF ConvInv, EngineOK, EngineValues, HostOK, EnvValues, Compacting
    <3>2. op' = o => Compacting(op)' = 0
      BY <2>6 DEF Compacting, IsNew
    <3>3. op' = op => Compacting(op)' = Compacting(op)
      BY DEF Compacting
    <3>4. QED BY <2>5, <2>9, <3>1, <3>2, <3>3 DEF ConvInv, Counted
  <2>14. QED BY <2>9, <2>10, <2>11, <2>12, <2>13, Preserved
<1>4. CASE ExtendToolResult
  <2>1. op # None /\ op.kind = "result" /\ op.at = "extend" /\ env' = env
    BY <1>4 DEF ExtendToolResult, At, Runs
  <2>2. CASE ~Valid
    BY <1>4, <2>1, <2>2, ThrownOK DEF ExtendToolResult
  <2>3. CASE Valid
    <3>1. /\ engine' = [engine EXCEPT !.sealed = [op.had EXCEPT !.msgs = WithResult(op.had.msgs, op.who)]]
          /\ Goto("return") /\ UNCHANGED <<queue, tool, ask, heard, turn, env>>
      BY <1>4, <2>3 DEF ExtendToolResult
    <3>2. op.had \in Contexts /\ Genuine(op.had.msgs) /\ op.who \in Awaited(op.had.msgs)
      BY <2>1 DEF ConvInv, OpOK, OpValues, GoodContext
    <3>3. PICK msgs : msgs = WithResult(op.had.msgs, op.who)
      OBVIOUS
    <3>4. Genuine(msgs)
      BY <3>2, <3>3, Resulting
    <3>5. PICK c : c = [op.had EXCEPT !.msgs = msgs]
      OBVIOUS
    <3>6. c \in Contexts /\ GoodContext(c)
      BY <3>2, <3>4, <3>5 DEF Contexts, GoodContext, Genuine
    <3>7. engine' = [engine EXCEPT !.sealed = c]
      BY <3>1, <3>3, <3>5
    <3>8. EngineOK(engine') /\ engine'.history = engine.history
      BY <3>6, <3>7 DEF ConvInv, EngineOK, EngineValues
    <3>9. TurnOK(turn')
      BY <3>1 DEF ConvInv
    <3>10. QED BY <2>1, <3>1, <3>8, <3>9, WentOn DEF Places
  <2>4. QED BY <2>2, <2>3
<1>5. QED BY <1>1, <1>2, <1>3, <1>4

LEMMA AskFieldsOK ==
  ASSUME ConvInv, NEW m \in Asks
  PROVE  AskOK(m, ask[m]) /\ ask[m] \in AskValues /\ AsksOK
BY DEF ConvInv, AsksOK

\* The running operation is left alone, whatever becomes of the engine and of one call.
LEMMA LinkedStill ==
  ASSUME ConvInv, op' = op, tool' = tool, engine' = engine \/ engine' = Latched,
         NEW m \in Asks, ask[m].at # "observing", \A n \in Asks \ {m} : ask'[n] = ask[n]
  PROVE  Linked' /\ EngineOK(engine') /\ engine'.history = engine.history
<1>1. EngineOK(engine') /\ engine'.history = engine.history /\ (engine' = engine \/ engine'.failed)
  BY LatchedOK DEF ConvInv
<1>2. ASSUME op # None, op.kind = "output" PROVE op.who \in Asks \ {m} /\ ask[op.who].at = "observing"
  BY <1>2 DEF ConvInv, OpOK, Linked
<1>3. Linked'
  BY <1>1, <1>2 DEF ConvInv, Linked
<1>4. QED BY <1>1, <1>3

LEMMA CountedStill ==
  ASSUME ConvInv, op' = op, engine'.history = engine.history, env'.calls = env.calls
  PROVE  Counted'
BY DEF ConvInv, Counted, Compacting

LEMMA RefusedOK ==
  ASSUME ConvInv, NEW m \in Asks, RefusedAsk(m), ask[m].at # "observing",
         UNCHANGED <<op, queue, tool, heard>>, engine' = engine \/ engine' = Latched,
         env' \in EnvValues, env'.calls = env.calls
  PROVE  ConvInv'
<1>1. ask' = [ask EXCEPT ![m].at = "refused"] /\ turn' = [turn EXCEPT !.rejected = TRUE]
  BY DEF RefusedAsk
<1>2. AsksStep
  BY <1>1, AskEnds DEF ConvInv
<1>3. Linked' /\ EngineOK(engine') /\ engine'.history = engine.history
  <2>1. \A n \in Asks \ {m} : ask'[n] = ask[n]
    BY <1>1, AskFieldsOK DEF AsksOK
  <2>2. QED BY <2>1, LinkedStill
<1>4. TurnOK(turn')
  BY <1>1 DEF ConvInv, TurnOK, TurnValues
<1>5. OpOK(op') /\ HostOK' /\ Counted'
  BY <1>3, CountedStill DEF ConvInv, HostOK
<1>6. QED BY <1>2, <1>3, <1>4, <1>5, Preserved

\* The gate lets a call in, or refuses it.
LEMMA GateOK ==
  ASSUME ConvInv, NEW m \in Asks, NEW a, EnterGate(m, a), UNCHANGED <<op, queue, tool, heard>>,
         env' \in EnvValues, env'.calls = env.calls,
         ~Past(m), a \in AskValues, a.at \in {"transport", "payload", "answer"},
         ask[m].sent => a.sent /\ a.input = ask[m].input,
         a.at # "answer" => a.answer = None /\ ~a.sent,
         a.at = "answer" => a.sent /\ ask[m].sent /\ \E calls \in Batches : a.answer = Answer(m, calls)
  PROVE  ConvInv'
<1>1. ask[m].at # "observing"
  BY DEF Past
<1>2. CASE RefusedAsk(m) /\ (engine' = engine \/ engine' = Latched)
  BY <1>1, <1>2, RefusedOK
<1>3. CASE /\ engine.sealed # None /\ CompleteBatch(a.input)
           /\ ask' = [ask EXCEPT ![m] = [a EXCEPT !.had = engine.sealed]] /\ UNCHANGED <<engine, turn>>
  <2>1. PICK b : b = [a EXCEPT !.had = engine.sealed]
    OBVIOUS
  <2>2. engine.sealed \in Contexts /\ GoodContext(engine.sealed)
    BY <1>3 DEF ConvInv, EngineOK, EngineValues
  <2>3. /\ b \in AskValues /\ b.at = a.at /\ b.input = a.input /\ b.answer = a.answer /\ b.sent = a.sent
        /\ b.had = engine.sealed
    BY <2>1, <2>2 DEF AskValues
  <2>4. ask[m].sent => Genuine(ask[m].input) /\ WholeBatches(ask[m].input)
    BY AskFieldsOK DEF AskOK
  <2>5. AskOK(m, b)
    BY <1>3, <2>2, <2>3, <2>4 DEF AskOK, Unsent, WithAnswer
  <2>6. ask' = [ask EXCEPT ![m] = b]
    BY <1>3, <2>1
  <2>7. AsksStep
    BY <2>3, <2>5, <2>6, AskFieldsOK, AskChanged
  <2>8. \A n \in Asks \ {m} : ask'[n] = ask[n]
    BY <2>6, AskFieldsOK DEF AsksOK
  <2>9. Linked' /\ EngineOK(engine') /\ engine'.history = engine.history
    BY <1>1, <1>3, <2>8, LinkedStill
  <2>10. OpOK(op') /\ HostOK' /\ Counted' /\ TurnOK(turn')
    BY <1>3, <2>9, CountedStill DEF ConvInv, HostOK
  <2>11. QED BY <2>7, <2>9, <2>10, Preserved
<1>4. QED BY <1>2, <1>3 DEF EnterGate

\* A call goes on as b, and nothing else changes.
GoesOnAs(m, b) ==
  /\ ask' = [ask EXCEPT ![m] = b] /\ UNCHANGED <<engine, op, turn>>
  /\ b.at \in {"opening", "opened", "sending", "wire", "hearing"} /\ b.answer = ask[m].answer
  /\ b.input = ask[m].input /\ (ask[m].sent => b.sent)

\* An answer is observed: the engine takes it up as its operation o.
ObservedAs(m, b, o) ==
  /\ ask' = [ask EXCEPT ![m] = b] /\ UNCHANGED <<engine, turn>> /\ op = None /\ op' = o
  /\ b.at = "observing" /\ b.answer = ask[m].answer /\ b.input = ask[m].input /\ b.sent /\ ~engine.released
  /\ IsNew(o, "output", "extend", m, <<>>) /\ engine.sealed # None /\ engine.sealed = o.had

\* A call between its gate and what it waited for.
GoesOn(m) == LeaveGate(m) \/ OpenTransport(m) \/ SendPayload(m) \/ ObserveOutput(m)

LEMMA GateLeftOK ==
  ASSUME ConvInv, NEW m \in Asks, LeaveGate(m), GateHolds(m)
  PROVE  \E b : AskOK(m, b) /\ GoesOnAs(m, b)
<1>1. AskOK(m, ask[m]) /\ ask[m] \in AskValues /\ ask[m].at \in {"transport", "payload", "answer"}
  BY AskFieldsOK DEF LeaveGate
<1>2. PICK p : p = (CASE ask[m].at = "transport" -> "opening" [] ask[m].at = "payload" -> "sending"
                      [] OTHER -> "hearing")
  OBVIOUS
<1>3. PICK b : b = [ask[m] EXCEPT !.had = None, !.at = p]
  OBVIOUS
<1>4. ask' = [ask EXCEPT ![m] = b] /\ UNCHANGED <<engine, op, turn>>
  <2>1. ask' = [ask EXCEPT ![m] = [@ EXCEPT !.had = None, !.at = p]] /\ UNCHANGED <<engine, op, turn>>
    BY <1>2, Zenon DEF LeaveGate
  <2>2. QED BY <1>3, <2>1 DEF ConvInv, AsksOK
<1>5. /\ ask[m].at = "transport" => p = "opening"
      /\ ask[m].at = "payload" => p = "sending"
      /\ ask[m].at = "answer" => p = "hearing"
  BY <1>2
<1>6. /\ b \in AskValues /\ b.at = p /\ b.input = ask[m].input /\ b.answer = ask[m].answer
      /\ b.sent = ask[m].sent /\ b.had = None
  BY <1>1, <1>3, <1>5 DEF AskValues
<1>7. Genuine(ask[m].input) /\ WholeBatches(ask[m].input)
  <2>1. /\ ask[m].had # None /\ GoodContext(ask[m].had) /\ ask[m].input = ask[m].had.msgs
        /\ CompleteBatch(ask[m].input)
    BY <1>1 DEF AskOK, GateHolds
  <2>2. Genuine(ask[m].input)
    BY <2>1 DEF GoodContext
  <2>3. PICK i \in 0..Len(ask[m].input) : Made(ask[m].input, i)
    BY <2>2 DEF Genuine
  <2>4. QED BY <2>1, <2>2, <2>3, Completed DEF Genuine
<1>8. AskOK(m, b)
  BY <1>1, <1>5, <1>6, <1>7 DEF AskOK, GoodContext, Unsent, WithAnswer
<1>9. GoesOnAs(m, b)
  BY <1>1, <1>4, <1>5, <1>6 DEF GoesOnAs
<1>10. QED BY <1>8, <1>9

LEMMA TransportOpened ==
  ASSUME ConvInv, NEW m \in Asks, OpenTransport(m) \/ SendPayload(m), SourcesHold(m)
  PROVE  \E b : AskOK(m, b) /\ GoesOnAs(m, b)
<1>1. AskOK(m, ask[m]) /\ ask[m] \in AskValues
  BY AskFieldsOK
<1>2. CASE OpenTransport(m)
  <2>1. PICK b : b = [ask[m] EXCEPT !.at = "opened"]
    OBVIOUS
  <2>2. ask[m].at = "opening" /\ ask' = [ask EXCEPT ![m] = b] /\ UNCHANGED <<engine, op, turn>>
    BY <1>2, <2>1 DEF OpenTransport, ConvInv, AsksOK
  <2>3. /\ b \in AskValues /\ b.at = "opened" /\ b.input = ask[m].input /\ b.answer = ask[m].answer
        /\ b.sent = ask[m].sent /\ b.had = ask[m].had
    BY <1>1, <2>1 DEF AskValues
  <2>4. AskOK(m, b) /\ GoesOnAs(m, b)
    BY <1>1, <2>2, <2>3 DEF AskOK, GoesOnAs, Unsent, WithAnswer
  <2>5. QED BY <2>4
<1>3. CASE SendPayload(m)
  <2>1. PICK b : b = [ask[m] EXCEPT !.at = "wire", !.sent = TRUE]
    OBVIOUS
  <2>2. ask[m].at = "sending" /\ ask' = [ask EXCEPT ![m] = b] /\ UNCHANGED <<engine, op, turn>>
    BY <1>3, <2>1 DEF SendPayload, ConvInv, AsksOK
  <2>3. /\ b \in AskValues /\ b.at = "wire" /\ b.input = ask[m].input /\ b.answer = ask[m].answer
        /\ b.sent /\ b.had = ask[m].had
    BY <1>1, <2>1 DEF AskValues
  <2>4. AskOK(m, b) /\ GoesOnAs(m, b)
    BY <1>1, <2>2, <2>3 DEF AskOK, GoesOnAs, Unsent, WithAnswer
  <2>5. QED BY <2>4
<1>4. QED BY <1>2, <1>3

\* What hears of the answer while the engine is released, busy or has failed is refused.
LEMMA OutputObserved ==
  ASSUME ConvInv, NEW m \in Asks, ObserveOutput(m)
  PROVE  \/ RefusedAsk(m) /\ op' = op /\ (engine' = engine \/ engine' = Latched)
         \/ /\ SourcesHold(m) /\ Enters(engine.sealed # None)
            /\ \E b, o : AskOK(m, b) /\ OpOK(o) /\ ObservedAs(m, b, o)
<1>1. AskOK(m, ask[m]) /\ ask[m] \in AskValues /\ ask[m].at = "hearing"
  BY AskFieldsOK DEF ObserveOutput
<1>2. PICK ok \in BOOLEAN : ok = (engine.sealed # None)
  OBVIOUS
<1>3. PICK o : o = [NewOp("output", "extend") EXCEPT !.who = m]
  OBVIOUS
<1>4. SourcesHold(m) => Enter(o, engine, ok)
  BY <1>2, <1>3 DEF ObserveOutput
<1>5. CASE ~(SourcesHold(m) /\ Enters(engine.sealed # None))
  <2>1. RefusedAsk(m)
    BY <1>5 DEF ObserveOutput
  <2>2. op' = op /\ (engine' = engine \/ engine' = Latched)
    BY <1>2, <1>4, <1>5 DEF ObserveOutput, Enter, Enters
  <2>3. QED BY <2>1, <2>2
<1>6. CASE SourcesHold(m) /\ Enters(engine.sealed # None)
  <2>1. PICK b : b = [ask[m] EXCEPT !.at = "observing"]
    OBVIOUS
  <2>2. ask' = [ask EXCEPT ![m] = b] /\ turn' = turn
    BY <1>6, <2>1 DEF ObserveOutput, ConvInv, AsksOK
  <2>3. /\ b \in AskValues /\ b.at = "observing" /\ b.input = ask[m].input /\ b.answer = ask[m].answer
        /\ b.sent = ask[m].sent /\ b.had = ask[m].had
    BY <1>1, <2>1 DEF AskValues
  <2>4. AskOK(m, b) /\ b.sent
    BY <1>1, <2>3 DEF AskOK, Unsent, WithAnswer
  <2>5. op = None /\ op' = o /\ engine' = engine /\ engine.sealed # None /\ ~engine.released
    BY <1>2, <1>4, <1>6 DEF Enter, Enters
  <2>6. IsNew(o, "output", "extend", m, <<>>)
    <3>1. <<>> \in Seq(Messages)
      OBVIOUS
    <3>2. QED BY <1>3, <3>1, NewOperation DEF Kinds, Places
  <2>7. OpOK(o) /\ o.had = engine.sealed
    BY <2>5, <2>6 DEF IsNew, OpOK
  <2>8. ObservedAs(m, b, o)
    BY <2>2, <2>3, <2>4, <2>5, <2>6, <2>7 DEF ObservedAs
  <2>9. QED BY <1>6, <2>4, <2>7, <2>8
<1>7. QED BY <1>5, <1>6

\* Whatever a call waits for behind its gate, it is refused, goes on or is observed.
LEMMA WhereItGoes ==
  ASSUME ConvInv, NEW m \in Asks, GoesOn(m)
  PROVE  /\ ~Past(m) /\ UNCHANGED <<queue, tool, heard, env>>
         /\ \/ RefusedAsk(m) /\ op' = op /\ (engine' = engine \/ engine' = Latched)
            \/ \E b : AskOK(m, b) /\ GoesOnAs(m, b)
            \/ \E b, o : AskOK(m, b) /\ OpOK(o) /\ ObservedAs(m, b, o)
<1>1. ~Past(m) /\ UNCHANGED <<queue, tool, heard, env>>
  BY DEF GoesOn, LeaveGate, OpenTransport, SendPayload, ObserveOutput, Past
<1>2. CASE LeaveGate(m)
  <2>1. CASE GateHolds(m)
    BY <1>1, <1>2, <2>1, GateLeftOK
  <2>2. CASE ~GateHolds(m)
    BY <1>1, <1>2, <2>2 DEF LeaveGate
  <2>3. QED BY <2>1, <2>2
<1>3. CASE OpenTransport(m) \/ SendPayload(m)
  <2>1. CASE SourcesHold(m)
    BY <1>1, <1>3, <2>1, TransportOpened
  <2>2. CASE ~SourcesHold(m)
    BY <1>1, <1>3, <2>2 DEF OpenTransport, SendPayload
  <2>3. QED BY <2>1, <2>2
<1>4. CASE ObserveOutput(m)
  BY <1>1, <1>4, OutputObserved
<1>5. QED BY <1>2, <1>3, <1>4 DEF GoesOn

LEMMA GoneOnOK ==
  ASSUME ConvInv, NEW m \in Asks, GoesOn(m)
  PROVE  ConvInv'
<1>1. ~Past(m) /\ UNCHANGED <<queue, tool, heard, env>> /\ AsksOK
  BY WhereItGoes, AskFieldsOK
<1>2. ask[m].at # "observing" /\ env' \in EnvValues /\ env'.calls = env.calls
  BY <1>1, EnvFields DEF Past
<1>3. CASE RefusedAsk(m) /\ op' = op /\ (engine' = engine \/ engine' = Latched)
  BY <1>1, <1>2, <1>3, RefusedOK
<1>4. ASSUME NEW b, AskOK(m, b), GoesOnAs(m, b) PROVE ConvInv'
  <2>1. ask' = [ask EXCEPT ![m] = b] /\ UNCHANGED <<engine, op, turn>>
    BY <1>4 DEF GoesOnAs
  <2>2. AsksStep
    BY <1>1, <1>4, <2>1, AskChanged DEF GoesOnAs
  <2>3. \A n \in Asks \ {m} : ask'[n] = ask[n]
    BY <1>1, <2>1 DEF AsksOK
  <2>4. Linked' /\ EngineOK(engine') /\ engine'.history = engine.history
    BY <1>1, <1>2, <2>1, <2>3, LinkedStill
  <2>5. OpOK(op') /\ HostOK' /\ Counted' /\ TurnOK(turn')
    BY <1>1, <1>2, <2>1, <2>4, CountedStill DEF ConvInv, HostOK
  <2>6. QED BY <2>2, <2>4, <2>5, Preserved
<1>5. ASSUME NEW b, NEW o, AskOK(m, b), OpOK(o), ObservedAs(m, b, o) PROVE ConvInv'
  <2>1. /\ ask' = [ask EXCEPT ![m] = b] /\ UNCHANGED <<engine, turn>> /\ op = None /\ op' = o
        /\ b.at = "observing" /\ o.kind = "output" /\ o.who = m
    BY <1>5 DEF ObservedAs, IsNew
  <2>2. AsksStep
    BY <1>1, <1>5, <2>1, AskChanged DEF ObservedAs
  <2>3. ask'[m].at = "observing"
    BY <1>1, <2>1 DEF AsksOK
  <2>4. Linked'
    BY <2>1, <2>3 DEF Linked
  <2>5. Compacting(op) = 0 /\ Compacting(op)' = 0
    BY <2>1 DEF Compacting
  <2>6. EngineOK(engine') /\ OpOK(op') /\ HostOK' /\ TurnOK(turn')
    BY <1>1, <1>5, <2>1 DEF ConvInv, HostOK
  <2>7. Counted'
    BY <1>1, <2>1, <2>5 DEF ConvInv, Counted
  <2>8. QED BY <2>2, <2>4, <2>6, <2>7, Preserved
<1>6. QED BY <1>3, <1>4, <1>5, WhereItGoes

LEMMA ConvAskSteps ==
  ASSUME ConvInv, NEW m \in Asks,
         \/ \E k \in 1..Len(heard) : Ask(m, SubSeq(heard, 1, k))
         \/ Payload(m) \/ ModelFails(m) \/ GoesOn(m)
         \/ \E calls \in Batches : ModelAnswers(m, calls)
  PROVE  ConvInv'
<1>0. AskOK(m, ask[m]) /\ ask[m] \in AskValues /\ AsksOK
  BY AskFieldsOK
<1>1. ASSUME NEW k \in 1..Len(heard), Ask(m, SubSeq(heard, 1, k)) PROVE ConvInv'
  <2>1. PICK input : input = SubSeq(heard, 1, k)
    OBVIOUS
  <2>2. input \in Seq(Messages)
    BY <2>1, HeardPart DEF ConvInv, HostOK
  <2>3. PICK a : a = [NewAsk EXCEPT !.at = "transport", !.input = input]
    OBVIOUS
  <2>4. /\ a \in AskValues /\ a.at = "transport" /\ a.answer = None /\ ~a.sent /\ a.input = input
    BY <2>2, <2>3 DEF NewAsk, AskValues
  <2>5. EnterGate(m, a) /\ UNCHANGED <<op, queue, tool, heard>> /\ ask[m].at = "idle"
    BY <1>1, <2>1, <2>3 DEF Ask
  <2>6. env' \in EnvValues /\ env'.calls = env.calls
    <3>1. PICK x \in BOOLEAN : env' = [env EXCEPT !.orderly = x]
      <4> DEFINE x == env.orderly /\ ~Busy /\ ~engine.released /\ CompleteBatch(input)
                        /\ engine.sealed # None /\ engine.sealed.timed /\ engine.sealed.msgs = input
      <4>1. env' = [env EXCEPT !.orderly = x]
        BY <1>1, <2>1 DEF Ask
      <4>2. x \in BOOLEAN
        OBVIOUS
      <4>3. QED BY <4>1, <4>2
    <3>2. QED BY <3>1, EnvMoved
  <2>7. ~Past(m) /\ ~ask[m].sent
    BY <1>0, <2>5 DEF Past, AskOK, Unsent, WithAnswer
  <2>8. QED BY <2>4, <2>5, <2>6, <2>7, GateOK
<1>2. CASE Payload(m)
  <2>1. PICK a : a = [ask[m] EXCEPT !.at = "payload"]
    OBVIOUS
  <2>2. EnterGate(m, a) /\ UNCHANGED <<op, queue, tool, heard, env>> /\ ask[m].at = "opened"
    BY <1>2, <2>1 DEF Payload
  <2>3. a \in AskValues /\ a.at = "payload" /\ a.answer = ask[m].answer /\ a.sent = ask[m].sent /\ a.input = ask[m].input
    BY <1>0, <2>1 DEF AskValues
  <2>4. ~Past(m) /\ ~ask[m].sent /\ ask[m].answer = None
    BY <1>0, <2>2 DEF Past, AskOK, Unsent, WithAnswer
  <2>5. env' \in EnvValues /\ env'.calls = env.calls
    BY <2>2, EnvFields
  <2>6. QED BY <2>2, <2>3, <2>4, <2>5, GateOK
<1>3. CASE ModelFails(m)
  <2>1. /\ ask' = [ask EXCEPT ![m].at = "refused"] /\ ask[m].at = "wire"
        /\ UNCHANGED <<engine, op, queue, tool, heard, turn>>
    BY <1>3 DEF ModelFails
  <2>2. env' \in EnvValues /\ env'.calls = env.calls
    BY <1>3, FaultOK DEF ModelFails
  <2>3. AsksStep
    BY <2>1, <1>0, AskEnds
  <2>4. \A n \in Asks \ {m} : ask'[n] = ask[n]
    BY <1>0, <2>1 DEF AsksOK
  <2>5. Linked' /\ EngineOK(engine') /\ engine'.history = engine.history
    BY <2>1, <2>4, LinkedStill
  <2>6. OpOK(op') /\ TurnOK(turn') /\ HostOK' /\ Counted'
    BY <2>1, <2>2, <2>5, CountedStill DEF ConvInv, HostOK
  <2>7. QED BY <2>3, <2>5, <2>6, Preserved
<1>4. CASE GoesOn(m)
  BY <1>4, GoneOnOK
<1>5. ASSUME NEW calls \in Batches, ModelAnswers(m, calls) PROVE ConvInv'
  <2>1. PICK answer : answer = Answer(m, calls)
    OBVIOUS
  <2>2. answer \in Messages
    BY <2>1, BatchesAssumption DEF Answer, Messages
  <2>3. PICK a : a = [ask[m] EXCEPT !.at = "answer", !.answer = answer]
    OBVIOUS
  <2>4. EnterGate(m, a) /\ UNCHANGED <<op, queue, tool, heard, env>> /\ ask[m].at = "wire"
    BY <1>5, <2>1, <2>3 DEF ModelAnswers
  <2>5. a \in AskValues /\ a.at = "answer" /\ a.answer = answer /\ a.sent = ask[m].sent /\ a.input = ask[m].input
    BY <1>0, <2>2, <2>3 DEF AskValues
  <2>6. ~Past(m) /\ ask[m].sent
    BY <1>0, <2>4 DEF Past, AskOK
  <2>7. env' \in EnvValues /\ env'.calls = env.calls
    BY <2>4, EnvFields
  <2>8. QED BY <2>1, <2>4, <2>5, <2>6, <2>7, GateOK
<1>6. QED BY <1>1, <1>2, <1>3, <1>4, <1>5

LEMMA ConvExtendStep ==
  ASSUME ConvInv, ExtendAssistant
  PROVE  ConvInv'
<1>1. op # None /\ op.kind = "output" /\ op.at = "extend" /\ env' = env
  BY DEF ExtendAssistant, At, Runs
<1>2. CASE ~(Valid /\ op.had.timed /\ ask[op.who].input = op.had.msgs)
  BY <1>1, <1>2, ThrownOK DEF ExtendAssistant
<1>3. CASE Valid /\ op.had.timed /\ ask[op.who].input = op.had.msgs
  <2>1. /\ engine' = [engine EXCEPT !.sealed = [op.had EXCEPT !.msgs = Append(op.had.msgs, ask[op.who].answer)]]
        /\ Goto("return") /\ UNCHANGED <<queue, tool, ask, heard, turn, env>>
    BY <1>3 DEF ExtendAssistant
  <2>2. op.had \in Contexts /\ Genuine(op.had.msgs) /\ op.who \in Asks /\ ask[op.who].at = "observing"
    BY <1>1 DEF ConvInv, OpOK, OpValues, GoodContext, Linked
  <2>3. PICK m \in Asks : m = op.who
    BY <2>2
  <2>4. AskOK(m, ask[m])
    BY AskFieldsOK
  <2>5. PICK calls \in Batches : ask[m].answer = Answer(m, calls)
    BY <2>2, <2>3, <2>4 DEF AskOK, Unsent, WithAnswer
  <2>6. ask[m].sent /\ WholeBatches(ask[m].input) /\ Past(m)
    BY <2>2, <2>3, <2>4 DEF AskOK, Unsent, WithAnswer, Past
  <2>7. PICK msgs : msgs = op.had.msgs
    OBVIOUS
  <2>8. Genuine(Append(msgs, Answer(m, calls)))
    BY <1>3, <2>2, <2>3, <2>5, <2>6, <2>7, Answering
  <2>9. PICK new : new = Append(msgs, Answer(m, calls))
    OBVIOUS
  <2>10. PICK c : c = [op.had EXCEPT !.msgs = new]
    OBVIOUS
  <2>11. c \in Contexts /\ GoodContext(c)
    BY <2>2, <2>8, <2>9, <2>10 DEF Contexts, GoodContext, Genuine
  <2>12. engine' = [engine EXCEPT !.sealed = c]
    BY <2>1, <2>3, <2>5, <2>7, <2>9, <2>10
  <2>13. EngineOK(engine') /\ engine'.history = engine.history
    BY <2>11, <2>12 DEF ConvInv, EngineOK, EngineValues
  <2>14. TurnOK(turn')
    BY <2>1 DEF ConvInv
  <2>15. QED BY <1>1, <2>1, <2>13, <2>14, WentOn DEF Places
<1>4. QED BY <1>2, <1>3

LEMMA ConvFinalSteps ==
  ASSUME ConvInv,
         \/ ReleaseToCompletion \/ EndGeneration \/ Cancel
         \/ PersistCompletedHistory \/ CheckPersist \/ ArchiveHistory \/ Publish \/ SourcesMove
  PROVE  ConvInv'
<1>0. /\ engine \in EngineValues /\ EngineOK(engine) /\ OpOK(op) /\ TurnOK(turn) /\ turn \in TurnValues
      /\ HostOK /\ Linked /\ Counted
  BY DEF ConvInv, EngineOK, TurnOK
<1>a. ask' = ask => AsksStep
  BY AsksSame DEF ConvInv
<1>1. CASE ReleaseToCompletion
  <2>1. UNCHANGED <<op, queue, tool, ask, heard, turn>>
    BY <1>1 DEF ReleaseToCompletion
  <2>2. env' \in EnvValues /\ env'.calls = env.calls
    <3>1. PICK x \in BOOLEAN : env' = [env EXCEPT !.orderly = x]
      <4>1. env' = [env EXCEPT !.orderly = env.orderly /\ ~Busy] /\ (env.orderly /\ ~Busy) \in BOOLEAN
        BY <1>1 DEF ReleaseToCompletion
      <4>2. QED BY <4>1
    <3>2. QED BY <3>1, EnvMoved
  <2>3. EngineOK(engine') /\ engine'.history = engine.history /\ (engine'.failed \/ op = None)
    <3>1. CASE op # None \/ Pending # {}
      <4>1. engine' = [Latched EXCEPT !.released = TRUE, !.closed = TRUE]
        BY <1>1, <3>1 DEF ReleaseToCompletion
      <4>2. PICK e : e = Latched
        OBVIOUS
      <4>3. e \in EngineValues /\ e.history = engine.history /\ e.failed /\ e.sealed = None
        BY <1>0, <4>2, LatchedOK DEF EngineOK
      <4>4. engine' = [e EXCEPT !.released = TRUE, !.closed = TRUE]
        BY <4>1, <4>2
      <4>5. QED BY <4>3, <4>4 DEF EngineOK, EngineValues, GoodContext
    <3>2. CASE ~(op # None \/ Pending # {})
      <4>1. engine' = [engine EXCEPT !.released = TRUE]
        BY <1>1, <3>2 DEF ReleaseToCompletion
      <4>2. QED BY <1>0, <3>2, <4>1 DEF EngineOK, EngineValues
    <3>3. QED BY <3>1, <3>2
  <2>4. Linked' /\ HostOK' /\ Counted'
    BY <1>0, <2>1, <2>2, <2>3, CountedStill DEF Linked, HostOK
  <2>5. QED BY <1>0, <1>a, <2>1, <2>3, <2>4, Preserved
<1>2. ASSUME turn' \in TurnValues, turn'.archived = turn.archived, env' \in EnvValues, env'.calls = env.calls,
             UNCHANGED <<engine, op, queue, tool, ask, heard>>
      PROVE  ConvInv'
  <2>1. TurnOK(turn') /\ OpOK(op') /\ EngineOK(engine')
    BY <1>0, <1>2 DEF TurnOK
  <2>2. Linked' /\ HostOK' /\ Counted'
    BY <1>0, <1>2, CountedStill DEF Linked, HostOK
  <2>3. QED BY <1>a, <1>2, <2>1, <2>2, Preserved
<1>3. CASE EndGeneration
  <2>1. /\ turn' = [turn EXCEPT !.permit = "persist", !.draft = Last(heard)]
        /\ UNCHANGED <<engine, op, queue, tool, ask, heard>>
    BY <1>3 DEF EndGeneration
  <2>2. Last(heard) \in Messages
    BY <1>0, <1>3 DEF EndGeneration, IsFinal, Last, HostOK
  <2>3. turn' \in TurnValues /\ turn'.archived = turn.archived
    BY <1>0, <2>1, <2>2 DEF TurnValues
  <2>4. env' \in EnvValues /\ env'.calls = env.calls
    <3>1. PICK x \in BOOLEAN : env' = [env EXCEPT !.orderly = x]
      <4>1. /\ env' = [env EXCEPT !.orderly = env.orderly /\ ~Busy /\ engine.released]
            /\ (env.orderly /\ ~Busy /\ engine.released) \in BOOLEAN
        BY <1>3 DEF EndGeneration
      <4>2. QED BY <4>1
    <3>2. QED BY <3>1, EnvMoved
  <2>5. QED BY <1>2, <2>1, <2>3, <2>4
<1>4. CASE Cancel
  <2>1. turn' = [turn EXCEPT !.permit = "ended"] /\ UNCHANGED <<engine, op, queue, tool, ask, heard>>
    BY <1>4 DEF Cancel
  <2>2. turn' \in TurnValues /\ turn'.archived = turn.archived
    BY <1>0, <2>1 DEF TurnValues
  <2>3. env' \in EnvValues /\ env'.calls = env.calls
    BY <1>4, EnvMoved DEF Cancel
  <2>4. QED BY <1>2, <2>1, <2>2, <2>3
<1>5. CASE PersistCompletedHistory
  <2>1. PICK ok \in BOOLEAN :
          /\ ok => /\ op = None /\ ~engine.failed /\ engine.sealed # None /\ Pending = {}
                   /\ IsFinal(engine.sealed.msgs)
          /\ op' = IF engine.released /\ ok THEN NewOp("persist", "check") ELSE op
          /\ engine' = IF engine.released /\ ~ok THEN Latched ELSE engine
          /\ turn' = [turn EXCEPT !.permit = IF engine.released /\ ok THEN "persisting" ELSE "ended"]
    <3> DEFINE ok == /\ op = None /\ ~engine.failed /\ engine.sealed # None /\ Pending = {}
                     /\ IsFinal(engine.sealed.msgs)
    <3>1. /\ op' = IF engine.released /\ ok THEN NewOp("persist", "check") ELSE op
          /\ engine' = IF engine.released /\ ~ok THEN Latched ELSE engine
          /\ turn' = [turn EXCEPT !.permit = IF engine.released /\ ok THEN "persisting" ELSE "ended"]
      BY <1>5 DEF PersistCompletedHistory
    <3>2. ok \in BOOLEAN
      OBVIOUS
    <3>3. ok => /\ op = None /\ ~engine.failed /\ engine.sealed # None /\ Pending = {}
                /\ IsFinal(engine.sealed.msgs)
      OBVIOUS
    <3> HIDE DEF ok
    <3>4. QED BY <3>1, <3>2, <3>3
  <2>2. UNCHANGED <<queue, tool, ask, heard, env>>
    BY <1>5 DEF PersistCompletedHistory
  <2>3. turn' \in TurnValues /\ turn'.archived = turn.archived
    <3>1. PICK p \in {"persisting", "ended"} : turn' = [turn EXCEPT !.permit = p]
      BY <2>1
    <3>2. QED BY <1>0, <3>1 DEF TurnValues
  <2>4. TurnOK(turn') /\ HostOK'
    BY <1>0, <2>2, <2>3 DEF TurnOK, HostOK
  <2>5. EngineOK(engine') /\ engine'.history = engine.history /\ (engine' = engine \/ engine'.failed)
    BY <1>0, <2>1, LatchedOK
  <2>6. CASE op' = op
    <3>1. Linked' /\ Counted' /\ OpOK(op')
      BY <1>0, <2>2, <2>5, <2>6, CountedStill DEF Linked
    <3>2. QED BY <1>a, <2>2, <2>4, <2>5, <3>1, Preserved
  <2>7. CASE engine.released /\ ok
    <3>1. PICK o : o = NewOp("persist", "check")
      OBVIOUS
    <3>2. IsNew(o, "persist", "check", None, <<>>)
      BY <3>1, PlainOperation DEF Kinds, Places
    <3>3. op' = o /\ OpOK(o) /\ op = None
      BY <2>1, <2>7, <3>1, <3>2 DEF IsNew, OpOK
    <3>4. op'.kind = "persist"
      BY <3>2, <3>3 DEF IsNew
    <3>5. Linked' /\ Compacting(op)' = 0 /\ Compacting(op) = 0
      BY <3>3, <3>4 DEF Linked, Compacting
    <3>6. Counted'
      BY <1>0, <2>2, <2>5, <3>5 DEF Counted
    <3>7. QED BY <1>a, <2>2, <2>4, <2>5, <3>3, <3>5, <3>6, Preserved
  <2>8. QED BY <2>1, <2>6, <2>7
<1>6. CASE CheckPersist
  <2>1. op # None /\ op.kind = "persist" /\ op.at \in {"check", "recheck"} /\ env' = env
    BY <1>6 DEF CheckPersist, At, Runs
  <2>2. CASE ~(Valid /\ turn.permit = "persisting")
    BY <1>6, <2>1, <2>2, ThrownOK DEF CheckPersist
  <2>3. CASE Valid /\ turn.permit = "persisting"
    <3>1. PICK at \in {"write", "return"} : Goto(at) /\ UNCHANGED <<engine, queue, tool, ask, heard, turn, env>>
      BY <1>6, <2>1, <2>3 DEF CheckPersist
    <3>2. EngineOK(engine') /\ TurnOK(turn') /\ engine'.history = engine.history
      BY <1>0, <3>1
    <3>3. QED BY <2>1, <3>1, <3>2, WentOn DEF Places
  <2>4. QED BY <2>2, <2>3
<1>7. CASE ArchiveHistory
  <2>1. op # None /\ op.kind = "persist" /\ op.at = "write" /\ env' = env
    BY <1>7 DEF ArchiveHistory, At, Runs
  <2>2. CASE ~Valid
    BY <1>7, <2>1, <2>2, ThrownOK DEF ArchiveHistory
  <2>3. CASE Valid
    <3>1. /\ turn' = [turn EXCEPT !.archived = op.had.msgs] /\ Goto("recheck")
          /\ UNCHANGED <<engine, queue, tool, ask, heard, env>>
      BY <1>7, <2>3 DEF ArchiveHistory
    <3>2. PICK msgs : msgs = op.had.msgs
      OBVIOUS
    <3>3. Genuine(msgs) /\ IsFinal(msgs)
      BY <1>0, <2>1, <3>2 DEF OpOK, GoodContext
    <3>4. WholeBatches(msgs) /\ msgs \in Seq(Messages)
      BY <3>3, FinalWhole DEF Genuine
    <3>5. turn' = [turn EXCEPT !.archived = msgs]
      BY <3>1, <3>2
    <3>6. turn' \in TurnValues /\ turn'.archived = msgs
      BY <1>0, <3>4, <3>5 DEF TurnValues
    <3>7. TurnOK(turn') /\ EngineOK(engine') /\ engine'.history = engine.history
      BY <1>0, <3>1, <3>3, <3>4, <3>6 DEF TurnOK
    <3>8. QED BY <2>1, <3>1, <3>7, WentOn DEF Places
  <2>4. QED BY <2>2, <2>3
<1>8. CASE Publish
  <2>1. PICK b \in BOOLEAN : /\ turn' = [turn EXCEPT !.permit = "ended", !.published = b]
                             /\ UNCHANGED <<engine, op, queue, tool, ask, heard, env>>
    BY <1>8 DEF Publish
  <2>2. turn' \in TurnValues /\ turn'.archived = turn.archived
    BY <1>0, <2>1 DEF TurnValues
  <2>3. env' \in EnvValues /\ env'.calls = env.calls
    BY <2>1, EnvFields
  <2>4. QED BY <1>2, <2>1, <2>2, <2>3
<1>9. CASE SourcesMove
  <2>1. env' \in EnvValues /\ env'.calls = env.calls
    BY <1>9, FaultOK DEF SourcesMove
  <2>2. QED BY <1>0, <1>2, <1>9, <2>1 DEF SourcesMove
<1>10. QED BY <1>1, <1>3, <1>4, <1>5, <1>6, <1>7, <1>8, <1>9

LEMMA ConvInit ==
  ASSUME Init
  PROVE  ConvInv
<1>1. engine \in EngineValues /\ engine.sealed = None /\ engine.history = 0
  BY BoundsAssumption DEF Init, EngineValues
<1>2. EngineOK(engine) /\ OpOK(op) /\ Linked /\ op = None
  BY <1>1 DEF Init, EngineOK, OpOK, Linked, GoodContext
<1>3. AsksOK
  <2>1. NewAsk \in AskValues /\ NewAsk.at = "idle" /\ NewAsk.had = None /\ NewAsk.answer = None /\ ~NewAsk.sent
    BY DEF NewAsk, AskValues
  <2>2. \A m \in Asks : AskOK(m, NewAsk)
    BY <2>1 DEF AskOK, Unsent, WithAnswer, GoodContext
  <2>3. ask = [m \in Asks |-> NewAsk]
    BY DEF Init
  <2>4. ask \in [Asks -> AskValues] /\ \A m \in Asks : ask[m] = NewAsk
    BY <2>1, <2>3
  <2>5. QED BY <2>2, <2>4 DEF AsksOK
<1>4. TurnOK(turn)
  BY DEF Init, TurnOK, TurnValues
<1>5. HostOK /\ env.calls = 0
  BY BoundsAssumption DEF Init, HostOK, EnvValues
<1>6. Counted
  BY <1>1, <1>2, <1>5 DEF Counted, Compacting
<1>7. QED BY <1>2, <1>3, <1>4, <1>5, <1>6 DEF ConvInv

LEMMA ConvSteps ==
  ASSUME ConvInv, [Next]_vars
  PROVE  ConvInv'
<1>1. CASE UNCHANGED vars
  <2>1. UNCHANGED <<engine, op, queue, tool, ask, heard, turn, env>>
    BY <1>1 DEF vars
  <2>2. HostOK'
    BY <2>1 DEF ConvInv, HostOK
  <2>3. QED BY <2>1, <2>2, HostOnly
<1>2. CASE Next
  BY <1>2, ConvHostSteps, ConvToolSteps, ConvAskSteps, ConvExtendStep, ConvFinalSteps DEF Next, GoesOn
<1>3. QED BY <1>1, <1>2

-----------------------------------------------------------------------------

\* The engine, its operation, the model calls, the Host and the completion hold what they are
\* made for, whatever is refused, fails or is cancelled on the way.
THEOREM TypesHold == Spec => []TypeOK
<1>1. ConvInv /\ [Next]_vars => ConvInv'
  BY ConvSteps
<1>2. Spec => []ConvInv
  BY <1>1, ConvInit, PTL DEF Spec
<1>3. ConvInv => TypeOK
  BY DEF ConvInv, TypeOK, Operations, EngineOK, EngineValues, OpOK, OpValues, AsksOK, AskValues, TurnOK, TurnValues,
         HostOK, EnvValues, Kinds, Places
<1>4. QED BY <1>2, <1>3, PTL

\* What is sealed, what was sent to the model and what is archived is a genuine conversation:
\* its answers were given to exactly the messages before them, and every batch that was sent or
\* archived is whole and in call order, whatever interleaves.
THEOREM ConversationsAreGenuine == Spec => []ConversationIsGenuine
<1>1. ConvInv /\ [Next]_vars => ConvInv'
  BY ConvSteps
<1>2. Spec => []ConvInv
  BY <1>1, ConvInit, PTL DEF Spec
<1>3. ASSUME ConvInv PROVE ConversationIsGenuine
  <2>1. engine.sealed # None => OwnAnswers(engine.sealed.msgs)
    BY <1>3 DEF ConvInv, EngineOK, GoodContext, Genuine
  <2>2. \A m \in Asks : ask[m].sent => OwnAnswers(ask[m].input) /\ WholeBatches(ask[m].input)
    BY <1>3 DEF ConvInv, AsksOK, AskOK, Genuine
  <2>3. turn.archived # None => OwnAnswers(turn.archived) /\ WholeBatches(turn.archived)
    BY <1>3 DEF ConvInv, TurnOK, Genuine
  <2>4. QED BY <2>1, <2>2, <2>3 DEF ConversationIsGenuine
<1>4. QED BY <1>2, <1>3, PTL

-----------------------------------------------------------------------------
(* What the Host has heard *)

\* Every answer in msgs was given to what stands before it there, and was delivered.
HeardOK(msgs) ==
  Owned(msgs, Len(msgs)) /\ \A i \in 1..Len(msgs) : msgs[i].role = "assistant" => ask[msgs[i].by].at = "done"

\* The contexts that may become the one that is archived.
AllHeld ==
  (IF engine.sealed # None THEN {engine.sealed.msgs} ELSE {})
  \union (IF op # None /\ op.kind \in {"loop", "result", "output", "persist"} THEN {op.had.msgs} ELSE {})
  \union (IF turn.archived # None THEN {turn.archived} ELSE {})

EndsWith(msgs, answer) == msgs # <<>> /\ Last(msgs) = answer

\* The Host has nothing more to gather.
Gatherless(msgs) == msgs # <<>> /\ Last(msgs).role = "assistant" => Last(msgs).calls = <<>>

DraftOK ==
  turn.draft # None =>
    /\ turn.draft.role = "assistant" /\ turn.draft.by \in Asks
    /\ ask[turn.draft.by].at = "done" /\ ask[turn.draft.by].answer = turn.draft
    /\ Gatherless(heard)
    /\ \A msgs \in AllHeld : EndsWith(msgs, turn.draft) => heard = msgs

OpenedPlain ==
  Runs("open") /\ op.at = "return" /\ ~engine.failed =>
    \A i \in 1..Len(engine.sealed.msgs) : engine.sealed.msgs[i].role # "assistant"

Phases ==
  /\ turn.permit \in {"persist", "persisting", "publish"} => turn.draft # None
  /\ turn.permit = "generate" => turn.draft = None
  /\ Runs("persist") => /\ engine.released /\ turn.draft # None /\ turn.permit \in {"persisting", "ended"}
                        /\ op.at \in {"check", "write", "recheck", "return"}
  /\ Runs("persist") /\ op.at \in {"recheck", "return"} => turn.archived = op.had.msgs
  /\ turn.archived # None => engine.released /\ turn.draft # None /\ (op = None \/ Runs("persist"))
  /\ turn.permit = "publish" => turn.archived # None
  /\ turn.permit = "persist" => turn.archived = None
  /\ turn.published => /\ turn.permit = "ended" /\ ~Runs("persist")
                       /\ turn.archived # None /\ Last(turn.archived) = turn.draft

HeardInv ==
  HeardOK(heard) /\ (\A m \in Asks : HeardOK(ask[m].input)) /\ DraftOK /\ OpenedPlain /\ Phases

\* Delivered answers stay delivered.
DoneStays == \A m \in Asks : ask[m].at = "done" => ask'[m].at = "done"

\* What is held after the step was held before it, or does not end with the draft.
HeldStep ==
  turn.draft # None => \A msgs : msgs \in AllHeld' => msgs \in AllHeld \/ ~EndsWith(msgs, turn.draft)

LEMMA HeardStable ==
  ASSUME AsksGrow, DoneStays, NEW msgs, HeardOK(msgs)
  PROVE  HeardOK(msgs)'
<1>1. \A i \in 1..Len(msgs) : OwnAt(msgs, i) => OwnAt(msgs, i)'
  BY DEF AsksGrow, OwnAt, Past, Over
<1>2. Owned(msgs, Len(msgs))'
  BY <1>1 DEF Owned, HeardOK
<1>3. ASSUME NEW i \in 1..Len(msgs), msgs[i].role = "assistant" PROVE ask'[msgs[i].by].at = "done"
  <2>1. msgs[i].by \in Asks /\ ask[msgs[i].by].at = "done"
    BY <1>3 DEF HeardOK, Owned, OwnAt
  <2>2. QED BY <2>1 DEF DoneStays
<1>4. QED BY <1>2, <1>3 DEF HeardOK

LEMMA HeardPreserved ==
  ASSUME HeardInv, AsksGrow, DoneStays, HeardOK(heard)', \A m \in Asks : HeardOK(ask'[m].input),
         DraftOK', OpenedPlain', Phases'
  PROVE  HeardInv'
<1>1. ASSUME NEW m \in Asks PROVE HeardOK(ask[m].input)'
  <2>1. PICK msgs : msgs = ask'[m].input
    OBVIOUS
  <2>2. HeardOK(msgs)
    BY <2>1
  <2>3. HeardOK(msgs)'
    BY <2>2, HeardStable
  <2>4. QED BY <2>1, <2>3
<1>2. QED BY <1>1 DEF HeardInv

LEMMA HeardSame ==
  ASSUME AsksGrow, DoneStays, HeardOK(heard')
  PROVE  HeardOK(heard)'
<1>1. PICK msgs : msgs = heard'
  OBVIOUS
<1>2. HeardOK(msgs)'
  BY <1>1, HeardStable
<1>3. QED BY <1>1, <1>2

\* The draft stays as it is, and so does what the Host has heard.
LEMMA DraftStill ==
  ASSUME DraftOK, AsksGrow, DoneStays, turn'.draft = turn.draft, heard' = heard, HeldStep
  PROVE  DraftOK'
<1>1. SUFFICES ASSUME turn.draft # None
               PROVE  /\ turn.draft.role = "assistant" /\ turn.draft.by \in Asks
                      /\ ask'[turn.draft.by].at = "done" /\ ask'[turn.draft.by].answer = turn.draft
                      /\ Gatherless(heard)
                      /\ \A msgs \in AllHeld' : EndsWith(msgs, turn.draft) => heard = msgs
  BY DEF DraftOK, Gatherless, EndsWith
<1>2. /\ turn.draft.role = "assistant" /\ turn.draft.by \in Asks
      /\ ask[turn.draft.by].at = "done" /\ ask[turn.draft.by].answer = turn.draft
      /\ Gatherless(heard)
      /\ \A msgs \in AllHeld : EndsWith(msgs, turn.draft) => heard = msgs
  BY <1>1 DEF DraftOK
<1>3. ask'[turn.draft.by].at = "done" /\ ask'[turn.draft.by].answer = turn.draft
  BY <1>2 DEF AsksGrow, DoneStays, Past
<1>4. \A msgs \in AllHeld' : EndsWith(msgs, turn.draft) => heard = msgs
  BY <1>1, <1>2 DEF HeldStep
<1>5. QED BY <1>2, <1>3, <1>4

LEMMA NoDraft ==
  ASSUME turn'.draft = None
  PROVE  DraftOK'
BY DEF DraftOK

\* Model calls that do not begin or end leave what was heard in them.
LEMMA InputsSame ==
  ASSUME HeardInv, \A m \in Asks : ask'[m].input = ask[m].input
  PROVE  \A m \in Asks : HeardOK(ask'[m].input)
BY DEF HeardInv

LEMMA AsksUntouched ==
  ASSUME HeardInv, ask' = ask
  PROVE  AsksGrow /\ DoneStays /\ \A m \in Asks : HeardOK(ask'[m].input)
BY DEF HeardInv, AsksGrow, DoneStays, Past, Over

\* Contexts that end with a delivered answer are what was asked, and that answer.
LEMMA AnsweredPart ==
  ASSUME NEW msgs \in Seq(Messages), Owned(msgs, Len(msgs)), NEW answer, EndsWith(msgs, answer),
         answer.role = "assistant"
  PROVE  msgs = Append(ask[answer.by].input, answer)
<1> DEFINE n == Len(msgs)
           input == SubSeq(msgs, 1, n - 1)
<1>1. n \in Nat /\ n > 0 /\ msgs[n] = answer
  BY DEF EndsWith, Last
<1>2. ask[answer.by].input = input
  BY <1>1 DEF Owned, OwnAt
<1>3. input \in Seq(Messages) /\ Len(input) = n - 1 /\ \A j \in 1..(n - 1) : input[j] = msgs[j]
  <2>1. PICK k \in Nat : k = n - 1 /\ k <= n
    BY <1>1
  <2>2. /\ SubSeq(msgs, 1, k) \in Seq(Messages) /\ Len(SubSeq(msgs, 1, k)) = k
        /\ \A j \in 1..k : SubSeq(msgs, 1, k)[j] = msgs[j]
    BY <2>1
  <2>3. QED BY <2>1, <2>2
<1>4. answer \in Messages
  BY <1>1
<1> HIDE DEF input
<1> DEFINE new == Append(input, answer)
<1>5. new \in Seq(Messages) /\ Len(new) = n /\ \A j \in 1..n : new[j] = msgs[j]
  BY <1>1, <1>3, <1>4
<1> HIDE DEF new
<1>6. new = msgs
  BY <1>5
<1>7. QED BY <1>2, <1>6 DEF new

\* A Host that awaits no result gathers none.
LEMMA GathersNothing ==
  ASSUME heard \in Seq(Messages), Gatherless(heard), NEW settled
  PROVE  Gathered(settled) = heard
<1>1. CASE heard # <<>> /\ Last(heard).role = "assistant"
  <2>1. Last(heard).calls = <<>>
    BY <1>1 DEF Gatherless
  <2>2. Results(<<>>) = <<>>
    <3>1. Len(<<>>) = 0 /\ 1..0 = {}
      OBVIOUS
    <3>2. QED BY <3>1 DEF Results
  <2>3. heard \o <<>> = heard
    OBVIOUS
  <2>4. QED BY <2>1, <2>2, <2>3 DEF Gathered
<1>2. CASE ~(heard # <<>> /\ Last(heard).role = "assistant")
  BY <1>2 DEF Gathered
<1>3. QED BY <1>1, <1>2

\* The results that the Host gathers are nobody's answers.
LEMMA GatheredOK ==
  ASSUME heard \in Seq(Messages), HeardOK(heard), NEW settled
  PROVE  HeardOK(Gathered(settled))
<1>1. CASE heard # <<>> /\ Last(heard).role = "assistant"
  <2> DEFINE calls == Last(heard).calls
             results == Results(calls)
             new == heard \o results
             n == Len(heard)
  <2>1. Last(heard) \in Messages
    BY <1>1 DEF Last
  <2>2. calls \in Seq(Tools)
    BY <2>1 DEF Messages
  <2> HIDE DEF calls
  <2>3. \A k \in 1..Len(calls) : Result(calls[k]) \in Messages
    BY <2>2 DEF Result, Messages
  <2>4. /\ results \in Seq(Messages) /\ Len(results) = Len(calls) /\ Len(calls) \in Nat
        /\ \A k \in 1..Len(calls) : results[k] = Result(calls[k])
    BY <2>2, <2>3 DEF Results
  <2> HIDE DEF results
  <2>5. /\ new \in Seq(Messages) /\ Len(new) = n + Len(calls) /\ n \in Nat
        /\ \A j \in 1..n : new[j] = heard[j]
        /\ \A k \in 1..Len(calls) : new[n + k] = results[k]
    BY <2>4
  <2> HIDE DEF new, n
  <2>6. Agree(heard, new, n)
    BY <2>4, <2>5 DEF Agree, n
  <2>7. Owned(new, n)
    BY <2>5, <2>6, Carried DEF HeardOK, n
  <2>8. \A j \in 1..Len(new) : j \in 1..n \/ new[j].role = "toolResult"
    <3>1. SUFFICES ASSUME NEW j \in 1..Len(new), j \notin 1..n PROVE new[j].role = "toolResult"
      OBVIOUS
    <3>2. j - n \in 1..Len(calls) /\ n + (j - n) = j
      BY <2>4, <2>5, <3>1
    <3>3. new[n + (j - n)] = Result(calls[j - n])
      BY <2>4, <2>5, <3>2
    <3>4. QED BY <3>2, <3>3 DEF Result
  <2>9. Owned(new, Len(new))
    BY <2>7, <2>8 DEF Owned
  <2>10. HeardOK(new)
    BY <2>5, <2>8, <2>9 DEF HeardOK, n
  <2>11. QED BY <2>10 DEF Gathered, new, results, calls
<1>2. CASE ~(heard # <<>> /\ Last(heard).role = "assistant")
  BY <1>2 DEF Gathered
<1>3. QED BY <1>1, <1>2

\* A conversation without an answer was heard as well as any.
LEMMA PlainHeard ==
  ASSUME NEW msgs, \A i \in 1..Len(msgs) : msgs[i].role # "assistant"
  PROVE  HeardOK(msgs)
BY DEF HeardOK, Owned

LEMMA HeardSettled ==
  ASSUME ConvInv, HeardInv, op # None, NEW ok \in BOOLEAN, ok => op.at = "return" /\ ~engine.failed,
         Settle(ok), engine' = engine \/ engine' = Latched
  PROVE  HeardInv'
<1>1. /\ HeardOK(heard) /\ DraftOK /\ OpenedPlain /\ Phases
      /\ heard \in Seq(Messages) /\ turn \in TurnValues
  BY DEF HeardInv, ConvInv, HostOK, TurnOK
<1>2. AsksGrow /\ DoneStays /\ \A m \in Asks : HeardOK(ask'[m].input)
  <2>1. AsksStep /\ \A m \in Asks : ask'[m].input = ask[m].input /\ (ask[m].at = "done" => ask'[m].at = "done")
    BY SettledAsks
  <2>2. QED BY <2>1, InputsSame DEF AsksStep, DoneStays
<1>3. op' = None
  BY DEF Settle
<1>4. engine'.released = engine.released /\ (engine' = engine \/ engine'.sealed = None)
  BY LatchedOK DEF ConvInv
<1>5. /\ turn'.draft = turn.draft /\ turn'.archived = turn.archived /\ turn'.published = turn.published
      /\ op.kind # "persist" => turn'.permit = turn.permit
      /\ op.kind = "persist" => turn'.permit = IF ok THEN "publish" ELSE "ended"
  <2>1. CASE op.kind = "output"
    <3>1. PICK r : turn' = [turn EXCEPT !.rejected = r]
      BY <2>1 DEF Settle
    <3>2. QED BY <1>1, <2>1, <3>1 DEF TurnValues
  <2>2. CASE op.kind = "persist"
    <3>1. turn' = [turn EXCEPT !.permit = IF ok THEN "publish" ELSE "ended"]
      BY <2>2 DEF Settle
    <3>2. QED BY <1>1, <2>2, <3>1 DEF TurnValues
  <2>3. CASE op.kind # "output" /\ op.kind # "persist"
    <3>1. turn' = turn
      BY <2>3 DEF Settle
    <3>2. QED BY <2>3, <3>1
  <2>4. QED BY <2>1, <2>2, <2>3
<1>6. HeldStep
  <2>1. ASSUME NEW msgs, msgs \in AllHeld' PROVE msgs \in AllHeld
    BY <1>3, <1>4, <1>5, <2>1 DEF AllHeld
  <2>2. QED BY <2>1 DEF HeldStep
<1>7. OpenedPlain'
  BY <1>3 DEF OpenedPlain, Runs
<1>8. Phases'
  <2>1. op.kind = "persist" <=> Runs("persist")
    BY DEF Runs
  <2>2. ~Runs("persist")'
    BY <1>3 DEF Runs
  <2>3. CASE op.kind # "persist"
    BY <1>1, <1>3, <1>4, <1>5, <2>1, <2>2, <2>3 DEF Phases
  <2>4. CASE op.kind = "persist" /\ ~ok
    BY <1>1, <1>3, <1>4, <1>5, <2>1, <2>2, <2>4 DEF Phases
  <2>5. CASE op.kind = "persist" /\ ok
    <3>1. turn.archived = op.had.msgs /\ op.at = "return"
      BY <1>1, <2>1, <2>5 DEF Phases
    <3>2. op.had # None /\ GoodContext(op.had)
      BY <2>5 DEF ConvInv, OpOK
    <3>3. turn.archived \in Seq(Messages)
      BY <3>1, <3>2 DEF GoodContext, Genuine
    <3>4. turn.archived # None
      BY <3>3, NoneAssumption
    <3>5. QED BY <1>1, <1>3, <1>4, <1>5, <2>1, <2>2, <2>5, <3>4 DEF Phases
  <2>6. QED BY <2>3, <2>4, <2>5
<1>9. ASSUME heard' = heard PROVE HeardInv'
  <2>1. HeardOK(heard)'
    BY <1>1, <1>2, <1>9, HeardSame
  <2>2. DraftOK'
    BY <1>1, <1>2, <1>5, <1>6, <1>9, DraftStill
  <2>3. QED BY <1>2, <1>7, <1>8, <2>1, <2>2, HeardPreserved
<1>10. CASE op.kind = "open" /\ ok
  <2>1. heard' = engine.sealed.msgs
    BY <1>10 DEF Settle
  <2>2. PICK msgs : msgs = engine.sealed.msgs
    OBVIOUS
  <2>3. \A i \in 1..Len(msgs) : msgs[i].role # "assistant"
    BY <1>1, <1>10, <2>2 DEF OpenedPlain, Runs
  <2>4. HeardOK(heard)'
    BY <1>2, <2>1, <2>2, <2>3, PlainHeard, HeardSame
  <2>5. msgs \in Seq(Messages)
    BY <1>10, <2>2 DEF ConvInv, Linked, EngineOK, GoodContext, Genuine
  <2>6. msgs # <<>> => Last(msgs).role # "assistant"
    BY <2>3, <2>5 DEF Last
  <2>7. DraftOK'
    <3>1. SUFFICES ASSUME turn.draft # None
                   PROVE  /\ turn.draft.role = "assistant" /\ turn.draft.by \in Asks
                          /\ ask'[turn.draft.by].at = "done" /\ ask'[turn.draft.by].answer = turn.draft
                          /\ Gatherless(msgs)
                          /\ \A x \in AllHeld' : EndsWith(x, turn.draft) => msgs = x
      BY <1>5, <2>1, <2>2 DEF DraftOK, Gatherless, EndsWith
    <3>2. /\ turn.draft.role = "assistant" /\ turn.draft.by \in Asks
          /\ ask[turn.draft.by].at = "done" /\ ask[turn.draft.by].answer = turn.draft
      BY <1>1, <3>1 DEF DraftOK
    <3>3. ask'[turn.draft.by].at = "done" /\ ask'[turn.draft.by].answer = turn.draft
      BY <1>2, <3>2 DEF AsksGrow, DoneStays, Past
    <3>4. Gatherless(msgs)
      BY <2>6 DEF Gatherless
    <3>5. turn.archived = None
      BY <1>1, <1>10 DEF Phases, Runs
    <3>6. \A x \in AllHeld' : x = msgs
      BY <1>3, <1>4, <1>5, <2>2, <3>5 DEF AllHeld
    <3>7. QED BY <3>2, <3>3, <3>4, <3>6
  <2>8. QED BY <1>2, <1>7, <1>8, <2>4, <2>7, HeardPreserved
<1>11. CASE op.kind = "output" /\ ok /\ Delivers(op.who)
  <2>1. /\ heard' = Append(ask[op.who].input, ask[op.who].answer)
        /\ ask' = [ask EXCEPT ![op.who].at = "done"]
    BY <1>11 DEF Settle
  <2>2. PICK m \in Asks : m = op.who /\ ask[m].at = "observing"
    BY <1>11 DEF ConvInv, OpOK, Linked
  <2>3. AskOK(m, ask[m]) /\ AsksOK
    BY AskFieldsOK
  <2>4. PICK calls \in Batches : ask[m].answer = Answer(m, calls)
    BY <2>2, <2>3 DEF AskOK, Unsent, WithAnswer
  <2>5. PICK msgs : msgs = ask[m].input
    OBVIOUS
  <2>6. Genuine(msgs) /\ WholeBatches(msgs) /\ ask[m].sent /\ Past(m) /\ HeardOK(msgs)
    BY <2>2, <2>3, <2>5 DEF AskOK, Unsent, WithAnswer, Past, HeardInv
  <2>7. PICK answer : answer = Answer(m, calls)
    OBVIOUS
  <2>8. PICK new : new = Append(msgs, answer)
    OBVIOUS
  <2>9. Genuine(new)
    BY <2>4, <2>5, <2>6, <2>7, <2>8, Answering
  <2>10. Genuine(new)'
    BY <1>2, <2>9, Stable
  <2>11. Owned(new, Len(new))'
    BY <2>10 DEF Genuine, Owned, OwnAt, OwnAnswers, Spoken
  <2>12. /\ Len(new) = Len(msgs) + 1 /\ Len(msgs) \in Nat /\ new[Len(msgs) + 1] = answer /\ answer.by = m
         /\ \A j \in 1..Len(msgs) : new[j] = msgs[j]
    BY <2>6, <2>7, <2>8 DEF Genuine, Answer
  <2>13. ask'[m].at = "done"
    BY <2>1, <2>2, <2>3 DEF AsksOK, AskValues
  <2>14. ASSUME NEW i \in 1..Len(new), new[i].role = "assistant" PROVE ask'[new[i].by].at = "done"
    <3>1. CASE i = Len(msgs) + 1
      BY <2>12, <2>13, <3>1
    <3>2. CASE i \in 1..Len(msgs)
      <4>1. new[i] = msgs[i] /\ msgs[i].by \in Asks /\ ask[msgs[i].by].at = "done"
        BY <2>6, <2>12, <2>14, <3>2 DEF HeardOK, Owned, OwnAt
      <4>2. QED BY <1>2, <4>1 DEF DoneStays
    <3>3. QED BY <2>12, <3>1, <3>2
  <2>15. HeardOK(new)'
    BY <2>11, <2>14 DEF HeardOK
  <2>16. heard' = new
    BY <2>1, <2>2, <2>4, <2>5, <2>7, <2>8
  <2>17. HeardOK(heard)'
    BY <2>15, <2>16
  <2>18. DraftOK'
    BY <1>1, <1>5, <1>11, NoDraft DEF Phases, Delivers
  <2>19. QED BY <1>2, <1>7, <1>8, <2>17, <2>18, HeardPreserved
<1>12. CASE op.kind = "result"
  <2>1. PICK settled : heard' = Gathered(settled)
    BY <1>12 DEF Settle
  <2>2. CASE turn.draft = None
    <3>1. HeardOK(Gathered(settled))
      BY <1>1, GatheredOK
    <3>2. HeardOK(heard)'
      BY <1>2, <2>1, <3>1, HeardSame
    <3>3. DraftOK'
      BY <1>5, <2>2, NoDraft
    <3>4. QED BY <1>2, <1>7, <1>8, <3>2, <3>3, HeardPreserved
  <2>3. CASE turn.draft # None
    <3>1. Gathered(settled) = heard
      BY <1>1, <2>3, GathersNothing DEF DraftOK
    <3>2. QED BY <1>9, <2>1, <3>1
  <2>4. QED BY <2>2, <2>3
<1>13. CASE ~(op.kind = "open" /\ ok) /\ ~(op.kind = "output" /\ ok /\ Delivers(op.who)) /\ op.kind # "result"
  <2>1. heard' = heard
    BY <1>13 DEF Settle
  <2>2. QED BY <1>9, <2>1
<1>14. QED BY <1>10, <1>11, <1>12, <1>13

\* What the Host has heard stays, and so do the model calls.
LEMMA HeardStill ==
  ASSUME HeardInv, ask' = ask, heard' = heard, turn'.draft = turn.draft, HeldStep, OpenedPlain', Phases'
  PROVE  HeardInv'
<1>1. AsksGrow /\ DoneStays /\ \A m \in Asks : HeardOK(ask'[m].input)
  BY AsksUntouched
<1>2. HeardOK(heard)'
  BY <1>1, HeardSame DEF HeardInv
<1>3. DraftOK'
  BY <1>1, DraftStill DEF HeardInv
<1>4. QED BY <1>1, <1>2, <1>3, HeardPreserved

\* The Host gathers results, unless its turn has its draft.
LEMMA HeardGathers ==
  ASSUME ConvInv, HeardInv, ask' = ask, NEW settled, heard' = Gathered(settled), turn'.draft = turn.draft,
         HeldStep, OpenedPlain', Phases'
  PROVE  HeardInv'
<1>1. AsksGrow /\ DoneStays /\ \A m \in Asks : HeardOK(ask'[m].input)
  BY AsksUntouched
<1>2. HeardOK(heard) /\ DraftOK /\ heard \in Seq(Messages)
  BY DEF HeardInv, ConvInv, HostOK
<1>3. CASE turn.draft = None
  <2>1. HeardOK(Gathered(settled))
    BY <1>2, GatheredOK
  <2>2. HeardOK(heard)'
    BY <1>1, <2>1, HeardSame
  <2>3. DraftOK'
    BY <1>3, NoDraft
  <2>4. QED BY <1>1, <2>2, <2>3, HeardPreserved
<1>4. CASE turn.draft # None
  <2>1. Gathered(settled) = heard
    BY <1>2, <1>4, GathersNothing DEF DraftOK
  <2>2. QED BY <2>1, HeardStill
<1>5. QED BY <1>3, <1>4

\* An operation that is let in holds what was sealed, and nothing is archived yet.
LEMMA HeardEntered ==
  ASSUME ConvInv, HeardInv, NEW o, NEW e, NEW ok \in BOOLEAN, Enter(o, e, ok), turn' = turn,
         Enters(ok) => OpOK(o), o.kind # "persist", o.at # "return", o.had = engine.sealed,
         e.released = engine.released, e.sealed \in {engine.sealed, None}
  PROVE  HeldStep /\ OpenedPlain' /\ Phases'
<1>1. OpenedPlain /\ Phases
  BY DEF HeardInv
<1>2. CASE Enters(ok)
  <2>1. op' = o /\ engine' = e /\ op = None /\ ~engine.released
    BY <1>2 DEF Enter, Enters
  <2>2. turn.archived = None
    BY <1>1, <2>1 DEF Phases
  <2>3. \A msgs : msgs \in AllHeld' => msgs \in AllHeld
    <3>1. o # None => OpOK(o)
      BY <1>2
    <3>2. o # None /\ o.kind \in {"loop", "result", "output", "persist"} => engine.sealed # None
      BY <3>1 DEF OpOK
    <3>3. QED BY <2>1, <2>2, <3>2 DEF AllHeld
  <2>4. OpenedPlain' /\ Phases'
    BY <1>1, <2>1, <2>2 DEF OpenedPlain, Phases, Runs
  <2>5. QED BY <2>3, <2>4 DEF HeldStep
<1>3. CASE ~Enters(ok)
  <2>1. op' = op /\ (engine' = engine \/ engine' = Latched)
    BY <1>3 DEF Enter
  <2>2. engine'.released = engine.released /\ (engine' = engine \/ (engine'.failed /\ engine'.sealed = None))
    BY <2>1, LatchedOK DEF ConvInv
  <2>3. \A msgs : msgs \in AllHeld' => msgs \in AllHeld
    BY <2>1, <2>2 DEF AllHeld
  <2>4. OpenedPlain'
    BY <1>1, <2>1, <2>2 DEF OpenedPlain, Runs
  <2>5. Phases'
    BY <1>1, <2>1, <2>2 DEF Phases, Runs
  <2>6. QED BY <2>3, <2>4, <2>5 DEF HeldStep
<1>4. QED BY <1>2, <1>3

LEMMA HeardObserved ==
  ASSUME ConvInv, HeardInv, NEW o, op = None, op' = o, OpOK(o), UNCHANGED <<engine, turn>>, ~engine.released,
         o.kind = "output", o.at = "extend", o.had = engine.sealed
  PROVE  HeldStep /\ OpenedPlain' /\ Phases'
<1>1. OpenedPlain /\ Phases /\ turn.archived = None
  BY DEF HeardInv, Phases
<1>2. \A msgs : msgs \in AllHeld' => msgs \in AllHeld
  <2>1. o # None => engine.sealed # None
    BY DEF OpOK
  <2>2. QED BY <2>1 DEF AllHeld
<1>3. OpenedPlain' /\ Phases'
  BY <1>1 DEF OpenedPlain, Phases, Runs
<1>4. QED BY <1>2, <1>3 DEF HeldStep

\* The running operation takes a step; what it seals was held before, or is not the end of the turn.
LEMMA HeardMoves ==
  ASSUME ConvInv, HeardInv, op # None, NEW at \in Places, Goto(at), UNCHANGED <<heard, ask, turn>>,
         engine'.released = engine.released,
         engine'.sealed # None /\ turn.draft # None =>
           engine'.sealed.msgs \in AllHeld \/ ~EndsWith(engine'.sealed.msgs, turn.draft),
         op.kind = "open" /\ at = "return" /\ ~engine'.failed =>
           \A i \in 1..Len(engine'.sealed.msgs) : engine'.sealed.msgs[i].role # "assistant",
         op.kind = "persist" => /\ at \in {"write", "recheck", "return"}
                                /\ at \in {"recheck", "return"} => op.at \in {"recheck", "return"}
  PROVE  HeardInv'
<1>1. OpenedPlain /\ Phases
  BY DEF HeardInv
<1>2. op'.kind = op.kind /\ op'.had = op.had /\ op'.at = at /\ (op' # None \/ op' = None)
  BY DEF ConvInv, OpOK, OpValues, Goto
<1>3. HeldStep
  BY <1>2 DEF HeldStep, AllHeld
<1>4. OpenedPlain'
  BY <1>2 DEF OpenedPlain, Runs
<1>5. Phases'
  BY <1>1, <1>2 DEF Phases, Runs
<1>6. QED BY <1>3, <1>4, <1>5, HeardStill

\* A call of the Host that leaves what it has heard.
LEMMA HeardCalls ==
  ASSUME ConvInv, HeardInv, NEW o, NEW e, NEW ok \in BOOLEAN, Enter(o, e, ok), NEW b, Called(b),
         Enters(ok) => OpOK(o), o.kind # "persist", o.at # "return", o.had = engine.sealed,
         e.released = engine.released, e.sealed \in {engine.sealed, None}
  PROVE  HeardInv'
<1>1. UNCHANGED <<ask, heard, turn>>
  BY DEF Called
<1>2. HeldStep /\ OpenedPlain' /\ Phases'
  BY <1>1, HeardEntered
<1>3. QED BY <1>1, <1>2, HeardStill

LEMMA HeardThrown ==
  ASSUME ConvInv, HeardInv, op # None, Throw
  PROVE  HeardInv'
<1>1. engine' = Latched /\ Settle(FALSE)
  BY DEF Throw
<1>2. QED BY <1>1, HeardSettled

LEMMA HeardHostSteps ==
  ASSUME ConvInv, HeardInv,
         \/ Ingest \/ Assemble \/ Archived \/ Seal \/ Project
         \/ \E k \in 0..Len(heard) : Reassemble(SubSeq(heard, 1, k))
         \/ Compact \/ Summarize \/ SaveSummary \/ Return \/ PortFails
  PROVE  HeardInv'
<1>0. engine \in EngineValues /\ OpenedPlain /\ Phases /\ DraftOK
  BY DEF ConvInv, EngineOK, HeardInv
<1>1. CASE Ingest
  <2>1. PICK o : o = NewOp("ingest", "archive")
    OBVIOUS
  <2>2. IsNew(o, "ingest", "archive", None, <<>>)
    BY <2>1, PlainOperation DEF Kinds, Places
  <2>3. OpOK(o) /\ o.kind = "ingest" /\ o.at = "archive" /\ o.had = engine.sealed
    BY <2>2 DEF IsNew, OpOK
  <2>4. Enter(o, engine, TRUE) /\ Called(TRUE)
    BY <1>1, <2>1 DEF Ingest
  <2>5. QED BY <2>3, <2>4, HeardCalls
<1>2. CASE Assemble
  <2>1. PICK o : o = NewOp("open", "archive")
    OBVIOUS
  <2>2. IsNew(o, "open", "archive", None, <<>>)
    BY <2>1, PlainOperation DEF Kinds, Places
  <2>3. OpOK(o) /\ o.kind = "open" /\ o.at = "archive" /\ o.had = engine.sealed
    BY <2>2 DEF IsNew, OpOK
  <2>4. PICK e : e = [engine EXCEPT !.sealed = None]
    OBVIOUS
  <2>5. e.released = engine.released /\ e.sealed = None
    BY <1>0, <2>4 DEF EngineValues
  <2>6. Enter(o, e, TRUE) /\ Called(TRUE)
    BY <1>2, <2>1, <2>4 DEF Assemble
  <2>7. QED BY <2>3, <2>5, <2>6, HeardCalls
<1>3. CASE Archived
  <2>1. op # None /\ op.at = "archive"
    BY <1>3 DEF Archived
  <2>2. CASE env.moved
    BY <1>3, <2>1, <2>2, HeardThrown DEF Archived
  <2>3. CASE ~env.moved
    <3>1. /\ Goto(IF op.kind = "open" THEN "seal" ELSE "return") /\ op.kind # "persist"
          /\ UNCHANGED <<engine, ask, heard, turn>>
      <4>1. ~Runs("persist")
        BY <1>0, <2>1 DEF Phases
      <4>2. QED BY <1>3, <2>1, <2>3, <4>1 DEF Archived, Runs
    <3>2. PICK at \in {"seal", "return"} : Goto(at) /\ (op.kind = "open" => at = "seal")
      BY <3>1
    <3>3. engine'.sealed # None => engine'.sealed.msgs \in AllHeld
      BY <3>1 DEF AllHeld
    <3>4. QED BY <2>1, <3>1, <3>2, <3>3, HeardMoves DEF Places
  <2>4. QED BY <2>2, <2>3
<1>4. CASE Seal
  <2>1. op # None /\ op.kind = "open" /\ op.at = "seal"
    BY <1>4 DEF Seal, At, Runs
  <2>2. CASE ~Valid \/ engine.failed
    BY <1>4, <2>1, <2>2, HeardThrown DEF Seal
  <2>3. CASE Valid /\ ~engine.failed
    <3>1. PICK c : /\ engine' = [engine EXCEPT !.sealed = c] /\ c.msgs = <<User(engine.history)>>
                   /\ Goto("return") /\ UNCHANGED <<heard, ask, turn>>
      BY <1>4, <2>3 DEF Seal
    <3>2. engine'.sealed = c /\ engine'.released = engine.released
      BY <1>0, <3>1 DEF EngineValues
    <3>3. User(engine.history).role = "user"
      BY DEF User
    <3>4. \A i \in 1..Len(c.msgs) : c.msgs[i].role # "assistant"
      BY <3>1, <3>3
    <3>5. Last(c.msgs).role # "assistant"
      BY <3>1, <3>3 DEF Last
    <3>6. turn.draft # None => ~EndsWith(c.msgs, turn.draft)
      BY <1>0, <3>5 DEF DraftOK, EndsWith
    <3>7. QED BY <2>1, <3>1, <3>2, <3>4, <3>6, HeardMoves DEF Places
  <2>4. QED BY <2>2, <2>3
<1>5. CASE Project
  <2>1. op # None /\ op.kind = "loop" /\ op.at = "check"
    BY <1>5 DEF Project, At, Runs
  <2>2. CASE ~(Valid /\ op.input = op.had.msgs)
    BY <1>5, <2>1, <2>2, HeardThrown DEF Project
  <2>3. CASE Valid /\ op.input = op.had.msgs
    <3>1. /\ engine' = IF op.had.timed THEN engine ELSE [engine EXCEPT !.sealed = [op.had EXCEPT !.timed = TRUE]]
          /\ Goto("archive") /\ UNCHANGED <<heard, ask, turn>>
      BY <1>5, <2>3 DEF Project
    <3>2. op.had \in Contexts
      BY <2>1 DEF ConvInv, OpOK, OpValues
    <3>3. PICK c : c = [op.had EXCEPT !.timed = TRUE]
      OBVIOUS
    <3>4. c.msgs = op.had.msgs
      BY <3>2, <3>3 DEF Contexts
    <3>5. engine'.released = engine.released /\ (engine' = engine \/ engine'.sealed = c)
      BY <1>0, <3>1, <3>3 DEF EngineValues
    <3>6. engine'.sealed # None => engine'.sealed.msgs \in AllHeld
      BY <2>1, <3>4, <3>5 DEF AllHeld
    <3>7. QED BY <2>1, <3>1, <3>5, <3>6, HeardMoves DEF Places
  <2>4. QED BY <2>2, <2>3
<1>6. ASSUME NEW k \in 0..Len(heard), Reassemble(SubSeq(heard, 1, k)) PROVE HeardInv'
  <2>1. PICK input : input = SubSeq(heard, 1, k)
    OBVIOUS
  <2>2. input \in Seq(Messages)
    BY <2>1, HeardPart
  <2>3. PICK o : o = [NewOp("loop", "check") EXCEPT !.input = input]
    OBVIOUS
  <2>4. IsNew(o, "loop", "check", None, input)
    <3>1. None \in Asks \union Tools \union {None}
      OBVIOUS
    <3>2. QED BY <2>2, <2>3, <3>1, NewOperation DEF Kinds, Places
  <2>5. PICK ok \in BOOLEAN : /\ ok = (engine.sealed # None /\ Pending = {} /\ CompleteBatch(input))
                              /\ Enter(o, engine, ok)
    BY <1>6, <2>1, <2>3 DEF Reassemble
  <2>6. PICK b : Called(b)
    BY <1>6 DEF Reassemble
  <2>7. Enters(ok) => OpOK(o)
    BY <2>4, <2>5 DEF IsNew, OpOK, Enters
  <2>8. o.kind = "loop" /\ o.at = "check" /\ o.had = engine.sealed
    BY <2>4 DEF IsNew
  <2>9. QED BY <2>5, <2>6, <2>7, <2>8, HeardCalls
<1>7. CASE Compact
  <2>1. PICK o : o = NewOp("compact", "summarize")
    OBVIOUS
  <2>2. IsNew(o, "compact", "summarize", None, <<>>)
    BY <2>1, PlainOperation DEF Kinds, Places
  <2>3. OpOK(o) /\ o.kind = "compact" /\ o.at = "summarize" /\ o.had = engine.sealed
    BY <2>2 DEF IsNew, OpOK
  <2>4. PICK ok \in BOOLEAN : Enter(o, engine, ok)
    BY <1>7, <2>1 DEF Compact
  <2>5. PICK b : Called(b)
    BY <1>7 DEF Compact
  <2>6. QED BY <2>3, <2>4, <2>5, HeardCalls
<1>8. CASE Summarize
  <2>1. op # None /\ op.kind = "compact" /\ op.at = "summarize"
    BY <1>8 DEF Summarize, At, Runs
  <2>2. CASE ~Valid
    BY <1>8, <2>1, <2>2, HeardThrown DEF Summarize
  <2>3. CASE Valid
    <3>1. Goto("save") /\ UNCHANGED <<engine, ask, heard, turn>>
      BY <1>8, <2>3 DEF Summarize
    <3>2. engine'.sealed # None => engine'.sealed.msgs \in AllHeld
      BY <3>1 DEF AllHeld
    <3>3. QED BY <2>1, <3>1, <3>2, HeardMoves DEF Places
  <2>4. QED BY <2>2, <2>3
<1>9. CASE SaveSummary
  <2>1. op # None /\ op.kind = "compact" /\ op.at = "save"
    BY <1>9 DEF SaveSummary, At, Runs
  <2>2. CASE ~(Valid /\ ~engine.failed)
    BY <1>9, <2>1, <2>2, HeardThrown DEF SaveSummary
  <2>3. CASE Valid /\ ~engine.failed
    <3>1. /\ engine' = [engine EXCEPT !.history = @ + 1, !.sealed = None]
          /\ Goto("return") /\ UNCHANGED <<ask, heard, turn>>
      BY <1>9, <2>3 DEF SaveSummary
    <3>2. engine'.sealed = None /\ engine'.released = engine.released
      BY <1>0, <3>1 DEF EngineValues
    <3>3. QED BY <2>1, <3>1, <3>2, HeardMoves DEF Places
  <2>4. QED BY <2>2, <2>3
<1>10. CASE Return
  <2>1. op # None /\ op.at = "return"
    BY <1>10 DEF Return
  <2>2. CASE engine.failed
    BY <1>10, <2>1, <2>2, HeardThrown DEF Return
  <2>3. CASE ~engine.failed
    <3>1. engine' = engine /\ Settle(TRUE)
      BY <1>10, <2>3 DEF Return
    <3>2. QED BY <2>1, <2>3, <3>1, HeardSettled
  <2>4. QED BY <2>2, <2>3
<1>11. CASE PortFails
  BY <1>11, HeardThrown DEF PortFails
<1>12. QED BY <1>1, <1>2, <1>3, <1>4, <1>5, <1>6, <1>7, <1>8, <1>9, <1>10, <1>11

\* The engine, its operation and the completion are left as they are, but for a refusal.
LEMMA HeardEngine ==
  ASSUME ConvInv, HeardInv, op' = op, engine' = engine \/ engine' = Latched, turn' = turn \/ RejectedIs(TRUE)
  PROVE  HeldStep /\ OpenedPlain' /\ Phases' /\ turn'.draft = turn.draft
<1>1. OpenedPlain /\ Phases /\ turn \in TurnValues
  BY DEF HeardInv, ConvInv, TurnOK
<1>2. /\ turn'.draft = turn.draft /\ turn'.archived = turn.archived /\ turn'.permit = turn.permit
      /\ turn'.published = turn.published
  BY <1>1 DEF TurnValues, RejectedIs
<1>3. engine'.released = engine.released /\ (engine' = engine \/ (engine'.failed /\ engine'.sealed = None))
  BY LatchedOK DEF ConvInv
<1>4. \A msgs : msgs \in AllHeld' => msgs \in AllHeld
  BY <1>2, <1>3 DEF AllHeld
<1>5. OpenedPlain'
  BY <1>1, <1>3 DEF OpenedPlain, Runs
<1>6. Phases'
  BY <1>1, <1>2, <1>3 DEF Phases, Runs
<1>7. QED BY <1>2, <1>4, <1>5, <1>6 DEF HeldStep

LEMMA HeardToolSteps ==
  ASSUME ConvInv, HeardInv,
         (\E t \in Tools : ToolReturns(t) \/ ToolFails(t)) \/ NextResult \/ ExtendToolResult
  PROVE  HeardInv'
<1>1. ASSUME NEW t \in Tools, ToolReturns(t) PROVE HeardInv'
  <2>1. UNCHANGED <<engine, op, ask, heard, turn>>
    BY <1>1 DEF ToolReturns
  <2>2. QED BY <2>1, HeardEngine, HeardStill
<1>2. ASSUME NEW t \in Tools, ToolFails(t) PROVE HeardInv'
  <2>1. PICK settled : heard' = Gathered(settled) /\ UNCHANGED <<engine, op, ask, turn>>
    BY <1>2 DEF ToolFails
  <2>2. QED BY <2>1, HeardEngine, HeardGathers
<1>3. CASE NextResult
  <2>1. PICK t : t = Head(queue)
    OBVIOUS
  <2>2. t \in Tools
    BY <1>3, <2>1 DEF NextResult, ConvInv, HostOK
  <2>3. PICK o : o = [NewOp("result", "extend") EXCEPT !.who = t]
    OBVIOUS
  <2>4. PICK ok \in BOOLEAN : /\ ok = (engine.sealed # None /\ t \in Awaited(engine.sealed.msgs))
                              /\ Enter(o, engine, ok)
    BY <1>3, <2>1, <2>3 DEF NextResult
  <2>5. PICK settled : heard' = Gathered(settled) /\ UNCHANGED <<ask, turn>>
    BY <1>3 DEF NextResult
  <2>6. IsNew(o, "result", "extend", t, <<>>)
    <3>1. <<>> \in Seq(Messages)
      OBVIOUS
    <3>2. QED BY <2>2, <2>3, <3>1, NewOperation DEF Kinds, Places
  <2>7. Enters(ok) => OpOK(o)
    BY <2>2, <2>4, <2>6 DEF IsNew, OpOK, Enters
  <2>8. o.kind = "result" /\ o.at = "extend" /\ o.had = engine.sealed
    BY <2>6 DEF IsNew
  <2>9. HeldStep /\ OpenedPlain' /\ Phases'
    BY <2>4, <2>5, <2>7, <2>8, HeardEntered
  <2>10. QED BY <2>5, <2>9, HeardGathers
<1>4. CASE ExtendToolResult
  <2>1. op # None /\ op.kind = "result" /\ op.at = "extend"
    BY <1>4 DEF ExtendToolResult, At, Runs
  <2>2. CASE ~Valid
    BY <1>4, <2>1, <2>2, HeardThrown DEF ExtendToolResult
  <2>3. CASE Valid
    <3>1. PICK msgs : msgs = WithResult(op.had.msgs, op.who)
      OBVIOUS
    <3>2. /\ engine' = [engine EXCEPT !.sealed = [op.had EXCEPT !.msgs = msgs]]
          /\ Goto("return") /\ UNCHANGED <<heard, ask, turn>>
      BY <1>4, <2>3, <3>1 DEF ExtendToolResult
    <3>3. op.had \in Contexts /\ Genuine(op.had.msgs) /\ op.who \in Awaited(op.had.msgs)
      BY <2>1 DEF ConvInv, OpOK, OpValues, GoodContext
    <3>4. Last(msgs).role # "assistant"
      BY <3>1, <3>3, Resulting
    <3>5. PICK c : c = [op.had EXCEPT !.msgs = msgs]
      OBVIOUS
    <3>6. c.msgs = msgs
      BY <3>3, <3>5 DEF Contexts
    <3>7. engine'.sealed = c /\ engine'.released = engine.released
      BY <3>2, <3>5 DEF ConvInv, EngineOK, EngineValues
    <3>8. turn.draft # None => ~EndsWith(msgs, turn.draft)
      BY <3>4 DEF HeardInv, DraftOK, EndsWith
    <3>9. QED BY <2>1, <3>2, <3>6, <3>7, <3>8, HeardMoves DEF Places
  <2>4. QED BY <2>2, <2>3
<1>5. QED BY <1>1, <1>2, <1>3, <1>4

\* One model call, not yet over, goes on.
LEMMA HeardAsked ==
  ASSUME HeardInv, NEW m \in Asks, ~Past(m), \A n \in Asks \ {m} : ask'[n] = ask[n],
         ask[m].sent => ask'[m].sent /\ ask'[m].input = ask[m].input, HeardOK(ask'[m].input),
         heard' = heard, turn'.draft = turn.draft, HeldStep, OpenedPlain', Phases'
  PROVE  HeardInv'
<1>1. AsksGrow /\ DoneStays
  BY DEF AsksGrow, DoneStays, Past, Over
<1>2. \A n \in Asks : HeardOK(ask'[n].input)
  BY DEF HeardInv
<1>3. HeardOK(heard)'
  BY <1>1, HeardSame DEF HeardInv
<1>4. DraftOK'
  BY <1>1, DraftStill DEF HeardInv
<1>5. QED BY <1>1, <1>2, <1>3, <1>4, HeardPreserved

LEMMA HeardRefused ==
  ASSUME ConvInv, HeardInv, NEW m \in Asks, RefusedAsk(m), ~Past(m), UNCHANGED <<op, heard>>,
         engine' = engine \/ engine' = Latched
  PROVE  HeardInv'
<1>1. ask' = [ask EXCEPT ![m].at = "refused"] /\ RejectedIs(TRUE)
  BY DEF RefusedAsk, RejectedIs
<1>2. ask'[m].sent = ask[m].sent /\ ask'[m].input = ask[m].input /\ \A n \in Asks \ {m} : ask'[n] = ask[n]
  BY <1>1 DEF ConvInv, AsksOK, AskValues
<1>3. HeardOK(ask'[m].input)
  BY <1>2 DEF HeardInv
<1>4. HeldStep /\ OpenedPlain' /\ Phases' /\ turn'.draft = turn.draft
  BY <1>1, HeardEngine
<1>5. QED BY <1>2, <1>3, <1>4, HeardAsked

LEMMA HeardGate ==
  ASSUME ConvInv, HeardInv, NEW m \in Asks, NEW a, EnterGate(m, a), UNCHANGED <<op, heard>>, ~Past(m),
         a \in AskValues, ask[m].sent => a.sent /\ a.input = ask[m].input, HeardOK(a.input)
  PROVE  HeardInv'
<1>1. CASE RefusedAsk(m) /\ (engine' = engine \/ engine' = Latched)
  BY <1>1, HeardRefused
<1>2. CASE /\ engine.sealed # None
           /\ ask' = [ask EXCEPT ![m] = [a EXCEPT !.had = engine.sealed]] /\ UNCHANGED <<engine, turn>>
  <2>1. PICK b : b = [a EXCEPT !.had = engine.sealed]
    OBVIOUS
  <2>2. b.sent = a.sent /\ b.input = a.input
    BY <2>1 DEF AskValues
  <2>3. ask'[m] = b /\ \A n \in Asks \ {m} : ask'[n] = ask[n]
    BY <1>2, <2>1 DEF ConvInv, AsksOK
  <2>4. HeldStep /\ OpenedPlain' /\ Phases' /\ turn'.draft = turn.draft
    BY <1>2, HeardEngine
  <2>5. QED BY <2>2, <2>3, <2>4, HeardAsked
<1>3. QED BY <1>1, <1>2 DEF EnterGate

LEMMA HeardGoneOn ==
  ASSUME ConvInv, HeardInv, NEW m \in Asks, GoesOn(m)
  PROVE  HeardInv'
<1>1. heard' = heard /\ ~Past(m) /\ AsksOK /\ HeardOK(ask[m].input)
  BY WhereItGoes, AskFieldsOK DEF HeardInv
<1>2. CASE RefusedAsk(m) /\ op' = op /\ (engine' = engine \/ engine' = Latched)
  BY <1>1, <1>2, HeardRefused
<1>3. ASSUME NEW b, b.input = ask[m].input, ask[m].sent => b.sent, ask' = [ask EXCEPT ![m] = b], turn' = turn,
             HeldStep /\ OpenedPlain' /\ Phases'
      PROVE  HeardInv'
  <2>1. ask'[m] = b /\ \A n \in Asks \ {m} : ask'[n] = ask[n]
    BY <1>1, <1>3 DEF AsksOK
  <2>2. /\ ask[m].sent => ask'[m].sent /\ ask'[m].input = ask[m].input
        /\ HeardOK(ask'[m].input)
    BY <1>1, <1>3, <2>1
  <2>3. QED BY <1>1, <1>3, <2>1, <2>2, HeardAsked
<1>4. ASSUME NEW b, GoesOnAs(m, b) PROVE HeardInv'
  <2>1. op' = op /\ engine' = engine /\ turn' = turn
    BY <1>4 DEF GoesOnAs
  <2>2. HeldStep /\ OpenedPlain' /\ Phases'
    BY <2>1, HeardEngine
  <2>3. QED BY <1>3, <1>4, <2>1, <2>2 DEF GoesOnAs
<1>5. ASSUME NEW b, NEW o, OpOK(o), ObservedAs(m, b, o) PROVE HeardInv'
  <2>1. /\ turn' = turn /\ engine' = engine /\ o.kind = "output" /\ o.at = "extend" /\ o.had = engine.sealed
    BY <1>5 DEF ObservedAs, IsNew
  <2>2. HeldStep /\ OpenedPlain' /\ Phases'
    BY <1>5, <2>1, HeardObserved DEF ObservedAs
  <2>3. QED BY <1>3, <1>5, <2>1, <2>2 DEF ObservedAs
<1>6. QED BY <1>2, <1>4, <1>5, WhereItGoes

LEMMA HeardPrefix ==
  ASSUME ConvInv, HeardInv, NEW k \in 0..Len(heard)
  PROVE  HeardOK(SubSeq(heard, 1, k)) /\ SubSeq(heard, 1, k) \in Seq(Messages)
<1>1. PICK msgs : msgs = SubSeq(heard, 1, k)
  OBVIOUS
<1>2. heard \in Seq(Messages) /\ HeardOK(heard)
  BY DEF ConvInv, HostOK, HeardInv
<1>3. msgs \in Seq(Messages) /\ Len(msgs) = k /\ \A j \in 1..k : msgs[j] = heard[j]
  BY <1>1, <1>2
<1>4. Agree(heard, msgs, k) /\ Owned(heard, k)
  BY <1>2, <1>3 DEF Agree, Owned, HeardOK
<1>5. Owned(msgs, k)
  BY <1>2, <1>3, <1>4, Carried
<1>6. \A i \in 1..k : msgs[i].role = "assistant" => ask[msgs[i].by].at = "done"
  BY <1>2, <1>3 DEF HeardOK
<1>7. QED BY <1>1, <1>3, <1>5, <1>6 DEF HeardOK

LEMMA HeardAskSteps ==
  ASSUME ConvInv, HeardInv, NEW m \in Asks,
         \/ \E k \in 1..Len(heard) : Ask(m, SubSeq(heard, 1, k))
         \/ Payload(m) \/ ModelFails(m) \/ GoesOn(m)
         \/ \E calls \in Batches : ModelAnswers(m, calls)
  PROVE  HeardInv'
<1>0. AskOK(m, ask[m]) /\ ask[m] \in AskValues /\ AsksOK /\ HeardOK(ask[m].input)
  BY AskFieldsOK DEF HeardInv
<1>1. ASSUME NEW k \in 1..Len(heard), Ask(m, SubSeq(heard, 1, k)) PROVE HeardInv'
  <2>1. PICK input : input = SubSeq(heard, 1, k)
    OBVIOUS
  <2>2. input \in Seq(Messages) /\ HeardOK(input)
    <3>1. k \in 0..Len(heard)
      BY DEF ConvInv, HostOK
    <3>2. QED BY <2>1, <3>1, HeardPrefix
  <2>3. PICK a : a = [NewAsk EXCEPT !.at = "transport", !.input = input]
    OBVIOUS
  <2>4. a \in AskValues /\ a.input = input
    BY <2>2, <2>3 DEF NewAsk, AskValues
  <2>5. EnterGate(m, a) /\ UNCHANGED <<op, heard>> /\ ask[m].at = "idle"
    BY <1>1, <2>1, <2>3 DEF Ask
  <2>6. ~Past(m) /\ ~ask[m].sent
    BY <1>0, <2>5 DEF Past, AskOK, Unsent, WithAnswer
  <2>7. QED BY <2>2, <2>4, <2>5, <2>6, HeardGate
<1>2. CASE Payload(m)
  <2>1. PICK a : a = [ask[m] EXCEPT !.at = "payload"]
    OBVIOUS
  <2>2. EnterGate(m, a) /\ UNCHANGED <<op, heard>> /\ ask[m].at = "opened"
    BY <1>2, <2>1 DEF Payload
  <2>3. a \in AskValues /\ a.sent = ask[m].sent /\ a.input = ask[m].input
    BY <1>0, <2>1 DEF AskValues
  <2>4. ~Past(m)
    BY <2>2 DEF Past
  <2>5. QED BY <1>0, <2>2, <2>3, <2>4, HeardGate
<1>3. CASE ModelFails(m)
  <2>1. ask' = [ask EXCEPT ![m].at = "refused"] /\ ask[m].at = "wire" /\ UNCHANGED <<engine, op, heard, turn>>
    BY <1>3 DEF ModelFails
  <2>2. ~Past(m)
    BY <2>1 DEF Past
  <2>3. ask'[m].sent = ask[m].sent /\ ask'[m].input = ask[m].input /\ \A n \in Asks \ {m} : ask'[n] = ask[n]
    BY <1>0, <2>1 DEF AsksOK, AskValues
  <2>4. HeldStep /\ OpenedPlain' /\ Phases' /\ turn'.draft = turn.draft
    BY <2>1, HeardEngine
  <2>5. HeardOK(ask'[m].input)
    BY <1>0, <2>3
  <2>6. QED BY <2>1, <2>2, <2>3, <2>4, <2>5, HeardAsked
<1>4. CASE GoesOn(m)
  BY <1>4, HeardGoneOn
<1>5. ASSUME NEW calls \in Batches, ModelAnswers(m, calls) PROVE HeardInv'
  <2>1. PICK answer : answer = Answer(m, calls)
    OBVIOUS
  <2>2. answer \in Messages
    BY <2>1, BatchesAssumption DEF Answer, Messages
  <2>3. PICK a : a = [ask[m] EXCEPT !.at = "answer", !.answer = answer]
    OBVIOUS
  <2>4. EnterGate(m, a) /\ UNCHANGED <<op, heard>> /\ ask[m].at = "wire"
    BY <1>5, <2>1, <2>3 DEF ModelAnswers
  <2>5. a \in AskValues /\ a.sent = ask[m].sent /\ a.input = ask[m].input
    BY <1>0, <2>2, <2>3 DEF AskValues
  <2>6. ~Past(m)
    BY <2>4 DEF Past
  <2>7. QED BY <1>0, <2>4, <2>5, <2>6, HeardGate
<1>6. QED BY <1>1, <1>2, <1>3, <1>4, <1>5

LEMMA HeardExtendStep ==
  ASSUME ConvInv, HeardInv, ExtendAssistant
  PROVE  HeardInv'
<1>1. op # None /\ op.kind = "output" /\ op.at = "extend"
  BY DEF ExtendAssistant, At, Runs
<1>2. CASE ~(Valid /\ op.had.timed /\ ask[op.who].input = op.had.msgs)
  BY <1>1, <1>2, HeardThrown DEF ExtendAssistant
<1>3. CASE Valid /\ op.had.timed /\ ask[op.who].input = op.had.msgs
  <2>1. PICK m \in Asks : m = op.who /\ ask[m].at = "observing"
    BY <1>1 DEF ConvInv, OpOK, Linked
  <2>2. AskOK(m, ask[m])
    BY AskFieldsOK
  <2>3. PICK calls \in Batches : ask[m].answer = Answer(m, calls)
    BY <2>1, <2>2 DEF AskOK, Unsent, WithAnswer
  <2>4. PICK answer : answer = ask[m].answer
    OBVIOUS
  <2>5. answer.by = m /\ answer \in Messages
    BY <2>3, <2>4, BatchesAssumption DEF Answer, Messages
  <2>6. PICK msgs : msgs = Append(op.had.msgs, answer)
    OBVIOUS
  <2>7. /\ engine' = [engine EXCEPT !.sealed = [op.had EXCEPT !.msgs = msgs]]
        /\ Goto("return") /\ UNCHANGED <<heard, ask, turn>>
    BY <1>3, <2>1, <2>4, <2>6 DEF ExtendAssistant
  <2>8. op.had \in Contexts
    BY <1>1 DEF ConvInv, OpOK, OpValues
  <2>9. Last(msgs) = answer
    <3>1. op.had.msgs \in Seq(Messages)
      BY <2>8 DEF Contexts
    <3>2. PICK had : had = op.had.msgs
      OBVIOUS
    <3>3. msgs[Len(msgs)] = answer
      BY <2>5, <2>6, <3>1, <3>2
    <3>4. QED BY <3>3 DEF Last
  <2>10. PICK c : c = [op.had EXCEPT !.msgs = msgs]
    OBVIOUS
  <2>11. c.msgs = msgs
    BY <2>8, <2>10 DEF Contexts
  <2>12. engine'.sealed = c /\ engine'.released = engine.released
    BY <2>7, <2>10 DEF ConvInv, EngineOK, EngineValues
  <2>13. turn.draft # None => ~EndsWith(msgs, turn.draft)
    BY <2>1, <2>5, <2>9 DEF HeardInv, DraftOK, EndsWith
  <2>14. QED BY <1>1, <2>7, <2>11, <2>12, <2>13, HeardMoves DEF Places
<1>4. QED BY <1>2, <1>3

\* The contexts held are genuine.
LEMMA HeldGenuine ==
  ASSUME ConvInv, NEW msgs \in AllHeld
  PROVE  msgs \in Seq(Messages) /\ Owned(msgs, Len(msgs))
<1>1. Genuine(msgs)
  BY DEF AllHeld, ConvInv, EngineOK, OpOK, TurnOK, GoodContext
<1>2. QED BY <1>1, OwnedAll DEF Genuine

\* The turn gets its draft: whatever is held and ends with it is what the Host has heard.
LEMMA Drafted ==
  ASSUME ConvInv, HeardInv, EndGeneration
  PROVE  HeardInv'
<1>1. /\ turn' = [turn EXCEPT !.permit = "persist", !.draft = Last(heard)]
      /\ UNCHANGED <<engine, op, ask, heard>> /\ turn.permit = "generate" /\ IsFinal(heard)
  BY DEF EndGeneration
<1>2. /\ heard \in Seq(Messages) /\ HeardOK(heard) /\ Phases /\ OpenedPlain /\ turn \in TurnValues
  BY DEF ConvInv, HostOK, HeardInv, TurnOK
<1>3. PICK draft : draft = Last(heard)
  OBVIOUS
<1>4. /\ heard # <<>> /\ draft.role = "assistant" /\ draft.calls = <<>>
      /\ heard[Len(heard)] = draft /\ Len(heard) \in 1..Len(heard)
  BY <1>1, <1>2, <1>3 DEF IsFinal, Last
<1>5. /\ draft.by \in Asks /\ ask[draft.by].at = "done" /\ ask[draft.by].answer = draft
  BY <1>2, <1>4 DEF HeardOK, Owned, OwnAt
<1>6. /\ turn'.permit = "persist" /\ turn'.draft = draft /\ turn'.archived = turn.archived
      /\ turn'.published = turn.published
  BY <1>1, <1>2, <1>3 DEF TurnValues
<1>7. draft # None
  <2>1. draft \in Messages
    BY <1>2, <1>4
  <2>2. QED BY <2>1, NoneAssumption
<1>8. turn.archived = None /\ ~Runs("persist") /\ ~turn.published
  BY <1>1, <1>2 DEF Phases
<1>9. OpenedPlain'
  BY <1>1, <1>2 DEF OpenedPlain, Runs
<1>10. Phases'
  BY <1>1, <1>2, <1>6, <1>7, <1>8 DEF Phases, Runs
<1>11. \A msgs \in AllHeld' : EndsWith(msgs, draft) => heard = msgs
  <2>1. AllHeld' = AllHeld
    BY <1>1, <1>6 DEF AllHeld
  <2>2. EndsWith(heard, draft)
    BY <1>3, <1>4 DEF EndsWith
  <2>3. heard = Append(ask[draft.by].input, draft)
    BY <1>2, <1>4, <2>2, AnsweredPart DEF HeardOK
  <2>4. ASSUME NEW msgs \in AllHeld, EndsWith(msgs, draft) PROVE msgs = Append(ask[draft.by].input, draft)
    <3>1. msgs \in Seq(Messages) /\ Owned(msgs, Len(msgs))
      BY HeldGenuine
    <3>2. QED BY <1>4, <2>4, <3>1, AnsweredPart
  <2>5. QED BY <2>1, <2>3, <2>4
<1>12. Gatherless(heard)
  BY <1>1 DEF IsFinal, Gatherless
<1>13. DraftOK'
  <2>1. Gatherless(heard)' /\ \A msgs \in AllHeld' : EndsWith(msgs, draft)' => heard' = msgs
    BY <1>1, <1>11, <1>12 DEF Gatherless, EndsWith
  <2>2. turn'.draft.role = "assistant" /\ turn'.draft.by \in Asks /\ ask'[turn'.draft.by].at = "done"
        /\ ask'[turn'.draft.by].answer = turn'.draft
    BY <1>1, <1>4, <1>5, <1>6
  <2>3. QED BY <1>6, <2>1, <2>2 DEF DraftOK, EndsWith
<1>14. AsksGrow /\ DoneStays /\ \A m \in Asks : HeardOK(ask'[m].input)
  BY <1>1, AsksUntouched
<1>15. HeardOK(heard)'
  BY <1>1, <1>2, <1>14, HeardSame
<1>16. QED BY <1>9, <1>10, <1>13, <1>14, <1>15, HeardPreserved

\* The completion goes on, and holds nothing but what was held.
LEMMA HeardTurn ==
  ASSUME ConvInv, HeardInv, UNCHANGED <<ask, heard>>, turn'.draft = turn.draft, OpenedPlain', Phases',
         \A msgs : msgs \in AllHeld' => msgs \in AllHeld
  PROVE  HeardInv'
BY HeardStill DEF HeldStep

LEMMA HeardFinalSteps ==
  ASSUME ConvInv, HeardInv,
         \/ ReleaseToCompletion \/ EndGeneration \/ Cancel
         \/ PersistCompletedHistory \/ CheckPersist \/ ArchiveHistory \/ Publish \/ SourcesMove
  PROVE  HeardInv'
<1>0. /\ engine \in EngineValues /\ EngineOK(engine) /\ turn \in TurnValues /\ OpenedPlain /\ Phases
      /\ OpOK(op)
  BY DEF ConvInv, EngineOK, TurnOK, HeardInv
<1>1. CASE ReleaseToCompletion
  <2>1. UNCHANGED <<op, ask, heard, turn>>
    BY <1>1 DEF ReleaseToCompletion
  <2>2. engine'.released /\ (engine'.failed \/ op = None) /\ engine'.sealed \in {engine.sealed, None}
    <3>1. CASE op # None \/ Pending # {}
      <4>1. engine' = [Latched EXCEPT !.released = TRUE, !.closed = TRUE]
        BY <1>1, <3>1 DEF ReleaseToCompletion
      <4>2. PICK e : e = Latched
        OBVIOUS
      <4>3. e \in EngineValues /\ e.failed /\ e.sealed = None
        BY <1>0, <4>2, LatchedOK DEF EngineOK
      <4>4. engine' = [e EXCEPT !.released = TRUE, !.closed = TRUE]
        BY <4>1, <4>2
      <4>5. QED BY <4>3, <4>4 DEF EngineValues
    <3>2. CASE ~(op # None \/ Pending # {})
      <4>1. engine' = [engine EXCEPT !.released = TRUE]
        BY <1>1, <3>2 DEF ReleaseToCompletion
      <4>2. QED BY <1>0, <3>2, <4>1 DEF EngineValues
    <3>3. QED BY <3>1, <3>2
  <2>3. OpenedPlain'
    BY <2>1, <2>2 DEF OpenedPlain, Runs
  <2>4. Phases'
    BY <1>0, <2>1, <2>2 DEF Phases, Runs
  <2>5. \A msgs : msgs \in AllHeld' => msgs \in AllHeld
    BY <2>1, <2>2 DEF AllHeld
  <2>6. QED BY <2>1, <2>3, <2>4, <2>5, HeardTurn
<1>2. CASE EndGeneration
  BY <1>2, Drafted
<1>3. CASE Cancel
  <2>1. turn' = [turn EXCEPT !.permit = "ended"] /\ UNCHANGED <<engine, op, ask, heard>>
    BY <1>3 DEF Cancel
  <2>2. /\ turn'.permit = "ended" /\ turn'.draft = turn.draft /\ turn'.archived = turn.archived
        /\ turn'.published = turn.published
    BY <1>0, <2>1 DEF TurnValues
  <2>3. OpenedPlain' /\ Phases'
    BY <1>0, <2>1, <2>2 DEF OpenedPlain, Phases, Runs
  <2>4. \A msgs : msgs \in AllHeld' => msgs \in AllHeld
    BY <2>1, <2>2 DEF AllHeld
  <2>5. QED BY <2>1, <2>2, <2>3, <2>4, HeardTurn
<1>4. CASE PersistCompletedHistory
  <2>1. PICK ok \in BOOLEAN :
          /\ ok => op = None /\ engine.sealed # None
          /\ op' = IF engine.released /\ ok THEN NewOp("persist", "check") ELSE op
          /\ engine' = IF engine.released /\ ~ok THEN Latched ELSE engine
          /\ turn' = [turn EXCEPT !.permit = IF engine.released /\ ok THEN "persisting" ELSE "ended"]
    BY <1>4 DEF PersistCompletedHistory
  <2>2. UNCHANGED <<ask, heard>> /\ turn.permit = "persist"
    BY <1>4 DEF PersistCompletedHistory
  <2>3. /\ turn'.draft = turn.draft /\ turn'.archived = turn.archived /\ turn'.published = turn.published
        /\ turn'.permit = IF engine.released /\ ok THEN "persisting" ELSE "ended"
    BY <1>0, <2>1 DEF TurnValues
  <2>4. turn.draft # None /\ turn.archived = None /\ ~turn.published /\ ~Runs("persist")
    BY <1>0, <2>2 DEF Phases
  <2>5. engine'.released = engine.released /\ (engine' = engine \/ (engine'.failed /\ engine'.sealed = None))
    BY <1>0, <2>1, LatchedOK
  <2>6. CASE engine.released /\ ok
    <3>1. PICK o : o = NewOp("persist", "check")
      OBVIOUS
    <3>2. IsNew(o, "persist", "check", None, <<>>)
      BY <3>1, PlainOperation DEF Kinds, Places
    <3>3. o.kind = "persist" /\ o.at = "check" /\ o.had = engine.sealed /\ engine.sealed # None /\ op' = o
      BY <2>1, <2>6, <3>1, <3>2 DEF IsNew
    <3>4. engine' = engine
      BY <2>1, <2>6
    <3>5. OpenedPlain'
      BY <3>3 DEF OpenedPlain, Runs
    <3>6. Phases'
      BY <1>0, <2>3, <2>4, <2>6, <3>3, <3>4 DEF Phases, Runs
    <3>7. \A msgs : msgs \in AllHeld' => msgs \in AllHeld
      BY <2>3, <2>4, <3>3, <3>4 DEF AllHeld
    <3>8. QED BY <2>2, <2>3, <3>5, <3>6, <3>7, HeardTurn
  <2>7. CASE ~(engine.released /\ ok)
    <3>1. op' = op /\ turn'.permit = "ended"
      BY <2>1, <2>3, <2>7
    <3>2. OpenedPlain'
      BY <1>0, <2>5, <3>1 DEF OpenedPlain, Runs
    <3>3. Phases'
      BY <1>0, <2>3, <2>4, <2>5, <3>1 DEF Phases, Runs
    <3>4. \A msgs : msgs \in AllHeld' => msgs \in AllHeld
      BY <2>3, <2>5, <3>1 DEF AllHeld
    <3>5. QED BY <2>2, <2>3, <3>2, <3>3, <3>4, HeardTurn
  <2>8. QED BY <2>6, <2>7
<1>5. CASE CheckPersist
  <2>1. op # None /\ op.kind = "persist" /\ op.at \in {"check", "recheck"}
    BY <1>5 DEF CheckPersist, At, Runs
  <2>2. CASE ~(Valid /\ turn.permit = "persisting")
    BY <1>5, <2>1, <2>2, HeardThrown DEF CheckPersist
  <2>3. CASE Valid /\ turn.permit = "persisting"
    <3>1. /\ Goto(IF op.at = "check" THEN "write" ELSE "return") /\ UNCHANGED <<engine, heard, ask, turn>>
      BY <1>5, <2>3 DEF CheckPersist
    <3>2. PICK at \in {"write", "return"} : Goto(at) /\ (at = "return" => op.at = "recheck")
      BY <2>1, <3>1
    <3>3. engine'.sealed # None => engine'.sealed.msgs \in AllHeld
      BY <3>1 DEF AllHeld
    <3>4. QED BY <2>1, <3>1, <3>2, <3>3, HeardMoves DEF Places
  <2>4. QED BY <2>2, <2>3
<1>6. CASE ArchiveHistory
  <2>1. op # None /\ op.kind = "persist" /\ op.at = "write" /\ Runs("persist")
    BY <1>6 DEF ArchiveHistory, At, Runs
  <2>2. CASE ~Valid
    BY <1>6, <2>1, <2>2, HeardThrown DEF ArchiveHistory
  <2>3. CASE Valid
    <3>1. /\ turn' = [turn EXCEPT !.archived = op.had.msgs] /\ Goto("recheck")
          /\ UNCHANGED <<engine, ask, heard>>
      BY <1>6, <2>3 DEF ArchiveHistory
    <3>2. op'.kind = "persist" /\ op'.had = op.had /\ op'.at = "recheck"
      BY <1>0, <2>1, <3>1 DEF OpOK, OpValues, Goto
    <3>3. /\ turn'.permit = turn.permit /\ turn'.draft = turn.draft /\ turn'.archived = op.had.msgs
          /\ turn'.published = turn.published
      BY <1>0, <3>1 DEF TurnValues
    <3>4. engine.released /\ turn.draft # None /\ turn.permit \in {"persisting", "ended"} /\ ~turn.published
      BY <1>0, <2>1 DEF Phases
    <3>5. OpenedPlain'
      BY <3>2 DEF OpenedPlain, Runs
    <3>6. Phases'
      <4>1. op' = None \/ Runs("persist")'
        BY <3>2 DEF Runs
      <4>2. QED BY <1>0, <3>1, <3>2, <3>3, <3>4, <4>1 DEF Phases, Runs
    <3>7. \A msgs : msgs \in AllHeld' => msgs \in AllHeld
      BY <2>1, <3>1, <3>2, <3>3 DEF AllHeld
    <3>8. QED BY <3>1, <3>3, <3>5, <3>6, <3>7, HeardTurn
  <2>4. QED BY <2>2, <2>3
<1>7. CASE Publish
  <2>1. PICK b \in BOOLEAN : /\ turn' = [turn EXCEPT !.permit = "ended", !.published = b]
                             /\ b = (Last(turn.archived) = turn.draft)
                             /\ UNCHANGED <<engine, op, ask, heard>> /\ turn.permit = "publish"
    BY <1>7 DEF Publish
  <2>2. /\ turn'.permit = "ended" /\ turn'.draft = turn.draft /\ turn'.archived = turn.archived
        /\ turn'.published = b
    BY <1>0, <2>1 DEF TurnValues
  <2>3. turn.archived # None /\ turn.draft # None /\ ~Runs("persist")
    BY <1>0, <2>1 DEF Phases
  <2>4. OpenedPlain' /\ Phases'
    BY <1>0, <2>1, <2>2, <2>3 DEF OpenedPlain, Phases, Runs
  <2>5. \A msgs : msgs \in AllHeld' => msgs \in AllHeld
    BY <2>1, <2>2 DEF AllHeld
  <2>6. QED BY <2>1, <2>2, <2>4, <2>5, HeardTurn
<1>8. CASE SourcesMove
  <2>1. UNCHANGED <<engine, op, ask, heard, turn>>
    BY <1>8 DEF SourcesMove
  <2>2. QED BY <2>1, HeardEngine, HeardStill
<1>9. QED BY <1>1, <1>2, <1>3, <1>4, <1>5, <1>6, <1>7, <1>8

LEMMA HeardInit ==
  ASSUME Init
  PROVE  HeardInv
<1>1. /\ heard = <<>> /\ turn.draft = None /\ turn.archived = None /\ ~turn.published /\ turn.permit = "generate"
      /\ op = None
  BY DEF Init
<1>2. HeardOK(heard) /\ HeardOK(<<>>)
  <2>1. 1..Len(<<>>) = {}
    OBVIOUS
  <2>2. QED BY <1>1, <2>1, PlainHeard
<1>3. \A m \in Asks : HeardOK(ask[m].input)
  BY <1>2 DEF Init, NewAsk
<1>4. QED BY <1>1, <1>2, <1>3 DEF HeardInv, DraftOK, OpenedPlain, Phases, Runs

LEMMA HeardSteps ==
  ASSUME ConvInv, HeardInv, [Next]_vars
  PROVE  HeardInv'
<1>1. CASE UNCHANGED vars
  <2>1. UNCHANGED <<engine, op, ask, heard, turn>>
    BY <1>1 DEF vars
  <2>2. QED BY <2>1, HeardEngine, HeardStill
<1>2. CASE Next
  BY <1>2, HeardHostSteps, HeardToolSteps, HeardAskSteps, HeardExtendStep, HeardFinalSteps DEF Next, GoesOn
<1>3. QED BY <1>1, <1>2

-----------------------------------------------------------------------------

\* The reply that is published stands in the archive behind exactly the conversation that the
\* Host has heard, although the completion compares only the last message.
THEOREM RepliesAreHeard == Spec => []PublishedIsHeard
<1>1. ConvInv /\ HeardInv /\ [Next]_vars => ConvInv' /\ HeardInv'
  BY ConvSteps, HeardSteps
<1>2. Spec => [](ConvInv /\ HeardInv)
  BY <1>1, ConvInit, HeardInit, PTL DEF Spec
<1>3. ASSUME ConvInv, HeardInv PROVE PublishedIsHeard
  <2>1. SUFFICES ASSUME turn.published PROVE turn.archived = heard
    BY DEF PublishedIsHeard
  <2>2. turn.archived # None /\ turn.draft # None /\ Last(turn.archived) = turn.draft
    BY <1>3, <2>1 DEF HeardInv, Phases
  <2>3. IsFinal(turn.archived) /\ turn.archived \in AllHeld
    BY <1>3, <2>2 DEF ConvInv, TurnOK, AllHeld
  <2>4. EndsWith(turn.archived, turn.draft)
    BY <2>2, <2>3 DEF IsFinal, EndsWith
  <2>5. QED BY <1>3, <2>2, <2>3, <2>4 DEF HeardInv, DraftOK
<1>4. QED BY <1>2, <1>3, PTL

-----------------------------------------------------------------------------
(* A Host that keeps to the protocol *)

\* The model calls that have begun and are not over.
Active == {m \in Asks : ask[m].at \notin {"idle", "done", "refused"}}

\* Nothing has gone wrong.
Fine == ~engine.failed /\ ~engine.closed /\ ~turn.rejected /\ ~env.moved

\* The queue holds the queued tools once, a tool that was called was called by a delivered
\* answer, and no two answers call the same tool.
ToolsOK ==
  /\ \A i, j \in 1..Len(queue) : queue[i] = queue[j] => i = j
  /\ \A i \in 1..Len(queue) : tool[queue[i]] = "queued"
  /\ \A t \in Tools : tool[t] # "idle" => Delivered(t)
  /\ \A t \in Tools : tool[t] = "running" => Runs("result") /\ op.who = t
  /\ \A m, n \in Asks : m # n /\ ask[m].answer # None /\ ask[n].answer # None =>
       Range(ask[m].answer.calls) \cap Range(ask[n].answer.calls) = {}

\* The Host does one thing at a time, but for the results of a batch.
OneAtATime ==
  /\ \A m, n \in Active : m = n
  /\ Active # {} => Pending = {} /\ (op = None \/ Runs("output"))
  /\ \A m \in Active : ask[m].at = "observing" => Runs("output")
  /\ Pending # {} => op = None \/ Runs("result")
  /\ engine.released => Active = {} /\ (op = None \/ Runs("persist"))

\* The running operation holds what is sealed, until it seals something else.
HoldsSealed ==
  op # None =>
    /\ op.kind = "persist" \/ op.at \in {"check", "extend"} => op.had = engine.sealed
    /\ op.kind = "loop" => engine.sealed # None /\ (op.at = "check" => op.input = op.had.msgs)
    /\ op.kind = "compact" => Awaited(heard) = {} /\ ~IsFinal(heard)
    /\ op.kind \in {"result", "output"} => op.at \in {"extend", "return"}

\* Model calls are about what is sealed, and what the Host has heard.
AskedSealed ==
  \A m \in Active :
    /\ engine.sealed # None /\ engine.sealed.timed /\ ask[m].input = heard
    /\ IF At("output", "return") THEN engine.sealed.msgs = Append(heard, ask[m].answer)
                                 ELSE engine.sealed.msgs = heard
    /\ ask[m].at \in {"transport", "payload", "answer"} => ask[m].had = engine.sealed

EndsInAnswer(msgs) == msgs # <<>> /\ Last(msgs).role = "assistant"

Awaiting == EndsInAnswer(heard)

\* The calls of the last answer whose results are sealed.
Given ==
  {k \in DOMAIN Last(heard).calls :
     \/ tool[Last(heard).calls[k]] = "done"
     \/ tool[Last(heard).calls[k]] = "running" /\ At("result", "return")}

\* other is msgs, which end in an answer, and the results of the answer's calls in K.
Standing(msgs, other, K) ==
  Agree(msgs, other, Len(msgs)) /\ LastAt(other, Len(msgs)) /\ Answered(other, Len(msgs), K)

\* msgs are what the Host has heard, with the results there are of the last answer.
InStep(msgs) ==
  IF Awaiting
  THEN /\ Standing(heard, msgs, Given)
       /\ Last(heard).calls # <<>> => \E t \in Range(Last(heard).calls) : tool[t] \notin {"done", "failed"}
  ELSE msgs = heard /\ Awaited(heard) = {}

SealedInStep ==
  IF engine.sealed = None THEN Awaited(heard) = {} /\ ~IsFinal(heard) ELSE InStep(engine.sealed.msgs)

Synced ==
  ~engine.released =>
    /\ \A t \in Tools : tool[t] # "failed"
    /\ \A t \in Pending : Awaiting /\ t \in Range(Last(heard).calls)
    /\ ~Runs("open") /\ ~At("output", "return") => SealedInStep

Completing ==
  /\ turn.permit # "generate" => engine.released
  /\ engine.released /\ IsFinal(heard) => engine.sealed # None /\ engine.sealed.msgs = heard
  /\ turn.permit \in {"persist", "persisting", "publish"} =>
       IsFinal(heard) /\ turn.draft = Last(heard) /\ Pending = {}
  /\ Runs("persist") => turn.permit = "persisting"
  /\ turn.permit = "publish" => Last(turn.archived) = turn.draft
  /\ turn.permit = "ended" => turn.published

Orderly == Fine /\ ToolsOK /\ OneAtATime /\ HoldsSealed /\ AskedSealed /\ Synced /\ Completing

OrderInv == env.orderly => Orderly

-----------------------------------------------------------------------------
(* What is heard and what is sealed *)

LEMMA NoneApart == None \notin OpValues
BY NoneAssumption DEF Operations, OpValues, Kinds, Places

LEMMA AnswerLast ==
  ASSUME NEW msgs \in Seq(Messages), EndsInAnswer(msgs)
  PROVE  /\ Len(msgs) \in 1..Len(msgs) /\ LastAt(msgs, Len(msgs)) /\ Last(msgs) = msgs[Len(msgs)]
         /\ LastAnswer(msgs) = Len(msgs) /\ Awaited(msgs) = Range(Last(msgs).calls)
<1>1. Len(msgs) \in 1..Len(msgs) /\ Last(msgs) = msgs[Len(msgs)] /\ LastAt(msgs, Len(msgs))
  BY DEF EndsInAnswer, Last, LastAt
<1>2. LastAnswer(msgs) = Len(msgs)
  BY <1>1, LastAnswerIs
<1>3. {msgs[j].by : j \in (Len(msgs) + 1)..Len(msgs)} = {}
  BY <1>1
<1>4. Awaited(msgs) = Range(Last(msgs).calls)
  <2>1. Awaited(msgs) = Range(msgs[Len(msgs)].calls) \ {msgs[j].by : j \in (Len(msgs) + 1)..Len(msgs)}
    BY <1>1, <1>2 DEF Awaited
  <2>2. QED BY <1>1, <1>3, <2>1
<1>5. QED BY <1>1, <1>2, <1>4

LEMMA EmptyRange ==
  ASSUME NEW S, NEW s \in Seq(S)
  PROVE  Range(s) = {} <=> s = <<>>
<1>1. Range(s) = {s[k] : k \in 1..Len(s)} /\ Len(s) \in Nat
  BY DEF Range
<1>2. Len(s) # 0 => s[1] \in Range(s)
  BY <1>1
<1>3. Len(s) = 0 => s = <<>> /\ Range(s) = {}
  <2>1. SUFFICES ASSUME Len(s) = 0 PROVE s = <<>> /\ Range(s) = {}
    OBVIOUS
  <2>2. s = <<>>
    BY <2>1
  <2>3. 1..Len(s) = {}
    BY <2>1
  <2>4. QED BY <1>1, <2>2, <2>3
<1>4. s = <<>> => Len(s) = 0
  OBVIOUS
<1>5. QED BY <1>2, <1>3, <1>4

LEMMA Joining ==
  ASSUME NEW S, NEW a \in Seq(S), NEW b \in Seq(S)
  PROVE  /\ a \o b \in Seq(S) /\ Len(a \o b) = Len(a) + Len(b)
         /\ \A j \in 1..(Len(a) + Len(b)) : (a \o b)[j] = IF j <= Len(a) THEN a[j] ELSE b[j - Len(a)]
OBVIOUS

LEMMA NothingGiven ==
  ASSUME NEW msgs \in Seq(Messages), EndsInAnswer(msgs), NEW other \in Seq(Messages)
  PROVE  Standing(msgs, other, {}) <=> other = msgs
<1>1. Len(msgs) \in 1..Len(msgs) /\ LastAt(msgs, Len(msgs))
  BY AnswerLast
<1>2. Cardinality({}) = 0
  BY FS_EmptySet
<1>3. ASSUME other = msgs PROVE Standing(msgs, other, {})
  BY <1>1, <1>2, <1>3 DEF Standing, Agree, Answered
<1>4. ASSUME Standing(msgs, other, {}) PROVE other = msgs
  <2>1. Len(other) = Len(msgs) /\ \A j \in 1..Len(msgs) : other[j] = msgs[j]
    BY <1>1, <1>2, <1>4 DEF Standing, Agree, Answered
  <2>2. QED BY <2>1
<1>5. QED BY <1>3, <1>4

LEMMA SomeGiven ==
  ASSUME NEW msgs \in Seq(Messages), EndsInAnswer(msgs), Last(msgs).calls \in Batches,
         NEW other \in Seq(Messages), NEW K, Standing(msgs, other, K)
  PROVE  /\ Len(msgs) \in 1..Len(other) /\ other[Len(msgs)] = Last(msgs) /\ LastAt(other, Len(msgs))
         /\ K \in SUBSET DOMAIN Last(msgs).calls /\ Answered(other, Len(msgs), K)
         /\ Awaited(other) = {Last(msgs).calls[k] : k \in (DOMAIN Last(msgs).calls) \ K}
<1>1. /\ Len(msgs) \in 1..Len(other) /\ other[Len(msgs)] = Last(msgs) /\ LastAt(other, Len(msgs))
      /\ Answered(other, Len(msgs), K)
  BY AnswerLast DEF Standing, Agree
<1>2. K \in SUBSET DOMAIN other[Len(msgs)].calls
  BY <1>1 DEF Answered
<1>3. Awaited(other) = {other[Len(msgs)].calls[k] : k \in (DOMAIN other[Len(msgs)].calls) \ K}
  BY <1>1, <1>2, AwaitedCalls
<1>4. QED BY <1>1, <1>2, <1>3

LEMMA MoreGiven ==
  ASSUME NEW msgs \in Seq(Messages), EndsInAnswer(msgs), Last(msgs).calls \in Batches,
         NEW other \in Seq(Messages), NEW K, Standing(msgs, other, K),
         NEW q \in (DOMAIN Last(msgs).calls) \ K, NEW next, next = WithResult(other, Last(msgs).calls[q])
  PROVE  next \in Seq(Messages) /\ Standing(msgs, next, K \cup {q})
<1>1. /\ Len(msgs) \in 1..Len(other) /\ other[Len(msgs)] = Last(msgs) /\ LastAt(other, Len(msgs))
      /\ K \in SUBSET DOMAIN other[Len(msgs)].calls /\ Answered(other, Len(msgs), K)
  BY SomeGiven
<1>2. /\ next \in Seq(Messages) /\ Agree(other, next, Len(msgs)) /\ LastAt(next, Len(msgs))
      /\ Answered(next, Len(msgs), K \cup {q})
  BY <1>1, ResultAt
<1>3. Agree(msgs, next, Len(msgs))
  BY <1>2 DEF Agree, Standing
<1>4. QED BY <1>2, <1>3 DEF Standing

LEMMA AllGiven ==
  ASSUME NEW msgs \in Seq(Messages), EndsInAnswer(msgs), Last(msgs).calls \in Batches,
         NEW other \in Seq(Messages), Standing(msgs, other, DOMAIN Last(msgs).calls)
  PROVE  other = msgs \o Results(Last(msgs).calls) /\ Awaited(other) = {}
<1> DEFINE calls == Last(msgs).calls
           i == Len(msgs)
           n == Len(calls)
<1>1. /\ i \in 1..Len(other) /\ other[i].calls = calls /\ LastAt(other, i) /\ Answered(other, i, DOMAIN calls)
      /\ Awaited(other) = {calls[k] : k \in (DOMAIN calls) \ DOMAIN calls}
  BY SomeGiven
<1>2. calls \in Seq(Tools) /\ n \in Nat /\ DOMAIN calls = 1..n
  BY BatchesAssumption
<1>3. /\ Len(other) = i + Cardinality(1..n)
      /\ \A k \in 1..n : other[i + Rank(1..n, k)] = Result(calls[k])
  BY <1>1, <1>2 DEF Answered
<1>4. Cardinality(1..n) = n /\ \A k \in 1..n : Rank(1..n, k) = k
  <2>1. Cardinality(1..n) = n
    BY <1>2, Interval
  <2>2. ASSUME NEW k \in 1..n PROVE Rank(1..n, k) = k
    <3>1. n \in Nat /\ 1..n \in SUBSET (1..n) /\ k \in Nat /\ k <= n
      BY <1>2
    <3>2. QED BY <3>1, Ranks
  <2>3. QED BY <2>1, <2>2
<1>5. Agree(msgs, other, i)
  BY DEF Standing
<1>6. Results(calls) \in Seq(Messages) /\ Len(Results(calls)) = n
      /\ \A k \in 1..n : Results(calls)[k] = Result(calls[k])
  <2>1. \A t \in Tools : Result(t) \in Messages
    BY DEF Result, Messages
  <2>2. Results(calls) = [k \in 1..n |-> Result(calls[k])] /\ \A k \in 1..n : calls[k] \in Tools
    BY <1>2 DEF Results
  <2>3. QED BY <1>2, <2>1, <2>2
<1>7. i \in Nat /\ Len(msgs) = i
  OBVIOUS
<1> HIDE DEF calls, n, i
<1>8. Len(other) = i + n /\ (\A j \in 1..i : other[j] = msgs[j]) /\ \A k \in 1..n : other[i + k] = Result(calls[k])
  BY <1>3, <1>4, <1>5 DEF Agree
<1>9. PICK r : r = Results(calls)
  OBVIOUS
<1>10. r \in Seq(Messages) /\ Len(r) = n /\ \A k \in 1..n : r[k] = Result(calls[k])
  BY <1>6, <1>9
<1>11. \A j \in (i + 1)..(i + n) : other[j] = r[j - i]
  <2>1. SUFFICES ASSUME NEW j \in (i + 1)..(i + n) PROVE other[j] = r[j - i]
    OBVIOUS
  <2>2. j - i \in 1..n /\ i + (j - i) = j
    BY <1>2, <1>7
  <2>3. QED BY <1>8, <1>10, <2>2
<1>12. other = msgs \o r
  <2>1. PICK w : w = msgs \o r
    OBVIOUS
  <2>2. w \in Seq(Messages) /\ Len(w) = i + n
    <3>1. Len(w) = Len(msgs) + Len(r) /\ w \in Seq(Messages)
      BY <1>10, <2>1, Joining
    <3>2. QED BY ONLY <1>7, <1>10, <3>1
  <2>3. \A j \in 1..(i + n) : w[j] = IF j <= i THEN msgs[j] ELSE r[j - i]
    BY <1>2, <1>7, <1>10, <2>1
  <2>4. \A j \in 1..(i + n) : j \in 1..i \/ (j \in (i + 1)..(i + n) /\ ~(j <= i))
    BY <1>2, <1>7
  <2>5. \A j \in 1..(i + n) : other[j] = w[j]
    BY <1>8, <1>11, <2>3, <2>4
  <2>6. other = w
    BY <1>8, <2>2, <2>5
  <2>7. QED BY <2>1, <2>6
<1>13. Awaited(other) = {}
  BY <1>1
<1>14. QED BY <1>9, <1>12, <1>13 DEF calls

LEMMA NoneAwaited ==
  ASSUME NEW msgs \in Seq(Messages), NEW i \in 1..Len(msgs), LastAt(msgs, i), CompleteBatch(msgs)
  PROVE  Awaited(msgs) = {}
<1> DEFINE calls == msgs[i].calls
<1>1. LastAnswer(msgs) = i /\ i > 0
  BY LastAnswerIs
<1>2. Len(msgs) = i + Len(calls) /\ \A j \in 1..Len(calls) : msgs[i + j] = Result(calls[j])
  BY CompleteAt
<1>3. calls \in Seq(Tools)
  BY MessageTypes
<1>4. Awaited(msgs) = Range(calls) \ {msgs[j].by : j \in (i + 1)..Len(msgs)}
  BY <1>1 DEF Awaited
<1> HIDE DEF calls
<1>5. \A k \in 1..Len(calls) : i + k \in (i + 1)..Len(msgs) /\ msgs[i + k].by = calls[k]
  <2>1. SUFFICES ASSUME NEW k \in 1..Len(calls)
                 PROVE  i + k \in (i + 1)..Len(msgs) /\ msgs[i + k].by = calls[k]
    OBVIOUS
  <2>2. msgs[i + k] = Result(calls[k])
    BY <1>2
  <2>3. i + k \in (i + 1)..Len(msgs)
    BY <1>2, <1>3
  <2>4. QED BY <2>2, <2>3 DEF Result
<1>6. Range(calls) = {calls[k] : k \in 1..Len(calls)}
  BY <1>3 DEF Range
<1>7. QED BY <1>4, <1>5, <1>6

\* A Host that asks for, or with, a complete batch has heard what is sealed.
LEMMA BatchHeard ==
  ASSUME HostOK, NEW msgs \in Seq(Messages), InStep(msgs), Awaiting => Last(heard).calls \in Batches,
         \/ CompleteBatch(heard)
         \/ CompleteBatch(msgs) /\ ~At("result", "return")
  PROVE  msgs = heard /\ Awaited(heard) = {}
<1>1. CASE ~Awaiting
  BY <1>1 DEF InStep
<1>2. CASE Awaiting
  <2>1. /\ heard \in Seq(Messages) /\ EndsInAnswer(heard) /\ Last(heard).calls \in Batches
        /\ Standing(heard, msgs, Given)
    BY <1>2 DEF InStep, HostOK, Awaiting
  <2>2. Last(heard).calls \in Seq(Tools)
    BY <2>1, BatchesAssumption
  <2>3. Last(heard).calls = <<>>
    <3>1. CASE CompleteBatch(heard)
      <4>1. Awaited(heard) = Range(Last(heard).calls) /\ Awaited(heard) = {}
        BY <2>1, <3>1, AnswerLast, NoneAwaited
      <4>2. QED BY <2>2, <4>1, EmptyRange
    <3>2. CASE CompleteBatch(msgs) /\ ~At("result", "return")
      <4>1. Awaited(msgs) = {}
        BY <2>1, <3>2, SomeGiven, NoneAwaited
      <4>2. (DOMAIN Last(heard).calls) \ Given = {}
        <5>1. Awaited(msgs) = {Last(heard).calls[k] : k \in (DOMAIN Last(heard).calls) \ Given}
          BY <2>1, SomeGiven
        <5>2. QED BY <4>1, <5>1
      <4>3. \A k \in DOMAIN Last(heard).calls : tool[Last(heard).calls[k]] = "done"
        BY <3>2, <4>2 DEF Given
      <4>4. \A t \in Range(Last(heard).calls) : tool[t] = "done"
        BY <4>3 DEF Range
      <4>5. QED BY <1>2, <4>4 DEF InStep
    <3>3. QED BY <3>1, <3>2
  <2>4. Given = {} /\ Range(Last(heard).calls) = {}
    BY <2>3 DEF Given, Range
  <2>5. msgs = heard
    BY <2>1, <2>4, NothingGiven
  <2>6. QED BY <2>1, <2>4, <2>5, AnswerLast
<1>3. QED BY <1>1, <1>2

-----------------------------------------------------------------------------
(* Steps that leave the conversation alone *)

\* What the Host has heard, and which results are sealed, stay the same.
LEMMA StepStill ==
  ASSUME UNCHANGED <<heard, tool>>, At("result", "return")' <=> At("result", "return")
  PROVE  /\ Given' = Given /\ Awaiting' = Awaiting /\ Awaited(heard)' = Awaited(heard)
         /\ IsFinal(heard)' = IsFinal(heard) /\ Pending' = Pending
         /\ \A msgs : InStep(msgs) => InStep(msgs)'
<1>1. /\ Awaiting' = Awaiting /\ Awaited(heard)' = Awaited(heard) /\ IsFinal(heard)' = IsFinal(heard)
      /\ Pending' = Pending
  BY DEF Awaiting, Awaited, IsFinal, Pending, EndsInAnswer
<1>2. Given' = Given
  BY DEF Given
<1>3. ASSUME NEW msgs, InStep(msgs) PROVE InStep(msgs)'
  <2>1. CASE ~Awaiting
    BY <1>1, <1>3, <2>1 DEF InStep
  <2>2. CASE Awaiting
    <3>1. Standing(heard, msgs, Given)' = Standing(heard, msgs, Given)
      BY <1>2 DEF Standing, Agree, LastAt, Answered
    <3>2. QED BY <1>1, <1>3, <2>2, <3>1 DEF InStep
  <2>3. QED BY <2>1, <2>2
<1>4. QED BY <1>1, <1>2, <1>3

\* A step of the engine or of the completion.
LEMMA Steady ==
  ASSUME Orderly, UNCHANGED <<queue, tool, ask, heard>>, Fine',
         op # None => op.kind \notin {"result", "output"},
         op' # None => op'.kind \notin {"result", "output"},
         Active # {} => op' = None /\ engine'.sealed = engine.sealed,
         Pending # {} => op' = None,
         engine.released => engine'.released,
         engine'.released => Active = {} /\ (op' = None \/ Runs("persist")'),
         HoldsSealed', Completing',
         ~engine'.released /\ ~Runs("open")' =>
           IF engine'.sealed = None THEN Awaited(heard) = {} /\ ~IsFinal(heard) ELSE InStep(engine'.sealed.msgs)
  PROVE  Orderly'
<1>1. At("result", "return")' <=> At("result", "return")
  BY DEF At, Runs
<1>2. ToolsOK'
  <2>1. ToolsOK /\ ~Runs("result")
    BY DEF Orderly, Runs
  <2>2. QED BY <2>1 DEF ToolsOK, Delivered
<1>3. Active' = Active /\ Pending' = Pending
  BY DEF Active, Pending
<1>4. OneAtATime'
  <2>1. OneAtATime
    BY DEF Orderly
  <2>2. \A m \in Active : ask[m].at # "observing"
    BY <2>1 DEF OneAtATime, Runs
  <2>3. QED BY <1>3, <2>1, <2>2 DEF OneAtATime
<1>5. AskedSealed'
  <2>1. SUFFICES ASSUME NEW m \in Active
                 PROVE  /\ engine'.sealed # None /\ engine'.sealed.timed /\ ask[m].input = heard
                        /\ engine'.sealed.msgs = heard
                        /\ ask[m].at \in {"transport", "payload", "answer"} => ask[m].had = engine'.sealed
    BY <1>3 DEF AskedSealed, At, Runs
  <2>2. ~At("output", "return") /\ engine'.sealed = engine.sealed
    BY <2>1 DEF At, Runs
  <2>3. QED BY <2>1, <2>2 DEF Orderly, AskedSealed
<1>6. Synced'
  <2>1. SUFFICES ASSUME ~engine'.released
                 PROVE  /\ \A t \in Tools : tool[t] # "failed"
                        /\ \A t \in Pending : Awaiting /\ t \in Range(Last(heard).calls)
                        /\ ~Runs("open")' => SealedInStep'
    BY <1>1, <1>3, StepStill DEF Synced
  <2>2. ~Runs("open")' => SealedInStep'
    BY <1>1, <2>1, StepStill DEF SealedInStep
  <2>3. QED BY <2>1, <2>2 DEF Orderly, Synced
<1>7. QED BY <1>2, <1>4, <1>5, <1>6 DEF Orderly

LEMMA StandsStill ==
  ASSUME Orderly, UNCHANGED <<engine, op, queue, tool, ask, heard, turn>>, env'.moved = env.moved
  PROVE  Orderly'
<1>1. Active' = Active /\ Pending' = Pending /\ At("result", "return")' = At("result", "return")
  BY DEF Active, Pending, At, Runs
<1>2. Fine' /\ ToolsOK' /\ OneAtATime' /\ HoldsSealed' /\ Completing'
  <2>1. Fine' /\ ToolsOK'
    BY DEF Orderly, Fine, ToolsOK, Delivered, Runs
  <2>2. OneAtATime' /\ HoldsSealed' /\ Completing'
    BY <1>1, StepStill DEF Orderly, OneAtATime, HoldsSealed, Completing, Runs
  <2>3. QED BY <2>1, <2>2
<1>3. AskedSealed'
  BY <1>1 DEF Orderly, AskedSealed, At, Runs
<1>4. Synced'
  <2>1. SealedInStep => SealedInStep'
    BY <1>1, StepStill DEF SealedInStep
  <2>2. QED BY <1>1, <2>1, StepStill DEF Orderly, Synced, At, Runs
<1>5. QED BY <1>2, <1>3, <1>4 DEF Orderly

LEMMA CalledOrderly ==
  ASSUME ConvInv, NEW b, Called(b), env'.orderly
  PROVE  /\ env.orderly /\ b /\ op = None /\ Pending = {} /\ Active = {} /\ env'.moved = env.moved
         /\ UNCHANGED <<queue, tool, ask, heard, turn>>
<1>1. env \in EnvValues
  BY EnvFields
<1>2. PICK x : x = (env.orderly /\ b /\ ~Busy)
  OBVIOUS
<1>3. env' = [env EXCEPT !.calls = @ + 1, !.orderly = x] /\ UNCHANGED <<queue, tool, ask, heard, turn>>
  BY <1>2 DEF Called
<1>4. env'.orderly = x /\ env'.moved = env.moved
  BY <1>1, <1>3 DEF EnvValues
<1>5. env.orderly /\ b /\ ~Busy
  BY <1>2, <1>4
<1>6. QED BY <1>3, <1>4, <1>5 DEF Busy, Active

LEMMA EngineFieldsOK ==
  ASSUME ConvInv
  PROVE  /\ engine \in EngineValues /\ engine.sealed \in Contexts \union {None} /\ turn \in TurnValues
         /\ heard \in Seq(Messages) /\ env \in EnvValues
         /\ engine.sealed # None => engine.sealed.msgs \in Seq(Messages) /\ engine.sealed \in Contexts
BY DEF ConvInv, EngineOK, EngineValues, TurnOK, HostOK, Contexts

\* An orderly call of the Host is let in, or is one after the release.
LEMMA OrderlyCall ==
  ASSUME ConvInv, Orderly, env'.orderly, NEW o, o # None, NEW e, NEW ok, Enter(o, e, ok), NEW b, Called(b),
         ~engine.released => ok,
         o.kind \in {"ingest", "open", "loop", "compact"}, o.had = engine.sealed,
         \/ e = engine
         \/ o.kind = "open" /\ o.at = "archive" /\ e = [engine EXCEPT !.sealed = None],
         ~engine.released =>
           /\ o.kind = "loop" => engine.sealed # None /\ (o.at = "check" => o.input = o.had.msgs)
           /\ o.kind = "compact" => Awaited(heard) = {} /\ ~IsFinal(heard)
  PROVE  Orderly'
<1>1. /\ op = None /\ Pending = {} /\ Active = {} /\ env'.moved = env.moved
      /\ UNCHANGED <<queue, tool, ask, heard, turn>>
  BY CalledOrderly
<1>2. CASE engine.released
  <2>1. UNCHANGED <<engine, op>>
    BY <1>2 DEF Enter, Enters
  <2>2. QED BY <1>1, <2>1, StandsStill
<1>3. CASE ~engine.released
  <2>1. op' = o /\ engine' = e
    BY <1>1, <1>3 DEF Enter, Enters, Orderly, Fine
  <2>2. /\ engine'.failed = engine.failed /\ engine'.closed = engine.closed
        /\ engine'.released = engine.released
        /\ engine'.sealed = engine.sealed \/ (o.kind = "open" /\ o.at = "archive")
    BY <2>1, EngineFieldsOK DEF EngineValues
  <2>3. Fine' /\ Completing'
    <3>1. turn.permit = "generate"
      BY <1>3 DEF Orderly, Completing
    <3>2. QED BY <1>1, <1>3, <2>1, <2>2, <3>1 DEF Orderly, Fine, Completing, Runs
  <2>4. HoldsSealed'
    <3>1. Awaited(heard)' = Awaited(heard) /\ IsFinal(heard)' = IsFinal(heard)
      BY <1>1 DEF Awaited, IsFinal
    <3>2. QED BY <1>3, <2>1, <2>2, <3>1 DEF HoldsSealed
  <2>5. SealedInStep
    BY <1>1, <1>3 DEF Orderly, Synced, Runs, At
  <2>6. ~Runs("open")' => engine'.sealed = engine.sealed
    BY <2>1, <2>2 DEF Runs
  <2>7. QED BY <1>1, <1>3, <2>1, <2>2, <2>3, <2>4, <2>5, <2>6, Steady DEF SealedInStep
<1>4. QED BY <1>2, <1>3

\* What may be running, and when.
LEMMA RunningOne ==
  ASSUME ConvInv, Orderly, op # None, op.kind \notin {"result", "output"}
  PROVE  /\ Active = {} /\ Pending = {} /\ (engine.released => op.kind = "persist")
         /\ op.kind # "persist" => ~engine.released /\ turn.permit = "generate"
<1>1. OneAtATime /\ Completing
  BY DEF Orderly
<1>2. Active = {} /\ Pending = {} /\ (engine.released => op.kind = "persist")
  BY <1>1 DEF OneAtATime, Runs
<1>3. QED BY <1>1, <1>2 DEF Completing

\* The running operation goes on.
LEMMA OrderlyMove ==
  ASSUME ConvInv, Orderly, op # None, op.kind \notin {"result", "output"},
         NEW at \in Places \ {"check", "extend"}, Goto(at), UNCHANGED <<queue, tool, ask, heard, env>>,
         engine'.failed = engine.failed, engine'.closed = engine.closed, engine'.released = engine.released,
         \/ engine' = engine
         \/ op.kind = "open"
         \/ op.kind = "compact" /\ engine'.sealed = None
         \/ op.kind = "loop" /\ engine'.sealed # None /\ engine'.sealed.msgs = engine.sealed.msgs,
         turn' = turn \/ (Completing' /\ ~turn'.rejected)
  PROVE  Orderly'
<1>1. /\ Active = {} /\ Pending = {} /\ (engine.released => op.kind = "persist")
      /\ op.kind # "persist" => ~engine.released /\ turn.permit = "generate"
  BY RunningOne
<1>2. op \in OpValues
  BY DEF ConvInv, OpOK
<1>3. op' # None /\ op'.kind = op.kind /\ op'.at = at /\ op'.had = op.had /\ op'.input = op.input
  <2>1. op' = [op EXCEPT !.at = at]
    BY DEF Goto
  <2>2. op' \in OpValues /\ op'.kind = op.kind /\ op'.at = at /\ op'.had = op.had /\ op'.input = op.input
    BY <1>2, <2>1 DEF OpValues
  <2>3. None \notin OpValues
    BY NoneApart
  <2>4. QED BY <2>2, <2>3
<1>4. Fine'
  BY DEF Orderly, Fine
<1>5. Completing'
  <2>1. SUFFICES ASSUME turn' = turn PROVE Completing'
    OBVIOUS
  <2>2. CASE op.kind = "persist"
    <3>1. engine' = engine /\ IsFinal(heard)' = IsFinal(heard) /\ Pending' = Pending
      BY <2>2 DEF IsFinal, Pending
    <3>2. Runs("persist") /\ Runs("persist")'
      BY <1>3, <2>2 DEF Runs
    <3>3. QED BY <2>1, <3>1, <3>2 DEF Orderly, Completing
  <2>3. CASE op.kind # "persist"
    BY <1>1, <1>3, <2>1, <2>3 DEF Completing, Runs
  <2>4. QED BY <2>2, <2>3
<1>6. HoldsSealed'
  <2>1. Awaited(heard)' = Awaited(heard) /\ IsFinal(heard)' = IsFinal(heard)
    BY DEF Awaited, IsFinal
  <2>2. HoldsSealed
    BY DEF Orderly
  <2>3. op.kind = "persist" => engine' = engine
    OBVIOUS
  <2>4. op.kind = "loop" => engine'.sealed # None
    BY <2>2 DEF HoldsSealed
  <2>5. QED BY <1>3, <2>1, <2>2, <2>3, <2>4 DEF HoldsSealed
<1>7. op.kind # "open" /\ ~engine.released =>
        IF engine'.sealed = None THEN Awaited(heard) = {} /\ ~IsFinal(heard) ELSE InStep(engine'.sealed.msgs)
  <2>1. SUFFICES ASSUME op.kind # "open", ~engine.released
                 PROVE IF engine'.sealed = None THEN Awaited(heard) = {} /\ ~IsFinal(heard)
                       ELSE InStep(engine'.sealed.msgs)
    OBVIOUS
  <2>2. SealedInStep /\ HoldsSealed
    BY <2>1 DEF Orderly, Synced, Runs, At
  <2>3. op.kind = "loop" => engine.sealed # None
    BY <2>2 DEF HoldsSealed
  <2>4. op.kind = "compact" => Awaited(heard) = {} /\ ~IsFinal(heard)
    BY <2>2 DEF HoldsSealed
  <2>5. QED BY <2>1, <2>2, <2>3, <2>4 DEF SealedInStep
<1>8. Runs("open")' <=> op.kind = "open"
  BY <1>3 DEF Runs
<1>9. engine'.released => op' = None \/ Runs("persist")'
  BY <1>1, <1>3 DEF Runs
<1>10. QED BY <1>1, <1>3, <1>4, <1>5, <1>6, <1>7, <1>8, <1>9, Steady

\* The running operation is over, and its caller keeps nothing of it.
LEMMA OrderlyEnd ==
  ASSUME ConvInv, Orderly, op # None, op.kind \in {"ingest", "loop", "compact"}, op' = None,
         UNCHANGED <<engine, queue, tool, ask, heard, turn, env>>
  PROVE  Orderly'
<1>1. Active = {} /\ Pending = {} /\ ~engine.released /\ turn.permit = "generate"
  BY RunningOne
<1>2. Fine' /\ HoldsSealed'
  BY DEF Orderly, Fine, HoldsSealed
<1>3. Completing'
  BY <1>1 DEF Completing, Runs
<1>4. SealedInStep
  BY <1>1 DEF Orderly, Synced, Runs, At
<1>5. QED BY <1>1, <1>2, <1>3, <1>4, Steady DEF SealedInStep

-----------------------------------------------------------------------------
(* The calls of the Host *)

\* The last answer the Host has heard was delivered, and asked for a batch.
LEMMA HeardBatch ==
  ASSUME ConvInv, HeardInv, Awaiting
  PROVE  /\ Last(heard).calls \in Batches /\ Last(heard).calls \in Seq(Tools)
         /\ heard \in Seq(Messages) /\ EndsInAnswer(heard) /\ Len(heard) \in 1..Len(heard)
<1>1. heard \in Seq(Messages) /\ EndsInAnswer(heard)
  BY DEF ConvInv, HostOK, Awaiting
<1>2. Len(heard) \in 1..Len(heard) /\ Last(heard) = heard[Len(heard)] /\ heard[Len(heard)].role = "assistant"
  BY <1>1, AnswerLast DEF EndsInAnswer
<1>3. Last(heard).calls \in Batches
  BY <1>2 DEF HeardInv, HeardOK, Owned, OwnAt
<1>4. QED BY <1>1, <1>2, <1>3, BatchesAssumption

\* An orderly step does no harm: no fault, no cancellation.
LEMMA Unharmed ==
  ASSUME ConvInv, env'.orderly
  PROVE  ~Fault(TRUE) /\ ~Fault(FALSE) /\ ~Cancel
<1>1. env \in EnvValues
  BY EnvFields
<1>2. \A x \in BOOLEAN : [env EXCEPT !.faults = @ + 1, !.orderly = FALSE, !.moved = x].orderly = FALSE
  BY <1>1 DEF EnvValues
<1>3. ~Fault(TRUE) /\ ~Fault(FALSE)
  <2>1. (env.moved \/ TRUE) \in BOOLEAN /\ (env.moved \/ FALSE) \in BOOLEAN
    OBVIOUS
  <2>2. ~Fault(TRUE)
    BY <1>2, <2>1 DEF Fault
  <2>3. ~Fault(FALSE)
    BY <1>2, <2>1 DEF Fault
  <2>4. QED BY <2>2, <2>3
<1>4. [env EXCEPT !.orderly = FALSE].orderly = FALSE
  BY <1>1 DEF EnvValues
<1>5. QED BY <1>3, <1>4 DEF Cancel

LEMMA OrderlyCalls ==
  ASSUME ConvInv, HeardInv, Orderly, env'.orderly,
         \/ Ingest \/ Assemble \/ Compact \/ \E k \in 0..Len(heard) : Reassemble(SubSeq(heard, 1, k))
  PROVE  Orderly'
<1>1. CASE Ingest
  <2>1. PICK o : o = NewOp("ingest", "archive")
    OBVIOUS
  <2>2. IsNew(o, "ingest", "archive", None, <<>>)
    BY <2>1, PlainOperation DEF Kinds, Places
  <2>3. o # None /\ o.kind = "ingest" /\ o.had = engine.sealed
    BY <2>2, NoneApart DEF IsNew
  <2>4. Enter(o, engine, TRUE) /\ Called(TRUE)
    BY <1>1, <2>1 DEF Ingest
  <2>5. QED BY <2>3, <2>4, OrderlyCall
<1>2. CASE Assemble
  <2>1. PICK o : o = NewOp("open", "archive")
    OBVIOUS
  <2>2. IsNew(o, "open", "archive", None, <<>>)
    BY <2>1, PlainOperation DEF Kinds, Places
  <2>3. o # None /\ o.kind = "open" /\ o.at = "archive" /\ o.had = engine.sealed
    BY <2>2, NoneApart DEF IsNew
  <2>4. PICK e : e = [engine EXCEPT !.sealed = None]
    OBVIOUS
  <2>5. Enter(o, e, TRUE) /\ Called(TRUE)
    BY <1>2, <2>1, <2>4 DEF Assemble
  <2>6. QED BY <2>3, <2>4, <2>5, OrderlyCall
<1>3. CASE Compact
  <2>1. PICK o : o = NewOp("compact", "summarize")
    OBVIOUS
  <2>2. IsNew(o, "compact", "summarize", None, <<>>)
    BY <2>1, PlainOperation DEF Kinds, Places
  <2>3. o # None /\ o.kind = "compact" /\ o.had = engine.sealed
    BY <2>2, NoneApart DEF IsNew
  <2>4. PICK ok : ok = (Pending = {} /\ (engine.sealed # None => CompleteBatch(engine.sealed.msgs)))
    OBVIOUS
  <2>5. PICK b : b = ((engine.sealed # None => CompleteBatch(engine.sealed.msgs)) /\ ~IsFinal(heard))
    OBVIOUS
  <2>6. Enter(o, engine, ok) /\ Called(b)
    BY <1>3, <2>1, <2>4, <2>5 DEF Compact
  <2>7. b /\ Pending = {} /\ op = None
    BY <2>6, CalledOrderly
  <2>8. ok /\ ~IsFinal(heard) /\ (engine.sealed # None => CompleteBatch(engine.sealed.msgs))
    BY <2>4, <2>5, <2>7
  <2>9. ~engine.released => Awaited(heard) = {}
    <3>1. SUFFICES ASSUME ~engine.released PROVE Awaited(heard) = {}
      OBVIOUS
    <3>2. SealedInStep
      BY <2>7, <3>1 DEF Orderly, Synced, Runs, At
    <3>3. CASE engine.sealed = None
      BY <3>2, <3>3 DEF SealedInStep
    <3>4. CASE engine.sealed # None
      <4>1. InStep(engine.sealed.msgs) /\ CompleteBatch(engine.sealed.msgs)
        BY <2>8, <3>2, <3>4 DEF SealedInStep
      <4>2. engine.sealed.msgs \in Seq(Messages) /\ HostOK /\ ~At("result", "return")
        BY <2>7, <3>4, EngineFieldsOK DEF ConvInv, At, Runs
      <4>3. Awaiting => Last(heard).calls \in Batches
        BY HeardBatch
      <4>4. QED BY <4>1, <4>2, <4>3, BatchHeard
    <3>5. QED BY <3>3, <3>4
  <2>10. QED BY <2>3, <2>6, <2>8, <2>9, OrderlyCall
<1>4. ASSUME NEW k \in 0..Len(heard), Reassemble(SubSeq(heard, 1, k)) PROVE Orderly'
  <2>1. PICK input \in Seq(Messages) : Reassemble(input)
    BY <1>4, HeardPart
  <2>2. PICK o : o = [NewOp("loop", "check") EXCEPT !.input = input]
    OBVIOUS
  <2>3. IsNew(o, "loop", "check", None, input)
    <3>1. "loop" \in Kinds /\ "check" \in Places
      BY DEF Kinds, Places
    <3>2. None \in Asks \union Tools \union {None}
      OBVIOUS
    <3>3. QED BY <2>2, <3>1, <3>2, NewOperation
  <2>4. o # None /\ o.kind = "loop" /\ o.input = input /\ o.had = engine.sealed
    BY <2>3, NoneApart DEF IsNew
  <2>5. PICK ok : ok = (engine.sealed # None /\ Pending = {} /\ CompleteBatch(input))
    OBVIOUS
  <2>6. PICK b : b = (engine.sealed # None /\ input = heard /\ CompleteBatch(heard))
    OBVIOUS
  <2>7. Enter(o, engine, ok) /\ Called(b)
    BY <2>1, <2>2, <2>5, <2>6 DEF Reassemble
  <2>8. b /\ Pending = {} /\ op = None
    BY <2>7, CalledOrderly
  <2>9. ok /\ engine.sealed # None /\ input = heard /\ CompleteBatch(heard)
    BY <2>5, <2>6, <2>8
  <2>10. ~engine.released => o.input = o.had.msgs
    <3>1. SUFFICES ASSUME ~engine.released PROVE engine.sealed.msgs = heard
      BY <2>4, <2>9
    <3>2. SealedInStep
      BY <2>8, <3>1 DEF Orderly, Synced, Runs, At
    <3>3. InStep(engine.sealed.msgs)
      BY <2>9, <3>2 DEF SealedInStep
    <3>4. engine.sealed.msgs \in Seq(Messages) /\ HostOK /\ (Awaiting => Last(heard).calls \in Batches)
      BY <2>9, EngineFieldsOK, HeardBatch DEF ConvInv
    <3>5. QED BY <2>9, <3>3, <3>4, BatchHeard
  <2>11. QED BY <2>4, <2>7, <2>9, <2>10, OrderlyCall
<1>5. QED BY <1>1, <1>2, <1>3, <1>4

LEMMA OrderlyWork ==
  ASSUME ConvInv, HeardInv, Orderly, env'.orderly,
         Archived \/ Seal \/ Project \/ Summarize \/ SaveSummary
  PROVE  Orderly'
<1>1. Fine /\ Valid /\ engine \in EngineValues
  BY EngineFieldsOK DEF Orderly, Fine, Valid
<1>2. CASE Archived
  <2>1. op # None /\ op.at = "archive" /\ Goto(IF op.kind = "open" THEN "seal" ELSE "return")
        /\ UNCHANGED <<engine, queue, tool, ask, heard, turn, env>>
    BY <1>1, <1>2 DEF Archived, Fine
  <2>2. op.kind \notin {"result", "output"}
    BY <2>1 DEF Orderly, HoldsSealed
  <2>3. PICK at \in {"seal", "return"} : Goto(at)
    BY <2>1
  <2>4. at \in Places \ {"check", "extend"}
    BY DEF Places
  <2>5. QED BY <2>1, <2>2, <2>3, <2>4, OrderlyMove
<1>3. CASE Seal
  <2>1. op # None /\ op.kind = "open" /\ Goto("return") /\ UNCHANGED <<queue, tool, ask, heard, turn, env>>
    BY <1>1, <1>3 DEF Seal, At, Runs, Fine
  <2>2. PICK c : engine' = [engine EXCEPT !.sealed = c]
    BY <1>1, <1>3 DEF Seal, Fine
  <2>3. engine'.failed = engine.failed /\ engine'.closed = engine.closed /\ engine'.released = engine.released
    BY <1>1, <2>2 DEF EngineValues
  <2>4. QED BY <2>1, <2>3, OrderlyMove DEF Places
<1>4. CASE Project
  <2>1. op # None /\ op.kind = "loop" /\ op.at = "check"
    BY <1>4 DEF Project, At, Runs
  <2>2. op.had = engine.sealed /\ engine.sealed # None /\ op.input = op.had.msgs
    BY <2>1 DEF Orderly, HoldsSealed
  <2>3. /\ engine' = IF op.had.timed THEN engine ELSE [engine EXCEPT !.sealed = [op.had EXCEPT !.timed = TRUE]]
        /\ Goto("archive") /\ UNCHANGED <<queue, tool, ask, heard, turn, env>>
    BY <1>1, <1>4, <2>2 DEF Project
  <2>4. PICK c : c = [op.had EXCEPT !.timed = TRUE]
    OBVIOUS
  <2>5. c \in Contexts /\ c.msgs = engine.sealed.msgs
    BY <2>2, <2>4, EngineFieldsOK DEF Contexts
  <2>6. c # None
    BY <2>5, NoneAssumption
  <2>7. engine' = engine \/ engine' = [engine EXCEPT !.sealed = c]
    BY <2>3, <2>4
  <2>8. engine'.failed = engine.failed /\ engine'.closed = engine.closed /\ engine'.released = engine.released
    BY <1>1, <2>7 DEF EngineValues
  <2>9. engine'.sealed # None /\ engine'.sealed.msgs = engine.sealed.msgs
    BY <1>1, <2>2, <2>5, <2>6, <2>7 DEF EngineValues
  <2>10. QED BY <2>1, <2>3, <2>8, <2>9, OrderlyMove DEF Places
<1>5. CASE Summarize
  <2>1. op # None /\ op.kind = "compact" /\ Goto("save")
        /\ UNCHANGED <<engine, queue, tool, ask, heard, turn, env>>
    BY <1>1, <1>5 DEF Summarize, At, Runs
  <2>2. QED BY <2>1, OrderlyMove DEF Places
<1>6. CASE SaveSummary
  <2>1. /\ op # None /\ op.kind = "compact" /\ Goto("return") /\ UNCHANGED <<queue, tool, ask, heard, turn, env>>
        /\ engine' = [engine EXCEPT !.history = @ + 1, !.sealed = None]
    BY <1>1, <1>6 DEF SaveSummary, At, Runs, Fine
  <2>2. /\ engine'.failed = engine.failed /\ engine'.closed = engine.closed
        /\ engine'.released = engine.released /\ engine'.sealed = None
    BY <1>1, <2>1 DEF EngineValues
  <2>3. QED BY <2>1, <2>2, OrderlyMove DEF Places
<1>7. QED BY <1>2, <1>3, <1>4, <1>5, <1>6

-----------------------------------------------------------------------------
(* Tool results *)

\* What is running was called for by the last answer, and something is sealed.
LEMMA PendingCalled ==
  ASSUME ConvInv, HeardInv, Orderly, ~engine.released, NEW t \in Pending
  PROVE  /\ Awaiting /\ t \in Range(Last(heard).calls) /\ Last(heard).calls # <<>> /\ Active = {}
         /\ op = None \/ Runs("result")
         /\ engine.sealed # None /\ InStep(engine.sealed.msgs) /\ engine.sealed.msgs \in Seq(Messages)
         /\ turn.permit = "generate"
<1>1. Awaiting /\ t \in Range(Last(heard).calls)
  BY DEF Orderly, Synced
<1>2. Active = {} /\ (op = None \/ Runs("result"))
  BY DEF Orderly, OneAtATime
<1>3. SealedInStep
  BY <1>2 DEF Orderly, Synced, Runs, At
<1>4. Awaited(heard) = Range(Last(heard).calls)
  BY <1>1, HeardBatch, AnswerLast
<1>5. engine.sealed # None /\ InStep(engine.sealed.msgs)
  BY <1>1, <1>3, <1>4 DEF SealedInStep
<1>6. engine.sealed.msgs \in Seq(Messages)
  BY <1>5, EngineFieldsOK
<1>7. Last(heard).calls # <<>>
  <2>1. Last(heard).calls \in Seq(Tools)
    BY <1>1, HeardBatch
  <2>2. QED BY <1>1, <2>1, EmptyRange
<1>8. turn.permit = "generate"
  BY DEF Orderly, Completing
<1>9. QED BY <1>1, <1>2, <1>5, <1>6, <1>7, <1>8

LEMMA StepKept ==
  ASSUME heard' = heard, Given' = Given, NEW msgs, InStep(msgs),
         Awaiting /\ Last(heard).calls # <<>> => \E t \in Range(Last(heard).calls) : tool'[t] \notin {"done", "failed"}
  PROVE  InStep(msgs)'
<1>1. Awaiting' = Awaiting /\ Awaited(heard)' = Awaited(heard)
  BY DEF Awaiting, Awaited, EndsInAnswer
<1>2. Standing(heard, msgs, Given)' = Standing(heard, msgs, Given)
  BY DEF Standing, Agree, LastAt, Answered
<1>3. QED BY <1>1, <1>2 DEF InStep

LEMMA OrderlyToolReturns ==
  ASSUME ConvInv, HeardInv, Orderly, env'.orderly, NEW t \in Tools, ToolReturns(t)
  PROVE  Orderly'
<1>1. /\ tool[t] = "idle" /\ Delivered(t) /\ UNCHANGED <<engine, op, ask, heard, turn>>
      /\ tool' = [tool EXCEPT ![t] = "queued"] /\ queue' = Append(queue, t)
  BY DEF ToolReturns
<1>2. t \in Awaited(heard) /\ (op = None \/ Runs("result")) /\ env'.moved = env.moved
  <2>1. PICK x : x = (env.orderly /\ t \in Awaited(heard) /\ (op = None \/ Runs("result")))
    OBVIOUS
  <2>2. env' = [env EXCEPT !.orderly = x] /\ env \in EnvValues
    BY <2>1, EnvFields DEF ToolReturns
  <2>3. env'.orderly = x /\ env'.moved = env.moved
    BY <2>2 DEF EnvValues
  <2>4. QED BY <2>1, <2>3
<1>3. tool \in [Tools -> {"idle", "queued", "running", "done", "failed"}] /\ queue \in Seq(Tools)
  BY DEF ConvInv, HostOK
<1>4. /\ tool'[t] = "queued" /\ \A u \in Tools : u # t => tool'[u] = tool[u]
      /\ Pending' = Pending \cup {t}
  BY <1>1, <1>3 DEF Pending
<1>5. Active = {} /\ Active' = {}
  <2>1. SUFFICES ASSUME NEW m \in Active PROVE FALSE
    BY <1>1 DEF Active
  <2>2. op = None /\ ~engine.released /\ ask[m].at # "observing"
    BY <1>2 DEF Orderly, OneAtATime, Runs
  <2>3. engine.sealed # None /\ ask[m].input = heard
    BY DEF Orderly, AskedSealed
  <2>4. CompleteBatch(heard)
    BY <2>2, <2>3 DEF ConvInv, AsksOK, AskOK, Active, AskValues
  <2>5. InStep(engine.sealed.msgs)
    BY <2>2, <2>3 DEF Orderly, Synced, SealedInStep, Runs, At
  <2>6. engine.sealed.msgs \in Seq(Messages) /\ HostOK /\ (Awaiting => Last(heard).calls \in Batches)
    BY <2>3, EngineFieldsOK, HeardBatch DEF ConvInv
  <2>7. Awaited(heard) = {}
    BY <2>4, <2>5, <2>6, BatchHeard
  <2>8. QED BY <1>2, <2>7
<1>6. ToolsOK'
  <2>1. /\ Len(queue') = Len(queue) + 1 /\ queue'[Len(queue) + 1] = t /\ Len(queue) \in Nat
        /\ \A i \in 1..Len(queue) : queue'[i] = queue[i] /\ queue[i] \in Tools /\ queue[i] # t
    <3>1. \A i \in 1..Len(queue) : queue[i] \in Tools /\ queue[i] # t
      BY <1>1, <1>3 DEF Orderly, ToolsOK
    <3>2. QED BY <1>1, <1>3, <3>1
  <2>2. \A i, j \in 1..Len(queue') : queue'[i] = queue'[j] => i = j
    BY <2>1 DEF Orderly, ToolsOK
  <2>3. \A i \in 1..Len(queue') : tool'[queue'[i]] = "queued"
    BY <1>4, <2>1 DEF Orderly, ToolsOK
  <2>4. \A u \in Tools : tool'[u] # "idle" => Delivered(u)
    BY <1>1, <1>4 DEF Orderly, ToolsOK
  <2>5. \A u \in Tools : tool'[u] = "running" => Runs("result") /\ op.who = u
    BY <1>4 DEF Orderly, ToolsOK
  <2>6. QED BY <1>1, <2>2, <2>3, <2>4, <2>5 DEF Orderly, ToolsOK, Delivered, Runs
<1>7. OneAtATime'
  BY <1>1, <1>2, <1>5 DEF Orderly, OneAtATime, Runs
<1>8. HoldsSealed' /\ AskedSealed' /\ Fine'
  BY <1>1, <1>2, <1>5 DEF Orderly, HoldsSealed, AskedSealed, Fine, Awaited, IsFinal
<1>9. Awaiting => Awaited(heard) = Range(Last(heard).calls)
  BY HeardBatch, AnswerLast
<1>10. Synced'
  <2>1. SUFFICES ASSUME ~engine.released PROVE Synced'
    BY <1>1 DEF Synced
  <2>2. SealedInStep
    BY <1>2, <2>1 DEF Orderly, Synced, Runs, At
  <2>3. engine.sealed # None /\ InStep(engine.sealed.msgs) /\ Awaiting
    BY <1>2, <2>2 DEF SealedInStep, InStep
  <2>4. t \in Range(Last(heard).calls)
    BY <1>2, <1>9, <2>3
  <2>5. Given' = Given
    <3>1. At("result", "return")' = At("result", "return")
      BY <1>1 DEF At, Runs
    <3>2. ASSUME NEW k \in DOMAIN Last(heard).calls
          PROVE  tool'[Last(heard).calls[k]] \in {"done", "running"} \/ tool[Last(heard).calls[k]] \in {"done", "running"}
                   => tool'[Last(heard).calls[k]] = tool[Last(heard).calls[k]]
      <4>1. Last(heard).calls[k] \in Tools
        BY <2>3, HeardBatch
      <4>2. QED BY <1>1, <1>4, <4>1
    <3>3. QED BY <1>1, <3>1, <3>2 DEF Given
  <2>6. InStep(engine.sealed.msgs)'
    <3>1. PICK msgs : msgs = engine.sealed.msgs
      OBVIOUS
    <3>2. InStep(msgs)'
      BY <1>1, <1>4, <2>3, <2>4, <2>5, <3>1, StepKept
    <3>3. QED BY <1>1, <3>1, <3>2
  <2>7. \A u \in Tools : tool'[u] # "failed"
    BY <1>4, <2>1 DEF Orderly, Synced
  <2>8. \A u \in Pending' : Awaiting /\ u \in Range(Last(heard).calls)
    BY <1>4, <2>1, <2>3, <2>4 DEF Orderly, Synced
  <2>9. QED BY <1>1, <2>3, <2>6, <2>7, <2>8 DEF Synced, SealedInStep, Awaiting, EndsInAnswer
<1>11. Completing'
  <2>1. ~IsFinal(heard)
    <3>1. SUFFICES ASSUME IsFinal(heard) PROVE FALSE
      OBVIOUS
    <3>2. Awaiting /\ Last(heard).calls = <<>>
      BY <3>1 DEF IsFinal, Awaiting, EndsInAnswer
    <3>3. Awaited(heard) = {}
      BY <1>9, <3>2, HeardBatch, EmptyRange
    <3>4. QED BY <1>2, <3>3
  <2>2. QED BY <1>1, <2>1 DEF Orderly, Completing, IsFinal, Runs
<1>12. QED BY <1>6, <1>7, <1>8, <1>10, <1>11 DEF Orderly

\* The Host hears a final answer only as one that it was given.
LEMMA GatheredFinal ==
  ASSUME ConvInv, HeardInv, NEW settled
  PROVE  /\ Gathered(settled) = heard \/ ~IsFinal(Gathered(settled))
         /\ Gathered(settled) # heard => Awaiting
<1>1. CASE Gathered(settled) = heard
  BY <1>1
<1>2. CASE Gathered(settled) # heard
  <2>1. Awaiting /\ Gathered(settled) = heard \o Results(Last(heard).calls)
    BY <1>2 DEF Gathered, Awaiting, EndsInAnswer
  <2>2. Last(heard).calls \in Seq(Tools) /\ heard \in Seq(Messages)
    BY <2>1, HeardBatch
  <2>3. PICK calls \in Seq(Tools) : calls = Last(heard).calls
    BY <2>2
  <2>4. PICK r : r = Results(calls)
    OBVIOUS
  <2>5. r \in Seq(Messages) /\ Len(r) = Len(calls) /\ \A k \in 1..Len(calls) : r[k] = Result(calls[k])
    <3>1. \A u \in Tools : Result(u) \in Messages
      BY DEF Result, Messages
    <3>2. r = [k \in 1..Len(calls) |-> Result(calls[k])] /\ \A k \in 1..Len(calls) : calls[k] \in Tools
      BY <2>4 DEF Results
    <3>3. Len(calls) \in Nat
      OBVIOUS
    <3>4. QED BY <3>1, <3>2, <3>3
  <2>6. Len(calls) # 0
    <3>1. SUFFICES ASSUME Len(calls) = 0 PROVE FALSE
      OBVIOUS
    <3>2. r = <<>>
      BY <2>5, <3>1
    <3>3. heard \o r = heard
      BY <2>2, <3>2
    <3>4. QED BY <1>2, <2>1, <2>3, <2>4, <3>3
  <2>7. PICK w : w = heard \o r
    OBVIOUS
  <2>8. w \in Seq(Messages) /\ Len(w) = Len(heard) + Len(r) /\ w[Len(w)] = r[Len(r)]
    <3>1. Len(r) \in Nat /\ Len(r) > 0 /\ Len(heard) \in Nat
      BY <2>2, <2>5, <2>6
    <3>2. /\ w \in Seq(Messages) /\ Len(w) = Len(heard) + Len(r)
          /\ \A j \in 1..(Len(heard) + Len(r)) : w[j] = IF j <= Len(heard) THEN heard[j] ELSE r[j - Len(heard)]
      <4>1. PICK h \in Seq(Messages) : h = heard
        BY <2>2
      <4>2. w = h \o r /\ r \in Seq(Messages)
        BY <2>5, <2>7, <4>1
      <4>3. /\ w \in Seq(Messages) /\ Len(w) = Len(h) + Len(r)
            /\ \A j \in 1..(Len(h) + Len(r)) : w[j] = IF j <= Len(h) THEN h[j] ELSE r[j - Len(h)]
        BY ONLY h \in Seq(Messages), <4>2, Joining
      <4>4. QED BY ONLY <4>1, <4>3
    <3>3. /\ Len(heard) + Len(r) \in 1..(Len(heard) + Len(r)) /\ ~(Len(heard) + Len(r) <= Len(heard))
          /\ (Len(heard) + Len(r)) - Len(heard) = Len(r)
      BY <3>1
    <3>4. QED BY <3>2, <3>3
  <2>9. w[Len(w)].role = "toolResult"
    <3>1. Len(r) \in 1..Len(calls)
      BY <2>5, <2>6
    <3>2. w[Len(w)] = Result(calls[Len(r)])
      BY <2>5, <2>8, <3>1
    <3>3. QED BY <3>2 DEF Result
  <2>10. ~IsFinal(w)
    BY <2>9 DEF IsFinal, Last
  <2>11. QED BY <2>1, <2>3, <2>4, <2>7, <2>10
<1>3. QED BY <1>1, <1>2

LEMMA OrderlyNextResult ==
  ASSUME ConvInv, HeardInv, Orderly, env'.orderly, NextResult
  PROVE  Orderly'
<1>1. PICK t : t = Head(queue)
  OBVIOUS
<1>2. queue \in Seq(Tools) /\ tool \in [Tools -> {"idle", "queued", "running", "done", "failed"}]
  BY DEF ConvInv, HostOK
<1>3. queue # <<>> /\ ~Runs("result") /\ queue' = Tail(queue) /\ UNCHANGED <<ask, turn, env>> /\ heard' = Gathered(tool')
  BY DEF NextResult
<1>4. t \in Tools /\ tool[t] = "queued" /\ t \in Pending /\ t = queue[1] /\ 1 \in 1..Len(queue)
  <2>1. 1 \in 1..Len(queue) /\ t = queue[1] /\ t \in Tools
    BY <1>1, <1>2, <1>3
  <2>2. QED BY <2>1 DEF Orderly, ToolsOK, Pending
<1>5. PICK ok : ok = (engine.sealed # None /\ t \in Awaited(engine.sealed.msgs))
  OBVIOUS
<1>6. PICK o : o = [NewOp("result", "extend") EXCEPT !.who = t]
  OBVIOUS
<1>7. o \in OpValues /\ o.kind = "result" /\ o.at = "extend" /\ o.who = t /\ o.had = engine.sealed /\ o # None
  <2>1. "result" \in Kinds /\ "extend" \in Places /\ t \in Asks \union Tools \union {None} /\ <<>> \in Seq(Messages)
    BY <1>4 DEF Kinds, Places
  <2>2. IsNew(o, "result", "extend", t, <<>>)
    BY <1>6, <2>1, NewOperation
  <2>3. QED BY <2>2, NoneApart DEF IsNew
<1>8. Enter(o, engine, ok) /\ tool' = [tool EXCEPT ![t] = IF Enters(ok) THEN "running" ELSE "failed"]
  BY <1>1, <1>5, <1>6 DEF NextResult
<1>9. op = None /\ Active = {}
  BY <1>3, <1>4 DEF Orderly, OneAtATime
<1>10. ASSUME NEW s \in {"running", "failed"}, tool' = [tool EXCEPT ![t] = s],
              s = "running" => Runs("result")' /\ op'.who = t
       PROVE  /\ ToolsOK' /\ tool'[t] = s /\ (\A u \in Tools : u # t => tool'[u] = tool[u])
              /\ Pending' \subseteq Pending
  <2>1. tool'[t] = s /\ \A u \in Tools : u # t => tool'[u] = tool[u]
    BY <1>2, <1>4, <1>10
  <2>2. Pending' \subseteq Pending
    BY <1>4, <2>1 DEF Pending
  <2>3. /\ Len(queue) \in Nat /\ Len(queue) > 0 /\ Len(queue') = Len(queue) - 1
        /\ \A i \in 1..Len(queue') : queue'[i] = queue[i + 1] /\ i + 1 \in 1..Len(queue) /\ i + 1 # 1
    BY <1>2, <1>3
  <2>4. \A i, j \in 1..Len(queue) : queue[i] = queue[j] => i = j
    BY DEF Orderly, ToolsOK
  <2>5. \A i, j \in 1..Len(queue') : queue'[i] = queue'[j] => i = j
    <3>1. SUFFICES ASSUME NEW i \in 1..Len(queue'), NEW j \in 1..Len(queue'), queue'[i] = queue'[j] PROVE i = j
      OBVIOUS
    <3>2. i + 1 = j + 1
      BY <2>3, <2>4, <3>1
    <3>3. QED BY <2>3, <3>2
  <2>6. \A i \in 1..Len(queue') : tool'[queue'[i]] = "queued"
    <3>1. SUFFICES ASSUME NEW i \in 1..Len(queue') PROVE tool'[queue'[i]] = "queued"
      OBVIOUS
    <3>2. i + 1 \in 1..Len(queue) /\ queue'[i] = queue[i + 1] /\ i + 1 # 1
      BY <2>3
    <3>3. queue[i + 1] # t /\ queue[i + 1] \in Tools
      BY <1>2, <1>4, <2>4, <3>2
    <3>4. tool[queue[i + 1]] = "queued"
      BY <3>2 DEF Orderly, ToolsOK
    <3>5. QED BY <2>1, <3>2, <3>3, <3>4
  <2>7. \A u \in Tools : tool'[u] # "idle" => Delivered(u)
    BY <1>4, <2>1 DEF Orderly, ToolsOK
  <2>8. \A u \in Tools : tool'[u] = "running" => Runs("result")' /\ op'.who = u
    BY <1>3, <1>10, <2>1 DEF Orderly, ToolsOK
  <2>9. ToolsOK'
    BY <1>3, <2>5, <2>6, <2>7, <2>8 DEF Orderly, ToolsOK, Delivered
  <2>10. QED BY <2>1, <2>2, <2>9
<1>11. Active' = {}
  BY <1>3, <1>9 DEF Active
<1>12. CASE engine.released
  <2>1. UNCHANGED <<engine, op>> /\ tool' = [tool EXCEPT ![t] = "failed"]
    BY <1>8, <1>12 DEF Enter, Enters
  <2>2. ToolsOK' /\ Pending' \subseteq Pending
    BY <1>10, <2>1
  <2>3. heard' = heard \/ ~IsFinal(heard')
    BY <1>3, GatheredFinal
  <2>4. turn.permit \notin {"persist", "persisting", "publish"}
    BY <1>4 DEF Orderly, Completing
  <2>5. Completing'
    BY <1>3, <1>9, <2>1, <2>3, <2>4 DEF Orderly, Completing, IsFinal, Runs
  <2>6. OneAtATime' /\ HoldsSealed' /\ AskedSealed' /\ Synced' /\ Fine'
    BY <1>3, <1>9, <1>11, <1>12, <2>1 DEF Orderly, OneAtATime, HoldsSealed, AskedSealed, Synced, Fine
  <2>7. QED BY <2>2, <2>5, <2>6 DEF Orderly
<1>13. CASE ~engine.released
  <2>1. /\ Awaiting /\ t \in Range(Last(heard).calls) /\ Last(heard).calls # <<>>
        /\ engine.sealed # None /\ InStep(engine.sealed.msgs) /\ engine.sealed.msgs \in Seq(Messages)
        /\ turn.permit = "generate"
    BY <1>4, <1>13, PendingCalled
  <2>2. ok
    <3>1. PICK k \in DOMAIN Last(heard).calls : t = Last(heard).calls[k]
      BY <2>1 DEF Range
    <3>2. k \notin Given
      BY <1>4, <3>1 DEF Given
    <3>3. PICK msgs \in Seq(Messages) : msgs = engine.sealed.msgs /\ Standing(heard, msgs, Given)
      BY <2>1 DEF InStep
    <3>4. Awaited(msgs) = {Last(heard).calls[j] : j \in (DOMAIN Last(heard).calls) \ Given}
      BY <2>1, <3>3, HeardBatch, SomeGiven
    <3>5. t \in Awaited(msgs)
      BY <3>1, <3>2, <3>4
    <3>6. QED BY <1>5, <2>1, <3>3, <3>5
  <2>3. Enters(ok)
    BY <1>9, <1>13, <2>2 DEF Enters, Orderly, Fine
  <2>4. op' = o /\ engine' = engine /\ tool' = [tool EXCEPT ![t] = "running"]
    BY <1>8, <2>3 DEF Enter
  <2>5. Runs("result")' /\ op'.who = t /\ ~At("result", "return")' /\ ~At("result", "return")
        /\ ~Runs("persist")'
    BY <1>7, <1>9, <2>4 DEF Runs, At
  <2>6. ToolsOK' /\ Pending' \subseteq Pending /\ tool'[t] = "running" /\ \A u \in Tools : u # t => tool'[u] = tool[u]
    BY <1>10, <2>4, <2>5
  <2>7. heard' = heard
    BY <1>3, <2>1, <2>6 DEF Gathered
  <2>8. Given' = Given
    <3>1. \A k \in DOMAIN Last(heard).calls :
            tool'[Last(heard).calls[k]] = "done" <=> tool[Last(heard).calls[k]] = "done"
      <4>1. \A k \in DOMAIN Last(heard).calls : Last(heard).calls[k] \in Tools
        BY <2>1, HeardBatch
      <4>2. QED BY <1>4, <2>6, <4>1
    <3>2. QED BY <2>5, <2>7, <3>1 DEF Given
  <2>9. InStep(engine.sealed.msgs)'
    <3>1. PICK msgs : msgs = engine.sealed.msgs
      OBVIOUS
    <3>2. InStep(msgs)'
      BY <2>1, <2>6, <2>7, <2>8, <3>1, StepKept
    <3>3. QED BY <2>4, <3>1, <3>2
  <2>10. Synced'
    <3>1. \A u \in Tools : tool'[u] # "failed"
      BY <1>13, <2>6 DEF Orderly, Synced
    <3>2. \A u \in Pending' : Awaiting' /\ u \in Range(Last(heard').calls)
      BY <1>13, <2>6, <2>7 DEF Orderly, Synced, Awaiting
    <3>3. SealedInStep'
      BY <2>1, <2>4, <2>9 DEF SealedInStep
    <3>4. QED BY <3>1, <3>2, <3>3 DEF Synced
  <2>11. Completing' /\ Fine'
    BY <1>3, <1>13, <2>1, <2>4, <2>5 DEF Orderly, Completing, Fine
  <2>12. HoldsSealed'
    BY <1>7, <2>4 DEF HoldsSealed
  <2>13. OneAtATime' /\ AskedSealed'
    BY <1>3, <1>11, <1>13, <2>4, <2>5 DEF OneAtATime, AskedSealed
  <2>14. QED BY <2>6, <2>10, <2>11, <2>12, <2>13 DEF Orderly
<1>14. QED BY <1>12, <1>13

LEMMA OrderlyExtends ==
  ASSUME ConvInv, HeardInv, Orderly, env'.orderly, ExtendToolResult
  PROVE  Orderly'
<1>1. op # None /\ op.kind = "result" /\ op.at = "extend" /\ op \in OpValues /\ op.had = engine.sealed
  BY DEF ExtendToolResult, At, Runs, ConvInv, OpOK, Orderly, HoldsSealed
<1>2. PICK t \in Tools : t = op.who /\ tool[t] = "running" /\ t \in Pending
  BY <1>1 DEF ConvInv, OpOK, Linked, Pending
<1>3. Active = {} /\ ~engine.released
  BY <1>1, <1>2 DEF Orderly, OneAtATime, Runs
<1>4. /\ Awaiting /\ t \in Range(Last(heard).calls) /\ Last(heard).calls # <<>>
      /\ engine.sealed # None /\ InStep(engine.sealed.msgs) /\ engine.sealed.msgs \in Seq(Messages)
      /\ turn.permit = "generate"
  BY <1>2, <1>3, PendingCalled
<1>5. PICK msgs \in Seq(Messages) : msgs = engine.sealed.msgs /\ Standing(heard, msgs, Given)
  BY <1>4 DEF InStep
<1>6. PICK q \in DOMAIN Last(heard).calls : t = Last(heard).calls[q]
  BY <1>4 DEF Range
<1>7. q \notin Given
  BY <1>1, <1>2, <1>6 DEF Given, At, Runs
<1>8. PICK next : next = WithResult(msgs, t)
  OBVIOUS
<1>9. next \in Seq(Messages) /\ Standing(heard, next, Given \cup {q})
  <2>1. /\ heard \in Seq(Messages) /\ EndsInAnswer(heard) /\ Last(heard).calls \in Batches
    BY <1>4, HeardBatch
  <2>2. q \in (DOMAIN Last(heard).calls) \ Given /\ next = WithResult(msgs, Last(heard).calls[q])
    BY <1>6, <1>7, <1>8
  <2>3. QED BY <1>5, <2>1, <2>2, MoreGiven
<1>10. PICK c : c = [op.had EXCEPT !.msgs = WithResult(@, op.who)]
  OBVIOUS
<1>11. c \in Contexts /\ c.msgs = next
  <2>1. engine.sealed \in Contexts /\ c = [engine.sealed EXCEPT !.msgs = next]
    BY <1>1, <1>2, <1>4, <1>5, <1>8, <1>10, EngineFieldsOK
  <2>2. QED BY <1>9, <2>1 DEF Contexts
<1>12. c # None
  BY <1>11, NoneAssumption
<1>13. /\ engine' = [engine EXCEPT !.sealed = c] /\ Goto("return")
       /\ UNCHANGED <<queue, tool, ask, heard, turn, env>>
  BY <1>10 DEF ExtendToolResult, Valid, Orderly, Fine
<1>14. /\ engine'.failed = engine.failed /\ engine'.closed = engine.closed /\ engine'.released = engine.released
       /\ engine'.sealed = c
  BY <1>13, EngineFieldsOK DEF EngineValues
<1>15. op' # None /\ op'.kind = "result" /\ op'.at = "return" /\ op'.who = t
  <2>1. op' = [op EXCEPT !.at = "return"]
    BY <1>13 DEF Goto
  <2>2. op' \in OpValues /\ op'.kind = "result" /\ op'.at = "return" /\ op'.who = t
    BY <1>1, <1>2, <2>1 DEF OpValues, Places
  <2>3. QED BY <2>2, NoneApart
<1>16. Active' = {} /\ Pending' = Pending /\ Runs("result") /\ Runs("result")'
  BY <1>1, <1>3, <1>13, <1>15 DEF Active, Pending, Runs
<1>17. ToolsOK'
  <2>1. \A u \in Tools : tool[u] = "running" => u = t
    BY <1>2 DEF Orderly, ToolsOK
  <2>2. ToolsOK
    BY DEF Orderly
  <2>3. \A u : Delivered(u) => Delivered(u)'
    BY <1>13 DEF Delivered
  <2>4. QED BY <1>13, <1>15, <1>16, <2>1, <2>2, <2>3 DEF ToolsOK
<1>18. OneAtATime' /\ HoldsSealed' /\ AskedSealed' /\ Fine'
  BY <1>3, <1>13, <1>14, <1>15, <1>16 DEF OneAtATime, HoldsSealed, AskedSealed, Orderly, Fine
<1>19. Completing'
  BY <1>3, <1>4, <1>13, <1>14, <1>15 DEF Completing, Runs
<1>20. Given' = Given \cup {q}
  <2>1. IsInjective(Last(heard).calls) /\ Last(heard).calls \in Seq(Tools)
    BY <1>4, HeardBatch, BatchesAssumption
  <2>2. \A k \in DOMAIN Last(heard).calls : Last(heard).calls[k] = t <=> k = q
    BY <1>6, <2>1 DEF IsInjective
  <2>3. \A k \in DOMAIN Last(heard).calls : tool[Last(heard).calls[k]] = "running" <=> k = q
    <3>1. \A u \in Tools : tool[u] = "running" <=> u = t
      BY <1>2 DEF Orderly, ToolsOK
    <3>2. \A k \in DOMAIN Last(heard).calls : Last(heard).calls[k] \in Tools
      BY <2>1
    <3>3. QED BY <2>2, <3>1, <3>2
  <2>4. ~At("result", "return") /\ At("result", "return")'
    BY <1>1, <1>15 DEF At, Runs
  <2>5. QED BY <1>6, <1>13, <2>3, <2>4 DEF Given
<1>21. Synced'
  <2>1. Standing(heard, next, Given)'
    <3>1. PICK G : G = Given \cup {q}
      OBVIOUS
    <3>2. Standing(heard, next, G) /\ Given' = G
      BY <1>9, <1>20, <3>1
    <3>3. QED BY <1>13, <3>2 DEF Standing, Agree, LastAt, Answered
  <2>2. InStep(next)'
    BY <1>4, <1>13, <2>1 DEF InStep, Awaiting, EndsInAnswer
  <2>3. SealedInStep'
    BY <1>11, <1>12, <1>14, <2>2 DEF SealedInStep
  <2>4. \A u \in Tools : tool[u] # "failed"
    BY <1>3 DEF Orderly, Synced
  <2>5. \A u \in Pending : Awaiting /\ u \in Range(Last(heard).calls)
    BY <1>3 DEF Orderly, Synced
  <2>6. QED BY <1>13, <1>16, <2>3, <2>4, <2>5 DEF Synced, Awaiting
<1>22. QED BY <1>17, <1>18, <1>19, <1>21 DEF Orderly

-----------------------------------------------------------------------------
(* What the running operation returns *)

LEMMA OrderlyOpened ==
  ASSUME ConvInv, HeardInv, Orderly, op # None, op.kind = "open", op.at = "return", op' = None,
         heard' = engine.sealed.msgs, UNCHANGED <<engine, queue, tool, ask, turn, env>>
  PROVE  Orderly'
<1>1. Active = {} /\ Pending = {} /\ ~engine.released /\ turn.permit = "generate"
  BY RunningOne
<1>2. ~engine.failed
  BY DEF Orderly, Fine
<1>3. engine.sealed # None /\ engine.sealed.msgs \in Seq(Messages)
  BY <1>2, EngineFieldsOK DEF ConvInv, Linked
<1>4. PICK msgs \in Seq(Messages) : msgs = engine.sealed.msgs
  BY <1>3
<1>5. \A i \in 1..Len(msgs) : msgs[i].role # "assistant"
  BY <1>2, <1>4 DEF HeardInv, OpenedPlain, Runs
<1>6. Awaited(msgs) = {} /\ ~EndsInAnswer(msgs)
  <2>1. LastAt(msgs, 0)
    BY <1>5 DEF LastAt
  <2>2. LastAnswer(msgs) = 0
    BY <2>1, LastAnswerIs
  <2>3. msgs # <<>> => Len(msgs) \in 1..Len(msgs)
    OBVIOUS
  <2>4. QED BY <1>5, <2>2, <2>3 DEF Awaited, EndsInAnswer, Last
<1>7. ToolsOK' /\ Fine' /\ HoldsSealed'
  BY DEF Orderly, ToolsOK, Delivered, Fine, HoldsSealed, Runs
<1>8. Active' = {} /\ Pending' = {}
  BY <1>1 DEF Active, Pending
<1>9. OneAtATime' /\ AskedSealed' /\ Completing'
  BY <1>1, <1>8 DEF OneAtATime, AskedSealed, Completing, Runs
<1>10. Synced'
  <2>1. heard' = msgs
    BY <1>4
  <2>2. InStep(msgs)'
    BY <1>6, <2>1 DEF InStep, Awaiting
  <2>3. SealedInStep'
    BY <1>3, <1>4, <2>2 DEF SealedInStep
  <2>4. \A u \in Tools : tool[u] # "failed"
    BY <1>1 DEF Orderly, Synced
  <2>5. QED BY <1>8, <2>3, <2>4 DEF Synced
<1>11. QED BY <1>7, <1>9, <1>10 DEF Orderly

LEMMA OrderlyAnswered ==
  ASSUME ConvInv, HeardInv, Orderly, NEW m \in Asks, op # None, op.kind = "output", op.at = "return", op.who = m,
         op' = None, ask' = [ask EXCEPT ![m].at = IF Delivers(m) THEN "done" ELSE "refused"],
         Delivers(m) => heard' = Append(ask[m].input, ask[m].answer),
         Delivers(m) => turn' = [turn EXCEPT !.rejected = @ \/ FALSE],
         UNCHANGED <<engine, queue, tool, env>>
  PROVE  Orderly'
<1>1. ask[m].at = "observing" /\ m \in Active
  BY DEF ConvInv, Linked, Active
<1>2. /\ Pending = {} /\ ~engine.released /\ turn.permit = "generate" /\ ~turn.rejected
      /\ \A n \in Active : n = m
  BY <1>1 DEF Orderly, OneAtATime, Completing, Fine
<1>3. Delivers(m)
  BY <1>2 DEF Delivers
<1>4. ask \in [Asks -> AskValues]
  BY DEF ConvInv, AsksOK
<1>5. /\ ask'[m].at = "done" /\ ask'[m].answer = ask[m].answer
      /\ \A n \in Asks : n # m => ask'[n] = ask[n]
  BY <1>3, <1>4 DEF AskValues
<1>6. Active' = {} /\ Pending' = {}
  <2>1. \A n \in Asks : ask'[n].at \in {"idle", "done", "refused"}
    BY <1>2, <1>5 DEF Active
  <2>2. QED BY <1>2, <2>1 DEF Active, Pending
<1>7. turn'.permit = "generate" /\ ~turn'.rejected
  <2>1. (turn.rejected \/ FALSE) \in BOOLEAN /\ ~(turn.rejected \/ FALSE)
    BY <1>2
  <2>2. PICK x \in BOOLEAN : turn' = [turn EXCEPT !.rejected = x] /\ ~x
    BY <1>3, <2>1
  <2>3. QED BY <1>2, <2>2, EngineFieldsOK DEF TurnValues
<1>8. PICK calls \in Batches : ask[m].answer = Answer(m, calls)
  BY <1>1 DEF ConvInv, AsksOK, AskOK, Unsent, WithAnswer
<1>9. engine.sealed # None /\ engine.sealed.msgs = heard'
  <2>1. At("output", "return")
    BY DEF At, Runs
  <2>2. QED BY <1>1, <1>3, <2>1 DEF Orderly, AskedSealed
<1>10. PICK msgs \in Seq(Messages) : msgs = engine.sealed.msgs
  BY <1>9, EngineFieldsOK
<1>11. ask[m].answer \in Messages /\ ask[m].input \in Seq(Messages)
  <2>1. ask[m] \in AskValues
    BY <1>4
  <2>2. Answer(m, calls) \in Messages
    BY <1>8, BatchesAssumption DEF Answer, Messages
  <2>3. QED BY <1>8, <2>1, <2>2 DEF AskValues
<1>12. heard' = msgs /\ EndsInAnswer(msgs) /\ Last(msgs).calls = calls
  <2>1. msgs # <<>> /\ Last(msgs) = Answer(m, calls)
    <3>1. PICK input \in Seq(Messages), answer \in Messages :
            msgs = Append(input, answer) /\ answer = Answer(m, calls)
      BY <1>3, <1>8, <1>9, <1>10, <1>11
    <3>2. msgs # <<>> /\ Last(msgs) = answer
      BY <3>1 DEF Last
    <3>3. QED BY <3>1, <3>2
  <2>2. QED BY <1>9, <1>10, <2>1 DEF EndsInAnswer, Answer
<1>13. \A t \in Range(calls) : t \in Tools /\ tool[t] = "idle"
  <2>1. SUFFICES ASSUME NEW t \in Range(calls) PROVE t \in Tools /\ tool[t] = "idle"
    OBVIOUS
  <2>2. t \in Tools
    BY BatchesAssumption DEF Range
  <2>3. ~Delivered(t)
    <3>1. SUFFICES ASSUME NEW n \in Asks, ask[n].at = "done", t \in Range(ask[n].answer.calls) PROVE FALSE
      BY DEF Delivered
    <3>2. n # m
      BY <1>1, <3>1
    <3>3. PICK others \in Batches : ask[n].answer = Answer(n, others)
      BY <3>1 DEF ConvInv, AsksOK, AskOK, Unsent, WithAnswer
    <3>4. ask[n].answer # None /\ ask[m].answer # None
      <4>1. Answer(n, others) \in Messages
        BY BatchesAssumption DEF Answer, Messages
      <4>2. QED BY <1>11, <3>3, <4>1, NoneAssumption
    <3>5. Range(ask[n].answer.calls) \cap Range(ask[m].answer.calls) = {}
      BY <3>2, <3>4 DEF Orderly, ToolsOK
    <3>6. ask[m].answer.calls = calls
      BY <1>8 DEF Answer
    <3>7. QED BY <2>1, <3>1, <3>5, <3>6
  <2>4. QED BY <2>2, <2>3 DEF Orderly, ToolsOK
<1>14. Given' = {}
  <2>1. \A k \in DOMAIN calls : tool[calls[k]] = "idle"
    BY <1>13 DEF Range
  <2>2. QED BY <1>12, <2>1 DEF Given
<1>15. Synced'
  <2>1. Standing(msgs, msgs, {})
    BY <1>12, NothingGiven
  <2>2. Standing(heard, msgs, Given)'
    BY <1>12, <1>14, <2>1 DEF Standing, Agree, LastAt, Answered
  <2>3. calls # <<>> => \E t \in Range(calls) : tool[t] \notin {"done", "failed"}
    <3>1. calls \in Seq(Tools)
      BY BatchesAssumption
    <3>2. QED BY <1>13, <3>1, EmptyRange
  <2>4. InStep(msgs)'
    BY <1>12, <2>2, <2>3 DEF InStep, Awaiting
  <2>5. SealedInStep'
    BY <1>9, <1>10, <2>4 DEF SealedInStep
  <2>6. \A u \in Tools : tool[u] # "failed"
    BY <1>2 DEF Orderly, Synced
  <2>7. QED BY <1>6, <2>5, <2>6 DEF Synced
<1>16. ToolsOK'
  <2>1. \A t : Delivered(t) => Delivered(t)'
    BY <1>1, <1>5 DEF Delivered
  <2>2. \A n \in Asks : ask'[n].answer = ask[n].answer
    BY <1>5
  <2>3. \A t \in Tools : tool[t] # "running"
    BY DEF Orderly, ToolsOK, Runs
  <2>4. QED BY <2>1, <2>2, <2>3 DEF Orderly, ToolsOK
<1>17. OneAtATime' /\ HoldsSealed' /\ AskedSealed' /\ Completing' /\ Fine'
  BY <1>2, <1>6, <1>7 DEF OneAtATime, HoldsSealed, AskedSealed, Completing, Fine, Orderly, Runs
<1>18. QED BY <1>15, <1>16, <1>17 DEF Orderly

LEMMA OrderlyResulted ==
  ASSUME ConvInv, HeardInv, Orderly, NEW t \in Tools, op # None, op.kind = "result", op.at = "return", op.who = t,
         op' = None, tool' = [tool EXCEPT ![t] = "done"], heard' = Gathered(tool'),
         UNCHANGED <<engine, queue, ask, turn, env>>
  PROVE  Orderly'
<1>1. tool[t] = "running" /\ t \in Pending
  BY DEF ConvInv, Linked, Pending
<1>2. Active = {} /\ ~engine.released
  BY <1>1 DEF Orderly, OneAtATime, Runs
<1>3. /\ Awaiting /\ t \in Range(Last(heard).calls) /\ Last(heard).calls # <<>>
      /\ engine.sealed # None /\ InStep(engine.sealed.msgs) /\ engine.sealed.msgs \in Seq(Messages)
      /\ turn.permit = "generate"
  BY <1>1, <1>2, PendingCalled
<1>4. PICK msgs \in Seq(Messages) : msgs = engine.sealed.msgs /\ Standing(heard, msgs, Given)
  BY <1>3 DEF InStep
<1>5. PICK calls \in Seq(Tools) : calls = Last(heard).calls /\ calls \in Batches
  BY <1>3, HeardBatch
<1>6. tool \in [Tools -> {"idle", "queued", "running", "done", "failed"}] /\ queue \in Seq(Tools)
  BY DEF ConvInv, HostOK
<1>7. tool'[t] = "done" /\ \A u \in Tools : u # t => tool'[u] = tool[u]
  BY <1>6
<1>8. \A u \in Tools : tool[u] = "running" <=> u = t
  BY <1>1 DEF Orderly, ToolsOK
<1>9. \A u \in Tools : tool[u] # "failed" /\ tool'[u] # "failed"
  BY <1>2, <1>7 DEF Orderly, Synced
<1>10. Given = {k \in DOMAIN calls : tool'[calls[k]] = "done"}
  <2>1. At("result", "return") /\ \A k \in DOMAIN calls : calls[k] \in Tools
    BY DEF At, Runs
  <2>2. \A k \in DOMAIN calls : tool[calls[k]] = "done" \/ tool[calls[k]] = "running" <=> tool'[calls[k]] = "done"
    BY <1>1, <1>7, <1>8, <2>1
  <2>3. QED BY <1>5, <2>1, <2>2 DEF Given
<1>11. Active' = {} /\ Pending' \subseteq Pending
  BY <1>2, <1>7 DEF Active, Pending
<1>12. \A u \in Pending : u \in Tools /\ u \in Range(calls)
  BY <1>2, <1>5 DEF Orderly, Synced, Pending
<1>13. ToolsOK'
  <2>1. ToolsOK
    BY DEF Orderly
  <2>2. \A i \in 1..Len(queue) : tool'[queue[i]] = "queued"
    <3>1. \A i \in 1..Len(queue) : tool[queue[i]] = "queued" /\ queue[i] \in Tools
      BY <1>6, <2>1 DEF ToolsOK
    <3>2. QED BY <1>1, <1>7, <3>1
  <2>3. \A u : Delivered(u) => Delivered(u)'
    BY DEF Delivered
  <2>4. \A u \in Tools : tool'[u] # "idle" => Delivered(u)
    BY <1>1, <1>7, <2>1 DEF ToolsOK
  <2>5. \A u \in Tools : tool'[u] # "running"
    BY <1>7, <1>8
  <2>6. QED BY <2>1, <2>2, <2>3, <2>4, <2>5 DEF ToolsOK
<1>14. OneAtATime' /\ HoldsSealed' /\ AskedSealed' /\ Completing' /\ Fine'
  BY <1>2, <1>3, <1>11 DEF OneAtATime, HoldsSealed, AskedSealed, Completing, Fine, Orderly, Runs
<1>15. CASE \A u \in Range(calls) : tool'[u] \in {"done", "failed"}
  <2>1. \A u \in Range(calls) : tool'[u] = "done"
    BY <1>9, <1>15, <1>5 DEF Range
  <2>2. Given = DOMAIN calls
    BY <1>10, <2>1 DEF Range
  <2>3. heard' = heard \o Results(calls)
    BY <1>3, <1>5, <1>15 DEF Gathered, Awaiting, EndsInAnswer
  <2>4. msgs = heard \o Results(calls) /\ Awaited(msgs) = {}
    BY <1>3, <1>4, <1>5, <2>2, HeardBatch, AllGiven
  <2>5. ~EndsInAnswer(heard')
    <3>1. Len(msgs) \in 1..Len(msgs) /\ msgs[Len(msgs)].role = "toolResult"
      <4>1. heard \in Seq(Messages) /\ EndsInAnswer(heard) /\ Len(heard) \in 1..Len(heard)
        BY <1>3, HeardBatch
      <4>2. /\ Len(heard) \in 1..Len(msgs) /\ msgs[Len(heard)] = Last(heard) /\ LastAt(msgs, Len(heard))
            /\ Answered(msgs, Len(heard), DOMAIN calls)
        BY <1>4, <1>5, <2>2, <4>1, SomeGiven
      <4>3. PICK i \in 1..Len(msgs) :
              i = Len(heard) /\ msgs[i].calls = calls /\ Answered(msgs, i, DOMAIN calls) /\ LastAt(msgs, i)
        BY <1>5, <4>2
      <4>4. DOMAIN calls = 1..Len(calls) /\ Len(calls) \in Nat /\ Len(calls) > 0
        BY <1>3, <1>5
      <4>5. Cardinality(1..Len(calls)) = Len(calls)
        BY <4>4, Interval
      <4>6. Len(msgs) = i + Len(calls)
        BY <4>3, <4>4, <4>5 DEF Answered
      <4>7. Len(msgs) \in (i + 1)..Len(msgs)
        BY <4>4, <4>6
      <4>8. PICK k \in DOMAIN calls : Len(msgs) = i + Rank(DOMAIN calls, k)
        BY <4>3, <4>7 DEF Answered
      <4>9. msgs[Len(msgs)] = Result(calls[k])
        BY <4>3, <4>8 DEF Answered
      <4>10. QED BY <4>7, <4>9 DEF Result
    <3>2. QED BY <2>3, <2>4, <3>1 DEF EndsInAnswer, Last
  <2>6. Pending' = {}
    BY <1>11, <1>12, <2>1 DEF Pending
  <2>7. InStep(msgs)'
    BY <2>3, <2>4, <2>5 DEF InStep, Awaiting
  <2>8. SealedInStep'
    BY <1>3, <1>4, <2>7 DEF SealedInStep
  <2>9. Synced'
    BY <1>9, <2>6, <2>8 DEF Synced
  <2>10. QED BY <1>13, <1>14, <2>9 DEF Orderly
<1>16. CASE ~\A u \in Range(calls) : tool'[u] \in {"done", "failed"}
  <2>1. heard' = heard
    BY <1>5, <1>16 DEF Gathered
  <2>2. Given' = Given
    BY <1>5, <1>10, <2>1 DEF Given, At, Runs
  <2>3. InStep(msgs)'
    BY <1>3, <1>4, <1>5, <1>16, <2>1, <2>2, StepKept
  <2>4. SealedInStep'
    BY <1>3, <1>4, <2>3 DEF SealedInStep
  <2>5. \A u \in Pending' : Awaiting' /\ u \in Range(Last(heard').calls)
    BY <1>3, <1>5, <1>11, <1>12, <2>1 DEF Awaiting
  <2>6. Synced'
    BY <1>9, <2>4, <2>5 DEF Synced
  <2>7. QED BY <1>13, <1>14, <2>6 DEF Orderly
<1>17. QED BY <1>15, <1>16

\* The completion has archived, and is told so.
LEMMA OrderlyPersisted ==
  ASSUME ConvInv, HeardInv, Orderly, op # None, op.kind = "persist", op.at = "return", op' = None,
         turn' = [turn EXCEPT !.permit = "publish"], UNCHANGED <<engine, queue, tool, ask, heard, env>>
  PROVE  Orderly'
<1>1. Runs("persist") /\ engine.released /\ turn.archived = op.had.msgs
  BY DEF Runs, HeardInv, Phases
<1>2. Active = {} /\ Pending = {} /\ turn.permit = "persisting"
  BY <1>1, RunningOne DEF Orderly, Completing
<1>3. /\ turn'.permit = "publish" /\ turn'.draft = turn.draft /\ turn'.archived = turn.archived
      /\ turn'.rejected = turn.rejected
  BY EngineFieldsOK DEF TurnValues
<1>4. op.had = engine.sealed
  BY DEF Orderly, HoldsSealed
<1>5. IsFinal(heard) /\ turn.draft = Last(heard) /\ engine.sealed.msgs = heard /\ engine.sealed # None
  BY <1>1, <1>2 DEF Orderly, Completing
<1>6. Completing'
  <2>1. Pending' = {} /\ IsFinal(heard)'
    BY <1>2, <1>5 DEF Pending, IsFinal
  <2>2. QED BY <1>1, <1>3, <1>4, <1>5, <2>1 DEF Completing, Runs
<1>7. Fine' /\ HoldsSealed'
  BY <1>3 DEF Orderly, Fine, HoldsSealed
<1>8. QED BY <1>1, <1>2, <1>6, <1>7, Steady

LEMMA OrderlyReturn ==
  ASSUME ConvInv, HeardInv, Orderly, Return
  PROVE  Orderly'
<1>1. op # None /\ op.at = "return" /\ engine' = engine /\ Settle(TRUE) /\ env' = env /\ op \in OpValues
  BY DEF Return, Orderly, Fine, ConvInv, OpOK
<1>2. op' = None /\ queue' = queue
  BY <1>1 DEF Settle
<1>3. CASE op.kind \in {"ingest", "loop", "compact"}
  <2>1. UNCHANGED <<tool, ask, heard, turn>>
    BY <1>1, <1>3 DEF Settle
  <2>2. QED BY <1>1, <1>2, <1>3, <2>1, OrderlyEnd
<1>4. CASE op.kind = "open"
  <2>1. UNCHANGED <<tool, ask, turn>> /\ heard' = engine.sealed.msgs
    BY <1>1, <1>4 DEF Settle
  <2>2. QED BY <1>1, <1>2, <1>4, <2>1, OrderlyOpened
<1>5. CASE op.kind = "result"
  <2>1. op.who \in Tools
    BY <1>1, <1>5 DEF ConvInv, OpOK
  <2>2. UNCHANGED <<ask, turn>> /\ tool' = [tool EXCEPT ![op.who] = "done"] /\ heard' = Gathered(tool')
    BY <1>1, <1>5 DEF Settle
  <2>3. QED BY <1>1, <1>2, <1>5, <2>1, <2>2, OrderlyResulted
<1>6. CASE op.kind = "output"
  <2>1. op.who \in Asks
    BY <1>1, <1>6 DEF ConvInv, OpOK
  <2>2. /\ tool' = tool
        /\ ask' = [ask EXCEPT ![op.who].at = IF Delivers(op.who) THEN "done" ELSE "refused"]
        /\ Delivers(op.who) => heard' = Append(ask[op.who].input, ask[op.who].answer)
    BY <1>1, <1>6 DEF Settle
  <2>3. Delivers(op.who) => turn' = [turn EXCEPT !.rejected = @ \/ FALSE]
    BY <1>1, <1>6 DEF Settle
  <2>4. QED BY <1>1, <1>2, <1>6, <2>1, <2>2, <2>3, OrderlyAnswered
<1>7. CASE op.kind = "persist"
  <2>1. UNCHANGED <<tool, ask, heard>> /\ turn' = [turn EXCEPT !.permit = "publish"]
    BY <1>1, <1>7 DEF Settle
  <2>2. QED BY <1>1, <1>2, <1>7, <2>1, OrderlyPersisted
<1>8. op.kind \in Kinds
  BY <1>1 DEF OpValues
<1>9. QED BY <1>3, <1>4, <1>5, <1>6, <1>7, <1>8 DEF Kinds

-----------------------------------------------------------------------------
(* The calls of the model *)

\* A call that is under way is alone, and about what the Host has heard.
LEMMA ActiveAlone ==
  ASSUME ConvInv, Orderly, NEW m \in Active, ask[m].at # "observing"
  PROVE  /\ op = None /\ Pending = {} /\ ~engine.released /\ turn.permit = "generate"
         /\ (\A n \in Active : n = m) /\ m \in Asks /\ ask[m] \in AskValues
         /\ engine.sealed # None /\ engine.sealed.timed /\ engine.sealed.msgs = heard
         /\ ask[m].input = heard /\ CompleteBatch(heard)
         /\ ask[m].at \in {"transport", "payload", "answer"} => ask[m].had = engine.sealed
<1>1. /\ Pending = {} /\ ~engine.released /\ (op = None \/ Runs("output")) /\ \A n \in Active : n = m
  BY DEF Orderly, OneAtATime
<1>2. /\ m \in Asks /\ ask[m] \in AskValues
      /\ ask[m].at \notin {"idle", "observing", "done", "refused"}
  BY DEF ConvInv, AsksOK, AskValues, Active
<1>3. op = None
  <2>1. SUFFICES ASSUME Runs("output") PROVE FALSE
    BY <1>1
  <2>2. op.who \in Asks /\ ask[op.who].at = "observing"
    BY <2>1 DEF ConvInv, OpOK, Linked, Runs
  <2>3. op.who \in Active
    BY <2>2 DEF Active
  <2>4. QED BY <1>1, <2>2, <2>3
<1>4. turn.permit = "generate"
  BY <1>1 DEF Orderly, Completing
<1>5. ~At("output", "return")
  BY <1>3 DEF At, Runs
<1>6. /\ engine.sealed # None /\ engine.sealed.timed /\ engine.sealed.msgs = heard /\ ask[m].input = heard
      /\ ask[m].at \in {"transport", "payload", "answer"} => ask[m].had = engine.sealed
  BY <1>5 DEF Orderly, AskedSealed
<1>7. CompleteBatch(heard)
  BY <1>2, <1>6 DEF ConvInv, AsksOK, AskOK
<1>8. QED BY <1>1, <1>2, <1>3, <1>4, <1>6, <1>7

\* One call begins, or goes on.
LEMMA AskSteady ==
  ASSUME ConvInv, Orderly, NEW m \in Asks, NEW b \in AskValues, ask' = [ask EXCEPT ![m] = b],
         UNCHANGED <<engine, queue, tool, heard, turn>>, env'.moved = env.moved,
         \A n \in Active : n = m, ask[m].at # "done", b.at \notin {"idle", "done", "refused"},
         op = None, Pending = {}, ~engine.released,
         engine.sealed # None, engine.sealed.timed, engine.sealed.msgs = heard, b.input = heard,
         b.at \in {"transport", "payload", "answer"} => b.had = engine.sealed,
         \/ op' = None /\ b.at # "observing"
         \/ op' # None /\ op'.kind = "output" /\ op'.at = "extend" /\ op'.had = engine.sealed,
         \/ b.answer = ask[m].answer
         \/ \A n \in Asks : n # m /\ ask[n].answer # None =>
              Range(ask[n].answer.calls) \cap Range(b.answer.calls) = {}
  PROVE  Orderly'
<1>1. ask'[m] = b /\ \A n \in Asks : n # m => ask'[n] = ask[n]
  BY DEF ConvInv, AsksOK
<1>2. Active' = {m}
  BY <1>1 DEF Active
<1>3. /\ ~At("result", "return") /\ ~At("result", "return")' /\ ~At("output", "return")' /\ ~Runs("open")'
      /\ (op' = None \/ Runs("output")') /\ ~Runs("persist")'
  BY DEF At, Runs
<1>4. ToolsOK'
  <2>1. ToolsOK /\ \A t \in Tools : tool[t] # "running"
    BY DEF Orderly, ToolsOK, Runs
  <2>2. \A t : Delivered(t) => Delivered(t)'
    BY <1>1 DEF Delivered
  <2>3. \A n, p \in Asks : n # p /\ ask'[n].answer # None /\ ask'[p].answer # None =>
          Range(ask'[n].answer.calls) \cap Range(ask'[p].answer.calls) = {}
    BY <1>1, <2>1 DEF ToolsOK
  <2>4. QED BY <2>1, <2>2, <2>3 DEF ToolsOK
<1>5. /\ Pending' = {} /\ Awaiting' = Awaiting /\ Awaited(heard)' = Awaited(heard) /\ IsFinal(heard)' = IsFinal(heard)
      /\ \A msgs : InStep(msgs) => InStep(msgs)'
  BY <1>3, StepStill
<1>6. OneAtATime' /\ HoldsSealed'
  BY <1>1, <1>2, <1>3, <1>5 DEF OneAtATime, HoldsSealed, Runs
<1>7. AskedSealed'
  BY <1>1, <1>2, <1>3 DEF AskedSealed
<1>8. Synced'
  <2>1. SealedInStep
    BY DEF Orderly, Synced, Runs, At
  <2>2. InStep(engine.sealed.msgs)'
    BY <1>5, <2>1 DEF SealedInStep
  <2>3. SealedInStep'
    BY <2>2 DEF SealedInStep
  <2>4. \A t \in Tools : tool[t] # "failed"
    BY DEF Orderly, Synced
  <2>5. QED BY <1>5, <2>3, <2>4 DEF Synced
<1>9. Completing' /\ Fine'
  BY <1>3 DEF Orderly, Completing, Fine
<1>10. QED BY <1>4, <1>6, <1>7, <1>8, <1>9 DEF Orderly

\* The gate lets a call in that is alone and about what is sealed.
LEMMA GatePasses ==
  ASSUME ConvInv, Orderly, NEW m \in Asks, NEW a \in AskValues, EnterGate(m, a), turn.permit = "generate",
         ~engine.released, engine.sealed # None, op = None, Pending = {}, CompleteBatch(a.input)
  PROVE  /\ UNCHANGED <<engine, turn>>
         /\ \E b \in AskValues : /\ ask' = [ask EXCEPT ![m] = b] /\ b.at = a.at /\ b.input = a.input
                                 /\ b.answer = a.answer /\ b.had = engine.sealed
<1>1. Delivers(m) /\ ~engine.failed
  BY DEF Delivers, Orderly, Fine
<1>2. PICK b : b = [a EXCEPT !.had = engine.sealed]
  OBVIOUS
<1>3. ask' = [ask EXCEPT ![m] = b] /\ UNCHANGED <<engine, turn>>
  BY <1>1, <1>2 DEF EnterGate
<1>4. b \in AskValues /\ b.at = a.at /\ b.input = a.input /\ b.answer = a.answer /\ b.had = engine.sealed
  BY <1>2, EngineFieldsOK DEF AskValues
<1>5. QED BY <1>3, <1>4

LEMMA OrderlyAsk ==
  ASSUME ConvInv, HeardInv, Orderly, env'.orderly, NEW m \in Asks, NEW k \in 1..Len(heard), Ask(m, SubSeq(heard, 1, k))
  PROVE  Orderly'
<1>1. PICK input \in Seq(Messages) : Ask(m, input)
  <2>1. k \in 0..Len(heard)
    BY EngineFieldsOK
  <2>2. QED BY <2>1, HeardPart
<1>2. PICK a : a = [NewAsk EXCEPT !.at = "transport", !.input = input]
  OBVIOUS
<1>3. a \in AskValues /\ a.at = "transport" /\ a.input = input /\ a.answer = None
  BY <1>2 DEF NewAsk, AskValues
<1>4. ask[m].at = "idle" /\ EnterGate(m, a) /\ UNCHANGED <<op, queue, tool, heard>>
  BY <1>1, <1>2 DEF Ask
<1>5. /\ ~Busy /\ ~engine.released /\ CompleteBatch(input) /\ env'.moved = env.moved
      /\ engine.sealed # None /\ engine.sealed.timed /\ engine.sealed.msgs = input
  <2>1. PICK x : x = (/\ env.orderly /\ ~Busy /\ ~engine.released /\ CompleteBatch(input)
                      /\ engine.sealed # None /\ engine.sealed.timed /\ engine.sealed.msgs = input)
    OBVIOUS
  <2>2. env' = [env EXCEPT !.orderly = x] /\ env \in EnvValues
    BY <1>1, <2>1, EnvFields DEF Ask
  <2>3. env'.orderly = x /\ env'.moved = env.moved
    BY <2>2 DEF EnvValues
  <2>4. QED BY <2>1, <2>3
<1>6. op = None /\ Pending = {} /\ Active = {} /\ turn.permit = "generate"
  BY <1>5 DEF Busy, Active, Orderly, Completing
<1>7. engine.sealed.msgs = heard
  <2>1. InStep(engine.sealed.msgs)
    BY <1>5, <1>6 DEF Orderly, Synced, SealedInStep, Runs, At
  <2>2. HostOK /\ ~At("result", "return") /\ (Awaiting => Last(heard).calls \in Batches)
    BY <1>6, HeardBatch DEF ConvInv, At, Runs
  <2>3. QED BY <1>5, <2>1, <2>2, BatchHeard
<1>8. UNCHANGED <<engine, turn>> /\ \E b \in AskValues : /\ ask' = [ask EXCEPT ![m] = b] /\ b.at = a.at
                                                         /\ b.input = a.input /\ b.answer = a.answer
                                                         /\ b.had = engine.sealed
  BY <1>3, <1>4, <1>5, <1>6, GatePasses
<1>9. PICK b \in AskValues : /\ ask' = [ask EXCEPT ![m] = b] /\ b.at = a.at /\ b.input = a.input
                             /\ b.answer = a.answer /\ b.had = engine.sealed
  BY <1>8
<1>10. ask[m].answer = None
  BY <1>4 DEF ConvInv, AsksOK, AskOK, Unsent, WithAnswer
<1>11. op' = None /\ UNCHANGED <<engine, queue, tool, heard, turn>>
  BY <1>4, <1>6, <1>8
<1>12. /\ (\A n \in Active : n = m) /\ ask[m].at # "done"
       /\ b.at = "transport" /\ b.input = heard /\ b.had = engine.sealed /\ b.answer = ask[m].answer
  BY <1>3, <1>4, <1>5, <1>6, <1>7, <1>9, <1>10
<1>13. ask' = [ask EXCEPT ![m] = b]
  BY <1>9
<1>14. env'.moved = env.moved /\ engine.sealed # None /\ engine.sealed.timed /\ ~engine.released
  BY <1>5
<1>15. QED BY <1>6, <1>7, <1>11, <1>12, <1>13, <1>14, AskSteady

LEMMA OrderlyGate ==
  ASSUME ConvInv, Orderly, env' = env, NEW m \in Asks,
         Payload(m) \/ \E calls \in Batches : ModelAnswers(m, calls)
  PROVE  Orderly'
<1>1. m \in Active /\ ask[m].at \in {"opened", "wire"}
  BY DEF Payload, ModelAnswers, Active
<1>2. /\ op = None /\ Pending = {} /\ ~engine.released /\ turn.permit = "generate"
      /\ (\A n \in Active : n = m) /\ ask[m] \in AskValues
      /\ engine.sealed # None /\ engine.sealed.timed /\ engine.sealed.msgs = heard
      /\ ask[m].input = heard /\ CompleteBatch(heard)
  BY <1>1, ActiveAlone
<1>3. ASSUME NEW a \in AskValues, a.at \in {"payload", "answer"}, a.input = ask[m].input, EnterGate(m, a),
             UNCHANGED <<op, queue, tool, heard>>,
             \/ a.answer = ask[m].answer
             \/ \A n \in Asks : ask[n].answer # None => Range(ask[n].answer.calls) \cap Range(a.answer.calls) = {}
      PROVE  Orderly'
  <2>1. UNCHANGED <<engine, turn>> /\ \E b \in AskValues : /\ ask' = [ask EXCEPT ![m] = b] /\ b.at = a.at
                                                           /\ b.input = a.input /\ b.answer = a.answer
                                                           /\ b.had = engine.sealed
    BY <1>2, <1>3, GatePasses
  <2>2. PICK b \in AskValues : /\ ask' = [ask EXCEPT ![m] = b] /\ b.at = a.at /\ b.input = a.input
                               /\ b.answer = a.answer /\ b.had = engine.sealed
    BY <2>1
  <2>3. op' = None /\ UNCHANGED <<engine, queue, tool, heard, turn>>
    BY <1>2, <1>3, <2>1
  <2>4. b.at \in {"payload", "answer"} /\ b.input = heard
    BY <1>2, <1>3, <2>2
  <2>5. \/ b.answer = ask[m].answer
        \/ \A n \in Asks : n # m /\ ask[n].answer # None =>
             Range(ask[n].answer.calls) \cap Range(b.answer.calls) = {}
    BY <1>3, <2>2
  <2>6. QED BY <1>1, <1>2, <2>2, <2>3, <2>4, <2>5, AskSteady
<1>4. CASE Payload(m)
  <2>1. PICK a : a = [ask[m] EXCEPT !.at = "payload"]
    OBVIOUS
  <2>2. a \in AskValues /\ a.at = "payload" /\ a.input = ask[m].input /\ a.answer = ask[m].answer
    BY <1>2, <2>1 DEF AskValues
  <2>3. EnterGate(m, a) /\ UNCHANGED <<op, queue, tool, heard>>
    BY <1>4, <2>1 DEF Payload
  <2>4. QED BY <1>3, <2>2, <2>3
<1>5. ASSUME NEW calls \in Batches, ModelAnswers(m, calls) PROVE Orderly'
  <2>1. PICK a : a = [ask[m] EXCEPT !.at = "answer", !.answer = Answer(m, calls)]
    OBVIOUS
  <2>2. Answer(m, calls) \in Messages /\ Answer(m, calls).calls = calls
    BY BatchesAssumption DEF Answer, Messages
  <2>3. a \in AskValues /\ a.at = "answer" /\ a.input = ask[m].input /\ a.answer.calls = calls
    BY <1>2, <2>1, <2>2 DEF AskValues
  <2>4. /\ EnterGate(m, a) /\ UNCHANGED <<op, queue, tool, heard>>
        /\ \A n \in Asks : ask[n].answer # None => Range(ask[n].answer.calls) \cap Range(calls) = {}
    BY <1>5, <2>1 DEF ModelAnswers
  <2>5. QED BY <1>3, <2>3, <2>4
<1>6. QED BY <1>4, <1>5

LEMMA OrderlyGoesOn ==
  ASSUME ConvInv, Orderly, NEW m \in Asks, GoesOn(m)
  PROVE  Orderly'
<1>1. m \in Active /\ ask[m].at \notin {"observing", "done"}
  BY DEF GoesOn, LeaveGate, OpenTransport, SendPayload, ObserveOutput, Active
<1>2. /\ op = None /\ Pending = {} /\ ~engine.released /\ turn.permit = "generate"
      /\ (\A n \in Active : n = m) /\ ask[m] \in AskValues
      /\ engine.sealed # None /\ engine.sealed.timed /\ engine.sealed.msgs = heard /\ ask[m].input = heard
      /\ ask[m].at \in {"transport", "payload", "answer"} => ask[m].had = engine.sealed
  BY <1>1, ActiveAlone
<1>3. Fine /\ turn \in TurnValues
  BY EngineFieldsOK DEF Orderly
<1>4. SourcesHold(m) /\ Enters(engine.sealed # None)
  BY <1>2, <1>3 DEF SourcesHold, Delivers, Enters, Fine
<1>5. turn' = turn
  <2>1. CASE LeaveGate(m)
    <3>1. GateHolds(m)
      BY <1>2, <1>3, <2>1 DEF LeaveGate, GateHolds, Valid, Fine
    <3>2. QED BY <2>1, <3>1 DEF LeaveGate
  <2>2. CASE OpenTransport(m) \/ SendPayload(m) \/ ObserveOutput(m)
    BY <1>4, <2>2 DEF OpenTransport, SendPayload, ObserveOutput
  <2>3. QED BY <2>1, <2>2 DEF GoesOn
<1>6. ~RefusedAsk(m)
  <2>1. SUFFICES ASSUME RefusedAsk(m) PROVE FALSE
    OBVIOUS
  <2>2. turn'.rejected
    BY <1>3, <2>1 DEF RefusedAsk, TurnValues
  <2>3. QED BY <1>3, <1>5, <2>2 DEF Fine
<1>7. UNCHANGED <<queue, tool, heard, env>>
  BY WhereItGoes
<1>8. ASSUME NEW b, AskOK(m, b), GoesOnAs(m, b) PROVE Orderly'
  <2>1. /\ b \in AskValues /\ ask' = [ask EXCEPT ![m] = b] /\ UNCHANGED <<engine, op, turn>>
        /\ b.at \in {"opening", "opened", "sending", "wire", "hearing"}
        /\ b.input = heard /\ b.answer = ask[m].answer
    BY <1>2, <1>8 DEF GoesOnAs, AskOK
  <2>2. UNCHANGED <<engine, queue, tool, heard, turn>> /\ env'.moved = env.moved /\ op' = None
    BY <1>2, <1>7, <2>1
  <2>3. QED BY <1>1, <1>2, <2>1, <2>2, AskSteady
<1>9. ASSUME NEW b, NEW o, AskOK(m, b), ObservedAs(m, b, o) PROVE Orderly'
  <2>1. /\ b \in AskValues /\ ask' = [ask EXCEPT ![m] = b] /\ UNCHANGED <<engine, turn>> /\ op' = o
        /\ b.at = "observing" /\ b.input = heard /\ b.answer = ask[m].answer
        /\ IsNew(o, "output", "extend", m, <<>>) /\ o.had = engine.sealed
    BY <1>2, <1>9 DEF ObservedAs, AskOK
  <2>2. op' # None /\ op'.kind = "output" /\ op'.at = "extend" /\ op'.had = engine.sealed
    BY <2>1, NoneApart DEF IsNew
  <2>3. UNCHANGED <<engine, queue, tool, heard, turn>> /\ env'.moved = env.moved
    BY <1>7, <2>1
  <2>4. QED BY <1>1, <1>2, <2>1, <2>2, <2>3, AskSteady
<1>10. QED BY <1>6, <1>8, <1>9, WhereItGoes

\* The answer extends what is sealed, as the Host is about to hear it.
LEMMA OrderlyAnswers ==
  ASSUME ConvInv, Orderly, ExtendAssistant
  PROVE  Orderly'
<1>1. /\ op # None /\ op.kind = "output" /\ op.at = "extend" /\ Runs("output") /\ op \in OpValues
      /\ op.who \in Asks /\ ask[op.who].at = "observing" /\ op.had = engine.sealed
  BY DEF ExtendAssistant, At, Runs, ConvInv, OpOK, Linked, Orderly, HoldsSealed
<1>2. PICK m \in Asks : m = op.who
  BY <1>1
<1>3. m \in Active /\ ask[m].at = "observing" /\ (\A n \in Active : n = m) /\ Pending = {} /\ ~engine.released
  <2>1. m \in Active
    BY <1>1, <1>2 DEF Active
  <2>2. QED BY <1>1, <1>2, <2>1 DEF Orderly, OneAtATime, Runs
<1>4. engine.sealed # None /\ engine.sealed.timed /\ ask[m].input = heard /\ engine.sealed.msgs = heard
  <2>1. ~At("output", "return")
    BY <1>1 DEF At
  <2>2. QED BY <1>3, <2>1 DEF Orderly, AskedSealed
<1>5. Fine /\ Valid /\ turn.permit = "generate" /\ ~Runs("persist")
  BY <1>1, <1>3 DEF Orderly, Fine, Valid, Completing, Runs
<1>6. PICK c : c = [op.had EXCEPT !.msgs = Append(@, ask[op.who].answer)]
  OBVIOUS
<1>7. engine' = [engine EXCEPT !.sealed = c] /\ Goto("return") /\ UNCHANGED <<queue, tool, ask, heard, turn, env>>
  BY <1>1, <1>2, <1>4, <1>5, <1>6 DEF ExtendAssistant
<1>8. ask[m].answer \in Messages
  <2>1. AskOK(m, ask[m])
    BY DEF ConvInv, AsksOK
  <2>2. PICK calls \in Batches : ask[m].answer = Answer(m, calls)
    BY <1>3, <2>1 DEF AskOK, Unsent, WithAnswer
  <2>3. QED BY <2>2, BatchesAssumption DEF Answer, Messages
<1>9. c \in Contexts /\ c.timed /\ c.msgs = Append(heard, ask[m].answer)
  <2>1. PICK r \in Messages : r = ask[m].answer
    BY <1>8
  <2>2. c = [engine.sealed EXCEPT !.msgs = Append(engine.sealed.msgs, r)] /\ engine.sealed \in Contexts
    BY <1>1, <1>2, <1>4, <1>6, <2>1, EngineFieldsOK
  <2>3. Append(heard, r) \in Seq(Messages)
    BY EngineFieldsOK
  <2>4. QED BY <1>4, <2>1, <2>2, <2>3 DEF Contexts
<1>10. c # None
  BY <1>9, NoneAssumption
<1>11. /\ engine'.failed = engine.failed /\ engine'.closed = engine.closed /\ engine'.released = engine.released
       /\ engine'.sealed = c
  BY <1>7, <1>9, EngineFieldsOK DEF EngineValues
<1>12. op' # None /\ op'.kind = "output" /\ op'.at = "return"
  <2>1. op' \in OpValues /\ op'.kind = "output" /\ op'.at = "return"
    BY <1>1, <1>7 DEF Goto, OpValues, Places
  <2>2. QED BY <2>1, NoneApart
<1>13. Active' = Active /\ Pending' = Pending /\ Runs("output")' /\ ~Runs("result")' /\ At("output", "return")'
       /\ ~Runs("persist")'
  BY <1>7, <1>12 DEF Active, Pending, Runs, At
<1>14. Fine' /\ Completing'
  BY <1>3, <1>5, <1>7, <1>11, <1>13 DEF Fine, Completing
<1>15. ToolsOK'
  BY <1>1, <1>7, <1>13 DEF Orderly, ToolsOK, Delivered, Runs
<1>16. OneAtATime' /\ HoldsSealed'
  BY <1>3, <1>7, <1>11, <1>12, <1>13 DEF OneAtATime, HoldsSealed
<1>17. AskedSealed'
  BY <1>3, <1>4, <1>7, <1>9, <1>10, <1>11, <1>13 DEF AskedSealed
<1>18. Synced'
  BY <1>3, <1>7, <1>13 DEF Synced, Orderly
<1>19. QED BY <1>14, <1>15, <1>16, <1>17, <1>18 DEF Orderly

-----------------------------------------------------------------------------
(* The end of an orderly turn *)

LEMMA OrderlyRelease ==
  ASSUME ConvInv, HeardInv, Orderly, env'.orderly, ReleaseToCompletion
  PROVE  Orderly'
<1>1. ~Busy /\ env'.moved = env.moved
  <2>1. PICK x : x = (env.orderly /\ ~Busy)
    OBVIOUS
  <2>2. env' = [env EXCEPT !.orderly = x] /\ env \in EnvValues
    BY <2>1, EngineFieldsOK DEF ReleaseToCompletion
  <2>3. env'.orderly = x /\ env'.moved = env.moved
    BY <2>2 DEF EnvValues
  <2>4. QED BY <2>1, <2>3
<1>2. op = None /\ Pending = {} /\ Active = {} /\ ~engine.released
  BY <1>1 DEF Busy, Active, ReleaseToCompletion
<1>3. engine' = [engine EXCEPT !.released = TRUE] /\ UNCHANGED <<op, queue, tool, ask, heard, turn>>
  BY <1>2 DEF ReleaseToCompletion
<1>4. /\ engine'.failed = engine.failed /\ engine'.closed = engine.closed /\ engine'.released
      /\ engine'.sealed = engine.sealed
  BY <1>3, EngineFieldsOK DEF EngineValues
<1>5. turn.permit = "generate"
  BY <1>2 DEF Orderly, Completing
<1>6. IsFinal(heard) => engine.sealed # None /\ engine.sealed.msgs = heard
  <2>1. SUFFICES ASSUME IsFinal(heard) PROVE engine.sealed # None /\ engine.sealed.msgs = heard
    OBVIOUS
  <2>2. SealedInStep
    BY <1>2 DEF Orderly, Synced, Runs, At
  <2>3. engine.sealed # None /\ InStep(engine.sealed.msgs)
    BY <2>1, <2>2 DEF SealedInStep
  <2>4. Awaiting /\ Last(heard).calls = <<>>
    BY <2>1 DEF IsFinal, Awaiting, EndsInAnswer
  <2>5. Given = {}
    BY <2>4 DEF Given
  <2>6. heard \in Seq(Messages) /\ EndsInAnswer(heard) /\ engine.sealed.msgs \in Seq(Messages)
    BY <2>3, <2>4, EngineFieldsOK DEF Awaiting
  <2>7. Standing(heard, engine.sealed.msgs, {})
    BY <2>3, <2>4, <2>5 DEF InStep
  <2>8. QED BY <2>3, <2>6, <2>7, NothingGiven
<1>7. Completing'
  <2>1. IsFinal(heard)' = IsFinal(heard)
    BY <1>3 DEF IsFinal
  <2>2. QED BY <1>2, <1>3, <1>4, <1>5, <1>6, <2>1 DEF Completing, Runs
<1>8. Fine' /\ HoldsSealed'
  BY <1>1, <1>2, <1>3, <1>4 DEF Orderly, Fine, HoldsSealed
<1>9. QED BY <1>2, <1>3, <1>4, <1>7, <1>8, Steady

LEMMA OrderlyDraft ==
  ASSUME ConvInv, Orderly, env'.orderly, EndGeneration
  PROVE  Orderly'
<1>1. ~Busy /\ engine.released /\ env'.moved = env.moved
  <2>1. PICK x : x = (env.orderly /\ ~Busy /\ engine.released)
    OBVIOUS
  <2>2. env' = [env EXCEPT !.orderly = x] /\ env \in EnvValues
    BY <2>1, EngineFieldsOK DEF EndGeneration
  <2>3. env'.orderly = x /\ env'.moved = env.moved
    BY <2>2 DEF EnvValues
  <2>4. QED BY <2>1, <2>3
<1>2. op = None /\ Pending = {} /\ Active = {}
  BY <1>1 DEF Busy, Active
<1>3. /\ turn.permit = "generate" /\ IsFinal(heard) /\ UNCHANGED <<engine, op, queue, tool, ask, heard>>
      /\ turn' = [turn EXCEPT !.permit = "persist", !.draft = Last(heard)]
  BY DEF EndGeneration
<1>4. turn'.permit = "persist" /\ turn'.draft = Last(heard) /\ turn'.rejected = turn.rejected
  BY <1>3, EngineFieldsOK DEF TurnValues
<1>5. Completing'
  <2>1. IsFinal(heard)' /\ Pending' = {} /\ Last(heard)' = Last(heard)
    BY <1>2, <1>3 DEF IsFinal, Pending
  <2>2. engine.sealed # None /\ engine.sealed.msgs = heard
    BY <1>1, <1>3 DEF Orderly, Completing
  <2>3. QED BY <1>1, <1>2, <1>3, <1>4, <2>1, <2>2 DEF Completing, Runs
<1>6. Fine' /\ HoldsSealed'
  BY <1>1, <1>2, <1>3, <1>4 DEF Orderly, Fine, HoldsSealed
<1>7. QED BY <1>1, <1>2, <1>3, <1>5, <1>6, Steady

LEMMA OrderlyCompletion ==
  ASSUME ConvInv, HeardInv, Orderly,
         PersistCompletedHistory \/ CheckPersist \/ ArchiveHistory \/ Publish
  PROVE  Orderly'
<1>1. Fine /\ Valid /\ Completing /\ turn \in TurnValues
  BY EngineFieldsOK DEF Orderly, Fine, Valid
<1>2. CASE PersistCompletedHistory
  <2>1. /\ turn.permit = "persist" /\ engine.released /\ Active = {} /\ op = None /\ Pending = {}
        /\ IsFinal(heard) /\ turn.draft = Last(heard) /\ engine.sealed # None /\ engine.sealed.msgs = heard
    BY <1>1, <1>2 DEF PersistCompletedHistory, Completing, Orderly, OneAtATime
  <2>2. PICK o : o = NewOp("persist", "check")
    OBVIOUS
  <2>3. /\ op' = o /\ engine' = engine /\ turn' = [turn EXCEPT !.permit = "persisting"]
        /\ UNCHANGED <<queue, tool, ask, heard, env>>
    BY <1>1, <1>2, <2>1, <2>2 DEF PersistCompletedHistory, Fine
  <2>4. IsNew(o, "persist", "check", None, <<>>)
    BY <2>2, PlainOperation DEF Kinds, Places
  <2>5. o # None /\ o.kind = "persist" /\ o.had = engine.sealed
    BY <2>4, NoneApart DEF IsNew
  <2>6. turn'.permit = "persisting" /\ turn'.draft = turn.draft /\ turn'.rejected = turn.rejected
    BY <1>1, <2>3 DEF TurnValues
  <2>7. Completing'
    <3>1. IsFinal(heard)' /\ Pending' = {} /\ Last(heard)' = Last(heard)
      BY <2>1, <2>3 DEF IsFinal, Pending
    <3>2. QED BY <2>1, <2>3, <2>6, <3>1 DEF Completing
  <2>8. Fine' /\ HoldsSealed'
    BY <1>1, <2>3, <2>5, <2>6 DEF Fine, HoldsSealed
  <2>9. QED BY <2>1, <2>3, <2>5, <2>7, <2>8, Steady DEF Runs
<1>3. CASE CheckPersist
  <2>1. Runs("persist") /\ op # None /\ op.kind = "persist"
    BY <1>3 DEF CheckPersist, At, Runs
  <2>2. turn.permit = "persisting"
    BY <1>1, <2>1 DEF Completing
  <2>3. PICK at \in {"write", "return"} : Goto(at)
    BY <1>1, <1>3, <2>2 DEF CheckPersist
  <2>4. UNCHANGED <<engine, queue, tool, ask, heard, turn, env>>
    BY <1>1, <1>3, <2>2 DEF CheckPersist
  <2>5. at \in Places \ {"check", "extend"}
    BY DEF Places
  <2>6. QED BY <2>1, <2>3, <2>4, <2>5, OrderlyMove
<1>4. CASE ArchiveHistory
  <2>1. Runs("persist") /\ op # None /\ op.kind = "persist"
    BY <1>4 DEF ArchiveHistory, At, Runs
  <2>2. /\ turn' = [turn EXCEPT !.archived = op.had.msgs] /\ Goto("recheck")
        /\ UNCHANGED <<engine, queue, tool, ask, heard, env>>
    BY <1>1, <1>4 DEF ArchiveHistory
  <2>3. turn.permit = "persisting"
    BY <1>1, <2>1 DEF Completing
  <2>4. /\ turn'.permit = "persisting" /\ turn'.draft = turn.draft /\ turn'.rejected = turn.rejected
    BY <1>1, <2>2, <2>3 DEF TurnValues
  <2>5. Completing' /\ ~turn'.rejected
    <3>1. IsFinal(heard)' = IsFinal(heard) /\ Pending' = Pending /\ Last(heard)' = Last(heard)
      BY <2>2 DEF IsFinal, Pending
    <3>2. QED BY <1>1, <2>2, <2>3, <2>4, <3>1 DEF Completing, Fine
  <2>6. "recheck" \in Places \ {"check", "extend"}
    BY DEF Places
  <2>7. QED BY <2>1, <2>2, <2>5, <2>6, OrderlyMove
<1>5. CASE Publish
  <2>1. turn.permit = "publish" /\ engine.released /\ Last(turn.archived) = turn.draft
    BY <1>1, <1>5 DEF Publish, Completing
  <2>2. ~Runs("persist")
    BY <1>1, <2>1 DEF Completing
  <2>3. Active = {} /\ op = None
    BY <2>1, <2>2 DEF Orderly, OneAtATime
  <2>4. /\ turn' = [turn EXCEPT !.permit = "ended", !.published = TRUE]
        /\ UNCHANGED <<engine, op, queue, tool, ask, heard, env>>
    BY <1>5, <2>1 DEF Publish
  <2>5. turn'.permit = "ended" /\ turn'.published /\ turn'.rejected = turn.rejected
    BY <1>1, <2>4 DEF TurnValues
  <2>6. Completing'
    <3>1. IsFinal(heard)' = IsFinal(heard)
      BY <2>4 DEF IsFinal
    <3>2. QED BY <1>1, <2>1, <2>3, <2>4, <2>5, <3>1 DEF Completing, Runs
  <2>7. Fine' /\ HoldsSealed'
    BY <1>1, <2>3, <2>4, <2>5 DEF Fine, HoldsSealed
  <2>8. QED BY <2>1, <2>3, <2>4, <2>6, <2>7, Steady
<1>6. QED BY <1>2, <1>3, <1>4, <1>5

-----------------------------------------------------------------------------
(* Orderly turns *)

LEMMA OrderlyInit ==
  ASSUME Init
  PROVE  Orderly
<1>1. /\ engine = [failed |-> FALSE, closed |-> FALSE, sealed |-> None, released |-> FALSE, history |-> 0]
      /\ op = None /\ queue = <<>> /\ heard = <<>> /\ turn.permit = "generate" /\ ~turn.rejected /\ ~env.moved
      /\ \A t \in Tools : tool[t] = "idle"
      /\ \A m \in Asks : ask[m].at = "idle" /\ ask[m].answer = None
  BY DEF Init, NewAsk
<1>2. Active = {} /\ Pending = {}
  BY <1>1 DEF Active, Pending
<1>3. 1..Len(heard) = {} /\ Len(queue) = 0
  BY <1>1
<1>4. Awaited(heard) = {} /\ ~IsFinal(heard)
  <2>1. {i \in 1..Len(heard) : heard[i].role = "assistant"} = {}
    BY <1>3
  <2>2. LastAnswer(heard) = 0
    BY <2>1 DEF LastAnswer, SelectLastInSeq
  <2>3. QED BY <1>1, <2>2 DEF Awaited, IsFinal
<1>5. Fine /\ OneAtATime /\ HoldsSealed /\ AskedSealed
  BY <1>1, <1>2 DEF Fine, OneAtATime, HoldsSealed, AskedSealed
<1>6. ToolsOK
  <2>1. 1..Len(queue) = {}
    BY <1>3
  <2>2. QED BY <1>1, <2>1 DEF ToolsOK
<1>7. Synced /\ Completing
  BY <1>1, <1>2, <1>4 DEF Synced, SealedInStep, Completing, Runs
<1>8. QED BY <1>5, <1>6, <1>7 DEF Orderly

\* A Host that has left the protocol does not come back to it.
LEMMA NeverOrderlyAgain ==
  ASSUME ConvInv, [Next]_vars, env'.orderly
  PROVE  env.orderly
<1>1. CASE env' = env
  BY <1>1
<1>2. ASSUME NEW x, env' = [env EXCEPT !.orderly = @ /\ x] PROVE env.orderly
  <2>1. PICK y : y = (env.orderly /\ x)
    OBVIOUS
  <2>2. env' = [env EXCEPT !.orderly = y] /\ env \in EnvValues
    BY <1>2, <2>1, EngineFieldsOK
  <2>3. env'.orderly = y
    BY <2>2 DEF EnvValues
  <2>4. QED BY <2>1, <2>3
<1>3. ASSUME NEW b, Called(b) PROVE env.orderly
  BY <1>3, CalledOrderly
<1>4. CASE Ingest \/ Assemble \/ Compact \/ \E k \in 0..Len(heard) : Reassemble(SubSeq(heard, 1, k))
  <2>1. \E b : Called(b)
    BY <1>4 DEF Ingest, Assemble, Compact, Reassemble
  <2>2. QED BY <1>3, <2>1
<1>5. ASSUME NEW t \in Tools, ToolReturns(t) PROVE env.orderly
  <2>1. env' = [env EXCEPT !.orderly = @ /\ (t \in Awaited(heard) /\ (op = None \/ Runs("result")))]
    BY <1>5 DEF ToolReturns
  <2>2. QED BY <1>2, <2>1
<1>6. ASSUME NEW m \in Asks, NEW input, Ask(m, input) PROVE env.orderly
  <2>1. env' = [env EXCEPT !.orderly = @ /\ (/\ ~Busy /\ ~engine.released /\ CompleteBatch(input)
                 /\ engine.sealed # None /\ engine.sealed.timed /\ engine.sealed.msgs = input)]
    BY <1>6 DEF Ask
  <2>2. QED BY <1>2, <2>1
<1>7. CASE ReleaseToCompletion
  BY <1>2, <1>7 DEF ReleaseToCompletion
<1>8. CASE EndGeneration
  <2>1. env' = [env EXCEPT !.orderly = @ /\ (~Busy /\ engine.released)]
    BY <1>8 DEF EndGeneration
  <2>2. QED BY <1>2, <2>1
<1>9. ~Fault(TRUE) /\ ~Fault(FALSE) /\ ~Cancel
  BY Unharmed
<1>10. ~PortFails /\ ~SourcesMove /\ (\A t \in Tools : ~ToolFails(t)) /\ \A m \in Asks : ~ModelFails(m)
  BY <1>9 DEF PortFails, SourcesMove, ToolFails, ModelFails
<1>11. CASE UNCHANGED vars
  BY <1>1, <1>11 DEF vars
<1>12. CASE \/ Archived \/ Seal \/ Project \/ Summarize \/ SaveSummary \/ Return
            \/ NextResult \/ ExtendToolResult \/ ExtendAssistant
            \/ PersistCompletedHistory \/ CheckPersist \/ ArchiveHistory \/ Publish
  BY <1>1, <1>12 DEF Archived, Seal, Project, Summarize, SaveSummary, Return, NextResult, ExtendToolResult,
       ExtendAssistant, PersistCompletedHistory, CheckPersist, ArchiveHistory, Publish
<1>13. ASSUME NEW m \in Asks, Payload(m) \/ GoesOn(m) \/ \E calls \in Batches : ModelAnswers(m, calls)
       PROVE  env.orderly
  BY <1>1, <1>13 DEF Payload, GoesOn, LeaveGate, OpenTransport, SendPayload, ObserveOutput, ModelAnswers
<1>14. QED BY <1>4, <1>5, <1>6, <1>7, <1>8, <1>9, <1>10, <1>11, <1>12, <1>13 DEF Next, GoesOn

LEMMA OrderlySteps ==
  ASSUME ConvInv, HeardInv, OrderInv, [Next]_vars
  PROVE  OrderInv'
<1>1. SUFFICES ASSUME env'.orderly PROVE Orderly'
  BY DEF OrderInv
<1>2. Orderly
  BY <1>1, NeverOrderlyAgain DEF OrderInv
<1>3. ~Fault(TRUE) /\ ~Fault(FALSE) /\ ~Cancel
  BY <1>1, Unharmed
<1>4. ~PortFails /\ ~SourcesMove /\ (\A t \in Tools : ~ToolFails(t)) /\ \A m \in Asks : ~ModelFails(m)
  BY <1>3 DEF PortFails, SourcesMove, ToolFails, ModelFails
<1>5. CASE UNCHANGED vars
  BY <1>2, <1>5, StandsStill DEF vars
<1>6. CASE \/ Ingest \/ Assemble \/ Compact \/ \E k \in 0..Len(heard) : Reassemble(SubSeq(heard, 1, k))
  BY <1>1, <1>2, <1>6, OrderlyCalls
<1>7. CASE Archived \/ Seal \/ Project \/ Summarize \/ SaveSummary
  BY <1>1, <1>2, <1>7, OrderlyWork
<1>8. CASE Return
  BY <1>2, <1>8, OrderlyReturn
<1>9. ASSUME NEW t \in Tools, ToolReturns(t) PROVE Orderly'
  BY <1>1, <1>2, <1>9, OrderlyToolReturns
<1>10. CASE NextResult
  BY <1>1, <1>2, <1>10, OrderlyNextResult
<1>11. CASE ExtendToolResult
  BY <1>1, <1>2, <1>11, OrderlyExtends
<1>12. ASSUME NEW m \in Asks, NEW k \in 1..Len(heard), Ask(m, SubSeq(heard, 1, k)) PROVE Orderly'
  BY <1>1, <1>2, <1>12, OrderlyAsk
<1>13. ASSUME NEW m \in Asks, Payload(m) \/ \E calls \in Batches : ModelAnswers(m, calls) PROVE Orderly'
  <2>1. env' = env
    BY <1>13 DEF Payload, ModelAnswers
  <2>2. QED BY <1>2, <1>13, <2>1, OrderlyGate
<1>14. ASSUME NEW m \in Asks, GoesOn(m) PROVE Orderly'
  BY <1>2, <1>14, OrderlyGoesOn
<1>15. CASE ExtendAssistant
  BY <1>2, <1>15, OrderlyAnswers
<1>16. CASE ReleaseToCompletion
  BY <1>1, <1>2, <1>16, OrderlyRelease
<1>17. CASE EndGeneration
  BY <1>1, <1>2, <1>17, OrderlyDraft
<1>18. CASE PersistCompletedHistory \/ CheckPersist \/ ArchiveHistory \/ Publish
  BY <1>2, <1>18, OrderlyCompletion
<1>19. QED BY <1>3, <1>4, <1>5, <1>6, <1>7, <1>8, <1>9, <1>10, <1>11, <1>12, <1>13, <1>14, <1>15, <1>16, <1>17,
              <1>18 DEF Next, GoesOn

\* A Host that keeps to the protocol is never refused and its reply is published: whatever the
\* order in which it assembles, asks, compacts and returns the results of a batch, none of the
\* checks between two awaits mistakes its own work in flight for interference.
THEOREM OrderlyTurnsArePublished == Spec => []OrderlyTurnsSucceed
<1>1. Init => ConvInv /\ HeardInv /\ OrderInv
  BY ConvInit, HeardInit, OrderlyInit DEF OrderInv
<1>2. ConvInv /\ HeardInv /\ OrderInv /\ [Next]_vars => ConvInv' /\ HeardInv' /\ OrderInv'
  BY ConvSteps, HeardSteps, OrderlySteps
<1>3. Spec => [](ConvInv /\ HeardInv /\ OrderInv)
  BY <1>1, <1>2, PTL DEF Spec
<1>4. OrderInv => OrderlyTurnsSucceed
  BY DEF OrderInv, Orderly, Fine, Completing, OrderlyTurnsSucceed
<1>5. QED BY <1>3, <1>4, PTL
=============================================================================
