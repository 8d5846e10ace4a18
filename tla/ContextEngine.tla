---------------------------- MODULE ContextEngine ----------------------------
(***************************************************************************)
(* The managed context of one turn (openclaw/host-context-engine.ts, with  *)
(* the consumption gate of host-memory-provider.ts and what they call in   *)
(* host-context-authority.ts and plugin.ts).  The Host assembles the       *)
(* context, asks the model, runs the tools of an answer in parallel,       *)
(* compacts and disposes of the engine in any order and at any time; what  *)
(* was verified by then is archived by the turn's completion.  One         *)
(* process: a step is what runs between two awaits.                        *)
(***************************************************************************)
EXTENDS Naturals, Sequences, FiniteSets, SequencesExt

CONSTANTS
  Asks,      \* calls of the provider's stream function
  Tools,     \* tool calls an answer may carry
  Batches,   \* the tool calls of one answer, in call order
  None,
  MaxCalls,  \* bound on the Host's calls of ingest, assemble and compact
  MaxFaults  \* bound on moved sources, failing ports, models and tools

ASSUME BoundsAssumption == MaxCalls \in Nat /\ MaxFaults \in Nat

ASSUME BatchesAssumption == Batches \subseteq Seq(Tools) /\ \A b \in Batches : IsInjective(b)

VARIABLES
  engine,  \* the fields of ManagedHostContextEngine, and whether the authority is closed
  op,      \* the operation that owns #busy, None when there is none
  queue,   \* #toolQueue: tool results that wait for their turn
  tool,    \* tool[t]: how far a tool call is
  ask,     \* ask[m]: one model call
  heard,   \* the conversation as the Host holds it
  turn,    \* the completion: its permit, a refusal, the draft, what was archived and published
  env      \* whether sources moved, whether the Host kept to the protocol, calls and faults

vars == <<engine, op, queue, tool, ask, heard, turn, env>>

User(n)      == [role |-> "user", by |-> n, calls |-> <<>>]
Answer(m, c) == [role |-> "assistant", by |-> m, calls |-> c]
Result(t)    == [role |-> "toolResult", by |-> t, calls |-> <<>>]

NewAsk == [at |-> "idle", input |-> <<>>, had |-> None, answer |-> None, sent |-> FALSE]

Init ==
  /\ engine = [failed |-> FALSE, closed |-> FALSE, sealed |-> None, released |-> FALSE, history |-> 0]
  /\ op = None /\ queue = <<>>
  /\ tool = [t \in Tools |-> "idle"]
  /\ ask = [m \in Asks |-> NewAsk]
  /\ heard = <<>>
  /\ turn = [permit |-> "generate", rejected |-> FALSE, draft |-> None, archived |-> None,
             published |-> FALSE]
  /\ env = [moved |-> FALSE, orderly |-> TRUE, calls |-> 0, faults |-> 0]

-----------------------------------------------------------------------------
(* Conversations *)

LastAnswer(msgs) == LET IsAnswer(x) == x.role = "assistant" IN SelectLastInSeq(msgs, IsAnswer)

Results(calls) == [k \in 1..Len(calls) |-> Result(calls[k])]

\* Faulty variant of CompleteBatch: nobody looks at the calls of the last answer.
AnyBatch(msgs) == TRUE

\* assertCompleteToolBatch: the last answer's calls, each with its result, in call order.
CompleteBatch(msgs) ==
  LET i == LastAnswer(msgs)
  IN  i > 0 => SubSeq(msgs, i + 1, Len(msgs)) = Results(msgs[i].calls)

\* The last answer's calls that have no result yet.
Awaited(msgs) ==
  LET i == LastAnswer(msgs)
  IN  IF i = 0 THEN {} ELSE Range(msgs[i].calls) \ {msgs[j].by : j \in (i + 1)..Len(msgs)}

\* A result takes the place of its call, whatever the order in which the tools finish: behind
\* the results there are of the calls before its own.
WithResult(msgs, t) ==
  LET i      == LastAnswer(msgs)
      calls  == msgs[i].calls
      Before == {k \in DOMAIN calls : /\ calls[k] \notin Awaited(msgs)
                                     /\ \E q \in DOMAIN calls : calls[q] = t /\ k < q}
  IN  InsertAt(msgs, i + 1 + Cardinality(Before), Result(t))

IsFinal(msgs) == msgs # <<>> /\ Last(msgs).role = "assistant" /\ Last(msgs).calls = <<>>

\* Tool results that observeToolResult has counted and not yet answered.
Pending == {t \in Tools : tool[t] \in {"queued", "running"}}

\* What the authority validates: the sources it was made for are current, and it is open.
Valid == ~env.moved /\ ~engine.closed

Latched == [engine EXCEPT !.failed = TRUE, !.sealed = None]

-----------------------------------------------------------------------------
(* Operations *)

NewOp(kind, at) == [kind |-> kind, at |-> at, who |-> None, input |-> <<>>, had |-> engine.sealed]

Runs(kind) == op # None /\ op.kind = kind

At(kind, at) == Runs(kind) /\ op.at = at

Goto(at) == op' = [op EXCEPT !.at = at]

\* #operation of the model phase lets a call in whose body also passes its first checks.
Enters(ok) == ~engine.released /\ op = None /\ ~engine.failed /\ ok

\* Otherwise its error is latched, except after the release.
Enter(o, e, ok) ==
  /\ op' = IF Enters(ok) THEN o ELSE op
  /\ engine' = CASE Enters(ok)      -> e
                 [] engine.released -> engine
                 [] OTHER           -> Latched

\* The Host adds the results of a batch to its conversation when all its tools are done.
Gathered(settled) ==
  IF heard # <<>> /\ Last(heard).role = "assistant"
       /\ \A t \in Range(Last(heard).calls) : settled[t] \in {"done", "failed"}
  THEN heard \o Results(Last(heard).calls)
  ELSE heard

\* The provider hands an answer on if the turn is still generating.
Delivers(m) == turn.permit = "generate" /\ ~turn.rejected

\* The caller of the running operation learns that it succeeded, or that it failed.
Settle(ok) ==
  LET good == ok /\ (op.kind = "output" => Delivers(op.who))
  IN  /\ op' = None
      /\ tool' = IF op.kind = "result" THEN [tool EXCEPT ![op.who] = IF ok THEN "done" ELSE "failed"]
                 ELSE tool
      /\ ask' = IF op.kind = "output" THEN [ask EXCEPT ![op.who].at = IF good THEN "done" ELSE "refused"]
                ELSE ask
      /\ heard' = CASE op.kind = "open" /\ ok     -> engine.sealed.msgs
                    [] op.kind = "output" /\ good -> Append(ask[op.who].input, ask[op.who].answer)
                    [] op.kind = "result"         -> Gathered(tool')
                    [] OTHER                      -> heard
      /\ turn' = CASE op.kind = "output"  -> [turn EXCEPT !.rejected = @ \/ ~good]
                   [] op.kind = "persist" -> [turn EXCEPT !.permit = IF ok THEN "publish" ELSE "ended"]
                   [] OTHER               -> turn
      /\ UNCHANGED queue

\* A step of the running operation throws.
Throw == engine' = Latched /\ Settle(FALSE)

\* The body has returned; a failure that was latched meanwhile is thrown instead of its result.
Return ==
  /\ op # None /\ op.at = "return"
  /\ IF engine.failed THEN Throw ELSE engine' = engine /\ Settle(TRUE)
  /\ UNCHANGED env

Fault(moved) ==
  /\ env.faults < MaxFaults
  /\ env' = [env EXCEPT !.faults = @ + 1, !.orderly = FALSE, !.moved = @ \/ moved]

\* A port fails: a fenced repository, a full archive, a model without an answer.
PortFails ==
  /\ op # None /\ op.at \in {"archive", "summarize", "save", "write", "recheck"}
  /\ Throw /\ Fault(FALSE)

Busy == op # None \/ Pending # {} \/ \E m \in Asks : ask[m].at \notin {"idle", "done", "refused"}

\* One more call of the Host, in or out of order.
Called(orderly) ==
  /\ env.calls < MaxCalls
  /\ env' = [env EXCEPT !.calls = @ + 1, !.orderly = @ /\ orderly /\ ~Busy]
  /\ UNCHANGED <<queue, tool, ask, heard, turn>>

Ingest == Enter(NewOp("ingest", "archive"), engine, TRUE) /\ Called(TRUE)

\* assemble with a prompt: what was sealed before is given up at once.
Assemble == Enter(NewOp("open", "archive"), [engine EXCEPT !.sealed = None], TRUE) /\ Called(TRUE)

\* The raw messages are archived; then the result, or the context of the first assembly.
Archived ==
  /\ op # None /\ op.at = "archive"
  /\ IF env.moved
     THEN Throw
     ELSE /\ Goto(IF op.kind = "open" THEN "seal" ELSE "return")
          /\ UNCHANGED <<engine, queue, tool, ask, heard, turn>>
  /\ UNCHANGED env

Seal ==
  /\ At("open", "seal")
  /\ IF ~Valid \/ engine.failed
     THEN Throw
     ELSE /\ engine' = [engine EXCEPT !.sealed =
                          [nr |-> env.calls, msgs |-> <<User(engine.history)>>, timed |-> FALSE]]
          /\ Goto("return")
          /\ UNCHANGED <<queue, tool, ask, heard, turn>>
  /\ UNCHANGED env

\* assemble without a prompt, from the tool loop: the Host may have dropped messages.
Reassemble(input) ==
  /\ Enter([NewOp("loop", "check") EXCEPT !.input = input], engine,
           engine.sealed # None /\ Pending = {} /\ CompleteBatch(input))
  /\ Called(engine.sealed # None /\ input = heard /\ CompleteBatch(heard))

\* The first one puts the request's time into the sealed messages, as the transport will.
Project ==
  /\ At("loop", "check")
  /\ IF Valid /\ op.input = op.had.msgs
     THEN /\ engine' = IF op.had.timed THEN engine
                       ELSE [engine EXCEPT !.sealed = [op.had EXCEPT !.timed = TRUE]]
          /\ Goto("archive")
          /\ UNCHANGED <<queue, tool, ask, heard, turn>>
     ELSE Throw
  /\ UNCHANGED env

Compact ==
  /\ Enter(NewOp("compact", "summarize"), engine,
           Pending = {} /\ (engine.sealed # None => CompleteBatch(engine.sealed.msgs)))
  /\ Called((engine.sealed # None => CompleteBatch(engine.sealed.msgs)) /\ ~IsFinal(heard))

Summarize ==
  /\ At("compact", "summarize")
  /\ IF Valid THEN Goto("save") /\ UNCHANGED <<engine, queue, tool, ask, heard, turn>> ELSE Throw
  /\ UNCHANGED env

\* The summary is archived; it becomes the history of the next first assembly.
SaveSummary ==
  /\ At("compact", "save")
  /\ IF Valid /\ ~engine.failed
     THEN /\ engine' = [engine EXCEPT !.history = @ + 1, !.sealed = None]
          /\ Goto("return")
          /\ UNCHANGED <<queue, tool, ask, heard, turn>>
     ELSE Throw
  /\ UNCHANGED env

-----------------------------------------------------------------------------
(* Tool results *)

Delivered(t) == \E m \in Asks : ask[m].at = "done" /\ t \in Range(ask[m].answer.calls)

\* observeToolResult counts the result and queues it behind the ones before it.
ToolReturns(t) ==
  /\ tool[t] = "idle" /\ Delivered(t)
  /\ tool' = [tool EXCEPT ![t] = "queued"] /\ queue' = Append(queue, t)
  /\ env' = [env EXCEPT !.orderly = @ /\ t \in Awaited(heard) /\ (op = None \/ Runs("result"))]
  /\ UNCHANGED <<engine, op, ask, heard, turn>>

\* Faulty variant of ToolFails: the Host keeps a state for it that nobody knows.
ToolErrs(t) ==
  /\ tool[t] = "idle" /\ Delivered(t)
  /\ tool' = [tool EXCEPT ![t] = "error"]
  /\ Fault(FALSE)
  /\ UNCHANGED <<engine, op, queue, ask, heard, turn>>

\* A tool fails before it has a result for the engine; the Host tells the model anyway.
ToolFails(t) ==
  /\ tool[t] = "idle" /\ Delivered(t)
  /\ tool' = [tool EXCEPT ![t] = "failed"] /\ heard' = Gathered(tool')
  /\ Fault(FALSE)
  /\ UNCHANGED <<engine, op, queue, ask, turn>>

\* Faulty variant of NextResult: it does not wait for the result before it.
NextResultAtOnce ==
  /\ queue # <<>>
  /\ LET t  == Head(queue)
         ok == engine.sealed # None /\ t \in Awaited(engine.sealed.msgs)
     IN  /\ Enter([NewOp("result", "extend") EXCEPT !.who = t], engine, ok)
         /\ tool' = [tool EXCEPT ![t] = IF Enters(ok) THEN "running" ELSE "failed"]
  /\ queue' = Tail(queue) /\ heard' = Gathered(tool')
  /\ UNCHANGED <<ask, turn, env>>

\* The next result of the queue, once the one before it is settled.
NextResult ==
  /\ queue # <<>> /\ ~Runs("result")
  /\ LET t  == Head(queue)
         ok == engine.sealed # None /\ t \in Awaited(engine.sealed.msgs)
     IN  /\ Enter([NewOp("result", "extend") EXCEPT !.who = t], engine, ok)
         /\ tool' = [tool EXCEPT ![t] = IF Enters(ok) THEN "running" ELSE "failed"]
  /\ queue' = Tail(queue) /\ heard' = Gathered(tool')
  /\ UNCHANGED <<ask, turn, env>>

ExtendToolResult ==
  /\ At("result", "extend")
  /\ IF Valid
     THEN /\ engine' = [engine EXCEPT !.sealed = [op.had EXCEPT !.msgs = WithResult(@, op.who)]]
          /\ Goto("return")
          /\ UNCHANGED <<queue, tool, ask, heard, turn>>
     ELSE Throw
  /\ UNCHANGED env

-----------------------------------------------------------------------------
(* Model calls *)

\* The provider refuses a call: it refuses every later one of the request too.
RefusedAsk(m) ==
  /\ ask' = [ask EXCEPT ![m].at = "refused"] /\ turn' = [turn EXCEPT !.rejected = TRUE]

\* assertConsumption up to its await, for the messages of a.
EnterGate(m, a) ==
  IF ~Delivers(m) \/ engine.released
  THEN RefusedAsk(m) /\ UNCHANGED engine
  ELSE IF engine.failed \/ engine.sealed = None \/ op # None \/ Pending # {} \/ ~CompleteBatch(a.input)
  THEN RefusedAsk(m) /\ engine' = Latched
  ELSE ask' = [ask EXCEPT ![m] = [a EXCEPT !.had = engine.sealed]] /\ UNCHANGED <<engine, turn>>

\* The Host asks the model, with its conversation or with less than that.
Ask(m, input) ==
  /\ ask[m].at = "idle" /\ Delivers(m)
  /\ EnterGate(m, [NewAsk EXCEPT !.at = "transport", !.input = input])
  /\ env' = [env EXCEPT !.orderly = @ /\ ~Busy /\ ~engine.released /\ CompleteBatch(input)
                                      /\ engine.sealed # None /\ engine.sealed.timed /\ engine.sealed.msgs = input]
  /\ UNCHANGED <<op, queue, tool, heard>>

\* onPayload: the same check again, just before the bytes leave.
Payload(m) ==
  /\ ask[m].at = "opened"
  /\ EnterGate(m, [ask[m] EXCEPT !.at = "payload"])
  /\ UNCHANGED <<op, queue, tool, heard, env>>

\* The model answers; the context is checked again before the answer counts.
ModelAnswers(m, calls) ==
  /\ ask[m].at = "wire"
  /\ \A n \in Asks : ask[n].answer # None => Range(ask[n].answer.calls) \cap Range(calls) = {}
  /\ EnterGate(m, [ask[m] EXCEPT !.at = "answer", !.answer = Answer(m, calls)])
  /\ UNCHANGED <<op, queue, tool, heard, env>>

ModelFails(m) ==
  /\ ask[m].at = "wire"
  /\ ask' = [ask EXCEPT ![m].at = "refused"] /\ Fault(FALSE)
  /\ UNCHANGED <<engine, op, queue, tool, heard, turn>>

\* The rest of assertConsumption: nothing may have changed while it waited.
GateHolds(m) ==
  /\ Valid /\ ask[m].had.timed /\ ask[m].input = ask[m].had.msgs
  /\ ~engine.failed /\ ~engine.released
  /\ engine.sealed = ask[m].had /\ op = None /\ Pending = {}

\* A call the engine has agreed to goes on to the checks of the plugin.
LeaveGate(m) ==
  /\ ask[m].at \in {"transport", "payload", "answer"}
  /\ IF GateHolds(m)
     THEN /\ ask' = [ask EXCEPT ![m] = [@ EXCEPT !.had = None,
               !.at = CASE ask[m].at = "transport" -> "opening" [] ask[m].at = "payload" -> "sending"
                        [] OTHER -> "hearing"]]
          /\ UNCHANGED <<engine, turn>>
     ELSE RefusedAsk(m) /\ engine' = Latched
  /\ UNCHANGED <<op, queue, tool, heard, env>>

\* Authority, views, evidence and revision hold, and the provider has its permit.
SourcesHold(m) == ~env.moved /\ Delivers(m)

\* The rest of the plugin's gate does not ask the engine again. The call goes on to the transport,
OpenTransport(m) ==
  /\ ask[m].at = "opening"
  /\ IF SourcesHold(m) THEN ask' = [ask EXCEPT ![m].at = "opened"] /\ UNCHANGED turn ELSE RefusedAsk(m)
  /\ UNCHANGED <<engine, op, queue, tool, heard, env>>

\* to the wire,
SendPayload(m) ==
  /\ ask[m].at = "sending"
  /\ IF SourcesHold(m) THEN ask' = [ask EXCEPT ![m] = [@ EXCEPT !.at = "wire", !.sent = TRUE]] /\ UNCHANGED turn
     ELSE RefusedAsk(m)
  /\ UNCHANGED <<engine, op, queue, tool, heard, env>>

\* or to observeOutput, an operation of the engine.
ObserveOutput(m) ==
  /\ ask[m].at = "hearing"
  /\ IF SourcesHold(m) THEN Enter([NewOp("output", "extend") EXCEPT !.who = m], engine, engine.sealed # None)
     ELSE UNCHANGED <<engine, op>>
  /\ IF SourcesHold(m) /\ Enters(engine.sealed # None)
     THEN ask' = [ask EXCEPT ![m].at = "observing"] /\ UNCHANGED turn
     ELSE RefusedAsk(m)
  /\ UNCHANGED <<queue, tool, heard, env>>

\* extendAssistant: only the answer to the context as it is sealed extends it.
ExtendAssistant ==
  /\ At("output", "extend")
  /\ IF Valid /\ op.had.timed /\ ask[op.who].input = op.had.msgs
     THEN /\ engine' = [engine EXCEPT !.sealed =
                          [op.had EXCEPT !.msgs = Append(@, ask[op.who].answer)]]
          /\ Goto("return")
          /\ UNCHANGED <<queue, tool, ask, heard, turn>>
     ELSE Throw
  /\ UNCHANGED env

-----------------------------------------------------------------------------
(* The end of the turn *)

\* Faulty variant of ReleaseToCompletion: what is still running is left alone.
ReleaseWhileBusy ==
  /\ ~engine.released /\ env.calls > 0
  /\ engine' = [engine EXCEPT !.released = TRUE]
  /\ env' = [env EXCEPT !.orderly = @ /\ ~Busy]
  /\ UNCHANGED <<op, queue, tool, ask, heard, turn>>

\* The Host disposes of the engine, which ends the model phase for good.
ReleaseToCompletion ==
  /\ ~engine.released /\ env.calls > 0
  /\ engine' = IF op # None \/ Pending # {}
               THEN [Latched EXCEPT !.released = TRUE, !.closed = TRUE]
               ELSE [engine EXCEPT !.released = TRUE]
  /\ env' = [env EXCEPT !.orderly = @ /\ ~Busy]
  /\ UNCHANGED <<op, queue, tool, ask, heard, turn>>

\* The Host's run ends with a reply, the draft of the turn.
EndGeneration ==
  /\ turn.permit = "generate" /\ IsFinal(heard)
  /\ turn' = [turn EXCEPT !.permit = "persist", !.draft = Last(heard)]
  /\ env' = [env EXCEPT !.orderly = @ /\ ~Busy /\ engine.released]
  /\ UNCHANGED <<engine, op, queue, tool, ask, heard>>

\* The turn is cancelled or runs out of time: no permit from now on.
Cancel ==
  /\ turn.permit # "ended"
  /\ turn' = [turn EXCEPT !.permit = "ended"] /\ env' = [env EXCEPT !.orderly = FALSE]
  /\ UNCHANGED <<engine, op, queue, tool, ask, heard>>

\* persistCompletedHistory: the released context must end with the final answer.
PersistCompletedHistory ==
  /\ turn.permit = "persist"
  /\ LET ok == /\ op = None /\ ~engine.failed /\ engine.sealed # None /\ Pending = {}
               /\ IsFinal(engine.sealed.msgs)
     IN  /\ op' = IF engine.released /\ ok THEN NewOp("persist", "check") ELSE op
         /\ engine' = IF engine.released /\ ~ok THEN Latched ELSE engine
         /\ turn' = [turn EXCEPT !.permit = IF engine.released /\ ok THEN "persisting" ELSE "ended"]
  /\ UNCHANGED <<queue, tool, ask, heard, env>>

\* Before the port, and after it: the sources and the permit.
CheckPersist ==
  /\ At("persist", "check") \/ At("persist", "recheck")
  /\ IF Valid /\ turn.permit = "persisting"
     THEN /\ Goto(IF op.at = "check" THEN "write" ELSE "return")
          /\ UNCHANGED <<engine, queue, tool, ask, heard, turn>>
     ELSE Throw
  /\ UNCHANGED env

\* The archive of the history validates the context itself, and is durable from here on.
ArchiveHistory ==
  /\ At("persist", "write")
  /\ IF Valid
     THEN /\ turn' = [turn EXCEPT !.archived = op.had.msgs]
          /\ Goto("recheck")
          /\ UNCHANGED <<engine, queue, tool, ask, heard>>
     ELSE Throw
  /\ UNCHANGED env

\* Faulty variant of Publish: whatever was archived is taken for the reply.
PublishAnything ==
  /\ turn.permit = "publish"
  /\ turn' = [turn EXCEPT !.permit = "ended", !.published = TRUE]
  /\ UNCHANGED <<engine, op, queue, tool, ask, heard, env>>

\* The head of the session moves to the archive if that ends with the draft.
Publish ==
  /\ turn.permit = "publish"
  /\ turn' = [turn EXCEPT !.permit = "ended", !.published = (Last(turn.archived) = turn.draft)]
  /\ UNCHANGED <<engine, op, queue, tool, ask, heard, env>>

SourcesMove ==
  /\ ~env.moved /\ Fault(TRUE)
  /\ UNCHANGED <<engine, op, queue, tool, ask, heard, turn>>

Next ==
  \/ Ingest \/ Assemble \/ Archived \/ Seal \/ Project
  \/ \E k \in 0..Len(heard) : Reassemble(SubSeq(heard, 1, k))
  \/ Compact \/ Summarize \/ SaveSummary
  \/ Return \/ PortFails
  \/ \E t \in Tools : ToolReturns(t) \/ ToolFails(t)
  \/ NextResult \/ ExtendToolResult
  \/ \E m \in Asks : \/ \E k \in 1..Len(heard) : Ask(m, SubSeq(heard, 1, k))
                     \/ Payload(m) \/ ModelFails(m) \/ LeaveGate(m)
                     \/ OpenTransport(m) \/ SendPayload(m) \/ ObserveOutput(m)
                     \/ \E calls \in Batches : ModelAnswers(m, calls)
  \/ ExtendAssistant
  \/ ReleaseToCompletion \/ EndGeneration \/ Cancel
  \/ PersistCompletedHistory \/ CheckPersist \/ ArchiveHistory \/ Publish
  \/ SourcesMove

Spec == Init /\ [][Next]_vars

-----------------------------------------------------------------------------
(* Properties *)

Messages == [role : {"user", "assistant", "toolResult"}, by : (0..MaxCalls) \union Asks \union Tools,
             calls : Seq(Tools)]

Contexts == [nr : 0..MaxCalls, msgs : Seq(Messages), timed : BOOLEAN]

Operations ==
  [kind : {"ingest", "open", "loop", "compact", "result", "output", "persist"},
   at : {"archive", "seal", "check", "summarize", "save", "extend", "write", "recheck", "return"},
   who : Asks \union Tools \union {None}, input : Seq(Messages), had : Contexts \union {None}]

ASSUME NoneAssumption == None \notin Contexts \union Messages \union Seq(Messages) \union Operations

\* The values of the engine's fields, of its running operation and of its callers.
TypeOK ==
  /\ engine \in [failed : BOOLEAN, closed : BOOLEAN, sealed : Contexts \union {None},
                 released : BOOLEAN, history : 0..MaxCalls]
  /\ op \in Operations \union {None}
  /\ queue \in Seq(Tools)
  /\ tool \in [Tools -> {"idle", "queued", "running", "done", "failed"}]
  /\ ask \in [Asks ->
       [at : {"idle", "transport", "opening", "opened", "payload", "sending", "wire", "answer", "hearing",
              "observing", "done", "refused"},
        input : Seq(Messages), had : Contexts \union {None}, answer : Messages \union {None},
        sent : BOOLEAN]]
  /\ heard \in Seq(Messages)
  /\ turn \in [permit : {"generate", "persist", "persisting", "publish", "ended"},
               rejected : BOOLEAN, draft : Messages \union {None},
               archived : Seq(Messages) \union {None}, published : BOOLEAN]
  /\ env \in [moved : BOOLEAN, orderly : BOOLEAN, calls : 0..MaxCalls, faults : 0..MaxFaults]

\* Every answer in msgs is the model's own answer to what stands before it there.
OwnAnswers(msgs) ==
  \A i \in 1..Len(msgs) : msgs[i].role = "assistant" =>
    /\ ask[msgs[i].by].sent
    /\ ask[msgs[i].by].input = SubSeq(msgs, 1, i - 1)
    /\ ask[msgs[i].by].answer = msgs[i]

\* Every answer in msgs is followed by the results of its calls, in call order.
WholeBatches(msgs) ==
  \A i \in 1..Len(msgs) : msgs[i].role = "assistant" =>
    LET n == Len(msgs[i].calls)
    IN  /\ i + n <= Len(msgs)
        /\ SubSeq(msgs, i + 1, i + n) = Results(msgs[i].calls)
        /\ i + n < Len(msgs) => msgs[i + n + 1].role # "toolResult"

\* Nothing but a genuine conversation reaches the model or the archive: its answers were given
\* to exactly the messages before them, and no tool result is missing, foreign or out of order,
\* however assemblies, model calls and tool callbacks interleave.
ConversationIsGenuine ==
  /\ engine.sealed # None => OwnAnswers(engine.sealed.msgs)
  /\ \A m \in Asks : ask[m].sent => OwnAnswers(ask[m].input) /\ WholeBatches(ask[m].input)
  /\ turn.archived # None => OwnAnswers(turn.archived) /\ WholeBatches(turn.archived)

\* A reply is published with the conversation the Host has heard, to the last message, although
\* only its final text is compared.
PublishedIsHeard ==
  turn.published => turn.archived = heard

\* A call the engine has agreed to, which has yet to go on.
Agreed == {"opening", "sending", "hearing"}

\* After a failure nothing more is delivered or kept, whoever was waiting when it struck, and
\* nothing more is sent but what the engine had agreed to before: it agrees to nothing more.
\* After the release too, and the verified context is never replaced by another.
OverIsOver ==
  [][/\ engine.failed =>
          /\ engine'.failed
          /\ \A m \in Asks : ask'[m].at = "done" => ask[m].at = "done"
          /\ turn'.permit = "publish" => turn.permit = "publish"
     /\ engine.released => engine'.sealed \in {engine.sealed, None}
     /\ engine.failed \/ engine.released =>
          \A m \in Asks : /\ ask'[m].at \in Agreed => ask[m].at = ask'[m].at
                          /\ ask'[m].sent # ask[m].sent => ask[m].at = "sending"]_vars

\* A Host that keeps to the protocol is never refused, and its reply is published: parallel tool
\* results may come in any order and while others are being checked.
OrderlyTurnsSucceed ==
  env.orderly => /\ ~engine.failed /\ ~turn.rejected
                 /\ turn.permit = "ended" => turn.published
=============================================================================
