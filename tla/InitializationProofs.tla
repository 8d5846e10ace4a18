------------------------- MODULE InitializationProofs -------------------------
(***************************************************************************)
(* What the gate of an initialized Host means and what can be restored,    *)
(* for any calls, runs, revisions, files, edits, crashes and failures.     *)
(***************************************************************************)
EXTENDS Initialization, TLAPS

Installing == {"archive", "pend", "write", "rename", "verify", "receipt", "unfence", "unpend"}
Restoring  == {"restore", "unname", "unreceipt", "unpendUndone", "unmark"}
Confirming == {"release", "released", "unfence", "unpend"}
Completing == {"rename", "verify", "receipt"} \union Confirming

\* A call has the lock from its acquisition to its release; isolations and revocations need none.
Holds(c) == c.job \in {"install", "rollback"} /\ c.pc \notin {"idle", "planned", "ready", "abort"}

\* What a call is for, in the phases that only one kind of call reaches.
Roles(c) ==
  /\ c.pc \in Installing => c.job = "install"
  /\ c.pc \in Restoring \union {"mark"} => c.job = "rollback"
  /\ c.pc \in {"planned", "locked", "unlock"} => c.job \in {"install", "rollback"}
  /\ c.pc \in {"release", "released"} => c.job \in {"install", "ready"}
  /\ c.pc = "quick" => c.job = "quick"
  /\ c.pc = "planned" => c.plan \in Plans
  /\ c.job = "rollback" => c.plan \in archive

Replaced(c) == \A t \in Changes(c.plan) \ (c.todo \union edited) : files[t] = After(c.plan, t)

\* A target to replace was what the plan expects when it was looked at, and only the owner has
\* changed it since.
Compares(c) ==
  c.pc \in {"write", "restore"} /\ c.look # None =>
    /\ c.look.target \in c.todo
    /\ c.look.text \in {c.plan.before[c.look.target], After(c.plan, c.look.target)}
    /\ files[c.look.target] = c.look.text \/ c.look.target \in edited

\* What the call that has the lock has done already, phase by phase.
Relies(c) ==
  /\ c.plan \in Plans
  /\ c.pc \notin {"locked", "fence"} => fenced \/ (c.job = "install" /\ c.pc \in {"unpend", "unlock"})
  /\ c.job = "install" /\ c.pc \in {"pend", "write"} \union Completing => c.plan \in archive
  /\ c.job = "install" /\ c.pc \in {"write"} \union Completing =>
       pending = c.plan /\ Replaced(c) /\ touched = [op |-> c.plan.op, job |-> "install"]
  /\ c.job = "install" /\ c.pc \in Completing => c.todo = {}
  /\ c.job = "install" /\ c.pc \in Completing \ {"rename"} => name = Identity[c.plan.rev]
  /\ c.job = "install" /\ c.pc \in Confirming => receipt = [op |-> c.plan.op, rev |-> c.plan.rev]
  /\ c.pc \in Restoring => undoing = c.plan
  /\ c.pc \in {"write", "restore"} => c.todo \subseteq Changes(c.plan)
  /\ Compares(c)

Phase(p) ==
  /\ Roles(call[p])
  /\ Holds(call[p]) => lock = p /\ Relies(call[p])

\* A run compares its binding with a receipt it has read.
Checking == \A r \in Runs : check[r].pc \in {"epoch", "compare"} => check[r].saw \in Receipts

IInv == TypeOK /\ Checking /\ (\A p \in Procs : Phase(p)) /\ OpenMeansInstalled

-----------------------------------------------------------------------------
(* What one call does to the others *)

\* Nothing that another call relies on changes, but that a fence may rise.
Quiet == UNCHANGED <<files, name, pending, undoing, receipt, touched>> /\ (fenced => fenced')
           /\ edited \subseteq edited'

Frame(p) ==
  /\ \A q \in Procs \ {p} : call'[q] = call[q]
  /\ archive \subseteq archive'
  /\ Quiet \/ Holds(call[p])
  /\ lock' = lock \/ lock = p \/ (lock \in {Free, Stale} /\ lock' = p)

LEMMA OthersKeep ==
  ASSUME \A q \in Procs : Phase(q), NEW p \in Procs, Frame(p)
  PROVE  \A q \in Procs \ {p} : Phase(q)'
<1> SUFFICES ASSUME NEW q \in Procs \ {p} PROVE Phase(q)'
  OBVIOUS
<1>1. call'[q] = call[q] /\ Phase(q) /\ Phase(p)
  BY DEF Frame
<1>2. Roles(call[q])'
  BY <1>1 DEF Phase, Frame, Roles
<1>3. ASSUME Holds(call[q])
      PROVE  lock' = q /\ Relies(call[q])'
  <2>1. lock = q /\ Relies(call[q])
    BY <1>1, <1>3 DEF Phase
  <2>2. ~Holds(call[p])
    BY <1>1, <2>1 DEF Phase
  <2>3. Quiet /\ archive \subseteq archive'
    BY <2>2 DEF Frame
  <2>4. lock' = q
    BY <2>1, SentinelAssumption DEF Frame, SentinelAssumption
  <2>5. Replaced(call[q]) => Replaced(call[q])'
    BY <1>1, <2>3 DEF Replaced, Quiet, After, Changes, Managed
  <2>6. Compares(call[q]) => Compares(call[q])'
    BY <1>1, <2>3 DEF Compares, Quiet, After
  <2> QED
    BY <1>1, <2>1, <2>3, <2>4, <2>5, <2>6 DEF Relies, Quiet, Changes, Managed
<1> QED
  BY <1>1, <1>2, <1>3 DEF Phase, Holds

LEMMA StaysInstalled ==
  ASSUME OpenMeansInstalled, Quiet, Closed => Closed'
  PROVE  OpenMeansInstalled'
BY DEF OpenMeansInstalled, Quiet, Managed

Kept(p) == TypeOK' /\ Checking' /\ Phase(p)' /\ OpenMeansInstalled' /\ Frame(p)

-----------------------------------------------------------------------------
(* Steps that leave the workspace, the gates and the receipt alone *)

\* What no other call relies on: the isolation, the epoch, the runs and the counts.
Rest == <<journal, tools, epoch, binding, check, overwritten, ops, calls, faults>>

RestOK ==
  /\ journal \in Policies \union {None} /\ tools \in Policies
  /\ epoch \in Nat /\ binding \in [Runs -> Bindings \union {None}] /\ check \in [Runs -> Checks]
  /\ overwritten \in BOOLEAN
  /\ ops \in 0..MaxOps /\ calls \in 0..MaxCalls /\ faults \in 0..MaxFaults
  /\ Checking

Onward(p, c) ==
  /\ call' = [call EXCEPT ![p] = c]
  /\ UNCHANGED <<files, name, source, fenced, pending, undoing, receipt, archive, touched, edited>>

LEMMA GoesOn ==
  ASSUME IInv, NEW p \in Procs, NEW c \in Calls, Onward(p, c), RestOK',
         lock' = lock \/ (lock = p /\ lock' \in {Free, Stale}) \/ (lock \in {Free, Stale} /\ lock' = p),
         Roles(c), Holds(c) => lock' = p /\ Relies(c)
  PROVE  Kept(p)
<1>1. call' \in [Procs -> Calls] /\ call'[p] = c /\ \A q \in Procs \ {p} : call'[q] = call[q]
  BY DEF IInv, TypeOK, Onward
<1>2. TypeOK'
  BY <1>1 DEF IInv, TypeOK, RestOK, Onward
<1>3. Checking'
  BY DEF RestOK
<1>4. Phase(p)'
  BY <1>1 DEF Phase, Onward, Roles, Relies, Compares, Holds, Replaced, After, Changes, Managed
<1>5. Frame(p)
  BY <1>1 DEF Frame, Quiet, Onward
<1>6. OpenMeansInstalled'
  BY StaysInstalled DEF IInv, Quiet, Onward, Closed
<1> QED
  BY <1>2, <1>3, <1>4, <1>5, <1>6 DEF Kept

LEMMA RestKept ==
  ASSUME IInv, UNCHANGED Rest
  PROVE  RestOK'
BY DEF IInv, TypeOK, Checking, Rest, RestOK

LEMMA InspectApplyKeeps ==
  ASSUME IInv, NEW p \in Procs, InspectApply(p)
  PROVE  Kept(p)
<1> DEFINE c == [call[p] EXCEPT !.pc = IF ApplyChecks(call[p].plan) THEN "fence" ELSE "abort",
                                !.resumed = pending = call[p].plan]
<1>1. call[p] \in Calls /\ Phase(p) /\ Holds(call[p])
  BY DEF InspectApply, At, IInv, TypeOK, Holds
<1>2. c \in Calls
  <2>1. \A ph \in Phases, b \in BOOLEAN : [call[p] EXCEPT !.pc = ph, !.resumed = b] \in Calls
    BY <1>1 DEF Calls
  <2> QED
    BY <2>1 DEF Phases
<1>3. Onward(p, c) /\ UNCHANGED lock /\ UNCHANGED Rest
  BY <1>1 DEF InspectApply, Onward, Rest, gates, host, past, counts, IInv, TypeOK
<1>4. Roles(c) /\ (Holds(c) => lock' = p /\ Relies(c))
  BY <1>1, <1>3 DEF InspectApply, At, Phase, Holds, Roles, Relies, Compares, Installing, Restoring, Completing, Confirming, Calls
<1> QED
  BY <1>2, <1>3, <1>4, RestKept, GoesOn

\* The calls a step may end in without relying on anything.
LEMMA IdleIsFree == IdleCall \in Calls /\ Roles(IdleCall) /\ ~Holds(IdleCall)
BY SentinelAssumption DEF IdleCall, Calls, Phases, Jobs, Policies, Roles, Holds, Installing, Restoring

LEMMA AbortIsFree ==
  ASSUME IInv, NEW p \in Procs
  PROVE  LET c == [call[p] EXCEPT !.pc = "abort"] IN c \in Calls /\ Roles(c) /\ ~Holds(c)
<1>1. call[p] \in Calls /\ Roles(call[p])
  BY DEF IInv, TypeOK, Phase
<1> QED
  BY <1>1 DEF Calls, Phases, Roles, Holds, Installing, Restoring

\* From the fence to the isolation a call relies on nothing but the fence.
Fencing == {"readEpoch", "bump", "drain", "isolate", "note", "deny", "isolated", "giveUp", "givenUp"}

LEMMA StaysFenced ==
  ASSUME IInv, NEW p \in Procs, call[p].pc \in Fencing,
         NEW c \in Calls, c.pc \in Fencing, c.job = call[p].job, c.plan = call[p].plan
  PROVE  Roles(c) /\ (Holds(c) => lock = p /\ Relies(c))
<1>1. Phase(p)
  BY DEF IInv
<1> QED
  BY <1>1 DEF Phase, Fencing, Roles, Holds, Relies, Compares, Installing, Restoring, Completing, Confirming

LEMMA CheckWrittenKeeps ==
  ASSUME IInv, NEW p \in Procs, CheckWritten(p)
  PROVE  Kept(p)
<1> DEFINE c == [call[p] EXCEPT !.pc = "rename"]
<1>1. call[p] \in Calls /\ Phase(p) /\ Holds(call[p])
  BY DEF CheckWritten, At, IInv, TypeOK, Holds, Phase, Roles, Installing
<1>2. \/ Onward(p, c) /\ (\A t \in Changes(call[p].plan) : files[t] = After(call[p].plan, t))
      \/ Onward(p, [call[p] EXCEPT !.pc = "abort"])
  BY <1>1 DEF CheckWritten, Goto, Onward, gates, past, IInv, TypeOK
<1>3. UNCHANGED lock /\ UNCHANGED Rest
  BY DEF CheckWritten, Rest, host, past, counts
<1>4. ASSUME Onward(p, c), \A t \in Changes(call[p].plan) : files[t] = After(call[p].plan, t)
      PROVE  Kept(p)
  <2>1. c \in Calls /\ c.todo = {} /\ c.pc = "rename" /\ c.job = "install" /\ c.plan = call[p].plan
    BY <1>1 DEF Calls, Phases, CheckWritten, At, Phase, Roles, Installing
  <2>2. Replaced(c)
    BY <1>4, <2>1 DEF Replaced
  <2>3. Roles(c) /\ lock = p /\ Relies(c)
    BY <1>1, <2>1, <2>2 DEF CheckWritten, At, Phase, Roles, Relies, Compares, Installing, Restoring, Completing, Confirming
  <2> QED
    BY <1>3, <1>4, <2>1, <2>3, RestKept, GoesOn
<1> QED
  BY <1>2, <1>3, <1>4, AbortIsFree, RestKept, GoesOn

LEMMA VerifyKeeps ==
  ASSUME IInv, NEW p \in Procs, Verify(p)
  PROVE  Kept(p)
<1> DEFINE c == [call[p] EXCEPT !.pc = "receipt"]
<1>1. call[p] \in Calls /\ Phase(p) /\ Holds(call[p])
  BY DEF Verify, At, IInv, TypeOK, Holds, Phase, Roles, Installing
<1>2. Onward(p, c) \/ Onward(p, [call[p] EXCEPT !.pc = "abort"])
  BY <1>1 DEF Verify, Goto, Onward, gates, past, IInv, TypeOK
<1>3. UNCHANGED lock /\ UNCHANGED Rest
  BY DEF Verify, Rest, host, past, counts
<1>4. c \in Calls /\ Roles(c) /\ lock = p /\ Relies(c)
  BY <1>1 DEF Calls, Phases, Verify, At, Phase, Roles, Relies, Compares, Replaced, Installing, Restoring, Completing, Confirming
<1> QED
  BY <1>2, <1>3, <1>4, AbortIsFree, RestKept, GoesOn

LEMMA InspectRollbackKeeps ==
  ASSUME IInv, NEW p \in Procs, InspectRollback(p)
  PROVE  Kept(p)
<1> DEFINE c == [call[p] EXCEPT !.pc = IF RollbackChecks(call[p].plan) THEN "fence" ELSE "abort",
                                !.resumed = undoing = call[p].plan]
<1>1. call[p] \in Calls /\ Phase(p) /\ Holds(call[p])
  BY DEF InspectRollback, At, IInv, TypeOK, Holds
<1>2. c \in Calls
  <2>1. \A ph \in Phases, b \in BOOLEAN : [call[p] EXCEPT !.pc = ph, !.resumed = b] \in Calls
    BY <1>1 DEF Calls
  <2> QED
    BY <2>1 DEF Phases
<1>3. Onward(p, c) /\ UNCHANGED lock /\ UNCHANGED Rest
  BY <1>1 DEF InspectRollback, Onward, Rest, gates, host, past, counts, IInv, TypeOK
<1>4. Roles(c) /\ (Holds(c) => lock' = p /\ Relies(c))
  BY <1>1, <1>3 DEF InspectRollback, At, Phase, Holds, Roles, Relies, Compares, Installing, Restoring, Completing, Confirming, Calls
<1> QED
  BY <1>2, <1>3, <1>4, RestKept, GoesOn

LEMMA CheckRestoredKeeps ==
  ASSUME IInv, NEW p \in Procs, CheckRestored(p)
  PROVE  Kept(p)
<1> DEFINE c == [call[p] EXCEPT !.pc = "unname"]
<1>1. call[p] \in Calls /\ Phase(p) /\ Holds(call[p])
  BY DEF CheckRestored, At, IInv, TypeOK, Holds, Phase, Roles, Restoring
<1>2. Onward(p, c) \/ Onward(p, [call[p] EXCEPT !.pc = "abort"])
  BY <1>1 DEF CheckRestored, Goto, Onward, gates, past, IInv, TypeOK
<1>3. UNCHANGED lock /\ UNCHANGED Rest
  BY DEF CheckRestored, Rest, host, past, counts
<1>4. c \in Calls /\ Roles(c) /\ lock = p /\ Relies(c)
  BY <1>1 DEF Calls, Phases, CheckRestored, At, Phase, Roles, Relies, Compares, Installing, Restoring, Completing, Confirming
<1> QED
  BY <1>2, <1>3, <1>4, AbortIsFree, RestKept, GoesOn

\* The steps of a fence: each stays in it, gives up, or goes where its job leads.
LEMMA ReadEpochKeeps ==
  ASSUME IInv, NEW p \in Procs, ReadEpoch(p)
  PROVE  Kept(p)
<1> DEFINE c == [call[p] EXCEPT !.pc = "bump", !.epoch = epoch]
<1>1. call[p] \in Calls /\ call[p].pc = "readEpoch" /\ epoch \in Nat
  BY DEF ReadEpoch, At, IInv, TypeOK
<1>2. c \in Calls /\ c.pc = "bump" /\ c.job = call[p].job /\ c.plan = call[p].plan
  BY <1>1 DEF Calls, Phases
<1>3. Onward(p, c) /\ UNCHANGED lock /\ UNCHANGED Rest
  BY <1>1 DEF ReadEpoch, Onward, Rest, gates, host, past, counts, IInv, TypeOK
<1>4. Roles(c) /\ (Holds(c) => lock' = p /\ Relies(c))
  BY <1>1, <1>2, <1>3, StaysFenced DEF Fencing
<1> QED
  BY <1>2, <1>3, <1>4, RestKept, GoesOn

\* A step within a fence to one of its phases.
LEMMA Fences ==
  ASSUME IInv, NEW p \in Procs, call[p].pc \in Fencing, NEW ph \in Fencing,
         Onward(p, [call[p] EXCEPT !.pc = ph]), UNCHANGED lock, RestOK'
  PROVE  Kept(p)
<1> DEFINE c == [call[p] EXCEPT !.pc = ph]
<1>1. call[p] \in Calls
  BY DEF IInv, TypeOK
<1>2. c \in Calls /\ c.pc \in Fencing /\ c.job = call[p].job /\ c.plan = call[p].plan
  BY <1>1 DEF Calls, Phases, Fencing
<1>3. Roles(c) /\ (Holds(c) => lock' = p /\ Relies(c))
  BY <1>2, StaysFenced
<1> QED
  BY <1>2, <1>3, GoesOn

\* A call that ends, with or without a rejection still to come.
LEMMA Ends ==
  ASSUME IInv, NEW p \in Procs, RestOK',
         Onward(p, IdleCall) \/ Onward(p, [call[p] EXCEPT !.pc = "abort"]),
         lock' = lock \/ (lock = p /\ lock' \in {Free, Stale})
  PROVE  Kept(p)
BY IdleIsFree, AbortIsFree, GoesOn

LEMMA BumpKeeps ==
  ASSUME IInv, NEW p \in Procs, Bump(p)
  PROVE  Kept(p)
<1> DEFINE c == [call[p] EXCEPT !.pc = "retain"]
<1>1. call[p] \in Calls /\ call[p].pc = "bump" /\ Roles(call[p])
  BY DEF Bump, At, IInv, TypeOK, Phase
<1>2. RestOK' /\ UNCHANGED lock
  BY <1>1 DEF Bump, Calls, IInv, TypeOK, Checking, RestOK, host, counts
<1>3. \/ Onward(p, [call[p] EXCEPT !.pc = "drain"])
      \/ Onward(p, c) /\ call[p].job = "revoke"
      \/ Onward(p, IdleCall)
  BY <1>1 DEF Bump, Goto, Onward, gates, IInv, TypeOK, IdleCall
<1>4. call[p].job = "revoke" => c \in Calls /\ Roles(c) /\ ~Holds(c)
  BY <1>1 DEF Calls, Phases, Roles, Holds, Installing, Restoring
<1> QED
  BY <1>1, <1>2, <1>3, <1>4, Fences, Ends, GoesOn DEF Fencing

LEMMA DrainKeeps ==
  ASSUME IInv, NEW p \in Procs, Drain(p)
  PROVE  Kept(p)
<1>1. call[p] \in Calls /\ call[p].pc = "drain"
  BY DEF Drain, At, IInv, TypeOK
<1>2. Onward(p, [call[p] EXCEPT !.pc = "abort"]) \/ Onward(p, [call[p] EXCEPT !.pc = "isolate"])
  BY <1>1 DEF Drain, Goto, Onward, gates, past, IInv, TypeOK
<1>3. UNCHANGED lock /\ UNCHANGED Rest
  BY DEF Drain, Rest, host, past, counts
<1> QED
  BY <1>1, <1>2, <1>3, RestKept, Fences, Ends DEF Fencing

LEMMA IsolateKeeps ==
  ASSUME IInv, NEW p \in Procs, Isolate(p)
  PROVE  Kept(p)
<1> DEFINE c == [call[p] EXCEPT !.pc = "note", !.tools = tools]
<1>1. call[p] \in Calls /\ call[p].pc = "isolate" /\ tools \in Policies
  BY DEF Isolate, At, IInv, TypeOK
<1>2. \/ Onward(p, c)
      \/ Onward(p, [call[p] EXCEPT !.pc = "isolated"])
      \/ Onward(p, [call[p] EXCEPT !.pc = "giveUp"])
      \/ Onward(p, IdleCall)
  BY <1>1 DEF Isolate, IsolationFails, Goto, Onward, gates, past, IInv, TypeOK, IdleCall
<1>3. UNCHANGED lock /\ UNCHANGED Rest
  BY DEF Isolate, Rest, host, past, counts
<1>4. c \in Calls /\ c.pc \in Fencing /\ c.job = call[p].job /\ c.plan = call[p].plan
  BY <1>1 DEF Calls, Phases, Fencing
<1>5. Roles(c) /\ (Holds(c) => lock' = p /\ Relies(c))
  BY <1>1, <1>3, <1>4, StaysFenced DEF Fencing
<1> QED
  BY <1>1, <1>2, <1>3, <1>4, <1>5, RestKept, Fences, Ends, GoesOn DEF Fencing

LEMMA NoteProfileKeeps ==
  ASSUME IInv, NEW p \in Procs, NoteProfile(p)
  PROVE  Kept(p)
<1>1. call[p] \in Calls /\ call[p].pc = "note"
  BY DEF NoteProfile, Step, At, IInv, TypeOK
<1>2. Onward(p, [call[p] EXCEPT !.pc = "deny"]) /\ UNCHANGED lock
  BY <1>1 DEF NoteProfile, Step, Goto, Onward, gates, past, IInv, TypeOK
<1>3. RestOK'
  BY <1>1 DEF NoteProfile, Calls, IInv, TypeOK, Checking, RestOK, past, counts
<1> QED
  BY <1>1, <1>2, <1>3, Fences DEF Fencing

LEMMA DenyToolsKeeps ==
  ASSUME IInv, NEW p \in Procs, DenyTools(p)
  PROVE  Kept(p)
<1>1. call[p] \in Calls /\ call[p].pc = "deny"
  BY DEF DenyTools, Step, At, IInv, TypeOK
<1>2. Onward(p, [call[p] EXCEPT !.pc = "isolated"]) /\ UNCHANGED lock
  BY <1>1 DEF DenyTools, Step, Goto, Onward, gates, past, IInv, TypeOK
<1>3. RestOK'
  BY <1>1 DEF DenyTools, Policies, IInv, TypeOK, Checking, RestOK, past, counts
<1> QED
  BY <1>1, <1>2, <1>3, Fences DEF Fencing

LEMMA IsolatedKeeps ==
  ASSUME IInv, NEW p \in Procs, Isolated(p)
  PROVE  Kept(p)
<1> DEFINE c(ph) == [call[p] EXCEPT !.pc = ph]
<1>1. call[p] \in Calls /\ call[p].pc = "isolated" /\ Phase(p)
  BY DEF Isolated, At, IInv, TypeOK
<1>2. \/ Onward(p, c("archive")) /\ call[p].job = "install"
      \/ Onward(p, c("mark")) /\ call[p].job = "rollback"
      \/ Onward(p, c("readEpoch")) \/ Onward(p, c("giveUp"))
      \/ Onward(p, c("abort")) \/ Onward(p, IdleCall)
  BY <1>1 DEF Isolated, AfterIsolation, IsolationFails, Goto, Onward, gates, past, IInv, TypeOK, IdleCall, Calls, Jobs
<1>3. UNCHANGED lock /\ UNCHANGED Rest
  BY DEF Isolated, Rest, host, past, counts
<1>4. call[p].job = "install" =>
        c("archive") \in Calls /\ Roles(c("archive")) /\ lock = p /\ Relies(c("archive"))
  BY <1>1 DEF Calls, Phases, Phase, Roles, Holds, Relies, Compares, Installing, Restoring, Completing, Confirming
<1>5. call[p].job = "rollback" =>
        c("mark") \in Calls /\ Roles(c("mark")) /\ lock = p /\ Relies(c("mark"))
  BY <1>1 DEF Calls, Phases, Phase, Roles, Holds, Relies, Compares, Installing, Restoring, Completing, Confirming
<1> QED
  BY <1>1, <1>2, <1>3, <1>4, <1>5, RestKept, Fences, Ends, GoesOn DEF Fencing

LEMMA RestoreProfileKeeps ==
  ASSUME IInv, NEW p \in Procs, RestoreProfile(p)
  PROVE  Kept(p)
<1> DEFINE next == IF call[p].pc = "release" THEN "released" ELSE "givenUp"
           c == [call[p] EXCEPT !.pc = next, !.tools = journal]
<1>1. call[p] \in Calls /\ call[p].pc \in {"release", "giveUp"} /\ Phase(p)
  BY DEF RestoreProfile, IInv, TypeOK
<1>2. \/ Onward(p, [call[p] EXCEPT !.pc = "abort"])
      \/ Onward(p, c) /\ journal \in Policies
  BY <1>1 DEF RestoreProfile, Goto, Onward, gates, past, IInv, TypeOK
<1>3. RestOK' /\ UNCHANGED lock
  BY DEF RestoreProfile, IInv, TypeOK, Checking, RestOK, past, counts
<1>4. ASSUME journal \in Policies, call[p].pc = "release"
      PROVE  c \in Calls /\ Roles(c) /\ (Holds(c) => lock = p /\ Relies(c))
  BY <1>1, <1>4 DEF Calls, Phases, Phase, Roles, Holds, Relies, Compares, Replaced, Installing, Restoring, Completing, Confirming
<1>5. ASSUME journal \in Policies, call[p].pc = "giveUp"
      PROVE  c \in Calls /\ Roles(c) /\ (Holds(c) => lock = p /\ Relies(c))
  <2>1. c \in Calls /\ c.pc = "givenUp" /\ c.job = call[p].job /\ c.plan = call[p].plan
    BY <1>1, <1>5 DEF Calls, Phases
  <2> QED
    BY <1>5, <2>1, StaysFenced DEF Fencing
<1> QED
  BY <1>1, <1>2, <1>3, <1>4, <1>5, Ends, GoesOn

LEMMA ForgetProfileKeeps ==
  ASSUME IInv, NEW p \in Procs, ForgetProfile(p)
  PROVE  Kept(p)
<1> DEFINE c(ph) == [call[p] EXCEPT !.pc = ph]
<1>1. call[p] \in Calls /\ call[p].pc \in {"released", "givenUp"} /\ Phase(p)
  BY DEF ForgetProfile, IInv, TypeOK
<1>2. \/ Onward(p, c("abort"))
      \/ Onward(p, c("unfence")) /\ call[p].pc = "released" /\ call[p].job = "install"
      \/ Onward(p, c("idle"))
  BY <1>1 DEF ForgetProfile, AfterRelease, Goto, Onward, gates, past, IInv, TypeOK
<1>3. RestOK' /\ UNCHANGED lock
  BY DEF ForgetProfile, IInv, TypeOK, Checking, RestOK, past, counts
<1>4. ASSUME call[p].pc = "released", call[p].job = "install"
      PROVE  c("unfence") \in Calls /\ Roles(c("unfence")) /\ lock = p /\ Relies(c("unfence"))
  BY <1>1, <1>4 DEF Calls, Phases, Phase, Roles, Holds, Relies, Compares, Replaced, Installing, Restoring, Completing, Confirming
<1>5. c("idle") \in Calls /\ Roles(c("idle")) /\ ~Holds(c("idle"))
  BY <1>1 DEF Calls, Phases, Phase, Roles, Holds, Installing, Restoring
<1> QED
  BY <1>1, <1>2, <1>3, <1>4, <1>5, Ends, GoesOn

LEMMA QuickVerifiedKeeps ==
  ASSUME IInv, NEW p \in Procs, QuickVerified(p)
  PROVE  Kept(p)
<1> DEFINE c == [call[p] EXCEPT !.pc = "ready"]
<1>1. call[p] \in Calls /\ Phase(p)
  BY DEF IInv, TypeOK
<1>2. c \in Calls /\ Roles(c) /\ ~Holds(c)
  BY <1>1 DEF Calls, Phases, Phase, Roles, Holds, Installing, Restoring
<1>3. Onward(p, c) /\ UNCHANGED lock /\ UNCHANGED Rest
  BY <1>1 DEF QuickVerified, Step, Goto, Onward, Rest, gates, host, past, counts, IInv, TypeOK
<1> QED
  BY <1>2, <1>3, RestKept, GoesOn

LEMMA ReadyKeeps ==
  ASSUME IInv, NEW p \in Procs, Ready(p)
  PROVE  Kept(p)
<1> DEFINE c == [call[p] EXCEPT !.pc = "release", !.job = "ready"]
<1>1. call[p] \in Calls /\ Phase(p)
  BY DEF IInv, TypeOK
<1>2. c \in Calls /\ Roles(c) /\ ~Holds(c)
  <2>1. c.pc = "release" /\ c.job = "ready"
    BY <1>1 DEF Calls
  <2>2. c \in Calls
    BY <1>1 DEF Calls, Phases, Jobs
  <2> HIDE DEF c
  <2> QED
    BY <2>1, <2>2 DEF Roles, Holds, Installing, Restoring
<1>3. UNCHANGED lock /\ UNCHANGED Rest /\ (Onward(p, c) \/ Onward(p, IdleCall))
  BY <1>1 DEF Ready, Onward, Rest, gates, host, past, counts, IInv, TypeOK, IdleCall
<1> QED
  BY <1>2, <1>3, RestKept, GoesOn, Ends

LEMMA UnlockKeeps ==
  ASSUME IInv, NEW p \in Procs, Unlock(p)
  PROVE  Kept(p)
<1> DEFINE c == [IdleCall EXCEPT !.pc = "ready"]
<1>1. call[p] \in Calls /\ Phase(p) /\ call[p].pc = "unlock"
  BY DEF Unlock, At, IInv, TypeOK
<1>2. lock = p /\ lock' = Free
  BY <1>1 DEF Unlock, Phase, Roles, Holds
<1>3. c \in Calls /\ Roles(c) /\ ~Holds(c)
  BY SentinelAssumption DEF IdleCall, Calls, Phases, Jobs, Policies, Roles, Holds, Installing, Restoring
<1>4. UNCHANGED Rest /\ (Onward(p, c) \/ Onward(p, IdleCall))
  BY <1>1 DEF Unlock, Onward, Rest, gates, host, past, counts, IInv, TypeOK, IdleCall
<1> QED
  BY <1>2, <1>3, <1>4, RestKept, GoesOn, Ends

LEMMA AbortKeeps ==
  ASSUME IInv, NEW p \in Procs, Abort(p)
  PROVE  Kept(p)
<1> DEFINE c == [IdleCall EXCEPT !.pc = "isolate", !.job = "start"]
<1>1. call[p] \in Calls /\ (lock' = lock \/ (lock = p /\ lock' = Free))
  BY DEF Abort, At, IInv, TypeOK
<1>2. c \in Calls /\ Roles(c) /\ ~Holds(c)
  BY SentinelAssumption DEF IdleCall, Calls, Phases, Jobs, Policies, Roles, Holds, Installing, Restoring
<1>3. UNCHANGED Rest /\ (Onward(p, c) \/ Onward(p, IdleCall))
  BY <1>1 DEF Abort, Onward, Rest, gates, host, past, counts, IInv, TypeOK, IdleCall
<1> QED
  BY <1>1, <1>2, <1>3, RestKept, GoesOn, Ends

LEMMA AcquireKeeps ==
  ASSUME IInv, NEW p \in Procs, Acquire(p)
  PROVE  Kept(p)
<1> DEFINE c == [call[p] EXCEPT !.pc = "locked"]
<1>1. call[p] \in Calls /\ call[p].pc = "planned" /\ Roles(call[p])
  BY DEF Acquire, At, IInv, TypeOK, Phase
<1>2. \/ Onward(p, c) /\ lock \in {Free, Stale} /\ lock' = p
      \/ Onward(p, [call[p] EXCEPT !.pc = "abort"]) /\ UNCHANGED lock
  BY <1>1 DEF Acquire, Goto, Onward, gates, past, IInv, TypeOK
<1>3. UNCHANGED Rest
  BY DEF Acquire, Rest, host, past, counts
<1>4. c \in Calls /\ Roles(c) /\ Relies(c)
  BY <1>1 DEF Calls, Phases, Roles, Relies, Compares, Installing, Restoring, Completing, Confirming
<1> QED
  BY <1>2, <1>3, <1>4, RestKept, GoesOn, Ends

LEMMA Counted ==
  ASSUME IInv
  PROVE  /\ CountCall => calls' \in 0..MaxCalls
         /\ CountFault => faults' \in 0..MaxFaults
BY InitializationAssumption DEF IInv, TypeOK, CountCall, CountFault, InitializationAssumption

LEMMA RetainKeeps ==
  ASSUME IInv, NEW p \in Procs, Retain(p)
  PROVE  Kept(p)
<1>1. call[p] \in Calls /\ call[p].epoch \in Nat
  BY DEF IInv, TypeOK, Calls
<1>2. binding' \in [Runs -> Bindings \union {None}]
  <2>1. CASE Closed \/ receipt = None
    BY <2>1 DEF Retain, IInv, TypeOK
  <2>2. CASE ~(Closed \/ receipt = None)
    <3>1. [op |-> receipt.op, epoch |-> call[p].epoch + 1] \in Bindings
      BY <1>1, <2>2 DEF IInv, TypeOK, Receipts, Bindings
    <3> QED
      BY <2>2, <3>1 DEF Retain, IInv, TypeOK
  <2> QED
    BY <2>1, <2>2
<1>3. RestOK' /\ UNCHANGED lock
  BY <1>2 DEF Retain, RestOK, Checking, IInv, TypeOK, host, past, counts
<1>4. Onward(p, IdleCall)
  BY DEF Retain, Onward, gates, past
<1> QED
  BY <1>3, <1>4, Ends

LEMMA FailKeeps ==
  ASSUME IInv, NEW p \in Procs, Fail(p)
  PROVE  Kept(p)
<1> DEFINE c(ph) == [call[p] EXCEPT !.pc = ph]
<1>1. call[p] \in Calls /\ Phase(p) /\ Roles(call[p])
  BY DEF IInv, TypeOK, Phase
<1>2. \/ Onward(p, IdleCall) \/ Onward(p, c("abort"))
      \/ Onward(p, c("fence")) /\ call[p].pc = "quick"
      \/ Onward(p, c("giveUp")) /\ call[p].pc \in Fencing
  BY <1>1 DEF Fail, Goto, At, Onward, gates, past, IInv, TypeOK, IdleCall, Fencing
<1>3. RestOK' /\ UNCHANGED lock
  BY Counted DEF Fail, RestOK, IInv, TypeOK, Checking, host, past
<1>4. ASSUME call[p].pc = "quick"
      PROVE  c("fence") \in Calls /\ Roles(c("fence")) /\ ~Holds(c("fence"))
  BY <1>1, <1>4 DEF Calls, Phases, Roles, Holds, Installing, Restoring
<1> QED
  BY <1>1, <1>2, <1>3, <1>4, Fences, Ends, GoesOn DEF Fencing

LEMMA CrashKeeps ==
  ASSUME IInv, NEW p \in Procs, Crash(p)
  PROVE  Kept(p)
<1>1. RestOK'
  BY Counted DEF Crash, RestOK, IInv, TypeOK, Checking, host, past
<1>2. Onward(p, IdleCall) /\ (lock' = lock \/ (lock = p /\ lock' = Stale))
  BY DEF Crash, Onward, gates, past
<1> QED
  BY <1>1, <1>2, Ends

LEMMA BeginRollbackKeeps ==
  ASSUME IInv, NEW p \in Procs, NEW pl \in archive, BeginRollback(p, pl)
  PROVE  Kept(p)
<1> DEFINE c == [IdleCall EXCEPT !.pc = "planned", !.job = "rollback", !.plan = pl]
<1>1. c.pc = "planned" /\ c.job = "rollback" /\ c.plan = pl
  BY DEF IdleCall
<1>2. pl \in Plans /\ c \in Calls
  BY SentinelAssumption DEF IdleCall, Calls, Phases, Jobs, Policies, IInv, TypeOK
<1>3. Onward(p, c) /\ UNCHANGED lock
  BY DEF BeginRollback, Onward, gates, past
<1>4. RestOK'
  BY Counted DEF BeginRollback, RestOK, IInv, TypeOK, Checking, host, past
<1> HIDE DEF c
<1>5. Roles(c) /\ ~Holds(c)
  BY <1>1, <1>2 DEF Roles, Holds, Installing, Restoring
<1> QED
  BY <1>2, <1>3, <1>4, <1>5, GoesOn

LEMMA BeginRevokeKeeps ==
  ASSUME IInv, NEW p \in Procs, NEW r \in Runs \union {None}, BeginRevoke(p, r)
  PROVE  Kept(p)
<1> DEFINE c == [IdleCall EXCEPT !.pc = "readEpoch", !.job = "revoke", !.retain = r]
<1>1. c.pc = "readEpoch" /\ c.job = "revoke"
  BY DEF IdleCall
<1>2. c \in Calls
  BY SentinelAssumption DEF IdleCall, Calls, Phases, Jobs, Policies
<1>3. Onward(p, c) /\ UNCHANGED lock
  BY DEF BeginRevoke, Onward, gates, past
<1>4. RestOK'
  BY Counted DEF BeginRevoke, RestOK, IInv, TypeOK, Checking, host, past
<1> HIDE DEF c
<1>5. Roles(c) /\ ~Holds(c)
  BY <1>1, <1>2 DEF Roles, Holds, Installing, Restoring
<1> QED
  BY <1>2, <1>3, <1>4, <1>5, GoesOn

LEMMA NewPlanIsAPlan ==
  ASSUME IInv, ops < MaxOps
  PROVE  NewPlan \in Plans
<1>1. ops + 1 \in 1..MaxOps
  BY InitializationAssumption DEF IInv, TypeOK, InitializationAssumption
<1>2. \A t \in Targets : files[t] \in Texts /\ Missing \in Texts
  BY InitializationAssumption DEF IInv, TypeOK, InitializationAssumption
<1> QED
  BY <1>1, <1>2 DEF NewPlan, Plans, IInv, TypeOK

LEMMA BeginInitializeKeeps ==
  ASSUME IInv, NEW p \in Procs, BeginInitialize(p)
  PROVE  Kept(p)
<1> DEFINE c(phase, j, pl) == [IdleCall EXCEPT !.pc = phase, !.job = j, !.plan = pl]
<1>1. PICK phase \in {"abort", "planned", "quick"}, j \in {"install", "quick"}, pl \in Plans \union {None} :
        /\ call' = [call EXCEPT ![p] = c(phase, j, pl)]
        /\ phase = "quick" => j = "quick"
        /\ phase = "planned" => j = "install" /\ pl \in Plans
        /\ ops' \in 0..MaxOps
  <2>1. ops < MaxOps => ops + 1 \in 0..MaxOps /\ NewPlan \in Plans
    BY NewPlanIsAPlan, InitializationAssumption DEF IInv, TypeOK, InitializationAssumption
  <2>2. ops \in 0..MaxOps /\ (pending # None => pending \in Plans)
    BY DEF IInv, TypeOK
  <2> QED
    BY <2>1, <2>2 DEF BeginInitialize, Closed
<1>2. c(phase, j, pl).pc = phase /\ c(phase, j, pl).job = j /\ c(phase, j, pl).plan = pl
  BY DEF IdleCall
<1>3. c(phase, j, pl) \in Calls
  BY SentinelAssumption DEF IdleCall, Calls, Phases, Jobs, Policies
<1>4. Onward(p, c(phase, j, pl)) /\ UNCHANGED lock
  BY <1>1 DEF BeginInitialize, Onward, gates, past
<1>5. RestOK'
  BY <1>1, Counted DEF BeginInitialize, RestOK, IInv, TypeOK, Checking, host, past
<1>6. Roles(c(phase, j, pl)) /\ ~Holds(c(phase, j, pl))
  BY <1>1, <1>2 DEF Roles, Holds, Installing, Restoring
<1> QED
  BY <1>3, <1>4, <1>5, <1>6, GoesOn

-----------------------------------------------------------------------------
(* Steps of the call that has the lock *)

SharedOK ==
  /\ files \in [Targets -> Texts] /\ name \in Names /\ source \in Revisions
  /\ fenced \in BOOLEAN /\ pending \in Plans \union {None} /\ undoing \in Plans \union {None}
  /\ receipt \in Receipts \union {None} /\ archive \subseteq Plans
  /\ touched \in Touches /\ edited \subseteq Targets

LEMMA Works ==
  ASSUME IInv, NEW p \in Procs, NEW c \in Calls, Quiet \/ Holds(call[p]), Holds(c) => Holds(call[p]),
         call' = [call EXCEPT ![p] = c], UNCHANGED lock, UNCHANGED Rest,
         SharedOK', archive \subseteq archive',
         Roles(c)', Holds(c) => Relies(c)', OpenMeansInstalled'
  PROVE  Kept(p)
<1>1. call' \in [Procs -> Calls] /\ call'[p] = c /\ \A q \in Procs \ {p} : call'[q] = call[q]
  BY DEF IInv, TypeOK
<1>2. RestOK'
  BY RestKept
<1>3. TypeOK' /\ Checking'
  BY <1>1, <1>2 DEF IInv, TypeOK, RestOK, SharedOK
<1>4. Holds(c) => lock = p
  BY DEF IInv, Phase
<1>5. Roles(call[p])' /\ (Holds(call[p])' => Relies(call[p])')
  BY <1>1 DEF Roles, Holds, Relies, Replaced
<1>6. Phase(p)' /\ Frame(p)
  BY <1>1, <1>4, <1>5 DEF Phase, Frame
<1> QED
  BY <1>3, <1>6 DEF Kept

LEMMA ClosedIsFine ==
  ASSUME Closed'
  PROVE  OpenMeansInstalled'
BY DEF OpenMeansInstalled

LEMMA ArchiveKeeps ==
  ASSUME IInv, NEW p \in Procs, Archive(p)
  PROVE  Kept(p)
<1>1. call[p] \in Calls /\ Phase(p) /\ call[p].pc = "archive" /\ call[p].job = "install"
  BY DEF Archive, Step, At, IInv, TypeOK, Phase, Roles, Installing
<1>2. Holds(call[p]) /\ call[p].plan \in Plans /\ fenced
  BY <1>1 DEF Holds, Phase, Relies
<1>3. PICK c : c = [call[p] EXCEPT !.pc = "pend"]
  OBVIOUS
<1>4. c \in Calls /\ c.pc = "pend" /\ c.job = "install" /\ c.plan = call[p].plan
  BY <1>1, <1>3 DEF Calls, Phases
<1>5. call' = [call EXCEPT ![p] = c] /\ UNCHANGED lock /\ UNCHANGED Rest
  BY <1>1, <1>3 DEF Archive, Step, Goto, Rest, host, past, counts, IInv, TypeOK
<1>6. SharedOK' /\ archive \subseteq archive' /\ c.plan \in archive' /\ fenced' = fenced
  BY <1>2, <1>4 DEF Archive, SharedOK, IInv, TypeOK, gates, past
<1>7. Roles(c)' /\ Relies(c)'
  BY <1>2, <1>4, <1>6 DEF Roles, Relies, Compares, Installing, Restoring, Completing, Confirming
<1>8. OpenMeansInstalled'
  BY StaysInstalled DEF IInv, Archive, Quiet, Closed, gates, past
<1> QED
  BY <1>2, <1>4, <1>5, <1>6, <1>7, <1>8, Works

LEMMA PendKeeps ==
  ASSUME IInv, NEW p \in Procs, Pend(p)
  PROVE  Kept(p)
<1>1. call[p] \in Calls /\ Phase(p) /\ call[p].pc = "pend" /\ call[p].job = "install"
  BY DEF Pend, At, IInv, TypeOK, Phase, Roles, Installing
<1>2. Holds(call[p]) /\ call[p].plan \in Plans /\ call[p].plan \in archive /\ fenced
  BY <1>1 DEF Holds, Phase, Relies
<1>3. PICK c : c = [call[p] EXCEPT !.pc = "write", !.todo = Changes(call[p].plan), !.look = None]
  OBVIOUS
<1>4. c \in Calls /\ c.pc = "write" /\ c.job = "install" /\ c.plan = call[p].plan
      /\ c.todo = Changes(c.plan) /\ c.look = None
  BY <1>1, <1>3 DEF Calls, Phases, Changes, Managed
<1>5. call' = [call EXCEPT ![p] = c] /\ UNCHANGED lock /\ UNCHANGED Rest
  BY <1>1, <1>3 DEF Pend, Rest, host, past, counts, IInv, TypeOK
<1>6. /\ SharedOK' /\ archive' = archive /\ pending' = c.plan /\ fenced' = fenced
      /\ touched' = [op |-> c.plan.op, job |-> "install"]
  <2>1. [op |-> call[p].plan.op, job |-> "install"] \in Touches
    BY <1>2, InitializationAssumption DEF Touches, Plans, InitializationAssumption
  <2> QED
    BY <1>2, <1>4, <2>1 DEF Pend, SharedOK, IInv, TypeOK
<1>7. Replaced(c)'
  BY <1>4 DEF Replaced
<1>8. Roles(c)' /\ Relies(c)'
  BY <1>2, <1>4, <1>6, <1>7 DEF Roles, Relies, Compares, Installing, Restoring, Completing, Confirming
<1>9. OpenMeansInstalled'
  BY <1>2, <1>4, <1>6, ClosedIsFine, SentinelAssumption DEF Closed, SentinelAssumption
<1> QED
  BY <1>2, <1>4, <1>5, <1>6, <1>8, <1>9, Works

LEMMA InspectTargetKeeps ==
  ASSUME IInv, NEW p \in Procs, NEW t \in Targets, InspectTarget(p, t)
  PROVE  Kept(p)
<1>1. /\ call[p] \in Calls /\ Phase(p) /\ call[p].pc = "write" /\ call[p].job = "install"
      /\ t \in call[p].todo
  BY DEF InspectTarget, At, IInv, TypeOK, Phase, Roles, Installing
<1>2. Holds(call[p]) /\ Relies(call[p])
  BY <1>1 DEF Holds, Phase
<1>3. CASE InPlace(p, t) /\ files[t] = After(call[p].plan, t)
  <2>1. PICK c : c = [call[p] EXCEPT !.todo = @ \ {t}]
    OBVIOUS
  <2>2. c \in Calls /\ c.pc = "write" /\ c.job = "install" /\ c.plan = call[p].plan
        /\ c.todo = call[p].todo \ {t} /\ c.look = None
    BY <1>1, <2>1 DEF Calls, InspectTarget
  <2>3. call' = [call EXCEPT ![p] = c] /\ UNCHANGED lock /\ UNCHANGED Rest
    BY <1>1, <1>3, <2>1 DEF InspectTarget, InPlace, Rest, host, counts, IInv, TypeOK
  <2>5. edited' = edited \ {t} /\ archive' = archive
        /\ UNCHANGED <<files, name, source, fenced, pending, undoing, receipt, touched>>
    BY <1>3 DEF InspectTarget, InPlace, gates
  <2>6. SharedOK'
    BY <2>5 DEF SharedOK, IInv, TypeOK
  <2>7. Replaced(c)'
    BY <1>1, <1>2, <1>3, <2>2, <2>5 DEF Replaced, Relies, After, Changes, Managed
  <2>8. Roles(c)' /\ Relies(c)'
    BY <1>1, <1>2, <2>2, <2>5, <2>7 DEF Roles, Relies, Compares, Installing, Restoring, Completing, Confirming,
       Changes, Managed
  <2>9. OpenMeansInstalled'
    BY <1>1, <1>2, <2>5, ClosedIsFine, SentinelAssumption DEF Relies, Closed, SentinelAssumption
  <2> QED
    BY <1>2, <2>2, <2>3, <2>5, <2>6, <2>8, <2>9, Works
<1>4. CASE ToReplace(p, t) /\ files[t] = call[p].plan.before[t]
  <2>1. PICK c : c = [call[p] EXCEPT !.look = [target |-> t, text |-> files[t]]]
    OBVIOUS
  <2>2. [target |-> t, text |-> files[t]] \in Looks
    BY DEF Looks, IInv, TypeOK
  <2>3. /\ c \in Calls /\ c.pc = "write" /\ c.job = "install" /\ c.plan = call[p].plan
        /\ c.todo = call[p].todo /\ c.look = [target |-> t, text |-> files[t]]
    BY <1>1, <2>1, <2>2 DEF Calls
  <2>4. Onward(p, c) /\ UNCHANGED lock /\ UNCHANGED Rest
    BY <1>1, <1>4, <2>1 DEF InspectTarget, ToReplace, Onward, Rest, gates, host, counts, IInv, TypeOK
  <2>5. Compares(c)
    BY <1>1, <1>4, <2>3 DEF Compares
  <2>6. Replaced(c)
    BY <1>1, <1>2, <2>3 DEF Replaced, Relies
  <2>7. Roles(c) /\ Relies(c) /\ lock = p
    BY <1>1, <1>2, <2>3, <2>5, <2>6 DEF Phase, Roles, Relies, Installing, Restoring, Completing, Confirming
  <2> QED
    BY <2>3, <2>4, <2>7, RestKept, GoesOn
<1>5. CASE Goto(p, "abort") /\ UNCHANGED edited
  <2>1. Onward(p, [call[p] EXCEPT !.pc = "abort"]) /\ UNCHANGED lock /\ UNCHANGED Rest
    BY <1>1, <1>5 DEF InspectTarget, Goto, Onward, Rest, gates, host, counts, IInv, TypeOK
  <2> QED
    BY <2>1, RestKept, Ends
<1> QED
  BY <1>3, <1>4, <1>5 DEF InspectTarget

LEMMA ApplyIdentityKeeps ==
  ASSUME IInv, NEW p \in Procs, ApplyIdentity(p)
  PROVE  Kept(p)
<1>1. call[p] \in Calls /\ Phase(p) /\ call[p].pc = "rename" /\ call[p].job = "install"
  BY DEF ApplyIdentity, At, IInv, TypeOK, Phase, Roles, Installing
<1>2. Holds(call[p]) /\ Relies(call[p])
  BY <1>1 DEF Holds, Phase
<1>3. PICK c : c = [call[p] EXCEPT !.pc = "verify"]
  OBVIOUS
<1>4. c \in Calls /\ c.pc = "verify" /\ c.job = "install" /\ c.plan = call[p].plan /\ c.todo = call[p].todo
  BY <1>1, <1>3 DEF Calls, Phases
<1>5. UNCHANGED lock /\ UNCHANGED Rest
  BY DEF ApplyIdentity, Rename, Rest, host, past, counts
<1>6. \/ call' = [call EXCEPT ![p] = c] /\ name' = Identity[c.plan.rev]
      \/ Onward(p, [call[p] EXCEPT !.pc = "abort"])
  BY <1>1, <1>3, <1>4 DEF ApplyIdentity, Rename, Goto, Onward, gates, past, IInv, TypeOK
<1>7. ASSUME call' = [call EXCEPT ![p] = c], name' = Identity[c.plan.rev]
      PROVE  Kept(p)
  <2>1. UNCHANGED <<files, source, fenced, pending, undoing, receipt, archive, touched, edited>>
    BY DEF ApplyIdentity, Rename, gates, past
  <2>2. c.plan \in Plans /\ name' \in Names
    BY <1>2, <1>4, <1>7, InitializationAssumption DEF Relies, Plans, InitializationAssumption
  <2>3. SharedOK'
    BY <2>1, <2>2 DEF SharedOK, IInv, TypeOK
  <2>4. Replaced(c)'
    BY <1>1, <1>2, <1>4, <2>1 DEF Replaced, Relies, Completing, After, Changes, Managed
  <2>5. Roles(c)' /\ Relies(c)'
    BY <1>1, <1>2, <1>4, <1>7, <2>1, <2>4 DEF Roles, Relies, Compares, Installing, Restoring, Completing, Confirming
  <2>6. OpenMeansInstalled'
    BY <1>1, <1>2, <2>1, <2>2, <1>4, ClosedIsFine, SentinelAssumption
    DEF Relies, Completing, Closed, SentinelAssumption
  <2> QED
    BY <1>2, <1>4, <1>5, <1>7, <2>1, <2>3, <2>5, <2>6, Works
<1> QED
  BY <1>5, <1>6, <1>7, RestKept, Ends

LEMMA WriteReceiptKeeps ==
  ASSUME IInv, NEW p \in Procs, WriteReceipt(p)
  PROVE  Kept(p)
<1>1. call[p] \in Calls /\ Phase(p) /\ call[p].pc = "receipt" /\ call[p].job = "install"
  BY DEF WriteReceipt, Step, At, IInv, TypeOK, Phase, Roles, Installing
<1>2. Holds(call[p]) /\ Relies(call[p])
  BY <1>1 DEF Holds, Phase
<1>3. PICK c : c = [call[p] EXCEPT !.pc = "release"]
  OBVIOUS
<1>4. c \in Calls /\ c.pc = "release" /\ c.job = "install" /\ c.plan = call[p].plan /\ c.todo = call[p].todo
  BY <1>1, <1>3 DEF Calls, Phases
<1>5. /\ UNCHANGED lock /\ UNCHANGED Rest /\ call' = [call EXCEPT ![p] = c]
      /\ UNCHANGED <<files, name, source, fenced, pending, undoing, archive, touched, edited>>
      /\ receipt' = [op |-> c.plan.op, rev |-> c.plan.rev]
  BY <1>1, <1>3, <1>4 DEF WriteReceipt, Step, Goto, Rest, gates, host, past, counts, IInv, TypeOK
<1>6. c.plan \in Plans /\ receipt' \in Receipts
  BY <1>2, <1>4, <1>5 DEF Relies, Plans, Receipts
<1>7. SharedOK'
  BY <1>5, <1>6 DEF SharedOK, IInv, TypeOK
<1>8. Replaced(c)'
  BY <1>1, <1>2, <1>4, <1>5 DEF Replaced, Relies, Completing, After, Changes, Managed
<1>9. Roles(c)' /\ Relies(c)'
  BY <1>1, <1>2, <1>4, <1>5, <1>8 DEF Roles, Relies, Compares, Installing, Restoring, Completing, Confirming
<1>10. OpenMeansInstalled'
  BY <1>1, <1>2, <1>4, <1>5, <1>6, ClosedIsFine, SentinelAssumption
  DEF Relies, Completing, Closed, SentinelAssumption
<1> QED
  BY <1>2, <1>4, <1>5, <1>7, <1>9, <1>10, Works

LEMMA UnfenceKeeps ==
  ASSUME IInv, NEW p \in Procs, Unfence(p)
  PROVE  Kept(p) /\ Closed'
<1>1. call[p] \in Calls /\ Phase(p) /\ call[p].pc = "unfence" /\ call[p].job = "install"
  BY DEF Unfence, Step, At, IInv, TypeOK, Phase, Roles, Installing
<1>2. Holds(call[p]) /\ Relies(call[p])
  BY <1>1 DEF Holds, Phase
<1>3. PICK c : c = [call[p] EXCEPT !.pc = "unpend"]
  OBVIOUS
<1>4. c \in Calls /\ c.pc = "unpend" /\ c.job = "install" /\ c.plan = call[p].plan /\ c.todo = call[p].todo
  BY <1>1, <1>3 DEF Calls, Phases
<1>5. /\ UNCHANGED lock /\ UNCHANGED Rest /\ call' = [call EXCEPT ![p] = c]
      /\ UNCHANGED <<files, name, source, pending, undoing, receipt, archive, touched, edited>>
      /\ fenced' = FALSE
  BY <1>1, <1>3, <1>4 DEF Unfence, Step, Goto, Rest, host, past, counts, IInv, TypeOK
<1>6. SharedOK'
  BY <1>5 DEF SharedOK, IInv, TypeOK
<1>7. Replaced(c)'
  BY <1>1, <1>2, <1>4, <1>5 DEF Replaced, Relies, Completing, Confirming, After, Changes, Managed
<1>8. Roles(c)' /\ Relies(c)'
  BY <1>1, <1>2, <1>4, <1>5, <1>7 DEF Roles, Relies, Compares, Installing, Restoring, Completing, Confirming
<1>9. Closed' /\ OpenMeansInstalled'
  BY <1>1, <1>2, <1>5, ClosedIsFine, SentinelAssumption
  DEF Relies, Completing, Confirming, Closed, SentinelAssumption
<1> QED
  BY <1>2, <1>4, <1>5, <1>6, <1>8, <1>9, Works

LEMMA UnpendKeeps ==
  ASSUME IInv, NEW p \in Procs, Unpend(p)
  PROVE  /\ Kept(p)
         /\ receipt # None /\ touched = [op |-> receipt.op, job |-> "install"]
         /\ Intact(receipt) \/ edited # {}
<1>1. call[p] \in Calls /\ Phase(p) /\ call[p].pc = "unpend" /\ call[p].job = "install"
  BY DEF Unpend, Step, At, IInv, TypeOK, Phase, Roles, Installing
<1>2. Holds(call[p]) /\ Relies(call[p])
  BY <1>1 DEF Holds, Phase
<1>3. PICK c : c = [call[p] EXCEPT !.pc = "unlock"]
  OBVIOUS
<1>4. c \in Calls /\ c.pc = "unlock" /\ c.job = "install" /\ c.plan = call[p].plan
  BY <1>1, <1>3 DEF Calls, Phases
<1>5. /\ UNCHANGED lock /\ UNCHANGED Rest /\ call' = [call EXCEPT ![p] = c]
      /\ UNCHANGED <<files, name, source, fenced, undoing, receipt, archive, touched, edited>>
      /\ pending' = None
  BY <1>1, <1>3, <1>4 DEF Unpend, Step, Goto, Rest, host, past, counts, IInv, TypeOK
<1>6. SharedOK'
  BY <1>5 DEF SharedOK, IInv, TypeOK
<1>7. Roles(c)' /\ Relies(c)'
  BY <1>2, <1>4, <1>5 DEF Roles, Relies, Compares, Installing, Restoring, Completing, Confirming
<1>8. /\ receipt = [op |-> c.plan.op, rev |-> c.plan.rev] /\ c.plan \in Plans
      /\ touched = [op |-> c.plan.op, job |-> "install"] /\ name = Identity[c.plan.rev] /\ call[p].todo = {} /\ Replaced(call[p])
  BY <1>1, <1>2, <1>4 DEF Relies, Completing, Confirming
<1>9. \A t \in Managed(receipt.rev) \ edited : files[t] = Recipe[receipt.rev][t]
  BY <1>4, <1>8 DEF Replaced, Changes, After
<1>10. receipt # None /\ OpenMeansInstalled'
  BY <1>5, <1>8, <1>9, SentinelAssumption DEF OpenMeansInstalled, Managed, SentinelAssumption, Receipts, Plans
<1>11. edited = {} => Intact(receipt)
  BY <1>8, <1>9 DEF Intact
<1> QED
  BY <1>2, <1>4, <1>5, <1>6, <1>7, <1>8, <1>10, <1>11, Works

\* A rollback works behind the fence from its mark to its end.
LEMMA RollsBack ==
  ASSUME IInv, NEW p \in Procs, call[p].pc \in Restoring \union {"mark"}
  PROVE  /\ call[p] \in Calls /\ call[p].job = "rollback" /\ Holds(call[p]) /\ Relies(call[p])
         /\ call[p].plan \in archive /\ fenced
<1>1. call[p] \in Calls /\ Phase(p)
  BY DEF IInv, TypeOK
<1>2. call[p].job = "rollback" /\ Holds(call[p]) /\ call[p].plan \in archive
  BY <1>1 DEF Phase, Roles, Holds, Restoring
<1> QED
  BY <1>1, <1>2 DEF Phase, Relies, Restoring

\* One of its steps.
LEMMA Undoes ==
  ASSUME IInv, NEW p \in Procs, call[p].pc \in Restoring \union {"mark"}, NEW c \in Calls,
         call' = [call EXCEPT ![p] = c], UNCHANGED <<lock, fenced, archive>>, UNCHANGED Rest, SharedOK',
         c.job = "rollback", c.plan = call[p].plan, c.pc \in Restoring \union {"unlock"},
         c.pc \in Restoring => undoing' = c.plan, c.pc = "restore" => c.todo \subseteq Changes(c.plan),
         c.pc = "restore" => Compares(c)'
  PROVE  Kept(p)
<1>1. /\ call[p].job = "rollback" /\ Holds(call[p]) /\ Relies(call[p])
      /\ call[p].plan \in archive /\ fenced
  BY RollsBack
<1>2. Roles(c)' /\ Relies(c)'
  BY <1>1 DEF Roles, Relies, Compares, Installing, Restoring, Completing, Confirming, Changes, Managed
<1>3. OpenMeansInstalled'
  BY <1>1, ClosedIsFine DEF Closed
<1> QED
  BY <1>1, <1>2, <1>3, Works

LEMMA MarkRollbackKeeps ==
  ASSUME IInv, NEW p \in Procs, MarkRollback(p)
  PROVE  Kept(p)
<1>1. call[p] \in Calls /\ call[p].pc = "mark" /\ call[p].job = "rollback" /\ call[p].plan \in Plans
  BY RollsBack DEF MarkRollback, At, Relies
<1>2. PICK c : c = [call[p] EXCEPT !.pc = "restore", !.todo = Changes(call[p].plan), !.look = None]
  OBVIOUS
<1>3. /\ c \in Calls /\ c.pc = "restore" /\ c.job = "rollback" /\ c.plan = call[p].plan
      /\ c.todo \subseteq Changes(c.plan) /\ c.look = None
  BY <1>1, <1>2 DEF Calls, Phases, Changes, Managed
<1>4. /\ call' = [call EXCEPT ![p] = c] /\ UNCHANGED <<lock, fenced, archive>> /\ UNCHANGED Rest
      /\ undoing' = c.plan
  BY <1>1, <1>2, <1>3 DEF MarkRollback, Rest, host, past, counts, IInv, TypeOK
<1>5. SharedOK'
  <2>1. [op |-> call[p].plan.op, job |-> "rollback"] \in Touches
    BY <1>1, InitializationAssumption DEF Touches, Plans, InitializationAssumption
  <2> QED
    BY <1>1, <1>3, <1>4, <2>1 DEF MarkRollback, SharedOK, IInv, TypeOK
<1> QED
  BY <1>1, <1>3, <1>4, <1>5, Undoes DEF Restoring, Compares

LEMMA InspectRestoredKeeps ==
  ASSUME IInv, NEW p \in Procs, NEW t \in Targets, InspectRestored(p, t)
  PROVE  Kept(p)
<1>1. call[p].pc = "restore" /\ t \in call[p].todo
  BY DEF InspectRestored, At
<1>2. call[p] \in Calls /\ call[p].job = "rollback" /\ Relies(call[p])
  BY <1>1, RollsBack DEF Restoring
<1>3. /\ call[p].plan \in Plans /\ undoing = call[p].plan /\ call[p].todo \subseteq Changes(call[p].plan)
  BY <1>1, <1>2 DEF Relies, Restoring
<1>4. CASE InPlace(p, t)
  <2>1. PICK c : c = [call[p] EXCEPT !.todo = @ \ {t}]
    OBVIOUS
  <2>2. c \in Calls /\ c.pc = "restore" /\ c.job = "rollback" /\ c.plan = call[p].plan
        /\ c.todo \subseteq Changes(c.plan) /\ c.look = None
    BY <1>1, <1>2, <1>3, <2>1 DEF Calls, InspectRestored
  <2>3. call' = [call EXCEPT ![p] = c] /\ UNCHANGED <<lock, fenced, undoing, archive>> /\ UNCHANGED Rest
    BY <1>2, <1>4, <2>1 DEF InspectRestored, InPlace, Rest, gates, host, counts, IInv, TypeOK
  <2>4. SharedOK'
    BY <1>4 DEF InspectRestored, InPlace, SharedOK, IInv, TypeOK, gates
  <2>5. Compares(c)'
    BY <2>2 DEF Compares
  <2> QED
    BY <1>1, <1>3, <2>2, <2>3, <2>4, <2>5, Undoes DEF Restoring
<1>5. CASE ToReplace(p, t) /\ files[t] \in {call[p].plan.before[t], After(call[p].plan, t)}
  <2>1. PICK c : c = [call[p] EXCEPT !.look = [target |-> t, text |-> files[t]]]
    OBVIOUS
  <2>2. [target |-> t, text |-> files[t]] \in Looks
    BY DEF Looks, IInv, TypeOK
  <2>3. /\ c \in Calls /\ c.pc = "restore" /\ c.job = "rollback" /\ c.plan = call[p].plan
        /\ c.todo = call[p].todo /\ c.look = [target |-> t, text |-> files[t]]
    BY <1>1, <1>2, <2>1, <2>2 DEF Calls
  <2>4. /\ call' = [call EXCEPT ![p] = c] /\ UNCHANGED <<lock, fenced, undoing, archive, files, edited>>
        /\ UNCHANGED Rest
    BY <1>2, <1>5, <2>1 DEF InspectRestored, ToReplace, Rest, gates, host, counts, IInv, TypeOK
  <2>5. SharedOK'
    BY <2>4 DEF InspectRestored, SharedOK, IInv, TypeOK, gates
  <2>6. Compares(c)'
    BY <1>1, <1>5, <2>3, <2>4 DEF Compares, After
  <2> QED
    BY <1>1, <1>3, <2>3, <2>4, <2>5, <2>6, Undoes DEF Restoring
<1>6. CASE Goto(p, "abort") /\ UNCHANGED edited
  <2>1. Onward(p, [call[p] EXCEPT !.pc = "abort"]) /\ UNCHANGED lock /\ UNCHANGED Rest
    BY <1>2, <1>6 DEF InspectRestored, Goto, Onward, Rest, gates, host, counts, IInv, TypeOK
  <2> QED
    BY <2>1, RestKept, Ends
<1> QED
  BY <1>4, <1>5, <1>6 DEF InspectRestored

\* The text a call puts in the place of what it looked at.
LEMMA ReplaceTargetKeeps ==
  ASSUME IInv, NEW p \in Procs, ReplaceTarget(p)
  PROVE  Kept(p)
<1>1. call[p] \in Calls /\ Phase(p) /\ call[p].pc \in {"write", "restore"} /\ call[p].look # None
  BY DEF ReplaceTarget, IInv, TypeOK
<1>2. Holds(call[p]) /\ Relies(call[p]) /\ call[p].plan \in Plans
  BY <1>1 DEF Phase, Roles, Holds, Relies, Installing, Restoring
<1>3. PICK t \in Targets : t = call[p].look.target
  BY <1>1 DEF Calls, Looks
<1>4. CASE Goto(p, "abort") /\ UNCHANGED <<files, edited>>
  <2>1. Onward(p, [call[p] EXCEPT !.pc = "abort"]) /\ UNCHANGED lock /\ UNCHANGED Rest
    BY <1>1, <1>4 DEF ReplaceTarget, Goto, Onward, Rest, gates, host, counts, IInv, TypeOK
  <2> QED
    BY <2>1, RestKept, Ends
<1>5. PICK c : c = [call[p] EXCEPT !.todo = @ \ {t}, !.look = None]
  OBVIOUS
<1>6. /\ c \in Calls /\ c.pc = call[p].pc /\ c.job = call[p].job /\ c.plan = call[p].plan
      /\ c.todo = call[p].todo \ {t} /\ c.look = None
  BY <1>1, <1>5 DEF Calls
<1>7. ASSUME NEW text \in Texts, files' = [files EXCEPT ![t] = text], edited' = edited \ {t},
             call' = [call EXCEPT ![p].todo = @ \ {t}, ![p].look = None],
             call[p].pc = "write" => text = After(call[p].plan, t)
      PROVE  Kept(p)
  <2>1. call' = [call EXCEPT ![p] = c] /\ UNCHANGED lock /\ UNCHANGED Rest
    BY <1>1, <1>5, <1>7 DEF ReplaceTarget, Rest, host, counts, IInv, TypeOK
  <2>2. archive' = archive /\ UNCHANGED <<name, source, fenced, pending, undoing, receipt, touched>>
    BY DEF ReplaceTarget, gates
  <2>3. SharedOK'
    BY <1>7, <2>2 DEF SharedOK, IInv, TypeOK
  <2>4. Compares(c)'
    BY <1>6 DEF Compares
  <2>5. CASE call[p].pc = "write"
    <3>1. call[p].job = "install"
      BY <1>1, <2>5 DEF Phase, Roles, Installing
    <3>2. Replaced(c)'
      BY <1>2, <1>6, <1>7, <2>5, <3>1 DEF Replaced, Relies, After, IInv, TypeOK, Changes, Managed
    <3>3. Roles(c)' /\ Relies(c)'
      BY <1>1, <1>2, <1>6, <2>2, <2>4, <2>5, <3>1, <3>2 DEF Roles, Relies, Installing, Restoring, Completing,
         Confirming, Changes, Managed
    <3>4. OpenMeansInstalled'
      BY <1>2, <2>2, <2>5, <3>1, ClosedIsFine, SentinelAssumption DEF Relies, Closed, SentinelAssumption
    <3> QED
      BY <1>2, <1>6, <2>1, <2>2, <2>3, <3>3, <3>4, Works
  <2>6. CASE call[p].pc = "restore"
    <3>1. call[p].job = "rollback" /\ undoing = call[p].plan /\ call[p].todo \subseteq Changes(call[p].plan)
      BY <1>1, <1>2, <2>6 DEF Phase, Roles, Relies, Restoring
    <3> QED
      BY <1>6, <2>1, <2>2, <2>3, <2>4, <2>6, <3>1, Undoes DEF Restoring
  <2> QED
    BY <1>1, <2>5, <2>6
<1>8. After(call[p].plan, t) \in Texts /\ call[p].plan.before[t] \in Texts
  BY <1>2, InitializationAssumption DEF After, Plans, InitializationAssumption
<1> QED
  BY <1>1, <1>3, <1>4, <1>7, <1>8 DEF ReplaceTarget, At

LEMMA RestoreIdentityKeeps ==
  ASSUME IInv, NEW p \in Procs, RestoreIdentity(p)
  PROVE  Kept(p)
<1>1. call[p].pc = "unname"
  BY DEF RestoreIdentity, At
<1>2. call[p] \in Calls /\ call[p].job = "rollback" /\ Relies(call[p])
  BY <1>1, RollsBack DEF Restoring
<1>3. PICK c : c = [call[p] EXCEPT !.pc = "unreceipt"]
  OBVIOUS
<1>4. c \in Calls /\ c.pc = "unreceipt" /\ c.job = "rollback" /\ c.plan = call[p].plan
  BY <1>2, <1>3 DEF Calls, Phases
<1>5. UNCHANGED <<lock, fenced, undoing, archive>> /\ UNCHANGED Rest
  BY DEF RestoreIdentity, Rename, Rest, gates, host, past, counts
<1>6. \/ call' = [call EXCEPT ![p] = c] /\ name' = call[p].plan.name
      \/ Onward(p, [call[p] EXCEPT !.pc = "abort"])
  BY <1>2, <1>3 DEF RestoreIdentity, Rename, Goto, Onward, gates, past, IInv, TypeOK
<1>7. call[p].plan.name \in Names /\ undoing = call[p].plan
  BY <1>1, <1>2 DEF Relies, Restoring, Plans
<1>8. name' = call[p].plan.name => SharedOK'
  BY <1>7 DEF RestoreIdentity, Rename, SharedOK, IInv, TypeOK, gates, past
<1> QED
  BY <1>1, <1>4, <1>5, <1>6, <1>7, <1>8, RestKept, Ends, Undoes DEF Restoring

LEMMA RestoreReceiptKeeps ==
  ASSUME IInv, NEW p \in Procs, RestoreReceipt(p)
  PROVE  Kept(p)
<1>1. call[p].pc = "unreceipt"
  BY DEF RestoreReceipt, Step, At
<1>2. call[p] \in Calls /\ call[p].job = "rollback" /\ Relies(call[p])
  BY <1>1, RollsBack DEF Restoring
<1>3. PICK c : c = [call[p] EXCEPT !.pc = "unpendUndone"]
  OBVIOUS
<1>4. c \in Calls /\ c.pc = "unpendUndone" /\ c.job = "rollback" /\ c.plan = call[p].plan
  BY <1>2, <1>3 DEF Calls, Phases
<1>5. call' = [call EXCEPT ![p] = c] /\ UNCHANGED <<lock, fenced, undoing, archive>> /\ UNCHANGED Rest
  BY <1>2, <1>3 DEF RestoreReceipt, Step, Goto, Rest, gates, host, past, counts, IInv, TypeOK
<1>6. call[p].plan.prev \in Receipts \union {None} /\ undoing = call[p].plan
  BY <1>1, <1>2 DEF Relies, Restoring, Plans
<1>7. SharedOK'
  BY <1>6 DEF RestoreReceipt, SharedOK, IInv, TypeOK, gates, past
<1> QED
  BY <1>1, <1>4, <1>5, <1>6, <1>7, Undoes DEF Restoring

LEMMA UnpendUndoneKeeps ==
  ASSUME IInv, NEW p \in Procs, UnpendUndone(p)
  PROVE  Kept(p) /\ fenced'
<1>1. call[p].pc = "unpendUndone"
  BY DEF UnpendUndone, Step, At
<1>2. call[p] \in Calls /\ call[p].job = "rollback" /\ Relies(call[p]) /\ fenced
  BY <1>1, RollsBack DEF Restoring
<1>3. PICK c : c = [call[p] EXCEPT !.pc = "unmark"]
  OBVIOUS
<1>4. c \in Calls /\ c.pc = "unmark" /\ c.job = "rollback" /\ c.plan = call[p].plan
  BY <1>2, <1>3 DEF Calls, Phases
<1>5. call' = [call EXCEPT ![p] = c] /\ UNCHANGED <<lock, fenced, undoing, archive>> /\ UNCHANGED Rest
  BY <1>2, <1>3 DEF UnpendUndone, Step, Goto, Rest, host, past, counts, IInv, TypeOK
<1>6. undoing = call[p].plan
  BY <1>1, <1>2 DEF Relies, Restoring
<1>7. SharedOK'
  BY DEF UnpendUndone, SharedOK, IInv, TypeOK, past
<1> QED
  BY <1>1, <1>2, <1>4, <1>5, <1>6, <1>7, Undoes DEF Restoring

LEMMA UnmarkKeeps ==
  ASSUME IInv, NEW p \in Procs, Unmark(p)
  PROVE  Kept(p) /\ fenced'
<1>1. call[p].pc = "unmark"
  BY DEF Unmark, Step, At
<1>2. call[p] \in Calls /\ call[p].job = "rollback" /\ fenced
  BY <1>1, RollsBack DEF Restoring
<1>3. PICK c : c = [call[p] EXCEPT !.pc = "unlock"]
  OBVIOUS
<1>4. c \in Calls /\ c.pc = "unlock" /\ c.job = "rollback" /\ c.plan = call[p].plan
  BY <1>2, <1>3 DEF Calls, Phases
<1>5. call' = [call EXCEPT ![p] = c] /\ UNCHANGED <<lock, fenced, archive>> /\ UNCHANGED Rest
  BY <1>2, <1>3 DEF Unmark, Step, Goto, Rest, host, past, counts, IInv, TypeOK
<1>6. SharedOK'
  BY DEF Unmark, SharedOK, IInv, TypeOK, past
<1> QED
  BY <1>1, <1>2, <1>4, <1>5, <1>6, Undoes DEF Restoring

LEMMA RaiseFenceKeeps ==
  ASSUME IInv, NEW p \in Procs, RaiseFence(p)
  PROVE  Kept(p) /\ fenced'
<1>1. call[p] \in Calls /\ Phase(p) /\ call[p].pc = "fence"
  BY DEF RaiseFence, Step, At, IInv, TypeOK
<1>2. PICK c : c = [call[p] EXCEPT !.pc = "readEpoch"]
  OBVIOUS
<1>3. c \in Calls /\ c.pc = "readEpoch" /\ c.job = call[p].job /\ c.plan = call[p].plan
  BY <1>1, <1>2 DEF Calls, Phases
<1>4. /\ UNCHANGED lock /\ UNCHANGED Rest /\ call' = [call EXCEPT ![p] = c]
      /\ UNCHANGED <<files, name, source, pending, undoing, receipt, archive, touched, edited>>
      /\ fenced' = TRUE
  BY <1>1, <1>2 DEF RaiseFence, Step, Goto, Rest, host, past, counts, IInv, TypeOK
<1>5. SharedOK' /\ Quiet
  BY <1>4 DEF SharedOK, Quiet, IInv, TypeOK
<1>6. Holds(c) => Holds(call[p])
  BY <1>1, <1>3 DEF Holds
<1>7. Roles(c)'
  BY <1>1, <1>3, <1>4 DEF Phase, Roles, Installing, Restoring
<1>8. Holds(c) => Relies(c)'
  BY <1>1, <1>3, <1>4, <1>6 DEF Phase, Relies, Compares, Installing, Restoring, Completing, Confirming
<1>9. OpenMeansInstalled'
  BY <1>4, ClosedIsFine DEF Closed
<1> QED
  BY <1>3, <1>4, <1>5, <1>6, <1>7, <1>8, <1>9, Works

-----------------------------------------------------------------------------
(* Steps of the owner and of the runs *)

\* Nothing of the installation changes, but for edits of the owner.
LEMMA Bystanders ==
  ASSUME IInv, UNCHANGED <<call, lock, archive, fenced, pending, undoing, receipt, name, touched>>,
         edited \subseteq edited', \A t \in Targets \ edited' : files'[t] = files[t],
         TypeOK', Checking'
  PROVE  IInv'
<1>1. ASSUME NEW p \in Procs PROVE Phase(p)'
  <2>1. Phase(p)
    BY DEF IInv
  <2>2. Replaced(call[p]) => Replaced(call[p])'
    BY DEF Replaced, After, Changes, Managed
  <2>3. call[p] \in Calls
    BY DEF IInv, TypeOK
  <2>4. Compares(call[p]) => Compares(call[p])'
    BY <2>3 DEF Compares, After, Calls
  <2> QED
    BY <2>1, <2>2, <2>4 DEF Phase, Roles, Holds, Relies, Changes, Managed
<1>2. OpenMeansInstalled'
  BY DEF IInv, OpenMeansInstalled, Closed, Managed
<1> QED
  BY <1>1, <1>2 DEF IInv

LEMMA OwnerEditsKeeps ==
  ASSUME IInv, NEW e \in Edits, OwnerEdits(e)
  PROVE  IInv'
<1>1. e[1] \in Targets /\ e[2] \in Texts
  BY InitializationAssumption DEF InitializationAssumption
<1>2. TypeOK' /\ Checking'
  BY <1>1, Counted DEF OwnerEdits, IInv, TypeOK, Checking, gates, host
<1>3. \A t \in Targets \ edited' : files'[t] = files[t]
  BY <1>1 DEF OwnerEdits, IInv, TypeOK
<1> QED
  BY <1>2, <1>3, Bystanders DEF OwnerEdits, gates

LEMMA PointerMovesKeeps ==
  ASSUME IInv, NEW v \in Revisions, PointerMoves(v)
  PROVE  IInv'
<1>1. TypeOK' /\ Checking'
  BY Counted DEF PointerMoves, IInv, TypeOK, Checking, gates, host, past
<1> QED
  BY <1>1, Bystanders DEF PointerMoves, gates, past

LEMMA RunStepKeeps ==
  ASSUME IInv, NEW r \in Runs, RunStep(r)
  PROVE  IInv'
<1>1. /\ check[r] \in Checks /\ touched \in Touches /\ epoch \in Nat
      /\ receipt \in Receipts \union {None} /\ check \in [Runs -> Checks]
      /\ binding \in [Runs -> Bindings \union {None}]
  BY DEF IInv, TypeOK
<1>2. UNCHANGED <<call, lock, archive, fenced, pending, undoing, receipt, name, files, edited, source,
                  journal, tools, epoch, touched, overwritten, ops, calls, faults>>
  BY DEF RunStep, BeginCheck, ReadCurrent, ReadRunEpoch, Bind, AssertRun, Act, gates, host, past, counts
<1>3. Current => receipt \in Receipts
  BY <1>1 DEF Current, IsFor
<1>4. binding' \in [Runs -> Bindings \union {None}]
  <2>1. CASE Bind(r)
    <3>1. check[r].saw \in Receipts
      BY <2>1 DEF Bind, IInv, Checking
    <3>2. Expected(r) \in Bindings
      BY <1>1, <3>1 DEF Expected, Receipts, Bindings, Checks
    <3> QED
      BY <1>1, <2>1, <3>2 DEF Bind
  <2>2. CASE ~Bind(r)
    BY <1>1, <2>2 DEF RunStep, BeginCheck, ReadCurrent, ReadRunEpoch, AssertRun, Act
  <2> QED
    BY <2>1, <2>2
<1>5. PICK k : check' = [check EXCEPT ![r] = k] /\ k \in Checks
               /\ (k.pc \in {"epoch", "compare"} => k.saw \in Receipts)
  <2>1. CASE \E want \in {"bind", "check"} : BeginCheck(r, want)
    <3>1. PICK want \in {"bind", "check"} : BeginCheck(r, want)
      BY <2>1
    <3> DEFINE k == [check[r] EXCEPT !.pc = "current", !.want = want]
    <3>2. check' = [check EXCEPT ![r] = k] /\ k \in Checks /\ k.pc = "current"
      BY <1>1, <3>1 DEF BeginCheck, Checks
    <3> HIDE DEF k
    <3> QED
      BY <3>2
  <2>2. CASE ReadCurrent(r)
    <3> DEFINE k == [check[r] EXCEPT !.pc = IF Current THEN "epoch" ELSE "idle",
                                     !.saw = IF Current THEN receipt ELSE None, !.started = touched]
    <3>1. check' = [check EXCEPT ![r] = k] /\ k \in Checks
      BY <1>1, <1>3, <2>2 DEF ReadCurrent, Checks
    <3>2. k.pc \in {"epoch", "compare"} => k.saw \in Receipts
      BY <1>1, <1>3 DEF Checks
    <3> HIDE DEF k
    <3> QED
      BY <3>1, <3>2
  <2>3. CASE ReadRunEpoch(r)
    <3> DEFINE k == [check[r] EXCEPT !.pc = "compare", !.epoch = epoch]
    <3>1. check' = [check EXCEPT ![r] = k] /\ k \in Checks
      BY <1>1, <2>3 DEF ReadRunEpoch, Checks
    <3>2. k.saw \in Receipts
      BY <1>1, <2>3 DEF ReadRunEpoch, IInv, Checking, Checks
    <3> HIDE DEF k
    <3> QED
      BY <3>1, <3>2
  <2>4. CASE check' = [check EXCEPT ![r].pc = "passed"]
    <3> DEFINE k == [check[r] EXCEPT !.pc = "passed"]
    <3>1. check' = [check EXCEPT ![r] = k] /\ k \in Checks /\ k.pc = "passed"
      BY <1>1, <2>4 DEF Checks
    <3> HIDE DEF k
    <3> QED
      BY <3>1
  <2>5. CASE EndCheck(r)
    <3>1. IdleCheck \in Checks /\ IdleCheck.pc = "idle"
      BY InitializationAssumption DEF IdleCheck, Untouched, Checks, Touches, InitializationAssumption
    <3> QED
      BY <2>5, <3>1 DEF EndCheck
  <2>6. Bind(r) \/ AssertRun(r) \/ Act(r) =>
          check' = [check EXCEPT ![r].pc = "passed"] \/ EndCheck(r)
    BY DEF Bind, AssertRun, Act
  <2> QED
    BY <2>1, <2>2, <2>3, <2>4, <2>5, <2>6 DEF RunStep
<1>6. check' \in [Runs -> Checks]
  BY <1>1, <1>5
<1>7. Checking'
  BY <1>1, <1>5 DEF IInv, Checking
<1>8. TypeOK'
  BY <1>2, <1>4, <1>6 DEF IInv, TypeOK
<1> QED
  BY <1>2, <1>7, <1>8, Bystanders

-----------------------------------------------------------------------------
(* The invariant *)

LEMMA Initially == Init => IInv
<1> SUFFICES ASSUME Init PROVE IInv
  OBVIOUS
<1>1. /\ Missing \in Texts /\ InitFiles \in [Targets -> Texts] /\ InitName \in Names
      /\ InitRevision \in Revisions /\ 1 \in 1..MaxOps /\ 0 \in 0..MaxOps /\ 1 \in 0..MaxOps
      /\ 0 \in 0..MaxCalls /\ 0 \in 0..MaxFaults
      /\ Identity[InitRevision] \in Names /\ Recipe[InitRevision] \in [Targets -> Texts]
  BY InitializationAssumption DEF InitializationAssumption
<1>2. IdleCheck \in Checks /\ Untouched \in Touches /\ IdleCheck.pc = "idle"
  BY <1>1 DEF IdleCheck, Checks, Touches, Untouched
<1>3. /\ files \in [Targets -> Texts] /\ name \in Names /\ receipt \in Receipts \union {None}
      /\ archive \subseteq Plans /\ epoch \in Nat /\ touched \in Touches /\ ops \in 0..MaxOps
      /\ receipt # None => /\ \A t \in Managed(receipt.rev) : files[t] = Recipe[receipt.rev][t]
                           /\ name = Identity[receipt.rev]
  <2>1. CASE Fresh
    BY <1>1, <1>2, <2>1 DEF Fresh
  <2>2. CASE Installed
    <3> DEFINE pl == [op |-> 1, rev |-> InitRevision, name |-> InitName, prev |-> None,
                      before |-> [t \in Targets |-> IF t \in Managed(InitRevision) THEN InitFiles[t] ELSE Missing]]
    <3>1. pl \in Plans /\ [op |-> 1, rev |-> InitRevision] \in Receipts
          /\ [op |-> 1, job |-> "install"] \in Touches
      BY <1>1 DEF Plans, Receipts, Touches
    <3>2. /\ files = [t \in Targets |-> IF t \in Managed(InitRevision) THEN Recipe[InitRevision][t] ELSE InitFiles[t]]
          /\ archive = {pl} /\ epoch = 1 /\ ops = 1 /\ name = Identity[InitRevision]
          /\ receipt = [op |-> 1, rev |-> InitRevision] /\ touched = [op |-> 1, job |-> "install"]
      BY <2>2 DEF Installed, After
    <3>3. files \in [Targets -> Texts]
      BY <1>1, <3>2
    <3> HIDE DEF pl
    <3> QED
      BY <1>1, <3>1, <3>2, <3>3 DEF Managed
  <2> QED
    BY <2>1, <2>2 DEF Init
<1>4. TypeOK
  BY <1>1, <1>2, <1>3, IdleIsFree DEF Init, TypeOK, Policies
<1>5. Checking
  BY <1>2 DEF Init, Checking
<1>6. \A p \in Procs : Phase(p)
  BY IdleIsFree DEF Init, Phase
<1>7. OpenMeansInstalled
  BY <1>3 DEF Init, OpenMeansInstalled
<1> QED
  BY <1>4, <1>5, <1>6, <1>7 DEF IInv

LEMMA ProgressKeeps ==
  ASSUME IInv, NEW p \in Procs, Progress(p)
  PROVE  Kept(p)
BY AcquireKeeps, InspectApplyKeeps, ArchiveKeeps, PendKeeps, InspectTargetKeeps, ReplaceTargetKeeps, InspectRestoredKeeps,
   CheckWrittenKeeps, ApplyIdentityKeeps, VerifyKeeps, WriteReceiptKeeps, UnfenceKeeps, UnpendKeeps,
   InspectRollbackKeeps, MarkRollbackKeeps, CheckRestoredKeeps, RestoreIdentityKeeps,
   RestoreReceiptKeeps, UnpendUndoneKeeps, UnmarkKeeps, RaiseFenceKeeps, ReadEpochKeeps, BumpKeeps,
   DrainKeeps, IsolateKeeps, NoteProfileKeeps, DenyToolsKeeps, IsolatedKeeps, RestoreProfileKeeps,
   ForgetProfileKeeps, QuickVerifiedKeeps, ReadyKeeps, UnlockKeeps, AbortKeeps, RetainKeeps
DEF Progress

LEMMA Steps == IInv /\ [Next]_vars => IInv'
<1> SUFFICES ASSUME IInv, [Next]_vars PROVE IInv'
  OBVIOUS
<1>1. ASSUME NEW p \in Procs, Kept(p) PROVE IInv'
  <2>1. \A q \in Procs \ {p} : Phase(q)'
    BY <1>1, OthersKeep DEF Kept, IInv
  <2> QED
    BY <1>1, <2>1 DEF Kept, IInv
<1>2. CASE \E p \in Procs :
             \/ BeginInitialize(p)
             \/ (\E pl \in archive : BeginRollback(p, pl))
             \/ (\E r \in Runs \union {None} : BeginRevoke(p, r))
             \/ Progress(p) \/ Fail(p) \/ Crash(p)
  BY <1>1, <1>2, BeginInitializeKeeps, BeginRollbackKeeps, BeginRevokeKeeps, ProgressKeeps,
     FailKeeps, CrashKeeps
<1>3. CASE \E r \in Runs : RunStep(r)
  BY <1>3, RunStepKeeps
<1>4. CASE \E e \in Edits : OwnerEdits(e)
  BY <1>4, OwnerEditsKeeps
<1>5. CASE \E v \in Revisions : PointerMoves(v)
  BY <1>5, PointerMovesKeeps
<1>6. CASE UNCHANGED vars
  <2>1. TypeOK' /\ Checking'
    BY <1>6 DEF IInv, TypeOK, Checking, vars, gates, host, past, counts
  <2> QED
    BY <1>6, <2>1, Bystanders DEF vars, gates, past
<1> QED
  BY <1>2, <1>3, <1>4, <1>5, <1>6 DEF Next

\* Every reachable state is well typed, for any calls, runs, revisions and files.
THEOREM InitializationTypes == Spec => []TypeOK
<1>1. IInv => TypeOK
  BY DEF IInv
<1> QED
  BY <1>1, Initially, Steps, PTL DEF Spec

\* Whenever the gate is open, the files and the identity are what the receipt says, the owner's
\* edits excepted, whatever was interrupted, resumed or rolled back before.
THEOREM OpenIsInstalled == Spec => []OpenMeansInstalled
<1>1. IInv => OpenMeansInstalled
  BY DEF IInv
<1> QED
  BY <1>1, Initially, Steps, PTL DEF Spec

-----------------------------------------------------------------------------
(* What a step may never do *)

\* The gate changes only in these steps.
LEMMA GateStays ==
  ASSUME NEW p \in Procs, Progress(p), ~UNCHANGED gates
  PROVE  RaiseFence(p) \/ Pend(p) \/ Unfence(p) \/ Unpend(p) \/ MarkRollback(p)
         \/ UnpendUndone(p) \/ Unmark(p)
BY DEF Progress, Acquire, InspectApply, Archive, InspectTarget, InspectRestored, InPlace, ToReplace, ReplaceTarget, CheckWritten,
  ApplyIdentity, Rename, Verify, WriteReceipt, InspectRollback, CheckRestored, RestoreIdentity,
  RestoreReceipt, ReadEpoch, Bump, Drain, Isolate, NoteProfile, DenyTools, Isolated,
  RestoreProfile, ForgetProfile, QuickVerified, Ready, Unlock, Abort, Retain

LEMMA UnpendOpens ==
  ASSUME IInv, [Next]_vars, Closed, ~Closed'
  PROVE  \E p \in Procs : Unpend(p)
<1>1. ~UNCHANGED gates
  BY DEF Closed, gates
<1>2. \E p \in Procs : Progress(p)
  BY <1>1 DEF Next, BeginInitialize, BeginRollback, BeginRevoke, Fail, Crash, RunStep, BeginCheck,
     ReadCurrent, ReadRunEpoch, Bind, AssertRun, Act, OwnerEdits, PointerMoves, vars
<1>3. PICK p \in Procs : Progress(p)
  BY <1>2
<1>4. MarkRollback(p) => Closed'
  <2>1. MarkRollback(p) => fenced /\ fenced' = fenced
    BY RollsBack DEF MarkRollback, At
  <2> QED
    BY <2>1 DEF Closed
<1>5. Pend(p) => Closed'
  <2>1. ASSUME Pend(p) PROVE call[p].plan \in Plans
    BY <2>1 DEF Pend, At, IInv, Phase, Roles, Holds, Relies, Installing
  <2> QED
    BY <2>1, SentinelAssumption DEF Pend, Closed, SentinelAssumption
<1>6. Unpend(p)
  BY <1>1, <1>3, <1>4, <1>5, GateStays, UnfenceKeeps, UnpendUndoneKeeps, UnmarkKeeps, RaiseFenceKeeps
  DEF Closed
<1> QED
  BY <1>6

LEMMA OpensInstalled ==
  ASSUME IInv, [Next]_vars, Closed, ~Closed'
  PROVE  /\ receipt # None /\ touched = [op |-> receipt.op, job |-> "install"]
         /\ Intact(receipt) \/ edited # {}
BY UnpendOpens, UnpendKeeps

\* The gate opens only when the installation last set about is complete: its own receipt is there,
\* and no rollback, overtaken call or crash opens it.
THEOREM OpenedByInstallation == Spec => OnlyInstallationOpens
<1>1. IInv /\ [Next]_vars =>
        [Closed /\ ~Closed' =>
           /\ receipt # None /\ touched = [op |-> receipt.op, job |-> "install"]
           /\ Intact(receipt) \/ edited # {}]_vars
  BY OpensInstalled
<1> QED
  BY <1>1, Initially, Steps, PTL DEF Spec, OnlyInstallationOpens

\* The files change only in these steps.
LEMMA FilesStay ==
  ASSUME NEW p \in Procs, Progress(p), ~UNCHANGED files
  PROVE  ReplaceTarget(p)
BY DEF Progress, Acquire, InspectApply, Archive, Pend, InspectTarget, InspectRestored, InPlace, ToReplace,
  CheckWritten, ApplyIdentity, Rename, Verify, WriteReceipt, Unfence, Unpend, InspectRollback,
  MarkRollback, CheckRestored, RestoreIdentity, RestoreReceipt, UnpendUndone, Unmark, RaiseFence,
  ReadEpoch, Bump, Drain, Isolate, NoteProfile, DenyTools, Isolated, RestoreProfile, ForgetProfile,
  QuickVerified, Ready, Unlock, Abort, Retain

LEMMA KeepsOriginals ==
  ASSUME IInv, [Next]_vars, NEW t \in Targets, files'[t] # files[t], t \notin edited'
  PROVE  Keeps(t, files[t]) \/ Overtaken(t)
<1>1. ~UNCHANGED files
  OBVIOUS
<1>2. CASE \E e \in Edits : OwnerEdits(e)
  <2>1. PICK e \in Edits : OwnerEdits(e)
    BY <1>2
  <2>2. e[1] # t
    BY <2>1 DEF OwnerEdits
  <2> QED
    BY <2>1, <2>2 DEF OwnerEdits, IInv, TypeOK
<1>3. CASE ~\E e \in Edits : OwnerEdits(e)
  <2>0. \E p \in Procs : Progress(p)
    BY <1>1, <1>3 DEF Next, BeginInitialize, BeginRollback, BeginRevoke, Fail, Crash, RunStep, BeginCheck,
       ReadCurrent, ReadRunEpoch, Bind, AssertRun, Act, PointerMoves, vars
  <2>1. PICK p \in Procs : ReplaceTarget(p)
    BY <1>1, <2>0, FilesStay
  <2>2. /\ call[p] \in Calls /\ call[p].pc \in {"write", "restore"} /\ call[p].look # None
        /\ call[p].look.target = t
    BY <1>1, <2>1 DEF ReplaceTarget, IInv, TypeOK
  <2>3. Phase(p) /\ Holds(call[p]) /\ Relies(call[p])
    BY <2>2 DEF IInv, Phase, Roles, Holds, Installing, Restoring
  <2>4. call[p].plan \in archive
    BY <2>2, <2>3 DEF Phase, Roles, Relies, Installing, Restoring
  <2>5. /\ t \in Changes(call[p].plan)
        /\ call[p].look.text \in {call[p].plan.before[t], After(call[p].plan, t)}
        /\ files[t] = call[p].look.text \/ t \in edited
    BY <2>2, <2>3 DEF Relies, Compares
  <2>6. Keeps(t, call[p].look.text)
    BY <2>4, <2>5 DEF Keeps
  <2> QED
    BY <2>2, <2>5, <2>6 DEF Overtaken
<1> QED
  BY <1>2, <1>3

\* No text is replaced that no archived plan keeps, so that every original can be restored, but for
\* what the owner saves between the comparison of a target and its replacement.
THEOREM OriginalsSurvive == Spec => OriginalsAreKept
<1>1. IInv /\ [Next]_vars =>
        [\A t \in Targets :
           files'[t] # files[t] /\ t \notin edited' => Keeps(t, files[t]) \/ Overtaken(t)]_vars
  BY KeepsOriginals
<1> QED
  BY <1>1, Initially, Steps, PTL DEF Spec, OriginalsAreKept

-----------------------------------------------------------------------------
(* Revocations are final *)

\* A run a correction will admit has no binding, is in no check, and has that correction alone.
Awaiting(p) ==
  call[p].retain # None =>
    /\ binding[call[p].retain] = None /\ check[call[p].retain].pc = "idle"
    /\ \A q \in Procs \ {p} : call[q].retain # call[p].retain

RInv == IInv /\ \A p \in Procs : Awaiting(p)

\* Only a correction's last step binds a run here.
LEMMA BindingStays ==
  ASSUME NEW p \in Procs, Progress(p), ~UNCHANGED <<binding, check>>
  PROVE  Retain(p)
BY DEF Progress, Acquire, InspectApply, Archive, Pend, InspectTarget, InspectRestored, InPlace, ToReplace, ReplaceTarget, CheckWritten,
  ApplyIdentity, Rename, Verify, WriteReceipt, Unfence, Unpend, InspectRollback, MarkRollback,
  CheckRestored, RestoreIdentity, RestoreReceipt, UnpendUndone, Unmark, RaiseFence, ReadEpoch, Bump,
  Drain, Isolate, NoteProfile, DenyTools, Isolated, RestoreProfile, ForgetProfile, QuickVerified,
  Ready, Unlock, Abort

\* The epoch changes only when it is written.
LEMMA EpochStays ==
  ASSUME NEW p \in Procs, Progress(p), ~UNCHANGED epoch
  PROVE  Bump(p)
BY DEF Progress, Acquire, InspectApply, Archive, Pend, InspectTarget, InspectRestored, InPlace, ToReplace, ReplaceTarget, CheckWritten,
  ApplyIdentity, Rename, Verify, WriteReceipt, Unfence, Unpend, InspectRollback, MarkRollback,
  CheckRestored, RestoreIdentity, RestoreReceipt, UnpendUndone, Unmark, RaiseFence, ReadEpoch,
  Drain, Isolate, NoteProfile, DenyTools, Isolated, RestoreProfile, ForgetProfile, QuickVerified,
  Ready, Unlock, Abort, Retain

\* No step under way takes another run to admit.
Faithful(p) == \A q \in Procs : call'[q].retain \in {call[q].retain, None}

LEMMA RetainStays ==
  ASSUME NEW p \in Procs, call \in [Procs -> Calls], Progress(p) \/ Fail(p) \/ Crash(p)
  PROVE  Faithful(p)
<1>1. ASSUME NEW ph, Goto(p, ph) PROVE Faithful(p)
  BY <1>1 DEF Goto, Faithful, Calls
<1>2. ASSUME call' = [call EXCEPT ![p] = IdleCall] PROVE Faithful(p)
  BY <1>2 DEF IdleCall, Faithful, Calls
<1>3. ASSUME NEW td, call' = [call EXCEPT ![p].todo = td] PROVE Faithful(p)
  BY <1>3 DEF Faithful, Calls
<1>4. ASSUME NEW ph, NEW td,
             call' = [call EXCEPT ![p] = [@ EXCEPT !.pc = ph, !.todo = td, !.look = None]]
      PROVE  Faithful(p)
  BY <1>4 DEF Faithful, Calls
<1>5. ASSUME NEW ph, NEW td, call' = [call EXCEPT ![p].pc = ph, ![p].tools = td] PROVE Faithful(p)
  BY <1>5 DEF Faithful, Calls
<1>6. ASSUME NEW ph, NEW td, call' = [call EXCEPT ![p].pc = ph, ![p].resumed = td] PROVE Faithful(p)
  BY <1>6 DEF Faithful, Calls
<1>7. ASSUME NEW ph, NEW td, call' = [call EXCEPT ![p].pc = ph, ![p].epoch = td] PROVE Faithful(p)
  BY <1>7 DEF Faithful, Calls
<1>8. ASSUME NEW c, c.retain = None, call' = [call EXCEPT ![p] = c] PROVE Faithful(p)
  BY <1>8 DEF Faithful
<1>9. ASSUME NEW ph, NEW j, call' = [call EXCEPT ![p] = [@ EXCEPT !.pc = ph, !.job = j]] PROVE Faithful(p)
  BY <1>9 DEF Faithful, Calls
<1>10. CASE InspectApply(p) \/ InspectRollback(p)
  BY <1>6, <1>10 DEF InspectApply, InspectRollback
<1>11. CASE Pend(p) \/ MarkRollback(p)
  BY <1>4, <1>11 DEF Pend, MarkRollback
<1>12. CASE (\E t \in Targets : InspectTarget(p, t) \/ InspectRestored(p, t)) \/ ReplaceTarget(p)
  <2>1. ASSUME NEW td, NEW lk, call' = [call EXCEPT ![p].todo = td, ![p].look = lk] PROVE Faithful(p)
    BY <2>1 DEF Faithful, Calls
  <2>2. ASSUME NEW lk, call' = [call EXCEPT ![p].look = lk] PROVE Faithful(p)
    BY <2>2 DEF Faithful, Calls
  <2> QED
    BY <1>1, <1>3, <1>12, <2>1, <2>2 DEF InspectTarget, InspectRestored, InPlace, ToReplace, ReplaceTarget
<1>13. CASE ReadEpoch(p)
  BY <1>7, <1>13 DEF ReadEpoch
<1>14. CASE Bump(p) \/ Retain(p) \/ Crash(p)
  BY <1>1, <1>2, <1>14 DEF Bump, Retain, Crash
<1>15. CASE Isolate(p) \/ Isolated(p) \/ RestoreProfile(p)
  <2>1. IsolationFails(p) => Faithful(p)
    <3>1. IsolationFails(p) => call' = [call EXCEPT ![p] = IdleCall] \/ Goto(p, "giveUp")
      BY DEF IsolationFails, Goto
    <3> QED
      BY <1>1, <1>2, <3>1
  <2> QED
    BY <1>1, <1>5, <1>15, <2>1 DEF Isolate, Isolated, RestoreProfile
<1>16. CASE Ready(p)
  <2>1. call' = [call EXCEPT ![p] = IdleCall] \/ call' = [call EXCEPT ![p] = [@ EXCEPT !.pc = "release", !.job = "ready"]]
    BY <1>16 DEF Ready
  <2> QED
    BY <1>2, <1>9, <2>1
<1>17. CASE Unlock(p)
  <2>1. call' = [call EXCEPT ![p] = IdleCall] \/ call' = [call EXCEPT ![p] = [IdleCall EXCEPT !.pc = "ready"]]
    BY <1>17 DEF Unlock
  <2>2. [IdleCall EXCEPT !.pc = "ready"].retain = None
    BY DEF IdleCall
  <2> QED
    BY <1>2, <1>8, <2>1, <2>2
<1>18. CASE Abort(p)
  <2>1. [IdleCall EXCEPT !.pc = "isolate", !.job = "start"].retain = None
    BY DEF IdleCall
  <2> QED
    BY <1>2, <1>8, <1>18, <2>1 DEF Abort
<1>19. CASE Fail(p)
  BY <1>1, <1>2, <1>19 DEF Fail
<1>20. CASE QuickVerified(p) \/ Acquire(p) \/ Archive(p) \/ CheckWritten(p) \/ ApplyIdentity(p) \/ Verify(p)
          \/ WriteReceipt(p) \/ Unfence(p) \/ Unpend(p) \/ CheckRestored(p) \/ RestoreIdentity(p)
          \/ RestoreReceipt(p) \/ UnpendUndone(p) \/ Unmark(p) \/ RaiseFence(p) \/ Drain(p)
          \/ NoteProfile(p) \/ DenyTools(p) \/ ForgetProfile(p)
  BY <1>1, <1>20 DEF QuickVerified, Acquire, Archive, CheckWritten, ApplyIdentity, Verify, WriteReceipt, Unfence,
     Unpend, CheckRestored, RestoreIdentity, RestoreReceipt, UnpendUndone, Unmark, RaiseFence, Drain,
     NoteProfile, DenyTools, ForgetProfile, Rename, Step
<1> QED
  BY <1>10, <1>11, <1>12, <1>13, <1>14, <1>15, <1>16, <1>17, <1>18, <1>19, <1>20 DEF Progress

LEMMA BeginsFaithfully ==
  ASSUME NEW p \in Procs, call \in [Procs -> Calls],
         BeginInitialize(p) \/ (\E pl \in archive : BeginRollback(p, pl))
  PROVE  Faithful(p) /\ UNCHANGED <<binding, check>>
<1>0. UNCHANGED <<binding, check>>
  BY DEF BeginInitialize, BeginRollback
<1>1. ASSUME NEW c, c.retain = None, call' = [call EXCEPT ![p] = c] PROVE Faithful(p)
  BY <1>1 DEF Faithful
<1>2. \A ph, j, pl : [IdleCall EXCEPT !.pc = ph, !.job = j, !.plan = pl].retain = None
  BY DEF IdleCall
<1>3. ASSUME BeginInitialize(p) PROVE Faithful(p)
  <2>1. \E ph, j, pl : call' = [call EXCEPT ![p] = [IdleCall EXCEPT !.pc = ph, !.job = j, !.plan = pl]]
    BY <1>3 DEF BeginInitialize
  <2> QED
    BY <1>1, <1>2, <2>1
<1>4. ASSUME NEW pl \in archive, BeginRollback(p, pl) PROVE Faithful(p)
  <2>1. call' = [call EXCEPT ![p] = [IdleCall EXCEPT !.pc = "planned", !.job = "rollback", !.plan = pl]]
    BY <1>4 DEF BeginRollback
  <2> QED
    BY <1>1, <1>2, <2>1
<1> QED
  BY <1>0, <1>3, <1>4

\* A correction binds its own run only.
LEMMA RetainsItsRun ==
  ASSUME NEW p \in Procs, Retain(p), NEW r \in Runs, r # call[p].retain
  PROVE  binding'[r] = binding[r] /\ check'[r] = check[r]
<1>1. CASE Closed \/ receipt = None
  BY <1>1 DEF Retain
<1>2. CASE ~(Closed \/ receipt = None)
  <2>1. \E b : binding' = [binding EXCEPT ![call[p].retain] = b] /\ UNCHANGED check
    BY <1>2 DEF Retain
  <2> QED
    BY <2>1
<1> QED
  BY <1>1, <1>2

LEMMA AwaitingStays ==
  ASSUME RInv, [Next]_vars, NEW p \in Procs
  PROVE  Awaiting(p)'
<1> DEFINE r == call[p].retain
<1>1. /\ call \in [Procs -> Calls] /\ binding \in [Runs -> Bindings \union {None}]
      /\ check \in [Runs -> Checks] /\ Awaiting(p)
  BY DEF RInv, IInv, TypeOK
<1>2. r \in Runs \union {None}
  BY <1>1 DEF Calls
<1>3. ASSUME NEW q \in Procs, Faithful(q),
             r # None /\ call'[p].retain = r => binding'[r] = binding[r] /\ check'[r].pc = check[r].pc
      PROVE  Awaiting(p)'
  BY <1>1, <1>3 DEF Faithful, Awaiting
<1>4. ASSUME NEW q \in Procs, Progress(q) \/ Fail(q) \/ Crash(q) PROVE Awaiting(p)'
  <2>1. Faithful(q)
    BY <1>1, <1>4, RetainStays
  <2>2. ASSUME Retain(q), r # None, call'[p].retain = r
        PROVE  binding'[r] = binding[r] /\ check'[r].pc = check[r].pc
    <3>1. q # p
      BY <1>1, <2>2 DEF Retain, IdleCall
    <3>2. call[q].retain # r
      BY <1>1, <2>2, <3>1 DEF Awaiting
    <3> QED
      BY <1>2, <2>2, <3>2, RetainsItsRun
  <2>3. ~Retain(q) => UNCHANGED <<binding, check>>
    BY <1>4, BindingStays DEF Fail, Crash
  <2> QED
    BY <1>3, <2>1, <2>2, <2>3
<1>5. ASSUME NEW q \in Procs, BeginInitialize(q) \/ (\E pl \in archive : BeginRollback(q, pl))
      PROVE  Awaiting(p)'
  BY <1>1, <1>3, <1>5, BeginsFaithfully
<1>6. ASSUME NEW q \in Procs, NEW u \in Runs \union {None}, BeginRevoke(q, u) PROVE Awaiting(p)'
  <2> DEFINE c == [IdleCall EXCEPT !.pc = "readEpoch", !.job = "revoke", !.retain = u]
  <2>1. c.retain = u
    BY DEF IdleCall
  <2>2. call' = [call EXCEPT ![q] = c] /\ UNCHANGED <<binding, check>>
    BY <1>6 DEF BeginRevoke
  <2>3. u # None => binding[u] = None /\ check[u].pc = "idle" /\ \A x \in Procs : call[x].retain # u
    BY <1>6 DEF BeginRevoke
  <2> HIDE DEF c
  <2> QED
    BY <1>1, <2>1, <2>2, <2>3 DEF Awaiting
<1>7. ASSUME NEW u \in Runs, RunStep(u) PROVE Awaiting(p)'
  <2>1. call' = call
    BY <1>7 DEF RunStep, BeginCheck, ReadCurrent, ReadRunEpoch, Bind, AssertRun, Act
  <2>2. r # None => r # u
    BY <1>1, <1>7 DEF Awaiting, RunStep, BeginCheck, ReadCurrent, ReadRunEpoch, Bind, AssertRun, Act
  <2>3. \A x \in Runs : x # u => binding'[x] = binding[x] /\ check'[x] = check[x]
    BY <1>1, <1>7 DEF RunStep, BeginCheck, ReadCurrent, ReadRunEpoch, Bind, AssertRun, Act, EndCheck
  <2> QED
    BY <1>1, <1>2, <2>1, <2>2, <2>3 DEF Awaiting
<1>8. UNCHANGED <<call, binding, check>> => Awaiting(p)'
  BY <1>1 DEF Awaiting
<1> QED
  BY <1>4, <1>5, <1>6, <1>7, <1>8 DEF Next, OwnerEdits, PointerMoves, vars

LEMMA StaysRetired ==
  ASSUME RInv, [Next]_vars, NEW r \in Runs, binding[r] # None, binding[r].epoch < epoch, ~overwritten'
  PROVE  binding'[r] # None /\ binding'[r].epoch < epoch'
<1>1. /\ call \in [Procs -> Calls] /\ binding \in [Runs -> Bindings \union {None}] /\ epoch \in Nat
      /\ check \in [Runs -> Checks]
  BY DEF RInv, IInv, TypeOK
<1>2. binding'[r] = binding[r]
  <2>1. ASSUME NEW p \in Procs, Retain(p) PROVE binding'[r] = binding[r]
    <3>1. call[p].retain # r
      BY SentinelAssumption DEF RInv, Awaiting, SentinelAssumption
    <3> QED
      BY <2>1, <3>1, RetainsItsRun
  <2>2. ASSUME NEW u \in Runs, RunStep(u) PROVE binding'[r] = binding[r]
    BY <1>1, <2>2 DEF RunStep, BeginCheck, ReadCurrent, ReadRunEpoch, Bind, AssertRun, Act
  <2>3. ASSUME NEW p \in Procs, Progress(p), ~Retain(p) PROVE binding'[r] = binding[r]
    BY <2>3, BindingStays
  <2> QED
    BY <2>1, <2>2, <2>3 DEF Next, BeginInitialize, BeginRollback, BeginRevoke, Fail, Crash,
      OwnerEdits, PointerMoves, vars
<1>3. epoch' = epoch \/ epoch' = epoch + 1
  <2>1. ASSUME NEW p \in Procs, Bump(p) PROVE epoch' = epoch + 1
    BY <2>1 DEF Bump
  <2>2. ASSUME NEW p \in Procs, Progress(p), ~Bump(p) PROVE epoch' = epoch
    BY <2>2, EpochStays
  <2> QED
    BY <2>1, <2>2 DEF Next, BeginInitialize, BeginRollback, BeginRevoke, Fail, Crash,
      OwnerEdits, PointerMoves, vars, RunStep, BeginCheck, ReadCurrent, ReadRunEpoch, Bind, AssertRun, Act
<1>4. binding[r].epoch \in Nat
  BY <1>1 DEF Bindings
<1> QED
  BY <1>1, <1>2, <1>3, <1>4

\* Unless a write of the epoch is lost to a slower one, a retired run stays retired for good,
\* whatever revocations, corrections and new attempts of that run follow.
THEOREM RetiredForGood == Spec => RevocationIsFinal
<1>1. Init => RInv
  BY Initially DEF Init, IdleCall, RInv, Awaiting
<1>2. RInv /\ [Next]_vars => RInv'
  BY Steps, AwaitingStays DEF RInv
<1>3. RInv /\ [Next]_vars =>
        [\A r \in Runs :
           binding[r] # None /\ binding[r].epoch < epoch /\ ~overwritten' =>
             binding'[r] # None /\ binding'[r].epoch < epoch']_vars
  BY StaysRetired
<1> QED
  BY <1>1, <1>2, <1>3, PTL DEF Spec, RevocationIsFinal

-----------------------------------------------------------------------------
(* Runs keep their installation *)

\* The phases of an installation or a rollback from the retirement of the runs to its end.
Engaging ==
  {"drain", "isolate", "note", "deny", "isolated", "mark", "release", "released"}
    \union Installing \union Restoring

Engaged(c) == c.job \in {"install", "rollback"} /\ c.pc \in Engaging

\* What last set about the workspace is the installation that the receipt names.
Attributed == receipt # None => touched = [op |-> receipt.op, job |-> "install"]

LEMMA EngagedIsClosed ==
  ASSUME IInv, NEW p \in Procs, Engaged(call[p])
  PROVE  Closed
<1>1. call[p] \in Calls /\ Holds(call[p]) /\ Relies(call[p])
  BY DEF IInv, TypeOK, Phase, Engaged, Engaging, Holds, Installing, Restoring
<1>2. CASE fenced
  BY <1>2 DEF Closed
<1>3. CASE ~fenced
  <2>1. call[p].job = "install" /\ call[p].pc = "unpend"
    BY <1>1, <1>3 DEF Relies, Engaged, Engaging, Installing, Restoring
  <2>2. pending = call[p].plan /\ call[p].plan \in Plans
    BY <1>1, <2>1 DEF Relies, Completing, Confirming
  <2> QED
    BY <2>2, SentinelAssumption DEF Closed, SentinelAssumption
<1> QED
  BY <1>2, <1>3

\* The receipt, and what last set about the workspace, change only in these steps.
LEMMA HistoryStays ==
  ASSUME NEW p \in Procs, Progress(p), ~UNCHANGED <<touched, receipt>>
  PROVE  Pend(p) \/ MarkRollback(p) \/ WriteReceipt(p) \/ RestoreReceipt(p)
BY DEF Progress, Acquire, InspectApply, Archive, InspectTarget, InspectRestored, InPlace, ToReplace, ReplaceTarget, CheckWritten,
  ApplyIdentity, Rename, Verify, Unfence, Unpend, InspectRollback, CheckRestored, RestoreIdentity,
  UnpendUndone, Unmark, RaiseFence, ReadEpoch, Bump, Drain, Isolate, NoteProfile, DenyTools,
  Isolated, RestoreProfile, ForgetProfile, QuickVerified, Ready, Unlock, Abort, Retain, past

LEMMA EngagedChange ==
  ASSUME IInv, [Next]_vars, ~UNCHANGED <<touched, receipt>>
  PROVE  Closed' /\ \E p \in Procs : Engaged(call[p])
<1>1. \E p \in Procs : Progress(p)
  BY DEF Next, BeginInitialize, BeginRollback, BeginRevoke, Fail, Crash, RunStep, BeginCheck,
     ReadCurrent, ReadRunEpoch, Bind, AssertRun, Act, OwnerEdits, PointerMoves, vars, past
<1>2. PICK p \in Procs : Pend(p) \/ MarkRollback(p) \/ WriteReceipt(p) \/ RestoreReceipt(p)
  BY <1>1, HistoryStays
<1>3. call[p].pc \in {"pend", "receipt"} \/ call[p].pc \in {"mark", "unreceipt"}
  BY <1>2 DEF Pend, MarkRollback, WriteReceipt, RestoreReceipt, Step, At
<1>4. Engaged(call[p])
  BY <1>3 DEF IInv, Phase, Roles, Engaged, Engaging, Installing, Restoring
<1>5. Closed
  BY <1>4, EngagedIsClosed
<1>6. ASSUME NEW q \in Procs, Unpend(q) PROVE FALSE
  BY <1>6 DEF Unpend, past
<1> QED
  BY <1>4, <1>5, <1>6, UnpendOpens

\* Whenever the gate is open, the receipt names what last set about the workspace.
ByTheGate == ~Closed => Attributed

LEMMA ByTheGateStays ==
  ASSUME IInv, ByTheGate, [Next]_vars
  PROVE  ByTheGate'
<1> SUFFICES ASSUME ~Closed' PROVE Attributed'
  BY DEF ByTheGate
<1>1. UNCHANGED <<touched, receipt>>
  BY EngagedChange
<1>2. CASE Closed
  <2>1. PICK p \in Procs : Unpend(p)
    BY <1>2, UnpendOpens
  <2>2. call[p].pc = "unpend" /\ call[p].job = "install" /\ Relies(call[p])
    BY <2>1 DEF Unpend, Step, At, IInv, Phase, Roles, Holds, Installing
  <2>3. /\ receipt = [op |-> call[p].plan.op, rev |-> call[p].plan.rev]
        /\ touched = [op |-> call[p].plan.op, job |-> "install"]
    BY <2>2 DEF Relies, Completing, Confirming
  <2> QED
    BY <1>1, <2>3 DEF Attributed
<1>3. CASE ~Closed
  BY <1>1, <1>3 DEF ByTheGate, Attributed
<1> QED
  BY <1>2, <1>3

\* Where a call of initialize begins.
LEMMA BeginsBefore ==
  ASSUME call \in [Procs -> Calls], NEW p \in Procs, BeginInitialize(p)
  PROVE  call'[p].pc \in {"abort", "planned", "quick"} /\ \A q \in Procs \ {p} : call'[q] = call[q]
<1> DEFINE c(ph, j, pl) == [IdleCall EXCEPT !.pc = ph, !.job = j, !.plan = pl]
<1>1. \E ph \in {"abort", "planned", "quick"} : \E j, pl : call' = [call EXCEPT ![p] = c(ph, j, pl)]
  BY DEF BeginInitialize
<1>2. \A ph, j, pl : c(ph, j, pl).pc = ph
  BY DEF IdleCall
<1> HIDE DEF c
<1>3. PICK ph \in {"abort", "planned", "quick"} : \E j, pl : call' = [call EXCEPT ![p] = c(ph, j, pl)]
  BY <1>1
<1>4. PICK j, pl : call' = [call EXCEPT ![p] = c(ph, j, pl)]
  BY <1>3
<1>5. call'[p] = c(ph, j, pl) /\ \A q \in Procs \ {p} : call'[q] = call[q]
  BY <1>4
<1> QED
  BY <1>2, <1>3, <1>5

\* A call engages only by retiring the runs before it.
LEMMA Engages ==
  ASSUME IInv, [Next]_vars, NEW q \in Procs, Engaged(call[q])', ~Engaged(call[q])
  PROVE  Bump(q)
<1>1. call \in [Procs -> Calls] /\ call[q] \in Calls /\ Roles(call[q])
  BY DEF IInv, TypeOK, Phase
<1>2. call'[q] # call[q]
  BY DEF Engaged
<1>3. ASSUME NEW c, c.pc \notin Engaging \/ c.job \notin {"install", "rollback"}, NEW p \in Procs,
             call' = [call EXCEPT ![p] = c]
      PROVE  FALSE
  BY <1>1, <1>3 DEF Engaged
<1>4. ASSUME NEW p \in Procs, NEW ph, ph \notin Engaging, Goto(p, ph) PROVE FALSE
  BY <1>1, <1>4 DEF Goto, Engaged, Calls
<1>5. call[q].pc \in Engaging => call[q].job \notin {"install", "rollback"}
  BY DEF Engaged
<1>6. ASSUME NEW p \in Procs, Progress(p) PROVE Bump(q)
  <2>1. p = q
    BY <1>2, <1>6, ProgressKeeps DEF Kept, Frame
  <2>2. CASE Acquire(q) \/ RaiseFence(q) \/ QuickVerified(q) \/ Unpend(q) \/ Unmark(q)
    BY <1>4, <2>2 DEF Acquire, RaiseFence, QuickVerified, Unpend, Unmark, Step, Engaging, Installing, Restoring
  <2>3. CASE InspectApply(q) \/ InspectRollback(q) \/ ReadEpoch(q)
    BY <1>1, <2>3 DEF InspectApply, InspectRollback, ReadEpoch, Engaged, Engaging, Installing, Restoring, Calls
  <2>4. CASE Archive(q) \/ Pend(q) \/ (\E t \in Targets : InspectTarget(q, t) \/ InspectRestored(q, t)) \/ ReplaceTarget(q)
             \/ CheckWritten(q) \/ ApplyIdentity(q) \/ Verify(q) \/ WriteReceipt(q) \/ Unfence(q)
             \/ MarkRollback(q) \/ CheckRestored(q) \/ RestoreIdentity(q) \/ RestoreReceipt(q) \/ UnpendUndone(q)
    <3>1. call[q].pc \in Installing \union Restoring \union {"mark"}
      BY <2>4 DEF Archive, Pend, InspectTarget, InspectRestored, InPlace, ToReplace, ReplaceTarget, CheckWritten, ApplyIdentity, Verify, WriteReceipt,
         Unfence, MarkRollback, CheckRestored, RestoreIdentity, RestoreReceipt, UnpendUndone, Step, At,
         Installing, Restoring
    <3> QED
      BY <1>1, <1>5, <3>1 DEF Roles, Engaging, Installing, Restoring
  <2>5. CASE Drain(q) \/ Isolate(q) \/ NoteProfile(q) \/ DenyTools(q) \/ Isolated(q) \/ RestoreProfile(q) \/ ForgetProfile(q)
    <3>1. call'[q].job = call[q].job \/ call'[q].pc = "idle"
      BY <1>1, <2>5 DEF Drain, Isolate, NoteProfile, DenyTools, Isolated, RestoreProfile, ForgetProfile, IsolationFails,
         Goto, Step, IdleCall, Calls
    <3>2. call[q].pc \in Engaging \union {"giveUp", "givenUp"}
      BY <2>5 DEF Drain, Isolate, NoteProfile, DenyTools, Isolated, RestoreProfile, ForgetProfile, Step, At, Engaging
    <3>3. call[q].pc \in {"giveUp", "givenUp"} => call'[q].pc \in {"abort", "givenUp"}
      BY <1>1, <2>5 DEF Drain, Isolate, NoteProfile, DenyTools, Isolated, RestoreProfile, ForgetProfile, AfterRelease,
         Goto, Step, At, Calls
    <3> QED
      BY <1>5, <3>1, <3>2, <3>3 DEF Engaged, Engaging, Installing, Restoring
  <2>6. CASE Ready(q) \/ Unlock(q) \/ Abort(q) \/ Retain(q)
    <3>1. \/ call'[q].pc \in {"idle", "ready"}
          \/ call'[q].job \in {"ready", "start"}
      <4>1. Ready(q) => call'[q] = IdleCall \/ call'[q].job = "ready"
        BY <1>1 DEF Ready, Calls
      <4>2. Unlock(q) => call'[q] = IdleCall \/ call'[q].pc = "ready"
        BY <1>1 DEF Unlock, IdleCall
      <4>3. Abort(q) => call'[q] = IdleCall \/ call'[q].job = "start"
        BY <1>1 DEF Abort, IdleCall
      <4>4. Retain(q) => call'[q] = IdleCall
        BY <1>1 DEF Retain
      <4> QED
        BY <2>6, <4>1, <4>2, <4>3, <4>4 DEF IdleCall
    <3> QED
      BY <3>1 DEF Engaged, Engaging, Installing, Restoring
  <2> QED
    BY <1>6, <2>1, <2>2, <2>3, <2>4, <2>5, <2>6 DEF Progress
<1>7. ASSUME NEW p \in Procs, Fail(p) PROVE FALSE
  <2>1. p = q
    BY <1>2, <1>7, FailKeeps DEF Kept, Frame
  <2>2. call'[q].pc \in {"idle", "abort", "fence", "giveUp"}
    BY <1>1, <1>7, <2>1 DEF Fail, Goto, IdleCall, Calls
  <2> QED
    BY <2>2 DEF Engaged, Engaging, Installing, Restoring
<1>8. ASSUME NEW p \in Procs, Crash(p) PROVE FALSE
  BY <1>3, <1>8 DEF Crash, IdleCall, Engaging, Installing, Restoring
<1>9. ASSUME NEW p \in Procs, BeginInitialize(p) PROVE FALSE
  BY <1>1, <1>2, <1>9, BeginsBefore DEF Engaged, Engaging, Installing, Restoring
<1>10. ASSUME NEW p \in Procs, NEW pl \in archive, BeginRollback(p, pl) PROVE FALSE
  BY <1>3, <1>10 DEF BeginRollback, IdleCall, Engaging, Installing, Restoring
<1>11. ASSUME NEW p \in Procs, NEW r \in Runs \union {None}, BeginRevoke(p, r) PROVE FALSE
  BY <1>3, <1>11 DEF BeginRevoke, IdleCall, Engaging, Installing, Restoring
<1> QED
  BY <1>2, <1>6, <1>7, <1>8, <1>9, <1>10, <1>11 DEF Next, RunStep, BeginCheck, ReadCurrent, ReadRunEpoch,
     Bind, AssertRun, Act, OwnerEdits, PointerMoves, vars

\* A call is about to admit a run only once it has written the epoch.
LEMMA RetainsAfterBump ==
  ASSUME IInv, [Next]_vars, NEW q \in Procs, call'[q].pc = "retain", call'[q] # call[q]
  PROVE  Bump(q)
<1>1. call \in [Procs -> Calls] /\ call[q] \in Calls
  BY DEF IInv, TypeOK
<1>2. ASSUME NEW p \in Procs, NEW c, c.pc # "retain", call' = [call EXCEPT ![p] = c] PROVE FALSE
  BY <1>1, <1>2
<1>3. ASSUME NEW ph, ph # "retain", Goto(q, ph) PROVE FALSE
  BY <1>1, <1>3 DEF Goto, Calls
<1>4. ASSUME NEW p \in Procs, Progress(p) PROVE Bump(q)
  <2>1. p = q
    BY <1>4, ProgressKeeps DEF Kept, Frame
  <2>2. CASE Acquire(q) \/ Archive(q) \/ CheckWritten(q) \/ ApplyIdentity(q) \/ Verify(q) \/ WriteReceipt(q)
             \/ Unfence(q) \/ Unpend(q) \/ CheckRestored(q) \/ RestoreIdentity(q) \/ RestoreReceipt(q)
             \/ UnpendUndone(q) \/ Unmark(q) \/ RaiseFence(q) \/ Drain(q) \/ NoteProfile(q) \/ DenyTools(q)
             \/ ForgetProfile(q) \/ QuickVerified(q)
    BY <1>3, <2>2 DEF Acquire, Archive, CheckWritten, ApplyIdentity, Verify, WriteReceipt, Unfence, Unpend,
       CheckRestored, RestoreIdentity, RestoreReceipt, UnpendUndone, Unmark, RaiseFence, Drain, NoteProfile,
       DenyTools, ForgetProfile, AfterRelease, QuickVerified, Rename, Step
  <2>3. CASE InspectApply(q) \/ InspectRollback(q) \/ ReadEpoch(q) \/ Pend(q) \/ MarkRollback(q)
    <3>1. call'[q].pc \in {"fence", "abort", "bump", "write", "restore"}
      <4>1. InspectApply(q) \/ InspectRollback(q) => call'[q].pc \in {"fence", "abort"}
        BY <1>1 DEF InspectApply, InspectRollback, Calls
      <4>2. ReadEpoch(q) => call'[q].pc = "bump"
        BY <1>1 DEF ReadEpoch, Calls
      <4>3. Pend(q) \/ MarkRollback(q) => call'[q].pc \in {"write", "restore"}
        <5>1. [call[q] EXCEPT !.pc = "write", !.todo = Changes(call[q].plan), !.look = None].pc = "write"
          BY <1>1 DEF Calls
        <5>2. [call[q] EXCEPT !.pc = "restore", !.todo = Changes(call[q].plan), !.look = None].pc = "restore"
          BY <1>1 DEF Calls
        <5> QED
          BY <1>1, <5>1, <5>2 DEF Pend, MarkRollback
      <4> QED
        BY <2>3, <4>1, <4>2, <4>3
    <3> QED
      BY <3>1
  <2>4. CASE (\E t \in Targets : InspectTarget(q, t) \/ InspectRestored(q, t)) \/ ReplaceTarget(q)
    <3>1. call'[q].pc \in {"write", "restore", "abort"}
      BY <1>1, <2>4 DEF InspectTarget, InspectRestored, InPlace, ToReplace, ReplaceTarget, At, Goto, Calls
    <3> QED
      BY <3>1
  <2>5. CASE Isolate(q) \/ Isolated(q) \/ RestoreProfile(q)
    <3>1. IsolationFails(q) => call'[q].pc \in {"idle", "giveUp"}
      BY <1>1 DEF IsolationFails, IdleCall, Calls
    <3>2. Isolate(q) \/ RestoreProfile(q) => call'[q].pc # "retain"
      BY <1>1, <1>3, <3>1 DEF Isolate, RestoreProfile, Calls
    <3> QED
      BY <1>3, <2>5, <3>1, <3>2 DEF Isolated, AfterIsolation
  <2>6. CASE Ready(q) \/ Unlock(q) \/ Abort(q) \/ Retain(q)
    <3>1. Ready(q) => call'[q] = IdleCall \/ call'[q].pc = "release"
      BY <1>1 DEF Ready, Calls
    <3>2. Unlock(q) => call'[q] = IdleCall \/ call'[q].pc = "ready"
      BY <1>1 DEF Unlock, IdleCall
    <3>3. Abort(q) => call'[q] = IdleCall \/ call'[q].pc = "isolate"
      <4>1. [IdleCall EXCEPT !.pc = "isolate", !.job = "start"].pc = "isolate"
        BY DEF IdleCall
      <4> QED
        BY <1>1, <4>1 DEF Abort
    <3>4. Retain(q) => call'[q] = IdleCall
      BY <1>1 DEF Retain
    <3> QED
      BY <2>6, <3>1, <3>2, <3>3, <3>4 DEF IdleCall
  <2> QED
    BY <1>4, <2>1, <2>2, <2>3, <2>4, <2>5, <2>6 DEF Progress
<1>5. ASSUME NEW p \in Procs, Fail(p) PROVE FALSE
  <2>1. p = q
    BY <1>5, FailKeeps DEF Kept, Frame
  <2>2. call' = [call EXCEPT ![q] = IdleCall] \/ \E ph \in {"abort", "fence", "giveUp"} : Goto(q, ph)
    BY <1>5, <2>1 DEF Fail
  <2> QED
    BY <1>1, <1>3, <2>2 DEF IdleCall
<1>6. ASSUME NEW p \in Procs, Crash(p) PROVE FALSE
  BY <1>2, <1>6 DEF Crash, IdleCall
<1>7. ASSUME NEW p \in Procs, BeginInitialize(p) PROVE FALSE
  BY <1>1, <1>7, BeginsBefore
<1>8. ASSUME NEW p \in Procs, NEW pl \in archive, BeginRollback(p, pl) PROVE FALSE
  BY <1>2, <1>8 DEF BeginRollback, IdleCall
<1>9. ASSUME NEW p \in Procs, NEW r \in Runs \union {None}, BeginRevoke(p, r) PROVE FALSE
  BY <1>2, <1>9 DEF BeginRevoke, IdleCall
<1> QED
  BY <1>4, <1>5, <1>6, <1>7, <1>8, <1>9 DEF Next, RunStep, BeginCheck, ReadCurrent, ReadRunEpoch,
     Bind, AssertRun, Act, OwnerEdits, PointerMoves, vars

\* Unless a write of the epoch is lost, the epoch grows by one whenever it is written.
LEMMA EpochGrows ==
  ASSUME IInv, [Next]_vars, ~overwritten'
  PROVE  /\ ~overwritten
         /\ epoch' \in {epoch, epoch + 1}
         /\ \A p \in Procs : Bump(p) => epoch' = epoch + 1 /\ call[p].epoch = epoch
<1>1. overwritten \in BOOLEAN /\ epoch \in Nat
  BY DEF IInv, TypeOK
<1>2. \A p \in Procs : Bump(p) => ~overwritten /\ epoch' = epoch + 1 /\ call[p].epoch = epoch
  BY DEF Bump
<1>3. ASSUME NEW p \in Procs, Progress(p), ~Bump(p) PROVE epoch' = epoch /\ overwritten' = overwritten
  BY <1>3 DEF Progress, Acquire, InspectApply, Archive, Pend, InspectTarget, InspectRestored, InPlace, ToReplace, ReplaceTarget, CheckWritten,
    ApplyIdentity, Rename, Verify, WriteReceipt, Unfence, Unpend, InspectRollback, MarkRollback,
    CheckRestored, RestoreIdentity, RestoreReceipt, UnpendUndone, Unmark, RaiseFence, ReadEpoch,
    Drain, Isolate, NoteProfile, DenyTools, Isolated, RestoreProfile, ForgetProfile, QuickVerified,
    Ready, Unlock, Abort, Retain, past
<1>4. (\E p \in Procs : Bump(p)) \/ (epoch' = epoch /\ overwritten' = overwritten)
  BY <1>3 DEF Next, BeginInitialize, BeginRollback, BeginRevoke, Fail, Crash, RunStep, BeginCheck,
     ReadCurrent, ReadRunEpoch, Bind, AssertRun, Act, OwnerEdits, PointerMoves, vars, past
<1> QED
  BY <1>1, <1>2, <1>4

\* A correction that will admit its run holds an epoch that has been written.
Written == \A p \in Procs : call[p].pc = "retain" => call[p].epoch < epoch

\* A run bound under the epoch that holds is checked while nothing is being set about, and what
\* it was checked against is the installation it is bound to.
InStep(r) ==
  LET b == binding[r]
      k == check[r]
  IN
  /\ b # None => b.epoch <= epoch
  /\ k.pc = "compare" => k.epoch <= epoch
  /\ k.pc # "idle" /\ b # None /\ b.epoch = epoch => Attributed /\ \A p \in Procs : ~Engaged(call[p])
  /\ k.pc = "epoch" /\ b # None /\ b.epoch = epoch => k.started = [op |-> k.saw.op, job |-> "install"]
  /\ k.pc = "compare" /\ b # None /\ b.epoch = k.epoch => k.started = [op |-> k.saw.op, job |-> "install"]
  /\ k.pc = "passed" => b # None /\ k.started = [op |-> b.op, job |-> "install"]

KInv == RInv /\ ByTheGate /\ (~overwritten => Written /\ \A r \in Runs : InStep(r))

LEMMA WrittenStays ==
  ASSUME IInv, [Next]_vars, Written, ~overwritten'
  PROVE  Written'
<1> SUFFICES ASSUME NEW p \in Procs, call'[p].pc = "retain" PROVE call'[p].epoch < epoch'
  BY DEF Written
<1>1. epoch \in Nat /\ call \in [Procs -> Calls] /\ call[p].epoch \in Nat /\ epoch' \in {epoch, epoch + 1}
  BY EpochGrows DEF IInv, TypeOK, Calls
<1>2. CASE call'[p] = call[p]
  BY <1>1, <1>2 DEF Written
<1>3. CASE call'[p] # call[p]
  <2>1. Bump(p)
    BY <1>3, RetainsAfterBump
  <2>2. call[p].epoch = epoch /\ epoch' = epoch + 1
    BY <2>1, EpochGrows
  <2>3. call'[p].epoch = call[p].epoch
    <3>1. Goto(p, "drain") \/ Goto(p, "retain") \/ call' = [call EXCEPT ![p] = IdleCall]
      BY <2>1 DEF Bump
    <3>2. call' # [call EXCEPT ![p] = IdleCall]
      BY <1>1 DEF IdleCall
    <3> QED
      BY <1>1, <3>1, <3>2 DEF Goto, Calls
  <2> QED
    BY <1>1, <2>2, <2>3
<1> QED
  BY <1>2, <1>3

\* A step that is not the run's own, nor the admission of it.
LEMMA OthersKeepInStep ==
  ASSUME IInv, [Next]_vars, ~overwritten', NEW r \in Runs, InStep(r),
         binding'[r] = binding[r], check'[r] = check[r]
  PROVE  InStep(r)'
<1>1. /\ epoch \in Nat /\ (binding[r] # None => binding[r].epoch \in Nat) /\ check[r].epoch \in Nat
  BY DEF IInv, TypeOK, Bindings, Checks
<1>2. epoch' \in {epoch, epoch + 1}
  BY EpochGrows
<1>3. binding[r] # None => binding[r].epoch <= epoch'
  BY <1>1, <1>2 DEF InStep
<1>4. check[r].pc = "compare" => check[r].epoch <= epoch'
  BY <1>1, <1>2 DEF InStep
<1>5. binding[r] # None /\ binding[r].epoch = epoch' => epoch' = epoch
  BY <1>1, <1>2 DEF InStep
<1>6. ASSUME check[r].pc # "idle", binding[r] # None, binding[r].epoch = epoch'
      PROVE  Attributed' /\ (\A p \in Procs : ~Engaged(call[p]))'
  <2>1. epoch' = epoch /\ Attributed /\ \A p \in Procs : ~Engaged(call[p])
    BY <1>5, <1>6 DEF InStep
  <2>2. UNCHANGED <<touched, receipt>>
    BY <2>1, EngagedChange
  <2>3. ASSUME NEW p \in Procs, Engaged(call[p])' PROVE FALSE
    <3>1. Bump(p)
      BY <2>1, <2>3, Engages
    <3>2. epoch' = epoch + 1
      BY <3>1, EpochGrows
    <3> QED
      BY <1>1, <2>1, <3>2
  <2> QED
    BY <2>1, <2>2, <2>3 DEF Attributed
<1>7. check[r].pc = "epoch" /\ binding[r] # None /\ binding[r].epoch = epoch' =>
        check[r].started = [op |-> check[r].saw.op, job |-> "install"]
  BY <1>5 DEF InStep
<1> QED
  BY <1>3, <1>4, <1>6, <1>7 DEF InStep

LEMMA RunKeepsInStep ==
  ASSUME IInv, ByTheGate, NEW r \in Runs, RunStep(r), InStep(r)
  PROVE  InStep(r)'
<1>1. /\ epoch \in Nat /\ binding \in [Runs -> Bindings \union {None}] /\ check \in [Runs -> Checks]
      /\ (binding[r] # None => binding[r].epoch \in Nat) /\ check[r] \in Checks /\ check[r].epoch \in Nat
  BY DEF IInv, TypeOK, Bindings, Checks
<1>2. UNCHANGED <<call, epoch, touched, receipt>>
  BY DEF RunStep, BeginCheck, ReadCurrent, ReadRunEpoch, Bind, AssertRun, Act, past
<1>3. ASSUME binding'[r] # None /\ binding'[r].epoch = epoch => Attributed /\ \A p \in Procs : ~Engaged(call[p])
      PROVE  binding'[r] # None /\ binding'[r].epoch = epoch' => Attributed' /\ (\A p \in Procs : ~Engaged(call[p]))'
  BY <1>2, <1>3 DEF Attributed, Engaged
<1>4. CASE EndCheck(r) /\ UNCHANGED binding
  <2>1. check'[r].pc = "idle" /\ binding'[r] = binding[r]
    BY <1>1, <1>4 DEF EndCheck, IdleCheck
  <2> QED
    BY <1>2, <2>1 DEF InStep
<1>5. CASE \E want \in {"bind", "check"} : BeginCheck(r, want)
  <2>1. check'[r].pc = "current" /\ binding'[r] = binding[r]
    BY <1>1, <1>5 DEF BeginCheck, Checks
  <2>2. Attributed /\ \A p \in Procs : ~Engaged(call[p])
    BY <1>5, EngagedIsClosed DEF BeginCheck, ByTheGate
  <2> QED
    BY <1>2, <1>3, <2>1, <2>2 DEF InStep
<1>6. CASE ReadCurrent(r)
  <2>1. binding'[r] = binding[r] /\ check[r].pc = "current"
    BY <1>6 DEF ReadCurrent
  <2>2. CASE ~Current
    <3>1. check'[r].pc = "idle"
      BY <1>1, <1>6, <2>2 DEF ReadCurrent, Checks
    <3> QED
      BY <1>2, <2>1, <3>1 DEF InStep
  <2>3. CASE Current
    <3>1. check'[r].pc = "epoch" /\ check'[r].saw = receipt /\ check'[r].started = touched
      BY <1>1, <1>6, <2>3 DEF ReadCurrent, Checks
    <3>2. receipt # None
      BY <2>3 DEF Current, IsFor
    <3>3. binding[r] # None /\ binding[r].epoch = epoch => Attributed /\ \A p \in Procs : ~Engaged(call[p])
      BY <2>1 DEF InStep
    <3> QED
      BY <1>2, <1>3, <2>1, <3>1, <3>2, <3>3 DEF InStep, Attributed
  <2> QED
    BY <2>2, <2>3
<1>7. CASE ReadRunEpoch(r)
  <2>1. /\ binding'[r] = binding[r] /\ check[r].pc = "epoch" /\ check'[r].pc = "compare"
        /\ check'[r].epoch = epoch /\ check'[r].saw = check[r].saw /\ check'[r].started = check[r].started
    BY <1>1, <1>7 DEF ReadRunEpoch, Checks
  <2>2. binding[r] # None /\ binding[r].epoch = epoch => Attributed /\ \A p \in Procs : ~Engaged(call[p])
    BY <2>1 DEF InStep
  <2> QED
    BY <1>1, <1>2, <1>3, <2>1, <2>2 DEF InStep
<1>8. CASE Bind(r)
  <2>1. check'[r].pc = "idle"
    BY <1>1, <1>8 DEF Bind, EndCheck, IdleCheck
  <2>2. check[r].epoch <= epoch
    BY <1>8 DEF Bind, InStep
  <2>3. binding'[r] # None => binding'[r].epoch <= epoch
    <3>1. binding'[r] = binding[r] \/ binding'[r] = Expected(r)
      BY <1>1, <1>8 DEF Bind
    <3> QED
      BY <2>2, <3>1 DEF Expected, InStep
  <2> QED
    BY <1>2, <2>1, <2>3 DEF InStep
<1>9. CASE AssertRun(r) /\ Accepts(r)
  <2>1. /\ check[r].pc = "compare" /\ check'[r].pc = "passed" /\ check'[r].started = check[r].started
        /\ binding'[r] = binding[r]
    BY <1>1, <1>9 DEF AssertRun, Checks
  <2>2. binding[r] = [op |-> check[r].saw.op, epoch |-> check[r].epoch]
    BY <1>9 DEF Accepts, Expected
  <2>3. binding[r] # None
    <3>1. binding[r] \in Bindings
      <4>1. check[r].saw \in Receipts
        BY <2>1 DEF IInv, Checking
      <4> QED
        BY <1>1, <2>2, <4>1 DEF Receipts, Bindings
    <3> QED
      BY <3>1, SentinelAssumption DEF SentinelAssumption
  <2>4. check[r].started = [op |-> binding[r].op, job |-> "install"]
    BY <2>1, <2>2, <2>3 DEF InStep
  <2>5. binding[r].epoch = epoch => Attributed /\ \A p \in Procs : ~Engaged(call[p])
    BY <2>1, <2>3 DEF InStep
  <2> QED
    BY <1>2, <1>3, <2>1, <2>3, <2>4, <2>5 DEF InStep
<1> QED
  BY <1>4, <1>5, <1>6, <1>7, <1>8, <1>9 DEF RunStep, AssertRun, Act

LEMMA InStepStays ==
  ASSUME KInv, [Next]_vars, ~overwritten', NEW r \in Runs
  PROVE  InStep(r)'
<1>1. IInv /\ ByTheGate /\ Written /\ InStep(r)
  BY EpochGrows DEF KInv, RInv
<1>2. /\ epoch \in Nat /\ binding \in [Runs -> Bindings \union {None}] /\ check \in [Runs -> Checks]
      /\ call \in [Procs -> Calls]
  BY <1>1 DEF IInv, TypeOK
<1>3. CASE RunStep(r)
  BY <1>1, <1>3, RunKeepsInStep
<1>4. CASE \E p \in Procs : Retain(p) /\ call[p].retain = r
  <2>1. PICK p \in Procs : Retain(p) /\ call[p].retain = r
    BY <1>4
  <2>2. check'[r].pc = "idle" /\ epoch' = epoch
    <3>1. check[r].pc = "idle"
      BY <2>1, SentinelAssumption DEF KInv, RInv, Awaiting, SentinelAssumption
    <3> QED
      BY <2>1, <3>1 DEF Retain
  <2>3. call[p].epoch \in Nat /\ call[p].epoch < epoch
    BY <1>1, <1>2, <2>1 DEF Retain, At, Written, Calls
  <2>4. binding'[r] = binding[r] \/ binding'[r] = [op |-> receipt.op, epoch |-> call[p].epoch + 1]
    BY <1>2, <2>1 DEF Retain
  <2>5. binding'[r] # None => binding'[r].epoch <= epoch
    <3>1. [op |-> receipt.op, epoch |-> call[p].epoch + 1].epoch <= epoch
      BY <1>2, <2>3
    <3> QED
      BY <1>1, <2>4, <3>1 DEF InStep
  <2> QED
    BY <2>2, <2>5 DEF InStep
<1>5. CASE ~RunStep(r) /\ ~\E p \in Procs : Retain(p) /\ call[p].retain = r
  <2>1. ASSUME NEW p \in Procs, Progress(p) PROVE binding'[r] = binding[r] /\ check'[r] = check[r]
    BY <1>5, <2>1, BindingStays, RetainsItsRun
  <2>2. ASSUME NEW u \in Runs, u # r, RunStep(u) PROVE binding'[r] = binding[r] /\ check'[r] = check[r]
    BY <1>2, <2>2 DEF RunStep, BeginCheck, ReadCurrent, ReadRunEpoch, Bind, AssertRun, Act, EndCheck
  <2>3. binding'[r] = binding[r] /\ check'[r] = check[r]
    BY <1>5, <2>1, <2>2 DEF Next, BeginInitialize, BeginRollback, BeginRevoke, Fail, Crash,
      OwnerEdits, PointerMoves, vars
  <2> QED
    BY <1>1, <2>3, OthersKeepInStep
<1> QED
  BY <1>3, <1>4, <1>5

\* Unless a write of the epoch is lost to a slower one, a run that passes its check was admitted to
\* the installation that was the last to be set about when it looked, whatever installations,
\* rollbacks, crashes, revocations and corrections go on beside it.
THEOREM RunsKeepToTheirs == Spec => []RunsKeepTheirInstallation
<1>1. Init => KInv
  <2> SUFFICES ASSUME Init PROVE KInv
    OBVIOUS
  <2>1. \A p \in Procs : call[p].retain = None /\ call[p].pc = "idle"
    BY DEF Init, IdleCall
  <2>2. RInv
    BY <2>1, Initially DEF RInv, Awaiting
  <2>3. ByTheGate /\ Written
    BY <2>1 DEF Init, Fresh, Installed, ByTheGate, Attributed, Written
  <2>4. \A r \in Runs : InStep(r)
    BY DEF Init, IdleCheck, InStep
  <2> QED
    BY <2>2, <2>3, <2>4 DEF KInv
<1>2. KInv /\ [Next]_vars => KInv'
  <2> SUFFICES ASSUME KInv, [Next]_vars PROVE KInv'
    OBVIOUS
  <2>1. RInv'
    BY Steps, AwaitingStays DEF KInv, RInv
  <2>2. ByTheGate'
    BY ByTheGateStays DEF KInv, RInv
  <2>3. ASSUME ~overwritten' PROVE Written' /\ (\A r \in Runs : InStep(r))'
    <3>1. ~overwritten
      BY <2>3, EpochGrows DEF KInv, RInv
    <3>2. Written'
      BY <2>3, <3>1, WrittenStays DEF KInv, RInv
    <3> QED
      BY <2>3, <3>2, InStepStays
  <2> QED
    BY <2>1, <2>2, <2>3 DEF KInv
<1>3. KInv => RunsKeepTheirInstallation
  BY DEF KInv, InStep, RunsKeepTheirInstallation
<1> QED
  BY <1>1, <1>2, <1>3, PTL DEF Spec
=============================================================================
