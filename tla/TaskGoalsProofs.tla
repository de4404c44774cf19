--------------------------- MODULE TaskGoalsProofs ---------------------------
(***************************************************************************)
(* Proofs about TaskGoals, for any number of proposals, contexts, calls,   *)
(* verifiers and loops and for any budgets.                                *)
(***************************************************************************)
EXTENDS TaskGoals, TLAPS

-----------------------------------------------------------------------------
(* The goal *)

LEMMA GoalTypes ==
    /\ NoGoal \in Goals
    /\ \A p \in Proposals : Received(p) \in Goals
    /\ \A p \in Proposals, c \in Contexts : Judged(p, c) \in Goals
    /\ \A g \in Goals : Freeze(g) \in Goals
BY GoalAssumption DEF NoGoal, Received, Judged, Freeze, Persist, Goals, Revisions

LEMMA FreezeIs ==
    ASSUME NEW d \in Goals, d.status \in {"validated", "frozen"}
    PROVE  Freeze(d).proposal = d.proposal /\ Freeze(d).revision = d.revision
           /\ Freeze(d).status = "frozen"
<1>1. CASE d.status = "frozen"
  BY <1>1 DEF Freeze
<1>2. CASE d.status = "validated"
  <2> DEFINE n == [d EXCEPT !.status = "frozen"]
  <2>1. n.status = "frozen" /\ n.proposal = d.proposal /\ n.revision = d.revision
    BY DEF Goals
  <2>2. Freeze(d) = Persist(d, n)
    BY <1>2 DEF Freeze
  <2>3. ~Repeats(d, n) /\ MayBecome(d, n)
    BY <1>2, <2>1 DEF Repeats, MayBecome, IsFrozen
  <2> QED BY <2>1, <2>2, <2>3 DEF Persist
<1> QED BY <1>1, <1>2

\* Whatever goal a run has, a proposal that is submitted is frozen at once when
\* it fits the context, and otherwise leaves the run without a frozen goal.
THEOREM SubmissionDecides ==
    ASSUME NEW g \in Goals, NEW p \in Proposals, NEW c \in Contexts
    PROVE  LET r == Reconciled(g, p, c) IN
           /\ r.proposal = p
           /\ r.status = (IF <<p, c>> \in Fits THEN "frozen" ELSE "blocked")
           /\ r.revision = (IF <<p, c>> \in Fits THEN <<p, c>> ELSE None)
<1> DEFINE a == Persist(g, Received(p))
           b == Persist(a, Judged(p, c))
<1>1. a \in Goals /\ a.proposal = p /\ a.status # "absent"
      /\ (a.status = "frozen" => a = g)
  BY GoalAssumption DEF Persist, Repeats, MayBecome, Received, Goals, IsFrozen, Revisions
<1>2. CASE <<p, c>> \in Fits
  <2>1. Judged(p, c) = [status |-> "validated", proposal |-> p, revision |-> <<p, c>>]
    BY <1>2 DEF Judged
  <2>2. /\ b.proposal = p /\ b.revision = <<p, c>> /\ b.status \in {"validated", "frozen"}
        /\ b \in Goals
    <3>1. b \in Goals
      BY <1>1, GoalTypes DEF Persist
    <3>2. b = Judged(p, c) \/ (b = a /\ (Repeats(a, Judged(p, c))
                                        \/ ~MayBecome(a, Judged(p, c))))
      BY DEF Persist
    <3>3. CASE b = Judged(p, c)
      BY <2>1, <3>1, <3>3
    <3>4. CASE b = a /\ Repeats(a, Judged(p, c))
      BY <1>1, <2>1, <3>1, <3>4 DEF Repeats, IsFrozen
    <3>5. CASE b = a /\ ~MayBecome(a, Judged(p, c))
      <4>1. a.status \in {"received", "blocked", "validated", "frozen"}
        BY <1>1 DEF Goals
      <4> QED BY <1>1, <2>1, <3>5, <4>1 DEF MayBecome
    <3> QED BY <3>2, <3>3, <3>4, <3>5
  <2>3. Freeze(b).proposal = p /\ Freeze(b).revision = <<p, c>>
        /\ Freeze(b).status = "frozen"
    BY <2>2, FreezeIs
  <2> QED BY <2>3, <1>2 DEF Reconciled, Submitted
<1>3. CASE <<p, c>> \notin Fits
  <2>1. Judged(p, c) = [status |-> "blocked", proposal |-> p, revision |-> None]
    BY <1>3 DEF Judged
  <2>2. b.proposal = p /\ b.revision = None /\ b.status = "blocked"
    <3>1. CASE b = Judged(p, c)
      BY <2>1, <3>1
    <3>2. CASE b = a /\ Repeats(a, Judged(p, c))
      BY <1>1, <2>1, <3>2 DEF Repeats
    <3>3. CASE b = a /\ ~MayBecome(a, Judged(p, c))
      <4>1. a.status \in {"received", "blocked", "validated", "frozen"}
        BY <1>1 DEF Goals
      <4> QED BY <1>1, <2>1, <3>3, <4>1 DEF MayBecome
    <3> QED BY <3>1, <3>2, <3>3 DEF Persist
  <2> QED BY <2>2, <1>3 DEF Reconciled, Submitted, Freeze
<1> QED BY <1>2, <1>3

LEMMA ReconciledTypes ==
    ASSUME NEW g \in Goals, NEW p \in Proposals, NEW c \in Contexts
    PROVE  /\ Reconciled(g, p, c) \in Goals
           /\ HalfReconciled(g, p, c) \subseteq Goals
<1>1. Persist(g, Received(p)) \in Goals
  BY GoalTypes DEF Persist
<1>2. Submitted(g, p, c) \in Goals
  BY <1>1, GoalTypes DEF Persist, Submitted
<1> QED BY <1>1, <1>2, GoalTypes DEF Reconciled, HalfReconciled

LEMMA RevisionIs ==
    ASSUME NEW g \in Goals, IsFrozen(g)
    PROVE  g.revision \in Revisions /\ g.proposal \in Proposals /\ g.revision # None
BY GoalAssumption DEF Goals, IsFrozen, Revisions

-----------------------------------------------------------------------------
(* Types *)

LEMMA EvidenceType == TypeOK => Evidence \in SUBSET Receipts
BY DEF TypeOK, Evidence, Proofs, Receipts

LEMMA ReceiptsType ==
    ASSUME NEW c \in Calls, NEW p \in Proposals, NEW gave \in SUBSET Verifiers
    PROVE  ReceiptsOf(c, p, gave) \in SUBSET Receipts
BY DEF ReceiptsOf, Receipts

LEMMA ObserveType ==
    ASSUME TypeOK, NEW n \in Nat, NEW tools \in BOOLEAN, NEW over \in BOOLEAN,
           Observe(n, tools, over)
    PROVE  check' \in Checks
<1>1. CASE ~IsFrozen(goal)
  BY <1>1 DEF Observe, TypeOK
<1>2. CASE IsFrozen(goal)
  <2>1. Gaps \in SUBSET GapCodes
    BY DEF Gaps, Failures
  <2>2. goal.revision \in Revisions
    BY <1>2, RevisionIs DEF TypeOK
  <2>3. check' = Advanced(n, tools, over)
    BY <1>2 DEF Observe
  <2>4. /\ check.models \in Nat /\ check.rounds \in Nat /\ check.repeats \in Nat
        /\ check.seen \in SUBSET Receipts /\ check.spent \in BOOLEAN
        /\ check.blocked \in BOOLEAN
    BY DEF TypeOK, Checks
  <2> QED BY <2>1, <2>2, <2>3, <2>4, EvidenceType DEF Advanced, Checks
<1> QED BY <1>1, <1>2

LEMMA EndCallType ==
    ASSUME TypeOK, NEW c \in Calls, NEW gave \in SUBSET Verifiers, NEW ok \in BOOLEAN
    PROVE  /\ Ended(c, gave, ok) \in [Calls -> CallStates]
           /\ BoundToGoal(c) => Credited(c, gave, ok) \in Proofs
<1>1. Ended(c, gave, ok) \in [Calls -> CallStates]
  <2>1. call[c] \in CallStates /\ call \in [Calls -> CallStates]
    BY DEF TypeOK
  <2>2. CASE ok
    BY <2>1, <2>2 DEF Ended, CallStates
  <2>3. CASE ~ok
    BY <2>1, <2>3 DEF Ended, CallStates
  <2> QED BY <2>2, <2>3
<1>2. ASSUME BoundToGoal(c) PROVE Credited(c, gave, ok) \in Proofs
  <2>1. goal.revision \in Revisions /\ goal.proposal \in Proposals
    BY <1>2, RevisionIs DEF TypeOK, BoundToGoal
  <2>2. ReceiptsOf(c, goal.proposal, IF ok THEN gave ELSE {}) \in SUBSET Receipts
    BY <2>1, ReceiptsType
  <2> QED BY <2>1, <2>2, EvidenceType DEF Credited, Proofs
<1> QED BY <1>1, <1>2

LEMMA TypeInit == Init => TypeOK
BY GoalTypes DEF Init, TypeOK, NewCall, CallStates, NoProof, Proofs, NoCheck, Checks,
   IdleLoop, LoopStates, Steps, NoFinish, GapCodes

LEMMA IdleType == IdleLoop \in LoopStates /\ IdleLoop.pc = "idle"
BY DEF IdleLoop, LoopStates, Steps

LEMMA OrphansType ==
    ASSUME NEW k \in [Calls -> CallStates]
    PROVE  Orphans(k) \in [Calls -> CallStates]
BY DEF Orphans, CallStates

LEMMA LoopStepType ==
    ASSUME TypeOK, NEW over \in BOOLEAN,
           ObserveAnswer(over) \/ EndRound(over) \/ ObserveLast(over)
    PROVE  TypeOK'
<1> USE DEF Rest
<1>1. loop.new \in Nat /\ loop.acts \in BOOLEAN /\ loop.bad \in BOOLEAN
      /\ loop.ended \in BOOLEAN /\ loop.stopped \in BOOLEAN /\ Uncharged \in Nat
  BY DEF TypeOK, LoopStates, Uncharged
<1>2. check' \in Checks
  <2>1. CASE UNCHANGED check
    BY <2>1 DEF TypeOK
  <2>2. CASE Observe(loop.new, FALSE, over) \/ Observe(loop.new, loop.ended, over)
    BY <1>1, <2>2, ObserveType
  <2> QED BY <2>1, <2>2 DEF ObserveAnswer, EndRound, ObserveLast
<1>3. Told \in BOOLEAN
  BY <1>2 DEF Told, Checks, IsFrozen
<1>4. loop' \in LoopStates /\ (loop'.pc # "idle" => loop'.context \in Contexts)
  <2>1. loop \in LoopStates /\ (loop.pc # "idle" => loop.context \in Contexts)
    BY DEF TypeOK
  <2>2. CASE ObserveAnswer(over)
    <3>1. CASE Goto("failed")
      BY <2>1, <2>2, <3>1 DEF ObserveAnswer, Goto, LoopStates, Steps
    <3>2. CASE ~Goto("failed")
      <4> DEFINE halts == Told \/ loop.round >= LoopRounds
      <4>1. PICK b \in BOOLEAN, pc \in {"last", "reconcile"} :
              loop' = [loop EXCEPT !.new = Uncharged, !.stopped = Told, !.bad = b, !.pc = pc]
        <5>1. loop' = [loop EXCEPT !.new = Uncharged, !.stopped = Told,
                      !.bad = loop.bad \/ (halts /\ loop.acts),
                      !.pc = IF halts \/ ~loop.acts THEN "last" ELSE "reconcile"]
          BY <2>2, <3>2 DEF ObserveAnswer
        <5>2. (loop.bad \/ (halts /\ loop.acts)) \in BOOLEAN
          OBVIOUS
        <5>3. (IF halts \/ ~loop.acts THEN "last" ELSE "reconcile") \in {"last", "reconcile"}
          OBVIOUS
        <5> QED BY <5>1, <5>2, <5>3
      <4> QED BY <1>1, <1>3, <2>1, <2>2, <4>1 DEF ObserveAnswer, LoopStates, Steps
    <3> QED BY <3>1, <3>2
  <2>3. CASE EndRound(over)
    <3>1. CASE Goto("failed")
      BY <2>1, <2>3, <3>1 DEF EndRound, Goto, LoopStates, Steps
    <3>2. CASE ~Goto("failed")
      <4>1. PICK pc \in {"last", "prompt"} :
              loop' = [loop EXCEPT !.new = Uncharged, !.stopped = Told, !.pc = pc]
        BY <2>3, <3>2 DEF EndRound
      <4> QED BY <1>1, <1>3, <2>1, <2>3, <4>1 DEF EndRound, LoopStates, Steps
    <3> QED BY <3>1, <3>2
  <2>4. CASE ObserveLast(over)
    <3>1. CASE Goto("failed")
      BY <2>1, <2>4, <3>1 DEF ObserveLast, Goto, LoopStates, Steps
    <3>2. CASE ~Goto("failed")
      <4>1. PICK b \in BOOLEAN :
              loop' = [loop EXCEPT !.new = Uncharged, !.pc = "commit", !.stopped = b]
        <5>1. (loop.stopped \/ Told) \in BOOLEAN
          OBVIOUS
        <5> QED BY <5>1, <2>4, <3>2 DEF ObserveLast
      <4> QED BY <1>1, <2>1, <2>4, <4>1 DEF ObserveLast, LoopStates, Steps
    <3> QED BY <3>1, <3>2
  <2> QED BY <2>2, <2>3, <2>4
<1> QED BY <1>2, <1>4 DEF ObserveAnswer, EndRound, ObserveLast, TypeOK

LEMMA CallType ==
    ASSUME TypeOK, NEW c \in Calls
    PROVE  /\ call[c] \in CallStates
           /\ goal.revision \in Revisions \cup {None}
           /\ loop \in LoopStates /\ loop.round \in Nat /\ loop.new \in Nat
           /\ loop.ended \in BOOLEAN /\ loop.bad \in BOOLEAN
BY DEF TypeOK, Goals, LoopStates

LEMMA WorkType ==
    ASSUME TypeOK, NEW c \in Calls,
           LoopStartsCall(c) \/ LoopReuses(c) \/ LoopAsks(c) \/ CardStarts(c)
    PROVE  TypeOK'
<1> USE DEF Rest
<1>1. (\E who \in {"loop", "card"} : Running(c, who)) => call' \in [Calls -> CallStates]
  <2> DEFINE n(who) == [NewCall EXCEPT !.state = "running", !.by = who,
                                       !.bound = goal.revision]
  <2>1. \A who \in {"loop", "card"} : n(who) \in CallStates
    BY CallType DEF NewCall, CallStates
  <2>2. call \in [Calls -> CallStates]
    BY DEF TypeOK
  <2> QED BY <2>1, <2>2 DEF Running
<1>2. CASE LoopStartsCall(c)
  <2>1. call' \in [Calls -> CallStates]
    BY <1>1, <1>2 DEF LoopStartsCall, TypeOK
  <2>2. loop' \in LoopStates /\ (loop'.pc # "idle" => loop'.context \in Contexts)
    BY <1>2, CallType DEF LoopStartsCall, Goto, TypeOK, LoopStates, Steps
  <2> QED BY <1>2, <2>1, <2>2 DEF LoopStartsCall, Transition, TypeOK
<1>3. CASE LoopReuses(c)
  BY <1>3, CallType DEF LoopReuses, TypeOK, LoopStates, Steps
<1>4. CASE LoopAsks(c)
  BY <1>4, CallType DEF LoopAsks, Transition, TypeOK, CallStates
<1>5. CASE CardStarts(c)
  BY <1>1, <1>5 DEF CardStarts, Transition, TypeOK
<1> QED BY <1>2, <1>3, <1>4, <1>5

LEMMA EndType ==
    ASSUME TypeOK, NEW c \in Calls, NEW gave \in SUBSET Verifiers, NEW ok \in BOOLEAN,
           LoopEndsCall(c, gave, ok) \/ CardEnds(c, gave, ok) \/ CrashInEnd(c, gave, ok)
    PROVE  TypeOK'
<1> USE DEF Rest
<1>1. EndCall(c, gave, ok) => call' \in [Calls -> CallStates] /\ proof' \in Proofs
  BY EndCallType DEF EndCall, TypeOK
<1>2. CASE LoopEndsCall(c, gave, ok)
  <2>1. loop' \in LoopStates /\ (loop'.pc # "idle" => loop'.context \in Contexts)
    <3>1. PICK pc \in {"failed", "round"}, e \in BOOLEAN, b \in BOOLEAN :
            loop' = [loop EXCEPT !.pc = pc, !.ended = e, !.bad = b]
      <4>1. CASE Goto("failed")
        <5>1. loop' = [loop EXCEPT !.pc = "failed", !.ended = loop.ended, !.bad = loop.bad]
          BY <4>1, CallType DEF Goto, LoopStates
        <5> QED BY <5>1, CallType
      <4>2. CASE ~Goto("failed")
        <5>1. loop' = [loop EXCEPT !.pc = "round", !.ended = TRUE, !.bad = loop.bad \/ ~ok]
          BY <1>2, <4>2 DEF LoopEndsCall
        <5>2. (loop.bad \/ ~ok) \in BOOLEAN
          OBVIOUS
        <5> QED BY <5>1, <5>2
      <4> QED BY <4>1, <4>2
    <3> QED BY <1>2, <3>1, CallType DEF LoopEndsCall, TypeOK, LoopStates, Steps
  <2> QED BY <1>1, <1>2, <2>1 DEF LoopEndsCall, Transition, TypeOK
<1>3. CASE CardEnds(c, gave, ok)
  BY <1>1, <1>3 DEF CardEnds, TypeOK, NoProof, Proofs
<1>4. CASE CrashInEnd(c, gave, ok)
  <2>1. call' \in [Calls -> CallStates] /\ proof' \in Proofs
    BY <1>4, EndCallType, OrphansType DEF CrashInEnd, TypeOK
  <2>2. loop' = IdleLoop
    BY <1>4 DEF CrashInEnd, Stop
  <2> QED BY <1>4, <2>1, <2>2, IdleType DEF CrashInEnd, Stop, TypeOK
<1> QED BY <1>2, <1>3, <1>4

LEMMA VerdictType ==
    ASSUME TypeOK, CommitWaits \/ CommitBlocks \/ CommitCompletes \/ FinishFailed
    PROVE  TypeOK'
<1>1. IdleLoop \in LoopStates /\ IdleLoop.pc = "idle"
  BY IdleType
<1>2. \A s \in {"offered", "dropped"} : CardsBecome(s) => call' \in [Calls -> CallStates]
  BY DEF CardsBecome, TypeOK, CallStates
<1>3. CASE CommitWaits
  BY <1>1, <1>2, <1>3 DEF CommitWaits, Leave, Transition, TypeOK
<1>4. CASE CommitBlocks
  BY <1>1, <1>2, <1>4 DEF CommitBlocks, Leave, Transition, TypeOK
<1>5. CASE CommitCompletes
  BY <1>1, <1>5 DEF CommitCompletes, Leave, Transition, TypeOK, NoProof, Proofs
<1>6. CASE FinishFailed
  BY <1>1, <1>2, <1>6 DEF FinishFailed, Leave, TypeOK, NoProof, Proofs
<1> QED BY <1>3, <1>4, <1>5, <1>6

LEMMA TypeStep == TypeOK /\ [Next]_vars => TypeOK'
<1> SUFFICES ASSUME TypeOK, [Next]_vars PROVE TypeOK'
  OBVIOUS
<1> USE DEF Rest
<1>1. CASE \E ctx \in Contexts : LoopStarts(ctx)
  <2>1. PICK ctx \in Contexts : LoopStarts(ctx)
    BY <1>1
  <2>2. loop' = [IdleLoop EXCEPT !.pc = "prompt", !.context = ctx]
    BY <2>1 DEF LoopStarts
  <2>3. loop' \in LoopStates /\ loop'.context \in Contexts
    BY <2>2 DEF IdleLoop, LoopStates, Steps
  <2> QED BY <2>1, <2>3 DEF LoopStarts, TypeOK
<1>2. CASE Prompt
  <2>1. check' \in Checks
    BY <1>2, ObserveType DEF Prompt, TypeOK
  <2>2. loop \in LoopStates /\ loop.context \in Contexts /\ TypeOK
    BY <1>2 DEF Prompt, TypeOK
  <2>3. loop' = [loop EXCEPT !.pc = "failed"] \/ loop' = [loop EXCEPT !.pc = "model"]
    BY <1>2 DEF Prompt, Goto
  <2>4. loop' \in LoopStates /\ loop'.context \in Contexts
    BY <2>2, <2>3 DEF LoopStates, Steps
  <2> QED BY <1>2, <2>1, <2>2, <2>4 DEF Prompt, TypeOK
<1>3. CASE \E p \in Proposals \cup {None}, acts \in BOOLEAN : ModelAnswers(p, acts)
  <2>1. PICK p \in Proposals \cup {None}, acts \in BOOLEAN : ModelAnswers(p, acts)
    BY <1>3
  <2>2. loop \in LoopStates /\ loop.context \in Contexts
    BY <2>1 DEF ModelAnswers, TypeOK
  <2>3. loop' = [loop EXCEPT !.pc = "answer", !.proposal = p, !.acts = acts,
                            !.new = loop.new + 1]
    BY <2>1 DEF ModelAnswers
  <2>4. PICK n \in Nat, a \in BOOLEAN :
          loop' = [loop EXCEPT !.pc = "answer", !.proposal = p, !.acts = a, !.new = n]
    <3>1. loop.new + 1 \in Nat
      BY <2>2 DEF LoopStates
    <3>2. acts \in BOOLEAN
      BY <2>1
    <3> QED BY <2>3, <3>1, <3>2, Zenon
  <2>5. loop' \in LoopStates /\ loop'.context \in Contexts
    BY <2>1, <2>2, <2>4 DEF LoopStates, Steps
  <2> QED BY <2>1, <2>5 DEF ModelAnswers, TypeOK
<1>4. CASE ModelFails
  BY <1>4 DEF ModelFails, Goto, TypeOK, LoopStates, Steps
<1>5. CASE \E over \in BOOLEAN : ObserveAnswer(over) \/ EndRound(over) \/ ObserveLast(over)
  BY <1>5, LoopStepType
<1>6. CASE Reconcile
  <2>1. goal' \in Goals
    BY <1>6, ReconciledTypes DEF Reconcile, TypeOK, LoopStates
  <2>2. loop \in LoopStates /\ loop.context \in Contexts
    BY <1>6 DEF Reconcile, TypeOK
  <2>3. PICK pc \in {"round", "observe", "failed"}, n \in Nat :
          loop' = [loop EXCEPT !.proposal = None, !.ended = FALSE, !.round = n, !.pc = pc]
    <3> DEFINE n == IF loop.pc = "reconcile" THEN loop.round + 1 ELSE loop.round
    <3>1. PICK pc \in {"round", "observe", "failed"} :
            loop' = [loop EXCEPT !.proposal = None, !.ended = FALSE, !.pc = pc, !.round = n]
      BY <1>6 DEF Reconcile
    <3>2. loop' = [loop EXCEPT !.proposal = None, !.ended = FALSE, !.round = n, !.pc = pc]
      BY <2>2, <3>1 DEF LoopStates
    <3>3. n \in Nat
      BY <2>2 DEF LoopStates
    <3> QED BY <3>2, <3>3
  <2>4. loop' \in LoopStates /\ loop'.context \in Contexts
    BY <2>2, <2>3 DEF LoopStates, Steps
  <2> QED BY <1>6, <2>1, <2>4 DEF Reconcile, TypeOK
<1>7. CASE \E c \in Calls : LoopStartsCall(c) \/ LoopReuses(c) \/ LoopAsks(c) \/ CardStarts(c)
  BY <1>7, WorkType
<1>8. CASE LoopIsRefused
  BY <1>8 DEF LoopIsRefused, Transition, TypeOK, LoopStates, Steps
<1>9. CASE \E c \in Calls, gave \in SUBSET Verifiers, ok \in BOOLEAN :
            LoopEndsCall(c, gave, ok) \/ CardEnds(c, gave, ok) \/ CrashInEnd(c, gave, ok)
  BY <1>9, EndType
<1>10. CASE CommitWaits \/ CommitBlocks \/ CommitCompletes \/ FinishFailed
  BY <1>10, VerdictType
<1>11. CASE Sweep
  BY <1>11 DEF Sweep, TypeOK
<1>12. CASE Crash
  BY <1>12, OrphansType, IdleType DEF Crash, Stop, TypeOK
<1>13. CASE CrashInReconcile
  <2>1. goal' \in Goals
    BY <1>13, ReconciledTypes DEF CrashInReconcile, TypeOK, LoopStates
  <2> QED BY <1>13, <2>1, OrphansType, IdleType
      DEF CrashInReconcile, Stop, TypeOK
<1>14. CASE UNCHANGED vars
  BY <1>14 DEF vars, TypeOK
<1> QED BY <1>1, <1>2, <1>3, <1>4, <1>5, <1>6, <1>7, <1>8, <1>9, <1>10, <1>11, <1>12,
           <1>13, <1>14 DEF Next

\* Every reachable state is one that the program's tables and its loop can hold.
THEOREM TypeCorrect == Spec => []TypeOK
<1>1. Init => TypeOK
  BY TypeInit
<1>2. TypeOK /\ [Next]_vars => TypeOK'
  BY TypeStep
<1> QED BY <1>1, <1>2, PTL DEF Spec

-----------------------------------------------------------------------------
(* Evidence *)

\* A call that ended keeps what it says for ever.
LEMMA Settled ==
    ASSUME TypeOK, [Next]_vars,
           NEW d \in Calls, call[d].state \in {"succeeded", "failed"}
    PROVE  call'[d] = call[d]
<1> USE DEF Rest
<1>1. call \in [Calls -> CallStates]
  BY DEF TypeOK
<1>2. CASE \E c \in Calls : LoopStartsCall(c) \/ LoopReuses(c) \/ LoopAsks(c) \/ CardStarts(c)
  BY <1>1, <1>2 DEF LoopStartsCall, LoopReuses, LoopAsks, CardStarts, Running
<1>3. CASE \E c \in Calls, gave \in SUBSET Verifiers, ok \in BOOLEAN :
            LoopEndsCall(c, gave, ok) \/ CardEnds(c, gave, ok) \/ CrashInEnd(c, gave, ok)
  BY <1>1, <1>3 DEF LoopEndsCall, CardEnds, CrashInEnd, EndCall, Ended, Orphans
<1>4. CASE CommitWaits \/ CommitBlocks \/ FinishFailed
  BY <1>4 DEF CommitWaits, CommitBlocks, FinishFailed, CardsBecome, Asks
<1>5. CASE Crash \/ CrashInReconcile
  BY <1>5 DEF Crash, CrashInReconcile, Orphans
<1>6. CASE UNCHANGED call
  BY <1>6
<1> QED BY <1>2, <1>3, <1>4, <1>5, <1>6
    DEF Next, vars, LoopStarts, Prompt, ModelAnswers, ModelFails, ObserveAnswer, EndRound,
        ObserveLast, Reconcile, LoopIsRefused, CommitCompletes, Sweep

\* What a receipt claims, of a table of calls and a revision.
Claim(r, k, revision) ==
    /\ k[r.call].state \in {"succeeded", "failed"}
    /\ k[r.call].bound = revision
    /\ r.verifier # None => k[r.call].state = "succeeded" /\ r.verifier \in k[r.call].gave

LEMMA CreditedClaims ==
    ASSUME TypeOK, EvidenceIsBound,
           NEW c \in Calls, NEW gave \in SUBSET Verifiers, NEW ok \in BOOLEAN,
           call[c].state = "running", BoundToGoal(c),
           NEW r \in Credited(c, gave, ok).receipts
    PROVE  /\ Claim(r, Ended(c, gave, ok), goal.revision)
           /\ r.call \in Calls
<1>1. call \in [Calls -> CallStates]
  BY DEF TypeOK
<1>2. CASE r \in Evidence
  <2>1. r \in proof.receipts /\ proof.revision = goal.revision /\ r.call \in Calls
    BY <1>2, EvidenceType DEF Evidence, Receipts
  <2>2. Claim(r, call, goal.revision) /\ r.call # c
    BY <2>1 DEF EvidenceIsBound, Claim
  <2>3. Ended(c, gave, ok)[r.call] = call[r.call]
    BY <1>1, <2>1, <2>2 DEF Ended
  <2> QED BY <2>1, <2>2, <2>3 DEF Claim
<1>3. CASE r \in ReceiptsOf(c, goal.proposal, IF ok THEN gave ELSE {})
  <2>1. r.call = c /\ (r.verifier # None => r.verifier \in (IF ok THEN gave ELSE {}))
    BY <1>3 DEF ReceiptsOf
  <2>2. /\ Ended(c, gave, ok)[c].bound = goal.revision
        /\ Ended(c, gave, ok)[c].state = (IF ok THEN "succeeded" ELSE "failed")
        /\ Ended(c, gave, ok)[c].gave = (IF ok THEN gave ELSE {})
    BY <1>1 DEF Ended, BoundToGoal, CallStates
  <2> QED BY <2>1, <2>2 DEF Claim
<1> QED BY <1>2, <1>3 DEF Credited

LEMMA BoundStep == TypeOK /\ EvidenceIsBound /\ [Next]_vars => EvidenceIsBound'
<1> SUFFICES ASSUME TypeOK, EvidenceIsBound, [Next]_vars, NEW r \in proof'.receipts
             PROVE  Claim(r, call', proof'.revision)
  BY DEF EvidenceIsBound, Claim
<1> USE DEF Rest
<1>1. CASE UNCHANGED proof
  <2>1. Claim(r, call, proof.revision) /\ r.call \in Calls
    BY <1>1 DEF EvidenceIsBound, Claim, TypeOK, Proofs, Receipts
  <2>2. call'[r.call] = call[r.call]
    BY <2>1, Settled DEF Claim
  <2> QED BY <1>1, <2>1, <2>2 DEF Claim
<1>2. ASSUME NEW c \in Calls, NEW gave \in SUBSET Verifiers, NEW ok \in BOOLEAN,
             call[c].state = "running", BoundToGoal(c),
             proof' = Credited(c, gave, ok),
             call' = Ended(c, gave, ok) \/ call' = Orphans(Ended(c, gave, ok))
      PROVE  Claim(r, call', proof'.revision)
  <2>1. Claim(r, Ended(c, gave, ok), goal.revision) /\ r.call \in Calls
    BY <1>2, CreditedClaims
  <2>2. call'[r.call] = Ended(c, gave, ok)[r.call]
    <3>1. CASE call' = Ended(c, gave, ok)
      BY <3>1
    <3>2. CASE call' = Orphans(Ended(c, gave, ok))
      BY <2>1, <3>2 DEF Orphans, Claim
    <3> QED BY <1>2, <3>1, <3>2
  <2>3. proof'.revision = goal.revision
    BY <1>2 DEF Credited
  <2> QED BY <2>1, <2>2, <2>3 DEF Claim
<1>3. CASE \E c \in Calls, gave \in SUBSET Verifiers, ok \in BOOLEAN :
            LoopEndsCall(c, gave, ok) \/ CardEnds(c, gave, ok) \/ CrashInEnd(c, gave, ok)
  BY <1>1, <1>2, <1>3 DEF LoopEndsCall, CardEnds, CrashInEnd, EndCall
<1> QED BY <1>1, <1>3
    DEF Next, vars, LoopStarts, Prompt, ModelAnswers, ModelFails, ObserveAnswer, EndRound,
        ObserveLast, Reconcile, LoopStartsCall, LoopReuses, LoopAsks, CardStarts,
        LoopIsRefused, CommitWaits, CommitBlocks, CommitCompletes, FinishFailed, Sweep,
        Crash, CrashInReconcile

\* record_goal_completion_for_tool_invocation: evidence is only ever of calls that
\* started under the revision it stands for, however the goal changes meanwhile.
THEOREM EvidenceBound == Spec => []EvidenceIsBound
<1>1. Init => EvidenceIsBound
  BY DEF Init, NoProof, EvidenceIsBound
<1> QED BY <1>1, BoundStep, TypeCorrect, PTL DEF Spec

LEMMA BoundIsEarned == TypeOK /\ EvidenceIsBound => ShownIsEarned
<1> SUFFICES ASSUME TypeOK, EvidenceIsBound, Shown = "completed", goal.status # "absent"
             PROVE  /\ IsFrozen(goal)
                    /\ \A x \in VerifiersOf[goal.proposal] :
                         \E c \in Calls :
                            /\ call[c].state = "succeeded"
                            /\ call[c].bound = goal.revision
                            /\ x \in call[c].gave
                            /\ \A d \in Calls \ {c} :
                                 [call |-> d, verifier |-> x] \notin proof.receipts
  BY DEF ShownIsEarned
<1>1. FinishIsCurrent
  BY DEF Shown, TypeOK
<1>2. Proved
  BY <1>1 DEF FinishIsCurrent, Classification
<1>3. proof.receipts \in SUBSET Receipts /\ goal.proposal \in Proposals
  BY <1>2, RevisionIs DEF TypeOK, Proofs, Proved
<1>4. ASSUME NEW x \in VerifiersOf[goal.proposal]
      PROVE  \E c \in Calls :
                /\ call[c].state = "succeeded"
                /\ call[c].bound = goal.revision
                /\ x \in call[c].gave
                /\ \A d \in Calls \ {c} : [call |-> d, verifier |-> x] \notin proof.receipts
  <2>1. x # None
    BY <1>3, <1>4, TaskGoalsAssumption
  <2>2. "missing" \in GapCodes /\ "duplicate" \in GapCodes
    BY DEF GapCodes
  <2>3. PICK r \in proof.receipts : r.verifier = x
    BY <1>2, <1>4, <2>2 DEF Proved, Failures
  <2>4. \A s \in proof.receipts : s.verifier = x => s.call = r.call
    BY <1>2, <2>1, <2>2, <2>3 DEF Proved, Failures
  <2>5. r.call \in Calls
    BY <1>3, <2>3 DEF Receipts
  <2>6. /\ call[r.call].state = "succeeded" /\ call[r.call].bound = goal.revision
        /\ x \in call[r.call].gave
    BY <1>2, <2>1, <2>3 DEF EvidenceIsBound, Proved
  <2>7. \A d \in Calls \ {r.call} : [call |-> d, verifier |-> x] \notin proof.receipts
    BY <2>4
  <2> QED BY <2>5, <2>6, <2>7
<1> QED BY <1>2, <1>4 DEF Proved

\* A run that is shown as completed has, for each verifier of its frozen goal, one
\* call that passed it and that was started under that goal.
THEOREM Earned == Spec => []ShownIsEarned
BY TypeCorrect, EvidenceBound, BoundIsEarned, PTL

-----------------------------------------------------------------------------
(* The budget *)

LEMMA ChargedStep == TypeOK /\ ChargedOnce /\ [Next]_vars => ChargedOnce'
<1> SUFFICES ASSUME TypeOK, ChargedOnce, [Next]_vars PROVE ChargedOnce'
  OBVIOUS
<1> USE DEF Rest, ChargedOnce
<1>1. check.models \in Nat /\ loop.new \in Nat /\ asked \in Nat /\ loop \in LoopStates
      /\ check.models + loop.new <= asked
  BY DEF TypeOK, Checks, LoopStates
<1>2. CASE UNCHANGED <<check, asked>> /\ loop'.new \in {loop.new, 0}
  BY <1>1, <1>2
<1>3. \A n \in Nat, tools \in BOOLEAN, over \in BOOLEAN :
        Observe(n, tools, over) =>
            check'.models = check.models + IF IsFrozen(goal) THEN n ELSE 0
  BY <1>1 DEF Observe, Advanced
<1>4. CASE Prompt
  <2>1. loop'.new = loop.new /\ asked' = asked
    BY <1>1, <1>4 DEF Prompt, Goto, LoopStates
  <2>2. check'.models = check.models
    <3>1. CASE UNCHANGED check
      BY <3>1
    <3>2. CASE Observe(0, FALSE, FALSE)
      <4>1. check'.models = check.models + IF IsFrozen(goal) THEN 0 ELSE 0
        BY <1>3, <3>2
      <4> QED BY <1>1, <4>1
    <3> QED BY <1>4, <3>1, <3>2 DEF Prompt
  <2> QED BY <1>1, <2>1, <2>2
<1>5. CASE \E p \in Proposals \cup {None}, acts \in BOOLEAN : ModelAnswers(p, acts)
  <2>1. loop'.new = loop.new + 1
    BY <1>1, <1>5 DEF ModelAnswers, LoopStates
  <2> QED BY <1>1, <1>5, <2>1 DEF ModelAnswers
<1>6. CASE \E over \in BOOLEAN : ObserveAnswer(over) \/ EndRound(over) \/ ObserveLast(over)
  <2>1. PICK over \in BOOLEAN : ObserveAnswer(over) \/ EndRound(over) \/ ObserveLast(over)
    BY <1>6
  <2>2. asked' = asked /\ loop.ended \in BOOLEAN
    BY <1>1, <2>1 DEF ObserveAnswer, EndRound, ObserveLast, LoopStates
  <2>3. CASE ObservationFails
    <3>1. loop'.new = loop.new /\ UNCHANGED check
      BY <1>1, <2>1, <2>3 DEF ObserveAnswer, EndRound, ObserveLast, Goto, LoopStates
    <3> QED BY <1>1, <2>2, <3>1
  <2>4. CASE ~ObservationFails
    <3>1. loop'.new = Uncharged
      BY <1>1, <2>1, <2>4 DEF ObserveAnswer, EndRound, ObserveLast, LoopStates
    <3>2. Observe(loop.new, FALSE, over) \/ Observe(loop.new, loop.ended, over)
      BY <2>1, <2>4 DEF ObserveAnswer, EndRound, ObserveLast
    <3>3. check'.models = check.models + IF IsFrozen(goal) THEN loop.new ELSE 0
      BY <1>1, <1>3, <2>2, <3>2
    <3> QED BY <1>1, <2>2, <3>1, <3>3 DEF Uncharged
  <2> QED BY <2>3, <2>4
<1>7. CASE Reconcile
  BY <1>1, <1>2, <1>7 DEF Reconcile, LoopStates
<1>8. CASE \E c \in Calls : LoopStartsCall(c) \/ LoopReuses(c) \/ LoopAsks(c) \/ CardStarts(c)
  BY <1>1, <1>2, <1>8
  DEF LoopStartsCall, LoopReuses, LoopAsks, CardStarts, Goto, LoopStates
<1>9. CASE \E c \in Calls, gave \in SUBSET Verifiers, ok \in BOOLEAN :
            LoopEndsCall(c, gave, ok) \/ CardEnds(c, gave, ok) \/ CrashInEnd(c, gave, ok)
  <2>1. UNCHANGED <<check, asked>>
    BY <1>9 DEF LoopEndsCall, CardEnds, CrashInEnd, Stop
  <2>2. CASE \E c \in Calls, gave \in SUBSET Verifiers, ok \in BOOLEAN :
              LoopEndsCall(c, gave, ok)
    <3>1. loop'.new = loop.new
      BY <1>1, <2>2 DEF LoopEndsCall, Goto, LoopStates
    <3> QED BY <1>2, <2>1, <3>1
  <2>3. CASE \E c \in Calls, gave \in SUBSET Verifiers, ok \in BOOLEAN :
              CardEnds(c, gave, ok)
    BY <1>2, <2>1, <2>3 DEF CardEnds
  <2>4. CASE \E c \in Calls, gave \in SUBSET Verifiers, ok \in BOOLEAN :
              CrashInEnd(c, gave, ok)
    BY <1>2, <2>1, <2>4 DEF CrashInEnd, Stop, IdleLoop
  <2> QED BY <1>9, <2>2, <2>3, <2>4
<1>10. CASE CommitWaits \/ CommitBlocks \/ CommitCompletes \/ FinishFailed
  BY <1>2, <1>10
  DEF CommitWaits, CommitBlocks, CommitCompletes, FinishFailed, Leave, IdleLoop
<1>11. CASE Crash \/ CrashInReconcile
  BY <1>2, <1>11 DEF Crash, CrashInReconcile, Stop, IdleLoop
<1>12. CASE \E ctx \in Contexts : LoopStarts(ctx)
  BY <1>2, <1>12 DEF LoopStarts, IdleLoop
<1>13. CASE LoopIsRefused \/ ModelFails \/ Sweep
  BY <1>1, <1>2, <1>13 DEF LoopIsRefused, ModelFails, Sweep, Goto, LoopStates
<1>14. CASE UNCHANGED vars
  BY <1>2, <1>14 DEF vars
<1> QED BY <1>4, <1>5, <1>6, <1>7, <1>8, <1>9, <1>10, <1>11, <1>12, <1>13, <1>14 DEF Next

\* ContextCheckpoint::account charges each model answer at most once.
THEOREM Charged == Spec => []ChargedOnce
<1>1. Init => ChargedOnce
  BY DEF Init, NoCheck, IdleLoop, ChargedOnce
<1> QED BY <1>1, ChargedStep, TypeCorrect, PTL DEF Spec

LEMMA StopStep ==
    ASSUME TypeOK, [Next]_vars, check.revision # None
    PROVE  /\ check'.revision = check.revision
           /\ check'.models >= check.models /\ check'.rounds >= check.rounds
           /\ check.blocked => check'.blocked /\ check'.gaps = check.gaps
<1>1. check.models \in Nat /\ check.rounds \in Nat /\ loop.new \in Nat
      /\ loop.ended \in BOOLEAN
  BY DEF TypeOK, Checks, LoopStates
<1>2. CASE UNCHANGED check
  BY <1>1, <1>2
<1>3. ASSUME NEW n \in Nat, NEW tools \in BOOLEAN, NEW over \in BOOLEAN,
             ~ObservationFails, Observe(n, tools, over), check' # check
      PROVE  /\ check'.revision = check.revision
             /\ check'.models >= check.models /\ check'.rounds >= check.rounds
             /\ check.blocked => check'.blocked /\ check'.gaps = check.gaps
  <2>1. IsFrozen(goal) /\ check' = Advanced(n, tools, over)
    BY <1>3 DEF Observe
  <2>2. check.revision = goal.revision /\ (check.blocked => Gaps = check.gaps)
    BY <1>3, <2>1 DEF ObservationFails, Drifted
  <2>3. check'.revision = goal.revision /\ check'.gaps = Gaps
    BY <2>1 DEF Advanced
  <2>4. check.blocked => check'.blocked
    BY <2>1 DEF Advanced
  <2>5. check'.models = check.models + n
        /\ check'.rounds = check.rounds + (IF tools THEN 1 ELSE 0)
    BY <2>1 DEF Advanced
  <2> QED BY <1>1, <2>2, <2>3, <2>4, <2>5
<1>4. CASE Prompt \/ \E over \in BOOLEAN :
                       ObserveAnswer(over) \/ EndRound(over) \/ ObserveLast(over)
  BY <1>1, <1>2, <1>3, <1>4 DEF Prompt, ObserveAnswer, EndRound, ObserveLast
<1> QED BY <1>2, <1>4
    DEF Next, vars, Rest, LoopStarts, ModelAnswers, ModelFails, Reconcile, LoopStartsCall,
        LoopReuses, LoopAsks, CardStarts, LoopIsRefused, LoopEndsCall, CardEnds, CrashInEnd,
        CommitWaits, CommitBlocks, CommitCompletes, FinishFailed, Sweep, Crash,
        CrashInReconcile, Stop

\* The checkpoint keeps its goal, its counts never fall, and a blocker that was
\* recorded stays with the gaps it was recorded for.
THEOREM StopFinal == Spec => StopIsFinal
<1>1. TypeOK /\ [Next]_vars =>
        [check.revision # None =>
            /\ check'.revision = check.revision
            /\ check'.models >= check.models /\ check'.rounds >= check.rounds
            /\ check.blocked => check'.blocked /\ check'.gaps = check.gaps]_vars
  BY StopStep
<1> QED BY <1>1, TypeCorrect, PTL DEF Spec, StopIsFinal

-----------------------------------------------------------------------------
(* What an automation sees of the run *)

\* A step leaves the finish alone, or fails the run, or completes it by a finish
\* that is believed when it is written.
LEMMA FinishSteps ==
    ASSUME [Next]_vars
    PROVE  \/ UNCHANGED finish
           \/ Shown' = finish'.status /\ finish'.status \in {"completed", "failed"}
<1>1. CASE CommitCompletes
  <2>1. CASE UNCHANGED finish
    BY <2>1
  <2>2. CASE /\ Classification \in {"goal_less", "complete"}
             /\ finish' = [status |-> "completed",
                           receipt |-> IF Classification = "complete" THEN proof ELSE NoProof]
    <3>1. UNCHANGED <<goal, proof, check>>
      BY <1>1 DEF CommitCompletes
    <3>2. Classification' = Classification
      BY <3>1 DEF Classification, Proved, Drifted
    <3>3. FinishIsCurrent'
      BY <2>2, <3>1, <3>2 DEF FinishIsCurrent
    <3> QED BY <2>2, <3>3 DEF Shown
  <2> QED BY <1>1, <2>1, <2>2 DEF CommitCompletes
<1>2. CASE FinishFailed
  BY <1>2 DEF FinishFailed, Shown
<1>3. CASE \E c \in Calls, gave \in SUBSET Verifiers, ok \in BOOLEAN : CardEnds(c, gave, ok)
  BY <1>3 DEF CardEnds, Shown
<1> QED BY <1>1, <1>2, <1>3
    DEF Next, vars, Rest, Stop, LoopStarts, Prompt, ModelAnswers, ModelFails, ObserveAnswer,
        EndRound, ObserveLast, Reconcile, LoopStartsCall, LoopReuses, LoopAsks, CardStarts,
        LoopIsRefused, LoopEndsCall, CrashInEnd, CommitWaits, CommitBlocks, Sweep, Crash,
        CrashInReconcile

LEMMA ShownStep ==
    ASSUME TypeOK, TypeOK', [Next]_vars
    PROVE  Shown' = Shown \/ Observed!AgentMove(SeenAs(Shown), SeenAs(Shown'))
<1> USE DEF Observed!AgentMove, Observed!LedgerMove, Observed!OpenStatus, Observed!Closed,
            Observed!AgentStatuses, SeenAs
<1>1. /\ run \in {"queued", "running", "blocked", "waiting"}
      /\ finish.status \in {"none", "completed", "failed"}
      /\ finish'.status \in {"none", "completed", "failed"}
  BY DEF TypeOK
<1>2. CASE finish.status = "none" \/ Shown = "blocked"
  BY <1>1, <1>2 DEF Shown
<1>3. CASE finish.status = "failed"
  <2>1. Shown = "failed" /\ Shown' \in {"completed", "failed"}
    BY <1>3, FinishSteps DEF Shown
  <2> QED BY <2>1
<1>4. CASE finish.status = "completed" /\ Shown = "completed"
  <2>1. finish'.status \in {"completed", "failed"}
    BY <1>4, FinishSteps
  <2>2. Shown' \in {"completed", "blocked", "failed"}
    BY <2>1 DEF Shown
  <2> QED BY <1>4, <2>2
<1> QED BY <1>1, <1>2, <1>3, <1>4 DEF Shown

\* Only a completed run whose finish is not believed any more may read blocked
\* again; a failed one is never open again, although approved actions go on.
THEOREM ShownMoves == Spec => ShownMovesOnly
<1>1. TypeOK /\ TypeOK' /\ [Next]_vars =>
        [Shown' = Shown \/ Observed!AgentMove(SeenAs(Shown), SeenAs(Shown'))]_vars
  BY ShownStep
<1> QED BY <1>1, TypeCorrect, PTL DEF Spec, ShownMovesOnly
=============================================================================
