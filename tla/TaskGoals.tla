------------------------------ MODULE TaskGoals ------------------------------
(***************************************************************************)
(* One run and its goal: the loop of model calls and tool rounds that a    *)
(* worker drives, the goal the model proposes and the kernel freezes on    *)
(* the way, the evidence that finished tool calls leave, the checkpoint    *)
(* that counts budgets over all loops of the run, and the finish, which    *)
(* needs a proof of the goal that is frozen at that moment.                *)
(*                                                                         *)
(* The goals of two runs share nothing, so one run is modelled.  AgentRuns *)
(* has its queue, leases, resources, approvals and cancellation; here a    *)
(* lease runs out only when nobody works on the run any more, and an       *)
(* approval card is offered and then approved or never touched.            *)
(***************************************************************************)
EXTENDS GoalLifecycle, Naturals, FiniteSets

CONSTANTS
    Calls,           \* tool invocations of the run
    Verifiers,       \* the evidence kinds that a goal may ask for
    VerifiersOf,     \* proposal -> the verifiers of its done_when conditions
    MaxModelRounds,  \* budget of the checkpoint (5 in the code)
    MaxToolRounds,   \* budget of the checkpoint (4 in the code)
    MaxRepeats,      \* tool rounds that may leave the gaps as they are (2)
    LoopRounds,      \* AGENT_TOOL_LOOP_MAX_ROUNDS (4)
    MaxLoops         \* bound: times a worker takes the run up

ASSUME TaskGoalsAssumption ==
    /\ IsFiniteSet(Calls)
    /\ None \notin Calls
    /\ None \notin Verifiers
    /\ VerifiersOf \in [Proposals -> (SUBSET Verifiers) \ {{}}]
    /\ {MaxModelRounds, MaxToolRounds, MaxRepeats, LoopRounds} \subseteq Nat \ {0}
    /\ MaxLoops \in Nat

VARIABLES
    goal,    \* goal_envelope_projection
    call,    \* tool invocations, and tool_invocation_goal_binding
    proof,   \* goal_completion_projection
    check,   \* goal_context_checkpoints
    loop,    \* the worker's thread
    run,     \* status of the run, its finish aside
    finish,  \* the newest finish event of the run
    loops,   \* times a worker took the run up
    asked    \* model answers, over all loops

vars == <<goal, call, proof, check, loop, run, finish, loops, asked>>

\* A receipt says that a call passed a verifier; None says that it passed none.
Receipts == [call : Calls, verifier : Verifiers \cup {None}]
Proofs == [revision : Revisions \cup {None}, receipts : SUBSET Receipts]
NoProof == [revision |-> None, receipts |-> {}]

NewCall == [state |-> "none", by |-> "loop", bound |-> None, gave |-> {}]
CallStates == [state : {"none", "running", "asked", "offered", "dropped",
                        "succeeded", "failed"},
               by : {"loop", "card", "nobody"},
               bound : Revisions \cup {None}, gave : SUBSET Verifiers]

GapCodes == {"unknown", "duplicate", "missing"}
Checks == [revision : Revisions \cup {None}, gaps : SUBSET GapCodes, blocked : BOOLEAN,
           models : Nat, rounds : Nat, repeats : Nat, spent : BOOLEAN,
           seen : SUBSET Receipts]
NoCheck == [revision |-> None, gaps |-> {}, blocked |-> FALSE, models |-> 0, rounds |-> 0,
            repeats |-> 0, spent |-> FALSE, seen |-> {}]

Steps == {"idle", "prompt", "model", "answer", "reconcile", "round", "tool",
          "last", "observe", "commit", "failed"}
IdleLoop == [pc |-> "idle", context |-> None, proposal |-> None, acts |-> FALSE,
             round |-> 0, new |-> 0, ended |-> FALSE, bad |-> FALSE, stopped |-> FALSE]
LoopStates == [pc : Steps, context : Contexts \cup {None}, proposal : Proposals \cup {None},
               acts : BOOLEAN, round : Nat, new : Nat, ended : BOOLEAN,
               bad : BOOLEAN, stopped : BOOLEAN]

NoFinish == [status |-> "none", receipt |-> NoProof]

Init ==
    /\ goal = NoGoal
    /\ call = [c \in Calls |-> NewCall]
    /\ proof = NoProof
    /\ check = NoCheck
    /\ loop = IdleLoop
    /\ run = "queued"
    /\ finish = NoFinish
    /\ loops = 0
    /\ asked = 0

-----------------------------------------------------------------------------
(* Evidence and completion *)

\* What a finished call proves of a goal.  A failed call carries no evidence
\* at all, so it leaves an unknown receipt, never a failed one.
ReceiptsOf(c, p, gave) ==
    LET matched == gave \cap VerifiersOf[p]
    IN IF matched = {} THEN {[call |-> c, verifier |-> None]}
       ELSE {[call |-> c, verifier |-> v] : v \in matched}

\* Mutant: a verifier that has passed once is enough for all.
FailuresOfAny(p, receipts) ==
    {code \in {"missing"} : \A v \in VerifiersOf[p] : \A r \in receipts : r.verifier # v}

\* The failure codes of completion_projection; none means complete.
Failures(p, receipts) ==
    {code \in GapCodes :
       \/ code = "unknown" /\ \E r \in receipts : r.verifier = None
       \/ code = "duplicate" /\ \E r, s \in receipts :
              r.call # s.call /\ r.verifier = s.verifier /\ r.verifier # None
       \/ code = "missing" /\ \E v \in VerifiersOf[p] : \A r \in receipts : r.verifier # v}

\* goal_completion_projection: a row of another revision is not read.
Evidence == IF IsFrozen(goal) /\ proof.revision = goal.revision THEN proof.receipts ELSE {}

Proved ==
    /\ IsFrozen(goal)
    /\ proof.revision = goal.revision
    /\ Failures(goal.proposal, proof.receipts) = {}

\* A checkpoint of another goal, or of one that is no longer frozen, is an error.
Drifted == check.revision # None /\ ~(IsFrozen(goal) /\ check.revision = goal.revision)

Classification ==
    IF goal.status = "absent" THEN "goal_less"
    ELSE IF Proved THEN "complete"
    ELSE IF Drifted THEN "error"
    ELSE "blocked"

\* Mutant: a completed finish is believed for ever.
FinishIsBelieved == TRUE

\* agent_run_finish_restart_block_reason, asked on every read of the run.
FinishIsCurrent ==
    \/ Classification = "goal_less" /\ finish.receipt = NoProof
    \/ Classification = "complete" /\ finish.receipt = proof

Shown ==
    IF finish.status = "none" THEN run
    ELSE IF finish.status = "completed" /\ ~FinishIsCurrent THEN "blocked"
    ELSE finish.status

MayTransition == Shown \notin {"completed", "failed"}
Transition(s) == run' = IF MayTransition THEN s ELSE run

-----------------------------------------------------------------------------
(* The checkpoint *)

Gaps == Failures(goal.proposal, Evidence)

\* Mutant: the blocker is worked out anew at each observation.
AdvancedAfresh(new, tools, over) ==
    [check EXCEPT !.revision = goal.revision, !.gaps = Gaps,
        !.models = @ + new, !.seen = @ \cup Evidence,
        !.blocked = tools /\ check.seen \cup Evidence = {}]

\* ContextCheckpoint::advance: new model answers are charged, a round of tools
\* counts when a call ended in it, and a blocker stays.  over stands for the
\* elapsed time, the tokens and the cost, of which any report may be too many.
Advanced(new, tools, over) ==
    LET models == check.models + new
        rounds == check.rounds + IF tools THEN 1 ELSE 0
        seen == check.seen \cup Evidence
        spent == check.spent \/ over
        repeats == IF ~tools THEN check.repeats
                   ELSE IF check.revision # None /\ check.gaps = Gaps /\ seen = check.seen
                   THEN check.repeats + 1 ELSE 0
        exhausted == models >= MaxModelRounds \/ rounds >= MaxToolRounds \/ spent
        stuck == tools /\ (seen = {} \/ repeats >= MaxRepeats)
    IN [revision |-> goal.revision, gaps |-> Gaps,
        blocked |-> check.blocked \/ (Gaps # {} /\ (exhausted \/ stuck)),
        models |-> models, rounds |-> rounds, repeats |-> repeats, spent |-> spent,
        seen |-> seen]

\* A blocked checkpoint is valid only with the gaps it was blocked with.
ObservationFails ==
    IsFrozen(goal) /\ (Drifted \/ (check.blocked /\ Gaps # check.gaps))

\* record_goal_context_checkpoint, when it does not fail: nothing is recorded
\* (and no answer is charged) without a frozen goal.
Observe(new, tools, over) ==
    check' = IF IsFrozen(goal) THEN Advanced(new, tools, over) ELSE check
Uncharged == IF IsFrozen(goal) THEN 0 ELSE loop.new
Told == IsFrozen(goal) /\ check'.blocked

-----------------------------------------------------------------------------
(* The worker's loop *)

Goto(pc) == loop' = [loop EXCEPT !.pc = pc]
Rest == UNCHANGED <<loops, asked>>

\* The claim of a queued run.  The context is read once per loop.
LoopStarts(ctx) ==
    /\ loop.pc = "idle"
    /\ Shown = "queued"
    /\ loops < MaxLoops
    /\ loop' = [IdleLoop EXCEPT !.pc = "prompt", !.context = ctx]
    /\ run' = "running"
    /\ loops' = loops + 1
    /\ UNCHANGED <<goal, call, proof, check, finish, asked>>

\* agent_prompt_with_kernel_context_checkpoint, before every model call.
Prompt ==
    /\ loop.pc = "prompt"
    /\ IF ObservationFails
       THEN Goto("failed") /\ UNCHANGED check
       ELSE Goto("model") /\ Observe(0, FALSE, FALSE)
    /\ UNCHANGED <<goal, call, proof, run, finish>> /\ Rest

ModelAnswers(p, acts) ==
    /\ loop.pc = "model"
    /\ loop' = [loop EXCEPT !.pc = "answer", !.proposal = p, !.acts = acts, !.new = @ + 1]
    /\ asked' = asked + 1
    /\ UNCHANGED <<goal, call, proof, check, run, finish, loops>>

\* The first answer is needed; without a later one the loop ends with what it has.
ModelFails ==
    /\ loop.pc = "model"
    /\ Goto(IF loop.round = 0 THEN "failed" ELSE "last")
    /\ UNCHANGED <<goal, call, proof, check, run, finish>> /\ Rest

\* The observations InitialModel and AfterModelFollowup, and what follows.
ObserveAnswer(over) ==
    /\ loop.pc = "answer"
    /\ IF ObservationFails
       THEN Goto("failed") /\ UNCHANGED check
       ELSE /\ Observe(loop.new, FALSE, over)
            /\ LET halts == Told \/ loop.round >= LoopRounds
               IN loop' = [loop EXCEPT !.new = Uncharged, !.stopped = Told,
                      !.bad = @ \/ (halts /\ loop.acts),
                      !.pc = IF halts \/ ~loop.acts THEN "last" ELSE "reconcile"]
    /\ UNCHANGED <<goal, call, proof, run, finish>> /\ Rest

\* The projection exists once a proposal was submitted, and takes its place.
\* For a frozen goal the answer may also ask for capabilities, and the grouped
\* approval of them may be refused, which fails the loop.
Reconcile ==
    /\ loop.pc \in {"reconcile", "last"}
    /\ goal' = IF loop.proposal = None THEN goal
               ELSE Reconciled(goal, loop.proposal, loop.context)
    /\ \E pc \in {IF loop.pc = "reconcile" THEN "round" ELSE "observe"}
                  \cup IF IsFrozen(goal') THEN {"failed"} ELSE {} :
         loop' = [loop EXCEPT !.proposal = None, !.ended = FALSE, !.pc = pc,
                      !.round = IF loop.pc = "reconcile" THEN @ + 1 ELSE @]
    /\ UNCHANGED <<call, proof, check, run, finish>> /\ Rest

\* A running invocation is bound to the goal, which must be frozen if it exists.
MayRun == goal.status = "absent" \/ IsFrozen(goal)
Running(c, who) ==
    call' = [call EXCEPT ![c] = [NewCall EXCEPT !.state = "running", !.by = who,
                                                !.bound = goal.revision]]

LoopStartsCall(c) ==
    /\ loop.pc = "round"
    /\ call[c].state = "none"
    /\ MayTransition
    /\ IF MayRun THEN Running(c, "loop") /\ Goto("tool") /\ Transition("running")
       ELSE Goto("failed") /\ UNCHANGED <<call, run>>
    /\ UNCHANGED <<goal, proof, check, finish>> /\ Rest

\* Policy, a resource in use or a finished run: the invocation ends at once.
LoopIsRefused ==
    /\ loop.pc = "round"
    /\ ~loop.bad \/ ~loop.ended
    /\ loop' = [loop EXCEPT !.ended = TRUE, !.bad = TRUE]
    /\ Transition("blocked")
    /\ UNCHANGED <<goal, call, proof, check, finish>> /\ Rest

\* The same request succeeded before: its invocation is the answer.
LoopReuses(c) ==
    /\ loop.pc = "round"
    /\ MayTransition
    /\ call[c].state = "succeeded"
    /\ loop' = [loop EXCEPT !.ended = TRUE]
    /\ UNCHANGED <<goal, call, proof, check, run, finish>> /\ Rest

LoopAsks(c) ==
    /\ loop.pc = "round"
    /\ call[c].state = "none"
    /\ MayTransition
    /\ call' = [call EXCEPT ![c].state = "asked"]
    /\ Transition("waiting")
    /\ UNCHANGED <<goal, proof, check, loop, finish>> /\ Rest

\* Mutant: a call counts for the goal that is frozen when it ends.
BoundAtEnd(c) == IsFrozen(goal)

\* The check of record_goal_completion_for_tool_invocation.
BoundToGoal(c) == IsFrozen(goal) /\ call[c].bound = goal.revision

Ended(c, gave, ok) ==
    [call EXCEPT ![c].state = IF ok THEN "succeeded" ELSE "failed",
                 ![c].gave = IF ok THEN gave ELSE {}]
Credited(c, gave, ok) ==
    [revision |-> goal.revision,
     receipts |-> Evidence \cup ReceiptsOf(c, goal.proposal, IF ok THEN gave ELSE {})]

\* The two writes at the end of a call: its terminal record, then its evidence.
EndCall(c, gave, ok) ==
    /\ call' = Ended(c, gave, ok)
    /\ proof' = IF BoundToGoal(c) THEN Credited(c, gave, ok) ELSE proof
EvidenceRefused(c) == goal.status # "absent" /\ ~BoundToGoal(c)

LoopEndsCall(c, gave, ok) ==
    /\ loop.pc = "tool"
    /\ call[c].state = "running" /\ call[c].by = "loop"
    /\ EndCall(c, gave, ok)
    /\ IF EvidenceRefused(c) \/ ~MayTransition
       THEN Goto("failed") /\ UNCHANGED run
       ELSE /\ loop' = [loop EXCEPT !.pc = "round", !.ended = TRUE, !.bad = @ \/ ~ok]
            /\ Transition(IF ok THEN "running" ELSE "blocked")
    /\ UNCHANGED <<goal, check, finish>> /\ Rest

\* The observation AfterToolRound; without tool output there is nothing to ask.
EndRound(over) ==
    /\ loop.pc = "round"
    /\ IF ObservationFails
       THEN Goto("failed") /\ UNCHANGED check
       ELSE /\ Observe(loop.new, loop.ended, over)
            /\ \E pc \in {"last"} \cup IF loop.ended /\ ~Told THEN {"prompt"} ELSE {} :
                 loop' = [loop EXCEPT !.new = Uncharged, !.stopped = Told, !.pc = pc]
    /\ UNCHANGED <<goal, call, proof, run, finish>> /\ Rest

\* The observation Final.  The loop's own blocker outlives a goal that changed.
ObserveLast(over) ==
    /\ loop.pc = "observe"
    /\ IF ObservationFails
       THEN Goto("failed") /\ UNCHANGED check
       ELSE /\ Observe(loop.new, FALSE, over)
            /\ loop' = [loop EXCEPT !.new = Uncharged, !.pc = "commit",
                            !.stopped = @ \/ Told]
    /\ UNCHANGED <<goal, call, proof, run, finish>> /\ Rest

-----------------------------------------------------------------------------
(* The worker's verdict *)

Asks == {c \in Calls : call[c].state = "asked"}
CardsBecome(s) == call' = [c \in Calls |-> IF c \in Asks THEN [call[c] EXCEPT !.state = s]
                                           ELSE call[c]]
Leave == loop' = IdleLoop

\* A blocker turns open actions into blocked ones, and their cards are gone.
CommitWaits ==
    /\ loop.pc = "commit"
    /\ Asks # {} /\ ~loop.stopped
    /\ CardsBecome("offered")
    /\ Transition("waiting")
    /\ Leave
    /\ UNCHANGED <<goal, proof, check, finish, loops, asked>>

CommitBlocks ==
    /\ loop.pc = "commit"
    /\ IF loop.stopped THEN loop.bad \/ Asks # {} ELSE loop.bad /\ Asks = {}
    /\ CardsBecome("dropped")
    /\ Transition("blocked")
    /\ Leave
    /\ UNCHANGED <<goal, proof, check, finish, loops, asked>>

\* finish_agent_run_with_completion_guard.  When the classification itself
\* fails, the worker leaves with that error and without any word on the run.
CommitCompletes ==
    /\ loop.pc = "commit"
    /\ ~loop.bad /\ Asks = {}
    /\ \/ /\ Classification \in {"goal_less", "complete"}
          /\ finish' = [status |-> "completed",
                        receipt |-> IF Classification = "complete" THEN proof ELSE NoProof]
          /\ UNCHANGED run
       \/ /\ Classification = "blocked"
          /\ Transition("blocked")
          /\ UNCHANGED finish
       \/ /\ Classification = "error"
          /\ UNCHANGED <<run, finish>>
    /\ Leave
    /\ UNCHANGED <<goal, call, proof, check, loops, asked>>

FinishFailed ==
    /\ loop.pc = "failed"
    /\ finish' = [status |-> "failed", receipt |-> NoProof]
    /\ CardsBecome("dropped")
    /\ Leave
    /\ UNCHANGED <<goal, proof, check, run, loops, asked>>

-----------------------------------------------------------------------------
(* Approved cards, the sweep, and the end of the process *)

CardRuns == \E c \in Calls : call[c].state = "running" /\ call[c].by = "card"

CardStarts(c) ==
    /\ call[c].state = "offered"
    /\ ~CardRuns
    /\ MayTransition /\ MayRun
    /\ Running(c, "card")
    /\ Transition("running")
    /\ UNCHANGED <<goal, proof, check, loop, finish>> /\ Rest

\* record_completed_agent_tool_execution and finish_agent_run_after_resumed_tool:
\* a success queues the run for another loop, a failure fails it.
CardEnds(c, gave, ok) ==
    /\ call[c].state = "running" /\ call[c].by = "card"
    /\ EndCall(c, gave, ok)
    /\ IF EvidenceRefused(c) \/ ~MayTransition THEN UNCHANGED <<run, finish>>
       ELSE IF ok THEN run' = "queued" /\ UNCHANGED finish
       ELSE finish' = [status |-> "failed", receipt |-> NoProof] /\ UNCHANGED run
    /\ UNCHANGED <<goal, check, loop>> /\ Rest

\* recover_expired_agent_runs, once the lease of a run without worker ran out.
Sweep ==
    /\ loop.pc = "idle"
    /\ Shown = "running"
    /\ run' = IF \E c \in Calls : call[c].state = "running" THEN "blocked" ELSE "queued"
    /\ UNCHANGED <<goal, call, proof, check, loop, finish>> /\ Rest

Orphans(k) ==
    [c \in Calls |->
        IF k[c].state = "running" THEN [k[c] EXCEPT !.by = "nobody"]
        ELSE IF k[c].state = "asked" THEN [k[c] EXCEPT !.state = "dropped"] ELSE k[c]]

Stop ==
    /\ loop' = IdleLoop
    /\ UNCHANGED <<check, run, finish, loops, asked>>

\* The process stops between two writes ...
Crash ==
    /\ loop.pc # "idle" \/ CardRuns
    /\ Stop
    /\ call' = Orphans(call)
    /\ UNCHANGED <<goal, proof>>

\* ... of the three that make a goal, ...
CrashInReconcile ==
    /\ loop.pc \in {"reconcile", "last"}
    /\ loop.proposal # None
    /\ Stop
    /\ goal' \in HalfReconciled(goal, loop.proposal, loop.context)
    /\ call' = Orphans(call)
    /\ UNCHANGED proof

\* ... or after the terminal record of a call, before its evidence or after it.
CrashInEnd(c, gave, ok) ==
    /\ call[c].state = "running" /\ call[c].by # "nobody"
    /\ Stop
    /\ call' = Orphans(Ended(c, gave, ok))
    /\ proof' \in {proof} \cup IF BoundToGoal(c) THEN {Credited(c, gave, ok)} ELSE {}
    /\ UNCHANGED goal

Next ==
    \/ \E ctx \in Contexts : LoopStarts(ctx)
    \/ Prompt
    \/ \E p \in Proposals \cup {None}, acts \in BOOLEAN : ModelAnswers(p, acts)
    \/ ModelFails
    \/ \E over \in BOOLEAN : ObserveAnswer(over) \/ EndRound(over) \/ ObserveLast(over)
    \/ Reconcile
    \/ \E c \in Calls : LoopStartsCall(c) \/ LoopReuses(c) \/ LoopAsks(c) \/ CardStarts(c)
    \/ LoopIsRefused
    \/ \E c \in Calls, gave \in SUBSET Verifiers, ok \in BOOLEAN :
         LoopEndsCall(c, gave, ok) \/ CardEnds(c, gave, ok) \/ CrashInEnd(c, gave, ok)
    \/ CommitWaits \/ CommitBlocks \/ CommitCompletes
    \/ FinishFailed
    \/ Sweep
    \/ Crash \/ CrashInReconcile

Spec == Init /\ [][Next]_vars

-----------------------------------------------------------------------------
(* Properties *)

TypeOK ==
    /\ goal \in Goals
    /\ call \in [Calls -> CallStates]
    /\ proof \in Proofs
    /\ check \in Checks
    /\ loop \in LoopStates
    /\ loop.pc # "idle" => loop.context \in Contexts
    /\ run \in {"queued", "running", "blocked", "waiting"}
    /\ finish \in [status : {"none", "completed", "failed"}, receipt : Proofs]
    /\ loops \in Nat
    /\ asked \in Nat

\* A run that is shown as completed and has a goal has earned it: each verifier of
\* the goal that is frozen now was passed by a call that started under this very
\* revision, and by one alone, whatever was proposed, restarted or finished late.
ShownIsEarned ==
    (Shown = "completed" /\ goal.status # "absent") =>
        /\ IsFrozen(goal)
        /\ \A x \in VerifiersOf[goal.proposal] :
             \E c \in Calls :
                /\ call[c].state = "succeeded"
                /\ call[c].bound = goal.revision
                /\ x \in call[c].gave
                /\ \A d \in Calls \ {c} :
                     [call |-> d, verifier |-> x] \notin proof.receipts

\* Evidence is of calls that were started under the revision it stands for, and
\* says no more than they gave, although the goal may change under a call.
EvidenceIsBound ==
    \A r \in proof.receipts :
        /\ call[r.call].state \in {"succeeded", "failed"}
        /\ call[r.call].bound = proof.revision
        /\ r.verifier # None =>
              call[r.call].state = "succeeded" /\ r.verifier \in call[r.call].gave

\* A model answer is charged to the budget once, however many observations
\* report it, over all loops and restarts.
ChargedOnce == check.models + loop.new <= asked

\* The stop is final: a blocked checkpoint stays blocked and keeps its goal and
\* its gaps, and no later loop or restart gives a budget back.
StopIsFinal ==
    [][check.revision # None =>
         /\ check'.revision = check.revision
         /\ check'.models >= check.models /\ check'.rounds >= check.rounds
         /\ check.blocked => check'.blocked /\ check'.gaps = check.gaps]_vars

Observed == INSTANCE AgentStatus
SeenAs(s) == IF s = "waiting" THEN "waiting_for_confirmation" ELSE s

\* What an automation sees of a run that has a goal: an ended run is ended, but
\* a completed one may read blocked again, when the finish is not believed any
\* more; nothing else opens it.
ShownMovesOnly ==
    [][Shown' = Shown \/ Observed!AgentMove(SeenAs(Shown), SeenAs(Shown'))]_vars
=============================================================================
