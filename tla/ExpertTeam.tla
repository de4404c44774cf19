----------------------------- MODULE ExpertTeam -----------------------------
(***************************************************************************)
(* One parent run and its expert team: the plan a parent's worker records, *)
(* the child attempts claimed when their dependencies passed, their        *)
(* immutable results, the bounded retries and the merge that the desktop's *)
(* tick asks for, and the parent's synthesis (kernel/expert_team.rs, the   *)
(* expert part of EventStore and of the background worker, expert-team.ts).*)
(*                                                                         *)
(* Parent and attempts are runs of RunLedger, claimed, swept and finished  *)
(* as in AgentRuns; of a tool only the transitions it appends are kept.    *)
(* The parent's prompt never changes, so its input revision is left out.   *)
(***************************************************************************)
EXTENDS RunLedger, Integers, FiniteSets

CONSTANTS
    Parent,       \* the parent run
    Experts,      \* keys of the planned experts
    DependsOn,    \* expert -> the experts it depends on
    Conflicting,  \* pairs of experts whose resources conflict
    Production,   \* the expert with the production role, if any
    Review,       \* the expert with the review role, if any
    MaxAttempts,  \* expert -> attempts its retry policy allows
    MaxParallel,  \* AGENT_RUN_MAX_PARALLEL_SUBAGENTS
    TeamBudget,   \* EXPERT_TEAM_MAX_TOTAL_ATTEMPTS
    Revisions,    \* contents an expert may return
    ToolRuns,     \* bound: runs whose responses call a tool
    LapsingRuns,  \* bound: runs whose lease may run out
    Workers

ASSUME ExpertTeamAssumption ==
    /\ Experts # {}
    /\ DependsOn \in [Experts -> SUBSET Experts]
    /\ Conflicting \subseteq Experts \X Experts
    /\ MaxAttempts \in [Experts -> Nat \ {0}]
    /\ MaxParallel \in Nat
    /\ TeamBudget \in Nat
    /\ NoWorker \notin Workers
    /\ Parent \notin Experts \X Nat

Attempts == UNION {{k} \X (1..MaxAttempts[k]) : k \in Experts}
TeamRuns == {Parent} \cup Attempts

VARIABLES
    ledger,    \* run -> its events, see RunLedger
    result,    \* attempt -> its recorded result
    staged,    \* attempt -> the content of its staging file
    receipt,   \* the parent's merge receipt
    teams,     \* number of plans recorded for the parent
    worker,    \* worker -> what its thread is doing
    lost,      \* runs with a tool invocation recorded as running by a dead process
    tick       \* the desktop's tick, between its snapshot and its commands

vars == <<ledger, result, staged, receipt, teams, worker, lost, tick>>

\* One revision, or none.
Contents == {{}} \cup {{v} : v \in Revisions}

NoResult  == [known |-> FALSE, passed |-> FALSE, rev |-> {}, target |-> {}]
NoReceipt == [known |-> FALSE, production |-> {}, rev |-> {}, review |-> {}]

\* rev is the output revision; target the revision a review verdict accepts.
Results == [known : BOOLEAN, passed : BOOLEAN, rev : Contents, target : Contents]

IdleWorker == [pc |-> "idle", run |-> Parent, out |-> "none", res |-> NoResult]
IdleTick   == [pc |-> "idle", synthesize |-> FALSE]

WorkerStates ==
    [pc  : {"idle", "prompt", "model", "tool", "ending", "build", "record", "commit"},
     run : TeamRuns,
     out : {"none", "plan", "result", "blocked"} \cup TerminalStatus, res : Results]

Init ==
    /\ ledger   = [r \in TeamRuns |-> IF r = Parent THEN StartRun(NoLedger) ELSE NoLedger]
    /\ result   = [a \in Attempts |-> NoResult]
    /\ staged   = [a \in Attempts |-> {}]
    /\ receipt  = NoReceipt
    /\ teams    = 0
    /\ worker   = [w \in Workers |-> IdleWorker]
    /\ lost     = {}
    /\ tick     = IdleTick

teamVars == <<result, staged, receipt, teams>>

-----------------------------------------------------------------------------
(* What the store derives from the runs. *)

Children == {a \in Attempts : ledger[a].started}

\* The newest attempt of an expert.
Latest == {a \in Children : \A b \in Children : b[1] = a[1] => b[2] <= a[2]}

Running(L) == {a \in Attempts : StatusOf(L[a]) = "running"}

Passed(a) == result[a].known /\ result[a].passed

Indeterminate(r) == r \in lost \/ \E w \in Workers : worker[w].pc = "tool" /\ worker[w].run = r

Swept == [r \in TeamRuns |-> Recovered(ledger[r], Indeterminate(r))]

\* Mutant: a dependency that ended is enough.
DependencyEnded(L, k) ==
    \E d \in Latest : d[1] = k /\ StatusOf(L[d]) \in TerminalStatus

DependencyPassed(L, k) ==
    \E d \in Latest : d[1] = k /\ StatusOf(L[d]) = "completed" /\ Passed(d)

\* expert_attempt_ready
Ready(r, L) ==
    r # Parent =>
        /\ Cardinality(Running(L)) < MaxParallel
        /\ \A k \in DependsOn[r[1]] : DependencyPassed(L, k)
        /\ \A b \in Running(L) \ {r} : <<r[1], b[1]>> \notin Conflicting

-----------------------------------------------------------------------------
(* The clock, cancellation, and the claim. *)

LeaseExpires(r) ==
    /\ r \in LapsingRuns
    /\ ledger[r].live
    /\ ledger' = [ledger EXCEPT ![r] = ExpireLease(@)]
    /\ UNCHANGED <<teamVars, worker, lost, tick>>

\* request_agent_run_tree_cancel
CancelTree ==
    /\ StatusOf(ledger[Parent]) \notin TerminalStatus
    /\ ledger' = [r \in TeamRuns |->
                    IF StatusOf(ledger[r]) \notin TerminalStatus \cup {"absent"}
                    THEN AppendCancel(ledger[r]) ELSE ledger[r]]
    /\ UNCHANGED <<teamVars, worker, lost, tick>>

\* request_agent_run_cancel_record on a child
CancelChild(a) ==
    /\ ledger[a].started
    /\ ledger' = [ledger EXCEPT ![a] = AppendCancel(@)]
    /\ UNCHANGED <<teamVars, worker, lost, tick>>

\* claim_agent_run and claim_next_agent_run.  The latter takes the oldest of
\* the runs that the former may take.
Claim(w, r) ==
    /\ worker[w].pc = "idle"
    /\ Swept[r].started /\ StatusOf(Swept[r]) = "queued" /\ ~Swept[r].cancel
    /\ Ready(r, Swept)
    /\ ledger' = [Swept EXCEPT ![r] = AppendClaim(@, w)]
    /\ worker' = [worker EXCEPT ![w] =
                    [IdleWorker EXCEPT !.pc = IF r = Parent THEN "model" ELSE "prompt",
                                       !.run = r]]
    /\ UNCHANGED <<teamVars, lost, tick>>

SweepOnly ==
    /\ Swept # ledger
    /\ ledger' = Swept
    /\ UNCHANGED <<teamVars, worker, lost, tick>>

-----------------------------------------------------------------------------
(* A worker's operation. *)

\* expert_attempt_execution_prompt reads the dependencies again, in a store
\* operation of its own; its error leaves the run as it was claimed.
ReadPrompt(w) ==
    /\ worker[w].pc = "prompt"
    /\ worker' = [worker EXCEPT ![w] =
                    IF \A k \in DependsOn[@.run[1]] : DependencyPassed(ledger, k)
                    THEN [@ EXCEPT !.pc = "model"] ELSE IdleWorker]
    /\ UNCHANGED <<ledger, teamVars, lost, tick>>

\* heartbeat_agent_run_lease.  What a refusal leads to, an operation that
\* fails, is among the operation's outcomes anyway.
Heartbeat(w) ==
    LET l == ledger[worker[w].run] IN
    /\ worker[w].pc \in {"model", "tool"}
    /\ HoldsLiveLease(l, w)
    /\ StatusOf(l) \notin TerminalStatus \cup {"queued"}
    /\ ledger' = [ledger EXCEPT ![worker[w].run] = AppendClaim(@, w)]
    /\ UNCHANGED <<teamVars, worker, lost, tick>>

StartTool(w) ==
    /\ worker[w].pc = "model"
    /\ worker[w].run \in ToolRuns
    /\ MayTransition(ledger[worker[w].run])
    /\ ledger' = [ledger EXCEPT ![worker[w].run] = AppendTransition(@, "running")]
    /\ worker' = [worker EXCEPT ![w].pc = "tool"]
    /\ UNCHANGED <<teamVars, lost, tick>>

\* record_completed_agent_tool_execution, as in AgentRuns.
EndTool(w, ok) ==
    LET l == ledger[worker[w].run]
        fine == l.cancel \/ StatusOf(l) \notin TerminalStatus
    IN
    /\ worker[w].pc = "tool"
    /\ ledger' = [ledger EXCEPT ![worker[w].run] =
                    AppendTransition(@, IF ok THEN "running" ELSE "blocked")]
    /\ worker' = [worker EXCEPT ![w].pc = IF fine THEN "model" ELSE "ending",
                                ![w].out = IF fine THEN @ ELSE "failed"]
    /\ UNCHANGED <<teamVars, lost, tick>>

\* The operation returned: a parent's response proposes a plan, is complete,
\* or is blocked or waiting; an expert's response is judged when it is built.
Returns(w, out) ==
    /\ worker[w].pc = "model"
    /\ out \in IF worker[w].run = Parent
               THEN {"plan", "completed", "blocked", "failed"}
               ELSE {"result", "failed"}
    /\ worker' = [worker EXCEPT ![w].pc = "ending", ![w].out = out]
    /\ UNCHANGED <<ledger, teamVars, lost, tick>>

\* Mutant: a parent's response is judged as if it were an expert's.
ReadsCancelOnly(w) ==
    LET r == worker[w].run
        out == worker[w].out
    IN
    /\ worker[w].pc = "ending"
    /\ worker' = [worker EXCEPT
         ![w].pc  = IF out # "failed" /\ ~ledger[r].cancel THEN "build" ELSE "commit",
         ![w].out = IF out # "failed" /\ ledger[r].cancel THEN "cancelled" ELSE out]
    /\ UNCHANGED <<ledger, teamVars, lost, tick>>

\* agent_run_cancel_requested, then agent_run_has_subagents: a plan proposed
\* to a parent that has children is ignored.
ReadsCancel(w) ==
    LET r == worker[w].run
        out == worker[w].out
        ignored == out = "plan" /\ Children # {}
    IN
    /\ worker[w].pc = "ending"
    /\ \E rest \in {"completed", "blocked"} :
         worker' = [worker EXCEPT
           ![w].pc  = IF out = "result" /\ ~ledger[r].cancel THEN "build" ELSE "commit",
           ![w].out = IF out # "failed" /\ ledger[r].cancel THEN "cancelled"
                      ELSE IF ignored THEN rest ELSE out]
    /\ UNCHANGED <<ledger, teamVars, lost, tick>>

\* The production results a review may be judged against: the newest attempt
\* that has one.
ReviewedProduction ==
    {p \in Attempts : /\ p[1] = Production /\ result[p].known
                      /\ \A b \in Attempts : (b[1] = Production /\ result[b].known) => b[2] <= p[2]}

\* build_expert_attempt_result: production writes its staging file, whether or
\* not its gates pass; a review passes only if it accepts the production
\* revision recorded last.
Build(w, ok, rev, target) ==
    LET a == worker[w].run
        exact == \E p \in ReviewedProduction : result[p].rev = target
    IN
    /\ worker[w].pc = "build"
    /\ a[1] # Production => rev = {}
    /\ a[1] # Review => target = {}
    /\ a[1] = Production /\ ok => rev # {}
    /\ a[1] = Review /\ ok => target # {} /\ exact
    /\ worker' = [worker EXCEPT ![w].pc = "record",
                                ![w].res = [known |-> TRUE, passed |-> ok, rev |-> rev,
                                            target |-> target]]
    /\ staged' = IF rev # {} THEN [staged EXCEPT ![a] = rev] ELSE staged
    /\ UNCHANGED <<ledger, result, receipt, teams, lost, tick>>

\* Mutant: a later result replaces the recorded one.
RecordResultAgain(w) ==
    LET a == worker[w].run IN
    /\ worker[w].pc = "record"
    /\ result' = [result EXCEPT ![a] = worker[w].res]
    /\ worker' = [worker EXCEPT ![w].pc = "commit", ![w].res = NoResult,
                                ![w].out = IF worker[w].res.passed THEN "completed" ELSE "failed"]
    /\ UNCHANGED <<ledger, staged, receipt, teams, lost, tick>>

\* append_expert_attempt_result: an attempt that has a result is refused, and
\* the worker stops without a finish event.
RecordResult(w) ==
    LET a == worker[w].run IN
    /\ worker[w].pc = "record"
    /\ IF result[a].known
       THEN /\ worker' = [worker EXCEPT ![w] = IdleWorker]
            /\ UNCHANGED result
       ELSE /\ result' = [result EXCEPT ![a] = worker[w].res]
            /\ worker' = [worker EXCEPT
                 ![w].pc = "commit", ![w].res = NoResult,
                 ![w].out = IF worker[w].res.passed THEN "completed" ELSE "failed"]
    /\ UNCHANGED <<ledger, staged, receipt, teams, lost, tick>>

\* Mutant: the store trusts the worker's earlier look at the children.
PlanTeamTwice(w) ==
    /\ worker[w].pc = "commit" /\ worker[w].out = "plan"
    /\ ledger' = [r \in TeamRuns |->
                    IF r # Parent /\ r[2] = 1 THEN StartRun(ledger[r]) ELSE ledger[r]]
    /\ teams'  = teams + 1
    /\ worker' = [worker EXCEPT ![w].out = "blocked"]
    /\ UNCHANGED <<result, staged, receipt, lost, tick>>

\* append_expert_team_runs, one transaction.  A refusal ends the worker and
\* leaves the parent as it is.
PlanTeam(w) ==
    /\ worker[w].pc = "commit" /\ worker[w].out = "plan"
    /\ IF StatusOf(ledger[Parent]) \in {"queued", "running"} /\ Children = {}
       THEN /\ ledger' = [r \in TeamRuns |->
                            IF r # Parent /\ r[2] = 1 THEN StartRun(ledger[r]) ELSE ledger[r]]
            /\ teams'  = teams + 1
            /\ worker' = [worker EXCEPT ![w].out = "blocked"]
       ELSE /\ worker' = [worker EXCEPT ![w] = IdleWorker]
            /\ UNCHANGED <<ledger, teams>>
    /\ UNCHANGED <<result, staged, receipt, lost, tick>>

\* The last store operation: a finish, or the transition of a blocked parent.
\* A goal that is not verified turns a parent's completion into a transition.
Commit(w) ==
    LET r == worker[w].run
        out == worker[w].out
    IN
    /\ worker[w].pc = "commit" /\ out # "plan"
    /\ \/ /\ out \in TerminalStatus
          /\ ledger' = [ledger EXCEPT ![r] = AppendFinish(@, out)]
       \/ /\ out = "blocked" \/ (out = "completed" /\ r = Parent)
          /\ ledger' = [ledger EXCEPT ![r] = AppendTransition(@, "blocked")]
    /\ worker' = [worker EXCEPT ![w] = IdleWorker]
    /\ UNCHANGED <<teamVars, lost, tick>>

-----------------------------------------------------------------------------
(* The desktop's tick. *)

\* blockedParentsWithTerminalChildren and expertTeamCanSynthesize, on a
\* snapshot of the records.
TickReads ==
    /\ tick.pc = "idle"
    /\ StatusOf(ledger[Parent]) = "blocked"
    /\ Children # {}
    /\ \A a \in Children : StatusOf(ledger[a]) \in TerminalStatus
    /\ tick' = [pc |-> "retry",
                synthesize |-> \A a \in Latest : StatusOf(ledger[a]) = "completed" /\ Passed(a)]
    /\ UNCHANGED <<ledger, teamVars, worker, lost>>

\* append_due_expert_retries and append_expert_retry.  The total attempt
\* budget refuses a retry; that is an error, like everything after it.
Failed == {a \in Latest : StatusOf(ledger[a]) \in {"failed", "cancelled"}}

\* Mutant: a recorded result is not looked at.
RetryableAnyway(a) == a[2] < MaxAttempts[a[1]]

Retryable(a) == ~Passed(a) /\ a[2] < MaxAttempts[a[1]]

Due == {a \in Failed : Retryable(a)}

NextAttempt(a) == <<a[1], a[2] + 1>>

\* queue_expert_team_retries: the next attempts of the experts that failed, as
\* many as the budget allows, or a transition of the parent when a failure
\* cannot be retried.
TickRetries ==
    /\ tick.pc = "retry"
    /\ \E started \in SUBSET Due :
         /\ started = Due \/ Cardinality(Children) + Cardinality(started) = TeamBudget
         /\ Cardinality(Children) + Cardinality(started) <= TeamBudget
         /\ ledger' = [r \in TeamRuns |->
                         IF \E a \in started : NextAttempt(a) = r THEN StartRun(ledger[r])
                         ELSE IF r = Parent /\ Due = {} /\ Failed # {}
                         THEN AppendTransition(ledger[r], "blocked")
                         ELSE ledger[r]]
    /\ tick' = IF Due = {} /\ tick.synthesize THEN [tick EXCEPT !.pc = "merge"] ELSE IdleTick
    /\ UNCHANGED <<teamVars, worker, lost>>

LatestOf(k) == {a \in Latest : a[1] = k}

\* The gates of queue_parent_agent_synthesis on the newest attempts.
Gated == Latest # {} /\ \A a \in Latest : StatusOf(ledger[a]) \in TerminalStatus /\ Passed(a)

\* Its further gate on a team with production: the staging file still holds
\* the recorded revision, and the review accepts exactly that revision.
Reviewed ==
    \/ LatestOf(Production) = {} /\ LatestOf(Review) = {}
    \/ \E p \in LatestOf(Production), v \in LatestOf(Review) :
           staged[p] = result[p].rev /\ result[v].target = result[p].rev

Merged ==
    IF receipt.known \/ LatestOf(Production) = {} THEN receipt
    ELSE [known |-> TRUE, production |-> LatestOf(Production), review |-> LatestOf(Review),
          rev |-> UNION {result[p].rev : p \in LatestOf(Production)}]

\* queue_parent_agent_synthesis: merge, then queue; or refuse.
TickMerges ==
    /\ tick.pc = "merge"
    /\ IF Gated /\ StatusOf(ledger[Parent]) = "blocked" /\ Reviewed
       THEN /\ receipt' = Merged
            /\ ledger'  = [ledger EXCEPT ![Parent] = AppendTransition(@, "queued")]
       ELSE UNCHANGED <<ledger, receipt>>
    /\ tick' = IdleTick
    /\ UNCHANGED <<result, staged, teams, worker, lost>>

-----------------------------------------------------------------------------
Crash ==
    /\ tick # IdleTick \/ \E w \in Workers : worker[w] # IdleWorker
    /\ worker' = [w \in Workers |-> IdleWorker]
    /\ tick'   = IdleTick
    /\ lost'   = lost \cup {worker[w].run : w \in {v \in Workers : worker[v].pc = "tool"}}
    /\ UNCHANGED <<ledger, teamVars>>

WorkerStep(w) ==
    \/ ReadPrompt(w) \/ Heartbeat(w)
    \/ StartTool(w) \/ \E ok \in BOOLEAN : EndTool(w, ok)
    \/ \E out \in {"plan", "completed", "blocked", "failed", "result"} : Returns(w, out)
    \/ ReadsCancel(w)
    \/ \E ok \in BOOLEAN, rev, target \in Contents : Build(w, ok, rev, target)
    \/ RecordResult(w)
    \/ PlanTeam(w)
    \/ Commit(w)

Next ==
    \/ \E r \in TeamRuns : LeaseExpires(r) \/ \E w \in Workers : Claim(w, r)
    \/ CancelTree \/ \E a \in Attempts : CancelChild(a)
    \/ SweepOnly
    \/ \E w \in Workers : WorkerStep(w)
    \/ TickReads \/ TickRetries \/ TickMerges
    \/ Crash

Spec == Init /\ [][Next]_vars

-----------------------------------------------------------------------------
\* Every variable keeps its type, and only an expert's worker is ever between
\* its prompt and its result.
TypeOK ==
    /\ ledger  \in [TeamRuns -> Ledgers(Workers)]
    /\ result  \in [Attempts -> Results]
    /\ staged  \in [Attempts -> Contents]
    /\ receipt \in [known : BOOLEAN, production : SUBSET Attempts, rev : Contents,
                    review : SUBSET Attempts]
    /\ teams   \in Nat
    /\ worker  \in [Workers -> WorkerStates]
    /\ lost    \subseteq TeamRuns
    /\ tick    \in [pc : {"idle", "retry", "merge"}, synthesize : BOOLEAN]
    /\ \A w \in Workers : worker[w].pc \in {"prompt", "build", "record"} => worker[w].run # Parent

\* append_expert_team_runs: a parent has one team, although two workers may
\* hold a plan for it, one of them on an expired lease.
OneTeam == teams <= 1

\* RELEASE_NOTES_v0.9.0: the parent is queued for its synthesis only while the
\* newest attempt of every expert has passed its gates, and neither a retry nor
\* a late worker can take that back.
SynthesisGated == ledger[Parent].trans = "queued" => \A a \in Latest : Passed(a)

\* The merge receipt names the newest production and review attempts, at the
\* revision production recorded and the review accepted, for ever.
MergeExact ==
    receipt.known =>
        /\ receipt.production = LatestOf(Production) /\ receipt.review = LatestOf(Review)
        /\ \A p \in receipt.production : Passed(p) /\ result[p].rev = receipt.rev
        /\ \A v \in receipt.review : Passed(v) /\ result[v].target = receipt.rev

\* An expert's result is built on dependencies that passed: whatever workers,
\* retries and crashes do, the newest attempt of each has a passed result.
BuiltOnPassed ==
    \A a \in Attempts : result[a].known =>
        \A k \in DependsOn[a[1]] : \E d \in Latest : d[1] = k /\ Passed(d)

Observed == INSTANCE AgentStatus

\* What an automation sees of a parent whose team works for it: the plan, the
\* merge that queues it and the transitions of the tick never take an end back.
\* An attempt that ended stays ended too, although it may still be cancelled
\* by name, which AgentStatus does not allow a completed run.
TeamMovesOnly ==
    [][\A r \in TeamRuns :
         LET s == StatusOf(ledger[r])
             t == StatusOf(ledger'[r])
         IN \/ s = t \/ s = "absent"
            \/ Observed!LedgerMove(s, t)
            \/ r # Parent /\ s = "completed" /\ t = "cancel_requested"]_vars

-----------------------------------------------------------------------------
Attended(r) == \E w \in Workers : worker[w].pc # "idle" /\ worker[w].run = r

LeaseRunsOut(r) ==
    /\ LeaseExpires(r)
    /\ \A w \in Workers : worker[w].pc \in {"model", "tool"} => worker[w].run # r

Poll == SweepOnly \/ \E w \in Workers, r \in TeamRuns : Claim(w, r)

FairSpec ==
    /\ Spec
    /\ WF_vars(Poll)
    /\ \A r \in TeamRuns : WF_vars(LeaseRunsOut(r))

\* RELEASE_NOTES_v0.2.1: after a restart, and the old lease's expiry, a run is
\* reclaimed.
ParentReclaimed ==
    (StatusOf(ledger[Parent]) = "running" /\ ~Attended(Parent))
        ~> (StatusOf(ledger[Parent]) # "running" \/ Attended(Parent))
=============================================================================
