# DS Agent: a TLA+ development

This directory models the durable core of DS Agent (`deepseek-agent-os`), a
Windows desktop agent: a React front end over a Rust kernel, and a SQLite store
behind one mutex that is the only thing to survive the process.  The modules are
translated from the Rust (and, for the timers, the TypeScript) sources; TLC
checks them on small instances and TLAPS proves the main results for every value
of the constants.

Paths below are relative to `src/apps/desktop/src-tauri/src/` (Rust) and
`src/apps/desktop/src/` (TypeScript).  `PROJECT.json` maps every definition to
the lines it models.

## 1. The system

### How its parts interact

Every Tauri command and every background worker takes `AppState`'s event-store
mutex for *one store operation at a time* and releases it around model calls and
most tool executors.  That sets the grain of the models: **a store operation is
one action; between two operations anything else may happen, the end of the
process included.**  There is no other lock: nothing fences a worker's later
writes by the lease it claimed under.

Four timers in `App.tsx` drive background work: the durable-queue tick (claims a
run, which sweeps expired leases first), the expert-team tick (retries, then
synthesis), the 30-second automation tick (mirror, then start what is due), and
the cards the user answers (approvals, undo).

### Inventory

State each part keeps, what it does, what is hard about it, what makes it right.

| Part | State | Operations | Hard | Right when |
|---|---|---|---|---|
| Agent-run ledger and queue (`kernel/agent_run.rs`, `event_store.rs` 10935-12540, `commands.rs` 9529-10250) | immutable events per run, folded on every read: start, claim, lease, queue, transition, finish, cancel | enqueue, claim, heartbeat, sweep, transition, finish, cancel | workers that lost their lease, sweeps, crash between any two operations | one worker per live lease; no replay of an interrupted tool; every cancel ends |
| Tool runtime and locks (`kernel/tool_runtime.rs`, `commands.rs` 2272-2810) | invocations, resource claims, verification | authorise, dispatch, record, renew, release | two executors on one workspace; a lock nobody frees | one writer per resource; a verified write is not repeated |
| Approvals (`event_store.rs` 14194-14480, `policy.rs`, `task_grouped_approval.rs`) | approval per exact request; grouped cards | ask, grant, reject, consume, resume | one grant used by worker and card | one grant starts its tool once |
| Expert teams (`kernel/expert_team.rs`, `event_store.rs` 212-280, 11069-12168, `commands.rs` 15511-15866) | child runs, attempt results, staging files, merge receipt | plan, claim when dependencies passed, record, retry, synthesise | retries and late results while the parent is woken | parent builds on passed results of the revision reviewed |
| Automations (`kernel/automation.rs`, `event_store.rs` 2271-2743, 14738-14775) | definitions, one row per trigger window | create, pause, run now, start due, mirror | downtime over several windows; runs that move on after they ended | no window twice, none forgotten, ended rows stay |
| Workspace undo (`kernel/workspace_undo.rs`, `event_store/workspace_undo.rs`) | a checkpoint row per file mutation, with preimage | intent, prepare, start, finish, claim, undo, recover | crash around an effect on files; other programs on the same files | rows tell the truth; undo once, exact, and spares others |
| Task goals (`kernel/goal_*.rs`, `event_store.rs` 10403-10885) | goal versions, evidence, continuation budget | version, verify, continue | completion against an old goal version | no completion without evidence for the goal it was claimed under |
| Grouped approvals (`event_store/grouped_approval.rs`) | card with revision, member states, expiry | offer, grant, execute, revise | members executed while the card changes | nothing runs on a grant of another revision |
| Computer use (`kernel/computer_use*.rs`, `event_store/computer_use.rs`) | session, lease, observation per step | begin, observe, act, verify, take over | user input between observation and action | no action on a stale observation; a restart marks steps unknown |
| Connector accounts, authorization (`connectors.rs`, `connectors/oauth.rs`, `event_store.rs` 3019-3416, 8132-9510) | account generation, one-shot sessions, credentials | connect, replace, disconnect, clean up | disconnect while calls are in flight | nothing of an old generation is written after disconnect |
| Connector sync (`connectors/sync.rs`, `event_store.rs` 3993-4970, 9797-10340) | cursor per stream, recovery jobs | plan, commit page, retry, resume | expired cursor, lost page, two workers | a page is applied once, under the cursor it was read from |
| Connector reads (`event_store/read_execution.rs`) | durable read queue with fences | enqueue, claim, complete, cancel | late completion of an expired claim | a fenced claim writes nothing |
| Connector drafts and mutations (`event_store/connector_draft.rs`, `event_store.rs` 6856-7900) | draft revision, invocation, reconciliation | review, send, reconcile | outcome unknown after a lost answer | a mutation is never sent twice |
| Attachments and landing (`connectors/landing*.rs`, `event_store.rs` 5191-6820) | reservations, landings, clean-up claims | reserve, land, quarantine, clean | crash between file and row | no landed file without a row, no clean-up of a live one |
| Revocation (`connectors/revocation.rs`, `event_store/revocation.rs`) | revocation job | begin, attempt, finish | only tests begin one in this version | - |
| App update, model credential, skills | receipt; vault entry; packages | install and first start; replace; enable | roll-back half-way | either the old or the new one, whole |

Parts with no protocol of their own (parsing, rendering, policies as pure checks,
prompt assembly, benchmarks, build scripts) are in `PROJECT.json` with the reason
why they are left out.

## 2. Plan

Ordered by what a user loses when it is wrong.

| | Module(s) | Content | State |
|---|---|---|---|
| M1 | `RunLedger`, `AgentRuns` | ledger projection; queue, leases, locks, approvals, crash | done, proved |
| M1b | `ExpertTeam` | teams over the same ledger | done, proved |
| M2 | `AgentStatus`, `Automation` | schedules over the status an agent run shows | done, proved |
| M3 | `WorkspaceUndo` | file checkpoints and one-shot undo | done, proved |
| M4 | `GoalLifecycle`, `TaskGoals` | goal revisions, evidence, the verdict that completes a run, the budgets of the context checkpoint | done, proved |
| M5 | `GroupedApproval` | one card for several requests, over the same goals | done, proved |
| M7 | `ChangePromise`, `ConnectedWork` | prepared mail and calendar changes: review, one send, uncertain outcomes, look-ups, account changes | done, proved |
| M9 | `ReadPromise`, `ReadQueue` | the connector read outbox, shown to implement what it promises | done, proved |
| M6 | `ComputerUse` | session, lease, observe-act-verify, take-over, restart | open |
| M8 | `ConnectorSync`, `ConnectorAccounts` | cursor compare-and-set, recovery jobs, disconnect; composed | open |
| M10 | `AttachmentLanding` | file landing and clean-up claims | open |
| M11 | `Receipts` | update receipt, credential replacement, skill install | open |
| M12 | `Schedules`, `Backoff` | `next_scheduled_at` with DST, retry times: pure operators against reference definitions | open |

Abstract specifications: a *run as its observer sees it* (`AgentStatus`: `AgentRuns`,
`ExpertTeam` and `TaskGoals` are proved to stay within it, and `Automation` is built on
it); an *asked and answered read* (`ReadPromise`: `ReadQueue` is checked and proved to
implement it); a *change that is made at most once* (`ChangePromise`: `ConnectedWork` is
checked and proved to implement it); still to state: a *register with a
compare-and-set* for sync cursors (M8).

## 3. The modules

| Module | Role |
|---|---|
| `RunLedger` | the event ledger of one run, appending events, the fold to a record |
| `AgentRuns` | queue, workers, tools, locks, approvals, cancel, crash |
| `ExpertTeam` | a parent, its experts' attempts, the tick, the merge |
| `AgentStatus` | the moves one run's status makes, as other parts see them |
| `Automation` | definitions, windows, rows, sweep |
| `WorkspaceUndo` | checkpoints of file changes, undo, other programs |
| `GoalLifecycle` | the goal of one task: what a proposal makes of it |
| `TaskGoals` | a run under its goal: model and tool rounds, evidence, checkpoint, finish |
| `GroupedApproval` | the cards of tasks, their requests, grants, claims and time |
| `ReadPromise` | what the read outbox promises of each read |
| `ReadQueue` | the outbox: rows, claims, worker, account, automation, restart |
| `ChangePromise` | what connected work promises of the change a run asks for |
| `ConnectedWork` | changes of a connected account: preparation, review, send, look-up |
| `MC...` | constants, symmetry and bounds of the instances |
| `...Proofs` | theorems about the module they are named for |

`AgentRuns` and `ExpertTeam` EXTEND `RunLedger`; `Automation` EXTENDS
`AgentStatus`, which `AgentRuns`, `ExpertTeam` and `TaskGoals` instance to state
`AgentMovesOnly`, `TeamMovesOnly` and `ShownMovesOnly`; `TaskGoals` and
`GroupedApproval` EXTEND `GoalLifecycle`; `ReadQueue` instances `ReadPromise` and
`ConnectedWork` instances `ChangePromise`.

### RunLedger and AgentRuns

A record is folded from the *newest event of each kind* and from *which kind is
newest*, so `RunLedger` keeps exactly that instead of a sequence of events.
`StatusOf` is the projection of `list_agent_run_records`: a finish wins, then the
newest of transition, claim and queue events, and a cancel request overrides all
but a failed or cancelled finish;
`LeaseHolder` is empty while the newest *transition* is queued, whatever was
claimed since, as in the code (event_store.rs:12452).  Time stamps are taken to
be in append order, and the window of the newest 500 or 1000 events to hold them
all.

`AgentRuns` has a thread per worker.  Claim, tool authorisation (which checks the
policy, the approval and the resource conflict, and records the invocation as
running), the end of the executor, reading the cancel request, and the commit are
separate store operations and separate actions; the model call and the tool
executor are the time in between.  `Heartbeat` covers the renewal of the run's
lease and of its resource claims; a refused heartbeat ends the worker's run in an
error.  `Crash` clears every thread and keeps the store; what an executor had
recorded as running stays and is owned by `Lost`.

Two operations commit several times under one hold of the mutex, and not always to
the end.  The start of a tool commits the claim, the running record and the
transition; `CrashInStart` stops between them, and leaves a claim of an invocation
that may still wait (its next start finds the lock its own: the claim is re-entrant)
or a record of one that never ran, owned by `Unstarted`.  The end of a tool commits
the outcome, the consumption of the approval, the evidence, the release and the
transition.  `CrashInEnd` stops between them; `WorkerEvidenceRefused` and
`ResumeEvidenceRefused` are the error of a goal that is not frozen, or was revised
since the start, which returns before the release (commands.rs:2738-2750).  So a lock
may outlive its invocation, until its lease runs out: `LocksReturn` is what holds.

A grant is one-shot or, for a capability below high risk, reusable by every request of
the capability (`Reusable`, `Standing`; of the agent's tools that ask, only the
screenshot's is).  A one-shot grant starts the invocation that waited for it (`Bind`),
and a start that a resource conflict blocks uses that invocation up.

Simplifications: only the newest approval card of a request is kept; one resume of an
approval at a time; the three lock sections of the app-update resume are used for every
resume; a completed answer is committed as completed or as blocked, the goal verdict
being either (`TaskGoals` has the verdict itself); asking for an approval is one step,
as a stop inside it leaves a request that no invocation waits for, which authorises
nothing; an error of the store itself in the middle of an operation, with the process
staying up, is not modelled (a stop at the same place is); the window of the
newest 500 invocations (event_store.rs:14572) is taken to hold them all.

### ExpertTeam

Two kinds of runs: the parent and attempts of experts.  A worker reads its prompt
(the results it builds on), runs, builds a result (content, or the revision a
review accepts), writes its staging file, records the result and commits; all are
separate steps.  The tick reads a snapshot, appends retries, then queues the
synthesis and writes the merge receipt.  Left out: the parent's prompt revision
(the prompt is immutable), and the ad hoc sub-agents the desktop never calls.

### Automation

`StartDue`, `Reconcile` and `RunNow` are one store command each; a sweep is
`Reconcile` then `StartDue` (App.tsx 2830-2850), and a refused mirror ends the
sweep before anything is started.  A schedule is a set of instants: the calendar
arithmetic of `next_scheduled_at` is M12.  The agent run behind a row is an
environment that makes any `AgentMove`.  That is a move of its ledger (`LedgerMove`)
or from completed back to blocked: a completed finish is shown only as long as its
receipt is what the evidence says (event_store.rs:12005), and a card that ends late adds
evidence.  So an end may be taken back, and `EndIsMirrored` says that an end is
mirrored, the mirroring is refused, or the end is no more.

### WorkspaceUndo

`execute_checkpointed_mutation` and `apply_workspace_undo` keep the store's mutex
from start to end, so one call is in flight (`job`), but each row write commits
alone: a crash, or a refused write, may come between any two steps.  Files are
identities with contents; the seven operations, their failure half-way, the seven
guards of an undo and its inverses are the code's, with the differences of the
Windows and the other builds (`Windows`): what the undo holds open against other
programs (`Held`, `WriteHeld`) and what a rename replaces.  Other programs make,
write, remove and move files at any time.  The row's revision is left out: with
one call in flight its compare-and-swap cannot fail.  The mutation client's own
test of a path and its write are one step; the parent directories it creates are
not modelled (no undo removes them).  A refused undo uses up its one action and
ends `repair_required`, as in the code.

### GoalLifecycle and TaskGoals

`Reconciled` is `reconcile_agent_goal_projection`: a proposal that fits its context is
frozen as a revision, one that does not leaves the goal blocked, and the same proposal
leaves the revision as it is. `TaskGoals` drives one run: `LoopStarts` takes it up,
`Prompt` reads the checkpoint into a prompt, the model answers with a proposal and with
calls, each call is authorised (which binds it to the revision frozen then), executed
and recorded, the round's observations go into the checkpoint (`Observe`), and the last
answer is committed with the verdict of `classify_agent_run_completion`. Model, tool and
repeat budgets live in the checkpoint and outlast the loop, whose own counters start
afresh. Cards end late (`c` in state `offered`), leases of a stopped worker run out and
the sweep queues the run again, and a stop may come between any two writes. A lease that
is lost *under* a live worker is left to `AgentRuns`; the goals of two runs share
nothing, so one run is enough.

### GroupedApproval

A group is one manifest (task, revision, items, expiry); its id is a digest, so the
same proposal names the same group.  Each item is also a request of the ordinary
ledger, and the two must be resolved together.  The user may click any card that was
ever shown (`cards`), the caller of `authorize` may hold a claim of any revision, the
clock moves on, goals are proposed anew and capabilities change under the card.  Only
tests and the benchmark call the authorisation in this version.  Preparing withdraws
the other open cards of the task first, as the code does.

### ReadPromise and ReadQueue

A row goes from `pending` over `claimed` and `remote_call_started` to
`result_persisted` and `completed`, or ends on the way; the worker claims a batch,
works it off one read at a time and frees the mutex only while the provider answers.
Between keeping a result and applying it the worker holds the mutex (`Free` is the
guard of everything else), though a stop may come there.  A second process is not let
in (`WindowsSingleInstanceGuard`), so there is one worker and claims of others are of
earlier processes.  `stamp` is the whole account record, which the fences compare;
`generation` changes with provider, tenant, credential or grant.  A disconnect has its
two halves; a revocation begins like one.  Left out: the claim order and the 64-row
and 1024-row pages of a scan, retries of automation runs (their limit is 0 here), and
the deletion of a definition, which does to reads what a pause does.  As with
connected work, the module is the path with execution enabled: the registries of this
version enable none (connectors/runtime_registry.rs:18-35), and the worker is then not
started (connector_commands.rs:871-875).

### ConnectedWork

Items are attempts of a request (`Work \X 1..MaxAttempts`).  A source run reserves an
attempt, makes a draft, freezes it and asks for approval, in stages any of which may
fail or stop (`PrepareFails`, `PrepareStops`).  A failure that the store refuses to
record is ignored (connector_draft.rs:868, 912) and leaves the attempt in progress; the
same request made again then finishes the attempt that has its review (`PrepareAgain`)
and is refused where it has none.  A next attempt is reserved when all earlier ones are
spent.  `approve_and_run` holds the mutex three times: it reads the
account and the review (`Look`), approves and starts (`Start`), and records the answer;
in between the provider is asked and anything else may happen.  A mail and a calendar
change differ in their draft, their approval and their rejection, hence `kind`.  An
unanswered change is `reconciliation_required`: the worker claims what is due under a
lease, queries, and records a verdict, defers, or puts it aside (`quarantined`).

`PromiseKept` looks at a *request*.  At most one of its attempts comes to an invocation,
and the stage, authority, effect and sends of `ChangePromise` are those of this attempt;
an approval of a mail given in the plain list, without its preview, counts as gone,
since nothing is ever sent on it.

The provider is external: it applies a request at once, late (`remote = "flying"`), or
not, and says *known not applied* only of one it never applies later.

The panel's commands are synchronous Tauri commands, which run on the main thread one
at a time.  `SentOnce` and `SentAsReviewed` rest on this: `Start` accepts an invocation
that is already running, so two such calls at the same time would both send; under one
thread that branch is not reachable, as `Remembered` of the proof shows.  No build of
this version registers a provider that changes anything
(connectors/runtime_registry.rs:18-35), so the module is the path as it is when
execution is enabled.  Left out or merged: drafts of automations, edited by hand before
they are frozen; the Recovery Center's one-shot tickets; the two halves of a disconnect
are one step; resets at startup are taken to succeed, since the leases they clear run
out anyway; and what the automation timer may do with the definition of an attempt that
stays in progress, which is another scheduled run and not this change.

## 4. What is model-checked

| Run | Instance | Shows |
|---|---|---|
| `runs_two` | 2 runs, 2 workers, 1 write tool | `SingleWriter`, `NoAutomaticReplay`, `NoConcurrentExecution` |
| `runs_ask` | 1 run, 2 workers, a tool that asks and writes, 2 waiting invocations | `TypeOK`, `VerifiedOnce`, `OneShotApproval`, `AgentMovesOnly` |
| `runs_live` | 1 run, 2 workers, fair | `OrphanRecovered`, `ClaimedCancelEnds`, `LocksReturn` |
| `team_merge` | production (2 attempts) and a review that depends on it, 2 workers, 2 revisions | `TypeOK`, `OneTeam`, `SynthesisGated`, `MergeExact`, `BuiltOnPassed` |
| `team_orphan` | the same, 1 worker, fair | **violation** of `ParentReclaimed` |
| `automation_windows` | a daily schedule that skips what it missed, 2 windows, 1 manual run, fair | `TypeOK`, `OnlyNewestWindow`, `DueUnlessRefused`, `EndIsMirrored` |
| `undo_files` | 2 checkpoints, 2 paths, 3 identities, all 7 operations, Windows | `TypeOK`, `EffectTruth`, `OneShot`, `OfferHolds`, `ExactInverse`, `UndoSparesOthers` |
| `goals_loop` | 2 proposals, 2 contexts, 2 calls, 2 verifiers, 2 loops | `TypeOK`, `ShownIsEarned`, `EvidenceIsBound`, `StopIsFinal` |
| `approvals_task` | 2 tasks, 3 manifests of 3 expiries and goals, clock to 2 | `TypeOK`, `OneDecision`, `GrantIsBacked`, `AuthorityIsOver` |
| `reads_once` | 2 user reads, 1 automation read, batches of 2, 2 account changes, 1 edit | `TypeOK`, `PromiseKept` (refinement of `ReadPromise`) |
| `connected_once` | 1 request by mail or calendar, 2 attempts, 2 account changes, 2 stops, fair | `TypeOK`, `SentOnce`, `PromiseKept` (refinement of `ChangePromise`), `SentAsReviewed`, `UncertaintyEnds` |
| `connected_reject` | the same with 1 attempt | **violation** of `RejectedIsUnsent` |

Each property of a passing run has a mutant: a definition next to the one it
stands for, with a bug such code could have (a guard dropped, a stale read, a
reset missing), under which TLC finds the property violated.

### Bounds, and why they are enough

- `NumRuns`, `Workers`: a race over a run or a resource has two parties, and a
  crash or an expired lease makes the first one the zombie; a third worker adds
  no new pair.  `TwoRunBound` leaves cancels, waiting and blocked outcomes of two runs
  to the one-run instances, and ends the race when both runs have an outcome: a finish,
  a recorded success or an interrupted tool.  The theorems hold for any number.
- `MaxAsks = 2` in `runs_ask`: two invocations may wait under one approval, and then a
  grant that a stop or a failure did not consume starts its tool again (section 6).
  `crowded` are the requests where that has come about, and the premise of
  `OneShotApproval`.  `AskBound` leaves out two answers of a worker, blocked and waiting for
  a prerequisite, whose transitions differ in name only from those of other answers.  The other two runs have no tool that asks.
- `Reusable = {}`: no run has a reusable grant; the theorems cover any set of them.
- `Outlive = {}`: no executor outlives its resource lease.  A resource lease lasts
  two minutes, the heartbeat that renews it comes every five (tool_runtime.rs:468,
  commands.rs:346), so this is an assumption on the tools, and `Outlive` is the set
  of tools that break it.
- `MaxAttempts` of a team, `TeamBudget`, `LapsingRuns`, `OneFault`: one retry, and one
  fault (lapsed lease or cancelled run) at a time; the parent's own tools run before it
  has a team, and steps after its end are not explored.
- `MaxTime`, `Windows`, `Seen`: two windows are the least for "several missed, the
  newest started"; `Seen` are the agent statuses enumerated, those whose mirrors
  differ.  Schedules that run once, or start all they missed, are in the theorems.
- `TwoChanges`: two changes that meet, by two calls or by a call and another
  program.  One oversized content suffices to reach the preimage limit.
- `goals_loop`: a second call, verifier, proposal and loop are each the least for
  evidence of another revision, a missing verifier, a revised goal and a restart; the
  budgets are the least at which each of the three limits can be the one that is hit.
- `approvals_task`: two manifests of a task can conflict, a third tells tasks apart;
  each time can lie before, at and after an expiry.
- `reads_once`: a batch of two leaves one claimed read waiting while the other is
  asked for; two account changes let a generation pass and a record change alone.
- `connected_once`: two attempts are the least for a repair after a failed one.
  Requests share only the account, the command's thread and the worker; `SentOnce`
  and the rest are proved for any number of them.
- `CHECK_DEADLOCK FALSE`, in every run but `undo_files`: a bounded instance ends when
  its runs have ended, its clock or its bound on changes has run out.

### Fairness

- `AgentRuns`, `ExpertTeam` (`FairSpec`): the durable-queue tick keeps claiming,
  after a restart too; a lease nobody renews runs out, because clocks advance;
  a worker gets to its last step, because model calls and executors have time
  limits.  None for enqueueing, approvals, dispatch, heartbeats or crashes.
  A resource claim that nobody's executor stands behind is renewed with all claims of
  its run by every heartbeat of a later worker (event_store.rs:11440), so its expiry is
  strongly fair, when no worker that renews is on the run (`ClaimRunsOut`).  The code
  justifies it: a heartbeat gives the claims the lease it gives the run, and a stopped
  or refused worker's run is claimed again only when that lease is over.
- `Automation` (`FairSpec`): the 30-second timer.  `Reconcile` is weakly fair;
  `StartDue` strongly, because closing the desktop between the two commands may
  happen, but not every time.
- `ConnectedWork` (`FairSpec`): the process is started again, the worker's loop sweeps,
  queries and defers, back-offs and leases end because clocks advance, and the
  provider settles a request that is under way.  Strong fairness twice: a claim that
  is held again and again is at some time queried before its lease ends, and a
  provider asked again and again under a standing claim at some time can tell.  The
  second is an assumption on providers: without it the code defers for ever, by design.

## 5. What is proved

Each `...Proofs` module has one inductive invariant in named parts, a lemma per
group of actions, and theorems for every value of the constants.

| Module | Theorems | Argument |
|---|---|---|
| `AgentRunsProofs` | `TypeCorrect`, `OneWriter`, `VerifiedWritesOnce`, `CancelBeforeDispatch`, `LeaseExcludes`, `RecoveryNeverReplays` (both also for one run, `...OnRun`), `NothingContinued`, `GrantStartsOnce`, `StatusMoves` | what appending does to a ledger; `LockInv`: claims of one resource do not conflict and every executor that needs one holds it; `VerifiedInv`: an executor that reports success still holds the lock that kept others out; `QueueInv`, of one run: until a card continues it, its queue events only come from the sweep, which checks for running invocations; `UsedUp`: a request that ran on an approval that one invocation waited for has none waiting, and a new one needs a new approval; each handler *continues* a ledger, and continuing implies `LedgerMove` |
| `ExpertTeamProofs` | `TypeCorrect`, `OneTeamOnly`, `ResultsRestOnPassed`, `SynthesisIsGated`, `ReceiptIsExact`, `TeamMoves` | results are immutable and a retry is only appended to an attempt that did not pass, so "newest passed" is stable; handlers continue ledgers as in `AgentRunsProofs` |
| `AutomationProofs` | `TypeCorrect`, `NewestWindowOnly`, `SkippedStarts`, `EndsAreFinal` | the window started is the newest at or before now, and later than every one served |
| `WorkspaceUndoProofs` | `TypeCorrect`, `EffectsKnown`, `ChangesOnce`, `AcksTrue`, `OffersHold`, `UndoExact`, `OthersSpared` | `Tally`: how often effect and undo were begun, by status and step; `FileInv`: what a row records (`Recorded`), what the paths hold while nobody else touched them (`Faithful`), and that an armed undo has looked (`Looked`) |
| `TaskGoalsProofs` | `TypeCorrect`, `SubmissionDecides`, `EvidenceBound`, `Earned`, `Charged`, `StopFinal`, `ShownMoves` | receipts are only written of a finished call and of the revision it started under, and a revision is never taken by another proposal or context; so the verdict of a finish is about the goal of that finish; a finish is shown as it was written, because its verdict is that of the same state; after that only a later finish, or evidence that takes its proof away, changes what is shown |
| `GroupedApprovalProofs` | `TypeCorrect`, `DecidedOnce`, `ItemsFollow`, `GrantsAreBacked`, `OverIsOver` | every step changes a row in one of five ways (`Change`); at most one card of a task is open (`OneOpen`), and what was decided was seen (`Seen`) |
| `ReadQueueProofs` | `TypeCorrect`, `QueueKeepsPromise` | the refinement: `Agreed` ties the worker's memory to the rows (a read is asked for only once it was begun, and only the read being called is), and each step maps to a step of `ReadPromise` or leaves `stage`, `called` and `valid` alone |
| `ConnectedWorkProofs` | `TypeCorrect`, `OneSend`, `TrueVerdicts`, `SendsAsReviewed`, `WorkKeepsPromise` | `InOrder`: an attempt is taken when all before it are spent; `Remembered`: what the command knows between its holds of the mutex is still so, or is refused; `Agree`: the records of an attempt do not contradict each other; `Approved`: what has begun was approved exactly; `View` computes the promise's state of a request from the one attempt that was taken, and each step of the module is a step of that attempt's view, or leaves it alone |

Premises beyond the constants' types.  `LeaseExcludes` and `RecoveryNeverReplays` are
about behaviours in which no approved action has continued a run (`[](continued = {})`,
or `[]~Continued(r)` for the one run they speak of): a resumed approval queues a
continuation under a live lease, or beside an invocation lost in a crash, and then they
are false (section 6).  Cards may be shown, granted, executed and refused all the while,
and `NothingContinued` shows the premise met wherever the policy asks for no tool, as in
`runs_two`.  `GrantStartsOnce` has no premise of its own: `OneShotApproval` names the
requests it does not speak of (`crowded`).  `OneWriter` and `VerifiedWritesOnce` speak of tools
outside `Outlive`.

Why the strengthenings are needed: the invariants are not inductive by themselves.
`SingleWriter`, for instance, is kept by a dispatch only because the other
executor's claim is *still* in the store, which needs every end, crash and renewal
to keep claim and executor together; `EffectTruth` is kept by the recovery only
because the step a call stood at is tied to the status its row had then; `SentOnce` is
kept by a send only because of what the command saw two holds of the mutex earlier.

Proved and not in a run: `CancelStopsDispatch` (nothing is dispatched in a run whose
cancel is recorded), `SkippedIsNotStarted`, `EndedRunsStay`, `AckTruthful` (an undo reported
done was done), `ChargedOnce` (a model answer is charged once, over all loops), `ItemsFollowGroup` (a
group and its requests are resolved alike), `VerdictsTrue` (what is recorded as done was
done, what is recorded as not done never will be; `PromiseKept` says it in the run),
`TeamMovesOnly` and `ShownMovesOnly` (teams and goals keep a run within `AgentStatus`).

Only model-checked: the liveness properties `OrphanRecovered`, `ClaimedCancelEnds`, `LocksReturn`,
`DueUnlessRefused`, `EndIsMirrored` and `UncertaintyEnds`, because the prover does not
handle fairness.

## 6. Where code and documents differ

Two runs end in a violation; `PROJECT.json` quotes the lines.

1. `team_orphan`: the synthesis of a parent runs without a lease, because a queued
   transition hides every later claim; its heartbeat is refused, and after a
   restart nothing reclaims it (docs/RELEASE_NOTES_v0.2.1.md:16-17).
2. `connected_reject`: the panel keeps offering to reject a review whose change is
   running (after a stop) or uncertain.  A rejection denies the approval, the look-up
   is refused from then on and put aside for good, and a change that was made is never
   recorded (ConnectedWorkReviewPanel.tsx:98).

Other differences the models contain, as the code does, and that no run checks:

- After a crash the sweep blocks a run whose tool was running, but resuming another
  approval of the run queues it again, and the next claim starts the interrupted tool
  (docs/RELEASE_NOTES_v0.2.1.md:52-53).
- A run cancelled before it is claimed has no lease for the sweep to find expired
  (event_store.rs:11538) and is not claimable: it stays `cancel_requested`
  (docs/RELEASE_NOTES_v0.2.1.md:23-24).  `ClaimedCancelEnds` is the case that ends.
- One run seen blocked and later completed makes every later reconciliation fail, and
  with it every sweep of every schedule (README.md:92-95).  `DueUnlessRefused` is what
  holds.
- Under Windows, undoing a deletion replaces a file that another program made after
  the check (kernel/workspace_undo.rs:713, docs/RELEASE_NOTES_v1.0.0.md:17).
- Once a checkpoint is recorded, an answer whose proposal fails validation leaves the
  run without a frozen goal; the verdict then fails instead of saying so, and the
  worker leaves the run running until its lease ends; each new loop may end the same
  way, counted by no budget (event_store/goal_continuation.rs:126, README.md:134).
- The list of grouped approvals fails as a whole when the goal of one group's task,
  ended long ago or not, is not frozen (event_store/grouped_approval.rs:240,
  README.md:137-139).

Behaviour met on the way, most of it allowed by the models and kept out of the
properties by the way they are stated:

- *Runs and teams.* A late `completed` of a worker that lost its lease overwrites a
  swept `cancelled` (event_store.rs:11961); a continuation is queued under a live
  lease (commands.rs:14796); with two invocations waiting for one approval a one-shot grant
  starts its tool again, while the first start has not been recorded as ended or after a
  stop; a lock outlives its invocation when the evidence is refused or the process stops
  before the release (commands.rs:2738-2750), and later workers of the run renew it; a
  worker that lost its lease may start a tool in a re-queued run, and a stop between the
  record and the transition of that start leaves the run queued beside it; a resource
  conflict uses up the invocation that an approval was given for, so it is asked for
  again; an expert whose process stops between its result and its
  finish is claimed again and refused for ever (event_store.rs:12068); a parent whose
  process stops between its plan and its block answers without its team; a worker
  whose lease lapsed may overwrite a staging file, which makes the merge refuse for
  good; a run by hand counts as serving a one-time schedule that is still to come.
- *Goals.* A finished call that matches no verifier leaves a receipt under which its
  revision can never complete; a stop between a failed call's record and its evidence
  loses the failure; a valid goal that changes drifts from its checkpoint, and every
  later loop fails; a blocked revision can be entered again through an invalid proposal;
  a succeeded invocation that is reused (commands.rs:2428) gives no evidence to a
  changed revision.
- *Grouped approvals.* Preparing an approved group of another scope ends the approval
  and fails the run; a manifest frozen again makes an old approval valid that nobody
  looked at meanwhile; a clock set back blocks every transition of a group.
- *Reads.* A read may only begin under source revision 0
  (event_store/read_execution.rs:1207), so reads
  of an automation that was ever edited, paused or resumed are claimed and refused every
  five minutes for ever; editing a definition makes its queued reads `repair_required`
  (docs/CONNECTOR_READ_EXECUTION_OUTBOX.md says it does not mutate them); an answer over
  budget leaves the read begun until a restart.
- *Connected work.* A change left running by a stop only moves on by another click;
  an approval given in the plain list of approvals leaves a mail unsendable; an account
  that needed repair while a change was uncertain leaves it put aside though it is
  repaired with the same authority; edits and acceptances made through the automation
  review commands strand the review; cancelling the source run does not stop a
  review that is open from being sent.

## 7. What is not modelled

Computer use, connector accounts and their authorisation (beyond what reads and changes
see of an account), sync, attachments, receipts and the pure schedule arithmetic are
open in the plan (section 2); so is the one other place that releases a tool's lock,
taking over a step of computer use (commands.rs:15300).  Parsing, HTTP, rendering, cryptography, prompt text and
the Windows automation calls are left out: they keep no state that several steps
change.  They are also most of the code: the durable protocols are a small share of
its lines.  The event window of the projections (event_store.rs:14702) is out of TLC's
reach: an instance would have to hold more events than a run can enumerate.  The
interactive chat path, the ad hoc sub-agents and the calls that only tests make
(revocation) are left out as `PROJECT.json` says.
