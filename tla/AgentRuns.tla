------------------------------ MODULE AgentRuns ------------------------------
(***************************************************************************)
(* The durable agent-run queue: background workers that claim runs under   *)
(* leases, dispatch tools, and finish; the sweep that recovers runs whose  *)
(* lease expired; approvals resumed from the desktop; cancellation; and    *)
(* the crash of the whole process between any two commits.                 *)
(*                                                                         *)
(* The store is a mutex around a SQLite event log, so every operation on   *)
(* it is one action.  A worker holds the mutex only during an operation:   *)
(* between claiming, dispatching a tool, recording its outcome, reading    *)
(* the cancel flag and finishing, everything else may happen.  Nothing     *)
(* below fences those later operations by the lease: the code does not.    *)
(* Dispatching a tool and recording its outcome commit several times; the  *)
(* actions that stop, or are refused, between those commits stand next to  *)
(* the ones that go through.                                               *)
(***************************************************************************)
EXTENDS RunLedger, Integers

CONSTANTS
    NumRuns,     \* bound: runs 1..NumRuns, in the order they are enqueued
    MaxAsks,     \* bound: waiting invocations of one request
    Workers,     \* concurrent invocations of the background worker
    Tools,       \* the exact tool requests a run may make
    AutoTools,   \* those whose policy decision is Allow; the others Ask
    Reusable,    \* tools of the one capability whose grants may be reused
    ResourceOf,  \* the resource a tool claims, NoResource for none
    WriteTools,  \* tools whose resource access is Write
    Outlive,     \* tools whose executor may outlive its resource lease
    UI,          \* the desktop command that resumes an approved action
    Lost,        \* owner of what an executor left behind
    Unstarted,   \* owner of what was recorded before an executor started
    NoResource

ASSUME AgentRunsAssumption ==
    /\ NumRuns \in Nat
    /\ MaxAsks \in Nat
    /\ AutoTools \subseteq Tools
    /\ Reusable \subseteq Tools \ AutoTools
    /\ WriteTools \subseteq Tools
    /\ Outlive \subseteq Tools
    /\ {UI, Lost, Unstarted, NoWorker} \cap Workers = {}
    /\ UI # Lost /\ UI # Unstarted /\ Lost # Unstarted

Runs     == 1..NumRuns
Requests == Runs \X Tools          \* a tool request, by its fingerprint, in its run
Threads  == Workers \cup {UI}      \* what can run an executor
Owners   == Threads \cup {Lost, Unstarted}
OneShot  == Tools \ (AutoTools \cup Reusable)

VARIABLES
    ledger,     \* run -> its events, see RunLedger
    worker,     \* worker -> what its thread is doing
    ui,         \* the resume command: idle, executing a tool, or its last step
    open,       \* request -> owners of its invocations recorded as running
    held,       \* unreleased and unexpired resource claims, by invocation
    done,       \* requests with a succeeded, verified invocation
    waiting,    \* request -> number of its invocations waiting for confirmation
    approval,   \* request -> its capability approval
    delivered,  \* requests whose approval card reached the desktop
    used,       \* requests executed under their current approval
    crowded,    \* requests whose current approval several invocations awaited
    continued   \* requests whose verified success has queued a continuation

vars == <<ledger, worker, ui, open, held, done, waiting, approval, delivered,
          used, crowded, continued>>

Approvals == {"none", "pending", "granted", "rejected", "consumed"}
Outcomes  == {"none", "completed", "failed", "cancelled", "blocked"} \cup WaitingStatus

IdleWorker == [pc |-> "idle", run |-> 0, tool |-> {}, beat |-> TRUE,
               asked |-> {}, out |-> "none"]
IdleUI     == [pc |-> "idle", req |-> {}, res |-> "none"]

WorkerStates ==
    [pc : {"idle", "working", "tool", "ending", "commit"}, run : 0..NumRuns,
     tool : SUBSET Tools, beat : BOOLEAN, asked : SUBSET Tools, out : Outcomes]

Init ==
    /\ ledger    = [r \in Runs |-> NoLedger]
    /\ worker    = [w \in Workers |-> IdleWorker]
    /\ ui        = IdleUI
    /\ open      = [q \in Requests |-> {}]
    /\ held      = {}
    /\ done      = {}
    /\ waiting   = [q \in Requests |-> 0]
    /\ approval  = [q \in Requests |-> "none"]
    /\ delivered = {}
    /\ used      = {}
    /\ crowded   = {}
    /\ continued = {}

toolVars == <<open, held, done, waiting, approval, delivered, used, crowded, continued>>

-----------------------------------------------------------------------------
(* Queueing, cancelling and the clock. *)

\* enqueue_agent_run_record.  Runs are numbered in the order of started_at.
Enqueue(r) ==
    /\ ~ledger[r].started
    /\ \A s \in Runs : s < r => ledger[s].started
    /\ ledger' = [ledger EXCEPT ![r] = StartRun(@)]
    /\ UNCHANGED <<worker, ui, toolVars>>

\* request_agent_run_tree_cancel: terminal runs are filtered out.
RequestCancel(r) ==
    /\ StatusOf(ledger[r]) \notin TerminalStatus \cup {"absent"}
    /\ ledger' = [ledger EXCEPT ![r] = AppendCancel(@)]
    /\ UNCHANGED <<worker, ui, toolVars>>

\* Wall-clock time passes the lease of the newest claim.
LeaseExpires(r) ==
    /\ ledger[r].live
    /\ ledger' = [ledger EXCEPT ![r] = ExpireLease(@)]
    /\ UNCHANGED <<worker, ui, toolVars>>

\* Mutant: a claim without an executor is kept until someone releases it.
ResourceLeaseKept(q, o) ==
    /\ <<q, o>> \in held
    /\ q[2] \in Outlive
    /\ held' = held \ {<<q, o>>}
    /\ UNCHANGED <<ledger, worker, ui, open, done, waiting, approval, delivered,
                   used, crowded, continued>>

\* Wall-clock time passes a resource claim.  A running executor keeps its
\* claim (the heartbeat renews it), unless the tool may outlive it.
ResourceLeaseExpires(q, o) ==
    /\ <<q, o>> \in held
    /\ o \notin Threads \/ q[2] \in Outlive
    /\ held' = held \ {<<q, o>>}
    /\ UNCHANGED <<ledger, worker, ui, open, done, waiting, approval, delivered,
                   used, crowded, continued>>

-----------------------------------------------------------------------------
(* Claiming. *)

\* An invocation of the run is recorded as running: executing, lost, or not
\* even started, which the store cannot tell apart.
Indeterminate(r) == \E t \in Tools : open[<<r, t>>] # {}

Swept == [r \in Runs |-> Recovered(ledger[r], Indeterminate(r))]

\* Mutant: a running run may be claimed as well, as if the claim renewed it.
ClaimableRunning(l) == l.started /\ StatusOf(l) \in {"queued", "running"} /\ ~l.cancel

Claimable(l) == l.started /\ StatusOf(l) = "queued" /\ ~l.cancel

Take(w, r, l) ==
    /\ ledger' = [l EXCEPT ![r] = AppendClaim(@, w)]
    /\ worker' = [worker EXCEPT ![w] = [IdleWorker EXCEPT !.pc = "working", !.run = r]]
    /\ UNCHANGED <<ui, toolVars>>

\* claim_next_agent_run: sweep, then the oldest queued run.
ClaimNext(w) ==
    /\ worker[w].pc = "idle"
    /\ \E r \in Runs :
         /\ Claimable(Swept[r])
         /\ \A s \in Runs : s < r => ~Claimable(Swept[s])
         /\ Take(w, r, Swept)

\* claim_agent_run: sweep, then the run the caller names.
ClaimRun(w, r) ==
    /\ worker[w].pc = "idle"
    /\ Claimable(Swept[r])
    /\ Take(w, r, Swept)

\* Either claim when there is nothing to take: only the sweep is left of it.
SweepOnly ==
    /\ Swept # ledger
    /\ ledger' = Swept
    /\ UNCHANGED <<worker, ui, toolVars>>

\* The heartbeat thread lives as long as the operation: pc working or tool.
Beating(w) == worker[w].pc \in {"working", "tool"} /\ worker[w].beat

\* The worker's next heartbeat will be accepted.
Renews(w) ==
    LET l == ledger[worker[w].run] IN
    /\ Beating(w)
    /\ HoldsLiveLease(l, w)
    /\ StatusOf(l) \notin TerminalStatus \cup {"queued"}

\* heartbeat_agent_run_lease: a fresh claim event.  The resource claims of the
\* run, whoever left them, are re-issued too: unexpired before and after.
Heartbeat(w) ==
    /\ Renews(w)
    /\ ledger' = [ledger EXCEPT ![worker[w].run] = AppendClaim(@, w)]
    /\ UNCHANGED <<worker, ui, toolVars>>

\* The heartbeat is refused: the thread ends with an error.
HeartbeatRefused(w) ==
    /\ Beating(w)
    /\ ~Renews(w)
    /\ worker' = [worker EXCEPT ![w].beat = FALSE]
    /\ UNCHANGED <<ledger, ui, toolVars>>

-----------------------------------------------------------------------------
(* Dispatching a tool: authorize_agent_tool_execution, one store operation. *)

HasResource(t) == ResourceOf[t] # NoResource

\* claim_agent_run_resource: two claims on one resource conflict unless both
\* only read it.
Conflict(t, u) ==
    /\ HasResource(t)
    /\ ResourceOf[t] = ResourceOf[u]
    /\ t \in WriteTools \/ u \in WriteTools

\* Mutant: the lock is re-entrant for another invocation of the same tool.
ResourceFreeReentrant(q) == \A h \in held : h[1][2] # q[2] => ~Conflict(q[2], h[1][2])

\* The lock is re-entrant for the invocation that holds it: one that still
\* waits finds the claim a stop has left it.
ResourceFree(q) == \A h \in held : h = <<q, Unstarted>> \/ ~Conflict(q[2], h[1][2])

Claimed(q, o) ==
    IF HasResource(q[2]) THEN (held \ {<<q, Unstarted>>}) \cup {<<q, o>>} ELSE held

\* capability_grant_state: one grant below high risk answers for every later
\* request of its capability, in any run.
Standing(q) == q[2] \in Reusable /\ \E p \in Requests : p[2] \in Reusable /\ approval[p] = "granted"

\* Mutant: the grant need not be bound to a waiting invocation.
AuthorizedUnbound(q) == q[2] \in AutoTools \/ Standing(q) \/ approval[q] = "granted"

\* Policy Allow, a standing grant, or a one-shot grant bound to the waiting
\* invocation of this exact request in this run.
Authorized(q) ==
    q[2] \in AutoTools \/ Standing(q) \/ (approval[q] = "granted" /\ waiting[q] > 0)

\* Mutant: an earlier success of the request is not looked for.
ReusedNever(q) == FALSE

\* A verified success of the same request in the same run answers for it.
Reused(q) == q \in done

MayStart(q) == ~Reused(q) /\ Authorized(q) /\ ResourceFree(q)

\* Mutant: the invocation gets a new id, so the approved one keeps waiting.
BindAnew(q) == UNCHANGED waiting

\* bind_agent_tool_plan_to_grant: under a one-shot grant the waiting invocation
\* itself is started, otherwise a new one.
Bind(q) ==
    IF q[2] \in OneShot THEN waiting' = [waiting EXCEPT ![q] = @ - 1] ELSE UNCHANGED waiting

\* ready_agent_tool_authorization: claim, record as running, transition.
StartExecution(o, q) ==
    /\ MayStart(q)
    /\ Bind(q)
    /\ open'   = [open EXCEPT ![q] = @ \cup {o}]
    /\ held'   = Claimed(q, o)
    /\ used'   = IF q[2] \in OneShot THEN used \cup {q} ELSE used
    /\ ledger' = [ledger EXCEPT ![q[1]] = AppendTransition(@, "running")]
    /\ UNCHANGED <<done, approval, delivered, crowded, continued>>

\* blocked_agent_tool_authorization: local constraints, policy Deny, or a
\* resource conflict of a request that might have started.  The blocked record
\* takes the place of the invocation that was bound to a one-shot grant.
BlockDispatch(q) ==
    /\ ~Reused(q)
    /\ UNCHANGED waiting \/ (Authorized(q) /\ ~ResourceFree(q) /\ Bind(q))
    /\ ledger' = [ledger EXCEPT ![q[1]] = AppendTransition(@, "blocked")]
    /\ UNCHANGED <<open, held, done, approval, delivered, used, crowded, continued>>

\* Ask: one more invocation waits under the pending approval, or under a new
\* one.  The desktop keeps only the newest card of a request; a resume gets
\* the new card in its own answer.
AskFirst(o, q) ==
    /\ ~Reused(q)
    /\ q[2] \notin AutoTools
    /\ ~Authorized(q)
    /\ IF approval[q] = "pending"
       THEN /\ waiting[q] < MaxAsks
            /\ waiting' = [waiting EXCEPT ![q] = @ + 1]
            /\ crowded' = IF waiting[q] > 0 THEN crowded \cup {q} ELSE crowded
            /\ UNCHANGED <<approval, used, delivered>>
       ELSE /\ waiting'   = [waiting EXCEPT ![q] = 1]
            /\ approval'  = [approval EXCEPT ![q] = "pending"]
            /\ used'      = used \ {q}
            /\ crowded'   = crowded \ {q}
            /\ delivered' = IF o = UI THEN delivered ELSE delivered \ {q}
    /\ ledger' = [ledger EXCEPT ![q[1]] = AppendTransition(@, "waiting_for_confirmation")]
    /\ UNCHANGED <<open, held, done, continued>>

\* The terminal record of an invocation, its first commit.
Outcome(q, ok) ==
    /\ done'      = IF ok THEN done \cup {q} ELSE done
    /\ continued' = IF ok THEN continued \ {q} ELSE continued
    /\ UNCHANGED <<waiting, delivered, used, crowded>>

Ended(o, q) == [open EXCEPT ![q] = @ \ {o}]

\* The record of its capability, the second commit, consumes the approval.
Consumed(q) == IF q \in used THEN [approval EXCEPT ![q] = "consumed"] ELSE approval

\* record_completed_agent_tool_execution, all of it: the outcome, the release
\* of the invocation's claims, and a transition which a cancelled run does not
\* get and a terminal one refuses.
EndExecution(o, q, ok) ==
    /\ Outcome(q, ok)
    /\ open'     = Ended(o, q)
    /\ approval' = Consumed(q)
    /\ held'     = held \ {<<q, o>>}
    /\ ledger'   = [ledger EXCEPT ![q[1]] =
                      AppendTransition(@, IF ok THEN "running" ELSE "blocked")]

\* The goal refuses the outcome as evidence, because it is not frozen or was
\* revised since the start: an error after the first two commits, before the
\* release.  The claim outlives its invocation, until its lease runs out.
EvidenceRefused(o, q, ok) ==
    /\ Outcome(q, ok)
    /\ open'     = Ended(o, q)
    /\ approval' = Consumed(q)
    /\ held'     = IF <<q, o>> \in held THEN (held \ {<<q, o>>}) \cup {<<q, Lost>>} ELSE held
    /\ UNCHANGED ledger

-----------------------------------------------------------------------------
(* The worker between its claim and its last store operation. *)

RequestOf(w, t) == <<worker[w].run, t>>

WorkerStartsTool(w, t) ==
    LET q == RequestOf(w, t) IN
    /\ worker[w].pc = "working"
    /\ MayTransition(ledger[q[1]])
    /\ StartExecution(w, q)
    /\ worker' = [worker EXCEPT ![w].pc = "tool", ![w].tool = {t}]
    /\ UNCHANGED ui

WorkerToolBlocked(w, t) ==
    LET q == RequestOf(w, t) IN
    /\ worker[w].pc = "working"
    /\ MayTransition(ledger[q[1]])
    /\ BlockDispatch(q)
    /\ UNCHANGED <<worker, ui>>

WorkerAsks(w, t) ==
    LET q == RequestOf(w, t) IN
    /\ worker[w].pc = "working"
    /\ MayTransition(ledger[q[1]])
    /\ AskFirst(w, q)
    /\ worker' = [worker EXCEPT ![w].asked = @ \cup {t}]
    /\ UNCHANGED ui

\* The operation ends in an error: of its response and cards nothing is left.
Erred(v) == [IdleWorker EXCEPT !.pc = "ending", !.run = v.run, !.out = "failed"]

\* The executor returned; a transition refused by a terminal run is an error
\* that ends the operation.
WorkerEndsTool(w, ok) ==
    /\ worker[w].pc = "tool"
    /\ \E t \in worker[w].tool :
         LET q    == RequestOf(w, t)
             fine == ledger[q[1]].cancel \/ StatusOf(ledger[q[1]]) \notin TerminalStatus
         IN /\ EndExecution(w, q, ok)
            /\ worker' = [worker EXCEPT ![w] =
                 IF fine THEN [@ EXCEPT !.pc = "working", !.tool = {}] ELSE Erred(@)]
    /\ UNCHANGED ui

\* An error of the dispatch, which ends the operation.
WorkerEvidenceRefused(w, ok) ==
    /\ worker[w].pc = "tool"
    /\ \E t \in worker[w].tool : EvidenceRefused(w, RequestOf(w, t), ok)
    /\ worker' = [worker EXCEPT ![w] = Erred(@)]
    /\ UNCHANGED ui

\* The operation returned and the heartbeat was joined.  A failed heartbeat
\* turns any response into an error.
WorkerReturns(w, out) ==
    /\ worker[w].pc = "working"
    /\ out \in {"completed", "failed", "blocked"} \cup WaitingStatus
    /\ out \in {"completed", "blocked"} => worker[w].asked = {}
    /\ out = "waiting_for_confirmation" => worker[w].asked # {}
    /\ worker' = [worker EXCEPT ![w] = IF @.beat /\ out # "failed"
                                      THEN [@ EXCEPT !.pc = "ending", !.out = out]
                                      ELSE Erred(@)]
    /\ UNCHANGED <<ledger, ui, toolVars>>

\* agent_run_cancel_requested; the error branch does not read it.
WorkerReadsCancel(w) ==
    /\ worker[w].pc = "ending"
    /\ worker' = [worker EXCEPT ![w].pc  = "commit",
                                ![w].out = IF @ # "failed" /\ ledger[worker[w].run].cancel
                                           THEN "cancelled" ELSE @]
    /\ UNCHANGED <<ledger, ui, toolVars>>

\* finish_agent_run_from_worker / transition_agent_run_from_worker.  A finish
\* is appended whatever the run's status and whoever holds its lease now.  The
\* response, and with it the approval cards, is lost if the append fails.
WorkerCommits(w) ==
    LET r    == worker[w].run
        out  == worker[w].out
        deliver == delivered' = delivered \cup {<<r, t>> : t \in worker[w].asked}
    IN
    /\ worker[w].pc = "commit"
    /\ \/ /\ out \in TerminalStatus
          /\ ledger' = [ledger EXCEPT ![r] = AppendFinish(@, out)]
          /\ IF out = "failed" THEN UNCHANGED delivered ELSE deliver
       \/ \* waiting, blocked, or completed with its goal not verified
          /\ out \notin {"failed", "cancelled"}
          /\ ledger' = [ledger EXCEPT ![r] =
               AppendTransition(@, IF out = "completed" THEN "blocked" ELSE out)]
          /\ IF MayTransition(ledger[r]) THEN deliver ELSE UNCHANGED delivered
    /\ worker' = [worker EXCEPT ![w] = IdleWorker]
    /\ UNCHANGED <<ui, open, held, done, waiting, approval, used, crowded, continued>>

-----------------------------------------------------------------------------
(* The approval card: resolving it, and resuming its action. *)

ResolveApproval(q, verdict) ==
    /\ approval[q] = "pending"
    /\ verdict \in {"granted", "rejected"}
    /\ approval' = [approval EXCEPT ![q] = verdict]
    /\ UNCHANGED <<ledger, worker, ui, open, held, done, waiting, delivered, used, crowded,
                   continued>>

\* resume_agent_chat_action on a rejected or an already consumed approval.
ResumeUnavailable(q) ==
    /\ ui.pc = "idle"
    /\ q \in delivered
    /\ approval[q] \in {"rejected", "consumed"}
    /\ ledger' = [ledger EXCEPT ![q[1]] = AppendTransition(@, "blocked")]
    /\ UNCHANGED <<worker, ui, toolVars>>

\* The UI's last step is still to come when the dispatch is answered at once.
ResumeDispatch(q) ==
    /\ ui.pc = "idle"
    /\ q \in delivered
    /\ approval[q] \in {"pending", "granted"}
    /\ \/ /\ MayTransition(ledger[q[1]])
          /\ StartExecution(UI, q)
          /\ ui' = [pc |-> "tool", req |-> {q}, res |-> "none"]
       \/ /\ MayTransition(ledger[q[1]])
          /\ AskFirst(UI, q)
          /\ ui' = [pc |-> "after", req |-> {q}, res |-> "asked"]
       \/ /\ MayTransition(ledger[q[1]])
          /\ BlockDispatch(q)
          /\ ui' = [pc |-> "after", req |-> {q}, res |-> "blocked"]
       \/ /\ MayTransition(ledger[q[1]])
          /\ Reused(q)
          /\ ui' = [pc |-> "after", req |-> {q}, res |-> "succeeded"]
          /\ UNCHANGED <<ledger, toolVars>>
       \/ \* cancelled or terminal: blocked without a transition
          /\ ~MayTransition(ledger[q[1]])
          /\ ui' = [pc |-> "after", req |-> {q}, res |-> "blocked"]
          /\ UNCHANGED <<ledger, toolVars>>
    /\ UNCHANGED worker

ResumeEndsTool(ok) ==
    /\ ui.pc = "tool"
    /\ \E q \in ui.req :
         LET fine == ledger[q[1]].cancel \/ StatusOf(ledger[q[1]]) \notin TerminalStatus
         IN /\ EndExecution(UI, q, ok)
            /\ ui' = IF fine
                     THEN [pc |-> "after", req |-> {q},
                           res |-> IF ok THEN "succeeded" ELSE "failed"]
                     ELSE IdleUI
    /\ UNCHANGED worker

\* The command returns the error and does not come to its last step.
ResumeEvidenceRefused(ok) ==
    /\ ui.pc = "tool"
    /\ \E q \in ui.req : EvidenceRefused(UI, q, ok)
    /\ ui' = IdleUI
    /\ UNCHANGED worker

\* finish_agent_run_after_resumed_tool, a store operation of its own.  One
\* success queues one continuation, whatever became of the run meanwhile.
ResumeFinishes ==
    /\ ui.pc = "after"
    /\ \E q \in ui.req :
         LET l == ledger[q[1]]
             queues == ~l.cancel /\ ui.res = "succeeded" /\ q \notin continued
         IN
         /\ ledger' = [ledger EXCEPT ![q[1]] =
              IF l.cancel THEN AppendFinish(l, "cancelled")
              ELSE IF queues THEN AppendQueue(l)
              ELSE IF ui.res = "failed" THEN AppendFinish(l, "failed")
              ELSE l]
         /\ continued' = IF queues THEN continued \cup {q} ELSE continued
    /\ ui' = IdleUI
    /\ UNCHANGED <<worker, open, held, done, waiting, approval, delivered, used, crowded>>

-----------------------------------------------------------------------------
(* The process stops: threads are gone, what they recorded stays.            *)

Left(o) == IF o = Unstarted THEN Unstarted ELSE Lost

Stop(invocations, claims) ==
    /\ worker' = [w \in Workers |-> IdleWorker]
    /\ ui'     = IdleUI
    /\ open'   = [q \in Requests |-> {Left(o) : o \in invocations[q]}]
    /\ held'   = {<<h[1], Left(h[2])>> : h \in claims}

\* Between two store operations.
Crash ==
    /\ \/ \E w \in Workers : worker[w] # IdleWorker
       \/ ui # IdleUI
    /\ Stop(open, held)
    /\ UNCHANGED <<ledger, done, waiting, approval, delivered, used, crowded, continued>>

\* o is about to dispatch q.
Dispatching(o, q) ==
    /\ MayTransition(ledger[q[1]])
    /\ \/ o \in Workers /\ worker[o].pc = "working" /\ worker[o].run = q[1]
       \/ o = UI /\ ui.pc = "idle" /\ q \in delivered /\ approval[q] \in {"pending", "granted"}

\* Inside ready_agent_tool_authorization: the claim is made, or the invocation
\* is recorded as running too, but its executor has not started.
CrashInStart(o, q) ==
    /\ Dispatching(o, q)
    /\ MayStart(q)
    /\ \/ /\ Stop(open, Claimed(q, IF q[2] \in OneShot THEN Unstarted ELSE Lost))
          /\ UNCHANGED waiting
       \/ /\ Stop([open EXCEPT ![q] = @ \cup {Unstarted}], Claimed(q, Lost))
          /\ Bind(q)
    /\ UNCHANGED <<ledger, done, approval, delivered, used, crowded, continued>>

\* Inside record_completed_agent_tool_execution: after the outcome, after the
\* consumption of the approval, or after the release.
CrashInEnd(o, q, ok) ==
    /\ o \in open[q]
    /\ Outcome(q, ok)
    /\ \/ Stop(Ended(o, q), held) /\ approval' \in {approval, Consumed(q)}
       \/ Stop(Ended(o, q), held \ {<<q, o>>}) /\ approval' = Consumed(q)
    /\ UNCHANGED ledger

WorkerStep(w) ==
    \/ Heartbeat(w) \/ HeartbeatRefused(w)
    \/ \E t \in Tools : WorkerStartsTool(w, t) \/ WorkerToolBlocked(w, t) \/ WorkerAsks(w, t)
    \/ \E ok \in BOOLEAN : WorkerEndsTool(w, ok) \/ WorkerEvidenceRefused(w, ok)
    \/ \E out \in Outcomes : WorkerReturns(w, out)
    \/ WorkerReadsCancel(w)
    \/ WorkerCommits(w)

DesktopStep ==
    \/ \E q \in Requests :
         \/ \E v \in {"granted", "rejected"} : ResolveApproval(q, v)
         \/ ResumeUnavailable(q)
         \/ ResumeDispatch(q)
    \/ \E ok \in BOOLEAN : ResumeEndsTool(ok) \/ ResumeEvidenceRefused(ok)
    \/ ResumeFinishes

Next ==
    \/ \E r \in Runs : Enqueue(r) \/ RequestCancel(r) \/ LeaseExpires(r)
    \/ \E q \in Requests, o \in Owners : ResourceLeaseExpires(q, o)
    \/ \E w \in Workers : ClaimNext(w) \/ (\E r \in Runs : ClaimRun(w, r)) \/ WorkerStep(w)
    \/ SweepOnly
    \/ DesktopStep
    \/ Crash
    \/ \E q \in Requests, o \in Threads :
         CrashInStart(o, q) \/ \E ok \in BOOLEAN : CrashInEnd(o, q, ok)

Spec == Init /\ [][Next]_vars

-----------------------------------------------------------------------------
(* Fairness.  The lease of a run nobody heartbeats runs out; the desktop's    *)
(* durable-queue tick keeps claiming, after a restart too; a worker whose     *)
(* model calls and executors time out gets to its last step.  A claim that no *)
(* executor stands behind runs out if only it keeps coming about that nobody  *)
(* renews it: heartbeats renew all claims of their run, but a run is claimed  *)
(* again when its lease is over, and its resource claims end no later.  No    *)
(* fairness for enqueueing, approvals, dispatch, heartbeats or crashes.       *)

Poll == SweepOnly \/ \E w \in Workers : ClaimNext(w)

WorkerLeaves(w) ==
    \/ \E ok \in BOOLEAN : WorkerEndsTool(w, ok) \/ WorkerEvidenceRefused(w, ok)
    \/ \E out \in Outcomes : WorkerReturns(w, out)
    \/ WorkerReadsCancel(w)
    \/ WorkerCommits(w)

LeaseRunsOut(r) == LeaseExpires(r) /\ \A w \in Workers : Beating(w) => worker[w].run # r

ClaimRunsOut(q, o) ==
    /\ ResourceLeaseExpires(q, o)
    /\ \A w \in Workers : Renews(w) => worker[w].run # q[1]

FairSpec ==
    /\ Spec
    /\ WF_vars(Poll)
    /\ \A r \in Runs : WF_vars(LeaseRunsOut(r))
    /\ \A w \in Workers : WF_vars(WorkerLeaves(w))
    /\ \A q \in Requests, o \in {Lost, Unstarted} : SF_vars(ClaimRunsOut(q, o))

-----------------------------------------------------------------------------
(* Types. *)

\* Every variable keeps its type through every handler.
TypeOK ==
    /\ ledger    \in [Runs -> Ledgers(Workers)]
    /\ worker    \in [Workers -> WorkerStates]
    /\ ui        \in [pc : {"idle", "tool", "after"}, req : SUBSET Requests,
                      res : {"none", "succeeded", "failed", "blocked", "asked"}]
    /\ open      \in [Requests -> SUBSET Owners]
    /\ held      \subseteq Requests \X Owners
    /\ done      \subseteq Requests
    /\ waiting   \in [Requests -> Nat]
    /\ approval  \in [Requests -> Approvals]
    /\ delivered \subseteq Requests
    /\ used      \subseteq Requests
    /\ crowded   \subseteq Requests
    /\ continued \subseteq Requests

Executors(q) == open[q] \cap Threads

\* A step that starts the executor of request q for o.
Starts(q, o) == o \in Threads /\ o \in open'[q] /\ o \notin open[q]

Busy(w, r) == worker[w].pc # "idle" /\ worker[w].run = r

-----------------------------------------------------------------------------
(* Safety. *)

\* The resource locks of claim_agent_run_resource, their renewal, release,
\* survival of a crash and expiry together keep a resource single-writer: no
\* two executors run conflicting tools, in whatever runs, unless one of them
\* outlived its resource lease.
SingleWriter ==
    \A p, q \in Requests : \A o \in Executors(p), u \in Executors(q) :
        <<p, o>> # <<q, u>> /\ {p[2], q[2]} \cap Outlive = {} => ~Conflict(p[2], q[2])

\* The newest claim's lease is what a run executes under: while it is live no
\* claim hands the run to a second worker that is not its holder, so two
\* workers are on one run only after the first one's lease ran out.
NoConcurrentExecution ==
    [][\A w \in Workers, r \in Runs :
         (worker[w].pc = "idle" /\ Busy(w, r)') =>
             \A v \in Workers : Busy(v, r) => ~ledger[r].live]_vars

\* RELEASE_NOTES_v0.2.1: a tool whose process stopped before its outcome was
\* verified is not started again by a worker of its own accord.  An invocation
\* that never got to its executor is another matter.
NoAutomaticReplay ==
    [][\A q \in Requests, w \in Workers : Starts(q, w) => Lost \notin open[q]]_vars

\* A write whose success is recorded and verified executes nowhere any more: no
\* worker that lost its lease, no worker the run was recovered to and no card
\* repeats it, as long as its resource lease covers its executor.
VerifiedOnce ==
    \A q \in done : HasResource(q[2]) /\ q[2] \in WriteTools \ Outlive => Executors(q) = {}

\* A one-shot approval starts its tool at most once, by a worker or a card,
\* over failures, refused evidence, stops and further asks, as long as one
\* invocation of the request waited for it.  A second one that was waiting is
\* not used up by the start: until the outcome is recorded the grant would
\* start it too.
OneShotApproval ==
    [][\A q \in Requests, o \in Owners :
         (Starts(q, o) /\ q[2] \in OneShot /\ q \notin crowded) => q \notin used]_vars

\* No tool is dispatched in a run once its cancel request is in the ledger,
\* whichever worker or card asks.
CancelStopsDispatch ==
    [][\A q \in Requests, o \in Owners : Starts(q, o) => ~ledger[q[1]].cancel]_vars

Observed == INSTANCE AgentStatus

\* What automations and expert teams rely on when they look at an agent run:
\* whatever its workers, cards, cancels, sweeps and restarts do, a run whose
\* events read completed, failed or cancelled never reads open again, and a
\* completed one never reads cancel_requested.
AgentMovesOnly ==
    [][\A r \in Runs :
         LET s == StatusOf(ledger[r])
             t == StatusOf(ledger'[r])
         IN s = t \/ s = "absent" \/ Observed!LedgerMove(s, t)]_vars

-----------------------------------------------------------------------------
(* Liveness, under FairSpec. *)

Attended(r) == (\E w \in Workers : Busy(w, r)) \/ \E q \in ui.req : q[1] = r

\* A run that reads running while nobody works on it, because its process
\* stopped or its worker failed to commit, does not stay so: the sweep blocks
\* it for review, re-queues it or finishes its cancellation.
OrphanRecovered ==
    \A r \in Runs :
        (StatusOf(ledger[r]) = "running" /\ ~Attended(r))
            ~> (StatusOf(ledger[r]) # "running" \/ Attended(r))

\* A cancelled run that has been claimed ends, whatever its worker, its tools
\* and its cards do, and whether or not the process stops.
ClaimedCancelEnds ==
    \A r \in Runs :
        (ledger[r].cancel /\ LeaseHolder(ledger[r]) # NoWorker) ~> (ledger[r].finish # "none")

\* A resource that is locked becomes free again: by the release, or, when the
\* evidence was refused or the process stopped before it, by the claim's lease,
\* however often later workers of the run renew it.  For tools that no card
\* runs: a card's executor is not assumed to return.
LocksReturn == \A q \in Requests : ~ResourceFree(q) ~> ResourceFree(q)
=============================================================================
