------------------------------ MODULE ReadQueue ------------------------------
(***************************************************************************)
(* The connector read outbox: reads of mail or calendar, submitted by the  *)
(* user or by an automation run, that one worker thread claims, asks the   *)
(* provider for and applies.                                               *)
(*                                                                         *)
(* Each call of the store holds its mutex and is one transaction; the      *)
(* worker frees the mutex while the provider answers, and holds it over    *)
(* the two transactions that keep and apply a result.  All reads here are  *)
(* of one account, and all automation runs are of one definition.  A row   *)
(* that carries a claim was claimed by the worker of this process or of an *)
(* earlier one, since a second process is not let in.                      *)
(***************************************************************************)
EXTENDS Naturals, FiniteSets

CONSTANTS
    Commands,     \* reads asked for by the user
    Runs,         \* reads of an automation run
    Limit,        \* CONNECTOR_READ_WORKER_LIMIT
    MaxChanges,   \* bound: changes of the account
    MaxRevision,  \* bound: edits of the automation definition
    None

Reads == Commands \cup Runs

ASSUME ReadAssumption ==
    /\ Commands \cap Runs = {}
    /\ IsFiniteSet(Commands) /\ IsFiniteSet(Runs)
    /\ Limit \in Nat \ {0}
    /\ MaxChanges \in Nat /\ MaxRevision \in Nat
    /\ None \notin Reads /\ None \notin Nat

VARIABLES
    account,     \* the account's row and its generation
    definition,  \* the automation definition
    bound,       \* definition revision -> generation of its read binding
    run,         \* automation_runs
    row,         \* connector_read_executions
    worker,      \* the worker thread
    called       \* read -> requests the provider received

sources == <<account, definition, bound, run>>
vars == <<account, definition, bound, run, row, worker, called>>

Steps == {"idle", "claiming", "batch", "calling", "answered", "applying"}

Phases == {"none", "pending", "claimed", "remote_call_started", "result_persisted",
           "applied", "authority_lost", "reconciliation_required", "repair_required"}

Row == [phase : Phases, lease : {"none", "held", "expired"},
        generation : Nat, revision : 0..MaxRevision]

Idle == [step |-> "idle", batch |-> {}, seen |-> None, read |-> None]

Init ==
    /\ account = [health |-> "connected", generation |-> 0, stamp |-> 0]
    /\ definition = [revision |-> 0, enabled |-> TRUE]
    /\ bound = [v \in 0..MaxRevision |-> None]
    /\ run = [r \in Runs |-> [status |-> "none", revision |-> 0]]
    /\ row = [r \in Reads |->
                [phase |-> "none", lease |-> "none", generation |-> 0, revision |-> 0]]
    /\ worker = Idle
    /\ called = [r \in Reads |-> 0]

\* Whether the store's mutex is free.
Free == worker.step # "applying"

-----------------------------------------------------------------------------
(* The account, the definition and its runs. *)

\* upsert_connector_account and mark_connector_account_needs_repair; another
\* provider, tenant, credential or grant is a new generation.
Upsert(health, rebound) ==
    /\ Free
    /\ account.stamp < MaxChanges
    /\ account.health # "pending"
    /\ account' = [health |-> health, stamp |-> account.stamp + 1,
                   generation |-> account.generation + (IF rebound THEN 1 ELSE 0)]
    /\ UNCHANGED <<definition, bound, run, row, worker, called>>

\* begin_connector_disconnect; a revocation begins in the same way.
BeginDisconnect ==
    /\ Free
    /\ account.stamp < MaxChanges
    /\ account.health \in {"connected", "unready"}
    /\ account' = [health |-> "pending", stamp |-> account.stamp + 1,
                   generation |-> account.generation + 1]
    /\ UNCHANGED <<definition, bound, run, row, worker, called>>

\* complete_connector_disconnect.
CompleteDisconnect ==
    /\ Free
    /\ account.stamp < MaxChanges
    /\ account.health = "pending"
    /\ account' = [health |-> "disconnected", stamp |-> account.stamp + 1,
                   generation |-> account.generation]
    /\ UNCHANGED <<definition, bound, run, row, worker, called>>

\* upsert_automation_definition: every edit, pause and resumption is a revision.
EditDefinition(enabled) ==
    /\ Free
    /\ definition.revision < MaxRevision
    /\ definition' = [revision |-> definition.revision + 1, enabled |-> enabled]
    /\ UNCHANGED <<account, bound, run, row, worker, called>>

\* bind_automation_connector_read_plan: the first binding of a revision stays.
Bind ==
    /\ Free
    /\ definition.enabled
    /\ account.health = "connected"
    /\ bound[definition.revision] = None
    /\ bound' = [bound EXCEPT ![definition.revision] = account.generation]
    /\ UNCHANGED <<account, definition, run, row, worker, called>>

\* A run keeps the revision it was created with.
CreateRun(r) ==
    /\ Free
    /\ run[r].status = "none"
    /\ run' = [run EXCEPT ![r] = [status |-> "queued", revision |-> definition.revision]]
    /\ UNCHANGED <<account, definition, bound, row, worker, called>>

\* transition_automation_run, as far as running differs from the rest.
MoveRun(r, status) ==
    /\ Free
    /\ run[r].status = "queued" \/ (run[r].status = "running" /\ status = "over")
    /\ run' = [run EXCEPT ![r].status = status]
    /\ UNCHANGED <<account, definition, bound, row, worker, called>>

-----------------------------------------------------------------------------
(* The authority of a read. *)

\* compute_source_request_fingerprint: what an automation read rests on.
SourceHolds(r, generation, revision) ==
    r \in Runs =>
      /\ run[r].status = "running"
      /\ run[r].revision = revision
      /\ definition = [revision |-> revision, enabled |-> TRUE]
      /\ bound[revision] = generation

Revision(r) == IF r \in Runs THEN run[r].revision ELSE 0

MaySubmit(r) ==
    /\ account.health = "connected"
    /\ SourceHolds(r, account.generation, Revision(r))

\* What claim_due, mark and apply ask of a row.
Authority(r) ==
    /\ account.health = "connected"
    /\ account.generation = row[r].generation
    /\ SourceHolds(r, row[r].generation, row[r].revision)

\* The same after the claim, which moreover froze the account's whole record.
AuthorityAsClaimed(r) == Authority(r) /\ account = worker.seen

\* submit_connector_read_execution: a read that is there already stays as it is.
Submit(r) ==
    /\ Free
    /\ row[r].phase = "none"
    /\ MaySubmit(r)
    /\ row' = [row EXCEPT ![r] = [phase |-> "pending", lease |-> "none",
                                  generation |-> account.generation,
                                  revision |-> Revision(r)]]
    /\ UNCHANGED <<sources, worker, called>>

-----------------------------------------------------------------------------
(* The worker's sweep: run_connector_read_executions_with_shared_store. *)

Moved(x, phase) == [x EXCEPT !.phase = phase, !.lease = "none"]

\* Mutant: a persisted result is applied without another look at its authority.
SettledBlindly(r) == Moved(row[r], "applied")

\* apply_connector_read_result.
Settled(r) == Moved(row[r], IF Authority(r) THEN "applied" ELSE "authority_lost")

Kept == {r \in Reads : row[r].phase = "result_persisted"}

RowsSettled(S) == [r \in Reads |-> IF r \in S THEN Settled(r) ELSE row[r]]

\* apply_due_connector_read_results, of results an earlier process had kept:
\* all of them, or until Limit were applied.
Recover ==
    /\ worker.step = "idle"
    /\ \E S \in SUBSET Kept :
         /\ S = Kept \/ Cardinality({r \in S : Authority(r)}) = Limit
         /\ row' = RowsSettled(S)
    /\ worker' = [worker EXCEPT !.step = "claiming"]
    /\ UNCHANGED <<sources, called>>

\* Mutant: whatever has an expired lease is claimed again.
DueAgain(r) == row[r].phase = "pending" \/ row[r].lease = "expired"

Due(r) == row[r].phase = "pending" \/ (row[r].phase = "claimed" /\ row[r].lease = "expired")

\* claim_due_connector_read_executions, in the order the rows come; a row whose
\* authority is gone is given up.
Claim ==
    /\ worker.step = "claiming"
    /\ \E S \in SUBSET {r \in Reads : Due(r)} :
         LET taken == {r \in S : Authority(r)} IN
         /\ Cardinality(taken) <= Limit
         /\ S = {r \in Reads : Due(r)} \/ Cardinality(taken) = Limit
         /\ row' = [r \in Reads |->
                      IF r \in taken THEN [row[r] EXCEPT !.phase = "claimed", !.lease = "held"]
                      ELSE IF r \in S THEN Moved(row[r], "repair_required") ELSE row[r]]
         /\ worker' = IF taken = {} THEN Idle
                      ELSE [step |-> "batch", batch |-> taken, seen |-> account, read |-> None]
    /\ UNCHANGED <<sources, called>>

\* CONNECTOR_READ_LEASE_SECONDS have passed since the claim.
LeaseRunsOut(r) ==
    /\ row[r].lease = "held"
    /\ row' = [row EXCEPT ![r].lease = "expired"]
    /\ UNCHANGED <<sources, worker, called>>

\* The worker with what is left of its batch once it is done with r.
Without(r) ==
    IF worker.batch \ {r} = {} THEN Idle
    ELSE [worker EXCEPT !.step = "batch", !.batch = @ \ {r}, !.read = None]

\* stop_unavailable_connector_read_claim: this build has no such provider.
StopUnavailable(r) ==
    /\ worker.step = "batch" /\ r \in worker.batch
    /\ row' = [row EXCEPT ![r] = Moved(@, "repair_required")]
    /\ worker' = Without(r)
    /\ UNCHANGED <<sources, called>>

\* Mutant: the claim's own look at the authority is thought to be enough.
MayStartClaimed(r) == row[r].lease = "held" /\ row[r].revision = 0

\* The guard of mark_connector_read_remote_call_started.
MayStart(r) ==
    /\ row[r].lease = "held"
    /\ AuthorityAsClaimed(r)
    /\ row[r].revision = 0

Mark(r) ==
    /\ worker.step = "batch" /\ r \in worker.batch
    /\ MayStart(r)
    /\ row' = [row EXCEPT ![r].phase = "remote_call_started"]
    /\ worker' = [worker EXCEPT !.step = "calling", !.read = r]
    /\ UNCHANGED <<sources, called>>

\* The same, refused: the read stays claimed until its lease runs out.
LoseClaim(r) ==
    /\ worker.step = "batch" /\ r \in worker.batch
    /\ ~MayStart(r)
    /\ worker' = Without(r)
    /\ UNCHANGED <<sources, row, called>>

\* The provider is asked; the mutex is free.
Call ==
    /\ worker.step = "calling"
    /\ called' = [called EXCEPT ![worker.read] = @ + 1]
    /\ worker' = [worker EXCEPT !.step = "answered"]
    /\ UNCHANGED <<sources, row>>

\* persist_connector_read_result of an answer.
Persist ==
    /\ worker.step = "answered"
    /\ LET r == worker.read IN
       IF AuthorityAsClaimed(r)
       THEN /\ row' = [row EXCEPT ![r] = Moved(@, "result_persisted")]
            /\ worker' = [worker EXCEPT !.step = "applying"]
       ELSE /\ row' = [row EXCEPT ![r] = Moved(@, "authority_lost")]
            /\ worker' = Without(r)
    /\ UNCHANGED <<sources, called>>

\* The same of an answer beyond its budget of items or bytes: it is dropped and
\* the read is left as it is.
RefuseResult ==
    /\ worker.step = "answered"
    /\ worker' = Without(worker.read)
    /\ UNCHANGED <<sources, row, called>>

\* fail_connector_read_after_remote_call; some failures come before any request.
Fail ==
    /\ worker.step \in {"calling", "answered"}
    /\ LET r == worker.read IN
       row' = [row EXCEPT ![r] =
                 Moved(@, IF AuthorityAsClaimed(r) THEN "repair_required" ELSE "authority_lost")]
    /\ worker' = Without(worker.read)
    /\ UNCHANGED <<sources, called>>

\* apply_connector_read_result, under the same hold of the mutex as Persist.
Apply ==
    /\ worker.step = "applying"
    /\ row' = RowsSettled({worker.read})
    /\ worker' = Without(worker.read)
    /\ UNCHANGED <<sources, called>>

\* Mutant: a started read is put back to be asked for again.
ResetForRetry(x) ==
    IF x.phase \in {"claimed", "remote_call_started"} THEN Moved(x, "pending") ELSE x

\* Mutant: a read goes back to the queue with the claim it had.
ResetWithClaim(x) ==
    IF x.phase = "claimed" THEN [x EXCEPT !.phase = "pending"]
    ELSE IF x.phase = "remote_call_started" THEN Moved(x, "reconciliation_required") ELSE x

\* reset_connector_read_executions_after_restart.
Reset(x) ==
    IF x.phase = "claimed" THEN Moved(x, "pending")
    ELSE IF x.phase = "remote_call_started" THEN Moved(x, "reconciliation_required") ELSE x

\* The process ends at any point, in the middle of a recovery too, and starts
\* again; an error of the reset is ignored.
Restart ==
    /\ \E S \in SUBSET (IF worker.step = "idle" THEN Kept ELSE {}) :
         \/ row' = RowsSettled(S)
         \/ row' = [r \in Reads |-> Reset(RowsSettled(S)[r])]
    /\ worker' = Idle
    /\ UNCHANGED <<sources, called>>

-----------------------------------------------------------------------------
Next ==
    \/ \E health \in {"connected", "unready"}, rebound \in BOOLEAN : Upsert(health, rebound)
    \/ BeginDisconnect \/ CompleteDisconnect
    \/ \E enabled \in BOOLEAN : EditDefinition(enabled)
    \/ Bind
    \/ \E r \in Runs : CreateRun(r) \/ \E s \in {"running", "over"} : MoveRun(r, s)
    \/ \E r \in Reads : Submit(r) \/ LeaseRunsOut(r) \/ StopUnavailable(r) \/ Mark(r) \/ LoseClaim(r)
    \/ Recover \/ Claim \/ Call \/ Persist \/ RefuseResult \/ Fail \/ Apply
    \/ Restart

Spec == Init /\ [][Next]_vars

-----------------------------------------------------------------------------
(* What it promises. *)

StageOf ==
    [none                    |-> "none",
     pending                 |-> "waiting",
     claimed                 |-> "waiting",
     remote_call_started     |-> "begun",
     result_persisted        |-> "kept",
     applied                 |-> "applied",
     authority_lost          |-> "stopped",
     reconciliation_required |-> "stopped",
     repair_required         |-> "stopped"]

Stage == [r \in Reads |-> StageOf[row[r].phase]]

\* The reads whose submission, past or to come, is as good as it was.
Valid == {r \in Reads : IF row[r].phase = "none" THEN MaySubmit(r) ELSE Authority(r)}

Promise == INSTANCE ReadPromise WITH stage <- Stage, valid <- Valid

\* Whatever the leases, restarts, disconnects and edits do, a read keeps to
\* ReadPromise: the provider is asked at most once, and nothing is begun, kept
\* or applied without the authority the read was submitted under
\* (CONNECTOR_READ_EXECUTION_OUTBOX.md, run_connector_read_executions).
PromiseKept == Promise!Spec

\* Types; a row carries a claim exactly while it is claimed or being called.
TypeOK ==
    /\ account \in [health : {"connected", "unready", "pending", "disconnected"},
                    generation : Nat, stamp : Nat]
    /\ definition \in [revision : 0..MaxRevision, enabled : BOOLEAN]
    /\ bound \in [0..MaxRevision -> Nat \cup {None}]
    /\ run \in [Runs -> [status : {"none", "queued", "running", "over"},
                         revision : 0..MaxRevision]]
    /\ row \in [Reads -> Row]
    /\ \A r \in Reads : row[r].lease # "none" <=>
                          row[r].phase \in {"claimed", "remote_call_started"}
    /\ worker.step \in Steps
    /\ worker.batch \subseteq Reads
    /\ worker.read \in Reads \cup {None}
    /\ called \in [Reads -> Nat]
=============================================================================
