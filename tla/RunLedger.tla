------------------------------ MODULE RunLedger ------------------------------
(***************************************************************************)
(* The event ledger of one agent run and the record projected from it     *)
(* (kernel/agent_run.rs, EventStore::list_agent_run_records).              *)
(*                                                                         *)
(* The store appends immutable events and folds them into a record on      *)
(* every read.  The fold only looks at the newest event of each kind and   *)
(* at which kind is newest, so a ledger is kept here as exactly that:      *)
(*                                                                         *)
(*   latest  the kind of the newest claim / queue / transition event       *)
(*           ("queue" is a recovery or a continuation), or "start"         *)
(*   claim   the worker of the newest claim event, NoWorker before any     *)
(*   live    the lease of that claim has not expired yet                   *)
(*   trans   the status of the newest transition event, "none" before any  *)
(*   finish  the status of the newest finish event, "none" before any      *)
(*   cancel  a cancel request was appended                                 *)
(*                                                                         *)
(* Appends happen under the store's mutex; their time stamps are taken to  *)
(* be in append order.                                                     *)
(***************************************************************************)
CONSTANT NoWorker   \* "no worker id" in a projected record

TerminalStatus == {"completed", "failed", "cancelled"}

WaitingStatus == {"waiting_for_confirmation", "waiting_for_prerequisite"}

\* AgentRunTransition::new accepts the queued and the non-terminal statuses.
TransitionStatus == {"queued", "running", "blocked"} \cup WaitingStatus

RunStatuses ==
    {"absent", "cancel_requested"} \cup TransitionStatus \cup TerminalStatus

Ledgers(W) ==
    {l \in [started : BOOLEAN,
            latest  : {"start", "claim", "queue", "transition"},
            claim   : W \cup {NoWorker},
            live    : BOOLEAN,
            trans   : TransitionStatus \cup {"none"},
            finish  : TerminalStatus \cup {"none"},
            cancel  : BOOLEAN] :
       l.latest = "transition" => l.trans # "none"}

NoLedger ==
    [started |-> FALSE, latest |-> "start", claim |-> NoWorker, live |-> FALSE,
     trans |-> "none", finish |-> "none", cancel |-> FALSE]

-----------------------------------------------------------------------------
(* Appending one event. *)

StartRun(l)       == [l EXCEPT !.started = TRUE]
AppendClaim(l, w) == [l EXCEPT !.latest = "claim", !.claim = w, !.live = TRUE]
AppendQueue(l)    == [l EXCEPT !.latest = "queue"]
AppendFinish(l, s) == [l EXCEPT !.finish = s]
AppendCancel(l)   == [l EXCEPT !.cancel = TRUE]
ExpireLease(l)    == [l EXCEPT !.live = FALSE]

-----------------------------------------------------------------------------
(* The projection. *)

\* Mutant: a queue event appended after the finish wins.
BaseStatusRequeued(l) ==
    IF l.finish # "none" /\ l.latest # "queue" THEN l.finish
    ELSE IF l.latest = "transition" THEN l.trans
    ELSE IF l.latest = "claim" THEN "running"
    ELSE "queued"

\* Status before the cancel override.
BaseStatus(l) ==
    IF l.finish # "none" THEN l.finish
    ELSE IF l.latest = "transition" THEN l.trans
    ELSE IF l.latest = "claim" THEN "running"
    ELSE "queued"

\* A cancel request overrides every status except an effective cancelled or
\* failed finish: a completed run that is cancelled reads cancel_requested.
StatusOf(l) ==
    IF ~l.started THEN "absent"
    ELSE IF l.cancel /\ l.finish \notin {"cancelled", "failed"} THEN "cancel_requested"
    ELSE BaseStatus(l)

\* The active claim: hidden while a queue event is newest, and hidden for as
\* long as the newest TRANSITION says queued, whatever was claimed since.
LeaseHolder(l) ==
    IF l.latest = "queue" \/ l.trans = "queued" THEN NoWorker ELSE l.claim

HoldsLiveLease(l, w) == w # NoWorker /\ LeaseHolder(l) = w /\ l.live

\* append_agent_run_transition refuses cancelled and terminal runs.
MayTransition(l) == ~l.cancel /\ StatusOf(l) \notin TerminalStatus

AppendTransition(l, s) ==
    IF MayTransition(l) THEN [l EXCEPT !.latest = "transition", !.trans = s] ELSE l

\* recover_expired_agent_runs, for one run; unknown says that one of its tool
\* invocations is still recorded as running.
LeaseExpired(l) ==
    /\ LeaseHolder(l) # NoWorker
    /\ ~l.live
    /\ StatusOf(l) \in {"running", "cancel_requested"}

\* Mutant: the outcome of the interrupted tool is not looked at.
RecoveredBlindly(l, unknown) ==
    IF ~LeaseExpired(l) THEN l
    ELSE IF l.cancel THEN AppendFinish(l, "cancelled")
    ELSE AppendQueue(l)

\* Mutant: a cancelled run is left to its worker.
RecoveredUncancelled(l, unknown) ==
    IF ~LeaseExpired(l) \/ l.cancel THEN l
    ELSE IF unknown THEN AppendTransition(l, "blocked")
    ELSE AppendQueue(l)

\* Mutant: an indeterminate run is skipped instead of blocked.
RecoveredIfKnown(l, unknown) ==
    IF ~LeaseExpired(l) \/ unknown THEN l
    ELSE IF l.cancel THEN AppendFinish(l, "cancelled")
    ELSE AppendQueue(l)

Recovered(l, unknown) ==
    IF ~LeaseExpired(l) THEN l
    ELSE IF l.cancel THEN AppendFinish(l, "cancelled")
    ELSE IF unknown THEN AppendTransition(l, "blocked")
    ELSE AppendQueue(l)
=============================================================================
