----------------------------- MODULE Automation ------------------------------
(***************************************************************************)
(* Durable automations: definitions with a schedule, the runs that a       *)
(* schedule or the user's Run now creates, and the sweep of the desktop    *)
(* (App.tsx) that every 30 seconds first mirrors the agent runs into the   *)
(* automation runs and then starts what is due.                            *)
(*                                                                         *)
(* Each command holds the store's mutex, so it is one action; between the  *)
(* two commands of a sweep, and between sweeps, anything may happen.  The  *)
(* agent run that an automation run starts belongs to AgentRuns: here it   *)
(* makes any AgentMove, within which its ledger and its goal keep it       *)
(* (AgentMovesOnly of AgentRuns, ShownMovesOnly of TaskGoals).             *)
(***************************************************************************)
EXTENDS AgentStatus, Integers, Sequences, FiniteSets

CONSTANTS
    Definitions,   \* automation definitions the user may create
    Once,          \* those that run once; the others recur
    WindowsOf,     \* definition -> the instants of its schedule
    SkipMissed,    \* definitions whose missed_run_policy is Skip
    MissedAfter,   \* missed_after_seconds
    LateReports,   \* whether a closed agent run may get a second outcome
    RetryLimit,    \* retry_limit; 0 in every definition the desktop creates
    Seen,          \* bound: the agent statuses that runs are enumerated in
    MaxTime,       \* bound: the clock stops here
    MaxManual,     \* bound: runs started with Run now
    NoWindow       \* the window of a run started with Run now

Time == 0..MaxTime

ASSUME AutomationAssumption ==
    /\ IsFiniteSet(Definitions)
    /\ Once \subseteq Definitions
    /\ SkipMissed \subseteq Definitions
    /\ WindowsOf \in [Definitions -> SUBSET Nat]
    /\ \A d \in Once : Cardinality(WindowsOf[d]) = 1
    /\ MissedAfter \in Nat
    /\ LateReports \in BOOLEAN
    /\ Seen \subseteq AgentStatuses
    /\ RetryLimit \in Nat
    /\ MaxTime \in Nat
    /\ MaxManual \in Nat
    /\ NoWindow \notin Nat

RunStatus == {"queued", "running", "waiting_review", "waiting_approval",
              "completed", "failed", "cancelled"}

VARIABLES
    now,      \* the wall clock
    status,   \* definition -> "absent" or its AutomationDefinitionStatus
    born,     \* definition -> created_at
    rows,     \* automation_runs, in rowid order
    sweeper   \* what the desktop's sweep does next

vars == <<now, status, born, rows, sweeper>>

Row == [def : Definitions, window : Nat \cup {NoWindow}, at : Nat, created : Nat,
        status : RunStatus, attempt : 0..RetryLimit, agent : AgentStatuses \cup {"none"}]

Init ==
    /\ now     = 0
    /\ status  = [d \in Definitions |-> "absent"]
    /\ born    = [d \in Definitions |-> 0]
    /\ rows    = <<>>
    /\ sweeper = "reconcile"

Tick ==
    /\ now < MaxTime
    /\ now' = now + 1
    /\ UNCHANGED <<status, born, rows, sweeper>>

-----------------------------------------------------------------------------
(* Definitions. *)

\* create_once_automation, create_recurring_automation.
Create(d) ==
    /\ status[d] = "absent"
    /\ status' = [status EXCEPT ![d] = "enabled"]
    /\ born'   = [born EXCEPT ![d] = now]
    /\ UNCHANGED <<now, rows, sweeper>>

\* set_automation_enabled and delete_automation: no status is final.
SetStatus(d, s) ==
    /\ status[d] # "absent"
    /\ status' = [status EXCEPT ![d] = s]
    /\ UNCHANGED <<now, born, rows, sweeper>>

-----------------------------------------------------------------------------
(* Starting runs. *)

RowsOf(d) == {i \in DOMAIN rows : rows[i].def = d}

\* Mutant: every schedule is exhausted by its first run.
DueOnce(d) == {w \in WindowsOf[d] : w <= now /\ w >= born[d] /\ RowsOf(d) = {}}

\* Windows that are due: a one-time schedule has none once it has any run, a
\* recurring one only has those after the latest scheduled_for of its runs,
\* the ones started by hand included.
Due(d) ==
    {w \in WindowsOf[d] :
       /\ w <= now
       /\ IF d \in Once THEN RowsOf(d) = {}
          ELSE /\ w >= born[d]
               /\ \A i \in RowsOf(d) : rows[i].at < w}

\* Mutant: missed windows are caught up one at a time.
OldestDue(d) == {w \in Due(d) : \A v \in Due(d) : w <= v}

\* due_automation_window: of several due windows only the newest one runs.
NewestDue(d) == {w \in Due(d) : \A v \in Due(d) : v <= w}

\* The row of a missed window under Skip is written without an agent run.
Missed(d, w) == d \in SkipMissed /\ now - w > MissedAfter

WindowRow(d, w) ==
    [def |-> d, window |-> w, at |-> w, created |-> now,
     status  |-> IF Missed(d, w) THEN "cancelled" ELSE "queued",
     attempt |-> 0,
     agent   |-> IF Missed(d, w) THEN "none" ELSE "queued"]

\* Definitions that get a row now.
Firing == {d \in Definitions : status[d] = "enabled" /\ NewestDue(d) # {}}

\* S in any order, without repetition.
Orders(S) ==
    {f \in [1..Cardinality(S) -> S] : \A i, j \in DOMAIN f : f[i] = f[j] => i = j}

\* enqueue_due_automation_agent_run of the definitions in S, one after the
\* other; a row and its agent run's start are one transaction.
StartRuns(S) ==
    \E order \in Orders(S) :
      rows' = rows \o [n \in DOMAIN order |->
                         WindowRow(order[n], CHOOSE w \in NewestDue(order[n]) : TRUE)]

\* run_due_automation_sweep.
StartDue ==
    /\ sweeper = "due"
    /\ StartRuns(Firing)
    /\ sweeper' = "reconcile"
    /\ UNCHANGED <<now, status, born>>

\* run_automation_now: a paused definition runs as well.
RunNow(d) ==
    /\ status[d] \in {"enabled", "paused"}
    /\ Cardinality({i \in DOMAIN rows : rows[i].window = NoWindow}) < MaxManual
    /\ rows' = Append(rows,
         [def |-> d, window |-> NoWindow, at |-> now, created |-> now,
          status |-> "queued", attempt |-> 0, agent |-> "queued"])
    /\ UNCHANGED <<now, status, born, sweeper>>

-----------------------------------------------------------------------------
(* Mirroring the agent runs. *)

AgentMoves(i) ==
    /\ rows[i].agent # "none"
    /\ rows[i].agent \in Closed => LateReports
    /\ \E s \in Seen :
         /\ AgentMove(rows[i].agent, s)
         /\ rows' = [rows EXCEPT ![i].agent = s]
    /\ UNCHANGED <<now, status, born, sweeper>>

\* Only asked of rows that have an agent run.
Target(s) ==
    CASE s \in {"queued", "running", "completed"}      -> s
      [] s = "waiting_for_prerequisite"                -> "waiting_review"
      [] s = "waiting_for_confirmation"                -> "waiting_approval"
      [] s \in {"failed", "blocked"}                   -> "failed"
      [] s \in {"cancelled", "cancel_requested"}       -> "cancelled"

\* automation_run_transition_allowed.
Allowed(from, to) ==
    \/ from = "queued" /\ to # "queued"
    \/ from = "running" /\ to \notin {"queued", "running"}
    \/ from = "waiting_review" /\ to \in {"waiting_approval", "completed", "failed", "cancelled"}
    \/ from = "waiting_approval" /\ to \in {"completed", "failed", "cancelled"}
    \/ from = "failed" /\ to = "queued"

\* Mutant: one retry too many.
AcceptedAgain(r, to) ==
    /\ Allowed(r.status, to)
    /\ r.status = "failed" => r.attempt <= RetryLimit

\* transition_automation_run; leaving failed for queued is a retry.
Accepted(r, to) ==
    /\ Allowed(r.status, to)
    /\ r.status = "failed" => r.attempt < RetryLimit

Mirrored(r) ==
    [r EXCEPT !.status  = Target(r.agent),
              !.attempt = IF r.status = "failed" THEN @ + 1 ELSE @]

\* Mutant: only agent runs that are still open are looked at.
LaggingOpen(i) == rows[i].agent \in OpenStatus /\ rows[i].status # Target(rows[i].agent)

Lagging(i) == rows[i].agent # "none" /\ rows[i].status # Target(rows[i].agent)

\* Runs whose transition is refused; the first one ends the reconciliation.
Refused ==
    {i \in DOMAIN rows : Lagging(i) /\ ~Accepted(rows[i], Target(rows[i].agent))}

\* list_automation_runs: by scheduled_for, then rowid.
Precedes(i, j) == rows[i].at < rows[j].at \/ (rows[i].at = rows[j].at /\ i < j)

\* The rows after every lagging one listed before those in Stop was mirrored.
MirroredBefore(Stop) ==
    [i \in DOMAIN rows |->
       IF Lagging(i) /\ i \notin Stop /\ \A j \in Stop : Precedes(i, j)
       THEN Mirrored(rows[i]) ELSE rows[i]]

\* reconcile_automation_runs.  A refused transition is an error: what was
\* mirrored before it stays, and the sweep does not start what is due.
Reconcile ==
    /\ sweeper = "reconcile"
    /\ rows' = MirroredBefore(Refused)
    /\ sweeper' = IF Refused = {} THEN "due" ELSE "reconcile"
    /\ UNCHANGED <<now, status, born>>

\* The desktop is closed, perhaps in the middle of a sweep, and opened again.
Restart ==
    /\ \/ /\ sweeper = "reconcile"
          /\ \E i \in DOMAIN rows : rows' = MirroredBefore(Refused \cup {i})
       \/ /\ sweeper = "due"
          /\ \E S \in SUBSET Firing : StartRuns(S)
    /\ sweeper' = "reconcile"
    /\ UNCHANGED <<now, status, born>>

-----------------------------------------------------------------------------
Next ==
    \/ Tick
    \/ \E d \in Definitions :
         \/ Create(d)
         \/ \E s \in {"enabled", "paused", "deleted"} : SetStatus(d, s)
         \/ RunNow(d)
    \/ \E i \in DOMAIN rows : AgentMoves(i)
    \/ Reconcile
    \/ StartDue
    \/ Restart

Spec == Init /\ [][Next]_vars

\* While the desktop is open its timer fires; StartDue is only interrupted
\* by closing it, which does not happen between every two commands for ever.
FairSpec == Spec /\ WF_vars(Reconcile) /\ SF_vars(StartDue)
-----------------------------------------------------------------------------
\* Types; a run is retried at most retry_limit times.
TypeOK ==
    /\ now \in Time
    /\ status \in [Definitions -> {"absent", "enabled", "paused", "deleted"}]
    /\ born \in [Definitions -> Time]
    /\ rows \in Seq(Row)
    /\ sweeper \in {"reconcile", "due"}

\* After any downtime, pause or run by hand a schedule starts at most its
\* newest missed window, and no window at or before one that was already
\* served (trigger_window_key, due_automation_window): missed work does not
\* pile up and no window is run twice.
OnlyNewestWindow ==
    [][\A i \in DOMAIN rows' \ DOMAIN rows :
         LET r == rows'[i] IN
         r.window # NoWindow =>
           /\ \A w \in WindowsOf[r.def] : w <= now => w <= r.window
           /\ \A j \in DOMAIN rows : rows[j].def = r.def => rows[j].at < r.window]_vars

\* A definition that skips missed windows never starts an agent run for a
\* window that passed longer ago than it tolerates, whenever the desktop
\* finally gets to sweep (missed_run_policy).
SkippedIsNotStarted ==
    \A i \in DOMAIN rows :
      LET r == rows[i] IN
      r.window # NoWindow /\ r.def \in SkipMissed /\ r.agent # "none"
        => r.created - r.window <= MissedAfter

\* Whatever an agent run reports after it was first seen to end (a worker that
\* was swept may still complete or fail), its automation run does not leave
\* completed or cancelled (automation_run_transition_allowed).
EndedRunsStay ==
    [][\A i \in DOMAIN rows :
         rows[i].status \in {"completed", "cancelled"} =>
           rows'[i].status = rows[i].status]_vars

Served(d, w) == \E i \in RowsOf(d) : d \in Once \/ rows[i].at >= w

DueWindow(d, w) ==
    status[d] = "enabled" /\ born[d] <= w /\ w <= now /\ ~Served(d, w)

\* A window of an enabled definition that is due is run in the end, unless the
\* definition is switched off or the transition of some automation run, of any
\* definition, is refused (run_due_automation_sweep).
DueUnlessRefused ==
    \A d \in Definitions : \A w \in WindowsOf[d] :
      DueWindow(d, w) ~> (Served(d, w) \/ status[d] # "enabled" \/ Refused # {})

\* No more rows than this are ever written: one per window, and the manual ones.
MaxRows == MaxManual + Cardinality(UNION {{d} \X WindowsOf[d] : d \in Definitions})

\* An automation run follows the agent run that ended, in the end and under the
\* same proviso, although the end may be reported anew or no longer believed
\* before the sweep gets to look at it (reconcile_automation_agent_runs).
EndIsMirrored ==
    \A i \in 1..MaxRows :
      LET there == i \in DOMAIN rows IN
      (there /\ rows[i].agent \in Closed)
        ~> (Refused # {} \/ (there /\ rows[i].status = Target(rows[i].agent)))
=============================================================================
