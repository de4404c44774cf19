--------------------------- MODULE GroupedApproval ---------------------------
(***************************************************************************)
(* Task-grouped approvals: one card by which the user allows, once, all    *)
(* capabilities that a task needs for the goal that is frozen for it.      *)
(*                                                                         *)
(* A group stands for one manifest: a task, the goal revision it was       *)
(* compiled for, its items and its expiry; its id is a digest of them, so  *)
(* the same proposal names the same group.  Every item also is a request   *)
(* in the ledger of ordinary approvals, which must be resolved with it.    *)
(* Every call of the store runs under its mutex; the user may click on any *)
(* card that was ever shown, and the caller that redeems a group may hold  *)
(* a claim of any revision.                                                *)
(***************************************************************************)
EXTENDS GoalLifecycle, Naturals, Sequences, FiniteSets

CONSTANTS
    Tasks,
    Groups,      \* manifests that can be compiled
    TaskOf,      \* group -> task_id of its manifest
    RevisionOf,  \* group -> goal_revision of its manifest
    ExpiresAt,   \* group -> expires_at of its manifest
    MaxTime      \* bound: the clock

ASSUME GroupAssumption ==
    /\ None \notin Groups
    /\ TaskOf \in [Groups -> Tasks]
    /\ RevisionOf \in [Groups -> Fits]
    /\ ExpiresAt \in [Groups -> Nat]
    /\ MaxTime \in Nat

VARIABLES
    now,    \* the clock
    goal,   \* goal_envelope_projection of each task
    group,  \* task_grouped_approval_state, the items' requests and their audit
    cards,  \* intents that were shown: a group at a projection_revision
    grant   \* the group that the last call gave a grant of, or None

vars == <<now, goal, group, cards, grant>>

Ends == {"rejected", "revoked", "expired", "scope_changed"}
Active(r) == r.status \in {"pending", "approved"}

Absent == [status |-> "absent", revision |-> 0, decision |-> "none",
           items |-> "none", history |-> <<>>]
Prepared == [status |-> "pending", revision |-> 0, decision |-> "none",
             items |-> "pending", history |-> <<"pending">>]

\* Mutant: a transition is made without its audit row.
MovedUnseen(r, status) == [r EXCEPT !.status = status, !.revision = @ + 1]

\* TaskGroupedApproval::transition with its audit rows; a resolution lays the
\* items' requests down as well, which is only possible once.
Moved(r, status) ==
    [r EXCEPT !.status = status, !.revision = @ + 1, !.history = Append(@, status)]

Resolved(r, ok) ==
    [Moved(r, IF ok THEN "approved" ELSE "rejected") EXCEPT
        !.decision = IF ok THEN "approved" ELSE "rejected",
        !.items = IF ok THEN "approved" ELSE "rejected"]

Ended(r, status) ==
    [Moved(r, status) EXCEPT !.items = IF r.status = "pending" THEN "rejected" ELSE @]

-----------------------------------------------------------------------------
GroupsOf(t) == {g \in Groups : TaskOf[g] = t}
Expired(g) == now >= ExpiresAt[g]

\* Mutant: a manifest is good for any frozen goal of its task.
CurrentForAny(gl, g) == IsFrozen(gl)

\* validate_for_goal, of the task's own goal.
Current(gl, g) == IsFrozen(gl) /\ gl.revision = RevisionOf[g]

\* refresh_task_grouped_approval_state.
Refreshed(g) ==
    LET r == group[g] IN
    IF ~Active(r) THEN r
    ELSE IF Expired(g) THEN Ended(r, "expired")
    ELSE IF ~Current(goal[TaskOf[g]], g) THEN Ended(r, "scope_changed")
    ELSE r

\* A view of any group, of an ended one as well, needs a frozen goal.
ViewFails(g) == ~IsFrozen(goal[TaskOf[g]])
Shows(g, r) == cards' = IF ViewFails(g) THEN cards ELSE cards \cup {<<g, r.revision>>}

Decided(t) == \E g \in GroupsOf(t) : group[g].decision # "none"

\* Mutant: a task that was decided may ask once more.
PreparedAgain(g) ==
    [h \in Groups |->
        IF h = g THEN Prepared
        ELSE IF TaskOf[h] = TaskOf[g] /\ Active(group[h])
        THEN Ended(group[h], IF Expired(h) THEN "expired" ELSE "scope_changed")
        ELSE group[h]]

\* Mutant: the open card of another scope stays open.
PreparedBeside(g) ==
    IF Decided(TaskOf[g]) THEN group ELSE [group EXCEPT ![g] = Prepared]

\* prepare_task_grouped_approval, of a group that is new and not expired: the
\* others of the task end, but a task that was decided gets no second card.
PreparedNow(g) ==
    [h \in Groups |->
        IF h = g THEN (IF Decided(TaskOf[g]) THEN group[h] ELSE Prepared)
        ELSE IF TaskOf[h] = TaskOf[g] /\ Active(group[h])
        THEN Ended(group[h], IF Expired(h) THEN "expired" ELSE "scope_changed")
        ELSE group[h]]

Prepare(g) ==
    group' = IF group[g].status = "absent" /\ ~Expired(g) THEN PreparedNow(g) ELSE group

Init ==
    /\ now = 0
    /\ goal = [t \in Tasks |-> NoGoal]
    /\ group = [g \in Groups |-> Absent]
    /\ cards = {}
    /\ grant = None

Tick ==
    /\ now < MaxTime
    /\ now' = now + 1
    /\ grant' = None
    /\ UNCHANGED <<goal, group, cards>>

\* reconcile_agent_goal_projection: a goal or none is submitted, and if the
\* task's goal is frozen then, a capability proposal or none is compiled for it.
Reconcile(t, p, c) ==
    /\ goal' = [goal EXCEPT ![t] = IF p = None THEN @ ELSE Reconciled(@, p, c)]
    /\ \/ UNCHANGED group
       \/ \E g \in GroupsOf(t) : Current(goal'[t], g) /\ Prepare(g)
    /\ grant' = None
    /\ UNCHANGED <<now, cards>>

\* The process may stop between the writes of a goal.
CrashInReconcile(t, p, c) ==
    /\ \E h \in HalfReconciled(goal[t], p, c) : goal' = [goal EXCEPT ![t] = h]
    /\ grant' = None
    /\ UNCHANGED <<now, group, cards>>

\* list_task_grouped_authorizations ends at the first view that fails, in the
\* order of the newest change; what was refreshed before that stays refreshed.
Listing == {g \in Groups : group[g].status # "absent"}
ListingFails == \E g \in Listing : ViewFails(g)

RefreshedIn(S) == [g \in Groups |-> IF g \in S THEN Refreshed(g) ELSE group[g]]

List ==
    /\ ~ListingFails
    /\ group' = RefreshedIn(Listing)
    /\ cards' = cards \cup {<<g, group'[g].revision>> : g \in Listing}
    /\ grant' = None
    /\ UNCHANGED <<now, goal>>

ListFails ==
    /\ \E f \in Listing : ViewFails(f) /\
         \E S \in SUBSET {g \in Listing : ~ViewFails(g)} : group' = RefreshedIn(S \cup {f})
    /\ grant' = None
    /\ UNCHANGED <<now, goal, cards>>

\* resolve_task_grouped_authorization: a repeated answer changes nothing, and an
\* answer to another revision is refused; the group is refreshed first.
Resolve(g, rev, ok) ==
    /\ <<g, rev>> \in cards
    /\ LET r == Refreshed(g)
           next == IF r.status = "pending" /\ rev = r.revision THEN Resolved(r, ok) ELSE r
           repeat == /\ r.status \in {"approved", "rejected"} /\ rev = 0
                     /\ r.decision = IF ok THEN "approved" ELSE "rejected"
       IN /\ group' = [group EXCEPT ![g] = next]
          /\ IF next # r \/ repeat THEN Shows(g, next) ELSE UNCHANGED cards
    /\ grant' = None
    /\ UNCHANGED <<now, goal>>

\* revoke_task_grouped_authorization.
Revoke(g, rev) ==
    /\ <<g, rev>> \in cards
    /\ LET r == Refreshed(g)
           next == IF r.status = "approved" /\ rev = r.revision THEN Moved(r, "revoked") ELSE r
           repeat == r.status = "revoked" /\ r.revision = rev + 1
       IN /\ group' = [group EXCEPT ![g] = next]
          /\ IF next # r \/ repeat THEN Shows(g, next) ELSE UNCHANGED cards
    /\ grant' = None
    /\ UNCHANGED <<now, goal>>

\* authorize_task_grouped_capability: expiry and a changed goal are recorded on
\* the way, and only the exact revision of an approved group gives a grant.
Authorize(g, rev) ==
    /\ group[g].status # "absent"
    /\ group' = [group EXCEPT ![g] = Refreshed(g)]
    /\ LET r == Refreshed(g)
       IN grant' = IF r.status = "approved" /\ rev = r.revision /\ r.items = "approved"
                   THEN g ELSE None
    /\ UNCHANGED <<now, goal, cards>>

Next ==
    \/ Tick
    \/ \E t \in Tasks, c \in Contexts, p \in Proposals \cup {None} : Reconcile(t, p, c)
    \/ \E t \in Tasks, c \in Contexts, p \in Proposals : CrashInReconcile(t, p, c)
    \/ List \/ ListFails
    \/ \E g \in Groups, rev \in 0..2 :
         \/ \E ok \in BOOLEAN : Resolve(g, rev, ok)
         \/ Revoke(g, rev)
         \/ Authorize(g, rev)

Spec == Init /\ [][Next]_vars

-----------------------------------------------------------------------------
\* The rows that the store accepts when it is opened: status, revision and
\* decision fit together, and the audit has each transition of the group, once
\* (validate_integrity, validate_audit_history).
RowFits(r) ==
    /\ r.status = "absent" => r = Absent
    /\ r.status = "pending" => r = Prepared
    /\ r.status \in {"approved", "rejected"} => r.revision = 1 /\ r.decision = r.status
    /\ r.status = "revoked" => r.revision = 2 /\ r.decision = "approved"
    /\ r.status \in {"expired", "scope_changed"} =>
         \/ r.revision = 1 /\ r.decision = "none"
         \/ r.revision = 2 /\ r.decision = "approved"
    /\ r.revision > 0 =>
         /\ Len(r.history) = r.revision + 1
         /\ r.history[1] = "pending" /\ r.history[r.revision + 1] = r.status
    /\ r.revision = 2 => r.history[2] = "approved"

Rows ==
    {r \in [status : {"absent", "pending", "approved"} \cup Ends, revision : 0..2,
            decision : {"none", "approved", "rejected"},
            items : {"none", "pending", "approved", "rejected"},
            history : Seq({"pending", "approved"} \cup Ends)] : RowFits(r)}

TypeOK ==
    /\ now \in Nat
    /\ goal \in [Tasks -> Goals]
    /\ group \in [Groups -> Rows]
    /\ cards \subseteq Groups \X (0..2)
    /\ grant \in Groups \cup {None}

\* RELEASE_NOTES_v1.3.0: one user decision resolves the task group.  A task is
\* decided once, and from then on no other card of it is open or will be.
OneDecision ==
    \A t \in Tasks : \A g, h \in GroupsOf(t) :
        (g # h /\ group[g].decision # "none") => group[h].decision = "none" /\ ~Active(group[h])

\* A grant is given for the goal that is frozen at that moment, by a card that
\* the user saw and approved, that is the only open one of its task and whose
\* requests were all approved with it - whatever claim the caller kept.
GrantIsBacked ==
    grant # None =>
        LET r == group[grant]
            t == TaskOf[grant]
        IN /\ r.status = "approved" /\ r.decision = "approved" /\ r.items = "approved"
           /\ ~Expired(grant)
           /\ IsFrozen(goal[t]) /\ goal[t].revision = RevisionOf[grant]
           /\ <<grant, 0>> \in cards
           /\ \A h \in GroupsOf(t) \ {grant} : ~Active(group[h])

\* The requests in the ordinary ledger say what the user said of their group:
\* they are open just as long as it is, and approved only by its approval.
ItemsFollowGroup ==
    \A g \in Groups :
        /\ group[g].items = "pending" <=> group[g].status = "pending"
        /\ group[g].items = "approved" <=> group[g].decision = "approved"

\* Authority that ended by the user's word, by time or by another goal does not
\* come back to its task, by an old click, an old claim or a new proposal.
Over(t) == \E g \in GroupsOf(t) : group[g].decision # "none" /\ ~Active(group[g])
AuthorityIsOver ==
    [][\A t \in Tasks : Over(t) => Over(t)' /\ grant' \notin GroupsOf(t)]_vars
=============================================================================
