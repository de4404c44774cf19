---------------------------- MODULE ConnectedWork ----------------------------
(***************************************************************************)
(* Mail and calendar changes of a connected account: a source run asks for *)
(* a change, the kernel prepares a review of it, the user freezes,         *)
(* approves or rejects it, the approved change is sent once, and a change  *)
(* whose answer is lost is looked up, never sent again.                    *)
(*                                                                         *)
(* The store is behind one mutex and SQLite transactions, so a step of the *)
(* model is what happens between taking the mutex and giving it back.  The *)
(* commands of the review panel run on the main thread, one at a time; the *)
(* source runs, the account's own changes and the reconciliation worker    *)
(* run beside them.                                                        *)
(***************************************************************************)
EXTENDS Naturals, FiniteSets

CONSTANTS
    Work,         \* requests: a source run, a kind and a payload
    MaxAttempts,  \* MAX_FOREGROUND_CONNECTED_WORK_ATTEMPTS
    MaxChanges,   \* bound: generations of the account
    MaxStops,     \* bound: stops of the process and store errors
    None

Items == Work \X (1..MaxAttempts)

ASSUME WorkAssumption ==
    /\ MaxAttempts \in Nat \ {0}
    /\ MaxChanges \in Nat /\ MaxStops \in Nat
    /\ None \notin Items

VARIABLES
    kind,     \* what a request asks for: a mail or a change of the calendar
    up,       \* the process runs
    stops,    \* stops and store errors so far
    account,  \* the account's row and its generation
    plan,     \* the definition that reserves an attempt
    run,      \* the automation run of the attempt, with its agent run
    local,    \* the mail draft or calendar proposal
    frozen,   \* the account generation the draft was made under
    review,   \* the review queue item
    approval, \* the exact approval request
    call,     \* the connector invocation, with its tool invocation
    check,    \* the reconciliation columns of the invocation
    command,  \* approve_and_run, on the main thread
    worker,   \* the reconciliation worker
    remote,   \* what became of the change at the provider
    sent      \* item -> times it was sent

preparation == <<plan, run, local, frozen>>
decision == <<review, approval>>
effect == <<call, check>>
actors == <<command, worker>>
vars == <<kind, up, stops, account, preparation, decision, effect, actors, remote, sent>>

NoCommand == [step |-> "idle", item |-> None, generation |-> 0, status |-> "none"]
NoBatch == [held |-> {}, item |-> None]

Init ==
    /\ kind \in [Work -> {"mail", "calendar"}]
    /\ up = TRUE /\ stops = 0
    /\ account = [health |-> "connected", generation |-> 0]
    /\ plan = [i \in Items |-> "none"]
    /\ run = [i \in Items |-> "none"]
    /\ local = [i \in Items |-> "none"]
    /\ frozen = [i \in Items |-> 0]
    /\ review = [i \in Items |-> "none"]
    /\ approval = [i \in Items |-> "none"]
    /\ call = [i \in Items |-> "none"]
    /\ check = [i \in Items |-> "none"]
    /\ command = NoCommand
    /\ worker = NoBatch
    /\ remote = [i \in Items |-> "none"]
    /\ sent = [i \in Items |-> 0]

Calls == {"none", "pending_approval", "running", "succeeded", "failed",
          "reconciliation_required"}

TypeOK ==
    /\ kind \in [Work -> {"mail", "calendar"}]
    /\ up \in BOOLEAN /\ stops \in 0..MaxStops
    /\ account \in [health : {"connected", "needs_repair", "disconnected"},
                    generation : Nat]
    /\ plan \in [Items -> {"none", "active", "deleted"}]
    /\ run \in [Items -> {"none", "queued", "running", "waiting", "ended"}]
    /\ local \in [Items -> {"none", "editing", "pending_review", "frozen", "consumed"}]
    /\ frozen \in [Items -> Nat]
    /\ review \in [Items -> {"none", "pending_review", "pending_approval",
                             "accepted", "rejected"}]
    /\ approval \in [Items -> {"none", "pending", "granted", "exact", "denied"}]
    /\ call \in [Items -> Calls]
    /\ check \in [Items -> {"none", "later", "due", "held", "expired", "quarantined"}]
    /\ command \in [step : {"idle", "looked", "started", "sent"},
                    item : Items \cup {None}, generation : Nat, status : Calls]
    /\ worker \in [held : SUBSET Items, item : Items \cup {None}]
    /\ remote \in [Items -> {"none", "flying", "applied", "void"}]
    /\ sent \in [Items -> Nat]

-----------------------------------------------------------------------------
(* Helpers                                                                 *)

IsMail(i) == kind[i[1]] = "mail"

\* The account is connected under the generation the draft was made under.
Current(i) == account.health = "connected" /\ account.generation = frozen[i]

\* Mutant: the look-up does not ask for the approval and the review again.
BoundToAccount(i) == Current(i)

\* What a claim, its renewal and its completion verify of an uncertain change.
Bound(i) ==
    /\ Current(i)
    /\ approval[i] \in {"granted", "exact"}
    /\ review[i] = "pending_approval"

\* Mutant: an attempt whose preparation is over is taken again.
SpentWhenOver(i) == run[i] = "ended" \/ plan[i] = "deleted"

\* An attempt that ended without a review is not taken again.
Spent(i) ==
    /\ review[i] = "none"
    /\ run[i] = "ended" \/ (run[i] = "none" /\ plan[i] = "deleted")

Reserved(w) ==
    {a \in 1..MaxAttempts : ~Spent(<<w, a>>) /\ \A b \in 1..(a - 1) : Spent(<<w, b>>)}

Idle == up /\ command.step = "idle"

\* The store's part of a completion: one transaction over the invocation, its
\* tool, the review and the draft or proposal.
Complete(i) ==
    /\ call' = [call EXCEPT ![i] = "succeeded"]
    /\ check' = [check EXCEPT ![i] = "none"]
    /\ review' = [review EXCEPT ![i] = "accepted"]
    /\ local' = [local EXCEPT ![i] = "consumed"]

\* Mutant: an error of the provider is taken for a change not made.
MarkFailed(i) ==
    /\ call' = [call EXCEPT ![i] = "failed"]
    /\ review' = [review EXCEPT ![i] = "rejected"]
    /\ UNCHANGED <<check, local>>

\* The invocation must be running: it is scheduled to be looked up.
MarkUncertain(i) ==
    /\ IF call[i] = "running"
       THEN /\ call' = [call EXCEPT ![i] = "reconciliation_required"]
            /\ check' = [check EXCEPT ![i] = "due"]
       ELSE UNCHANGED effect
    /\ UNCHANGED <<review, local>>

-----------------------------------------------------------------------------
(* Preparation by a source run, under the mutex                            *)

Stages == {"plan", "queue", "claim", "draft", "freeze", "review"}

\* Mutant: the run is left in its agent run's status.
RunAtAgent == [s \in Stages |-> IF s = "review" THEN "waiting_for_confirmation"
                                ELSE "running"]

RunAt == [plan |-> "none", queue |-> "queued", claim |-> "running",
          draft |-> "running", freeze |-> "running", review |-> "waiting"]

LocalAt(i) == [plan |-> "none", queue |-> "none", claim |-> "none",
               draft |-> "editing", freeze |-> "frozen",
               review |-> IF IsMail(i) THEN "frozen" ELSE "pending_review"]

\* The draft, review and request as the transactions up to `stage` leave them:
\* a mail goes straight to its exact approval, a calendar proposal waits for
\* its content to be reviewed.
Written(i, stage) ==
    /\ stage \in {"draft", "freeze"} => IsMail(i)
    /\ local' = [local EXCEPT ![i] = LocalAt(i)[stage]]
    /\ frozen' = [frozen EXCEPT ![i] = account.generation]
    /\ IF stage = "review" /\ IsMail(i)
       THEN /\ review' = [review EXCEPT ![i] = "pending_approval"]
            /\ approval' = [approval EXCEPT ![i] = "pending"]
            /\ call' = [call EXCEPT ![i] = "pending_approval"]
       ELSE /\ review' = IF stage = "review"
                         THEN [review EXCEPT ![i] = "pending_review"] ELSE review
            /\ UNCHANGED <<approval, call>>
    /\ UNCHANGED check

\* The request takes its first attempt that is not spent.  One in progress is
\* refused without a change.
Fresh(w, i) ==
    /\ up /\ account.health = "connected"
    /\ \E a \in Reserved(w) : i = <<w, a>>
    /\ plan[i] = "none" /\ run[i] = "none"

Prepare(w) ==
    \E i \in Items :
        /\ Fresh(w, i)
        /\ plan' = [plan EXCEPT ![i] = "deleted"]
        /\ run' = [run EXCEPT ![i] = RunAt["review"]]
        /\ Written(i, "review")
        /\ UNCHANGED <<kind, up, stops, account, actors, remote, sent>>

\* A request whose attempt has its review is answered with it, and what an
\* error has left of the attempt is put away.
PrepareAgain(w) ==
    \E a \in Reserved(w) :
        /\ up /\ account.health = "connected"
        /\ review[<<w, a>>] # "none" /\ plan[<<w, a>>] = "active"
        /\ plan' = [plan EXCEPT ![<<w, a>>] = "deleted"]
        /\ UNCHANGED <<kind, up, stops, account, run, local, frozen, decision, effect,
                       actors, remote, sent>>

\* A store error after one of the transactions: the attempt is failed, or
\* finished when its review exists.  If the store refuses that too, after the
\* end of the run or before it, the attempt stays in progress.
PrepareFails(w, stage) ==
    \E i \in Items :
        /\ Fresh(w, i) /\ stops < MaxStops
        /\ stops' = stops + 1
        /\ LET over == IF stage \in {"plan", "review"} THEN RunAt[stage] ELSE "ended" IN
           \/ /\ plan' = [plan EXCEPT ![i] = "deleted"]
              /\ run' = [run EXCEPT ![i] = over]
           \/ /\ plan' = [plan EXCEPT ![i] = "active"]
              /\ run' \in {[run EXCEPT ![i] = s] : s \in {RunAt[stage], over}}
        /\ Written(i, stage)
        /\ UNCHANGED <<kind, up, account, actors, remote, sent>>

\* The process stops after one of the transactions.
PrepareStops(w, stage) ==
    \E i \in Items :
        /\ Fresh(w, i) /\ stops < MaxStops
        /\ up' = FALSE /\ stops' = stops + 1
        /\ command' = NoCommand /\ worker' = NoBatch
        /\ plan' = [plan EXCEPT ![i] = "active"]
        /\ run' = [run EXCEPT ![i] = RunAt[stage]]
        /\ Written(i, stage)
        /\ UNCHANGED <<kind, account, remote, sent>>

\* The agent run is ended: while its review stands open, which only a proposal
\* whose approval is still to be asked for will notice, or by the queue's own
\* workers, when the preparation that held it is gone.
EndRun(i) ==
    /\ up
    /\ \/ run[i] = "waiting" /\ local[i] = "pending_review"
       \/ run[i] \in {"queued", "running"} /\ plan[i] = "active"
    /\ run' = [run EXCEPT ![i] = "ended"]
    /\ UNCHANGED <<kind, up, stops, account, plan, local, frozen, decision, effect,
                   actors, remote, sent>>

-----------------------------------------------------------------------------
(* The user's decisions: commands on the main thread                       *)

\* A calendar change is frozen and its exact approval asked for.
RequestApproval(i) ==
    /\ Idle
    /\ review[i] = "pending_review" /\ local[i] = "pending_review"
    /\ Current(i) /\ run[i] = "waiting"
    /\ local' = [local EXCEPT ![i] = "frozen"]
    /\ review' = [review EXCEPT ![i] = "pending_approval"]
    /\ approval' = [approval EXCEPT ![i] = "pending"]
    /\ call' = [call EXCEPT ![i] = "pending_approval"]
    /\ UNCHANGED <<kind, up, stops, account, plan, run, frozen, check, actors, remote, sent>>

\* The review is rejected, accepted as it stands, or edited; only the first of
\* them is the panel's own, the others are the automation review commands.
\* Whatever was bound to it loses its approval, in whatever state the
\* invocation is.
Decide(i, to) ==
    /\ Idle
    /\ review[i] = "pending_review" \/ (review[i] = "pending_approval" /\ to # "accepted")
    /\ review' = [review EXCEPT ![i] = to]
    /\ approval' = [approval EXCEPT ![i] =
                       IF review[i] = "pending_approval" THEN "denied" ELSE @]
    /\ UNCHANGED <<kind, up, stops, account, preparation, effect, actors, remote, sent>>

Reject(i) == Decide(i, "rejected")
Accept(i) == Decide(i, "accepted")
Edit(i)   == Decide(i, "pending_review")

\* The list of approvals shows the request too; it resolves without the exact
\* preview.
ResolveRequest(i, to) ==
    /\ Idle
    /\ approval[i] = "pending"
    /\ approval' = [approval EXCEPT ![i] = to]
    /\ UNCHANGED <<kind, up, stops, account, preparation, review, effect, actors, remote, sent>>

-----------------------------------------------------------------------------
(* approve_and_run: three holds of the mutex, and the call between the last *)
(* two                                                                      *)

Look(i) ==
    /\ Idle
    /\ review[i] = "pending_approval"
    /\ command' = [step |-> "looked", item |-> i,
                   generation |-> account.generation, status |-> call[i]]
    /\ UNCHANGED <<kind, up, stops, account, preparation, decision, effect, worker,
                   remote, sent>>

\* An invocation found running was left by a stop: it is not sent again.
MarkStranded ==
    LET i == command.item IN
    /\ up /\ command.step = "looked" /\ command.status = "running"
    /\ MarkUncertain(i)
    /\ command' = NoCommand
    /\ UNCHANGED <<kind, up, stops, account, plan, run, frozen, approval, worker, remote, sent>>

\* Mutant: the account is only looked at before, by the command.
MayStartOnCopy(i) ==
    /\ review[i] = "pending_approval"
    /\ call[i] = "pending_approval"
    /\ \/ approval[i] = "pending"
       \/ approval[i] = "granted" /\ ~IsMail(i)

\* The request approved here, exactly, or before, in the list: a mail needs
\* the exact approval.
MayStart(i) ==
    /\ review[i] = "pending_approval"
    /\ call[i] = "pending_approval"
    /\ Current(i)
    /\ \/ approval[i] = "pending"
       \/ approval[i] = "granted" /\ ~IsMail(i)

Start ==
    LET i == command.item IN
    /\ up /\ command.step = "looked" /\ command.status # "running"
    /\ IF MayStart(i)
       THEN /\ approval' = [approval EXCEPT ![i] = IF @ = "pending" THEN "exact" ELSE @]
            /\ call' = [call EXCEPT ![i] = "running"]
            /\ command' = [command EXCEPT !.step = "started"]
       ELSE IF review[i] = "pending_approval" /\ call[i] = "running"
       THEN /\ command' = [command EXCEPT !.step = "started"]
            /\ UNCHANGED <<approval, call>>
       ELSE /\ command' = NoCommand
            /\ UNCHANGED <<approval, call>>
    /\ UNCHANGED <<kind, up, stops, account, preparation, review, check, worker, remote, sent>>

\* apply_mutation, without the mutex.
Send ==
    LET i == command.item IN
    /\ up /\ command.step = "started"
    /\ command' = [command EXCEPT !.step = "sent"]
    /\ sent' = [sent EXCEPT ![i] = @ + 1]
    /\ remote' = [remote EXCEPT ![i] = IF @ = "none" THEN "flying" ELSE @]
    /\ UNCHANGED <<kind, up, stops, account, preparation, decision, effect, worker>>

\* The provider confirmed the change: it is completed, or looked up later when
\* the account changed meanwhile.
Confirmed ==
    LET i == command.item IN
    /\ up /\ command.step = "sent" /\ remote[i] = "applied"
    /\ IF call[i] = "running" /\ Current(i) /\ review[i] = "pending_approval"
       THEN Complete(i)
       ELSE MarkUncertain(i)
    /\ command' = NoCommand
    /\ UNCHANGED <<kind, up, stops, account, plan, run, frozen, approval, worker, remote, sent>>

\* It answered with an error, not at all, or that it cannot tell.
Unanswered ==
    /\ up /\ command.step = "sent"
    /\ MarkUncertain(command.item)
    /\ command' = NoCommand
    /\ UNCHANGED <<kind, up, stops, account, plan, run, frozen, approval, worker, remote, sent>>

-----------------------------------------------------------------------------
(* The provider: a request lands or is lost, late if need be               *)

Land(i) ==
    /\ remote[i] = "flying"
    /\ remote' = [remote EXCEPT ![i] = "applied"]
    /\ UNCHANGED <<kind, up, stops, account, preparation, decision, effect, actors, sent>>

Drop(i) ==
    /\ remote[i] = "flying"
    /\ remote' = [remote EXCEPT ![i] = "void"]
    /\ UNCHANGED <<kind, up, stops, account, preparation, decision, effect, actors, sent>>

-----------------------------------------------------------------------------
(* The reconciliation worker                                               *)

\* Mutant: a claim that ran out is not taken over.
ClaimableDue(i) == check[i] = "due"

\* Due, or claimed under a lease that ran out.
Claimable(i) == check[i] \in {"due", "expired"}

\* One hold of the mutex claims what is due; what is no longer bound to its
\* approval is put aside for good.
Sweep ==
    LET open == {i \in Items : Claimable(i)} IN
    /\ up /\ worker = NoBatch /\ open # {}
    /\ check' = [i \in Items |-> IF i \notin open THEN check[i]
                                 ELSE IF Bound(i) THEN "held" ELSE "quarantined"]
    /\ worker' = [NoBatch EXCEPT !.held = {i \in open : Bound(i)}]
    /\ UNCHANGED <<kind, up, stops, account, preparation, decision, call, command,
                   remote, sent>>

\* The claim is renewed and the provider asked; a claim that ran out or is no
\* longer bound is let go.
Query(i) ==
    /\ up /\ worker.item = None /\ i \in worker.held
    /\ worker' = [held |-> worker.held \ {i},
                  item |-> IF check[i] = "held" /\ Bound(i) THEN i ELSE None]
    /\ UNCHANGED <<kind, up, stops, account, preparation, decision, effect, command,
                   remote, sent>>

\* A completion is accepted while the claim is live and still bound.
Owned(i) == check[i] = "held" /\ Bound(i)

FoundApplied ==
    LET i == worker.item IN
    /\ up /\ i # None /\ remote[i] = "applied"
    /\ IF Owned(i) THEN Complete(i) ELSE UNCHANGED <<effect, review, local>>
    /\ worker' = [worker EXCEPT !.item = None]
    /\ UNCHANGED <<kind, up, stops, account, plan, run, frozen, approval, command, remote, sent>>

\* The provider can tell that the change was not and will not be made.
FoundVoid ==
    LET i == worker.item IN
    /\ up /\ i # None /\ remote[i] \in {"none", "void"}
    /\ IF Owned(i)
       THEN /\ call' = [call EXCEPT ![i] = "failed"]
            /\ check' = [check EXCEPT ![i] = "none"]
            /\ review' = [review EXCEPT ![i] = "rejected"]
       ELSE UNCHANGED <<effect, review>>
    /\ worker' = [worker EXCEPT !.item = None]
    /\ UNCHANGED <<kind, up, stops, account, preparation, approval, command, remote, sent>>

\* Still uncertain, or an error: later.
Defer ==
    LET i == worker.item IN
    /\ up /\ i # None
    /\ check' = [check EXCEPT ![i] = IF @ = "held" THEN "later" ELSE @]
    /\ worker' = [worker EXCEPT !.item = None]
    /\ UNCHANGED <<kind, up, stops, account, preparation, decision, call, command, remote, sent>>

\* The back-off ends, or the user asks for the look-up at the Recovery Center.
BecomesDue(i) ==
    /\ check[i] = "later"
    /\ check' = [check EXCEPT ![i] = "due"]
    /\ UNCHANGED <<kind, up, stops, account, preparation, decision, call, actors, remote, sent>>

LeaseRunsOut(i) ==
    /\ check[i] = "held"
    /\ check' = [check EXCEPT ![i] = "expired"]
    /\ UNCHANGED <<kind, up, stops, account, preparation, decision, call, actors, remote, sent>>

-----------------------------------------------------------------------------
(* The account, and the process                                            *)

Disconnect ==
    /\ Idle /\ account.health # "disconnected"
    /\ account.generation < MaxChanges
    /\ account' = [health |-> "disconnected", generation |-> account.generation + 1]
    /\ UNCHANGED <<kind, up, stops, preparation, decision, effect, actors, remote, sent>>

\* A worker finds the credential unusable.
NeedsRepair ==
    /\ up /\ account.health = "connected"
    /\ account' = [account EXCEPT !.health = "needs_repair"]
    /\ UNCHANGED <<kind, up, stops, preparation, decision, effect, actors, remote, sent>>

\* The authorization of the account is completed: with the authority it had,
\* or with another credential or grant, which is a new generation.
Connect(other) ==
    /\ up
    /\ account.health = "disconnected" => other
    /\ other => account.generation < MaxChanges
    /\ account' = [health |-> "connected",
                   generation |-> account.generation + (IF other THEN 1 ELSE 0)]
    /\ UNCHANGED <<kind, up, stops, preparation, decision, effect, actors, remote, sent>>

Stop ==
    /\ up /\ stops < MaxStops
    /\ up' = FALSE /\ stops' = stops + 1
    /\ command' = NoCommand /\ worker' = NoBatch
    /\ UNCHANGED <<kind, account, preparation, decision, effect, remote, sent>>

\* Completed changes consume their drafts, interrupted preparations are failed
\* or finished, abandoned claims are due again; then the worker starts.
Startup ==
    /\ ~up /\ up' = TRUE
    /\ local' = [i \in Items |-> IF call[i] = "succeeded" THEN "consumed" ELSE local[i]]
    /\ plan' = [i \in Items |-> IF plan[i] = "active" THEN "deleted" ELSE plan[i]]
    /\ run' = [i \in Items |-> IF run[i] # "none" /\ review[i] = "none" THEN "ended"
                               ELSE run[i]]
    /\ check' = [i \in Items |-> IF check[i] \in {"held", "expired"} THEN "due"
                                 ELSE check[i]]
    /\ UNCHANGED <<kind, stops, account, frozen, decision, call, actors, remote, sent>>

-----------------------------------------------------------------------------
ItemStep(i) ==
    \/ EndRun(i) \/ RequestApproval(i) \/ Reject(i) \/ Accept(i) \/ Edit(i)
    \/ ResolveRequest(i, "granted") \/ ResolveRequest(i, "denied")
    \/ Look(i) \/ Land(i) \/ Drop(i) \/ Query(i) \/ BecomesDue(i) \/ LeaseRunsOut(i)

Next ==
    \/ \E w \in Work : Prepare(w) \/ PrepareAgain(w)
    \/ \E w \in Work, s \in Stages : PrepareFails(w, s) \/ PrepareStops(w, s)
    \/ \E i \in Items : ItemStep(i)
    \/ MarkStranded \/ Start \/ Send \/ Confirmed \/ Unanswered
    \/ Sweep \/ FoundApplied \/ FoundVoid \/ Defer
    \/ Disconnect \/ NeedsRepair \/ Connect(TRUE) \/ Connect(FALSE)
    \/ Stop \/ Startup

Spec == Init /\ [][Next]_vars

\* The process is started again, the worker's loop runs, back-offs and leases
\* end, the provider settles a request and, asked again and again under a claim
\* that stands, can tell.
Fairness ==
    /\ WF_vars(Startup) /\ WF_vars(Sweep) /\ WF_vars(Defer)
    /\ \A i \in Items :
         /\ WF_vars(Query(i)) /\ SF_vars(Owned(i) /\ Query(i))
         /\ WF_vars(BecomesDue(i)) /\ WF_vars(LeaseRunsOut(i))
         /\ WF_vars(Land(i) \/ Drop(i))
         /\ SF_vars(worker.item = i /\ Owned(i) /\ (FoundApplied \/ FoundVoid))

FairSpec == Spec /\ Fairness

-----------------------------------------------------------------------------
(* Properties                                                              *)

\* A request is sent at most once, over all its attempts, whatever is clicked
\* again, stops or is looked up ("a provider apply count of one",
\* approve_and_run_connected_work_review, foreground_connected_work_reservation).
SentOnce ==
    \A i, j \in Items :
        i[1] = j[1] => IF i = j THEN sent[i] <= 1 ELSE sent[i] = 0 \/ sent[j] = 0

\* What is recorded as done was done and its draft is used up; what is
\* recorded as not done was not done and never will be
\* (complete_connector_invocation, fail_claimed_..._known_not_applied).
VerdictsTrue ==
    \A i \in Items :
        /\ call[i] = "succeeded" => remote[i] = "applied" /\ review[i] = "accepted"
        /\ call[i] = "failed" => remote[i] \in {"none", "void"} /\ review[i] = "rejected"
        /\ local[i] = "consumed" <=> call[i] = "succeeded"

\* A change is sent only under an approval that stands, of a review that
\* stands, to the account as it was when the draft was made: the command's copy
\* of the account, read two holds of the mutex earlier, included
\* (approve_and_run_connected_work_review, start_connector_invocation).
SentAsReviewed ==
    [][\A i \in Items : sent'[i] # sent[i] =>
          /\ review[i] = "pending_approval"
          /\ approval[i] = "exact" \/ (approval[i] = "granted" /\ ~IsMail(i))
          /\ command.generation = frozen[i]]_vars

\* An uncertain change that is scheduled comes to a verdict, or is put aside
\* because its account, approval or review changed
\* (reconcile_due_connector_mutations_with_shared_store).
UncertaintyEnds ==
    \A i \in Items :
        call[i] = "reconciliation_required"
            ~> (call[i] \in {"succeeded", "failed"} \/ check[i] = "quarantined")

\* ConnectedWorkReviewPanel.tsx:98: a review the user rejects leaves the account
\* unchanged.
RejectedIsUnsent ==
    \A i \in Items : review[i] = "rejected" => remote[i] # "applied"

-----------------------------------------------------------------------------
(* The promise.  One attempt of a request, at most, comes to an invocation.  *)

Taken(w) == {i \in Items : i[1] = w /\ call[i] # "none"}

Of(w, f, otherwise) == IF Taken(w) = {} THEN otherwise
                       ELSE f[CHOOSE i \in Taken(w) : TRUE]

StageOf(i) ==
    CASE call[i] = "pending_approval" -> "asked"
      [] call[i] = "running" -> "begun"
      [] call[i] = "reconciliation_required" -> "unknown"
      [] call[i] = "succeeded" -> "done"
      [] call[i] = "failed" -> "not_done"
      [] OTHER -> "none"

\* A mail that was approved in the list, without its preview, is never sent.
AuthorityOf(i) ==
    IF approval[i] = "exact" \/ (approval[i] = "granted" /\ ~IsMail(i)) THEN "given"
    ELSE IF approval[i] \in {"none", "pending"} THEN "open" ELSE "gone"

Stage == [w \in Work |-> Of(w, [i \in Items |-> StageOf(i)], "none")]
Authority == [w \in Work |-> Of(w, [i \in Items |-> AuthorityOf(i)], "open")]
Currents == {w \in Work : \E i \in Taken(w) : Current(i)}
Effect == [w \in Work |-> Of(w, remote, "none")]
Sends == [w \in Work |-> Of(w, sent, 0)]

Promise == INSTANCE ChangePromise WITH
    stage <- Stage, authority <- Authority, current <- Currents,
    effect <- Effect, sent <- Sends

\* Whatever is prepared, clicked, stopped and looked up again, the change of a
\* request is seen to do no more than ChangePromise says.
PromiseKept == Promise!Spec
=============================================================================
