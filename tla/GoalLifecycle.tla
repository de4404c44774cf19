---------------------------- MODULE GoalLifecycle ----------------------------
(***************************************************************************)
(* The goal of a run, as goal_envelope_projection keeps it (one row, its   *)
(* id is the run's), and the operations that change it.  A proposal of the *)
(* model is received, judged by the kernel against the local context, and  *)
(* frozen under a revision, which is a digest of the proposal and of the   *)
(* validation receipt - so here it is the pair of proposal and context.    *)
(***************************************************************************)
CONSTANTS
    Proposals,  \* goal envelopes a model may propose
    Contexts,   \* local contexts: access mode, ready tools, bound workspace
    Fits,       \* the pairs of them for which validation finds no failure
    None        \* no proposal, no context, no revision

ASSUME GoalAssumption ==
    /\ Fits \subseteq Proposals \X Contexts
    /\ None \notin Proposals
    /\ None \notin Contexts
    /\ None \notin Proposals \X Contexts

Revisions == Proposals \X Contexts

\* Only a goal that passed validation has a revision, which names its proposal.
Goals ==
    {g \in [status   : {"absent", "received", "blocked", "validated", "frozen"},
            proposal : Proposals \cup {None},
            revision : Revisions \cup {None}] :
       /\ g.status = "absent" <=> g.proposal = None
       /\ IF g.status \in {"validated", "frozen"}
          THEN g.revision \in Fits /\ g.revision[1] = g.proposal
          ELSE g.revision = None}

NoGoal == [status |-> "absent", proposal |-> None, revision |-> None]
Received(p) == [status |-> "received", proposal |-> p, revision |-> None]

\* Mutant: the revision is kept although validation failed.
JudgedLoosely(p, c) ==
    [status |-> IF <<p, c>> \in Fits THEN "validated" ELSE "blocked",
     proposal |-> p, revision |-> <<p, c>>]

\* validated_projection.
Judged(p, c) ==
    IF <<p, c>> \in Fits
    THEN [status |-> "validated", proposal |-> p, revision |-> <<p, c>>]
    ELSE [status |-> "blocked", proposal |-> p, revision |-> None]

IsFrozen(g) == g.status = "frozen"

\* A repetition leaves the row alone: the same goal again, a proposal that is
\* already known, or the validation of the very revision that is frozen.
Repeats(g, n) ==
    \/ g = n
    \/ n.status = "received" /\ g.proposal = n.proposal
    \/ /\ IsFrozen(g) /\ n.status = "validated"
       /\ g.proposal = n.proposal /\ g.revision = n.revision

\* A new proposal displaces anything, a frozen goal as well; a known one goes
\* on from where it is.
MayBecome(g, n) ==
    IF g.status = "absent" \/ n.status = "received"
    THEN n.status = "received" /\ g.proposal # n.proposal
    ELSE /\ g.proposal = n.proposal
         /\ \/ g.status = "received" /\ n.status \in {"blocked", "validated"}
            \/ g.status = "blocked" /\ n.status \in {"blocked", "validated"}
            \/ g.status = "validated" /\ n.status \in {"blocked", "validated", "frozen"}
            \/ g.status = "frozen" /\ n.status \in {"blocked", "validated"}

\* What the row holds after persist_goal_projection, which may refuse.
Persist(g, n) == IF ~Repeats(g, n) /\ MayBecome(g, n) THEN n ELSE g

\* Each of the three writes is a transaction of its own.
Submitted(g, p, c) == Persist(Persist(g, Received(p)), Judged(p, c))
Freeze(g) == IF g.status = "validated" THEN Persist(g, [g EXCEPT !.status = "frozen"])
             ELSE g
Reconciled(g, p, c) == Freeze(Submitted(g, p, c))

\* What a crash inside of it may leave behind.
HalfReconciled(g, p, c) == {Persist(g, Received(p)), Submitted(g, p, c)}
=============================================================================
