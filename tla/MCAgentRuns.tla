----------------------------- MODULE MCAgentRuns -----------------------------
(***************************************************************************)
(* Small instances of AgentRuns for TLC: edit and patch both write the     *)
(* disk under Allow; ask1 and ask2 need an approval and claim nothing.     *)
(***************************************************************************)
EXTENDS AgentRuns, TLC

CONSTANTS w1, w2, edit, patch, ask1, ask2, disk

Resources == [t \in Tools |-> IF t # ask2 THEN disk ELSE NoResource]

WorkerSymmetry == Permutations(Workers)

\* The run is finished, or one of its requests succeeded or was interrupted.
HasOutcome(r) ==
    \/ ledger[r].finish # "none"
    \/ \E q \in Requests : q[1] = r /\ (q \in done \/ open[q] \ Threads # {})

\* Two runs: cancellation and waiting or blocked responses are left to the
\* one-run instances, and the runs race until both of them have an outcome.
TwoRunBound ==
    /\ \A r \in Runs : ~ledger[r].cancel
    /\ \A w \in Workers : worker[w].out \notin WaitingStatus \cup {"blocked"}
    /\ \E r \in Runs : ~HasOutcome(r)

\* One run and its cards: a worker that waits for a prerequisite takes the
\* same way as one that waits for a confirmation, and a blocked one the same
\* as one that completes without its goal verified.
AskBound == \A w \in Workers : worker[w].out \notin {"waiting_for_prerequisite", "blocked"}
=============================================================================
