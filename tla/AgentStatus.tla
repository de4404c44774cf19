----------------------------- MODULE AgentStatus -----------------------------
(***************************************************************************)
(* What another part of the system may see one agent run do: its projected *)
(* status, and the moves that status makes.  The ledger of a run makes     *)
(* LedgerMoves (AgentRuns, ExpertTeam); its goal adds one more (TaskGoals).*)
(* The modules that only watch agent runs use this one.                    *)
(***************************************************************************)
OpenStatus  == {"queued", "running", "blocked",
                "waiting_for_confirmation", "waiting_for_prerequisite"}
AgentStatuses == OpenStatus \cup {"cancel_requested", "completed", "failed", "cancelled"}

Closed == AgentStatuses \ OpenStatus

\* A closed run is never opened again; but the worker of a run that was swept
\* or taken over may still report its own outcome after it was closed.
LedgerMove(s, t) ==
    \/ s \in OpenStatus
    \/ s \in Closed \ {"completed"} /\ t \in Closed
    \/ s = "completed" /\ t \in {"failed", "cancelled"}

\* A completed finish stands on the proof of a goal.  When an action approved
\* earlier ends after it and adds evidence, the finish is no longer believed.
AgentMove(s, t) == LedgerMove(s, t) \/ (s = "completed" /\ t = "blocked")
=============================================================================
