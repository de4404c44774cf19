---------------------------- MODULE MCExpertTeam ----------------------------
(* A small team: production, and a review that depends on it. *)
EXTENDS ExpertTeam, TLC

CONSTANTS prod, rev, w1, w2, r1, r2

MCDependsOn   == rev :> {prod} @@ prod :> {}
MCConflicting == {<<prod, rev>>, <<rev, prod>>}
MCMaxAttempts == prod :> 2 @@ rev :> 1
Symmetry      == Permutations(Workers) \cup Permutations(Revisions)

MCLapsing     == {Parent, <<prod, 1>>}
MCParentLapses == {Parent}

\* Bounds: one fault at a time (a lease that ran out and is not renewed, a
\* cancelled run), the parent's tools before it has a team, and no steps after
\* its end.
OneFault ==
    /\ Cardinality({r \in LapsingRuns : ledger[r].claim # NoWorker /\ ~ledger[r].live})
         + Cardinality({r \in TeamRuns : ledger[r].cancel}) <= 1
    /\ ledger[Parent].finish = "none"
    /\ Children # {} => \A w \in Workers : worker[w].pc # "tool"
=============================================================================
