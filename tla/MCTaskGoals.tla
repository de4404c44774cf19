----------------------------- MODULE MCTaskGoals -----------------------------
(***************************************************************************)
(* Small instances of TaskGoals for TLC.                                   *)
(***************************************************************************)
EXTENDS TaskGoals, TLC

CONSTANTS p, q, here, there, v, w

\* Two proposals; q asks for more, and fits here but not there.
FitsHere == {<<p, here>>, <<p, there>>, <<q, here>>}
Asked == (p :> {v}) @@ (q :> {v, w})

Symmetry == Permutations(Calls)
=============================================================================
