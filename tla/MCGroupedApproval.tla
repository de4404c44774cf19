-------------------------- MODULE MCGroupedApproval --------------------------
(***************************************************************************)
(* Small instances of GroupedApproval for TLC: early and late are two      *)
(* manifests for p, other one for q, beside one for a second task.         *)
(***************************************************************************)
EXTENDS GroupedApproval, TLC

CONSTANTS t1, t2, p, q, here, there, early, late, other, beside

\* p fits anywhere, q only here.
FitsHere == {<<p, here>>, <<p, there>>, <<q, here>>}

Task(g) == IF g = beside THEN t2 ELSE t1
TaskOfGroup == [g \in Groups |-> Task(g)]
RevisionOfGroup == [g \in Groups |-> IF g = other THEN <<q, here>> ELSE <<p, here>>]
Expiry == [g \in Groups |-> IF g = early THEN 1 ELSE 2]
=============================================================================
