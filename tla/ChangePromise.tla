---------------------------- MODULE ChangePromise ----------------------------
(***************************************************************************)
(* What connected work promises of a change of mail or calendar that a run *)
(* asks for, over all attempts to prepare it: it is begun only for the     *)
(* account it was reviewed for and under an approval, which is never given *)
(* twice; it is sent at most once, and not after the approval was taken    *)
(* back; and the verdict on it is true, and final.                         *)
(***************************************************************************)
EXTENDS Naturals

CONSTANT Work

VARIABLES
    stage,      \* request -> how far it has come
    authority,  \* request -> the user's approval of it
    current,    \* requests whose account is as they were drafted for
    effect,     \* request -> what became of it at the provider
    sent        \* request -> times it was sent

vars == <<stage, authority, current, effect, sent>>

Verdicts == {"done", "not_done"}

Init ==
    /\ stage = [w \in Work |-> "none"]
    /\ authority = [w \in Work |-> "open"]
    /\ current = {}
    /\ effect = [w \in Work |-> "none"]
    /\ sent = [w \in Work |-> 0]

AccountChanges ==
    /\ current' \in SUBSET Work
    /\ UNCHANGED <<stage, authority, effect, sent>>

Ask(w) ==
    /\ stage[w] = "none"
    /\ stage' = [stage EXCEPT ![w] = "asked"]
    /\ current' = current \cup {w}
    /\ UNCHANGED <<authority, effect, sent>>

Approve(w) ==
    /\ stage[w] = "asked" /\ authority[w] = "open"
    /\ authority' = [authority EXCEPT ![w] = "given"]
    /\ UNCHANGED <<stage, current, effect, sent>>

\* At any time before the verdict, also while the change is under way.
Withdraw(w) ==
    /\ stage[w] \notin {"none"} \cup Verdicts
    /\ authority[w] # "gone"
    /\ authority' = [authority EXCEPT ![w] = "gone"]
    /\ UNCHANGED <<stage, current, effect, sent>>

Begin(w) ==
    /\ stage[w] = "asked" /\ authority[w] # "gone" /\ w \in current
    /\ stage' = [stage EXCEPT ![w] = "begun"]
    /\ authority' = [authority EXCEPT ![w] = "given"]
    /\ UNCHANGED <<current, effect, sent>>

Send(w) ==
    /\ stage[w] = "begun" /\ authority[w] = "given" /\ sent[w] = 0
    /\ sent' = [sent EXCEPT ![w] = 1]
    /\ effect' = [effect EXCEPT ![w] = "flying"]
    /\ UNCHANGED <<stage, authority, current>>

Settle(w, to) ==
    /\ effect[w] = "flying" /\ to \in {"applied", "void"}
    /\ effect' = [effect EXCEPT ![w] = to]
    /\ UNCHANGED <<stage, authority, current, sent>>

Lose(w) ==
    /\ stage[w] = "begun"
    /\ stage' = [stage EXCEPT ![w] = "unknown"]
    /\ UNCHANGED <<authority, current, effect, sent>>

\* A change that was begun but will not be made is not found out before it
\* is unknown.
Conclude(w, verdict) ==
    /\ authority[w] = "given" /\ w \in current
    /\ \/ stage[w] \in {"begun", "unknown"} /\ effect[w] = "applied" /\ verdict = "done"
       \/ stage[w] = "unknown" /\ effect[w] \in {"none", "void"} /\ verdict = "not_done"
    /\ stage' = [stage EXCEPT ![w] = verdict]
    /\ UNCHANGED <<authority, current, effect, sent>>

Next ==
    \/ AccountChanges
    \/ \E w \in Work :
         \/ Ask(w) \/ Approve(w) \/ Withdraw(w) \/ Begin(w) \/ Send(w) \/ Lose(w)
         \/ \E to \in {"applied", "void"} : Settle(w, to)
         \/ \E verdict \in Verdicts : Conclude(w, verdict)

Spec == Init /\ [][Next]_vars
=============================================================================
