----------------------------- MODULE ReadPromise -----------------------------
(***************************************************************************)
(* What the connector read outbox promises of a read of mail or calendar,  *)
(* whatever its worker, its leases and its restarts do: the provider is    *)
(* asked at most once, a call is only begun and a result only kept or      *)
(* applied while the authority the read was submitted under still holds,   *)
(* and a read that stopped is never taken up again.                        *)
(***************************************************************************)
EXTENDS Naturals

CONSTANT Reads

VARIABLES
    stage,   \* read -> how far it has come
    called,  \* read -> requests the provider received
    valid    \* reads whose authority is as at their submission

vars == <<stage, called, valid>>

Stages == {"none", "waiting", "begun", "kept", "applied", "stopped"}

Init ==
    /\ stage = [r \in Reads |-> "none"]
    /\ called = [r \in Reads |-> 0]
    /\ valid \in SUBSET Reads

\* Accounts, automations and what they are bound to change at any time.
AuthorityChanges ==
    /\ valid' \in SUBSET Reads
    /\ UNCHANGED <<stage, called>>

Submit(r) ==
    /\ stage[r] = "none"
    /\ r \in valid
    /\ stage' = [stage EXCEPT ![r] = "waiting"]
    /\ UNCHANGED <<called, valid>>

Begin(r) ==
    /\ stage[r] = "waiting"
    /\ r \in valid
    /\ stage' = [stage EXCEPT ![r] = "begun"]
    /\ UNCHANGED <<called, valid>>

Call(r) ==
    /\ stage[r] = "begun"
    /\ called[r] = 0
    /\ called' = [called EXCEPT ![r] = 1]
    /\ UNCHANGED <<stage, valid>>

Keep(r) ==
    /\ stage[r] = "begun"
    /\ called[r] = 1
    /\ r \in valid
    /\ stage' = [stage EXCEPT ![r] = "kept"]
    /\ UNCHANGED <<called, valid>>

\* The kept results in A are applied, the reads in S are given up.
Settle(A, S) ==
    /\ \A r \in A : stage[r] = "kept" /\ r \in valid
    /\ \A r \in S : stage[r] \in {"waiting", "begun", "kept"}
    /\ stage' = [r \in Reads |-> IF r \in A THEN "applied"
                                 ELSE IF r \in S THEN "stopped" ELSE stage[r]]
    /\ UNCHANGED <<called, valid>>

Next ==
    \/ AuthorityChanges
    \/ \E r \in Reads : Submit(r) \/ Begin(r) \/ Call(r) \/ Keep(r)
    \/ \E A, S \in SUBSET Reads : Settle(A, S)

Spec == Init /\ [][Next]_vars
=============================================================================
