------------------------ MODULE GroupedApprovalProofs ------------------------
(***************************************************************************)
(* Proofs about GroupedApproval, for any tasks, manifests, proposals,      *)
(* contexts and times.  Every step changes a row in one of five ways       *)
(* (Change); the invariants are shown of those.                            *)
(***************************************************************************)
EXTENDS GroupedApproval, TLAPS

\* What the ledger of ordinary approvals says of one group.
RowItems(r) ==
    /\ r.items = "pending" <=> r.status = "pending"
    /\ r.items = "approved" <=> r.decision = "approved"

\* At most one card of a task is open.
OneOpen ==
    \A t \in Tasks : \A g, h \in GroupsOf(t) :
        (g # h /\ Active(group[g])) => ~Active(group[h])

\* The user saw what was decided.
Seen == \A g \in Groups : group[g].decision # "none" => <<g, 0>> \in cards

IInv == TypeOK /\ ItemsFollowGroup /\ OneDecision /\ OneOpen /\ Seen

Change(g) ==
    \/ group'[g] = group[g]
    \/ /\ group[g].status = "absent" /\ group'[g] = Prepared
       /\ \A h \in GroupsOf(TaskOf[g]) :
            /\ group[h].decision = "none" /\ group'[h].decision = "none"
            /\ h # g => ~Active(group'[h])
    \/ /\ Active(group[g])
       /\ \E s \in {"expired", "scope_changed"} : group'[g] = Ended(group[g], s)
    \/ /\ group[g].status = "pending" /\ <<g, 0>> \in cards
       /\ \E ok \in BOOLEAN : group'[g] = Resolved(group[g], ok)
    \/ group[g].status = "approved" /\ group'[g] = Moved(group[g], "revoked")

-----------------------------------------------------------------------------
(* Rows *)

LEMMA AbsentRow == Absent \in Rows /\ RowItems(Absent) /\ Absent.decision = "none"
BY DEF Absent, Rows, RowFits, RowItems, Ends

LEMMA PreparedRow == Prepared \in Rows /\ RowItems(Prepared) /\ Prepared.decision = "none"
BY DEF Prepared, Rows, RowFits, RowItems, Ends

LEMMA RowType ==
    ASSUME NEW r \in Rows
    PROVE  /\ r.status \in {"absent", "pending", "approved"} \cup Ends
           /\ r.revision \in 0..2
           /\ r.decision \in {"none", "approved", "rejected"}
           /\ r.items \in {"none", "pending", "approved", "rejected"}
           /\ r.history \in Seq({"pending", "approved"} \cup Ends)
           /\ r = [status |-> r.status, revision |-> r.revision, decision |-> r.decision,
                   items |-> r.items, history |-> r.history]
BY DEF Rows

LEMMA PendingRow ==
    ASSUME NEW r \in Rows, r.status = "pending"
    PROVE  r = Prepared
BY DEF Rows, RowFits

LEMMA ApprovedRow ==
    ASSUME NEW r \in Rows, r.status = "approved"
    PROVE  /\ r.revision = 1 /\ r.decision = "approved"
           /\ Len(r.history) = 2 /\ r.history[1] = "pending" /\ r.history[2] = "approved"
<1>1. RowFits(r)
  BY DEF Rows
<1>2. r.revision = 1 /\ r.decision = "approved"
  BY <1>1 DEF RowFits
<1>3. Len(r.history) = r.revision + 1 /\ r.history[1] = "pending"
      /\ r.history[r.revision + 1] = r.status
  BY <1>1, <1>2 DEF RowFits
<1> QED BY <1>2, <1>3

Fields ==
    [status : {"absent", "pending", "approved"} \cup Ends, revision : 0..2,
     decision : {"none", "approved", "rejected"},
     items : {"none", "pending", "approved", "rejected"},
     history : Seq({"pending", "approved"} \cup Ends)]

LEMMA AppendIs ==
    ASSUME NEW S, NEW q \in Seq(S), NEW e \in S
    PROVE  /\ Append(q, e) \in Seq(S) /\ Len(Append(q, e)) = Len(q) + 1
           /\ \A i \in 1..Len(q) : Append(q, e)[i] = q[i]
           /\ Append(q, e)[Len(q) + 1] = e
<1>1. Append(q, e) \in Seq(S)
  OBVIOUS
<1>2. Len(Append(q, e)) = Len(q) + 1
  OBVIOUS
<1>3. \A i \in 1..Len(q) : Append(q, e)[i] = q[i]
  OBVIOUS
<1>4. Append(q, e)[Len(q) + 1] = e
  OBVIOUS
<1> QED BY <1>1, <1>2, <1>3, <1>4

LEMMA AppendToTwo ==
    ASSUME NEW S, NEW q \in Seq(S), NEW e \in S, Len(q) = 2
    PROVE  /\ Append(q, e) \in Seq(S) /\ Len(Append(q, e)) = 3
           /\ Append(q, e)[1] = q[1] /\ Append(q, e)[2] = q[2]
           /\ Append(q, e)[3] = e
<1>1. 1 \in 1..Len(q) /\ 2 \in 1..Len(q) /\ Len(q) + 1 = 3
  OBVIOUS
<1>2. /\ Append(q, e) \in Seq(S) /\ Len(Append(q, e)) = Len(q) + 1
      /\ \A i \in 1..Len(q) : Append(q, e)[i] = q[i]
      /\ Append(q, e)[Len(q) + 1] = e
  BY AppendIs
<1> QED BY <1>1, <1>2

LEMMA HistoryIs ==
    ASSUME NEW r \in Rows, r.status \in {"pending", "approved"},
           NEW s \in {"approved"} \cup Ends
    PROVE  LET h == Append(r.history, s) IN
           /\ h \in Seq({"pending", "approved"} \cup Ends)
           /\ r.revision = (IF r.status = "pending" THEN 0 ELSE 1)
           /\ Len(h) = r.revision + 2
           /\ h[1] = "pending" /\ h[r.revision + 2] = s
           /\ r.status = "approved" => h[2] = "approved"
<1>1. r.history \in Seq({"pending", "approved"} \cup Ends)
  BY RowType
<1>2. CASE r.status = "pending"
  <2>1. Len(r.history) = 1 /\ r.history[1] = "pending" /\ r.revision = 0
    BY <1>2, PendingRow DEF Prepared
  <2> QED BY <1>1, <1>2, <2>1
<1>3. CASE r.status = "approved"
  <2> DEFINE q == r.history
             h == Append(q, s)
             S == {"pending", "approved"} \cup Ends
  <2>1. /\ q \in Seq(S)
        /\ Len(q) = 2 /\ q[1] = "pending" /\ q[2] = "approved"
        /\ r.revision = 1
    BY <1>1, <1>3, ApprovedRow
  <2>2. s \in S
    OBVIOUS
  <2> HIDE DEF q, S
  <2>3. h \in Seq(S) /\ Len(h) = 3 /\ h[1] = q[1] /\ h[2] = q[2] /\ h[3] = s
    BY <2>1, <2>2, AppendToTwo
  <2> QED BY <1>3, <2>1, <2>3 DEF q, S
<1> QED BY <1>2, <1>3

\* A transition with its audit rows leaves a row that the store accepts.
LEMMA NextRow ==
    ASSUME NEW r \in Rows, r.status \in {"pending", "approved"},
           NEW s \in {"approved"} \cup Ends, NEW m \in Fields,
           m.status = s, m.revision = r.revision + 1, m.history = Append(r.history, s),
           IF s \in {"approved", "rejected"} THEN r.status = "pending" /\ m.decision = s
           ELSE IF r.status = "pending" THEN m.decision = "none" /\ s # "revoked"
           ELSE m.decision = "approved"
    PROVE  m \in Rows
<1> DEFINE h == Append(r.history, s)
<1>1. /\ r.revision = (IF r.status = "pending" THEN 0 ELSE 1)
      /\ Len(h) = r.revision + 2
      /\ h[1] = "pending" /\ h[r.revision + 2] = s
      /\ r.status = "approved" => h[2] = "approved"
  BY HistoryIs
<1>2. m.history = h
  OBVIOUS
<1> HIDE DEF h
<1>3. s # "absent" /\ s # "pending"
  BY DEF Ends
<1>4. RowFits(m)
  BY <1>1, <1>2, <1>3 DEF RowFits, Ends
<1> QED BY <1>4 DEF Rows, Fields

LEMMA MovedIs ==
    ASSUME NEW r \in Rows, r.status \in {"pending", "approved"},
           NEW s \in {"approved"} \cup Ends
    PROVE  /\ Moved(r, s) \in Fields
           /\ Moved(r, s).status = s /\ Moved(r, s).revision = r.revision + 1
           /\ Moved(r, s).decision = r.decision /\ Moved(r, s).items = r.items
           /\ Moved(r, s).history = Append(r.history, s)
<1> DEFINE h == Append(r.history, s)
           v == r.revision + 1
<1>1. h \in Seq({"pending", "approved"} \cup Ends) /\ v \in 0..2
  BY HistoryIs
<1>2. Moved(r, s) = [r EXCEPT !.status = s, !.revision = v, !.history = h]
  BY DEF Moved
<1>3. r \in Fields
  BY DEF Rows, Fields
<1> HIDE DEF h, v
<1>4. /\ Moved(r, s) \in Fields
      /\ Moved(r, s).status = s /\ Moved(r, s).revision = v
      /\ Moved(r, s).decision = r.decision /\ Moved(r, s).items = r.items
      /\ Moved(r, s).history = h
  BY <1>1, <1>2, <1>3 DEF Fields, Ends
<1> QED BY <1>4 DEF h, v

LEMMA EndedRow ==
    ASSUME NEW r \in Rows, RowItems(r), Active(r), NEW s \in {"expired", "scope_changed"}
    PROVE  /\ Ended(r, s) \in Rows /\ RowItems(Ended(r, s))
           /\ Ended(r, s).decision = r.decision /\ Ended(r, s).status = s
<1> DEFINE m == Moved(r, s)
           i == IF r.status = "pending" THEN "rejected" ELSE m.items
<1>1. /\ m \in Fields /\ m.status = s /\ m.revision = r.revision + 1
      /\ m.decision = r.decision /\ m.items = r.items
      /\ m.history = Append(r.history, s)
  BY MovedIs DEF Ends, Active
<1>2. Ended(r, s) = [m EXCEPT !.items = i]
  BY DEF Ended
<1> HIDE DEF m
<1>3. /\ Ended(r, s) \in Fields /\ Ended(r, s).status = s
      /\ Ended(r, s).revision = r.revision + 1
      /\ Ended(r, s).decision = r.decision /\ Ended(r, s).items = i
      /\ Ended(r, s).history = m.history
  BY <1>1, <1>2 DEF Fields
<1>4. r.decision = (IF r.status = "pending" THEN "none" ELSE "approved")
  BY PendingRow, ApprovedRow DEF Active, Prepared
<1>5. Ended(r, s) \in Rows
  BY <1>1, <1>3, <1>4, NextRow DEF Active, Ends
<1> QED BY <1>1, <1>3, <1>4, <1>5 DEF RowItems, Active

LEMMA ResolvedRow ==
    ASSUME NEW r \in Rows, r.status = "pending", NEW ok \in BOOLEAN
    PROVE  /\ Resolved(r, ok) \in Rows /\ RowItems(Resolved(r, ok))
           /\ Resolved(r, ok).decision \in {"approved", "rejected"}
           /\ Resolved(r, ok).status = Resolved(r, ok).decision
<1> DEFINE d == IF ok THEN "approved" ELSE "rejected"
           m == Moved(r, d)
<1>1. d \in {"approved", "rejected"}
  OBVIOUS
<1>2. Resolved(r, ok) = [m EXCEPT !.decision = d, !.items = d]
  BY DEF Resolved
<1> HIDE DEF d
<1>3. /\ m \in Fields /\ m.status = d /\ m.revision = r.revision + 1
      /\ m.history = Append(r.history, d)
  BY <1>1, MovedIs DEF Ends
<1> HIDE DEF m
<1>4. /\ Resolved(r, ok) \in Fields /\ Resolved(r, ok).status = d
      /\ Resolved(r, ok).revision = r.revision + 1
      /\ Resolved(r, ok).decision = d /\ Resolved(r, ok).items = d
      /\ Resolved(r, ok).history = m.history
  BY <1>1, <1>2, <1>3 DEF Fields
<1>5. Resolved(r, ok) \in Rows
  BY <1>1, <1>3, <1>4, NextRow DEF Ends
<1> QED BY <1>1, <1>4, <1>5 DEF RowItems

LEMMA RevokedRow ==
    ASSUME NEW r \in Rows, RowItems(r), r.status = "approved"
    PROVE  /\ Moved(r, "revoked") \in Rows /\ RowItems(Moved(r, "revoked"))
           /\ Moved(r, "revoked").decision = r.decision
           /\ Moved(r, "revoked").status = "revoked"
<1>1. r.decision = "approved"
  BY ApprovedRow
<1>2. Moved(r, "revoked") \in Rows
  BY <1>1, MovedIs, NextRow DEF Ends
<1> QED BY <1>1, <1>2, MovedIs DEF RowItems, Ends

LEMMA RefreshedIs ==
    ASSUME NEW g \in Groups
    PROVE  \/ Refreshed(g) = group[g]
           \/ /\ Active(group[g])
              /\ \E s \in {"expired", "scope_changed"} : Refreshed(g) = Ended(group[g], s)
BY DEF Refreshed

\* A group that is still open after the refresh is of the goal and the time.
LEMMA OpenIsCurrent ==
    ASSUME TypeOK, ItemsFollowGroup, NEW g \in Groups, Active(Refreshed(g))
    PROVE  Refreshed(g) = group[g] /\ ~Expired(g) /\ Current(goal[TaskOf[g]], g)
<1>1. group[g] \in Rows /\ RowItems(group[g])
  BY DEF TypeOK, ItemsFollowGroup, RowItems
<1>2. \A s \in {"expired", "scope_changed"} :
        Active(group[g]) => Ended(group[g], s).status = s
  BY <1>1, EndedRow
<1> QED BY <1>2 DEF Refreshed, Active

\* The rows that a change may leave.
LEMMA ChangeKeepsRow ==
    ASSUME TypeOK, ItemsFollowGroup, NEW g \in Groups, Change(g)
    PROVE  group'[g] \in Rows /\ RowItems(group'[g])
<1>1. group[g] \in Rows /\ RowItems(group[g])
  BY DEF TypeOK, ItemsFollowGroup, RowItems
<1> QED BY <1>1, PreparedRow, EndedRow, ResolvedRow, RevokedRow DEF Change

-----------------------------------------------------------------------------
(* Steps *)

LEMMA PreparedNowIs ==
    ASSUME IInv, NEW g \in Groups, group[g].status = "absent",
           group' = PreparedNow(g)
    PROVE  \A x \in Groups : Change(x)
<1> SUFFICES ASSUME NEW x \in Groups PROVE Change(x)
  OBVIOUS
<1>1. \A h \in Groups : group[h] \in Rows /\ RowItems(group[h])
  BY DEF IInv, TypeOK, ItemsFollowGroup, RowItems
<1>2. \A h \in Groups :
        group'[h] = (IF h = g THEN (IF Decided(TaskOf[g]) THEN group[h] ELSE Prepared)
                     ELSE IF TaskOf[h] = TaskOf[g] /\ Active(group[h])
                     THEN Ended(group[h], IF Expired(h) THEN "expired" ELSE "scope_changed")
                     ELSE group[h])
  BY DEF PreparedNow
<1>3. CASE x # g
  BY <1>2, <1>3 DEF Change
<1>4. CASE x = g /\ Decided(TaskOf[g])
  BY <1>2, <1>4 DEF Change
<1>5. CASE x = g /\ ~Decided(TaskOf[g])
  <2> SUFFICES ASSUME NEW h \in GroupsOf(TaskOf[g])
               PROVE  /\ group[h].decision = "none" /\ group'[h].decision = "none"
                      /\ h # g => ~Active(group'[h])
    BY <1>2, <1>5 DEF Change
  <2>1. h \in Groups /\ TaskOf[h] = TaskOf[g] /\ group[h].decision = "none"
    BY <1>5 DEF GroupsOf, Decided
  <2>2. CASE h = g
    BY <1>2, <1>5, <2>1, <2>2, PreparedRow
  <2>3. CASE h # g /\ Active(group[h])
    <3>1. PICK s \in {"expired", "scope_changed"} : group'[h] = Ended(group[h], s)
      BY <1>2, <2>1, <2>3
    <3> QED BY <1>1, <2>1, <2>3, <3>1, EndedRow DEF Active
  <2>4. CASE h # g /\ ~Active(group[h])
    BY <1>2, <2>1, <2>4
  <2> QED BY <2>2, <2>3, <2>4
<1> QED BY <1>3, <1>4, <1>5

LEMMA StepIs ==
    ASSUME IInv, Next
    PROVE  /\ \A g \in Groups : Change(g)
           /\ group' = [g \in Groups |-> group'[g]]
           /\ cards \subseteq cards'
<1>1. group = [g \in Groups |-> group[g]]
  BY DEF IInv, TypeOK
<1>2. ASSUME UNCHANGED group
      PROVE  (\A g \in Groups : Change(g)) /\ group' = [g \in Groups |-> group'[g]]
  BY <1>1, <1>2 DEF Change
<1>3. ASSUME NEW S \in SUBSET Groups, group' = RefreshedIn(S)
      PROVE  (\A g \in Groups : Change(g)) /\ group' = [g \in Groups |-> group'[g]]
  <2>1. \A g \in Groups : group'[g] = IF g \in S THEN Refreshed(g) ELSE group[g]
    BY <1>3 DEF RefreshedIn
  <2>2. group' = [g \in Groups |-> group'[g]]
    BY <1>3 DEF RefreshedIn
  <2> QED BY <2>1, <2>2, RefreshedIs DEF Change
<1>4. CASE Tick
  BY <1>2, <1>4 DEF Tick
<1>5. ASSUME NEW t \in Tasks, NEW c \in Contexts, NEW p \in Proposals \cup {None},
             Reconcile(t, p, c)
      PROVE  /\ (\A g \in Groups : Change(g)) /\ group' = [g \in Groups |-> group'[g]]
             /\ cards \subseteq cards'
  <2>1. CASE UNCHANGED group
    BY <1>2, <1>5, <2>1 DEF Reconcile
  <2>2. CASE \E g \in GroupsOf(t) : Prepare(g)
    <3>1. PICK g \in Groups : Prepare(g)
      BY <2>2 DEF GroupsOf
    <3>2. CASE group[g].status = "absent" /\ ~Expired(g)
      <4>1. group' = PreparedNow(g)
        BY <3>1, <3>2 DEF Prepare
      <4>2. group' = [h \in Groups |-> group'[h]]
        BY <4>1 DEF PreparedNow
      <4> QED BY <1>5, <3>2, <4>1, <4>2, PreparedNowIs DEF Reconcile
    <3>3. CASE ~(group[g].status = "absent" /\ ~Expired(g))
      BY <1>2, <1>5, <3>1, <3>3 DEF Prepare, Reconcile
    <3> QED BY <3>2, <3>3
  <2> QED BY <1>5, <2>1, <2>2 DEF Reconcile
<1>6. ASSUME NEW t \in Tasks, NEW c \in Contexts, NEW p \in Proposals,
             CrashInReconcile(t, p, c)
      PROVE  /\ (\A g \in Groups : Change(g)) /\ group' = [g \in Groups |-> group'[g]]
             /\ cards \subseteq cards'
  BY <1>2, <1>6 DEF CrashInReconcile
<1>7. CASE List
  BY <1>3, <1>7 DEF List, Listing
<1>8. CASE ListFails
  <2>1. PICK f \in Groups : \E S \in SUBSET Groups : group' = RefreshedIn(S \cup {f})
    BY <1>8 DEF ListFails, Listing
  <2>2. PICK S \in SUBSET Groups : group' = RefreshedIn(S)
    BY <2>1
  <2> QED BY <1>3, <1>8, <2>2 DEF ListFails
<1>9. ASSUME NEW g \in Groups, NEW rev \in 0..2, NEW ok \in BOOLEAN, Resolve(g, rev, ok)
      PROVE  /\ (\A h \in Groups : Change(h)) /\ group' = [h \in Groups |-> group'[h]]
             /\ cards \subseteq cards'
  <2> DEFINE r == Refreshed(g)
             n == IF r.status = "pending" /\ rev = r.revision THEN Resolved(r, ok) ELSE r
  <2>1. group' = [group EXCEPT ![g] = n] /\ <<g, rev>> \in cards
    BY <1>9 DEF Resolve
  <2>2. cards \subseteq cards'
    BY <1>9 DEF Resolve, Shows
  <2>3. Change(g)
    <3>1. CASE r.status = "pending" /\ rev = r.revision
      <4>1. r = group[g]
        BY <3>1, OpenIsCurrent DEF IInv, Active
      <4>2. rev = 0
        BY <3>1, <4>1, PendingRow DEF IInv, TypeOK, Prepared
      <4> QED BY <1>1, <2>1, <3>1, <4>1, <4>2 DEF Change
    <3>2. CASE ~(r.status = "pending" /\ rev = r.revision)
      BY <1>1, <2>1, <3>2, RefreshedIs DEF Change
    <3> QED BY <3>1, <3>2
  <2>4. \A h \in Groups : h # g => Change(h)
    BY <1>1, <2>1 DEF Change
  <2> QED BY <1>1, <2>1, <2>2, <2>3, <2>4
<1>10. ASSUME NEW g \in Groups, NEW rev \in 0..2, Revoke(g, rev)
       PROVE  /\ (\A h \in Groups : Change(h)) /\ group' = [h \in Groups |-> group'[h]]
              /\ cards \subseteq cards'
  <2> DEFINE r == Refreshed(g)
             n == IF r.status = "approved" /\ rev = r.revision THEN Moved(r, "revoked") ELSE r
  <2>1. group' = [group EXCEPT ![g] = n]
    BY <1>10 DEF Revoke
  <2>2. cards \subseteq cards'
    BY <1>10 DEF Revoke, Shows
  <2>3. Change(g)
    <3>1. CASE r.status = "approved" /\ rev = r.revision
      <4>1. r = group[g]
        BY <3>1, OpenIsCurrent DEF IInv, Active
      <4> QED BY <1>1, <2>1, <3>1, <4>1 DEF Change
    <3>2. CASE ~(r.status = "approved" /\ rev = r.revision)
      BY <1>1, <2>1, <3>2, RefreshedIs DEF Change
    <3> QED BY <3>1, <3>2
  <2>4. \A h \in Groups : h # g => Change(h)
    BY <1>1, <2>1 DEF Change
  <2> QED BY <1>1, <2>1, <2>2, <2>3, <2>4
<1>11. ASSUME NEW g \in Groups, NEW rev \in 0..2, Authorize(g, rev)
       PROVE  /\ (\A h \in Groups : Change(h)) /\ group' = [h \in Groups |-> group'[h]]
              /\ cards \subseteq cards'
  <2>1. group' = [group EXCEPT ![g] = Refreshed(g)] /\ cards' = cards
    BY <1>11 DEF Authorize
  <2>2. \A h \in Groups : Change(h)
    BY <1>1, <2>1, RefreshedIs DEF Change
  <2> QED BY <1>1, <2>1, <2>2
<1> QED BY <1>2, <1>4, <1>5, <1>6, <1>7, <1>8, <1>9, <1>10, <1>11 DEF Next, Tick, List
-----------------------------------------------------------------------------
(* The goal and the types *)

LEMMA GoalKept ==
    ASSUME NEW g \in Goals, NEW p \in Proposals, NEW c \in Contexts
    PROVE  Reconciled(g, p, c) \in Goals /\ HalfReconciled(g, p, c) \subseteq Goals
<1>1. Received(p) \in Goals /\ Judged(p, c) \in Goals
  BY GoalAssumption DEF Received, Judged, Goals, Revisions
<1>2. Persist(g, Received(p)) \in Goals
  BY <1>1 DEF Persist
<1>3. Submitted(g, p, c) \in Goals
  BY <1>1, <1>2 DEF Submitted, Persist
<1>4. \A d \in Goals : Freeze(d) \in Goals
  BY DEF Freeze, Persist, Goals
<1> QED BY <1>2, <1>3, <1>4 DEF Reconciled, HalfReconciled

LEMMA NextTypes ==
    ASSUME IInv, Next
    PROVE  now' \in Nat /\ goal' \in [Tasks -> Goals] /\ grant' \in Groups \cup {None}
<1>1. now \in Nat /\ goal \in [Tasks -> Goals] /\ grant \in Groups \cup {None}
  BY DEF IInv, TypeOK
<1>2. CASE Tick
  BY <1>1, <1>2 DEF Tick
<1>3. ASSUME NEW t \in Tasks, NEW c \in Contexts, NEW p \in Proposals \cup {None},
             Reconcile(t, p, c)
      PROVE  goal' \in [Tasks -> Goals]
  BY <1>1, <1>3, GoalKept DEF Reconcile
<1>4. ASSUME NEW t \in Tasks, NEW c \in Contexts, NEW p \in Proposals,
             CrashInReconcile(t, p, c)
      PROVE  goal' \in [Tasks -> Goals]
  BY <1>1, <1>4, GoalKept DEF CrashInReconcile
<1> QED BY <1>1, <1>2, <1>3, <1>4
        DEF Next, Reconcile, CrashInReconcile, List, ListFails, Resolve, Revoke, Authorize

LEMMA NextCards ==
    ASSUME IInv, Next, group' \in [Groups -> Rows]
    PROVE  cards' \subseteq Groups \X (0..2)
<1>1. cards \subseteq Groups \X (0..2)
  BY DEF IInv, TypeOK
<1>2. \A g \in Groups : group'[g].revision \in 0..2
  BY RowType
<1>3. CASE List
  BY <1>1, <1>2, <1>3 DEF List, Listing
<1>4. ASSUME NEW g \in Groups, NEW rev \in 0..2, NEW ok \in BOOLEAN, Resolve(g, rev, ok)
      PROVE  cards' \subseteq Groups \X (0..2)
  <2> DEFINE r == Refreshed(g)
             n == IF r.status = "pending" /\ rev = r.revision THEN Resolved(r, ok) ELSE r
  <2>1. group' = [group EXCEPT ![g] = n]
    BY <1>4 DEF Resolve
  <2>2. n = group'[g]
    BY <2>1 DEF IInv, TypeOK
  <2>3. cards' \subseteq cards \cup {<<g, n.revision>>}
    BY <1>4 DEF Resolve, Shows
  <2> QED BY <1>1, <1>2, <2>2, <2>3
<1>5. ASSUME NEW g \in Groups, NEW rev \in 0..2, Revoke(g, rev)
      PROVE  cards' \subseteq Groups \X (0..2)
  <2> DEFINE r == Refreshed(g)
             n == IF r.status = "approved" /\ rev = r.revision THEN Moved(r, "revoked") ELSE r
  <2>1. group' = [group EXCEPT ![g] = n]
    BY <1>5 DEF Revoke
  <2>2. n = group'[g]
    BY <2>1 DEF IInv, TypeOK
  <2>3. cards' \subseteq cards \cup {<<g, n.revision>>}
    BY <1>5 DEF Revoke, Shows
  <2> QED BY <1>1, <1>2, <2>2, <2>3
<1> QED BY <1>1, <1>3, <1>4, <1>5
        DEF Next, Tick, Reconcile, CrashInReconcile, ListFails, Authorize

-----------------------------------------------------------------------------
(* The invariant *)

\* What the five changes do to the status and the decision of a row.
LEMMA ChangeIs ==
    ASSUME IInv, NEW g \in Groups, Change(g)
    PROVE  /\ group'[g] \in Rows /\ RowItems(group'[g])
           /\ \/ group'[g] = group[g]
              \/ /\ group[g].status = "absent" /\ Active(group'[g])
                 /\ \A h \in GroupsOf(TaskOf[g]) :
                      /\ group[h].decision = "none" /\ group'[h].decision = "none"
                      /\ h # g => ~Active(group'[h])
              \/ /\ Active(group[g]) /\ ~Active(group'[g])
                 /\ group'[g].decision = group[g].decision
              \/ Active(group[g]) /\ <<g, 0>> \in cards
<1>1. group[g] \in Rows /\ RowItems(group[g])
  BY DEF IInv, TypeOK, ItemsFollowGroup, RowItems
<1>2. group'[g] \in Rows /\ RowItems(group'[g])
  BY ChangeKeepsRow DEF IInv
<1>3. CASE group'[g] = group[g]
  BY <1>2, <1>3
<1>4. CASE /\ group[g].status = "absent" /\ group'[g] = Prepared
           /\ \A h \in GroupsOf(TaskOf[g]) :
                /\ group[h].decision = "none" /\ group'[h].decision = "none"
                /\ h # g => ~Active(group'[h])
  BY <1>2, <1>4 DEF Prepared, Active
<1>5. CASE /\ Active(group[g])
           /\ \E s \in {"expired", "scope_changed"} : group'[g] = Ended(group[g], s)
  <2>1. PICK s \in {"expired", "scope_changed"} : group'[g] = Ended(group[g], s)
    BY <1>5
  <2>2. group'[g].status = s /\ group'[g].decision = group[g].decision
    BY <1>1, <1>5, <2>1, EndedRow
  <2> QED BY <1>2, <1>5, <2>2 DEF Active
<1>6. CASE group[g].status = "pending" /\ <<g, 0>> \in cards
  BY <1>2, <1>6 DEF Active
<1>7. CASE group[g].status = "approved" /\ group'[g] = Moved(group[g], "revoked")
  BY <1>1, <1>2, <1>7, RevokedRow DEF Active
<1> QED BY <1>3, <1>4, <1>5, <1>6, <1>7 DEF Change

LEMMA Invariance == Spec => []IInv
<1>1. Init => IInv
  <2> SUFFICES ASSUME Init PROVE IInv
    OBVIOUS
  <2>1. goal \in [Tasks -> Goals]
    BY GoalAssumption DEF Init, NoGoal, Goals
  <2>2. \A g \in Groups : group[g] = Absent
    BY DEF Init
  <2>3. group \in [Groups -> Rows] /\ ItemsFollowGroup
    BY <2>2, AbsentRow DEF Init, ItemsFollowGroup, RowItems
  <2>4. OneDecision /\ OneOpen /\ Seen
    BY <2>2 DEF OneDecision, OneOpen, Seen, GroupsOf, Active, Absent
  <2> QED BY <2>1, <2>3, <2>4 DEF IInv, TypeOK, Init
<1>2. IInv /\ [Next]_vars => IInv'
  <2> SUFFICES ASSUME IInv, [Next]_vars PROVE IInv'
    OBVIOUS
  <2>1. CASE UNCHANGED vars
    BY <2>1 DEF vars, IInv, TypeOK, ItemsFollowGroup, OneDecision, OneOpen, Seen, GroupsOf
  <2>2. CASE Next
    <3>1. /\ \A g \in Groups : Change(g)
          /\ group' = [g \in Groups |-> group'[g]]
          /\ cards \subseteq cards'
      BY <2>2, StepIs
    <3>2. \A g \in Groups : group'[g] \in Rows /\ RowItems(group'[g])
      BY <3>1, ChangeIs
    <3>3. group' \in [Groups -> Rows]
      BY <3>1, <3>2
    <3>4. TypeOK'
      BY <2>2, <3>3, NextTypes, NextCards DEF TypeOK
    <3>5. ItemsFollowGroup'
      BY <3>2 DEF ItemsFollowGroup, RowItems
    <3>6. OneOpen'
      <4> SUFFICES ASSUME NEW t \in Tasks, NEW g \in GroupsOf(t), NEW h \in GroupsOf(t),
                          g # h, Active(group'[g]), Active(group'[h])
                   PROVE  FALSE
        BY DEF OneOpen, GroupsOf
      <4>1. g \in Groups /\ h \in Groups /\ TaskOf[g] = t /\ TaskOf[h] = t
        BY DEF GroupsOf
      <4>2. Active(group[g])
        BY <3>1, <4>1, ChangeIs
      <4>3. Active(group[h])
        BY <3>1, <4>1, ChangeIs
      <4> QED BY <4>2, <4>3 DEF IInv, OneOpen
    <3>7. OneDecision'
      <4> SUFFICES ASSUME NEW t \in Tasks, NEW g \in GroupsOf(t), NEW h \in GroupsOf(t),
                          g # h, group'[g].decision # "none"
                   PROVE  group'[h].decision = "none" /\ ~Active(group'[h])
        BY DEF OneDecision, GroupsOf
      <4>1. g \in Groups /\ h \in Groups /\ TaskOf[g] = t /\ TaskOf[h] = t
        BY DEF GroupsOf
      <4>2. group[g].decision # "none" \/ Active(group[g])
        <5>1. group[g].status = "absent" => (group'[g].decision # "none" => group'[g] = group[g])
          BY <3>1, <4>1, ChangeIs DEF Active
        <5> QED BY <3>1, <4>1, <5>1, ChangeIs
      <4>3. ~Active(group[h]) /\ group[h].decision = "none"
        BY <4>2, <4>1 DEF IInv, OneDecision, OneOpen
      <4>4. group'[h] = group[h]
        BY <3>1, <4>1, <4>3, ChangeIs
      <4> QED BY <4>3, <4>4
    <3>8. Seen'
      <4> SUFFICES ASSUME NEW g \in Groups, group'[g].decision # "none"
                   PROVE  <<g, 0>> \in cards'
        BY DEF Seen
      <4>1. group[g].decision # "none" \/ <<g, 0>> \in cards
        <5>1. g \in GroupsOf(TaskOf[g])
          BY DEF GroupsOf
        <5> QED BY <3>1, <5>1, ChangeIs
      <4> QED BY <3>1, <4>1 DEF IInv, Seen
    <3> QED BY <3>4, <3>5, <3>6, <3>7, <3>8 DEF IInv
  <2> QED BY <2>1, <2>2
<1> QED BY <1>1, <1>2, PTL DEF Spec

-----------------------------------------------------------------------------
(* Theorems *)

\* Groups keep rows that the store would accept when it is opened again.
THEOREM TypeCorrect == Spec => []TypeOK
<1>1. IInv => TypeOK
  BY DEF IInv
<1> QED BY <1>1, Invariance, PTL

\* A task is decided once, by one card.
THEOREM DecidedOnce == Spec => []OneDecision
<1>1. IInv => OneDecision
  BY DEF IInv
<1> QED BY <1>1, Invariance, PTL

\* The requests in the ordinary ledger say what was decided of their group.
THEOREM ItemsFollow == Spec => []ItemsFollowGroup
<1>1. IInv => ItemsFollowGroup
  BY DEF IInv
<1> QED BY <1>1, Invariance, PTL

LEMMA GrantStep ==
    ASSUME IInv, IInv', Next
    PROVE  GrantIsBacked'
<1>1. CASE grant' = None
  BY <1>1 DEF GrantIsBacked
<1>2. ASSUME NEW g \in Groups, NEW rev \in 0..2, Authorize(g, rev), grant' # None
      PROVE  GrantIsBacked'
  <2> DEFINE r == Refreshed(g)
  <2>1. /\ grant' = g /\ group' = [group EXCEPT ![g] = r]
        /\ r.status = "approved" /\ r.items = "approved"
        /\ UNCHANGED <<now, goal, cards>>
    BY <1>2 DEF Authorize
  <2>2. ~Expired(g) /\ Current(goal[TaskOf[g]], g)
    BY <2>1, OpenIsCurrent DEF IInv, Active
  <2>3. group'[g] = r /\ group'[g] \in Rows
    BY <2>1 DEF IInv, TypeOK
  <2>4. r.decision = "approved"
    BY <2>1, <2>3, ApprovedRow
  <2>5. <<g, 0>> \in cards'
    BY <2>3, <2>4 DEF IInv, Seen
  <2>6. \A h \in GroupsOf(TaskOf[g]) \ {g} : ~Active(group'[h])
    <3>1. g \in GroupsOf(TaskOf[g]) /\ TaskOf[g] \in Tasks
      BY GroupAssumption DEF GroupsOf
    <3>2. Active(group'[g])
      BY <2>1, <2>3 DEF Active
    <3>3. OneOpen'
      BY DEF IInv
    <3>4. \A h \in GroupsOf(TaskOf[g]) : g # h => ~Active(group'[h])
      BY <3>1, <3>2, <3>3 DEF OneOpen, GroupsOf
    <3> QED BY <3>4
  <2>7. ~Expired(g)' /\ IsFrozen(goal'[TaskOf[g]]) /\ goal'[TaskOf[g]].revision = RevisionOf[g]
    BY <2>1, <2>2 DEF Expired, Current
  <2> QED BY <2>1, <2>3, <2>4, <2>5, <2>6, <2>7 DEF GrantIsBacked, Expired, GroupsOf
<1> QED BY <1>1, <1>2 DEF Next, Tick, Reconcile, CrashInReconcile, List, ListFails, Resolve, Revoke

\* Whatever claim the caller holds, a grant stands on a card that the user saw
\* and approved, on the goal that is frozen then and on no other open card.
THEOREM GrantsAreBacked == Spec => []GrantIsBacked
<1>1. Init => GrantIsBacked
  BY DEF Init, GrantIsBacked
<1>2. IInv /\ IInv' /\ GrantIsBacked /\ [Next]_vars => GrantIsBacked'
  <2>1. GrantIsBacked /\ UNCHANGED vars => GrantIsBacked'
    BY DEF GrantIsBacked, vars, Expired, GroupsOf
  <2> QED BY <2>1, GrantStep
<1> QED BY <1>1, <1>2, Invariance, PTL DEF Spec

\* Authority that ended does not come back to its task.
THEOREM OverIsOver == Spec => AuthorityIsOver
<1>1. IInv /\ IInv' /\ GrantIsBacked' /\ [Next]_vars =>
        [\A t \in Tasks : Over(t) => Over(t)' /\ grant' \notin GroupsOf(t)]_vars
  <2> SUFFICES ASSUME IInv, IInv', GrantIsBacked', Next, NEW t \in Tasks, Over(t)
               PROVE  Over(t)' /\ grant' \notin GroupsOf(t)
    OBVIOUS
  <2>1. PICK g \in GroupsOf(t) : group[g].decision # "none" /\ ~Active(group[g])
    BY DEF Over
  <2>2. g \in Groups /\ TaskOf[g] = t
    BY DEF GroupsOf
  <2>3. group'[g] = group[g]
    BY <2>1, <2>2, StepIs, ChangeIs DEF GroupsOf
  <2>4. Over(t)'
    BY <2>1, <2>3 DEF Over, GroupsOf
  <2>5. ASSUME grant' \in GroupsOf(t) PROVE FALSE
    <3>1. grant' # None /\ grant' \in Groups
      BY <2>5, GroupAssumption DEF GroupsOf
    <3>2. group'[grant'].status = "approved" /\ group'[grant'].decision = "approved"
      BY <3>1 DEF GrantIsBacked
    <3>3. grant' # g
      BY <2>1, <2>3, <3>2 DEF Active
    <3> QED BY <2>1, <2>3, <2>5, <3>2, <3>3 DEF IInv, OneDecision, GroupsOf
  <2> QED BY <2>4, <2>5
<1> QED BY <1>1, Invariance, GrantsAreBacked, PTL DEF Spec, AuthorityIsOver
=============================================================================
