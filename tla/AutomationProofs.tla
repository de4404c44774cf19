-------------------------- MODULE AutomationProofs ---------------------------
(***************************************************************************)
(* Theorems about Automation, for every set of definitions, schedules,     *)
(* policies and bounds.                                                    *)
(***************************************************************************)
EXTENDS Automation, FiniteSetTheorems, SequenceTheorems, TLAPS

-----------------------------------------------------------------------------
(* What a step may do to the rows: append some, or mirror an agent run.       *)

LEMMA WindowRowTyped ==
    ASSUME TypeOK, NEW d \in Definitions, NEW w \in NewestDue(d)
    PROVE  WindowRow(d, w) \in Row
<1>1. w \in Nat /\ now \in Nat
  BY AutomationAssumption DEF NewestDue, Due, TypeOK, Time
<1> QED
  BY <1>1, AutomationAssumption
  DEF WindowRow, Row, RunStatus, AgentStatuses, OpenStatus

\* The rows that StartRuns appends: each is the row of the newest due window
\* of an enabled definition.
LEMMA StartRunsAppends ==
    ASSUME TypeOK, NEW S \in SUBSET Firing, StartRuns(S)
    PROVE  /\ rows' \in Seq(Row)
           /\ Len(rows) <= Len(rows')
           /\ \A i \in 1..Len(rows) : rows'[i] = rows[i]
           /\ \A i \in DOMAIN rows' \ DOMAIN rows :
                \E d \in Firing : \E w \in NewestDue(d) : rows'[i] = WindowRow(d, w)
<1>1. PICK order \in Orders(S) :
        rows' = rows \o [n \in DOMAIN order |->
                  WindowRow(order[n], CHOOSE w \in NewestDue(order[n]) : TRUE)]
  BY DEF StartRuns
<1> DEFINE k   == Cardinality(S)
           row == [n \in DOMAIN order |->
                    WindowRow(order[n], CHOOSE w \in NewestDue(order[n]) : TRUE)]
<1>2. k \in Nat
  <2>1. IsFiniteSet(S)
    BY AutomationAssumption, FS_Subset DEF Firing
  <2> QED BY <2>1, FS_CardinalityType
<1>3. order \in [1..k -> S] /\ DOMAIN order = 1..k
  BY DEF Orders
<1>4. \A n \in 1..k : \E w \in NewestDue(order[n]) :
        order[n] \in Firing /\ row[n] = WindowRow(order[n], w)
  BY <1>3 DEF Firing
<1>5. row \in [1..k -> Row]
  <2>1. \A n \in 1..k : row[n] \in Row
    BY <1>4, WindowRowTyped DEF Firing
  <2> QED BY <1>3, <2>1
<1>6. row \in Seq(Row) /\ Len(row) = k
  <2> HIDE DEF k, row
  <2>1. row \in UNION {[1..n -> Row] : n \in Nat}
    BY <1>2, <1>5
  <2>2. row \in Seq(Row)
    BY <2>1, SeqDef
  <2> QED BY <1>2, <1>5, <2>2, LenProperties
<1>7. rows \in Seq(Row) /\ rows' = rows \o row
  BY <1>1 DEF TypeOK
<1> HIDE DEF k, row
<1>8. /\ rows' \in Seq(Row)
      /\ Len(rows') = Len(rows) + k
      /\ \A i \in 1..Len(rows) : rows'[i] = rows[i]
      /\ \A i \in (Len(rows) + 1)..(Len(rows) + k) : rows'[i] = row[i - Len(rows)]
  <2>1. /\ rows' \in Seq(Row)
        /\ Len(rows') = Len(rows) + k
        /\ \A i \in 1..(Len(rows) + k) :
             rows'[i] = IF i <= Len(rows) THEN rows[i] ELSE row[i - Len(rows)]
    BY <1>6, <1>7, ConcatProperties
  <2>2. Len(rows) \in Nat
    BY <1>7, LenProperties
  <2> QED BY <1>2, <2>1, <2>2
<1>9. ASSUME NEW i \in DOMAIN rows' \ DOMAIN rows
      PROVE  \E d \in Firing : \E w \in NewestDue(d) : rows'[i] = WindowRow(d, w)
  <2>1. i \in (Len(rows) + 1)..(Len(rows) + k)
    BY <1>2, <1>7, <1>8
  <2>2. i - Len(rows) \in 1..k /\ rows'[i] = row[i - Len(rows)]
    BY <1>2, <1>7, <1>8, <2>1
  <2> QED BY <1>4, <2>2
<1> QED BY <1>2, <1>7, <1>8, <1>9

\* Mirroring keeps the rows typed, leaves the rows of runs that ended as they
\* are and changes nothing but status and attempt.
LEMMA MirroredBeforeKeeps ==
    ASSUME TypeOK, NEW Stop, Refused \subseteq Stop, rows' = MirroredBefore(Stop)
    PROVE  /\ rows' \in Seq(Row)
           /\ Len(rows') = Len(rows)
           /\ \A i \in DOMAIN rows :
                /\ rows'[i].def = rows[i].def
                /\ rows'[i].window = rows[i].window
                /\ rows'[i].at = rows[i].at
                /\ rows'[i].created = rows[i].created
                /\ rows'[i].agent = rows[i].agent
                /\ rows[i].status \in {"completed", "cancelled"} =>
                     rows'[i].status = rows[i].status
<1>1. rows \in Seq(Row) /\ DOMAIN rows = 1..Len(rows) /\ Len(rows) \in Nat
  BY DEF TypeOK
<1>2. ASSUME NEW i \in DOMAIN rows
      PROVE  /\ rows'[i] \in Row
             /\ rows'[i].def = rows[i].def
             /\ rows'[i].window = rows[i].window
             /\ rows'[i].at = rows[i].at
             /\ rows'[i].created = rows[i].created
             /\ rows'[i].agent = rows[i].agent
             /\ rows[i].status \in {"completed", "cancelled"} =>
                  rows'[i].status = rows[i].status
  <2>1. rows[i] \in Row
    BY <1>1
  <2>2. CASE rows'[i] = rows[i]
    BY <2>1, <2>2
  <2>3. CASE Lagging(i) /\ i \notin Stop /\ rows'[i] = Mirrored(rows[i])
    <3> DEFINE r == rows[i]
    <3>1. Accepted(r, Target(r.agent))
      BY <2>3 DEF Refused
    <3>2. r.agent \in AgentStatuses
      BY <2>1, <2>3 DEF Lagging, Row
    <3>3. Target(r.agent) \in RunStatus
      BY <3>2 DEF Target, RunStatus, AgentStatuses, OpenStatus
    <3>4. r.status \notin {"completed", "cancelled"}
      BY <3>1 DEF Accepted, Allowed
    <3>5. r.status = "failed" => r.attempt < RetryLimit
      BY <3>1 DEF Accepted
    <3>6. (IF r.status = "failed" THEN r.attempt + 1 ELSE r.attempt) \in 0..RetryLimit
      BY <2>1, <3>5, AutomationAssumption DEF Row
    <3>7. Mirrored(r) \in Row
      BY <2>1, <3>3, <3>6 DEF Mirrored, Row
    <3>8. /\ Mirrored(r).def = r.def
          /\ Mirrored(r).window = r.window
          /\ Mirrored(r).at = r.at
          /\ Mirrored(r).created = r.created
          /\ Mirrored(r).agent = r.agent
      BY <2>1 DEF Mirrored, Row
    <3> QED BY <2>3, <3>4, <3>7, <3>8
  <2>4. rows'[i] = IF Lagging(i) /\ i \notin Stop /\ \A j \in Stop : Precedes(i, j)
                   THEN Mirrored(rows[i]) ELSE rows[i]
    BY DEF MirroredBefore
  <2> QED BY <2>2, <2>3, <2>4
<1>3. rows' = [i \in 1..Len(rows) |-> rows'[i]]
  BY <1>1 DEF MirroredBefore
<1>4. rows' \in [1..Len(rows) -> Row]
  BY <1>1, <1>2, <1>3
<1>5. rows' \in Seq(Row) /\ Len(rows') = Len(rows)
  BY <1>1, <1>4
<1> QED BY <1>2, <1>5

-----------------------------------------------------------------------------
(* Type correctness. *)

LEMMA TypeStep == TypeOK /\ [Next]_vars => TypeOK'
<1> SUFFICES ASSUME TypeOK, [Next]_vars PROVE TypeOK'
  OBVIOUS
<1>1. CASE Tick
  BY <1>1, AutomationAssumption DEF Tick, TypeOK, Time
<1>2. ASSUME NEW d \in Definitions, Create(d) PROVE TypeOK'
  BY <1>2 DEF Create, TypeOK
<1>3. ASSUME NEW d \in Definitions, NEW s \in {"enabled", "paused", "deleted"},
             SetStatus(d, s)
      PROVE  TypeOK'
  BY <1>3 DEF SetStatus, TypeOK
<1>4. ASSUME NEW d \in Definitions, RunNow(d) PROVE TypeOK'
  <2> DEFINE row == [def |-> d, window |-> NoWindow, at |-> now, created |-> now,
                     status |-> "queued", attempt |-> 0, agent |-> "queued"]
  <2>1. row \in Row
    BY AutomationAssumption
    DEF TypeOK, Time, Row, RunStatus, AgentStatuses, OpenStatus
  <2>2. rows' = Append(rows, row)
    BY <1>4 DEF RunNow
  <2> HIDE DEF row
  <2>3. rows' \in Seq(Row)
    BY <2>1, <2>2, AppendProperties DEF TypeOK
  <2> QED BY <1>4, <2>3 DEF RunNow, TypeOK
<1>5. ASSUME NEW i \in DOMAIN rows, AgentMoves(i) PROVE TypeOK'
  <2>1. PICK s \in AgentStatuses : rows' = [rows EXCEPT ![i].agent = s]
    BY <1>5, AutomationAssumption DEF AgentMoves
  <2>2. i \in 1..Len(rows) /\ rows \in Seq(Row)
    BY LenProperties DEF TypeOK
  <2>3. rows[i] \in Row
    BY <2>2, ElementOfSeq
  <2>4. [rows[i] EXCEPT !.agent = s] \in Row
    BY <2>3 DEF Row
  <2>5. rows' = [rows EXCEPT ![i] = [rows[i] EXCEPT !.agent = s]]
    BY <2>1
  <2>6. rows' \in Seq(Row)
    BY <2>2, <2>4, <2>5, ExceptSeq
  <2> QED BY <1>5, <2>6 DEF AgentMoves, TypeOK
<1>6. CASE Reconcile
  BY <1>6, MirroredBeforeKeeps DEF Reconcile, TypeOK
<1>7. CASE StartDue
  BY <1>7, StartRunsAppends DEF StartDue, TypeOK
<1>8. CASE Restart
  <2>1. rows' \in Seq(Row)
    BY <1>8, StartRunsAppends, MirroredBeforeKeeps DEF Restart
  <2> QED BY <1>8, <2>1 DEF Restart, TypeOK
<1>9. CASE UNCHANGED vars
  BY <1>9 DEF vars, TypeOK
<1> QED
  BY <1>1, <1>2, <1>3, <1>4, <1>5, <1>6, <1>7, <1>8, <1>9 DEF Next

\* Definitions, windows and runs keep their types, and no automation run is
\* retried more often than its retry limit (transition_automation_run).
THEOREM TypeCorrect == Spec => []TypeOK
<1>1. Init => TypeOK
  BY AutomationAssumption, EmptySeq DEF Init, TypeOK, Time
<1> QED BY <1>1, TypeStep, PTL DEF Spec

-----------------------------------------------------------------------------
(* Windows. *)

\* The newest due window is newer than everything the definition has run, and
\* no window that has passed is newer.
LEMMA NewestDueIsNewest ==
    ASSUME TypeOK, NEW d \in Definitions, NEW w \in NewestDue(d)
    PROVE  /\ \A v \in WindowsOf[d] : v <= now => v <= w
           /\ \A i \in DOMAIN rows : rows[i].def = d => rows[i].at < w
<1>1. w \in Due(d) /\ \A v \in Due(d) : v <= w
  BY DEF NewestDue
<1>2. WindowsOf[d] \subseteq Nat /\ w \in Nat /\ now \in Nat /\ born[d] \in Nat
  BY <1>1, AutomationAssumption DEF Due, TypeOK, Time
<1>3. \A i \in DOMAIN rows : rows[i].at \in Nat
  <2>1. rows \in Seq(Row) /\ DOMAIN rows = 1..Len(rows)
    BY LenProperties DEF TypeOK
  <2>2. \A i \in DOMAIN rows : rows[i] \in Row
    BY <2>1, ElementOfSeq
  <2> QED BY <2>2 DEF Row
<1>4. CASE d \in Once
  BY <1>1, <1>2, <1>4 DEF Due, RowsOf
<1>5. CASE d \notin Once
  <2>1. w >= born[d] /\ \A i \in RowsOf(d) : rows[i].at < w
    BY <1>1, <1>5 DEF Due
  <2>2. ASSUME NEW v \in WindowsOf[d], v <= now PROVE v <= w
    <3>1. CASE v \in Due(d)
      BY <1>1, <3>1
    <3>2. CASE ~(v >= born[d])
      BY <1>2, <2>1, <3>2
    <3>3. CASE \E i \in RowsOf(d) : ~(rows[i].at < v)
      <4>1. PICK i \in RowsOf(d) : ~(rows[i].at < v)
        BY <3>3
      <4> QED BY <1>2, <1>3, <2>1, <4>1 DEF RowsOf
    <3> QED BY <1>5, <2>2, <3>1, <3>2, <3>3 DEF Due
  <2> QED BY <2>1, <2>2 DEF RowsOf
<1> QED BY <1>4, <1>5

\* A schedule only ever starts its newest window, and none twice
\* (due_automation_window), whatever was missed, paused or run by hand.
THEOREM NewestWindowOnly == Spec => OnlyNewestWindow
<1> DEFINE Good(i) == LET r == rows'[i] IN
              r.window # NoWindow =>
                /\ \A w \in WindowsOf[r.def] : w <= now => w <= r.window
                /\ \A j \in DOMAIN rows : rows[j].def = r.def => rows[j].at < r.window
           A == \A i \in DOMAIN rows' \ DOMAIN rows : Good(i)
<1>1. TypeOK /\ [Next]_vars => [A]_vars
  <2> SUFFICES ASSUME TypeOK, Next PROVE A
    BY DEF vars
  <2>1. ASSUME NEW S \in SUBSET Firing, StartRuns(S), NEW i \in DOMAIN rows' \ DOMAIN rows
        PROVE  Good(i)
    <3>1. PICK d \in Firing : \E w \in NewestDue(d) : rows'[i] = WindowRow(d, w)
      BY <2>1, StartRunsAppends
    <3>2. PICK w \in NewestDue(d) : rows'[i] = WindowRow(d, w)
      BY <3>1
    <3>3. rows'[i].def = d /\ rows'[i].window = w
      BY <3>2 DEF WindowRow
    <3> QED BY <3>3, NewestDueIsNewest DEF Firing
  <2>2. ASSUME NEW d \in Definitions, RunNow(d), NEW i \in DOMAIN rows' \ DOMAIN rows
        PROVE  Good(i)
    <3> DEFINE row == [def |-> d, window |-> NoWindow, at |-> now, created |-> now,
                       status |-> "queued", attempt |-> 0, agent |-> "queued"]
    <3>1. rows' = Append(rows, row) /\ rows \in Seq(Row)
      BY <2>2 DEF RunNow, TypeOK
    <3>2. row.window = NoWindow
      OBVIOUS
    <3> HIDE DEF row
    <3>3. DOMAIN rows = 1..Len(rows) /\ Len(rows) \in Nat
      BY <3>1, LenProperties
    <3>4. DOMAIN rows' = 1..(Len(rows) + 1) /\ rows'[Len(rows) + 1] = row
      BY <3>1, <3>3
    <3>5. i = Len(rows) + 1
      BY <2>2, <3>3, <3>4
    <3> QED BY <3>2, <3>4, <3>5
  <2>3. CASE \E i \in DOMAIN rows : AgentMoves(i)
    BY <2>3 DEF AgentMoves
  <2>4. ASSUME NEW Stop, Refused \subseteq Stop, rows' = MirroredBefore(Stop)
        PROVE  A
    BY <2>4 DEF MirroredBefore
  <2>5. CASE UNCHANGED rows
    BY <2>5
  <2> QED
    BY <2>1, <2>2, <2>3, <2>4, <2>5
    DEF Next, Tick, Create, SetStatus, Reconcile, StartDue, Restart
<1>2. OnlyNewestWindow <=> [][A]_vars
  BY DEF OnlyNewestWindow
<1> QED BY <1>1, <1>2, TypeCorrect, PTL DEF Spec

-----------------------------------------------------------------------------
(* What the rows keep. *)

\* A definition that skips missed windows starts no agent run for one
\* (missed_run_policy), however late the sweep comes.
THEOREM SkippedStarts == Spec => []SkippedIsNotStarted
<1> DEFINE Fine(r) ==
             (r.window # NoWindow /\ r.def \in SkipMissed /\ r.agent # "none")
               => r.created - r.window <= MissedAfter
           Inv == TypeOK /\ SkippedIsNotStarted
<1>1. SkippedIsNotStarted <=> \A i \in DOMAIN rows : Fine(rows[i])
  BY DEF SkippedIsNotStarted
<1>2. SkippedIsNotStarted' <=> \A i \in DOMAIN rows' : Fine(rows'[i])
  BY DEF SkippedIsNotStarted
<1> HIDE DEF Fine
<1>3. Init => SkippedIsNotStarted
  BY DEF Init, SkippedIsNotStarted
<1>4. Inv /\ [Next]_vars => Inv'
  <2> SUFFICES ASSUME Inv, [Next]_vars PROVE SkippedIsNotStarted'
    BY TypeStep
  <2>1. rows \in Seq(Row) /\ DOMAIN rows = 1..Len(rows) /\ Len(rows) \in Nat
    BY LenProperties DEF TypeOK
  <2>2. ASSUME NEW S \in SUBSET Firing, StartRuns(S) PROVE SkippedIsNotStarted'
    <3>1. ASSUME NEW d \in Definitions, NEW w \in NewestDue(d) PROVE Fine(WindowRow(d, w))
      BY <3>1, AutomationAssumption
      DEF WindowRow, Fine, Missed, NewestDue, Due, TypeOK, Time
    <3>2. ASSUME NEW i \in DOMAIN rows' PROVE Fine(rows'[i])
      <4>1. CASE i \in DOMAIN rows
        BY <1>1, <2>1, <2>2, <4>1, StartRunsAppends
      <4>2. CASE i \notin DOMAIN rows
        BY <2>2, <3>1, <4>2, StartRunsAppends DEF Firing
      <4> QED BY <4>1, <4>2
    <3> QED BY <1>2, <3>2
  <2>3. ASSUME NEW d \in Definitions, RunNow(d) PROVE SkippedIsNotStarted'
    <3> DEFINE row == [def |-> d, window |-> NoWindow, at |-> now, created |-> now,
                       status |-> "queued", attempt |-> 0, agent |-> "queued"]
    <3>1. rows' = Append(rows, row)
      BY <2>3 DEF RunNow
    <3>2. Fine(row)
      BY DEF Fine
    <3> HIDE DEF row
    <3>3. \A i \in DOMAIN rows' : (i \in DOMAIN rows /\ rows'[i] = rows[i]) \/ rows'[i] = row
      BY <2>1, <3>1
    <3> QED BY <1>1, <1>2, <3>2, <3>3
  <2>4. ASSUME NEW i \in DOMAIN rows, AgentMoves(i) PROVE SkippedIsNotStarted'
    <3>1. PICK s \in Seen : rows' = [rows EXCEPT ![i].agent = s]
      BY <2>4 DEF AgentMoves
    <3>2. rows[i].agent # "none" /\ rows[i] \in Row
      BY <2>1, <2>4, ElementOfSeq DEF AgentMoves
    <3>3. Fine([rows[i] EXCEPT !.agent = s])
      BY <1>1, <3>2 DEF Fine, Row
    <3>4. DOMAIN rows' = DOMAIN rows
          /\ \A j \in DOMAIN rows :
               rows'[j] = IF j = i THEN [rows[i] EXCEPT !.agent = s] ELSE rows[j]
      BY <3>1
    <3> QED BY <1>1, <1>2, <3>3, <3>4
  <2>5. ASSUME NEW Stop, Refused \subseteq Stop, rows' = MirroredBefore(Stop)
        PROVE  SkippedIsNotStarted'
    <3>1. DOMAIN rows' = DOMAIN rows
      BY <2>5 DEF MirroredBefore
    <3>2. \A i \in DOMAIN rows : Fine(rows'[i])
      BY <1>1, <2>5, MirroredBeforeKeeps DEF Fine
    <3> QED BY <1>2, <3>1, <3>2
  <2>6. CASE UNCHANGED rows
    BY <1>1, <1>2, <2>6
  <2> QED
    BY <2>2, <2>3, <2>4, <2>5, <2>6
    DEF Next, Tick, Create, SetStatus, Reconcile, StartDue, Restart, vars
<1>5. Inv => SkippedIsNotStarted
  OBVIOUS
<1> HIDE DEF Inv
<1>6. Init => Inv
  BY <1>3, AutomationAssumption, EmptySeq DEF Inv, Init, TypeOK, Time
<1> QED BY <1>4, <1>5, <1>6, PTL DEF Spec

\* A completed or cancelled automation run keeps its status for good, whatever
\* its agent run reports later (automation_run_transition_allowed).
THEOREM EndsAreFinal == Spec => EndedRunsStay
<1> DEFINE A == \A i \in DOMAIN rows :
                  rows[i].status \in {"completed", "cancelled"} =>
                    rows'[i].status = rows[i].status
<1>1. TypeOK /\ [Next]_vars => [A]_vars
  <2> SUFFICES ASSUME TypeOK, Next PROVE A
    BY DEF vars
  <2>1. rows \in Seq(Row) /\ DOMAIN rows = 1..Len(rows) /\ Len(rows) \in Nat
    BY LenProperties DEF TypeOK
  <2>2. ASSUME NEW S \in SUBSET Firing, StartRuns(S) PROVE A
    BY <2>1, <2>2, StartRunsAppends
  <2>3. ASSUME NEW d \in Definitions, RunNow(d) PROVE A
    BY <2>1, <2>3 DEF RunNow
  <2>4. ASSUME NEW i \in DOMAIN rows, AgentMoves(i) PROVE A
    <3>1. PICK s \in Seen : rows' = [rows EXCEPT ![i].agent = s]
      BY <2>4 DEF AgentMoves
    <3>2. rows[i] \in Row
      BY <2>1, ElementOfSeq
    <3>3. [rows[i] EXCEPT !.agent = s].status = rows[i].status
      BY <3>2 DEF Row
    <3>4. \A j \in DOMAIN rows :
            rows'[j] = IF j = i THEN [rows[i] EXCEPT !.agent = s] ELSE rows[j]
      BY <3>1
    <3> QED BY <3>3, <3>4
  <2>5. ASSUME NEW Stop, Refused \subseteq Stop, rows' = MirroredBefore(Stop)
        PROVE  A
    BY <2>5, MirroredBeforeKeeps
  <2>6. CASE UNCHANGED rows
    BY <2>6
  <2> QED
    BY <2>2, <2>3, <2>4, <2>5, <2>6
    DEF Next, Tick, Create, SetStatus, Reconcile, StartDue, Restart
<1>2. EndedRunsStay <=> [][A]_vars
  BY DEF EndedRunsStay
<1> QED BY <1>1, <1>2, TypeCorrect, PTL DEF Spec
=============================================================================
