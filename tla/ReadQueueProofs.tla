--------------------------- MODULE ReadQueueProofs ---------------------------
(***************************************************************************)
(* Proofs about ReadQueue, for any reads, limits and bounds: its types, and *)
(* that it implements ReadPromise.                                          *)
(***************************************************************************)
EXTENDS ReadQueue, TLAPS

\* A read was asked for only once it was begun; the worker's memory and the
\* rows agree on what it is doing.
Agreed ==
    /\ \A r \in Reads : row[r].phase \in {"none", "pending", "claimed"} => called[r] = 0
    /\ \A r \in worker.batch \ {worker.read} : row[r].phase = "claimed"
    /\ worker.step = "idle" => worker = Idle
    /\ worker.step = "batch" => worker.read = None
    /\ worker.step \in {"calling", "answered"} =>
         worker.read \in Reads /\ row[worker.read].phase = "remote_call_started"
    /\ worker.step = "calling" => called[worker.read] = 0
    /\ worker.step = "answered" => called[worker.read] = 1
    /\ worker.step = "applying" =>
         worker.read \in Reads /\ row[worker.read].phase = "result_persisted"

IInv == TypeOK /\ Agreed

\* What every step leaves alone of a row that is there.
Frozen(r) ==
    /\ row'[r].generation = row[r].generation
    /\ row'[r].revision = row[r].revision
    /\ row'[r].phase = "none" <=> row[r].phase = "none"

-----------------------------------------------------------------------------
(* Rows *)

Claimable == {"claimed", "remote_call_started"}

LEMMA MovedRow ==
    ASSUME NEW x \in Row, NEW p \in Phases \ Claimable
    PROVE  /\ Moved(x, p) \in Row
           /\ Moved(x, p).phase = p /\ Moved(x, p).lease = "none"
           /\ Moved(x, p).generation = x.generation
           /\ Moved(x, p).revision = x.revision
BY DEF Row, Moved, Claimable

LEMMA SettledRow ==
    ASSUME TypeOK, NEW r \in Reads
    PROVE  /\ Settled(r) \in Row
           /\ Settled(r).phase = IF Authority(r) THEN "applied" ELSE "authority_lost"
           /\ Settled(r).lease = "none"
           /\ Settled(r).generation = row[r].generation
           /\ Settled(r).revision = row[r].revision
<1> DEFINE p == IF Authority(r) THEN "applied" ELSE "authority_lost"
<1>1. row[r] \in Row /\ p \in Phases \ Claimable
  BY DEF TypeOK, Phases, Claimable
<1>2. Settled(r) = Moved(row[r], p)
  BY DEF Settled
<1> QED BY <1>1, <1>2, MovedRow

LEMMA ResetRow ==
    ASSUME NEW x \in Row, x.lease # "none" <=> x.phase \in Claimable
    PROVE  /\ Reset(x) \in Row
           /\ Reset(x).lease = "none" /\ Reset(x).phase \notin Claimable
           /\ Reset(x).generation = x.generation
           /\ Reset(x).revision = x.revision
           /\ x.phase = "claimed" => Reset(x).phase = "pending"
           /\ x.phase = "remote_call_started" => Reset(x).phase = "reconciliation_required"
           /\ x.phase \notin Claimable => Reset(x) = x
<1>1. "pending" \in Phases \ Claimable /\ "reconciliation_required" \in Phases \ Claimable
  BY DEF Phases, Claimable
<1>2. CASE x.phase = "claimed"
  BY <1>1, <1>2, MovedRow DEF Reset, Claimable
<1>3. CASE x.phase = "remote_call_started"
  BY <1>1, <1>3, MovedRow DEF Reset, Claimable
<1>4. CASE x.phase \notin Claimable
  BY <1>4 DEF Reset, Claimable
<1> QED BY <1>2, <1>3, <1>4 DEF Claimable

LEMMA StageIs ==
    ASSUME TypeOK, NEW r \in Reads
    PROVE  /\ row[r].phase = "none" => Stage[r] = "none"
           /\ row[r].phase \in {"pending", "claimed"} => Stage[r] = "waiting"
           /\ row[r].phase = "remote_call_started" => Stage[r] = "begun"
           /\ row[r].phase = "result_persisted" => Stage[r] = "kept"
           /\ row[r].phase = "applied" => Stage[r] = "applied"
           /\ row[r].phase \in {"authority_lost", "reconciliation_required", "repair_required"}
                => Stage[r] = "stopped"
BY DEF Stage, StageOf

LEMMA StageIsNext ==
    ASSUME TypeOK', NEW r \in Reads
    PROVE  /\ row'[r].phase = "none" => Stage'[r] = "none"
           /\ row'[r].phase \in {"pending", "claimed"} => Stage'[r] = "waiting"
           /\ row'[r].phase = "remote_call_started" => Stage'[r] = "begun"
           /\ row'[r].phase = "result_persisted" => Stage'[r] = "kept"
           /\ row'[r].phase = "applied" => Stage'[r] = "applied"
           /\ row'[r].phase \in {"authority_lost", "reconciliation_required", "repair_required"}
                => Stage'[r] = "stopped"
BY DEF Stage, StageOf

\* A step of the queue that leaves the sources alone leaves the authority of
\* every read alone.
LEMMA ValidKept ==
    ASSUME UNCHANGED sources, \A r \in Reads : Frozen(r)
    PROVE  Valid' = Valid
<1>1. ASSUME NEW r \in Reads
      PROVE  (MaySubmit(r))' = MaySubmit(r) /\ (Authority(r))' = Authority(r)
  BY <1>1 DEF sources, Frozen, MaySubmit, Authority, SourceHolds, Revision
<1> QED BY <1>1 DEF Valid, Frozen

-----------------------------------------------------------------------------
(* The invariant *)

LEMMA InitInv == Init => IInv
<1> SUFFICES ASSUME Init PROVE IInv
  OBVIOUS
<1>1. 0 \in 0..MaxRevision
  BY ReadAssumption
<1>2. TypeOK
  BY <1>1 DEF Init, TypeOK, Row, Phases, Steps, Idle
<1>3. Agreed
  BY DEF Init, Agreed, Idle
<1> QED BY <1>2, <1>3 DEF IInv

\* Steps of the sources do not concern the queue.
LEMMA SourceStep ==
    ASSUME IInv, UNCHANGED <<row, worker, called>>,
           \/ \E health \in {"connected", "unready"}, rebound \in BOOLEAN : Upsert(health, rebound)
           \/ BeginDisconnect \/ CompleteDisconnect
           \/ \E enabled \in BOOLEAN : EditDefinition(enabled)
           \/ Bind
           \/ \E r \in Runs : CreateRun(r) \/ \E s \in {"running", "over"} : MoveRun(r, s)
    PROVE  IInv'
<1>1. Agreed'
  BY DEF IInv, Agreed
<1>2. ASSUME NEW health \in {"connected", "unready"}, NEW rebound \in BOOLEAN,
             Upsert(health, rebound)
      PROVE  TypeOK'
  BY <1>2 DEF Upsert, IInv, TypeOK
<1>3. ASSUME BeginDisconnect
      PROVE  TypeOK'
  BY <1>3 DEF BeginDisconnect, IInv, TypeOK
<1>4. ASSUME CompleteDisconnect
      PROVE  TypeOK'
  BY <1>4 DEF CompleteDisconnect, IInv, TypeOK
<1>5. ASSUME NEW enabled \in BOOLEAN, EditDefinition(enabled)
      PROVE  TypeOK'
  BY <1>5, ReadAssumption DEF EditDefinition, IInv, TypeOK
<1>6. ASSUME Bind
      PROVE  TypeOK'
  BY <1>6 DEF Bind, IInv, TypeOK
<1>7. ASSUME NEW r \in Runs, CreateRun(r)
      PROVE  TypeOK'
  BY <1>7 DEF CreateRun, IInv, TypeOK
<1>8. ASSUME NEW r \in Runs, NEW s \in {"running", "over"}, MoveRun(r, s)
      PROVE  TypeOK'
  <2>1. run' = [run EXCEPT ![r].status = s]
        /\ UNCHANGED <<account, definition, bound, row, worker, called>>
    BY <1>8 DEF MoveRun
  <2>2. run' \in [Runs -> [status : {"none", "queued", "running", "over"},
                           revision : 0..MaxRevision]]
    BY <2>1 DEF IInv, TypeOK
  <2> QED BY <2>1, <2>2 DEF IInv, TypeOK
<1> QED BY <1>1, <1>2, <1>3, <1>4, <1>5, <1>6, <1>7, <1>8 DEF IInv

\* The conditions under which a step of the queue keeps the types.
LEMMA TypeKept ==
    ASSUME TypeOK, UNCHANGED sources,
           row' \in [Reads -> Row],
           \A r \in Reads : row'[r].lease # "none" <=> row'[r].phase \in Claimable,
           worker'.step \in Steps, worker'.batch \subseteq Reads,
           worker'.read \in Reads \cup {None}, called' \in [Reads -> Nat]
    PROVE  TypeOK'
BY DEF TypeOK, sources, Claimable

LEMMA WithoutWorker ==
    ASSUME IInv, NEW r \in Reads, r = worker.read \/ worker.read = None
    PROVE  /\ Without(r).step \in {"idle", "batch"}
           /\ Without(r).step = "idle" => Without(r) = Idle
           /\ Without(r).read = None
           /\ Without(r).batch = worker.batch \ {r}
           /\ Without(r).batch \subseteq Reads
           /\ \A q \in Without(r).batch : q # r /\ row[q].phase = "claimed"
<1>1. CASE worker.batch \ {r} = {}
  BY <1>1 DEF Without, Idle
<1>2. CASE worker.batch \ {r} # {}
  <2>1. /\ Without(r).step = "batch" /\ Without(r).read = None
        /\ Without(r).batch = worker.batch \ {r}
    BY <1>2 DEF Without, IInv, TypeOK
  <2>2. \A q \in worker.batch \ {r} : q # r /\ row[q].phase = "claimed"
    BY ReadAssumption DEF IInv, TypeOK, Agreed
  <2> QED BY <2>1, <2>2 DEF IInv, TypeOK
<1> QED BY <1>1, <1>2

-----------------------------------------------------------------------------
(* One lemma per step of the queue: it keeps the invariant, and it is a step *)
(* of ReadPromise or changes nothing there.                                  *)

\* A step of ReadPromise that gives up or applies reads.
LEMMA Settling ==
    ASSUME TypeOK, TypeOK', UNCHANGED sources, called' = called, \A r \in Reads : Frozen(r),
           NEW A \in SUBSET Reads, NEW S \in SUBSET Reads,
           \A r \in A : Stage[r] = "kept" /\ Authority(r) /\ Stage'[r] = "applied",
           \A r \in S \ A : Stage'[r] = "stopped",
           \A r \in S : Stage[r] \in {"waiting", "begun", "kept"},
           \A r \in Reads \ (A \cup S) : Stage'[r] = Stage[r]
    PROVE  Promise!Next
<1>1. Valid' = Valid
  BY ValidKept
<1>2. \A r \in A : row[r].phase # "none"
  BY StageIs
<1>3. \A r \in A : r \in Valid
  BY <1>2 DEF Valid
<1>4. Stage' = [r \in Reads |-> IF r \in A THEN "applied"
                               ELSE IF r \in S THEN "stopped" ELSE Stage[r]]
  <2>1. Stage' = [r \in Reads |-> Stage'[r]]
    BY DEF Stage
  <2>2. \A r \in Reads : Stage'[r] = IF r \in A THEN "applied"
                                    ELSE IF r \in S THEN "stopped" ELSE Stage[r]
    OBVIOUS
  <2> QED BY <2>1, <2>2
<1>5. Promise!Settle(A, S)
  BY <1>1, <1>3, <1>4 DEF Promise!Settle
<1> QED BY <1>5 DEF Promise!Next

LEMMA GivingUp ==
    ASSUME TypeOK, TypeOK', UNCHANGED sources, called' = called, \A r \in Reads : Frozen(r),
           NEW S \in SUBSET Reads,
           \A r \in S : Stage[r] \in {"waiting", "begun", "kept"} /\ Stage'[r] = "stopped",
           \A r \in Reads \ S : Stage'[r] = Stage[r]
    PROVE  Promise!Next
<1> DEFINE A == {}
<1>1. /\ A \in SUBSET Reads
      /\ \A r \in A : Stage[r] = "kept" /\ Authority(r) /\ Stage'[r] = "applied"
      /\ S \ A = S /\ A \cup S = S
  OBVIOUS
<1> HIDE DEF A
<1> QED BY <1>1, Settling

LEMMA SubmitStep ==
    ASSUME IInv, NEW r \in Reads, Submit(r)
    PROVE  IInv' /\ Promise!Next
<1> DEFINE x == [phase |-> "pending", lease |-> "none", generation |-> account.generation,
                 revision |-> Revision(r)]
<1>1. /\ x \in Row /\ x.phase = "pending" /\ x.lease = "none"
      /\ x.generation = account.generation /\ x.revision = Revision(r)
  BY ReadAssumption DEF IInv, TypeOK, Row, Phases, Revision
<1>2. /\ row' = [row EXCEPT ![r] = x] /\ UNCHANGED <<sources, worker, called>>
      /\ row[r].phase = "none" /\ MaySubmit(r)
  BY DEF Submit
<1>3. /\ row' \in [Reads -> Row] /\ row'[r] = x
      /\ \A q \in Reads \ {r} : row'[q] = row[q]
  BY <1>1, <1>2 DEF IInv, TypeOK
<1>4. TypeOK'
  BY <1>1, <1>2, <1>3, TypeKept DEF IInv, TypeOK, Claimable
<1>5. Agreed'
  BY <1>1, <1>2, <1>3 DEF IInv, Agreed, TypeOK
<1>6. /\ \A q \in Reads : (MaySubmit(q))' = MaySubmit(q)
      /\ \A q \in Reads \ {r} : (Authority(q))' = Authority(q)
      /\ (Authority(r))' = MaySubmit(r)
  BY <1>1, <1>2, <1>3 DEF sources, MaySubmit, Authority, SourceHolds, Revision
<1>7. Valid' = Valid /\ r \in Valid
  BY <1>1, <1>2, <1>3, <1>6 DEF Valid
<1>8. Stage' = [Stage EXCEPT ![r] = "waiting"] /\ Stage[r] = "none"
  <2>1. Stage[r] = "none" /\ Stage'[r] = "waiting"
    BY <1>1, <1>2, <1>3, <1>4, StageIs, StageIsNext DEF IInv
  <2>2. \A q \in Reads \ {r} : Stage'[q] = Stage[q]
    BY <1>3 DEF Stage
  <2>3. Stage = [q \in Reads |-> Stage[q]] /\ Stage' = [q \in Reads |-> Stage'[q]]
    BY DEF Stage
  <2> QED BY <2>1, <2>2, <2>3
<1>9. Promise!Submit(r)
  BY <1>2, <1>7, <1>8 DEF Promise!Submit
<1> QED BY <1>4, <1>5, <1>9 DEF IInv, Promise!Next

LEMMA RecoverStep ==
    ASSUME IInv, NEW S \in SUBSET Kept, row' = RowsSettled(S), called' = called,
           UNCHANGED sources,
           worker' = [worker EXCEPT !.step = "claiming"] \/ worker' = Idle,
           worker.step = "idle"
    PROVE  IInv' /\ Promise!Next
<1> DEFINE A == {r \in S : Authority(r)}
<1>1. S \subseteq Reads /\ \A r \in S : row[r].phase = "result_persisted"
  BY DEF Kept
<1>2. \A r \in Reads : row'[r] = IF r \in S THEN Settled(r) ELSE row[r]
  BY DEF RowsSettled
<1>3. row' \in [Reads -> Row]
  BY <1>2, SettledRow DEF RowsSettled, IInv, TypeOK
<1>4. worker = Idle /\ worker'.step \in Steps /\ worker'.step \in {"idle", "claiming"}
      /\ worker'.batch = {} /\ worker'.read = None /\ (worker'.step = "idle" => worker' = Idle)
  BY DEF IInv, Agreed, Idle, Steps
<1>5. \A r \in S : row'[r].phase \notin Claimable \cup {"none", "pending", "claimed"}
  BY <1>1, <1>2, SettledRow DEF IInv, Claimable
<1>6. TypeOK'
  <2>1. \A r \in Reads : row[r].lease # "none" <=> row[r].phase \in Claimable
    BY DEF IInv, TypeOK, Claimable
  <2>2. \A r \in S : row'[r].lease = "none"
    BY <1>1, <1>2, SettledRow DEF IInv
  <2>3. \A r \in Reads : row'[r].lease # "none" <=> row'[r].phase \in Claimable
    BY <1>2, <1>5, <2>1, <2>2
  <2>4. TypeOK /\ worker'.batch \subseteq Reads /\ worker'.read \in Reads \cup {None}
        /\ called' \in [Reads -> Nat]
    BY <1>4 DEF IInv, TypeOK
  <2> QED BY <1>3, <1>4, <2>3, <2>4, TypeKept
<1>7. Agreed'
  BY <1>2, <1>4, <1>5 DEF IInv, Agreed
<1>8. \A r \in Reads : Frozen(r)
  BY <1>1, <1>2, <1>5, SettledRow DEF Frozen, IInv
<1>9. \A r \in S : row'[r].phase = IF r \in A THEN "applied" ELSE "authority_lost"
  BY <1>1, <1>2, SettledRow DEF IInv
<1>10. \A r \in S : Stage[r] = "kept" /\ Stage'[r] = IF r \in A THEN "applied" ELSE "stopped"
  BY <1>1, <1>6, <1>9, StageIs, StageIsNext DEF IInv
<1>11. \A r \in Reads \ S : Stage'[r] = Stage[r]
  BY <1>2 DEF Stage
<1>12. Promise!Next
  BY <1>1, <1>6, <1>8, <1>10, <1>11, Settling DEF IInv
<1> QED BY <1>6, <1>7, <1>12 DEF IInv

LEMMA ClaimStep ==
    ASSUME IInv, Claim
    PROVE  IInv' /\ Promise!Next
<1>1. PICK S \in SUBSET {r \in Reads : Due(r)} :
        LET taken == {r \in S : Authority(r)} IN
        /\ row' = [r \in Reads |->
                     IF r \in taken THEN [row[r] EXCEPT !.phase = "claimed", !.lease = "held"]
                     ELSE IF r \in S THEN Moved(row[r], "repair_required") ELSE row[r]]
        /\ worker' = IF taken = {} THEN Idle
                     ELSE [step |-> "batch", batch |-> taken, seen |-> account, read |-> None]
  BY DEF Claim
<1> DEFINE T == {r \in S : Authority(r)}
<1>2. UNCHANGED <<sources, called>>
  BY DEF Claim
<1>3. /\ S \subseteq Reads
      /\ \A r \in S : row[r].phase \in {"pending", "claimed"} /\ Due(r)
  BY DEF Due
<1>4. ASSUME NEW r \in T
      PROVE  /\ row'[r] \in Row /\ row'[r].phase = "claimed" /\ row'[r].lease = "held"
             /\ row'[r].generation = row[r].generation
             /\ row'[r].revision = row[r].revision
  <2>1. row[r] \in Row /\ row'[r] = [row[r] EXCEPT !.phase = "claimed", !.lease = "held"]
    BY <1>1, <1>3 DEF IInv, TypeOK
  <2> QED BY <2>1 DEF Row, Phases
<1>5. ASSUME NEW r \in S \ T
      PROVE  /\ row'[r] \in Row /\ row'[r].phase = "repair_required"
             /\ row'[r].lease = "none"
             /\ row'[r].generation = row[r].generation
             /\ row'[r].revision = row[r].revision
  <2>1. row[r] \in Row /\ row'[r] = Moved(row[r], "repair_required")
    BY <1>1, <1>3 DEF IInv, TypeOK
  <2>2. "repair_required" \in Phases \ Claimable
    BY DEF Phases, Claimable
  <2> QED BY <2>1, <2>2, MovedRow
<1>6. \A r \in Reads \ S : row'[r] = row[r]
  BY <1>1
<1>7. /\ row' \in [Reads -> Row]
      /\ \A r \in Reads : row'[r].lease # "none" <=> row'[r].phase \in Claimable
  <2>1. \A r \in Reads : row'[r] \in Row
    <3>1. \A r \in Reads : row[r] \in Row
      BY DEF IInv, TypeOK
    <3> QED BY <1>4, <1>5, <1>6, <3>1
  <2>2. \A r \in Reads : row'[r].lease # "none" <=> row'[r].phase \in Claimable
    BY <1>4, <1>5, <1>6 DEF IInv, TypeOK, Claimable
  <2> QED BY <1>1, <2>1, <2>2
<1>8. /\ worker'.step \in {"idle", "batch"} /\ (worker'.step = "idle" => worker' = Idle)
      /\ worker'.batch = T /\ worker'.read = None
  BY <1>1 DEF Idle
<1>9. TypeOK'
  BY <1>2, <1>3, <1>7, <1>8, TypeKept DEF IInv, TypeOK, Steps
<1>10. Agreed'
  BY <1>2, <1>3, <1>4, <1>5, <1>6, <1>8 DEF IInv, Agreed
<1>11. \A r \in Reads : Frozen(r)
  BY <1>3, <1>4, <1>5, <1>6 DEF Frozen
<1>12. \A r \in S \ T : Stage[r] = "waiting" /\ Stage'[r] = "stopped"
  BY <1>3, <1>5, <1>9, StageIs, StageIsNext DEF IInv
<1>13. \A r \in Reads \ (S \ T) : Stage'[r] = Stage[r]
  <2>1. \A r \in T : Stage[r] = "waiting" /\ Stage'[r] = "waiting"
    BY <1>3, <1>4, <1>9, StageIs, StageIsNext DEF IInv
  <2>2. \A r \in Reads \ S : Stage'[r] = Stage[r]
    BY <1>6 DEF Stage
  <2> QED BY <2>1, <2>2
<1>14. Promise!Next
  BY <1>2, <1>3, <1>9, <1>11, <1>12, <1>13, GivingUp DEF IInv
<1> QED BY <1>9, <1>10, <1>14 DEF IInv

LEMMA OneMoved ==
    ASSUME TypeOK, NEW r \in Reads, NEW p \in Phases \ (Claimable \cup {"none"}),
           row[r].phase # "none", row' = [row EXCEPT ![r] = Moved(@, p)]
    PROVE  /\ row' \in [Reads -> Row]
           /\ \A q \in Reads : row'[q].lease # "none" <=> row'[q].phase \in Claimable
           /\ \A q \in Reads : Frozen(q)
           /\ row'[r].phase = p
           /\ \A q \in Reads \ {r} : row'[q] = row[q]
           /\ \A q \in Reads \ {r} : Stage'[q] = Stage[q]
<1>1. row[r] \in Row /\ row'[r] = Moved(row[r], p)
      /\ \A q \in Reads \ {r} : row'[q] = row[q]
  BY DEF TypeOK
<1>2. /\ row'[r] \in Row /\ row'[r].phase = p /\ row'[r].lease = "none"
      /\ row'[r].generation = row[r].generation /\ row'[r].revision = row[r].revision
  BY <1>1, MovedRow
<1>3. row' \in [Reads -> Row]
  BY <1>2 DEF TypeOK
<1>4. \A q \in Reads : row'[q].lease # "none" <=> row'[q].phase \in Claimable
  BY <1>1, <1>2 DEF TypeOK, Claimable
<1>5. \A q \in Reads : Frozen(q)
  BY <1>1, <1>2 DEF Frozen
<1>6. \A q \in Reads \ {r} : Stage'[q] = Stage[q]
  BY <1>1 DEF Stage
<1> QED BY <1>1, <1>2, <1>3, <1>4, <1>5, <1>6

\* The worker is done with r: what it does to the row gives r up.
LEMMA DoneStep ==
    ASSUME IInv, NEW r \in Reads, r = worker.read \/ worker.read = None,
           row[r].phase \in {"claimed", "remote_call_started", "result_persisted"},
           NEW p \in {"authority_lost", "repair_required"},
           row' = [row EXCEPT ![r] = Moved(@, p)], worker' = Without(r),
           UNCHANGED sources, called' = called
    PROVE  IInv' /\ Promise!Next
<1>1. p \in Phases \ (Claimable \cup {"none"}) /\ row[r].phase # "none"
  BY DEF Phases, Claimable
<1>2. /\ row' \in [Reads -> Row]
      /\ \A q \in Reads : row'[q].lease # "none" <=> row'[q].phase \in Claimable
      /\ \A q \in Reads : Frozen(q)
      /\ row'[r].phase = p
      /\ \A q \in Reads \ {r} : row'[q] = row[q] /\ Stage'[q] = Stage[q]
  BY <1>1, OneMoved DEF IInv
<1>3. /\ worker'.step \in {"idle", "batch"}
      /\ worker'.step = "idle" => worker' = Idle
      /\ worker'.read = None
      /\ worker'.batch \subseteq Reads
      /\ \A q \in worker'.batch : q # r /\ row[q].phase = "claimed"
  BY WithoutWorker
<1>4. TypeOK'
  BY <1>2, <1>3, TypeKept DEF IInv, TypeOK, Steps
<1>5. Agreed'
  BY <1>2, <1>3 DEF IInv, Agreed
<1>6. Stage[r] \in {"waiting", "begun", "kept"} /\ Stage'[r] = "stopped"
  BY <1>2, <1>4, StageIs, StageIsNext DEF IInv
<1>7. Promise!Next
  <2> DEFINE S == {r}
  <2>1. /\ S \in SUBSET Reads
        /\ \A q \in S : Stage[q] \in {"waiting", "begun", "kept"} /\ Stage'[q] = "stopped"
        /\ \A q \in Reads \ S : Stage'[q] = Stage[q]
    BY <1>2, <1>6
  <2> HIDE DEF S
  <2> QED BY <1>2, <1>4, <2>1, GivingUp DEF IInv
<1> QED BY <1>4, <1>5, <1>7 DEF IInv

LEMMA PersistStep ==
    ASSUME IInv, Persist
    PROVE  IInv' /\ Promise!Next
<1> DEFINE r == worker.read
<1>1. r \in Reads /\ row[r].phase = "remote_call_started" /\ called[r] = 1
  BY DEF Persist, IInv, Agreed
<1>2. UNCHANGED sources /\ called' = called
  BY DEF Persist
<1>3. CASE AuthorityAsClaimed(r)
  <2>1. /\ row' = [row EXCEPT ![r] = Moved(@, "result_persisted")]
        /\ worker' = [worker EXCEPT !.step = "applying"]
    BY <1>3 DEF Persist
  <2>2. /\ row' \in [Reads -> Row]
        /\ \A q \in Reads : row'[q].lease # "none" <=> row'[q].phase \in Claimable
        /\ \A q \in Reads : Frozen(q)
        /\ row'[r].phase = "result_persisted"
        /\ \A q \in Reads \ {r} : row'[q] = row[q] /\ Stage'[q] = Stage[q]
    <3>1. "result_persisted" \in Phases \ (Claimable \cup {"none"}) /\ row[r].phase # "none"
      BY <1>1 DEF Phases, Claimable
    <3> QED BY <1>1, <2>1, <3>1, OneMoved DEF IInv
  <2>3. /\ worker'.step = "applying" /\ worker'.batch = worker.batch /\ worker'.read = r
    BY <2>1, <1>1 DEF IInv, Agreed, Idle, Persist
  <2>4. TypeOK'
    BY <1>2, <2>2, <2>3, TypeKept DEF IInv, TypeOK, Steps
  <2>5. Agreed'
    <3>1. \A q \in Reads : row'[q].phase \in {"none", "pending", "claimed"} => called'[q] = 0
      BY <1>1, <1>2, <2>2 DEF IInv, Agreed
    <3>2. \A q \in worker'.batch \ {r} : row'[q].phase = "claimed"
      BY <2>2, <2>3 DEF IInv, Agreed, TypeOK
    <3> HIDE DEF r
    <3> QED BY <1>1, <2>2, <2>3, <3>1, <3>2 DEF Agreed
  <2>6. Stage[r] = "begun" /\ Stage'[r] = "kept"
    BY <1>1, <2>2, <2>4, StageIs, StageIsNext DEF IInv
  <2>7. Stage' = [Stage EXCEPT ![r] = "kept"]
    <3>1. Stage = [q \in Reads |-> Stage[q]] /\ Stage' = [q \in Reads |-> Stage'[q]]
      BY DEF Stage
    <3> QED BY <2>2, <2>6, <3>1
  <2>8. Valid' = Valid /\ r \in Valid
    BY <1>1, <1>2, <1>3, <2>2, ValidKept DEF Valid, AuthorityAsClaimed
  <2>9. Promise!Keep(r)
    BY <1>1, <1>2, <2>6, <2>7, <2>8 DEF Promise!Keep
  <2> QED BY <1>1, <2>4, <2>5, <2>9 DEF IInv, Promise!Next
<1>4. CASE ~AuthorityAsClaimed(r)
  <2>1. row' = [row EXCEPT ![r] = Moved(@, "authority_lost")] /\ worker' = Without(r)
    BY <1>4 DEF Persist
  <2> QED BY <1>1, <1>2, <2>1, DoneStep
<1> QED BY <1>3, <1>4

LEMMA FailStep ==
    ASSUME IInv, Fail
    PROVE  IInv' /\ Promise!Next
<1> DEFINE r == worker.read
           p == IF AuthorityAsClaimed(r) THEN "repair_required" ELSE "authority_lost"
<1>1. r \in Reads /\ row[r].phase = "remote_call_started"
  BY DEF Fail, IInv, Agreed
<1>2. /\ UNCHANGED sources /\ called' = called /\ p \in {"authority_lost", "repair_required"}
      /\ row' = [row EXCEPT ![r] = Moved(@, p)] /\ worker' = Without(r)
  BY DEF Fail
<1> HIDE DEF p
<1> QED BY <1>1, <1>2, DoneStep

LEMMA StopUnavailableStep ==
    ASSUME IInv, NEW r \in Reads, StopUnavailable(r)
    PROVE  IInv' /\ Promise!Next
<1>1. worker.read = None /\ row[r].phase = "claimed"
  BY ReadAssumption DEF StopUnavailable, IInv, Agreed
<1>2. /\ UNCHANGED sources /\ called' = called
      /\ row' = [row EXCEPT ![r] = Moved(@, "repair_required")] /\ worker' = Without(r)
  BY DEF StopUnavailable
<1> QED BY <1>1, <1>2, DoneStep

\* A step that drops a read of the batch and touches no row.
LEMMA DropStep ==
    ASSUME IInv, UNCHANGED <<sources, row, called>>, NEW r \in Reads,
           r = worker.read \/ worker.read = None, worker' = Without(r)
    PROVE  IInv' /\ UNCHANGED <<Stage, called, Valid>>
<1>1. /\ worker'.step \in {"idle", "batch"}
      /\ worker'.step = "idle" => worker' = Idle
      /\ worker'.read = None
      /\ worker'.batch \subseteq Reads
      /\ \A q \in worker'.batch : row[q].phase = "claimed"
  BY WithoutWorker
<1>2. TypeOK'
  BY <1>1 DEF IInv, TypeOK, sources, Steps
<1>3. Agreed'
  BY <1>1 DEF IInv, Agreed
<1>4. Stage' = Stage /\ Valid' = Valid
  BY ValidKept DEF Stage, Frozen
<1> QED BY <1>2, <1>3, <1>4 DEF IInv

LEMMA MarkStep ==
    ASSUME IInv, NEW r \in Reads, Mark(r)
    PROVE  IInv' /\ Promise!Next
<1>1. /\ worker.step = "batch" /\ r \in worker.batch /\ AuthorityAsClaimed(r)
      /\ row' = [row EXCEPT ![r].phase = "remote_call_started"]
      /\ worker' = [worker EXCEPT !.step = "calling", !.read = r]
      /\ UNCHANGED <<sources, called>>
  BY DEF Mark, MayStart
<1>2. worker.read = None /\ row[r].phase = "claimed" /\ called[r] = 0
  BY <1>1, ReadAssumption DEF IInv, Agreed
<1>3. row[r] \in Row /\ row'[r] = [row[r] EXCEPT !.phase = "remote_call_started"]
      /\ \A q \in Reads \ {r} : row'[q] = row[q]
  BY <1>1 DEF IInv, TypeOK
<1>4. /\ row'[r] \in Row /\ row'[r].phase = "remote_call_started"
      /\ row'[r].lease = row[r].lease
      /\ row'[r].generation = row[r].generation /\ row'[r].revision = row[r].revision
  BY <1>3 DEF Row, Phases
<1>5. row' \in [Reads -> Row]
  BY <1>1, <1>4 DEF IInv, TypeOK
<1>6. worker'.step = "calling" /\ worker'.read = r /\ worker'.batch = worker.batch
  BY <1>1 DEF IInv, TypeOK
<1>7. TypeOK'
  <2>1. \A q \in Reads : row'[q].lease # "none" <=> row'[q].phase \in Claimable
    <3>1. \A q \in Reads : row[q].lease # "none" <=> row[q].phase \in Claimable
      BY DEF IInv, TypeOK, Claimable
    <3>2. {"claimed", "remote_call_started"} = Claimable
      BY DEF Claimable
    <3> QED BY <1>2, <1>3, <1>4, <3>1, <3>2
  <2> QED BY <1>1, <1>5, <1>6, <2>1, TypeKept DEF IInv, TypeOK, Steps
<1>8. Agreed'
  <2>1. \A q \in Reads : row'[q].phase \in {"none", "pending", "claimed"} => called'[q] = 0
    BY <1>1, <1>3, <1>4 DEF IInv, Agreed
  <2>2. \A q \in worker'.batch \ {r} : row'[q].phase = "claimed"
    BY <1>2, <1>3, <1>6, ReadAssumption DEF IInv, Agreed, TypeOK
  <2> QED BY <1>1, <1>2, <1>4, <1>6, <2>1, <2>2 DEF Agreed
<1>9. \A q \in Reads : Frozen(q)
  BY <1>2, <1>3, <1>4 DEF Frozen
<1>10. Stage' = [Stage EXCEPT ![r] = "begun"] /\ Stage[r] = "waiting"
  <2>1. Stage[r] = "waiting" /\ Stage'[r] = "begun"
    BY <1>2, <1>4, <1>7, StageIs, StageIsNext DEF IInv
  <2>2. \A q \in Reads \ {r} : Stage'[q] = Stage[q]
    BY <1>3 DEF Stage
  <2>3. Stage = [q \in Reads |-> Stage[q]] /\ Stage' = [q \in Reads |-> Stage'[q]]
    BY DEF Stage
  <2> QED BY <2>1, <2>2, <2>3
<1>11. Valid' = Valid /\ r \in Valid
  BY <1>1, <1>2, <1>9, ValidKept DEF Valid, AuthorityAsClaimed
<1>12. Promise!Begin(r)
  BY <1>1, <1>10, <1>11 DEF Promise!Begin
<1> QED BY <1>7, <1>8, <1>12 DEF IInv, Promise!Next

LEMMA CallStep ==
    ASSUME IInv, Call
    PROVE  IInv' /\ Promise!Next
<1> DEFINE r == worker.read
<1>1. r \in Reads /\ row[r].phase = "remote_call_started" /\ called[r] = 0
  BY DEF Call, IInv, Agreed
<1>2. /\ called' = [called EXCEPT ![r] = 1] /\ UNCHANGED <<sources, row>>
      /\ worker' = [worker EXCEPT !.step = "answered"]
  BY <1>1 DEF Call
<1>3. worker'.step = "answered" /\ worker'.read = r /\ worker'.batch = worker.batch
  BY <1>2 DEF IInv, Agreed, Idle, Call
<1>4. TypeOK'
  BY <1>1, <1>2, <1>3 DEF IInv, TypeOK, sources, Steps
<1>5. called'[r] = 1 /\ \A q \in Reads \ {r} : called'[q] = called[q]
  BY <1>1, <1>2 DEF IInv, TypeOK
<1>6. Agreed'
  <2>1. \A q \in Reads : row'[q].phase \in {"none", "pending", "claimed"} => called'[q] = 0
    BY <1>1, <1>2, <1>5 DEF IInv, Agreed
  <2>2. \A q \in worker'.batch \ {r} : row'[q].phase = "claimed"
    BY <1>2, <1>3 DEF IInv, Agreed
  <2> HIDE DEF r
  <2> QED BY <1>1, <1>2, <1>3, <1>5, <2>1, <2>2 DEF Agreed
<1>7. Stage' = Stage /\ Valid' = Valid
  BY <1>2, ValidKept DEF Stage, Frozen
<1>8. Stage[r] = "begun"
  BY <1>1, StageIs DEF IInv
<1>9. Promise!Call(r)
  BY <1>1, <1>2, <1>7, <1>8 DEF Promise!Call
<1> QED BY <1>1, <1>4, <1>6, <1>9 DEF IInv, Promise!Next

LEMMA ApplyStep ==
    ASSUME IInv, Apply
    PROVE  IInv' /\ Promise!Next
<1> DEFINE r == worker.read
           A == IF Authority(r) THEN {r} ELSE {}
           S == {r}
<1>1. r \in Reads /\ row[r].phase = "result_persisted"
  BY DEF Apply, IInv, Agreed
<1>2. /\ UNCHANGED sources /\ called' = called /\ worker' = Without(r)
      /\ row' = RowsSettled({r})
  BY DEF Apply
<1>3. /\ worker'.step \in {"idle", "batch"}
      /\ worker'.step = "idle" => worker' = Idle
      /\ worker'.read = None
      /\ worker'.batch \subseteq Reads
      /\ \A q \in worker'.batch : q # r /\ row[q].phase = "claimed"
  BY <1>1, <1>2, WithoutWorker
<1>4. row'[r] = Settled(r) /\ \A q \in Reads \ {r} : row'[q] = row[q]
  BY <1>1, <1>2 DEF RowsSettled
<1>5. /\ row'[r] \in Row /\ row'[r].lease = "none"
      /\ row'[r].phase = IF Authority(r) THEN "applied" ELSE "authority_lost"
      /\ row'[r].generation = row[r].generation /\ row'[r].revision = row[r].revision
  BY <1>1, <1>4, SettledRow DEF IInv
<1>6. row' \in [Reads -> Row]
  BY <1>2, <1>4, <1>5 DEF RowsSettled, IInv, TypeOK
<1>7. TypeOK'
  <2>1. \A q \in Reads : row'[q].lease # "none" <=> row'[q].phase \in Claimable
    BY <1>4, <1>5 DEF IInv, TypeOK, Claimable
  <2> QED BY <1>2, <1>3, <1>6, <2>1, TypeKept DEF IInv, TypeOK, Steps
<1>8. Agreed'
  BY <1>2, <1>3, <1>4, <1>5 DEF IInv, Agreed
<1>9. \A q \in Reads : Frozen(q)
  BY <1>1, <1>4, <1>5 DEF Frozen
<1>10. Stage[r] = "kept" /\ Stage'[r] = IF Authority(r) THEN "applied" ELSE "stopped"
  BY <1>1, <1>5, <1>7, StageIs, StageIsNext DEF IInv
<1>11. \A q \in Reads \ {r} : Stage'[q] = Stage[q]
  BY <1>4 DEF Stage
<1>12. Promise!Next
  <2>1. /\ A \in SUBSET Reads /\ S \in SUBSET Reads /\ A \cup S = {r}
        /\ \A q \in A : Stage[q] = "kept" /\ Authority(q) /\ Stage'[q] = "applied"
        /\ \A q \in S \ A : Stage'[q] = "stopped"
        /\ \A q \in S : Stage[q] \in {"waiting", "begun", "kept"}
    BY <1>1, <1>10
  <2> HIDE DEF A, S
  <2> QED BY <1>2, <1>7, <1>9, <1>11, <2>1, Settling DEF IInv
<1> QED BY <1>7, <1>8, <1>12 DEF IInv

LEMMA LeaseStep ==
    ASSUME IInv, NEW r \in Reads, LeaseRunsOut(r)
    PROVE  IInv' /\ UNCHANGED <<Stage, called, Valid>>
<1>1. /\ row[r].lease = "held" /\ row' = [row EXCEPT ![r].lease = "expired"]
      /\ UNCHANGED <<sources, worker, called>>
  BY DEF LeaseRunsOut
<1>2. row[r] \in Row /\ row'[r] = [row[r] EXCEPT !.lease = "expired"]
      /\ \A q \in Reads \ {r} : row'[q] = row[q]
  BY <1>1 DEF IInv, TypeOK
<1>3. /\ row'[r] \in Row /\ row'[r].phase = row[r].phase /\ row'[r].lease = "expired"
      /\ row'[r].generation = row[r].generation /\ row'[r].revision = row[r].revision
  BY <1>2 DEF Row
<1>4. row' \in [Reads -> Row] /\ \A q \in Reads : row'[q].phase = row[q].phase
  BY <1>1, <1>2, <1>3 DEF IInv, TypeOK
<1>5. TypeOK'
  <2>1. \A q \in Reads : row'[q].lease # "none" <=> row'[q].phase \in Claimable
    BY <1>1, <1>2, <1>3 DEF IInv, TypeOK, Claimable
  <2> QED BY <1>1, <1>4, <2>1, TypeKept DEF IInv, TypeOK
<1>6. Agreed'
  <2>1. \A q \in worker.batch : row'[q].phase = row[q].phase
    BY <1>4 DEF IInv, TypeOK
  <2> QED BY <1>1, <1>4, <2>1 DEF IInv, Agreed
<1>7. \A q \in Reads : Frozen(q)
  BY <1>2, <1>3 DEF Frozen
<1>8. Valid' = Valid /\ Stage' = Stage
  BY <1>1, <1>4, <1>7, ValidKept DEF Stage
<1> QED BY <1>1, <1>5, <1>6, <1>8 DEF IInv

LEMMA RestartStep ==
    ASSUME IInv, Restart
    PROVE  IInv' /\ Promise!Next
<1>1. PICK S \in SUBSET Kept :
        \/ row' = RowsSettled(S)
        \/ row' = [r \in Reads |-> Reset(RowsSettled(S)[r])]
  BY DEF Restart
<1>2. worker' = Idle /\ UNCHANGED <<sources, called>>
  BY DEF Restart
<1>3. S \subseteq Reads /\ \A r \in S : row[r].phase = "result_persisted"
  BY DEF Kept
<1> DEFINE A == {r \in S : Authority(r)}
           Left(r) == row'[r] = row[r] \/ row'[r] = Reset(row[r])
           G == {r \in Reads \ S : Stage'[r] # Stage[r]}
<1>4. ASSUME NEW r \in S
      PROVE  row'[r] = Settled(r)
  <2>1. RowsSettled(S)[r] = Settled(r) /\ Settled(r) \in Row
        /\ Settled(r).phase \notin Claimable
    BY <1>3, SettledRow DEF RowsSettled, IInv, Claimable
  <2> QED BY <1>1, <1>3, <2>1 DEF Reset, Claimable
<1>5. ASSUME NEW r \in Reads \ S
      PROVE  Left(r)
  BY <1>1 DEF RowsSettled
<1>6. ASSUME NEW r \in S
      PROVE  /\ row'[r] \in Row /\ row'[r].lease = "none"
             /\ row'[r].phase = IF r \in A THEN "applied" ELSE "authority_lost"
             /\ Frozen(r)
  BY <1>3, <1>4, SettledRow DEF IInv, Frozen
<1>7. ASSUME NEW r \in Reads \ S
      PROVE  /\ row'[r] \in Row
             /\ row'[r].lease # "none" <=> row'[r].phase \in Claimable
             /\ Frozen(r)
             /\ \/ row'[r].phase = row[r].phase
                \/ row[r].phase = "claimed" /\ row'[r].phase = "pending"
                \/ /\ row[r].phase = "remote_call_started"
                   /\ row'[r].phase = "reconciliation_required"
  <2>1. row[r] \in Row /\ (row[r].lease # "none" <=> row[r].phase \in Claimable)
    BY DEF IInv, TypeOK, Claimable
  <2>2. CASE row'[r] = row[r]
    BY <2>1, <2>2 DEF Frozen
  <2>3. CASE row'[r] = Reset(row[r])
    BY <2>1, <2>3, ResetRow DEF Frozen, Claimable
  <2> QED BY <1>5, <2>2, <2>3
<1> HIDE DEF Left
<1>8. row' \in [Reads -> Row]
  <2>1. \A r \in Reads : row'[r] \in Row
    BY <1>6, <1>7
  <2> QED BY <1>1, <2>1 DEF RowsSettled
<1>9. TypeOK'
  <2>1. \A r \in Reads : row'[r].lease # "none" <=> row'[r].phase \in Claimable
    BY <1>6, <1>7 DEF Claimable
  <2> QED BY <1>2, <1>8, <2>1, TypeKept DEF IInv, TypeOK, Idle, Steps
<1>10. Agreed'
  <2>1. \A r \in Reads : row'[r].phase \in {"none", "pending", "claimed"} => called'[r] = 0
    BY <1>2, <1>6, <1>7 DEF IInv, Agreed
  <2> QED BY <1>2, <2>1 DEF Agreed, Idle
<1>11. \A r \in S : Stage[r] = "kept" /\ Stage'[r] = IF r \in A THEN "applied" ELSE "stopped"
  BY <1>3, <1>6, <1>9, StageIs, StageIsNext DEF IInv
<1>12. \A r \in G : Stage[r] = "begun" /\ Stage'[r] = "stopped"
  <2>1. ASSUME NEW r \in Reads \ S, Stage'[r] # Stage[r]
        PROVE  Stage[r] = "begun" /\ Stage'[r] = "stopped"
    <3>1. row'[r].phase # row[r].phase
      BY <2>1 DEF Stage
    <3> QED BY <1>7, <1>9, <2>1, <3>1, StageIs, StageIsNext DEF IInv
  <2> QED BY <2>1
<1>13. Promise!Next
  <2> DEFINE U == S \cup G
  <2>1. /\ A \in SUBSET Reads /\ U \in SUBSET Reads
        /\ \A r \in A : Stage[r] = "kept" /\ Authority(r) /\ Stage'[r] = "applied"
        /\ \A r \in U \ A : Stage'[r] = "stopped"
        /\ \A r \in U : Stage[r] \in {"waiting", "begun", "kept"}
        /\ \A r \in Reads \ (A \cup U) : Stage'[r] = Stage[r]
    BY <1>3, <1>11, <1>12
  <2>2. \A r \in Reads : Frozen(r)
    BY <1>6, <1>7
  <2> HIDE DEF A, U, G
  <2> QED BY <1>2, <1>9, <2>1, <2>2, Settling DEF IInv
<1> QED BY <1>9, <1>10, <1>13 DEF IInv

-----------------------------------------------------------------------------
(* The theorems *)

\* Steps of the queue, each of which keeps the invariant and refines.
QueueStep ==
    \/ \E r \in Reads : Submit(r) \/ LeaseRunsOut(r) \/ StopUnavailable(r) \/ Mark(r) \/ LoseClaim(r)
    \/ Recover \/ Claim \/ Call \/ Persist \/ RefuseResult \/ Fail \/ Apply
    \/ Restart

LEMMA QueueSteps ==
    ASSUME IInv, QueueStep
    PROVE  IInv' /\ (Promise!Next \/ UNCHANGED <<Stage, called, Valid>>)
<1>1. ASSUME NEW r \in Reads, Submit(r)
      PROVE  IInv' /\ Promise!Next
  BY <1>1, SubmitStep
<1>2. ASSUME NEW r \in Reads, LeaseRunsOut(r)
      PROVE  IInv' /\ UNCHANGED <<Stage, called, Valid>>
  BY <1>2, LeaseStep
<1>3. ASSUME NEW r \in Reads, StopUnavailable(r)
      PROVE  IInv' /\ Promise!Next
  BY <1>3, StopUnavailableStep
<1>4. ASSUME NEW r \in Reads, Mark(r)
      PROVE  IInv' /\ Promise!Next
  BY <1>4, MarkStep
<1>5. ASSUME NEW r \in Reads, LoseClaim(r)
      PROVE  IInv' /\ UNCHANGED <<Stage, called, Valid>>
  <2>1. worker.read = None /\ worker' = Without(r) /\ UNCHANGED <<sources, row, called>>
    BY <1>5 DEF LoseClaim, IInv, Agreed
  <2> QED BY <2>1, DropStep
<1>6. ASSUME Recover
      PROVE  IInv' /\ Promise!Next
  <2>1. PICK S \in SUBSET Kept : row' = RowsSettled(S)
    BY <1>6 DEF Recover
  <2>2. /\ UNCHANGED sources /\ called' = called /\ worker.step = "idle"
        /\ worker' = [worker EXCEPT !.step = "claiming"]
    BY <1>6 DEF Recover
  <2> QED BY <2>1, <2>2, RecoverStep
<1>7. ASSUME RefuseResult
      PROVE  IInv' /\ UNCHANGED <<Stage, called, Valid>>
  <2>1. worker.read \in Reads /\ worker' = Without(worker.read)
        /\ UNCHANGED <<sources, row, called>>
    BY <1>7 DEF RefuseResult, IInv, Agreed
  <2> QED BY <2>1, DropStep
<1> QED BY <1>1, <1>2, <1>3, <1>4, <1>5, <1>6, <1>7, ClaimStep, CallStep, PersistStep,
           FailStep, ApplyStep, RestartStep DEF QueueStep

SourcesStep ==
    \/ \E health \in {"connected", "unready"}, rebound \in BOOLEAN : Upsert(health, rebound)
    \/ BeginDisconnect \/ CompleteDisconnect
    \/ \E enabled \in BOOLEAN : EditDefinition(enabled)
    \/ Bind
    \/ \E r \in Runs : CreateRun(r) \/ \E s \in {"running", "over"} : MoveRun(r, s)

LEMMA SourcesSteps ==
    ASSUME IInv, SourcesStep
    PROVE  IInv' /\ Promise!AuthorityChanges
<1>1. UNCHANGED <<row, worker, called>>
  BY DEF SourcesStep, Upsert, BeginDisconnect, CompleteDisconnect, EditDefinition, Bind,
         CreateRun, MoveRun
<1>2. Stage' = Stage /\ Valid' \subseteq Reads
  BY <1>1 DEF Stage, Valid
<1>3. Promise!AuthorityChanges
  BY <1>1, <1>2 DEF Promise!AuthorityChanges
<1> QED BY <1>1, <1>3, SourceStep DEF SourcesStep

LEMMA NextSplits == Next => QueueStep \/ SourcesStep
BY DEF Next, QueueStep, SourcesStep

LEMMA EveryStep ==
    ASSUME IInv, [Next]_vars
    PROVE  IInv' /\ (Promise!Next \/ UNCHANGED <<Stage, called, Valid>>)
<1>1. CASE Next
  BY <1>1, NextSplits, QueueSteps, SourcesSteps DEF Promise!Next
<1>2. CASE UNCHANGED vars
  <2>1. IInv'
    BY <1>2 DEF vars, sources, IInv, TypeOK, Agreed
  <2>2. Stage' = Stage /\ Valid' = Valid
    BY <1>2, ValidKept DEF vars, sources, Stage, Frozen
  <2> QED BY <1>2, <2>1, <2>2 DEF vars
<1> QED BY <1>1, <1>2

LEMMA Invariance == Spec => []IInv
<1>1. Init => IInv
  BY InitInv
<1>2. IInv /\ [Next]_vars => IInv'
  BY EveryStep
<1> QED BY <1>1, <1>2, PTL DEF Spec

\* The types of every state of the queue, claims included.
THEOREM TypeCorrect == Spec => []TypeOK
<1>1. IInv => TypeOK
  BY DEF IInv
<1> QED BY <1>1, Invariance, PTL

\* However its leases, restarts, disconnects and edits fall, the queue keeps
\* the promise of ReadPromise about every read.
THEOREM QueueKeepsPromise == Spec => PromiseKept
<1>1. Init => Promise!Init
  <2>1. ASSUME Init
        PROVE  Stage = [r \in Reads |-> "none"] /\ Valid \in SUBSET Reads
               /\ called = [r \in Reads |-> 0]
    BY <2>1 DEF Init, Stage, StageOf, Valid
  <2> QED BY <2>1 DEF Promise!Init
<1>2. IInv /\ [Next]_vars => [Promise!Next]_(Promise!vars)
  BY EveryStep DEF Promise!vars
<1> QED BY <1>1, <1>2, Invariance, PTL DEF Spec, Promise!Spec, PromiseKept
=============================================================================
