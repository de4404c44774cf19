-------------------------- MODULE ExpertTeamProofs --------------------------
(***************************************************************************)
(* Theorems about ExpertTeam, for every team, retry policy, budget and     *)
(* number of workers.                                                      *)
(***************************************************************************)
EXTENDS ExpertTeam, TLAPS

-----------------------------------------------------------------------------
(* Every append, and the sweep, keeps a ledger a ledger. *)

\* The appends of EventStore produce ledgers.
LEMMA AppendsTyped ==
    ASSUME NEW W, NEW l \in Ledgers(W)
    PROVE  /\ StartRun(l) \in Ledgers(W)
           /\ \A w \in W : AppendClaim(l, w) \in Ledgers(W)
           /\ AppendQueue(l) \in Ledgers(W)
           /\ \A s \in TerminalStatus : AppendFinish(l, s) \in Ledgers(W)
           /\ AppendCancel(l) \in Ledgers(W)
           /\ ExpireLease(l) \in Ledgers(W)
           /\ \A s \in TransitionStatus : AppendTransition(l, s) \in Ledgers(W)
<1> USE DEF Ledgers
<1>1. StartRun(l) \in Ledgers(W)
  BY DEF StartRun
<1>2. ASSUME NEW w \in W PROVE AppendClaim(l, w) \in Ledgers(W)
  BY DEF AppendClaim
<1>3. AppendQueue(l) \in Ledgers(W)
  BY DEF AppendQueue
<1>4. ASSUME NEW s \in TerminalStatus PROVE AppendFinish(l, s) \in Ledgers(W)
  BY DEF AppendFinish
<1>5. AppendCancel(l) \in Ledgers(W)
  BY DEF AppendCancel
<1>6. ExpireLease(l) \in Ledgers(W)
  BY DEF ExpireLease
<1>7. ASSUME NEW s \in TransitionStatus PROVE AppendTransition(l, s) \in Ledgers(W)
  <2>1. s # "none"
    BY DEF TransitionStatus, WaitingStatus
  <2>2. [l EXCEPT !.latest = "transition", !.trans = s] \in Ledgers(W)
    BY <2>1
  <2> QED BY <2>2 DEF AppendTransition
<1> QED BY <1>1, <1>2, <1>3, <1>4, <1>5, <1>6, <1>7

\* The sweep of recover_expired_agent_runs does too.
LEMMA RecoveredTyped ==
    ASSUME NEW W, NEW l \in Ledgers(W), NEW b
    PROVE  Recovered(l, b) \in Ledgers(W)
  BY AppendsTyped DEF Recovered, TerminalStatus, TransitionStatus

-----------------------------------------------------------------------------
(* What the events leave alone. *)

\* Only a start event starts a run; only a transition changes the newest
\* transition, and only a cancel request is a cancel request.
LEMMA AppendsFrame ==
    ASSUME NEW W, NEW l \in Ledgers(W), NEW w, NEW s, NEW b
    PROVE  /\ AppendClaim(l, w).started = l.started
           /\ AppendClaim(l, w).trans = l.trans
           /\ AppendFinish(l, s).started = l.started
           /\ AppendFinish(l, s).trans = l.trans
           /\ AppendCancel(l).started = l.started
           /\ AppendCancel(l).trans = l.trans
           /\ ExpireLease(l).started = l.started
           /\ ExpireLease(l).trans = l.trans
           /\ StartRun(l).started
           /\ StartRun(l).trans = l.trans
           /\ AppendTransition(l, s).started = l.started
           /\ AppendTransition(l, s).trans \in {l.trans, s}
           /\ Recovered(l, b).started = l.started
           /\ Recovered(l, b).trans \in {l.trans, "blocked"}
<1> USE DEF Ledgers
<1>1. /\ AppendClaim(l, w).started = l.started
      /\ AppendClaim(l, w).trans = l.trans
  BY DEF AppendClaim
<1>2. \A t : AppendFinish(l, t).started = l.started /\ AppendFinish(l, t).trans = l.trans
  BY DEF AppendFinish
<1>3. /\ AppendCancel(l).started = l.started /\ AppendCancel(l).trans = l.trans
      /\ ExpireLease(l).started = l.started /\ ExpireLease(l).trans = l.trans
  BY DEF AppendCancel, ExpireLease
<1>4. StartRun(l).started /\ StartRun(l).trans = l.trans
  BY DEF StartRun
<1>5. \A t : /\ AppendTransition(l, t).started = l.started
            /\ AppendTransition(l, t).trans \in {l.trans, t}
  BY DEF AppendTransition
<1>6. AppendQueue(l).started = l.started /\ AppendQueue(l).trans = l.trans
  BY DEF AppendQueue
<1>7. /\ Recovered(l, b).started = l.started
      /\ Recovered(l, b).trans \in {l.trans, "blocked"}
  BY <1>2, <1>5, <1>6 DEF Recovered
<1> QED BY <1>1, <1>2, <1>3, <1>4, <1>5, <1>7

-----------------------------------------------------------------------------
(* Attempts. *)

\* An attempt is an expert and a number within its retry policy, and is not
\* the parent.
LEMMA AttemptsAre ==
    /\ \A k \in Experts, n \in Nat : <<k, n>> \in Attempts <=> n \in 1..MaxAttempts[k]
    /\ \A a \in Attempts : /\ a = <<a[1], a[2]>> /\ a[1] \in Experts /\ a[2] \in Nat
                           /\ a[2] \in 1..MaxAttempts[a[1]]
    /\ Parent \notin Attempts
<1>1. Attempts \subseteq Experts \X Nat
  BY ExpertTeamAssumption DEF Attempts
<1> QED BY <1>1, ExpertTeamAssumption DEF Attempts

\* An expert has one newest attempt at most.
LEMMA LatestUnique ==
    ASSUME NEW a \in Latest, NEW b \in Latest, a[1] = b[1]
    PROVE  a = b
<1>1. a \in Attempts /\ b \in Attempts
  BY DEF Latest, Children
<1>2. a[2] <= b[2] /\ b[2] <= a[2]
  BY DEF Latest
<1> QED BY <1>1, <1>2, AttemptsAre

-----------------------------------------------------------------------------
(* Type correctness.  Only an expert's worker holds an expert's outcome: a    *)
(* parent's response is never built into a result.                            *)

Coherent == \A w \in Workers : worker[w].out = "result" => worker[w].run # Parent

TypeInv == TypeOK /\ Coherent

\* A swept table of ledgers is one.
LEMMA SweptTyped ==
    ASSUME TypeOK
    PROVE  Swept \in [TeamRuns -> Ledgers(Workers)]
  BY RecoveredTyped DEF Swept, TypeOK

LEMMA TypeInit == Init => TypeInv
<1> SUFFICES ASSUME Init PROVE TypeInv
  OBVIOUS
<1>1. NoLedger \in Ledgers(Workers)
  BY DEF NoLedger, Ledgers
<1>2. ledger \in [TeamRuns -> Ledgers(Workers)]
  BY <1>1, AppendsTyped DEF Init
<1>3. {} \in Contents
  BY DEF Contents
<1>4. NoResult \in Results
  BY <1>3 DEF NoResult, Results
<1>5. IdleWorker \in WorkerStates
  BY <1>4 DEF IdleWorker, WorkerStates, TeamRuns
<1>6. worker \in [Workers -> WorkerStates] /\ Coherent
      /\ \A w \in Workers : worker[w].pc = "idle"
  BY <1>5 DEF Init, Coherent, IdleWorker
<1> QED BY <1>2, <1>3, <1>4, <1>6 DEF Init, TypeInv, TypeOK, NoReceipt, IdleTick

\* What a worker's step does to the workers: only w changes, to a state of
\* the right type.
WorkerTyped(v) ==
    /\ v \in WorkerStates
    /\ v.out = "result" => v.run # Parent
    /\ v.pc \in {"prompt", "build", "record"} => v.run # Parent

LEMMA OneWorkerTyped ==
    ASSUME TypeInv, NEW w \in Workers, NEW v, WorkerTyped(v), worker' = [worker EXCEPT ![w] = v]
    PROVE  /\ worker' \in [Workers -> WorkerStates] /\ Coherent'
           /\ \A u \in Workers :
                worker'[u].pc \in {"prompt", "build", "record"} => worker'[u].run # Parent
  BY DEF TypeInv, TypeOK, Coherent, WorkerTyped

LEMMA IdleWorkerTyped == WorkerTyped(IdleWorker)
<1>1. {} \in Contents
  BY DEF Contents
<1> QED BY <1>1 DEF WorkerTyped, IdleWorker, WorkerStates, TeamRuns, NoResult, Results

\* Only the ledger's type is left to show when nothing else is written.
LEMMA OnlyLedgerTyped ==
    ASSUME TypeInv, ledger' \in [TeamRuns -> Ledgers(Workers)],
           UNCHANGED <<teamVars, worker, lost, tick>>
    PROVE  TypeInv'
  BY DEF TypeInv, TypeOK, Coherent, teamVars

\* One appended event keeps the table a table.
LEMMA OneLedgerTyped ==
    ASSUME TypeInv, NEW r \in TeamRuns, NEW l \in Ledgers(Workers),
           ledger' = [ledger EXCEPT ![r] = l]
    PROVE  ledger' \in [TeamRuns -> Ledgers(Workers)]
  BY DEF TypeInv, TypeOK

\* A worker's operation keeps the types.
LEMMA WorkerTypeStep ==
    ASSUME TypeInv, NEW w \in Workers, WorkerStep(w)
    PROVE  TypeInv'
<1> DEFINE r == worker[w].run
<1>0. /\ worker[w] \in WorkerStates /\ r \in TeamRuns
      /\ r # Parent => r \in Attempts
      /\ worker[w].pc \in {"prompt", "build", "record"} => r # Parent
      /\ worker[w].out = "result" => r # Parent
      /\ ledger[r] \in Ledgers(Workers)
  BY DEF TypeInv, TypeOK, Coherent, WorkerStates, TeamRuns
<1>1. CASE ReadPrompt(w)
  <2>1. PICK v : worker' = [worker EXCEPT ![w] = v]
                 /\ v \in {IdleWorker, [worker[w] EXCEPT !.pc = "model"]}
    BY <1>1 DEF ReadPrompt
  <2>2. WorkerTyped(v)
    BY <1>0, <2>1, IdleWorkerTyped DEF WorkerTyped, WorkerStates
  <2>3. UNCHANGED <<ledger, teamVars, lost, tick>>
    BY <1>1 DEF ReadPrompt
  <2> QED BY <2>1, <2>2, <2>3, OneWorkerTyped DEF TypeInv, TypeOK, teamVars
<1>2. CASE Heartbeat(w)
  <2>1. AppendClaim(ledger[r], w) \in Ledgers(Workers)
    BY <1>0, AppendsTyped
  <2>2. ledger' = [ledger EXCEPT ![r] = AppendClaim(ledger[r], w)]
    BY <1>2 DEF Heartbeat
  <2> QED BY <1>0, <1>2, <2>1, <2>2, OneLedgerTyped, OnlyLedgerTyped DEF Heartbeat
<1>3. CASE StartTool(w)
  <2>1. AppendTransition(ledger[r], "running") \in Ledgers(Workers)
    BY <1>0, AppendsTyped DEF TransitionStatus
  <2>2. ledger' = [ledger EXCEPT ![r] = AppendTransition(ledger[r], "running")]
    BY <1>3 DEF StartTool
  <2>3. worker' = [worker EXCEPT ![w] = [worker[w] EXCEPT !.pc = "tool"]]
    BY <1>3 DEF StartTool, TypeInv, TypeOK
  <2>4. WorkerTyped([worker[w] EXCEPT !.pc = "tool"])
    BY <1>0 DEF WorkerTyped, WorkerStates
  <2> QED BY <1>0, <1>3, <2>1, <2>2, <2>3, <2>4, OneLedgerTyped, OneWorkerTyped
          DEF StartTool, TypeInv, TypeOK, teamVars
<1>4. ASSUME NEW ok \in BOOLEAN, EndTool(w, ok) PROVE TypeInv'
  <2>1. \A s \in {"running", "blocked"} : AppendTransition(ledger[r], s) \in Ledgers(Workers)
    BY <1>0, AppendsTyped DEF TransitionStatus
  <2>2. ledger' = [ledger EXCEPT ![r] =
                     AppendTransition(ledger[r], IF ok THEN "running" ELSE "blocked")]
    BY <1>4 DEF EndTool
  <2>3. PICK v : /\ worker' = [worker EXCEPT ![w] = v]
                 /\ v \in {[worker[w] EXCEPT !.pc = "model", !.out = worker[w].out],
                           [worker[w] EXCEPT !.pc = "ending", !.out = "failed"]}
    <3>1. worker' = [worker EXCEPT ![w] =
             [worker[w] EXCEPT
                !.pc = IF ledger[r].cancel \/ StatusOf(ledger[r]) \notin TerminalStatus
                       THEN "model" ELSE "ending",
                !.out = IF ledger[r].cancel \/ StatusOf(ledger[r]) \notin TerminalStatus
                        THEN worker[w].out ELSE "failed"]]
      BY <1>0, <1>4 DEF EndTool, TypeInv, TypeOK
    <3> QED BY <3>1
  <2>4. WorkerTyped(v)
    BY <1>0, <2>3 DEF WorkerTyped, WorkerStates, TerminalStatus
  <2>5. ledger' \in [TeamRuns -> Ledgers(Workers)]
    BY <1>0, <2>1, <2>2, OneLedgerTyped
  <2> QED BY <1>4, <2>3, <2>4, <2>5, OneWorkerTyped DEF EndTool, TypeInv, TypeOK, teamVars
<1>5. ASSUME NEW out, Returns(w, out) PROVE TypeInv'
  <2>1. worker' = [worker EXCEPT ![w] = [worker[w] EXCEPT !.pc = "ending", !.out = out]]
    BY <1>0, <1>5 DEF Returns, TypeInv, TypeOK
  <2>2. WorkerTyped([worker[w] EXCEPT !.pc = "ending", !.out = out])
    BY <1>0, <1>5 DEF WorkerTyped, WorkerStates, Returns, TerminalStatus
  <2> QED BY <1>5, <2>1, <2>2, OneWorkerTyped DEF Returns, TypeInv, TypeOK, teamVars
<1>6. CASE ReadsCancel(w)
  <2>1. PICK v : /\ worker' = [worker EXCEPT ![w] = v]
                 /\ \E p \in {"build", "commit"},
                       out \in {worker[w].out, "completed", "blocked", "cancelled"} :
                      /\ v = [worker[w] EXCEPT !.pc = p, !.out = out]
                      /\ p = "build" => worker[w].out = "result"
    <3>1. PICK rest \in {"completed", "blocked"} :
            worker' = [worker EXCEPT ![w] = [worker[w] EXCEPT
              !.pc = IF worker[w].out = "result" /\ ~ledger[r].cancel THEN "build" ELSE "commit",
              !.out = IF worker[w].out # "failed" /\ ledger[r].cancel THEN "cancelled"
                      ELSE IF worker[w].out = "plan" /\ Children # {} THEN rest
                      ELSE worker[w].out]]
      <4>1. PICK rest \in {"completed", "blocked"} :
              worker' = [worker EXCEPT
                ![w].pc  = IF worker[w].out = "result" /\ ~ledger[r].cancel
                           THEN "build" ELSE "commit",
                ![w].out = IF worker[w].out # "failed" /\ ledger[r].cancel THEN "cancelled"
                           ELSE IF worker[w].out = "plan" /\ Children # {} THEN rest
                           ELSE worker[w].out]
        BY <1>6 DEF ReadsCancel
      <4> QED BY <1>0, <4>1
    <3> QED BY <3>1
  <2>2. WorkerTyped(v)
    BY <1>0, <2>1 DEF WorkerTyped, WorkerStates, TerminalStatus
  <2> QED BY <1>6, <2>1, <2>2, OneWorkerTyped DEF ReadsCancel, TypeInv, TypeOK, teamVars
<1>7. ASSUME NEW ok \in BOOLEAN, NEW rev \in Contents, NEW target \in Contents,
             Build(w, ok, rev, target)
      PROVE  TypeInv'
  <2> DEFINE res == [known |-> TRUE, passed |-> ok, rev |-> rev, target |-> target]
  <2>0. r # Parent
    BY <1>0, <1>7 DEF Build
  <2>1. worker' = [worker EXCEPT ![w] = [worker[w] EXCEPT !.pc = "record", !.res = res]]
    BY <1>0, <1>7 DEF Build, TypeInv, TypeOK
  <2>2. WorkerTyped([worker[w] EXCEPT !.pc = "record", !.res = res])
    <3>1. res \in Results
      BY DEF Results
    <3> QED BY <1>0, <2>0, <3>1 DEF WorkerTyped, WorkerStates
  <2>3. staged' \in [Attempts -> Contents]
    BY <1>0, <1>7, <2>0 DEF Build, TypeInv, TypeOK
  <2> QED BY <1>7, <2>1, <2>2, <2>3, OneWorkerTyped DEF Build, TypeInv, TypeOK
<1>8. CASE RecordResult(w)
  <2>0. r # Parent /\ worker[w].res \in Results /\ NoResult \in Results
    <3>1. {} \in Contents
      BY DEF Contents
    <3> QED BY <1>0, <1>8, <3>1 DEF RecordResult, WorkerStates, NoResult, Results
  <2>1. PICK v : /\ worker' = [worker EXCEPT ![w] = v]
                 /\ \/ v = IdleWorker
                    \/ \E out \in {"completed", "failed"} :
                         v = [worker[w] EXCEPT !.pc = "commit", !.res = NoResult, !.out = out]
    <3>1. CASE result[r].known
      BY <1>8, <3>1 DEF RecordResult
    <3>2. CASE ~result[r].known
      <4>1. worker' = [worker EXCEPT ![w] =
              [worker[w] EXCEPT !.pc = "commit", !.res = NoResult,
                 !.out = IF worker[w].res.passed THEN "completed" ELSE "failed"]]
        BY <1>0, <1>8, <3>2 DEF RecordResult, TypeInv, TypeOK
      <4> QED BY <4>1
    <3> QED BY <3>1, <3>2
  <2>2. WorkerTyped(v)
    BY <1>0, <2>0, <2>1, IdleWorkerTyped DEF WorkerTyped, WorkerStates, TerminalStatus
  <2>3. result' \in [Attempts -> Results]
    BY <1>0, <1>8, <2>0 DEF RecordResult, TypeInv, TypeOK
  <2> QED BY <1>8, <2>1, <2>2, <2>3, OneWorkerTyped DEF RecordResult, TypeInv, TypeOK
<1>9. CASE PlanTeam(w)
  <2>1. CASE StatusOf(ledger[Parent]) \in {"queued", "running"} /\ Children = {}
    <3>1. ledger' \in [TeamRuns -> Ledgers(Workers)]
      <4>1. \A q \in TeamRuns : ledger[q] \in Ledgers(Workers)
                                /\ StartRun(ledger[q]) \in Ledgers(Workers)
        BY AppendsTyped DEF TypeInv, TypeOK
      <4> QED BY <1>9, <2>1, <4>1 DEF PlanTeam
    <3>2. teams' \in Nat
      BY <1>9, <2>1 DEF PlanTeam, TypeInv, TypeOK
    <3>3. worker' = [worker EXCEPT ![w] = [worker[w] EXCEPT !.out = "blocked"]]
      BY <1>0, <1>9, <2>1 DEF PlanTeam, TypeInv, TypeOK
    <3>4. WorkerTyped([worker[w] EXCEPT !.out = "blocked"])
      BY <1>0 DEF WorkerTyped, WorkerStates
    <3> QED BY <1>9, <3>1, <3>2, <3>3, <3>4, OneWorkerTyped DEF PlanTeam, TypeInv, TypeOK
  <2>2. CASE ~(StatusOf(ledger[Parent]) \in {"queued", "running"} /\ Children = {})
    <3>1. worker' = [worker EXCEPT ![w] = IdleWorker] /\ UNCHANGED <<ledger, teams>>
      BY <1>9, <2>2 DEF PlanTeam
    <3> QED BY <1>9, <3>1, IdleWorkerTyped, OneWorkerTyped DEF PlanTeam, TypeInv, TypeOK
  <2> QED BY <2>1, <2>2
<1>10. CASE Commit(w)
  <2>1. ledger' \in [TeamRuns -> Ledgers(Workers)]
    <3>1. CASE worker[w].out \in TerminalStatus
               /\ ledger' = [ledger EXCEPT ![r] = AppendFinish(ledger[r], worker[w].out)]
      BY <1>0, <3>1, AppendsTyped, OneLedgerTyped
    <3>2. CASE ledger' = [ledger EXCEPT ![r] = AppendTransition(ledger[r], "blocked")]
      <4>1. AppendTransition(ledger[r], "blocked") \in Ledgers(Workers)
        BY <1>0, AppendsTyped DEF TransitionStatus
      <4> QED BY <1>0, <3>2, <4>1, OneLedgerTyped
    <3> QED BY <1>10, <3>1, <3>2 DEF Commit
  <2> QED BY <1>10, <2>1, IdleWorkerTyped, OneWorkerTyped DEF Commit, TypeInv, TypeOK, teamVars
<1> QED BY <1>1, <1>2, <1>3, <1>4, <1>5, <1>6, <1>7, <1>8, <1>9, <1>10 DEF WorkerStep

\* The desktop's tick keeps the types.
LEMMA TickTypeStep ==
    ASSUME TypeInv, TickReads \/ TickRetries \/ TickMerges
    PROVE  TypeInv'
<1>0. /\ ledger \in [TeamRuns -> Ledgers(Workers)] /\ Parent \in TeamRuns
      /\ \A r \in TeamRuns : ledger[r] \in Ledgers(Workers)
  BY DEF TypeInv, TypeOK, TeamRuns
<1>1. CASE TickReads
  BY <1>1 DEF TickReads, TypeInv, TypeOK, Coherent, teamVars
<1>2. CASE TickRetries
  <2>1. \A r \in TeamRuns : /\ StartRun(ledger[r]) \in Ledgers(Workers)
                            /\ AppendTransition(ledger[r], "blocked") \in Ledgers(Workers)
    BY <1>0, AppendsTyped DEF TransitionStatus
  <2>2. ledger' \in [TeamRuns -> Ledgers(Workers)]
    BY <1>0, <1>2, <2>1 DEF TickRetries
  <2>3. tick' \in [pc : {"idle", "retry", "merge"}, synthesize : BOOLEAN]
    BY <1>2 DEF TickRetries, TypeInv, TypeOK, IdleTick
  <2> QED BY <1>2, <2>2, <2>3 DEF TickRetries, TypeInv, TypeOK, Coherent, teamVars
<1>3. CASE TickMerges
  <2>1. tick' \in [pc : {"idle", "retry", "merge"}, synthesize : BOOLEAN]
    BY <1>3 DEF TickMerges, IdleTick
  <2>2. ledger' \in [TeamRuns -> Ledgers(Workers)]
    <3>1. AppendTransition(ledger[Parent], "queued") \in Ledgers(Workers)
      BY <1>0, AppendsTyped DEF TransitionStatus
    <3> QED BY <1>0, <1>3, <3>1 DEF TickMerges
  <2>3. Merged \in [known : BOOLEAN, production : SUBSET Attempts, rev : Contents,
                    review : SUBSET Attempts]
    <3>1. CASE receipt.known \/ LatestOf(Production) = {}
      BY <3>1 DEF Merged, TypeInv, TypeOK
    <3>2. CASE ~(receipt.known \/ LatestOf(Production) = {})
      <4>1. PICK p : p \in LatestOf(Production)
        BY <3>2
      <4>2. LatestOf(Production) = {p} /\ p \in Attempts
        BY <4>1, LatestUnique DEF LatestOf, Latest, Children
      <4>3. UNION {result[q].rev : q \in LatestOf(Production)} = result[p].rev
        BY <4>2
      <4>4. result[p].rev \in Contents
        BY <4>2 DEF TypeInv, TypeOK, Results
      <4>5. LatestOf(Production) \subseteq Attempts /\ LatestOf(Review) \subseteq Attempts
        BY DEF LatestOf, Latest, Children
      <4> QED BY <3>2, <4>3, <4>4, <4>5 DEF Merged
    <3> QED BY <3>1, <3>2
  <2> QED BY <1>3, <2>1, <2>2, <2>3 DEF TickMerges, TypeInv, TypeOK, Coherent
<1> QED BY <1>1, <1>2, <1>3

\* Every step keeps the types.
LEMMA TypeStep == TypeInv /\ [Next]_vars => TypeInv'
<1> SUFFICES ASSUME TypeInv, [Next]_vars PROVE TypeInv'
  OBVIOUS
<1>0. /\ ledger \in [TeamRuns -> Ledgers(Workers)] /\ Parent \in TeamRuns
      /\ \A r \in TeamRuns : ledger[r] \in Ledgers(Workers)
      /\ Attempts \subseteq TeamRuns
  BY DEF TypeInv, TypeOK, TeamRuns
<1>1. ASSUME NEW r \in TeamRuns, LeaseExpires(r) PROVE TypeInv'
  <2>1. ledger' \in [TeamRuns -> Ledgers(Workers)]
    BY <1>0, <1>1, AppendsTyped DEF LeaseExpires
  <2> QED BY <1>1, <2>1, OnlyLedgerTyped DEF LeaseExpires
<1>2. ASSUME NEW r \in TeamRuns, NEW w \in Workers, Claim(w, r) PROVE TypeInv'
  <2>1. ledger' \in [TeamRuns -> Ledgers(Workers)]
    <3>1. Swept \in [TeamRuns -> Ledgers(Workers)]
      BY SweptTyped DEF TypeInv
    <3>2. AppendClaim(Swept[r], w) \in Ledgers(Workers)
      BY <3>1, AppendsTyped
    <3> QED BY <1>2, <3>1, <3>2 DEF Claim
  <2>2. WorkerTyped([IdleWorker EXCEPT !.pc = IF r = Parent THEN "model" ELSE "prompt",
                                       !.run = r])
    BY IdleWorkerTyped DEF WorkerTyped, WorkerStates, IdleWorker
  <2> QED BY <1>2, <2>1, <2>2, OneWorkerTyped DEF Claim, TypeInv, TypeOK, teamVars
<1>3. CASE CancelTree
  <2>1. \A r \in TeamRuns : AppendCancel(ledger[r]) \in Ledgers(Workers)
    BY <1>0, AppendsTyped
  <2>2. ledger' \in [TeamRuns -> Ledgers(Workers)]
    BY <1>0, <1>3, <2>1 DEF CancelTree
  <2> QED BY <1>3, <2>2, OnlyLedgerTyped DEF CancelTree
<1>4. ASSUME NEW a \in Attempts, CancelChild(a) PROVE TypeInv'
  <2>1. ledger' \in [TeamRuns -> Ledgers(Workers)]
    BY <1>0, <1>4, AppendsTyped DEF CancelChild
  <2> QED BY <1>4, <2>1, OnlyLedgerTyped DEF CancelChild
<1>5. CASE SweepOnly
  <2>1. ledger' \in [TeamRuns -> Ledgers(Workers)]
    BY <1>5, SweptTyped DEF SweepOnly, TypeInv
  <2> QED BY <1>5, <2>1, OnlyLedgerTyped DEF SweepOnly
<1>6. CASE Crash
  <2>1. \A w \in Workers : worker'[w] = IdleWorker
    BY <1>6 DEF Crash
  <2>2. worker' \in [Workers -> WorkerStates] /\ Coherent'
    BY <1>6, <2>1, IdleWorkerTyped DEF Crash, WorkerTyped, Coherent, IdleWorker
  <2>3. lost' \subseteq TeamRuns
    BY <1>6 DEF Crash, TypeInv, TypeOK, WorkerStates
  <2> QED BY <1>6, <2>1, <2>2, <2>3 DEF Crash, IdleTick, IdleWorker, TypeInv, TypeOK, teamVars
<1>7. CASE UNCHANGED vars
  BY <1>7 DEF vars, TypeInv, TypeOK, Coherent
<1> QED BY <1>1, <1>2, <1>3, <1>4, <1>5, <1>6, <1>7, WorkerTypeStep, TickTypeStep DEF Next

\* Every variable keeps its type through every handler.
THEOREM TypeCorrect == Spec => []TypeOK
<1>1. TypeInv => TypeOK
  BY DEF TypeInv
<1> QED BY TypeInit, TypeStep, <1>1, PTL DEF Spec

-----------------------------------------------------------------------------
(* What a step can do to the team.  Only a plan and a retry start an attempt, *)
(* only a merge queues the parent, and a recorded result is for ever.         *)

Kept ==
    /\ \A a \in Attempts : ledger'[a].started = ledger[a].started
    /\ ledger'[Parent].trans = "queued" => ledger[Parent].trans = "queued"
    /\ UNCHANGED <<teams, receipt>>

\* One appended event that is neither a start nor a queued transition.
LEMMA OneEventKept ==
    ASSUME TypeInv, NEW r \in TeamRuns, NEW l,
           ledger' = [ledger EXCEPT ![r] = l],
           l.started = ledger[r].started,
           l.trans = "queued" => ledger[r].trans = "queued",
           UNCHANGED <<teams, receipt>>
    PROVE  Kept
  BY DEF Kept, TypeInv, TypeOK, TeamRuns

LEMMA WorkerSteps ==
    ASSUME TypeInv, NEW w \in Workers, WorkerStep(w)
    PROVE  Kept \/ PlanTeam(w)
<1> DEFINE r == worker[w].run
<1>0. r \in TeamRuns /\ ledger[r] \in Ledgers(Workers)
  BY DEF TypeInv, TypeOK, WorkerStates
<1>1. CASE Heartbeat(w)
  <2>1. ledger' = [ledger EXCEPT ![r] = AppendClaim(ledger[r], w)]
    BY <1>1 DEF Heartbeat
  <2>2. /\ AppendClaim(ledger[r], w).started = ledger[r].started
        /\ AppendClaim(ledger[r], w).trans = ledger[r].trans
    BY <1>0, AppendsFrame
  <2> QED BY <1>0, <1>1, <2>1, <2>2, OneEventKept DEF Heartbeat, teamVars
<1>2. ASSUME NEW s \in {"running", "blocked"},
             ledger' = [ledger EXCEPT ![r] = AppendTransition(ledger[r], s)],
             UNCHANGED teamVars
      PROVE  Kept
  <2>1. /\ AppendTransition(ledger[r], s).started = ledger[r].started
        /\ AppendTransition(ledger[r], s).trans \in {ledger[r].trans, s}
    BY <1>0, AppendsFrame
  <2> QED BY <1>0, <1>2, <2>1, OneEventKept DEF teamVars
<1>3. CASE StartTool(w)
  <2>1. ledger' = [ledger EXCEPT ![r] = AppendTransition(ledger[r], "running")]
        /\ UNCHANGED teamVars
    BY <1>3 DEF StartTool
  <2> QED BY <1>2, <2>1
<1>4. ASSUME NEW ok \in BOOLEAN, EndTool(w, ok) PROVE Kept
  <2>1. ledger' = [ledger EXCEPT ![r] =
                     AppendTransition(ledger[r], IF ok THEN "running" ELSE "blocked")]
        /\ UNCHANGED teamVars
    BY <1>4 DEF EndTool
  <2> QED BY <1>2, <2>1
<1>5. CASE Commit(w)
  <2>1. CASE ledger' = [ledger EXCEPT ![r] = AppendFinish(ledger[r], worker[w].out)]
    <3>1. /\ AppendFinish(ledger[r], worker[w].out).started = ledger[r].started
          /\ AppendFinish(ledger[r], worker[w].out).trans = ledger[r].trans
      BY <1>0, AppendsFrame
    <3> QED BY <1>0, <1>5, <2>1, <3>1, OneEventKept DEF Commit, teamVars
  <2>2. CASE ledger' = [ledger EXCEPT ![r] = AppendTransition(ledger[r], "blocked")]
    BY <1>2, <1>5, <2>2 DEF Commit
  <2> QED BY <1>5, <2>1, <2>2 DEF Commit
<1>6. ASSUME UNCHANGED <<ledger, teams, receipt>> PROVE Kept
  BY <1>6 DEF Kept
<1>7. CASE ReadPrompt(w) \/ ReadsCancel(w) \/ \E out : Returns(w, out)
  BY <1>6, <1>7 DEF ReadPrompt, ReadsCancel, Returns, teamVars
<1>8. CASE RecordResult(w) \/ \E ok, rev, target : Build(w, ok, rev, target)
  BY <1>6, <1>8 DEF RecordResult, Build
<1> QED BY <1>1, <1>3, <1>4, <1>5, <1>7, <1>8 DEF WorkerStep

LEMMA Steps ==
    ASSUME TypeInv, [Next]_vars
    PROVE  \/ Kept
           \/ \E w \in Workers : PlanTeam(w)
           \/ TickRetries
           \/ TickMerges
<1>0. /\ Parent \in TeamRuns /\ Attempts \subseteq TeamRuns
      /\ \A r \in TeamRuns : ledger[r] \in Ledgers(Workers)
  BY DEF TypeInv, TypeOK, TeamRuns
<1>1. ASSUME NEW r \in TeamRuns, LeaseExpires(r) PROVE Kept
  <2>1. ledger' = [ledger EXCEPT ![r] = ExpireLease(ledger[r])]
    BY <1>1 DEF LeaseExpires
  <2>2. /\ ExpireLease(ledger[r]).started = ledger[r].started
        /\ ExpireLease(ledger[r]).trans = ledger[r].trans
    BY <1>0, AppendsFrame
  <2> QED BY <1>0, <1>1, <2>1, <2>2, OneEventKept DEF LeaseExpires, teamVars
<1>2. \A r \in TeamRuns : /\ Swept[r].started = ledger[r].started
                          /\ Swept[r].trans = "queued" => ledger[r].trans = "queued"
  BY <1>0, AppendsFrame DEF Swept
<1>3. ASSUME NEW r \in TeamRuns, NEW w \in Workers, Claim(w, r) PROVE Kept
  <2>1. Swept[r] \in Ledgers(Workers)
    BY SweptTyped DEF TypeInv
  <2>2. /\ AppendClaim(Swept[r], w).started = Swept[r].started
        /\ AppendClaim(Swept[r], w).trans = Swept[r].trans
    BY <2>1, AppendsFrame
  <2>3. ledger' = [Swept EXCEPT ![r] = AppendClaim(Swept[r], w)]
        /\ Swept \in [TeamRuns -> Ledgers(Workers)]
    BY <1>3, SweptTyped DEF Claim, TypeInv
  <2>4. \A q \in TeamRuns : /\ ledger'[q].started = Swept[q].started
                            /\ ledger'[q].trans = Swept[q].trans
    BY <2>2, <2>3
  <2> QED BY <1>0, <1>2, <1>3, <2>4 DEF Claim, Kept, teamVars
<1>4. CASE CancelTree
  <2>1. \A q \in TeamRuns : /\ ledger'[q].started = ledger[q].started
                            /\ ledger'[q].trans = ledger[q].trans
    BY <1>0, <1>4, AppendsFrame DEF CancelTree
  <2> QED BY <1>0, <1>4, <2>1 DEF CancelTree, Kept, teamVars
<1>5. ASSUME NEW a \in Attempts, CancelChild(a) PROVE Kept
  <2>1. ledger' = [ledger EXCEPT ![a] = AppendCancel(ledger[a])]
    BY <1>5 DEF CancelChild
  <2>2. /\ AppendCancel(ledger[a]).started = ledger[a].started
        /\ AppendCancel(ledger[a]).trans = ledger[a].trans
    BY <1>0, AppendsFrame
  <2> QED BY <1>0, <1>5, <2>1, <2>2, OneEventKept DEF CancelChild, teamVars
<1>6. CASE SweepOnly
  BY <1>0, <1>2, <1>6 DEF SweepOnly, Kept, teamVars
<1>7. CASE TickReads \/ Crash \/ UNCHANGED vars
  BY <1>7 DEF TickReads, Crash, vars, Kept, teamVars
<1> QED BY <1>1, <1>3, <1>4, <1>5, <1>6, <1>7, WorkerSteps DEF Next

\* append_expert_attempt_result: a result is recorded by the attempt's worker,
\* and never again.
LEMMA ResultsKept ==
    ASSUME TypeInv, [Next]_vars, NEW a \in Attempts
    PROVE  \/ result'[a] = result[a]
           \/ ~result[a].known /\ \E w \in Workers : worker[w].pc = "record" /\ worker[w].run = a
<1>1. ASSUME NEW w \in Workers, WorkerStep(w), ~RecordResult(w) PROVE UNCHANGED result
  BY <1>1 DEF WorkerStep, ReadPrompt, Heartbeat, StartTool, EndTool, Returns, ReadsCancel, Build,
              PlanTeam, Commit, teamVars
<1>2. ASSUME NEW w \in Workers, RecordResult(w)
      PROVE  \/ result'[a] = result[a]
             \/ ~result[a].known /\ worker[w].pc = "record" /\ worker[w].run = a
  BY <1>2 DEF RecordResult, TypeInv, TypeOK
<1>3. ASSUME ~\E w \in Workers : WorkerStep(w) PROVE UNCHANGED result
  BY <1>3 DEF Next, vars, LeaseExpires, Claim, CancelTree, CancelChild, SweepOnly, TickReads,
              TickRetries, TickMerges, Crash, teamVars
<1> QED BY <1>1, <1>2, <1>3

-----------------------------------------------------------------------------
(* One team.  The store's own check of the children, in the transaction that  *)
(* appends them, is what refuses a second plan.                               *)

TeamInv == teams <= 1 /\ (teams = 0 <=> Children = {})

LEMMA ChildrenKept ==
    ASSUME Kept
    PROVE  Children' = Children /\ Latest' = Latest
<1>1. Children' = Children
  BY DEF Kept, Children
<1> QED BY <1>1 DEF Latest

LEMMA MergeKeepsChildren ==
    ASSUME TypeInv, TickMerges
    PROVE  /\ Children' = Children /\ Latest' = Latest
           /\ UNCHANGED teams
<1>1. Parent \notin Attempts /\ Attempts \subseteq TeamRuns
  BY AttemptsAre DEF TeamRuns
<1>2. \A a \in Attempts : ledger'[a] = ledger[a]
  BY <1>1 DEF TickMerges, TypeInv, TypeOK
<1>3. Children' = Children
  BY <1>2 DEF Children
<1> QED BY <1>3 DEF Latest, TickMerges

\* A retry adds the next attempts of experts that may be retried.
LEMMA RetriesAdd ==
    ASSUME TypeInv, TickRetries
    PROVE  /\ UNCHANGED <<teams, result, receipt>>
           /\ Children \subseteq Children'
           /\ \A a \in Children' \ Children : \E b \in Due : a = NextAttempt(b)
           /\ ledger'[Parent].trans = "queued" => ledger[Parent].trans = "queued"
<1>0. /\ Parent \notin Attempts /\ Attempts \subseteq TeamRuns /\ Parent \in TeamRuns
      /\ Due \subseteq Attempts
  BY AttemptsAre DEF TeamRuns, Due, Failed, Latest, Children
<1>1. PICK started \in SUBSET Due :
        ledger' = [r \in TeamRuns |->
                     IF \E a \in started : NextAttempt(a) = r THEN StartRun(ledger[r])
                     ELSE IF r = Parent /\ Due = {} /\ Failed # {}
                     THEN AppendTransition(ledger[r], "blocked")
                     ELSE ledger[r]]
  BY DEF TickRetries
<1>2. ASSUME NEW a \in started PROVE NextAttempt(a) \in Attempts
  <2>1. a \in Attempts /\ a[2] < MaxAttempts[a[1]]
    BY <1>0, <1>2 DEF Due, Retryable
  <2> QED BY <2>1, AttemptsAre, ExpertTeamAssumption DEF NextAttempt
<1>3. \A a \in Attempts :
        ledger'[a].started = (ledger[a].started \/ \E b \in started : NextAttempt(b) = a)
  <2>1. \A a \in Attempts : ledger[a] \in Ledgers(Workers) /\ ledger[a].started \in BOOLEAN
    BY <1>0 DEF TypeInv, TypeOK, Ledgers
  <2>2. \A a \in Attempts : StartRun(ledger[a]).started
    BY <2>1, AppendsFrame
  <2> QED BY <1>0, <1>1, <2>1, <2>2
<1>4. ledger'[Parent].trans = "queued" => ledger[Parent].trans = "queued"
  <2>1. ledger[Parent] \in Ledgers(Workers)
    BY <1>0 DEF TypeInv, TypeOK
  <2>2. AppendTransition(ledger[Parent], "blocked").trans \in {ledger[Parent].trans, "blocked"}
    BY <2>1, AppendsFrame
  <2>3. ~\E a \in started : NextAttempt(a) = Parent
    BY <1>0, <1>2
  <2> QED BY <1>0, <1>1, <2>2, <2>3
<1>5. UNCHANGED <<teams, result, receipt>>
  BY DEF TickRetries, teamVars
<1> QED BY <1>3, <1>4, <1>5 DEF Children

\* A plan starts the first attempt of every expert, of a parent without any.
LEMMA PlanAdds ==
    ASSUME TypeInv, NEW w \in Workers, PlanTeam(w)
    PROVE  \/ Kept
           \/ /\ Children = {} /\ Children' # {}
              /\ teams' = teams + 1
              /\ ledger'[Parent].trans = ledger[Parent].trans
              /\ UNCHANGED <<result, receipt>>
<1>1. CASE ~(StatusOf(ledger[Parent]) \in {"queued", "running"} /\ Children = {})
  BY <1>1 DEF PlanTeam, Kept
<1>2. CASE StatusOf(ledger[Parent]) \in {"queued", "running"} /\ Children = {}
  <2>0. /\ Attempts \subseteq TeamRuns /\ Parent \in TeamRuns /\ Parent \notin Attempts
        /\ \A r \in TeamRuns : ledger[r] \in Ledgers(Workers)
    BY AttemptsAre DEF TeamRuns, TypeInv, TypeOK
  <2>1. ledger' = [r \in TeamRuns |->
                     IF r # Parent /\ r[2] = 1 THEN StartRun(ledger[r]) ELSE ledger[r]]
    BY <1>2 DEF PlanTeam
  <2>2. PICK k \in Experts : TRUE
    BY ExpertTeamAssumption
  <2>3. <<k, 1>> \in Attempts
    BY AttemptsAre, ExpertTeamAssumption
  <2>4. ledger'[<<k, 1>>].started
    BY <2>0, <2>1, <2>3, AppendsFrame
  <2>5. ledger'[Parent] = ledger[Parent]
    BY <2>0, <2>1
  <2> QED BY <1>2, <2>3, <2>4, <2>5 DEF PlanTeam, Children
<1> QED BY <1>1, <1>2

LEMMA TeamInit == Init => TeamInv
<1> SUFFICES ASSUME Init PROVE TeamInv
  OBVIOUS
<1>1. Parent \notin Attempts /\ Attempts \subseteq TeamRuns
  BY AttemptsAre DEF TeamRuns
<1>2. \A a \in Attempts : ~ledger[a].started
  BY <1>1 DEF Init, NoLedger
<1> QED BY <1>2 DEF Init, TeamInv, Children

LEMMA TeamStep == TypeInv /\ TeamInv /\ [Next]_vars => TeamInv'
<1> SUFFICES ASSUME TypeInv, TeamInv, [Next]_vars PROVE TeamInv'
  OBVIOUS
<1>0. teams \in Nat
  BY DEF TypeInv, TypeOK
<1>1. CASE Kept
  BY <1>1, ChildrenKept DEF TeamInv, Kept
<1>2. ASSUME NEW w \in Workers, PlanTeam(w) PROVE TeamInv'
  BY <1>0, <1>1, <1>2, PlanAdds DEF TeamInv
<1>3. CASE TickRetries
  <2>1. CASE Children = {}
    <3>1. Due = {}
      BY <2>1 DEF Due, Failed, Latest
    <3>2. Children' = {}
      BY <1>3, <2>1, <3>1, RetriesAdd
    <3> QED BY <1>3, <2>1, <3>2, RetriesAdd DEF TeamInv
  <2>2. CASE Children # {}
    BY <1>3, <2>2, RetriesAdd DEF TeamInv
  <2> QED BY <2>1, <2>2
<1>4. CASE TickMerges
  BY <1>4, MergeKeepsChildren DEF TeamInv
<1> QED BY <1>1, <1>2, <1>3, <1>4, Steps

\* A parent has one team, whatever its workers, retries and crashes do.
THEOREM OneTeamOnly == Spec => []OneTeam
<1>1. TeamInv => OneTeam
  BY DEF TeamInv, OneTeam
<1> QED BY TypeInit, TypeStep, TeamInit, TeamStep, <1>1, PTL DEF Spec

-----------------------------------------------------------------------------
(* What passed stays passed, and newest.                                      *)

LEMMA PassedKept ==
    ASSUME TypeInv, [Next]_vars, NEW a \in Attempts, Passed(a)
    PROVE  result'[a] = result[a] /\ Passed(a)'
  BY ResultsKept DEF Passed

\* An expert whose newest attempt passed is not retried.
LEMMA LatestKept ==
    ASSUME TypeInv, [Next]_vars, NEW d \in Latest, Passed(d)
    PROVE  d \in Latest' /\ Passed(d)' /\ result'[d] = result[d]
<1>0. d \in Attempts /\ d \in Children
  BY DEF Latest, Children
<1>1. Passed(d)' /\ result'[d] = result[d]
  BY <1>0, PassedKept
<1>2. CASE Kept
  BY <1>1, <1>2, ChildrenKept
<1>3. ASSUME NEW w \in Workers, PlanTeam(w) PROVE d \in Latest'
  BY <1>0, <1>2, <1>3, PlanAdds
<1>4. CASE TickMerges
  BY <1>1, <1>4, MergeKeepsChildren
<1>5. CASE TickRetries
  <2>1. d \in Children'
    BY <1>0, <1>5, RetriesAdd
  <2>2. ASSUME NEW b \in Children', b[1] = d[1] PROVE b[2] <= d[2]
    <3>1. CASE b \in Children
      BY <2>2, <3>1 DEF Latest
    <3>2. CASE b \notin Children
      <4>1. PICK c \in Due : b = NextAttempt(c)
        BY <1>5, <3>2, RetriesAdd
      <4>2. c \in Latest /\ c[1] = d[1] /\ ~Passed(c)
        BY <2>2, <4>1 DEF Due, Failed, Retryable, NextAttempt
      <4>3. c = d
        BY <4>2, LatestUnique
      <4> QED BY <4>2, <4>3
    <3> QED BY <3>1, <3>2
  <2> QED BY <1>1, <2>1, <2>2 DEF Latest
<1> QED BY <1>1, <1>2, <1>3, <1>4, <1>5, Steps

-----------------------------------------------------------------------------
(* Results are built on what passed.  The claim checks the dependencies; from *)
(* then on nothing can replace them.                                          *)

DependenciesPassed(a) == \A k \in DependsOn[a[1]] : \E d \in Latest : d[1] = k /\ Passed(d)

Executing(w, a) == worker[w].pc # "idle" /\ worker[w].run = a

BuildInv ==
    \A a \in Attempts :
        (result[a].known \/ \E w \in Workers : Executing(w, a)) => DependenciesPassed(a)

LEMMA DependenciesKept ==
    ASSUME TypeInv, [Next]_vars, NEW a \in Attempts, DependenciesPassed(a)
    PROVE  DependenciesPassed(a)'
<1> SUFFICES ASSUME NEW k \in DependsOn[a[1]]
             PROVE  \E d \in Latest' : d[1] = k /\ Passed(d)'
  BY DEF DependenciesPassed
<1>1. PICK d \in Latest : d[1] = k /\ Passed(d)
  BY DEF DependenciesPassed
<1> QED BY <1>1, LatestKept

\* A worker that has a run in the new state had it before, or has just
\* claimed it.
LEMMA WorkersKeepRuns ==
    ASSUME TypeInv, [Next]_vars, NEW w \in Workers, worker'[w].pc # "idle"
    PROVE  \/ worker[w].pc # "idle" /\ worker'[w].run = worker[w].run
           \/ \E r \in TeamRuns : Claim(w, r) /\ worker'[w].run = r
<1>0. worker \in [Workers -> WorkerStates] /\ worker[w] \in WorkerStates
  BY DEF TypeInv, TypeOK
<1>1. ASSUME NEW r \in TeamRuns, NEW u \in Workers, Claim(u, r)
      PROVE  \/ worker[w].pc # "idle" /\ worker'[w].run = worker[w].run
             \/ Claim(w, r) /\ worker'[w].run = r
  <2>1. worker' = [worker EXCEPT ![u] =
                     [IdleWorker EXCEPT !.pc = IF r = Parent THEN "model" ELSE "prompt",
                                        !.run = r]]
    BY <1>1 DEF Claim
  <2>2. CASE u = w
    BY <1>0, <1>1, <2>1, <2>2 DEF IdleWorker
  <2>3. CASE u # w
    BY <1>0, <2>1, <2>3
  <2> QED BY <2>2, <2>3
<1>2. ASSUME NEW u \in Workers, WorkerStep(u)
      PROVE  worker[w].pc # "idle" /\ worker'[w].run = worker[w].run
  <2>0. worker[u] \in WorkerStates /\ worker[u].pc # "idle"
    <3>1. worker[u].pc # "idle"
      BY <1>2 DEF WorkerStep, ReadPrompt, Heartbeat, StartTool, EndTool, Returns, ReadsCancel,
                  Build, RecordResult, PlanTeam, Commit
    <3> QED BY <1>0, <3>1
  <2> DEFINE Local == /\ \A z \in Workers \ {u} : worker'[z] = worker[z]
                      /\ worker'[u] = IdleWorker \/ worker'[u].run = worker[u].run
  <2>1. Local
    <3>1. CASE ReadPrompt(u)
      BY <1>0, <2>0, <3>1 DEF ReadPrompt, WorkerStates
    <3>2. CASE Heartbeat(u)
      BY <1>0, <2>0, <3>2 DEF Heartbeat, WorkerStates
    <3>3. CASE StartTool(u)
      BY <1>0, <2>0, <3>3 DEF StartTool, WorkerStates
    <3>4. ASSUME NEW ok \in BOOLEAN, EndTool(u, ok)
          PROVE  Local
      BY <1>0, <2>0, <3>4 DEF EndTool, WorkerStates
    <3>5. ASSUME NEW out, Returns(u, out)
          PROVE  Local
      BY <1>0, <2>0, <3>5 DEF Returns, WorkerStates
    <3>6. CASE ReadsCancel(u)
      BY <1>0, <2>0, <3>6 DEF ReadsCancel, WorkerStates
    <3>7. ASSUME NEW ok \in BOOLEAN, NEW rev, NEW target, Build(u, ok, rev, target)
          PROVE  Local
      BY <1>0, <2>0, <3>7 DEF Build, WorkerStates
    <3>8. CASE RecordResult(u)
      BY <1>0, <2>0, <3>8 DEF RecordResult, WorkerStates
    <3>9. CASE PlanTeam(u)
      BY <1>0, <2>0, <3>9 DEF PlanTeam, WorkerStates
    <3>10. CASE Commit(u)
      BY <1>0, <2>0, <3>10 DEF Commit, WorkerStates
    <3> HIDE DEF Local
    <3> QED BY <1>2, <3>1, <3>2, <3>3, <3>4, <3>5, <3>6, <3>7, <3>8, <3>9, <3>10
         DEF WorkerStep
  <2>2. CASE u # w
    BY <1>0, <2>1, <2>2
  <2>3. CASE u = w
    BY <1>0, <2>0, <2>1, <2>3 DEF IdleWorker
  <2> QED BY <2>2, <2>3
<1>3. ASSUME Crash PROVE FALSE
  BY <1>3 DEF Crash, IdleWorker
<1>4. ASSUME ~Crash, ~\E u \in Workers : WorkerStep(u), 
             ~\E r \in TeamRuns, u \in Workers : Claim(u, r)
      PROVE  worker' = worker
  BY <1>4 DEF Next, vars, LeaseExpires, CancelTree, CancelChild, SweepOnly, TickReads,
              TickRetries, TickMerges
<1> QED BY <1>1, <1>2, <1>3, <1>4

LEMMA BuildInit == Init => BuildInv
  BY DEF Init, BuildInv, Executing, NoResult, IdleWorker

LEMMA BuildStep == TypeInv /\ BuildInv /\ [Next]_vars => BuildInv'
<1> SUFFICES ASSUME TypeInv, BuildInv, [Next]_vars, NEW a \in Attempts,
                    (result[a].known)' \/ \E w \in Workers : Executing(w, a)'
             PROVE  DependenciesPassed(a)'
  BY DEF BuildInv
<1>1. DependenciesPassed(a)
  <2>1. CASE (result[a].known)'
    <3>1. CASE result'[a] = result[a]
      BY <2>1, <3>1 DEF BuildInv
    <3>2. CASE \E w \in Workers : worker[w].pc = "record" /\ worker[w].run = a
      BY <3>2 DEF BuildInv, Executing
    <3> QED BY <3>1, <3>2, ResultsKept
  <2>2. ASSUME NEW w \in Workers, Executing(w, a)' PROVE DependenciesPassed(a)
    <3>1. CASE worker[w].pc # "idle" /\ worker'[w].run = worker[w].run
      BY <2>2, <3>1 DEF BuildInv, Executing
    <3>2. ASSUME NEW r \in TeamRuns, Claim(w, r), worker'[w].run = r
          PROVE  DependenciesPassed(a)
      <4>1. r = a /\ a # Parent
        BY <2>2, <3>2, AttemptsAre DEF Executing
      <4> QED BY <3>2, <4>1 DEF Claim, Ready, DependencyPassed, DependenciesPassed
    <3> QED BY <2>2, <3>1, <3>2, WorkersKeepRuns DEF Executing
  <2> QED BY <2>1, <2>2
<1> QED BY <1>1, DependenciesKept

\* An expert's result is built on dependencies whose newest attempts passed,
\* now and for ever.
THEOREM ResultsRestOnPassed == Spec => []BuiltOnPassed
<1>1. BuildInv => BuiltOnPassed
  BY DEF BuildInv, BuiltOnPassed, DependenciesPassed
<1> QED BY TypeInit, TypeStep, BuildInit, BuildStep, <1>1, PTL DEF Spec

-----------------------------------------------------------------------------
(* The gate of the synthesis.  A team whose newest attempts all passed is      *)
(* complete: no retry is due, no plan is accepted, no result is replaced.     *)

Complete == Children # {} /\ \A a \in Latest : Passed(a)

LEMMA CompleteKept ==
    ASSUME TypeInv, [Next]_vars, Complete
    PROVE  /\ Complete' /\ Latest' = Latest
           /\ \A a \in Latest : result'[a] = result[a]
<1>1. Children' = Children /\ Latest' = Latest
  <2>1. CASE Kept
    BY <2>1, ChildrenKept
  <2>2. CASE \E w \in Workers : PlanTeam(w)
    BY <2>1, <2>2, PlanAdds DEF Complete
  <2>3. CASE TickRetries
    <3>1. Due = {}
      BY DEF Due, Failed, Retryable, Complete
    <3>2. Children' = Children
      BY <2>3, <3>1, RetriesAdd
    <3> QED BY <3>2 DEF Latest
  <2>4. CASE TickMerges
    BY <2>4, MergeKeepsChildren
  <2> QED BY <2>1, <2>2, <2>3, <2>4, Steps
<1>2. \A a \in Latest : result'[a] = result[a] /\ Passed(a)'
  BY LatestKept DEF Complete
<1> QED BY <1>1, <1>2 DEF Complete

GateInv ==
    /\ ledger[Parent].trans = "queued" => Complete
    /\ receipt.known => Complete /\ MergeExact

LEMMA GateInit == Init => GateInv
  BY DEF Init, GateInv, NoReceipt, NoLedger, StartRun, TeamRuns

\* A receipt of a complete team stays exact.
LEMMA ReceiptKept ==
    ASSUME TypeInv, [Next]_vars, Complete, MergeExact, receipt.known, receipt' = receipt
    PROVE  MergeExact'
<1>1. /\ Latest' = Latest
      /\ \A a \in Latest : result'[a] = result[a]
  BY CompleteKept
<1>2. \A k : LatestOf(k)' = LatestOf(k) /\ LatestOf(k) \subseteq Latest
  BY <1>1 DEF LatestOf
<1> QED BY <1>1, <1>2 DEF MergeExact, LatestOf, Passed

\* The merge writes an exact receipt.
LEMMA MergeIsExact ==
    ASSUME TypeInv, GateInv, TickMerges, receipt'.known
    PROVE  Complete /\ MergeExact'
<1>1. CASE receipt.known
  <2>1. Complete /\ MergeExact
    BY <1>1 DEF GateInv
  <2>2. receipt' = receipt
    BY <1>1 DEF TickMerges, Merged
  <2>3. [Next]_vars
    BY DEF Next
  <2> QED BY <1>1, <2>1, <2>2, <2>3, ReceiptKept
<1>2. CASE ~receipt.known
  <2>1. /\ Gated /\ Reviewed /\ receipt' = Merged /\ LatestOf(Production) # {}
    BY <1>2 DEF TickMerges, Merged
  <2>2. Complete
    BY <2>1 DEF Gated, Complete, Latest
  <2>3. PICK p \in LatestOf(Production), v \in LatestOf(Review) :
          staged[p] = result[p].rev /\ result[v].target = result[p].rev
    BY <2>1 DEF Reviewed
  <2>4. LatestOf(Production) = {p} /\ LatestOf(Review) = {v} /\ p \in Latest /\ v \in Latest
    BY <2>3, LatestUnique DEF LatestOf
  <2>5. UNION {result[q].rev : q \in LatestOf(Production)} = result[p].rev
    BY <2>4
  <2>6. /\ receipt'.production = {p} /\ receipt'.review = {v}
        /\ receipt'.rev = result[p].rev
    BY <1>2, <2>1, <2>4, <2>5 DEF Merged
  <2>7. Latest' = Latest /\ result' = result
    BY MergeKeepsChildren DEF TickMerges
  <2>8. LatestOf(Production)' = {p} /\ LatestOf(Review)' = {v}
    BY <2>4, <2>7 DEF LatestOf
  <2>9. Passed(p)' /\ Passed(v)'
    BY <2>2, <2>4, <2>7 DEF Complete, Passed
  <2> QED BY <2>2, <2>3, <2>6, <2>7, <2>8, <2>9 DEF MergeExact
<1> QED BY <1>1, <1>2

LEMMA GateStep == TypeInv /\ GateInv /\ [Next]_vars => GateInv'
<1> SUFFICES ASSUME TypeInv, GateInv, [Next]_vars PROVE GateInv'
  OBVIOUS
<1>1. ASSUME UNCHANGED receipt, ledger'[Parent].trans = "queued" => ledger[Parent].trans = "queued"
      PROVE  GateInv'
  <2>1. ASSUME ledger'[Parent].trans = "queued" PROVE Complete'
    BY <1>1, <2>1, CompleteKept DEF GateInv
  <2>2. ASSUME receipt'.known PROVE Complete' /\ MergeExact'
    BY <1>1, <2>2, CompleteKept, ReceiptKept DEF GateInv
  <2> QED BY <2>1, <2>2 DEF GateInv
<1>2. CASE Kept
  BY <1>1, <1>2 DEF Kept
<1>3. CASE \E w \in Workers : PlanTeam(w)
  BY <1>1, <1>2, <1>3, PlanAdds
<1>4. CASE TickRetries
  BY <1>1, <1>4, RetriesAdd
<1>5. CASE TickMerges
  <2>1. CASE UNCHANGED <<ledger, receipt>>
    BY <1>1, <2>1
  <2>2. CASE Gated
    <3>1. Complete
      BY <2>2 DEF Gated, Complete, Latest
    <3>2. Complete'
      BY <3>1, CompleteKept
    <3> QED BY <1>5, <3>2, MergeIsExact DEF GateInv
  <2> QED BY <1>5, <2>1, <2>2 DEF TickMerges
<1> QED BY <1>2, <1>3, <1>4, <1>5, Steps

\* A parent queued for its synthesis has a team whose newest attempts passed.
THEOREM SynthesisIsGated == Spec => []SynthesisGated
<1>1. GateInv => SynthesisGated
  BY DEF GateInv, SynthesisGated, Complete
<1> QED BY TypeInit, TypeStep, GateInit, GateStep, <1>1, PTL DEF Spec

\* The merge receipt always names the newest attempts, at the reviewed revision.
THEOREM ReceiptIsExact == Spec => []MergeExact
<1>1. GateInv => MergeExact
  BY DEF GateInv, MergeExact
<1> QED BY TypeInit, TypeStep, GateInit, GateStep, <1>1, PTL DEF Spec

-----------------------------------------------------------------------------
(* The projected status.  An operation other than the cancellation of an      *)
(* attempt by name keeps finishes and cancel requests, and gives a terminal   *)
(* run no cancel request.                                                     *)

Continues(l, m) ==
    /\ l.started => m.started
    /\ l.cancel => m.cancel
    /\ l.finish # "none" => m.finish # "none"
    /\ StatusOf(l) \in TerminalStatus => m.cancel = l.cancel

\* Every append continues a ledger, the cancel request of an open run included.
LEMMA AppendsContinue ==
    ASSUME NEW W, NEW l \in Ledgers(W)
    PROVE  /\ Continues(l, l)
           /\ Continues(l, StartRun(l))
           /\ \A w : Continues(l, AppendClaim(l, w))
           /\ Continues(l, AppendQueue(l))
           /\ \A s \in TerminalStatus : Continues(l, AppendFinish(l, s))
           /\ StatusOf(l) \notin TerminalStatus => Continues(l, AppendCancel(l))
           /\ Continues(l, ExpireLease(l))
           /\ \A s : Continues(l, AppendTransition(l, s))
<1> USE DEF Ledgers, Continues
<1>1. Continues(l, l) /\ Continues(l, StartRun(l)) /\ Continues(l, ExpireLease(l))
  BY DEF StartRun, ExpireLease
<1>2. ASSUME NEW w PROVE Continues(l, AppendClaim(l, w))
  BY DEF AppendClaim
<1>3. Continues(l, AppendQueue(l))
  BY DEF AppendQueue
<1>4. ASSUME NEW s \in TerminalStatus PROVE Continues(l, AppendFinish(l, s))
  BY DEF AppendFinish, TerminalStatus
<1>5. StatusOf(l) \notin TerminalStatus => Continues(l, AppendCancel(l))
  BY DEF AppendCancel
<1>6. ASSUME NEW s PROVE Continues(l, AppendTransition(l, s))
  <2>1. Continues(l, [l EXCEPT !.latest = "transition", !.trans = s])
    OBVIOUS
  <2> QED BY <1>1, <2>1 DEF AppendTransition
<1> QED BY <1>1, <1>2, <1>3, <1>4, <1>5, <1>6

\* The sweep continues a ledger, and a claim of a swept ledger does too.
LEMMA RecoveredContinues ==
    ASSUME NEW W, NEW l \in Ledgers(W), NEW b, NEW w
    PROVE  /\ Continues(l, Recovered(l, b))
           /\ Continues(l, AppendClaim(Recovered(l, b), w))
<1>1. "cancelled" \in TerminalStatus
  BY DEF TerminalStatus
<1>2. Continues(l, Recovered(l, b))
  BY <1>1, AppendsContinue DEF Recovered
<1>3. Recovered(l, b) \in Ledgers(W)
  BY RecoveredTyped
<1> QED BY <1>2, <1>3 DEF Continues, AppendClaim, Ledgers

\* The ledger of a run whose worker takes a step, and of every other one.
LEMMA WorkersContinue ==
    ASSUME TypeInv, NEW w \in Workers, WorkerStep(w), NEW q \in TeamRuns
    PROVE  Continues(ledger[q], ledger'[q])
<1> DEFINE r == worker[w].run
<1>0. /\ ledger \in [TeamRuns -> Ledgers(Workers)] /\ r \in TeamRuns
      /\ \A s \in TeamRuns : ledger[s] \in Ledgers(Workers) /\ Continues(ledger[s], ledger[s])
  <2>1. /\ ledger \in [TeamRuns -> Ledgers(Workers)] /\ r \in TeamRuns
        /\ \A s \in TeamRuns : ledger[s] \in Ledgers(Workers)
    BY DEF TypeInv, TypeOK, WorkerStates
  <2> QED BY <2>1, AppendsContinue
<1> HIDE DEF r
<1>1. ASSUME NEW m, ledger' = [ledger EXCEPT ![r] = m], Continues(ledger[r], m)
      PROVE  Continues(ledger[q], ledger'[q])
  BY <1>0, <1>1
<1>2. ASSUME NEW s, ledger' = [ledger EXCEPT ![r] = AppendTransition(ledger[r], s)]
      PROVE  Continues(ledger[q], ledger'[q])
  BY <1>0, <1>1, <1>2, AppendsContinue
<1>3. CASE UNCHANGED ledger
  BY <1>0, <1>3
<1>4. CASE Heartbeat(w)
  BY <1>0, <1>1, <1>4, AppendsContinue DEF Heartbeat, r
<1>5. CASE StartTool(w) \/ \E ok \in BOOLEAN : EndTool(w, ok)
  <2>1. PICK s : ledger' = [ledger EXCEPT ![r] = AppendTransition(ledger[r], s)]
    BY <1>5 DEF StartTool, EndTool, r
  <2> QED BY <1>2, <2>1
<1>6. CASE Commit(w)
  <2>1. \/ worker[w].out \in TerminalStatus
           /\ ledger' = [ledger EXCEPT ![r] = AppendFinish(ledger[r], worker[w].out)]
        \/ ledger' = [ledger EXCEPT ![r] = AppendTransition(ledger[r], "blocked")]
    BY <1>6 DEF Commit, r
  <2> QED BY <1>0, <1>1, <1>2, <2>1, AppendsContinue
<1>7. CASE PlanTeam(w)
  <2>1. CASE ledger' = [s \in TeamRuns |-> IF s # Parent /\ s[2] = 1
                                            THEN StartRun(ledger[s]) ELSE ledger[s]]
    BY <1>0, <2>1, AppendsContinue
  <2> QED BY <1>3, <1>7, <2>1 DEF PlanTeam
<1>8. CASE \/ ReadPrompt(w) \/ ReadsCancel(w) \/ RecordResult(w)
           \/ \E out : Returns(w, out)
           \/ \E ok, rev, target : Build(w, ok, rev, target)
  BY <1>3, <1>8 DEF ReadPrompt, ReadsCancel, RecordResult, Returns, Build
<1> QED BY <1>4, <1>5, <1>6, <1>7, <1>8 DEF WorkerStep

LEMMA LedgersContinue ==
    ASSUME TypeInv, [Next]_vars, NEW q \in TeamRuns
    PROVE  \/ Continues(ledger[q], ledger'[q])
           \/ q # Parent /\ ledger'[q] = AppendCancel(ledger[q])
<1>0. /\ ledger \in [TeamRuns -> Ledgers(Workers)] /\ Parent \in TeamRuns
      /\ \A s \in TeamRuns : ledger[s] \in Ledgers(Workers) /\ Continues(ledger[s], ledger[s])
  <2>1. /\ ledger \in [TeamRuns -> Ledgers(Workers)] /\ Parent \in TeamRuns
        /\ \A s \in TeamRuns : ledger[s] \in Ledgers(Workers)
    BY DEF TypeInv, TypeOK, TeamRuns
  <2> QED BY <2>1, AppendsContinue
<1>1. CASE UNCHANGED ledger
  BY <1>0, <1>1
<1>2. ASSUME NEW r \in TeamRuns, LeaseExpires(r) PROVE Continues(ledger[q], ledger'[q])
  BY <1>0, <1>2, AppendsContinue DEF LeaseExpires
<1>3. ASSUME NEW r \in TeamRuns, NEW w \in Workers, Claim(w, r)
      PROVE  Continues(ledger[q], ledger'[q])
  BY <1>0, <1>3, RecoveredContinues DEF Claim, Swept
<1>4. CASE SweepOnly
  BY <1>0, <1>4, RecoveredContinues DEF SweepOnly, Swept
<1>5. CASE CancelTree
  <2>1. ledger'[q] \in {ledger[q], AppendCancel(ledger[q])}
        /\ (StatusOf(ledger[q]) \in TerminalStatus => ledger'[q] = ledger[q])
    BY <1>5 DEF CancelTree
  <2> QED BY <1>0, <2>1, AppendsContinue
<1>6. ASSUME NEW a \in Attempts, CancelChild(a)
      PROVE  \/ Continues(ledger[q], ledger'[q])
             \/ q # Parent /\ ledger'[q] = AppendCancel(ledger[q])
  BY <1>0, <1>6, AttemptsAre DEF CancelChild
<1>7. CASE TickRetries
  <2>1. ledger'[q] \in {StartRun(ledger[q]), AppendTransition(ledger[q], "blocked"), ledger[q]}
    BY <1>0, <1>7 DEF TickRetries
  <2> QED BY <1>0, <2>1, AppendsContinue
<1>8. CASE TickMerges
  <2>1. ledger'[q] \in {ledger[q], AppendTransition(ledger[q], "queued")}
    BY <1>0, <1>8 DEF TickMerges
  <2> QED BY <1>0, <2>1, AppendsContinue
<1>9. CASE TickReads \/ Crash \/ UNCHANGED vars
  BY <1>1, <1>9 DEF TickReads, Crash, vars
<1> QED BY <1>2, <1>3, <1>4, <1>5, <1>6, <1>7, <1>8, <1>9, WorkersContinue DEF Next

\* A ledger that is continued makes a move that AgentStatus allows.
LEMMA ContinuesMoves ==
    ASSUME NEW l \in Ledgers(Workers), NEW m \in Ledgers(Workers), Continues(l, m)
    PROVE  \/ StatusOf(l) = "absent"
           \/ StatusOf(l) = StatusOf(m)
           \/ Observed!LedgerMove(StatusOf(l), StatusOf(m))
<1> SUFFICES ASSUME l.started PROVE StatusOf(l) = StatusOf(m)
                                    \/ Observed!LedgerMove(StatusOf(l), StatusOf(m))
  BY DEF StatusOf, Ledgers
<1> USE DEF Observed!LedgerMove, Observed!Closed, Observed!AgentStatuses, Observed!OpenStatus
<1>1. m.started
  BY DEF Continues
<1>2. \A k \in {l, m} :
        /\ k.cancel \/ k.finish # "none" =>
             StatusOf(k) \in TerminalStatus \cup {"cancel_requested"}
        /\ ~k.cancel /\ k.finish = "none" => StatusOf(k) \in Observed!OpenStatus
  BY <1>1 DEF StatusOf, BaseStatus, Ledgers, TerminalStatus, TransitionStatus, WaitingStatus
<1>3. CASE ~l.cancel /\ l.finish = "none"
  BY <1>2, <1>3
<1>4. CASE StatusOf(l) = "completed"
  <2>1. ~l.cancel
    BY <1>4 DEF StatusOf, BaseStatus, Ledgers
  <2>2. ~m.cancel /\ m.finish # "none"
    BY <1>4, <2>1, <1>2, <1>3 DEF Continues, TerminalStatus
  <2>3. StatusOf(m) \in TerminalStatus
    BY <1>1, <2>2 DEF StatusOf, BaseStatus, Ledgers
  <2> QED BY <1>4, <2>3 DEF TerminalStatus
<1>5. CASE (l.cancel \/ l.finish # "none") /\ StatusOf(l) # "completed"
  <2>1. m.cancel \/ m.finish # "none"
    BY <1>5 DEF Continues
  <2> QED BY <1>2, <1>5, <2>1 DEF TerminalStatus
<1> QED BY <1>3, <1>4, <1>5 DEF Ledgers

\* A cancel request on an attempt that ended changes what it shows only if it
\* was completed.
LEMMA CancelMoves ==
    ASSUME NEW l \in Ledgers(Workers)
    PROVE  \/ StatusOf(l) = StatusOf(AppendCancel(l))
           \/ StatusOf(l) \in {"absent", "completed"} \cup Observed!OpenStatus
  BY DEF AppendCancel, StatusOf, BaseStatus, Ledgers, TerminalStatus, TransitionStatus,
         WaitingStatus, Observed!OpenStatus

\* Plans, retries, merges and late workers never open a run of the team that
\* has ended; only a completed attempt may still be shown as being cancelled.
THEOREM TeamMoves == Spec => TeamMovesOnly
<1> DEFINE Moved(r) == LET s == StatusOf(ledger[r])
                           t == StatusOf(ledger'[r])
                       IN \/ s = t \/ s = "absent"
                          \/ Observed!LedgerMove(s, t)
                          \/ r # Parent /\ s = "completed" /\ t = "cancel_requested"
<1>1. TypeInv /\ TypeInv' /\ [Next]_vars => [\A r \in TeamRuns : Moved(r)]_vars
  <2> SUFFICES ASSUME TypeInv, TypeInv', Next, NEW r \in TeamRuns PROVE Moved(r)
    BY DEF vars
  <2>1. ledger[r] \in Ledgers(Workers) /\ ledger'[r] \in Ledgers(Workers)
    BY DEF TypeInv, TypeOK
  <2>2. CASE Continues(ledger[r], ledger'[r])
    BY <2>1, <2>2, ContinuesMoves
  <2>3. CASE r # Parent /\ ledger'[r] = AppendCancel(ledger[r])
    <3>1. StatusOf(ledger[r]) = "completed" =>
            StatusOf(ledger'[r]) = "cancel_requested"
      BY <2>1, <2>3 DEF AppendCancel, StatusOf, BaseStatus, Ledgers
    <3> QED BY <2>1, <2>3, <3>1, CancelMoves DEF Observed!LedgerMove
  <2> QED BY <2>2, <2>3, LedgersContinue
<1>2. TeamMovesOnly <=> [][\A r \in TeamRuns : Moved(r)]_vars
  BY DEF TeamMovesOnly
<1> QED BY <1>1, <1>2, TypeInit, TypeStep, PTL DEF Spec
=============================================================================
