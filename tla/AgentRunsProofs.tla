--------------------------- MODULE AgentRunsProofs ---------------------------
(***************************************************************************)
(* Theorems about AgentRuns, for every number of runs, workers, tools and  *)
(* resources.                                                              *)
(***************************************************************************)
EXTENDS AgentRuns, TLAPS

-----------------------------------------------------------------------------
(* Every append, and the sweep, keeps a ledger a ledger. *)

\* The appends of EventStore produce ledgers.
LEMMA AppendsTyped ==
    ASSUME NEW W, NEW l \in Ledgers(W)
    PROVE  /\ StartRun(l) \in Ledgers(W)
           /\ \A w \in W : AppendClaim(l, w) \in Ledgers(W)
           /\ AppendQueue(l) \in Ledgers(W)
           /\ \A s \in TerminalStatus : AppendFinish(l, s) \in Ledgers(W)
           /\ AppendCancel(l) \in Ledgers(W)
           /\ ExpireLease(l) \in Ledgers(W)
           /\ \A s \in TransitionStatus : AppendTransition(l, s) \in Ledgers(W)
<1> USE DEF Ledgers
<1>1. StartRun(l) \in Ledgers(W)
  BY DEF StartRun
<1>2. ASSUME NEW w \in W PROVE AppendClaim(l, w) \in Ledgers(W)
  BY DEF AppendClaim
<1>3. AppendQueue(l) \in Ledgers(W)
  BY DEF AppendQueue
<1>4. ASSUME NEW s \in TerminalStatus PROVE AppendFinish(l, s) \in Ledgers(W)
  BY DEF AppendFinish
<1>5. AppendCancel(l) \in Ledgers(W)
  BY DEF AppendCancel
<1>6. ExpireLease(l) \in Ledgers(W)
  BY DEF ExpireLease
<1>7. ASSUME NEW s \in TransitionStatus PROVE AppendTransition(l, s) \in Ledgers(W)
  <2>1. s # "none"
    BY DEF TransitionStatus, WaitingStatus
  <2>2. [l EXCEPT !.latest = "transition", !.trans = s] \in Ledgers(W)
    BY <2>1
  <2> QED BY <2>2 DEF AppendTransition
<1> QED BY <1>1, <1>2, <1>3, <1>4, <1>5, <1>6, <1>7

\* The sweep of recover_expired_agent_runs does too.
LEMMA RecoveredTyped ==
    ASSUME NEW W, NEW l \in Ledgers(W), NEW b
    PROVE  Recovered(l, b) \in Ledgers(W)
  BY AppendsTyped DEF Recovered, TerminalStatus, TransitionStatus

-----------------------------------------------------------------------------
(* What one operation may do to a ledger: finishes and cancel requests are    *)
(* never taken back, and a terminal run gets no cancel request.               *)

Continues(l, m) ==
    /\ l.started => m.started
    /\ l.cancel => m.cancel
    /\ l.finish # "none" => m.finish # "none"
    /\ StatusOf(l) \in TerminalStatus => m.cancel = l.cancel

\* Every append continues a ledger, the cancel request of an open run included.
LEMMA AppendsContinue ==
    ASSUME NEW W, NEW l \in Ledgers(W)
    PROVE  /\ Continues(l, l)
           /\ Continues(l, StartRun(l))
           /\ \A w : Continues(l, AppendClaim(l, w))
           /\ Continues(l, AppendQueue(l))
           /\ \A s \in TerminalStatus : Continues(l, AppendFinish(l, s))
           /\ StatusOf(l) \notin TerminalStatus => Continues(l, AppendCancel(l))
           /\ Continues(l, ExpireLease(l))
           /\ \A s : Continues(l, AppendTransition(l, s))
<1> USE DEF Ledgers, Continues
<1>1. Continues(l, l) /\ Continues(l, StartRun(l)) /\ Continues(l, ExpireLease(l))
  BY DEF StartRun, ExpireLease
<1>2. ASSUME NEW w PROVE Continues(l, AppendClaim(l, w))
  BY DEF AppendClaim
<1>3. Continues(l, AppendQueue(l))
  BY DEF AppendQueue
<1>4. ASSUME NEW s \in TerminalStatus PROVE Continues(l, AppendFinish(l, s))
  BY DEF AppendFinish, TerminalStatus
<1>5. StatusOf(l) \notin TerminalStatus => Continues(l, AppendCancel(l))
  BY DEF AppendCancel
<1>6. ASSUME NEW s PROVE Continues(l, AppendTransition(l, s))
  <2>1. Continues(l, [l EXCEPT !.latest = "transition", !.trans = s])
    OBVIOUS
  <2> QED BY <1>1, <2>1 DEF AppendTransition
<1> QED BY <1>1, <1>2, <1>3, <1>4, <1>5, <1>6

\* The sweep continues a ledger, and a claim of a swept ledger does too.
LEMMA RecoveredContinues ==
    ASSUME NEW W, NEW l \in Ledgers(W), NEW b, NEW w
    PROVE  /\ Continues(l, Recovered(l, b))
           /\ Continues(l, AppendClaim(Recovered(l, b), w))
<1>1. "cancelled" \in TerminalStatus
  BY DEF TerminalStatus
<1>2. Continues(l, Recovered(l, b))
  BY <1>1, AppendsContinue DEF Recovered
<1>3. Recovered(l, b) \in Ledgers(W)
  BY RecoveredTyped
<1> QED BY <1>2, <1>3 DEF Continues, AppendClaim, Ledgers

-----------------------------------------------------------------------------
\* A swept table of ledgers is one.
LEMMA SweptTyped ==
    ASSUME TypeOK
    PROVE  Swept \in [Runs -> Ledgers(Workers)]
  BY RecoveredTyped DEF Swept, TypeOK

-----------------------------------------------------------------------------
(* Type correctness.  A working worker has a run, and one that reaches its    *)
(* last store operation has an outcome: without that, what it appends has no  *)
(* type.                                                                      *)

Coherent ==
    \A w \in Workers :
        /\ worker[w].pc # "idle" => worker[w].run \in Runs
        /\ worker[w].pc \in {"ending", "commit"} => worker[w].out # "none"

TypeInv == TypeOK /\ Coherent

UIStates ==
    [pc : {"idle", "tool", "after"}, req : SUBSET Requests,
     res : {"none", "succeeded", "failed", "blocked", "asked"}]

\* The end of an executor, whether or not its evidence is accepted.
Ends(o, q, ok) == EndExecution(o, q, ok) \/ EvidenceRefused(o, q, ok)

\* The process stops, between two commits of a dispatch or anywhere else.
Stops ==
    \/ Crash
    \/ \E q \in Requests, o \in Threads :
         CrashInStart(o, q) \/ \E ok \in BOOLEAN : CrashInEnd(o, q, ok)

\* A one-shot grant is bound to an invocation that waits.
LEMMA BindTyped ==
    ASSUME TypeInv, NEW q \in Requests, Authorized(q), Bind(q)
    PROVE  /\ waiting' \in [Requests -> Nat]
           /\ q[2] \in OneShot => approval[q] = "granted" /\ waiting[q] > 0
<1>1. CASE q[2] \notin OneShot
  BY <1>1 DEF Bind, TypeInv, TypeOK
<1>2. CASE q[2] \in OneShot
  <2>1. approval[q] = "granted" /\ waiting[q] > 0
    BY <1>2 DEF Authorized, Standing, OneShot
  <2>2. waiting[q] - 1 \in Nat
    BY <2>1 DEF TypeInv, TypeOK
  <2>3. waiting' = [waiting EXCEPT ![q] = @ - 1]
    BY <1>2 DEF Bind
  <2> QED BY <2>1, <2>2, <2>3 DEF TypeInv, TypeOK
<1> QED BY <1>1, <1>2

\* A dispatch that is blocked may use up the invocation that waited.
LEMMA BlockTyped ==
    ASSUME TypeInv, NEW q \in Requests, BlockDispatch(q)
    PROVE  waiting' \in [Requests -> Nat]
  BY BindTyped DEF BlockDispatch, TypeInv, TypeOK

\* Starting an execution keeps the types of what it writes.
LEMMA StartTyped ==
    ASSUME TypeInv, NEW o \in Owners, NEW q \in Requests, StartExecution(o, q)
    PROVE  /\ ledger' \in [Runs -> Ledgers(Workers)]
           /\ open' \in [Requests -> SUBSET Owners]
           /\ held' \subseteq Requests \X Owners
           /\ waiting' \in [Requests -> Nat]
           /\ used' \subseteq Requests
           /\ UNCHANGED <<done, approval, delivered, crowded, continued>>
<1>1. q[1] \in Runs
  BY DEF Requests
<1>2. ledger' \in [Runs -> Ledgers(Workers)]
  <2>1. AppendTransition(ledger[q[1]], "running") \in Ledgers(Workers)
    BY <1>1, AppendsTyped DEF TypeInv, TypeOK, TransitionStatus
  <2> QED BY <1>1, <2>1 DEF StartExecution, TypeInv, TypeOK
<1>3. waiting' \in [Requests -> Nat]
  BY BindTyped DEF StartExecution, MayStart
<1>4. open' \in [Requests -> SUBSET Owners] /\ held' \subseteq Requests \X Owners
  BY DEF StartExecution, Claimed, TypeInv, TypeOK
<1>5. used' \subseteq Requests
  BY DEF StartExecution, TypeInv, TypeOK
<1> QED BY <1>2, <1>3, <1>4, <1>5 DEF StartExecution

\* So does asking for an approval.
LEMMA AskTyped ==
    ASSUME TypeInv, NEW o \in Owners, NEW q \in Requests, AskFirst(o, q)
    PROVE  /\ ledger' \in [Runs -> Ledgers(Workers)]
           /\ waiting' \in [Requests -> Nat]
           /\ approval' \in [Requests -> Approvals]
           /\ used' \subseteq Requests
           /\ delivered' \subseteq Requests
           /\ crowded' \subseteq Requests
           /\ UNCHANGED <<open, held, done, continued>>
<1>1. q[1] \in Runs
  BY DEF Requests
<1>2. ledger' \in [Runs -> Ledgers(Workers)]
  <2>1. AppendTransition(ledger[q[1]], "waiting_for_confirmation") \in Ledgers(Workers)
    BY <1>1, AppendsTyped DEF TypeInv, TypeOK, TransitionStatus, WaitingStatus
  <2> QED BY <1>1, <2>1 DEF AskFirst, TypeInv, TypeOK
<1>3. CASE approval[q] = "pending"
  BY <1>2, <1>3 DEF AskFirst, TypeInv, TypeOK
<1>4. CASE approval[q] # "pending"
  BY <1>2, <1>4 DEF AskFirst, TypeInv, TypeOK, Approvals
<1> QED BY <1>3, <1>4

\* So does recording an outcome, with its evidence accepted or refused.
LEMMA EndTyped ==
    ASSUME TypeInv, NEW o \in Owners, NEW q \in Requests, NEW ok \in BOOLEAN,
           Ends(o, q, ok)
    PROVE  /\ ledger' \in [Runs -> Ledgers(Workers)]
           /\ open' \in [Requests -> SUBSET Owners]
           /\ held' \subseteq Requests \X Owners
           /\ done' \subseteq Requests
           /\ approval' \in [Requests -> Approvals]
           /\ continued' \subseteq Requests
           /\ UNCHANGED <<waiting, delivered, used, crowded>>
<1>1. q[1] \in Runs /\ Lost \in Owners
  BY DEF Requests, Owners
<1>2. ledger' \in [Runs -> Ledgers(Workers)]
  <2>1. AppendTransition(ledger[q[1]], IF ok THEN "running" ELSE "blocked") \in Ledgers(Workers)
    BY <1>1, AppendsTyped DEF TypeInv, TypeOK, TransitionStatus
  <2>2. CASE EndExecution(o, q, ok)
    BY <1>1, <2>1, <2>2 DEF EndExecution, TypeInv, TypeOK
  <2>3. CASE UNCHANGED ledger
    BY <2>3 DEF TypeInv, TypeOK
  <2> QED BY <2>2, <2>3 DEF Ends, EvidenceRefused
<1>3. /\ Outcome(q, ok) /\ open' = Ended(o, q) /\ approval' = Consumed(q)
      /\ held' \subseteq held \cup {<<q, Lost>>}
  BY DEF Ends, EndExecution, EvidenceRefused
<1>4. approval' \in [Requests -> Approvals]
  BY <1>3 DEF Consumed, TypeInv, TypeOK, Approvals
<1>5. /\ open' \in [Requests -> SUBSET Owners]
      /\ held' \subseteq Requests \X Owners
      /\ done' \subseteq Requests
      /\ continued' \subseteq Requests
  BY <1>1, <1>3 DEF Ended, Outcome, TypeInv, TypeOK
<1> QED BY <1>2, <1>3, <1>4, <1>5 DEF Outcome

\* What a stop leaves of threads, invocations and claims.
LEMMA StopEffect ==
    ASSUME TypeInv, NEW i \in [Requests -> SUBSET Owners],
           NEW c \in SUBSET (Requests \X Owners), Stop(i, c)
    PROVE  /\ worker' = [w \in Workers |-> IdleWorker]
           /\ ui' = IdleUI
           /\ open' \in [Requests -> SUBSET {Lost, Unstarted}]
           /\ \A q \in Requests : Lost \in open'[q] => i[q] \ {Unstarted} # {}
           /\ \A q \in Requests : open'[q] # {} => i[q] # {}
           /\ held' \subseteq Requests \X {Lost, Unstarted}
<1>1. \A o : Left(o) \in {Lost, Unstarted} /\ (Left(o) = Lost => o # Unstarted)
  BY AgentRunsAssumption DEF Left
<1>2. ASSUME NEW q \in Requests
      PROVE  /\ open'[q] \subseteq {Lost, Unstarted}
             /\ Lost \in open'[q] => i[q] \ {Unstarted} # {}
             /\ open'[q] # {} => i[q] # {}
  <2>1. open'[q] = {Left(o) : o \in i[q]}
    BY DEF Stop
  <2> QED BY <1>1, <2>1
<1>3. held' \subseteq Requests \X {Lost, Unstarted}
  BY <1>1 DEF Stop
<1> QED BY <1>2, <1>3 DEF Stop

\* The three stops have that in common.  None writes a ledger; what may have
\* been recorded before is the start of one invocation that did not execute,
\* or the end of one that did.
LEMMA StopsEffect ==
    ASSUME TypeInv, Stops
    PROVE  /\ worker' = [w \in Workers |-> IdleWorker]
           /\ ui' = IdleUI
           /\ open' \in [Requests -> SUBSET {Lost, Unstarted}]
           /\ \A q \in Requests : Lost \in open'[q] => open[q] \ {Unstarted} # {}
           /\ held' \subseteq Requests \X {Lost, Unstarted}
           /\ done' \subseteq Requests
           /\ continued' \subseteq continued
           /\ UNCHANGED <<ledger, delivered, used, crowded>>
<1>0. /\ TypeOK /\ Threads \subseteq Owners /\ {Lost, Unstarted} \subseteq Owners
      /\ open \in [Requests -> SUBSET Owners] /\ held \in SUBSET (Requests \X Owners)
  BY DEF TypeInv, TypeOK, Owners
<1>1. CASE Crash
  BY <1>0, <1>1, StopEffect DEF Crash, TypeOK
<1>2. ASSUME NEW q \in Requests, NEW o \in Threads, CrashInStart(o, q)
      PROVE  /\ worker' = [w \in Workers |-> IdleWorker]
             /\ ui' = IdleUI
             /\ open' \in [Requests -> SUBSET {Lost, Unstarted}]
             /\ \A p \in Requests : Lost \in open'[p] => open[p] \ {Unstarted} # {}
             /\ held' \subseteq Requests \X {Lost, Unstarted}
             /\ UNCHANGED <<ledger, done, delivered, used, crowded, continued>>
  <2>1. PICK c, i : /\ Stop(i, c)
                    /\ i \in {open, [open EXCEPT ![q] = @ \cup {Unstarted}]}
                    /\ \E u \in {Lost, Unstarted} : c = Claimed(q, u)
    BY <1>2 DEF CrashInStart
  <2>2. c \in SUBSET (Requests \X Owners) /\ i \in [Requests -> SUBSET Owners]
    BY <1>0, <2>1 DEF Claimed
  <2>3. \A p \in Requests : i[p] \ {Unstarted} = open[p] \ {Unstarted}
    BY <1>0, <2>1
  <2> HIDE DEF Stop
  <2> QED BY <1>2, <2>1, <2>2, <2>3, StopEffect DEF CrashInStart
<1>3. ASSUME NEW q \in Requests, NEW o \in Threads, NEW ok \in BOOLEAN, CrashInEnd(o, q, ok)
      PROVE  /\ worker' = [w \in Workers |-> IdleWorker]
             /\ ui' = IdleUI
             /\ open' \in [Requests -> SUBSET {Lost, Unstarted}]
             /\ \A p \in Requests : Lost \in open'[p] => open[p] \ {Unstarted} # {}
             /\ held' \subseteq Requests \X {Lost, Unstarted}
             /\ done' \subseteq Requests /\ continued' \subseteq continued
             /\ UNCHANGED <<ledger, delivered, used, crowded>>
  <2>1. PICK c \in {held, held \ {<<q, o>>}} : Stop(Ended(o, q), c)
    BY <1>3 DEF CrashInEnd
  <2>2. Ended(o, q) \in [Requests -> SUBSET Owners] /\ c \in SUBSET (Requests \X Owners)
    BY <1>0, <2>1 DEF Ended
  <2>3. \A p \in Requests : Ended(o, q)[p] \subseteq open[p]
    BY <1>0 DEF Ended
  <2>4. /\ worker' = [w \in Workers |-> IdleWorker]
        /\ ui' = IdleUI
        /\ open' \in [Requests -> SUBSET {Lost, Unstarted}]
        /\ \A p \in Requests : Lost \in open'[p] => Ended(o, q)[p] \ {Unstarted} # {}
        /\ held' \subseteq Requests \X {Lost, Unstarted}
    BY <2>1, <2>2, StopEffect
  <2>5. done' \subseteq Requests /\ continued' \subseteq continued
    BY <1>0, <1>3 DEF CrashInEnd, Outcome, TypeOK
  <2>6. \A p \in Requests : Lost \in open'[p] => open[p] \ {Unstarted} # {}
    BY <2>3, <2>4
  <2> QED BY <1>3, <2>4, <2>5, <2>6 DEF CrashInEnd, Outcome
<1> QED BY <1>0, <1>1, <1>2, <1>3 DEF Stops, TypeOK

\* A stop keeps the types.
LEMMA StopsTyped ==
    ASSUME TypeInv, Stops
    PROVE  TypeInv'
<1>0. TypeOK /\ {Lost, Unstarted} \subseteq Owners
  BY DEF TypeInv, Owners
<1>1. waiting' \in [Requests -> Nat]
  BY <1>0, BindTyped DEF MayStart, Stops, Crash, CrashInStart, CrashInEnd, Outcome, TypeOK
<1>2. approval' \in [Requests -> Approvals]
  BY <1>0 DEF Stops, Crash, CrashInStart, CrashInEnd, Consumed, TypeOK, Approvals
<1>3. IdleWorker \in WorkerStates /\ IdleUI \in UIStates
  BY AgentRunsAssumption DEF IdleWorker, IdleUI, WorkerStates, UIStates, Outcomes
<1>4. Coherent'
  BY StopsEffect DEF Coherent, IdleWorker
<1>5. open' \in [Requests -> SUBSET Owners] /\ held' \subseteq Requests \X Owners
  BY <1>0, StopsEffect
<1>6. worker' \in [Workers -> WorkerStates] /\ ui' \in UIStates
  BY <1>3, StopsEffect
<1>7. continued' \subseteq Requests
  BY <1>0, StopsEffect DEF TypeOK
<1> QED BY <1>0, <1>1, <1>2, <1>4, <1>5, <1>6, <1>7, StopsEffect DEF TypeInv, TypeOK, UIStates

\* An operation that ends in an error keeps its run and no cards.
LEMMA ErredIs ==
    ASSUME TypeInv, NEW w \in Workers
    PROVE  LET v == Erred(worker[w]) IN
           /\ v \in WorkerStates /\ v.run = worker[w].run /\ v.asked = {}
           /\ v.pc = "ending" /\ v.out = "failed"
  BY DEF TypeInv, TypeOK, Erred, IdleWorker, WorkerStates, Outcomes

\* The operation of a worker returns, with a response or an error.
LEMMA WorkerReturned ==
    ASSUME TypeInv, NEW w \in Workers, NEW out \in Outcomes, WorkerReturns(w, out)
    PROVE  /\ worker[w].pc = "working"
           /\ \E v \in WorkerStates :
                /\ worker' = [worker EXCEPT ![w] = v]
                /\ v.run = worker[w].run /\ v.asked \in {worker[w].asked, {}}
                /\ v.pc = "ending" /\ v.out # "none"
<1>0. worker \in [Workers -> WorkerStates] /\ worker[w].pc = "working" /\ out # "none"
  BY DEF WorkerReturns, WaitingStatus, TypeInv, TypeOK
<1>1. CASE worker[w].beat /\ out # "failed"
  <2> DEFINE v == [worker[w] EXCEPT !.pc = "ending", !.out = out]
  <2>1. worker' = [worker EXCEPT ![w] = v]
    BY <1>0, <1>1 DEF WorkerReturns
  <2>2. /\ v \in WorkerStates /\ v.run = worker[w].run /\ v.asked = worker[w].asked
        /\ v.pc = "ending" /\ v.out # "none"
    BY <1>0 DEF WorkerStates
  <2> HIDE DEF v
  <2> QED BY <1>0, <2>1, <2>2
<1>2. CASE ~(worker[w].beat /\ out # "failed")
  <2>1. worker' = [worker EXCEPT ![w] = Erred(worker[w])]
    BY <1>0, <1>2 DEF WorkerReturns
  <2> QED BY <1>0, <2>1, ErredIs
<1> QED BY <1>1, <1>2

\* A worker's executor ends: the worker goes on, or its operation has failed.
LEMMA WorkerEnds ==
    ASSUME TypeInv, NEW w \in Workers, NEW ok \in BOOLEAN,
           WorkerEndsTool(w, ok) \/ WorkerEvidenceRefused(w, ok)
    PROVE  /\ worker[w].pc = "tool" /\ UNCHANGED ui
           /\ \E t \in worker[w].tool : RequestOf(w, t) \in Requests /\ Ends(w, RequestOf(w, t), ok)
           /\ \E v \in WorkerStates :
                /\ worker' = [worker EXCEPT ![w] = v]
                /\ v.run = worker[w].run /\ v.asked \in {worker[w].asked, {}}
                /\ v.pc \in {"working", "ending"} /\ (v.pc = "ending" => v.out = "failed")
<1>0. worker \in [Workers -> WorkerStates] /\ worker[w].pc = "tool" /\ worker[w].run \in Runs
  BY DEF WorkerEndsTool, WorkerEvidenceRefused, TypeInv, TypeOK, Coherent
<1>1. \E t \in worker[w].tool : RequestOf(w, t) \in Requests /\ Ends(w, RequestOf(w, t), ok)
  BY <1>0 DEF WorkerEndsTool, WorkerEvidenceRefused, RequestOf, Requests, Ends, WorkerStates
<1> DEFINE v == [worker[w] EXCEPT !.pc = "working", !.tool = {}]
<1>2. \/ worker' = [worker EXCEPT ![w] = v]
      \/ worker' = [worker EXCEPT ![w] = Erred(worker[w])]
  <2>1. CASE WorkerEndsTool(w, ok)
    BY <1>0, <2>1 DEF WorkerEndsTool
  <2>2. CASE WorkerEvidenceRefused(w, ok)
    BY <1>0, <2>2 DEF WorkerEvidenceRefused
  <2> QED BY <2>1, <2>2
<1>3. /\ v \in WorkerStates /\ v.run = worker[w].run /\ v.asked = worker[w].asked
      /\ v.pc = "working"
  BY <1>0 DEF WorkerStates
<1>4. \E u \in WorkerStates :
        /\ worker' = [worker EXCEPT ![w] = u]
        /\ u.run = worker[w].run /\ u.asked \in {worker[w].asked, {}}
        /\ u.pc \in {"working", "ending"} /\ (u.pc = "ending" => u.out = "failed")
  <2> HIDE DEF v
  <2> QED BY <1>2, <1>3, ErredIs
<1>5. UNCHANGED ui
  BY DEF WorkerEndsTool, WorkerEvidenceRefused
<1> QED BY <1>0, <1>1, <1>4, <1>5

\* So does a card's: the command has its last step before it, or returns.
LEMMA ResumeEnds ==
    ASSUME TypeInv, NEW ok \in BOOLEAN, ResumeEndsTool(ok) \/ ResumeEvidenceRefused(ok)
    PROVE  /\ ui.pc = "tool" /\ UNCHANGED worker
           /\ \E q \in ui.req : q \in Requests /\ Ends(UI, q, ok)
           /\ ui' \in UIStates /\ ui'.pc # "tool"
<1>1. CASE ResumeEndsTool(ok)
  <2>1. PICK q \in ui.req :
          /\ EndExecution(UI, q, ok)
          /\ ui' = IF ledger[q[1]].cancel \/ StatusOf(ledger[q[1]]) \notin TerminalStatus
                   THEN [pc |-> "after", req |-> {q},
                         res |-> IF ok THEN "succeeded" ELSE "failed"]
                   ELSE IdleUI
    BY <1>1 DEF ResumeEndsTool
  <2>2. q \in Requests
    BY DEF TypeInv, TypeOK
  <2>3. ui' \in UIStates /\ ui'.pc # "tool"
    BY <2>1, <2>2 DEF UIStates, IdleUI
  <2> QED BY <1>1, <2>1, <2>2, <2>3 DEF ResumeEndsTool, Ends
<1>2. CASE ResumeEvidenceRefused(ok)
  BY <1>2 DEF ResumeEvidenceRefused, Ends, UIStates, IdleUI, TypeInv, TypeOK
<1> QED BY <1>1, <1>2

\* Taking a run keeps the types.
LEMMA TakeTyped ==
    ASSUME TypeInv, NEW w \in Workers, NEW r \in Runs, Take(w, r, Swept)
    PROVE  TypeInv'
<1>1. ledger' \in [Runs -> Ledgers(Workers)]
  <2>1. Swept \in [Runs -> Ledgers(Workers)]
    BY SweptTyped DEF TypeInv
  <2>2. AppendClaim(Swept[r], w) \in Ledgers(Workers)
    BY <2>1, AppendsTyped
  <2> QED BY <2>1, <2>2 DEF Take
<1>2. r \in 0..NumRuns
  BY AgentRunsAssumption DEF Runs
<1>3. worker' \in [Workers -> WorkerStates] /\ Coherent'
  BY <1>2 DEF Take, TypeInv, TypeOK, Coherent, WorkerStates, IdleWorker, Outcomes
<1> QED BY <1>1, <1>3 DEF Take, TypeInv, TypeOK, toolVars

\* The first state is typed.
LEMMA TypeInit == Init => TypeInv
<1> SUFFICES ASSUME Init PROVE TypeInv
  OBVIOUS
<1>1. NoLedger \in Ledgers(Workers)
  BY DEF NoLedger, Ledgers
<1>2. IdleWorker \in WorkerStates
  BY AgentRunsAssumption DEF IdleWorker, WorkerStates, Outcomes
<1>3. ui \in [pc : {"idle", "tool", "after"}, req : SUBSET Requests,
             res : {"none", "succeeded", "failed", "blocked", "asked"}]
  BY DEF Init, IdleUI
<1>4. Coherent
  BY DEF Init, Coherent, IdleWorker
<1> QED BY <1>1, <1>2, <1>3, <1>4 DEF Init, TypeInv, TypeOK, Approvals

\* The worker's handlers keep the types.
LEMMA WorkerTyped ==
    ASSUME TypeInv, NEW w \in Workers, WorkerStep(w)
    PROVE  TypeInv'
<1>0. w \in Owners /\ worker[w] \in WorkerStates
  BY DEF Owners, Threads, TypeInv, TypeOK
<1>1. CASE Heartbeat(w)
  <2>1. worker[w].run \in Runs
    BY <1>1 DEF Heartbeat, Renews, Beating, TypeInv, Coherent
  <2>2. AppendClaim(ledger[worker[w].run], w) \in Ledgers(Workers)
    BY <2>1, AppendsTyped DEF TypeInv, TypeOK
  <2> QED BY <1>1, <2>2 DEF Heartbeat, TypeInv, TypeOK, Coherent, toolVars
<1>2. CASE HeartbeatRefused(w)
  BY <1>2, <1>0 DEF HeartbeatRefused, TypeInv, TypeOK, Coherent, WorkerStates, toolVars
<1>3. ASSUME NEW t \in Tools, WorkerStartsTool(w, t) PROVE TypeInv'
  <2>1. RequestOf(w, t) \in Requests /\ StartExecution(w, RequestOf(w, t))
    BY <1>3 DEF WorkerStartsTool, RequestOf, Requests, TypeInv, Coherent
  <2>2. worker' \in [Workers -> WorkerStates] /\ Coherent'
    BY <1>0, <1>3 DEF WorkerStartsTool, TypeInv, TypeOK, Coherent, WorkerStates
  <2> QED BY <1>0, <1>3, <2>1, <2>2, StartTyped DEF WorkerStartsTool, TypeInv, TypeOK
<1>4. ASSUME NEW t \in Tools, WorkerToolBlocked(w, t) PROVE TypeInv'
  <2>1. /\ worker[w].run \in Runs /\ RequestOf(w, t)[1] = worker[w].run
        /\ RequestOf(w, t) \in Requests
    BY <1>4 DEF WorkerToolBlocked, RequestOf, Requests, TypeInv, Coherent
  <2>2. AppendTransition(ledger[worker[w].run], "blocked") \in Ledgers(Workers)
    BY <2>1, AppendsTyped DEF TypeInv, TypeOK, TransitionStatus
  <2> QED BY <1>4, <2>1, <2>2, BlockTyped
       DEF WorkerToolBlocked, BlockDispatch, TypeInv, TypeOK, Coherent, toolVars
<1>5. ASSUME NEW t \in Tools, WorkerAsks(w, t) PROVE TypeInv'
  <2>1. RequestOf(w, t) \in Requests /\ AskFirst(w, RequestOf(w, t))
    BY <1>5 DEF WorkerAsks, RequestOf, Requests, TypeInv, Coherent
  <2>2. worker' \in [Workers -> WorkerStates] /\ Coherent'
    BY <1>0, <1>5 DEF WorkerAsks, TypeInv, TypeOK, Coherent, WorkerStates
  <2>3. /\ ledger' \in [Runs -> Ledgers(Workers)]
        /\ waiting' \in [Requests -> Nat]
        /\ approval' \in [Requests -> Approvals]
        /\ used' \subseteq Requests
        /\ delivered' \subseteq Requests
        /\ crowded' \subseteq Requests
        /\ UNCHANGED <<open, held, done, continued>>
    BY <1>0, <2>1, AskTyped
  <2> QED BY <1>5, <2>2, <2>3 DEF WorkerAsks, TypeInv, TypeOK
<1>6. ASSUME NEW ok \in BOOLEAN, WorkerEndsTool(w, ok) \/ WorkerEvidenceRefused(w, ok)
      PROVE  TypeInv'
  <2>1. PICK t : RequestOf(w, t) \in Requests /\ Ends(w, RequestOf(w, t), ok)
    BY <1>6, WorkerEnds
  <2>2. /\ ledger' \in [Runs -> Ledgers(Workers)]
        /\ open' \in [Requests -> SUBSET Owners]
        /\ held' \subseteq Requests \X Owners
        /\ done' \subseteq Requests
        /\ approval' \in [Requests -> Approvals]
        /\ continued' \subseteq Requests
        /\ UNCHANGED <<waiting, delivered, used, crowded>>
    BY <1>0, <2>1, EndTyped
  <2>3. worker' \in [Workers -> WorkerStates] /\ Coherent'
    BY <1>0, <1>6, WorkerEnds DEF TypeInv, TypeOK, Coherent
  <2> QED BY <1>6, <2>2, <2>3, WorkerEnds DEF TypeInv, TypeOK
<1>7. ASSUME NEW out \in Outcomes, WorkerReturns(w, out) PROVE TypeInv'
  <2>1. worker' \in [Workers -> WorkerStates] /\ Coherent'
    BY <1>0, <1>7, WorkerReturned DEF TypeInv, TypeOK, Coherent
  <2> QED BY <1>7, <2>1 DEF WorkerReturns, TypeInv, TypeOK, toolVars
<1>8. CASE WorkerReadsCancel(w)
  <2>1. worker' \in [Workers -> WorkerStates] /\ Coherent'
    BY <1>0, <1>8 DEF WorkerReadsCancel, TypeInv, TypeOK, Coherent, WorkerStates, Outcomes
  <2> QED BY <1>8, <2>1 DEF WorkerReadsCancel, TypeInv, TypeOK, toolVars
<1>9. CASE WorkerCommits(w)
  <2> DEFINE r == worker[w].run
             out == worker[w].out
  <2>1. r \in Runs /\ ledger[r] \in Ledgers(Workers)
    BY <1>9 DEF WorkerCommits, TypeInv, TypeOK, Coherent
  <2>2. out \in Outcomes \ {"none"}
    BY <1>0, <1>9 DEF WorkerCommits, TypeInv, Coherent, WorkerStates
  <2>3. ASSUME out \in TerminalStatus, ledger' = [ledger EXCEPT ![r] = AppendFinish(@, out)]
        PROVE  ledger' \in [Runs -> Ledgers(Workers)]
    <3>1. AppendFinish(ledger[r], out) \in Ledgers(Workers)
      BY <2>1, <2>3, AppendsTyped
    <3> QED BY <2>3, <3>1 DEF TypeInv, TypeOK
  <2>4. ASSUME out \notin {"failed", "cancelled"},
               ledger' = [ledger EXCEPT ![r] =
                   AppendTransition(@, IF out = "completed" THEN "blocked" ELSE out)]
        PROVE  ledger' \in [Runs -> Ledgers(Workers)]
    <3>1. (IF out = "completed" THEN "blocked" ELSE out) \in TransitionStatus
      BY <2>2, <2>4 DEF Outcomes, TransitionStatus, WaitingStatus
    <3> DEFINE s == IF out = "completed" THEN "blocked" ELSE out
    <3>2. AppendTransition(ledger[r], s) \in Ledgers(Workers)
      BY <2>1, <3>1, AppendsTyped
    <3>3. ledger' = [ledger EXCEPT ![r] = AppendTransition(ledger[r], s)]
      BY <2>4
    <3> HIDE DEF s
    <3> QED BY <2>1, <3>2, <3>3 DEF TypeInv, TypeOK
  <2>5. ledger' \in [Runs -> Ledgers(Workers)]
    BY <1>9, <2>3, <2>4 DEF WorkerCommits
  <2>6. delivered' \subseteq Requests
    <3>1. {<<r, t>> : t \in worker[w].asked} \subseteq Requests
      BY <1>0, <2>1 DEF WorkerStates, Requests
    <3> QED BY <1>9, <3>1 DEF WorkerCommits, TypeInv, TypeOK
  <2>7. IdleWorker \in WorkerStates
    BY AgentRunsAssumption DEF IdleWorker, WorkerStates, Outcomes
  <2>8. worker' \in [Workers -> WorkerStates] /\ Coherent'
    BY <1>9, <2>7 DEF WorkerCommits, TypeInv, TypeOK, Coherent, IdleWorker
  <2> QED BY <1>9, <2>5, <2>6, <2>8 DEF WorkerCommits, TypeInv, TypeOK
<1> QED BY <1>1, <1>2, <1>3, <1>4, <1>5, <1>6, <1>7, <1>8, <1>9 DEF WorkerStep

\* Resolving a card and resuming its action keep the types.
LEMMA DesktopTyped ==
    ASSUME TypeInv, DesktopStep
    PROVE  TypeInv'
<1>0. UI \in Owners /\ Coherent /\ (UNCHANGED worker => Coherent')
  BY DEF Owners, Threads, TypeInv, Coherent
<1>1. ASSUME NEW q \in Requests, NEW v \in {"granted", "rejected"}, ResolveApproval(q, v)
      PROVE  TypeInv'
  BY <1>0, <1>1 DEF ResolveApproval, TypeInv, TypeOK, Approvals
<1>2. ASSUME NEW q \in Requests, NEW s \in TransitionStatus,
             ledger' = [ledger EXCEPT ![q[1]] = AppendTransition(@, s)]
      PROVE  ledger' \in [Runs -> Ledgers(Workers)]
  <2>1. q[1] \in Runs
    BY DEF Requests
  <2>2. AppendTransition(ledger[q[1]], s) \in Ledgers(Workers)
    BY <2>1, AppendsTyped DEF TypeInv, TypeOK
  <2> QED BY <1>2, <2>1, <2>2 DEF TypeInv, TypeOK
<1>3. ASSUME NEW q \in Requests, ResumeUnavailable(q) PROVE TypeInv'
  <2>1. ledger' \in [Runs -> Ledgers(Workers)]
    BY <1>2, <1>3 DEF ResumeUnavailable, TransitionStatus
  <2> QED BY <1>0, <1>3, <2>1 DEF ResumeUnavailable, TypeInv, TypeOK, toolVars
<1>4. ASSUME NEW q \in Requests, ResumeDispatch(q) PROVE TypeInv'
  <2>0. UNCHANGED worker /\ ui' \in UIStates
    BY <1>4 DEF ResumeDispatch, UIStates
  <2>1. CASE StartExecution(UI, q)
    BY <1>0, <2>0, <2>1, StartTyped DEF UIStates, TypeInv, TypeOK
  <2>2. CASE AskFirst(UI, q)
    BY <1>0, <2>0, <2>2, AskTyped DEF UIStates, TypeInv, TypeOK
  <2>3. CASE BlockDispatch(q)
    <3>1. ledger' \in [Runs -> Ledgers(Workers)]
      BY <1>2, <2>3 DEF BlockDispatch, TransitionStatus
    <3> QED BY <1>0, <2>0, <2>3, <3>1, BlockTyped DEF BlockDispatch, UIStates, TypeInv, TypeOK, toolVars
  <2>4. CASE UNCHANGED <<ledger, toolVars>>
    BY <1>0, <2>0, <2>4 DEF UIStates, TypeInv, TypeOK, toolVars
  <2> QED BY <1>4, <2>1, <2>2, <2>3, <2>4 DEF ResumeDispatch
<1>5. ASSUME NEW ok \in BOOLEAN, ResumeEndsTool(ok) \/ ResumeEvidenceRefused(ok) PROVE TypeInv'
  <2>1. PICK q \in Requests : Ends(UI, q, ok)
    BY <1>5, ResumeEnds
  <2>2. ui' \in UIStates /\ UNCHANGED worker
    BY <1>5, ResumeEnds
  <2> QED BY <1>0, <2>1, <2>2, EndTyped DEF UIStates, TypeInv, TypeOK
<1>6. CASE ResumeFinishes
  <2>1. PICK q \in Requests :
          /\ \E l \in {ledger[q[1]], AppendFinish(ledger[q[1]], "cancelled"),
                      AppendQueue(ledger[q[1]]), AppendFinish(ledger[q[1]], "failed")} :
               ledger' = [ledger EXCEPT ![q[1]] = l]
          /\ continued' \subseteq Requests
    BY <1>6 DEF ResumeFinishes, TypeInv, TypeOK
  <2>2. q[1] \in Runs
    BY DEF Requests
  <2>3. {ledger[q[1]], AppendFinish(ledger[q[1]], "cancelled"),
         AppendQueue(ledger[q[1]]), AppendFinish(ledger[q[1]], "failed")}
            \subseteq Ledgers(Workers)
    BY <2>2, AppendsTyped DEF TypeInv, TypeOK, TerminalStatus
  <2>4. ledger' \in [Runs -> Ledgers(Workers)]
    BY <2>1, <2>2, <2>3 DEF TypeInv, TypeOK
  <2> QED BY <1>0, <1>6, <2>1, <2>4 DEF ResumeFinishes, IdleUI, TypeInv, TypeOK
<1> QED BY <1>1, <1>3, <1>4, <1>5, <1>6 DEF DesktopStep

\* Every step keeps the types.
LEMMA TypeStep == TypeInv /\ [Next]_vars => TypeInv'
<1> SUFFICES ASSUME TypeInv, [Next]_vars PROVE TypeInv'
  OBVIOUS
<1>1. ASSUME NEW r \in Runs, Enqueue(r) \/ RequestCancel(r) \/ LeaseExpires(r) PROVE TypeInv'
  <2>1. /\ StartRun(ledger[r]) \in Ledgers(Workers)
        /\ AppendCancel(ledger[r]) \in Ledgers(Workers)
        /\ ExpireLease(ledger[r]) \in Ledgers(Workers)
    BY AppendsTyped DEF TypeInv, TypeOK
  <2>2. ledger' \in [Runs -> Ledgers(Workers)]
    BY <1>1, <2>1 DEF Enqueue, RequestCancel, LeaseExpires, TypeInv, TypeOK
  <2>3. UNCHANGED <<worker, ui, toolVars>>
    BY <1>1 DEF Enqueue, RequestCancel, LeaseExpires
  <2> QED BY <2>2, <2>3 DEF TypeInv, TypeOK, Coherent, toolVars
<1>2. ASSUME NEW q \in Requests, NEW o \in Owners, ResourceLeaseExpires(q, o) PROVE TypeInv'
  BY <1>2 DEF ResourceLeaseExpires, TypeInv, TypeOK, Coherent
<1>3. ASSUME NEW w \in Workers, ClaimNext(w) PROVE TypeInv'
  BY <1>3, TakeTyped DEF ClaimNext
<1>4. ASSUME NEW w \in Workers, NEW r \in Runs, ClaimRun(w, r) PROVE TypeInv'
  BY <1>4, TakeTyped DEF ClaimRun
<1>5. ASSUME NEW w \in Workers, WorkerStep(w) PROVE TypeInv'
  BY <1>5, WorkerTyped
<1>6. CASE SweepOnly
  BY <1>6, SweptTyped DEF SweepOnly, TypeInv, TypeOK, Coherent, toolVars
<1>7. CASE DesktopStep
  BY <1>7, DesktopTyped
<1>8. CASE Stops
  BY <1>8, StopsTyped
<1>9. CASE UNCHANGED vars
  BY <1>9 DEF vars, TypeInv, TypeOK, Coherent
<1> QED BY <1>1, <1>2, <1>3, <1>4, <1>5, <1>6, <1>7, <1>8, <1>9 DEF Next, Stops

\* The typed states are closed under every handler.
LEMMA TypeInvariant == Spec => []TypeInv
<1> QED BY TypeInit, TypeStep, PTL DEF Spec

\* Every variable keeps its type: whatever the order of claims, sweeps, crashes
\* and resumes, every event the handlers append can be read back.
THEOREM TypeCorrect == Spec => []TypeOK
<1>1. TypeInv => TypeOK
  BY DEF TypeInv
<1> QED BY <1>1, TypeInvariant, PTL

-----------------------------------------------------------------------------
(* The resource locks.  SingleWriter says nothing of the claims, so it is not *)
(* inductive: the claims must not conflict among themselves, and an executor  *)
(* that cannot outlive its claim must still hold it.                          *)

Apart(claims) == \A g, h \in claims : g # h => ~Conflict(g[1][2], h[1][2])

Locked ==
    \A q \in Requests : \A o \in Executors(q) :
        (HasResource(q[2]) /\ q[2] \notin Outlive) => <<q, o>> \in held

LockInv == Apart(held) /\ Locked

\* Conflict does not depend on who claimed first.
LEMMA ConflictSymmetric ==
    ASSUME NEW t, NEW u, Conflict(t, u)
    PROVE  Conflict(u, t)
  BY DEF Conflict, HasResource

\* A claim made where the resource is free conflicts with none.
LEMMA ClaimedApart ==
    ASSUME NEW q, NEW o, Apart(held), ResourceFree(q)
    PROVE  Apart(Claimed(q, o))
<1> SUFFICES ASSUME NEW g \in Claimed(q, o), NEW h \in Claimed(q, o), g # h
             PROVE  ~Conflict(g[1][2], h[1][2])
  BY DEF Apart
<1>1. \A c \in Claimed(q, o) : c = <<q, o>> \/ (c \in held /\ ~Conflict(q[2], c[1][2]))
                                          \/ (c \in held /\ Claimed(q, o) = held)
  BY DEF Claimed, ResourceFree
<1>2. CASE g \in held /\ h \in held
  BY <1>2 DEF Apart
<1>3. CASE g \notin held
  <2>1. g = <<q, o>> /\ ~Conflict(q[2], h[1][2])
    BY <1>1, <1>3
  <2> QED BY <2>1
<1>4. CASE h \notin held
  <2>1. h = <<q, o>> /\ ~Conflict(q[2], g[1][2])
    BY <1>1, <1>4
  <2> QED BY <2>1, ConflictSymmetric
<1> QED BY <1>2, <1>3, <1>4

\* Starting an execution keeps the locks right: the claim it adds was free.
LEMMA StartLocks ==
    ASSUME TypeOK, LockInv, NEW o \in Threads, NEW q \in Requests, StartExecution(o, q)
    PROVE  LockInv'
<1>1. open' = [open EXCEPT ![q] = @ \cup {o}] /\ held' = Claimed(q, o) /\ ResourceFree(q)
  BY DEF StartExecution, MayStart
<1>2. Apart(held')
  BY <1>1, ClaimedApart DEF LockInv
<1>3. \A p \in Requests : Executors(p)' \subseteq
        (IF p = q THEN Executors(p) \cup {o} ELSE Executors(p))
  BY <1>1 DEF Executors, TypeOK
<1>4. \A p, u : <<p, u>> \in held /\ u # Unstarted => <<p, u>> \in held'
  BY <1>1 DEF Claimed
<1>5. HasResource(q[2]) => <<q, o>> \in held'
  BY <1>1 DEF Claimed
<1>6. ASSUME NEW p \in Requests, NEW u \in Executors(p)', HasResource(p[2]), p[2] \notin Outlive
      PROVE  <<p, u>> \in held'
  <2>1. u # Unstarted
    BY AgentRunsAssumption DEF Executors, Threads
  <2>2. CASE u \in Executors(p)
    BY <1>4, <1>6, <2>1, <2>2 DEF LockInv, Locked
  <2>3. CASE p = q /\ u = o
    BY <1>5, <1>6, <2>3
  <2> QED BY <1>3, <2>2, <2>3
<1> QED BY <1>2, <1>6 DEF LockInv, Locked

\* Recording an outcome releases the claim of the invocation it ends, or
\* leaves it to nobody.
LEMMA EndLocks ==
    ASSUME TypeOK, LockInv, NEW o \in Owners, NEW q \in Requests, NEW ok, Ends(o, q, ok)
    PROVE  LockInv'
<1>1. /\ open' = [open EXCEPT ![q] = @ \ {o}]
      /\ held' = held \ {<<q, o>>}
           \/ (<<q, o>> \in held /\ held' = (held \ {<<q, o>>}) \cup {<<q, Lost>>})
           \/ held' = held
  BY DEF Ends, EndExecution, EvidenceRefused, Ended
<1>2. Apart(held')
  <2>1. CASE held' = (held \ {<<q, o>>}) \cup {<<q, Lost>>} /\ <<q, o>> \in held
    <3>1. \A h \in held : h # <<q, o>> => ~Conflict(q[2], h[1][2]) /\ ~Conflict(h[1][2], q[2])
      BY <2>1 DEF LockInv, Apart
    <3> QED BY <2>1, <3>1 DEF LockInv, Apart
  <2>2. CASE held' \subseteq held
    BY <2>2 DEF LockInv, Apart
  <2> QED BY <1>1, <2>1, <2>2
<1>3. \A p \in Requests : \A u \in Executors(p)' : u \in Executors(p) /\ <<p, u>> # <<q, o>>
  BY <1>1 DEF Executors, TypeOK
<1>4. Locked'
  BY <1>1, <1>3 DEF LockInv, Locked
<1> QED BY <1>2, <1>4 DEF LockInv

\* After a stop nothing executes.
LEMMA StopsExecutors ==
    ASSUME TypeInv, Stops, NEW q \in Requests
    PROVE  Executors(q)' = {}
<1>1. open'[q] \subseteq {Lost, Unstarted}
  BY StopsEffect
<1> QED BY <1>1, AgentRunsAssumption DEF Executors, Threads

\* A stop leaves every claim to nobody.
LEMMA StopsLocks ==
    ASSUME TypeInv, LockInv, Stops
    PROVE  LockInv'
<1>1. \E c : Apart(c) /\ held' = {<<h[1], Left(h[2])>> : h \in c}
  <2>1. CASE Crash
    BY <2>1 DEF Crash, Stop, LockInv
  <2>2. ASSUME NEW q \in Requests, NEW o \in Threads, CrashInStart(o, q)
        PROVE  \E u : held' = {<<h[1], Left(h[2])>> : h \in Claimed(q, u)} /\ Apart(Claimed(q, u))
    <3>1. \A u : Apart(Claimed(q, u))
      BY <2>2, ClaimedApart DEF CrashInStart, MayStart, LockInv
    <3> QED BY <2>2, <3>1 DEF CrashInStart, Stop
  <2>3. ASSUME NEW q \in Requests, NEW o \in Threads, NEW ok \in BOOLEAN, CrashInEnd(o, q, ok)
        PROVE  \E c \in {held, held \ {<<q, o>>}} : held' = {<<h[1], Left(h[2])>> : h \in c}
    BY <2>3 DEF CrashInEnd, Stop
  <2>4. \A c \in SUBSET held : Apart(c)
    BY DEF LockInv, Apart
  <2> QED BY <2>1, <2>2, <2>3, <2>4 DEF Stops
<1>2. PICK c : Apart(c) /\ held' = {<<h[1], Left(h[2])>> : h \in c}
  BY <1>1
<1>3. Apart(held')
  BY <1>2 DEF Apart
<1>4. Locked'
  BY StopsExecutors DEF Locked
<1> QED BY <1>3, <1>4 DEF LockInv

\* Steps that touch neither the claims nor the invocations.
LEMMA FrameLocks ==
    ASSUME LockInv, UNCHANGED <<open, held>>
    PROVE  LockInv'
  BY DEF LockInv, Apart, Locked, Executors

\* Every step keeps the locks right.
LEMMA LockStep == TypeInv /\ LockInv /\ [Next]_vars => LockInv'
<1> SUFFICES ASSUME TypeInv, LockInv, [Next]_vars PROVE LockInv'
  OBVIOUS
<1>0. TypeOK /\ UI \in Threads /\ UI \in Owners
  BY DEF TypeInv, Owners, Threads
<1>1. ASSUME NEW r \in Runs, Enqueue(r) \/ RequestCancel(r) \/ LeaseExpires(r) PROVE LockInv'
  BY <1>1, FrameLocks DEF Enqueue, RequestCancel, LeaseExpires, toolVars
<1>2. ASSUME NEW q \in Requests, NEW o \in Owners, ResourceLeaseExpires(q, o) PROVE LockInv'
  <2>1. held' = held \ {<<q, o>>} /\ (o \notin Threads \/ q[2] \in Outlive) /\ UNCHANGED open
    BY <1>2 DEF ResourceLeaseExpires
  <2>2. Apart(held')
    BY <2>1 DEF LockInv, Apart
  <2>3. Locked'
    BY <2>1 DEF LockInv, Locked, Executors
  <2> QED BY <2>2, <2>3 DEF LockInv
<1>3. ASSUME NEW w \in Workers, ClaimNext(w) \/ \E r \in Runs : ClaimRun(w, r) PROVE LockInv'
  BY <1>3, FrameLocks DEF ClaimNext, ClaimRun, Take, toolVars
<1>4. ASSUME NEW w \in Workers, WorkerStep(w) PROVE LockInv'
  <2>0. w \in Threads /\ w \in Owners /\ worker[w] \in WorkerStates /\ Coherent
    BY DEF Owners, Threads, TypeInv, TypeOK
  <2>1. ASSUME NEW t \in Tools, WorkerStartsTool(w, t) PROVE LockInv'
    <3>1. RequestOf(w, t) \in Requests /\ StartExecution(w, RequestOf(w, t))
      BY <2>0, <2>1 DEF WorkerStartsTool, RequestOf, Requests, Coherent
    <3> QED BY <1>0, <2>0, <3>1, StartLocks
  <2>2. ASSUME NEW ok \in BOOLEAN, WorkerEndsTool(w, ok) \/ WorkerEvidenceRefused(w, ok)
        PROVE  LockInv'
    BY <1>0, <2>0, <2>2, WorkerEnds, EndLocks
  <2>3. CASE Heartbeat(w) \/ HeartbeatRefused(w)
    BY <2>3, FrameLocks DEF Heartbeat, HeartbeatRefused, toolVars
  <2>4. ASSUME NEW t \in Tools, WorkerToolBlocked(w, t) \/ WorkerAsks(w, t) PROVE LockInv'
    BY <2>4, FrameLocks DEF WorkerToolBlocked, BlockDispatch, WorkerAsks, AskFirst, toolVars
  <2>5. ASSUME NEW out \in Outcomes, WorkerReturns(w, out) PROVE LockInv'
    BY <2>5, FrameLocks DEF WorkerReturns, toolVars
  <2>6. CASE WorkerReadsCancel(w) \/ WorkerCommits(w)
    BY <2>6, FrameLocks DEF WorkerReadsCancel, WorkerCommits, toolVars
  <2> QED BY <1>4, <2>1, <2>2, <2>3, <2>4, <2>5, <2>6 DEF WorkerStep
<1>5. CASE SweepOnly
  BY <1>5, FrameLocks DEF SweepOnly, toolVars
<1>6. CASE DesktopStep
  <2>1. ASSUME NEW q \in Requests, ResumeDispatch(q) PROVE LockInv'
    <3>1. CASE StartExecution(UI, q)
      BY <1>0, <3>1, StartLocks
    <3>2. CASE AskFirst(UI, q) \/ BlockDispatch(q) \/ UNCHANGED <<ledger, toolVars>>
      BY <3>2, FrameLocks DEF AskFirst, BlockDispatch, toolVars
    <3> QED BY <2>1, <3>1, <3>2 DEF ResumeDispatch
  <2>2. ASSUME NEW ok \in BOOLEAN, ResumeEndsTool(ok) \/ ResumeEvidenceRefused(ok) PROVE LockInv'
    BY <1>0, <2>2, ResumeEnds, EndLocks
  <2>3. ASSUME NEW q \in Requests, NEW v, ResolveApproval(q, v) \/ ResumeUnavailable(q)
        PROVE  LockInv'
    BY <2>3, FrameLocks DEF ResolveApproval, ResumeUnavailable, toolVars
  <2>4. CASE ResumeFinishes
    BY <2>4, FrameLocks DEF ResumeFinishes
  <2> QED BY <1>6, <2>1, <2>2, <2>3, <2>4 DEF DesktopStep
<1>7. CASE Stops
  BY <1>7, StopsLocks
<1>8. CASE UNCHANGED vars
  BY <1>8, FrameLocks DEF vars
<1> QED BY <1>1, <1>2, <1>3, <1>4, <1>5, <1>6, <1>7, <1>8 DEF Next, Stops

\* The locks are right in every reachable state.
LEMMA LocksInvariant == Spec => []LockInv
<1>1. Init => LockInv
  BY DEF Init, LockInv, Apart, Locked, Executors
<1> QED BY <1>1, TypeInvariant, LockStep, PTL DEF Spec

\* claim_agent_run_resource keeps every resource single-writer, whatever runs,
\* workers and cards compete for it and wherever the process crashes, as long
\* as the conflicting tools do not outlive their resource leases.
THEOREM OneWriter == Spec => []SingleWriter
<1>1. LockInv => SingleWriter
  <2> SUFFICES ASSUME LockInv,
                      NEW p \in Requests, NEW q \in Requests,
                      NEW o \in Executors(p), NEW u \in Executors(q),
                      <<p, o>> # <<q, u>>, p[2] \notin Outlive, q[2] \notin Outlive,
                      Conflict(p[2], q[2])
               PROVE  FALSE
    BY DEF SingleWriter
  <2>1. HasResource(p[2]) /\ HasResource(q[2])
    BY DEF Conflict, HasResource
  <2>2. <<p, o>> \in held /\ <<q, u>> \in held
    BY <2>1 DEF LockInv, Locked
  <2> QED BY <2>2 DEF LockInv, Apart
<1> QED BY <1>1, LocksInvariant, PTL

-----------------------------------------------------------------------------
(* A verified write is not repeated.  An executor that is to report is still  *)
(* recorded as running, so it holds its claim, and its success finds no other *)
(* executor of the same write.                                                *)

Reporting ==
    /\ \A w \in Workers : worker[w].pc = "tool" =>
           \A t \in worker[w].tool : w \in open[RequestOf(w, t)]
    /\ ui.pc = "tool" => \A q \in ui.req : UI \in open[q]

VerifiedInv == Reporting /\ VerifiedOnce

\* A dispatch of a request is refused once its success is recorded.
LEMMA StartVerified ==
    ASSUME TypeOK, VerifiedOnce, NEW o \in Owners, NEW q \in Requests, StartExecution(o, q)
    PROVE  VerifiedOnce'
  BY DEF StartExecution, MayStart, Reused, VerifiedOnce, Executors, TypeOK

\* A recorded success is the only executor of its write.
LEMMA EndVerified ==
    ASSUME TypeOK, LockInv, VerifiedOnce, NEW o \in Threads, NEW q \in Requests, NEW ok,
           o \in open[q], Ends(o, q, ok)
    PROVE  VerifiedOnce'
<1>1. /\ open' = [open EXCEPT ![q] = @ \ {o}]
      /\ done' \subseteq done \cup {q}
  BY DEF Ends, EndExecution, EvidenceRefused, Ended, Outcome
<1> SUFFICES ASSUME NEW p \in done', NEW u \in Executors(p)',
                    HasResource(p[2]), p[2] \in WriteTools \ Outlive
             PROVE  FALSE
  BY DEF VerifiedOnce
<1>2. p \in Requests /\ u \in Executors(p)
  BY <1>1 DEF Executors, TypeOK
<1>3. p \notin done
  BY <1>2 DEF VerifiedOnce
<1>4. p = q /\ u # o /\ o \in Executors(q)
  BY <1>1, <1>3 DEF Executors, TypeOK
<1>5. <<q, u>> \in held /\ <<q, o>> \in held
  BY <1>2, <1>4 DEF LockInv, Locked
<1>6. Conflict(q[2], q[2])
  BY <1>4 DEF Conflict
<1> QED BY <1>4, <1>5, <1>6 DEF LockInv, Apart

\* Steps that leave invocations and successes alone keep both; so does a
\* worker that goes anywhere but to a tool.
LEMMA FrameVerified ==
    ASSUME VerifiedInv, UNCHANGED <<open, done>>,
           \A w \in Workers : worker'[w] = worker[w] \/ worker'[w].pc # "tool"
                                 \/ (/\ worker'[w].pc = worker[w].pc
                                    /\ worker'[w].tool = worker[w].tool
                                    /\ worker'[w].run = worker[w].run),
           ui' = ui \/ ui'.pc # "tool"
    PROVE  VerifiedInv'
<1>1. VerifiedOnce'
  BY DEF VerifiedInv, VerifiedOnce, Executors
<1>2. Reporting'
  BY DEF VerifiedInv, Reporting, RequestOf
<1> QED BY <1>1, <1>2 DEF VerifiedInv

\* Every step keeps verified writes verified.
LEMMA VerifiedStep == TypeInv /\ LockInv /\ VerifiedInv /\ [Next]_vars => VerifiedInv'
<1> SUFFICES ASSUME TypeInv, LockInv, VerifiedInv, [Next]_vars PROVE VerifiedInv'
  OBVIOUS
<1>0. /\ TypeOK /\ Coherent /\ VerifiedOnce /\ Reporting
      /\ UI \in Owners /\ UI \in Threads /\ UI \notin Workers
  BY AgentRunsAssumption DEF TypeInv, VerifiedInv, Owners, Threads
<1>1. ASSUME NEW r \in Runs, Enqueue(r) \/ RequestCancel(r) \/ LeaseExpires(r)
      PROVE  VerifiedInv'
  BY <1>1, FrameVerified DEF Enqueue, RequestCancel, LeaseExpires, toolVars
<1>2. ASSUME NEW q \in Requests, NEW o \in Owners, ResourceLeaseExpires(q, o)
      PROVE  VerifiedInv'
  BY <1>2, FrameVerified DEF ResourceLeaseExpires
<1>3. ASSUME NEW w \in Workers, NEW r \in Runs, Take(w, r, Swept) PROVE VerifiedInv'
  BY <1>0, <1>3, FrameVerified DEF Take, toolVars, TypeOK, IdleWorker
<1>4. ASSUME NEW w \in Workers, WorkerStep(w) PROVE VerifiedInv'
  <2>0. w \in Owners /\ w \in Threads /\ w # UI /\ worker[w] \in WorkerStates
    BY <1>0 DEF Owners, Threads, TypeOK
  <2>1. ASSUME NEW t \in Tools, WorkerStartsTool(w, t) PROVE VerifiedInv'
    <3> DEFINE q == RequestOf(w, t)
    <3>1. /\ q \in Requests /\ StartExecution(w, q) /\ UNCHANGED ui
          /\ open' = [open EXCEPT ![q] = @ \cup {w}]
          /\ worker' = [worker EXCEPT ![w].pc = "tool", ![w].tool = {t}]
      BY <1>0, <2>1 DEF WorkerStartsTool, StartExecution, RequestOf, Requests, Coherent
    <3>2. VerifiedOnce'
      BY <1>0, <2>0, <3>1, StartVerified
    <3>3. \A p \in Requests : open[p] \subseteq open'[p]
      BY <1>0, <3>1 DEF TypeOK
    <3>4. ASSUME NEW v \in Workers, worker'[v].pc = "tool", NEW u \in worker'[v].tool
          PROVE  v \in open'[<<worker'[v].run, u>>]
      <4>1. CASE v = w
        <5>1. u = t /\ worker'[v].run = worker[w].run
          BY <1>0, <2>0, <3>1, <3>4, <4>1 DEF TypeOK, WorkerStates
        <5>2. w \in open'[q]
          BY <1>0, <3>1 DEF TypeOK
        <5> QED BY <4>1, <5>1, <5>2 DEF RequestOf
      <4>2. CASE v # w
        <5>1. worker'[v] = worker[v]
          BY <1>0, <3>1, <4>2 DEF TypeOK
        <5>2. RequestOf(v, u) \in Requests /\ v \in open[RequestOf(v, u)]
          BY <1>0, <3>4, <5>1 DEF RequestOf, Requests, Coherent, Reporting, TypeOK, WorkerStates
        <5> QED BY <3>3, <5>1, <5>2 DEF RequestOf
      <4> QED BY <4>1, <4>2
    <3>5. ui'.pc = "tool" => \A p \in ui'.req : UI \in open'[p]
      BY <1>0, <3>1, <3>3 DEF Reporting, TypeOK
    <3>6. Reporting'
      BY <3>4, <3>5 DEF Reporting, RequestOf
    <3> QED BY <3>2, <3>6 DEF VerifiedInv
  <2>2. ASSUME NEW ok \in BOOLEAN, WorkerEndsTool(w, ok) \/ WorkerEvidenceRefused(w, ok)
        PROVE  VerifiedInv'
    <3>1. PICK t \in worker[w].tool :
            RequestOf(w, t) \in Requests /\ Ends(w, RequestOf(w, t), ok)
      BY <2>2, WorkerEnds
    <3> DEFINE q == RequestOf(w, t)
    <3>2. PICK v : worker' = [worker EXCEPT ![w] = v] /\ v.pc \in {"working", "ending"}
      BY <2>2, WorkerEnds
    <3>3. w \in open[q] /\ UNCHANGED ui
      BY <1>0, <2>2, <3>1, WorkerEnds DEF Reporting
    <3>4. VerifiedOnce'
      BY <1>0, <2>0, <3>1, <3>3, EndVerified
    <3>5. /\ \A p \in Requests, u \in Threads : u # w /\ u \in open[p] => u \in open'[p]
          /\ worker'[w].pc # "tool"
          /\ \A u \in Workers : u # w => worker'[u] = worker[u]
      BY <1>0, <3>1, <3>2 DEF Ends, EndExecution, EvidenceRefused, Ended, TypeOK
    <3>6. ASSUME NEW u \in Workers, worker'[u].pc = "tool", NEW x \in worker'[u].tool
          PROVE  u \in open'[<<worker'[u].run, x>>]
      <4>1. u # w /\ worker'[u] = worker[u]
        BY <3>5, <3>6
      <4>2. RequestOf(u, x) \in Requests /\ u \in open[RequestOf(u, x)] /\ u \in Threads
        BY <1>0, <3>6, <4>1 DEF RequestOf, Requests, Coherent, Reporting, TypeOK, WorkerStates,
           Threads
      <4> QED BY <3>5, <4>1, <4>2 DEF RequestOf
    <3>7. ui'.pc = "tool" => \A p \in ui'.req : UI \in open'[p]
      BY <1>0, <2>0, <3>3, <3>5 DEF Reporting, TypeOK
    <3> QED BY <3>4, <3>6, <3>7 DEF VerifiedInv, Reporting, RequestOf
  <2>3. CASE Heartbeat(w) \/ HeartbeatRefused(w)
    BY <1>0, <2>3, FrameVerified DEF Heartbeat, HeartbeatRefused, toolVars, TypeOK, WorkerStates
  <2>4. ASSUME NEW t \in Tools, WorkerToolBlocked(w, t) \/ WorkerAsks(w, t) PROVE VerifiedInv'
    BY <1>0, <2>4, FrameVerified
    DEF WorkerToolBlocked, BlockDispatch, WorkerAsks, AskFirst, toolVars, TypeOK, WorkerStates
  <2>5. ASSUME NEW out \in Outcomes, WorkerReturns(w, out) PROVE VerifiedInv'
    BY <1>0, <2>5, WorkerReturned, FrameVerified DEF WorkerReturns, toolVars, TypeInv, TypeOK
  <2>6. CASE WorkerReadsCancel(w) \/ WorkerCommits(w)
    BY <1>0, <2>6, FrameVerified
    DEF WorkerReadsCancel, WorkerCommits, IdleWorker, toolVars, TypeOK, WorkerStates
  <2> QED BY <1>4, <2>1, <2>2, <2>3, <2>4, <2>5, <2>6 DEF WorkerStep
<1>5. CASE SweepOnly
  BY <1>5, FrameVerified DEF SweepOnly, toolVars
<1>6. CASE DesktopStep
  <2>1. ASSUME NEW q \in Requests, ResumeDispatch(q) PROVE VerifiedInv'
    <3>1. CASE StartExecution(UI, q) /\ ui' = [pc |-> "tool", req |-> {q}, res |-> "none"]
      <4>1. VerifiedOnce'
        BY <1>0, <3>1, StartVerified
      <4>2. Reporting'
        <5>1. /\ open' = [open EXCEPT ![q] = @ \cup {UI}]
              /\ UNCHANGED worker /\ ui'.pc = "tool" /\ ui'.req = {q}
          BY <2>1, <3>1 DEF ResumeDispatch, StartExecution
        <5>2. \A p \in Requests : open[p] \subseteq open'[p]
          BY <1>0, <5>1 DEF TypeOK
        <5>3. ASSUME NEW w \in Workers, worker[w].pc = "tool", NEW t \in worker[w].tool
              PROVE  w \in open'[RequestOf(w, t)]
          <6>1. RequestOf(w, t) \in Requests /\ w \in open[RequestOf(w, t)]
            BY <1>0, <5>3 DEF RequestOf, Requests, Coherent, Reporting, TypeOK, WorkerStates
          <6> QED BY <5>2, <6>1
        <5>4. UI \in open'[q]
          BY <1>0, <5>1 DEF TypeOK
        <5> QED BY <5>1, <5>3, <5>4 DEF Reporting, RequestOf
      <4> QED BY <4>1, <4>2 DEF VerifiedInv
    <3>2. CASE /\ AskFirst(UI, q) \/ BlockDispatch(q) \/ UNCHANGED <<ledger, toolVars>>
               /\ ui'.pc # "tool"
      BY <2>1, <3>2, FrameVerified DEF ResumeDispatch, AskFirst, BlockDispatch, toolVars
    <3> QED BY <2>1, <3>1, <3>2 DEF ResumeDispatch
  <2>2. ASSUME NEW ok \in BOOLEAN, ResumeEndsTool(ok) \/ ResumeEvidenceRefused(ok)
        PROVE  VerifiedInv'
    <3>1. PICK q \in ui.req : q \in Requests /\ Ends(UI, q, ok)
      BY <2>2, ResumeEnds
    <3>2. UI \in open[q] /\ UNCHANGED worker /\ ui'.pc # "tool"
      BY <1>0, <2>2, <3>1, ResumeEnds DEF Reporting
    <3>3. VerifiedOnce'
      BY <1>0, <3>1, <3>2, EndVerified
    <3>4. \A p \in Requests, u \in Workers : u \in open[p] => u \in open'[p]
      BY <1>0, <3>1 DEF Ends, EndExecution, EvidenceRefused, Ended, TypeOK
    <3>5. \A u \in Workers : worker[u].pc = "tool" =>
            \A x \in worker[u].tool : RequestOf(u, x) \in Requests
      BY <1>0 DEF RequestOf, Requests, Coherent, TypeOK, WorkerStates
    <3>6. Reporting'
      BY <1>0, <3>2, <3>4, <3>5 DEF Reporting, RequestOf
    <3> QED BY <3>3, <3>6 DEF VerifiedInv
  <2>3. ASSUME NEW q \in Requests, NEW v, ResolveApproval(q, v) \/ ResumeUnavailable(q)
        PROVE  VerifiedInv'
    BY <2>3, FrameVerified DEF ResolveApproval, ResumeUnavailable, toolVars
  <2>4. CASE ResumeFinishes
    BY <2>4, FrameVerified DEF ResumeFinishes, IdleUI
  <2> QED BY <1>6, <2>1, <2>2, <2>3, <2>4 DEF DesktopStep
<1>7. CASE Stops
  <2>1. VerifiedOnce'
    BY <1>7, StopsExecutors, StopsEffect DEF VerifiedOnce
  <2>2. Reporting'
    BY <1>7, StopsEffect DEF Reporting, IdleWorker, IdleUI
  <2> QED BY <2>1, <2>2 DEF VerifiedInv
<1>8. CASE UNCHANGED vars
  BY <1>8, FrameVerified DEF vars
<1> QED BY <1>1, <1>2, <1>3, <1>4, <1>5, <1>6, <1>7, <1>8 DEF Next, ClaimNext, ClaimRun, Stops

\* A write whose success was verified is never in execution again, by a zombie
\* worker, by the worker its run was recovered to, or by an approval card.
THEOREM VerifiedWritesOnce == Spec => []VerifiedOnce
<1>1. Init => VerifiedInv
  BY DEF Init, VerifiedInv, Reporting, VerifiedOnce, IdleWorker, IdleUI
<1>2. VerifiedInv => VerifiedOnce
  BY DEF VerifiedInv
<1> QED BY <1>1, <1>2, TypeInvariant, LocksInvariant, VerifiedStep, PTL DEF Spec


-----------------------------------------------------------------------------
(* Cancellation. *)

\* Only the two dispatches start an executor.
LEMMA StartersOnly ==
    ASSUME TypeInv, [Next]_vars, NEW q \in Requests, NEW o \in Owners, Starts(q, o)
    PROVE  \/ \E t \in Tools : o \in Workers /\ q = RequestOf(o, t) /\ WorkerStartsTool(o, t)
           \/ q \in delivered /\ MayTransition(ledger[q[1]]) /\ StartExecution(UI, q)
<1>0. /\ TypeOK /\ Coherent
      /\ o \in Threads /\ o \in open'[q] /\ o \notin open[q]
  BY DEF TypeInv, Starts
<1>1. ASSUME UNCHANGED open PROVE FALSE
  BY <1>0, <1>1
<1>2. ASSUME NEW p \in Requests, NEW u \in Owners, NEW ok, Ends(u, p, ok) PROVE FALSE
  BY <1>0, <1>2 DEF Ends, EndExecution, EvidenceRefused, Ended, TypeOK
<1>3. ASSUME NEW p \in Requests, NEW u \in Owners, StartExecution(u, p) PROVE q = p /\ o = u
  BY <1>0, <1>3 DEF StartExecution, TypeOK
<1>4. ASSUME NEW w \in Workers, WorkerStep(w)
      PROVE  \E t \in Tools : o \in Workers /\ q = RequestOf(o, t) /\ WorkerStartsTool(o, t)
  <2>0. w \in Owners /\ worker[w] \in WorkerStates
    BY <1>0 DEF Owners, Threads, TypeOK
  <2>1. ASSUME NEW t \in Tools, WorkerStartsTool(w, t)
        PROVE  o = w /\ q = RequestOf(w, t)
    <3>1. RequestOf(w, t) \in Requests /\ StartExecution(w, RequestOf(w, t))
      BY <1>0, <2>1 DEF WorkerStartsTool, RequestOf, Requests, Coherent
    <3> QED BY <1>3, <2>0, <3>1
  <2>2. ASSUME NEW ok \in BOOLEAN, WorkerEndsTool(w, ok) \/ WorkerEvidenceRefused(w, ok)
        PROVE  FALSE
    BY <1>2, <2>0, <2>2, WorkerEnds
  <2>3. CASE \/ Heartbeat(w) \/ HeartbeatRefused(w) \/ WorkerReadsCancel(w) \/ WorkerCommits(w)
             \/ \E t \in Tools : WorkerToolBlocked(w, t) \/ WorkerAsks(w, t)
             \/ \E out \in Outcomes : WorkerReturns(w, out)
    BY <1>1, <2>3 DEF Heartbeat, HeartbeatRefused, WorkerToolBlocked, BlockDispatch,
       WorkerAsks, AskFirst, WorkerReturns, WorkerReadsCancel, WorkerCommits, toolVars
  <2> QED BY <1>4, <2>1, <2>2, <2>3 DEF WorkerStep
<1>5. ASSUME DesktopStep
      PROVE  q \in delivered /\ MayTransition(ledger[q[1]]) /\ StartExecution(UI, q)
  <2>0. UI \in Owners
    BY DEF Owners, Threads
  <2>1. ASSUME NEW p \in Requests, ResumeDispatch(p)
        PROVE  q \in delivered /\ MayTransition(ledger[q[1]]) /\ StartExecution(UI, q)
    <3>1. CASE StartExecution(UI, p) /\ MayTransition(ledger[p[1]])
      BY <1>3, <2>0, <2>1, <3>1 DEF ResumeDispatch
    <3>2. CASE AskFirst(UI, p) \/ BlockDispatch(p) \/ UNCHANGED <<ledger, toolVars>>
      BY <1>1, <3>2 DEF AskFirst, BlockDispatch, toolVars
    <3> QED BY <2>1, <3>1, <3>2 DEF ResumeDispatch
  <2>2. ASSUME NEW ok \in BOOLEAN, ResumeEndsTool(ok) \/ ResumeEvidenceRefused(ok) PROVE FALSE
    BY <1>2, <2>0, <2>2, ResumeEnds
  <2>3. CASE \/ \E p \in Requests : \/ ResumeUnavailable(p)
                                    \/ \E v \in {"granted", "rejected"} : ResolveApproval(p, v)
             \/ ResumeFinishes
    BY <1>1, <2>3 DEF ResolveApproval, ResumeUnavailable, ResumeFinishes, toolVars
  <2> QED BY <1>5, <2>1, <2>2, <2>3 DEF DesktopStep
<1>6. CASE \/ \E r \in Runs : Enqueue(r) \/ RequestCancel(r) \/ LeaseExpires(r)
           \/ \E p \in Requests, u \in Owners : ResourceLeaseExpires(p, u)
           \/ \E w \in Workers : ClaimNext(w) \/ \E r \in Runs : ClaimRun(w, r)
           \/ SweepOnly
           \/ UNCHANGED vars
  BY <1>1, <1>6 DEF Enqueue, RequestCancel, LeaseExpires, ResourceLeaseExpires, ClaimNext,
     ClaimRun, Take, SweepOnly, toolVars, vars
<1>7. CASE Stops
  BY <1>0, <1>7, StopsExecutors DEF Executors
<1> QED BY <1>4, <1>5, <1>6, <1>7 DEF Next, Stops

\* authorize_agent_tool_execution reads the cancel request in the same store
\* operation that starts the executor, so no tool is dispatched after it, by
\* a worker or by an approval card.
THEOREM CancelBeforeDispatch == Spec => CancelStopsDispatch
<1>1. TypeInv /\ [Next]_vars =>
        [\A q \in Requests, o \in Owners : Starts(q, o) => ~ledger[q[1]].cancel]_vars
  <2> SUFFICES ASSUME TypeInv, [Next]_vars, NEW q \in Requests, NEW o \in Owners, Starts(q, o)
               PROVE  ~ledger[q[1]].cancel
    OBVIOUS
  <2>1. CASE q \in delivered /\ MayTransition(ledger[q[1]]) /\ StartExecution(UI, q)
    BY <2>1 DEF MayTransition
  <2>2. ASSUME NEW t \in Tools, q = RequestOf(o, t), WorkerStartsTool(o, t)
        PROVE  ~ledger[q[1]].cancel
    BY <2>2 DEF WorkerStartsTool, MayTransition
  <2> QED BY <2>1, <2>2, StartersOnly
<1> QED BY <1>1, TypeInvariant, PTL DEF Spec, CancelStopsDispatch

-----------------------------------------------------------------------------
(* The queue, for one run.  Its ledger is not queued under a live lease, nor  *)
(* while an invocation that got to its executor is recorded as running,       *)
(* whatever its lease; and no worker is on it while it has a lost invocation. *)
(* Only a continuation that an approved action queued breaks this: that of    *)
(* another run does not.                                                      *)

NotQueued(l) == l.latest \in {"claim", "transition"}

Settled(l) == l.trans # "queued" /\ (l.live => NotQueued(l))

Executed(r) == \E t \in Tools : open[<<r, t>>] \ {Unstarted} # {}

QueueInv(r) ==
    /\ Settled(ledger[r])
    /\ Executed(r) => NotQueued(ledger[r])
    /\ \A t \in Tools, w \in Workers : Lost \in open[<<r, t>>] => ~Busy(w, r)

\* A verified success of one of the run's approved actions has queued it again.
Continued(r) == \E t \in Tools : <<r, t>> \in continued

\* What each append does to a ledger that is settled.
LEMMA SettledAppends ==
    ASSUME NEW l \in Ledgers(Workers), Settled(l)
    PROVE  /\ Settled(StartRun(l)) /\ (NotQueued(l) => NotQueued(StartRun(l)))
           /\ Settled(AppendCancel(l)) /\ (NotQueued(l) => NotQueued(AppendCancel(l)))
           /\ \A s \in TerminalStatus :
                 Settled(AppendFinish(l, s)) /\ (NotQueued(l) => NotQueued(AppendFinish(l, s)))
           /\ Settled(ExpireLease(l))
           /\ NotQueued(l) => NotQueued(ExpireLease(l))
           /\ \A w \in Workers : Settled(AppendClaim(l, w)) /\ NotQueued(AppendClaim(l, w))
           /\ \A s \in TransitionStatus \ {"queued"} :
                 /\ Settled(AppendTransition(l, s))
                 /\ NotQueued(l) => NotQueued(AppendTransition(l, s))
                 /\ MayTransition(l) => NotQueued(AppendTransition(l, s))
<1> USE DEF Settled, NotQueued, Ledgers
<1>1. /\ Settled(StartRun(l)) /\ (NotQueued(l) => NotQueued(StartRun(l)))
      /\ Settled(AppendCancel(l)) /\ (NotQueued(l) => NotQueued(AppendCancel(l)))
  BY DEF StartRun, AppendCancel
<1>2. \A s \in TerminalStatus :
        Settled(AppendFinish(l, s)) /\ (NotQueued(l) => NotQueued(AppendFinish(l, s)))
  BY DEF AppendFinish
<1>3. /\ Settled(ExpireLease(l))
      /\ NotQueued(l) => NotQueued(ExpireLease(l))
  BY DEF ExpireLease
<1>4. \A w \in Workers : Settled(AppendClaim(l, w)) /\ NotQueued(AppendClaim(l, w))
  BY DEF AppendClaim
<1>5. ASSUME NEW s \in TransitionStatus \ {"queued"}
      PROVE  /\ Settled(AppendTransition(l, s))
             /\ NotQueued(l) => NotQueued(AppendTransition(l, s))
             /\ MayTransition(l) => NotQueued(AppendTransition(l, s))
  <2>1. CASE MayTransition(l)
    BY <2>1 DEF AppendTransition
  <2>2. CASE ~MayTransition(l)
    BY <2>2 DEF AppendTransition
  <2> QED BY <2>1, <2>2
<1> QED BY <1>1, <1>2, <1>3, <1>4, <1>5

\* A settled ledger reads queued only when its newest event queued it.
LEMMA QueuedStatus ==
    ASSUME NEW l \in Ledgers(Workers), Settled(l), Claimable(l)
    PROVE  ~NotQueued(l) /\ ~l.live
  BY DEF Settled, NotQueued, Claimable, StatusOf, BaseStatus, Ledgers, TerminalStatus

\* The sweep re-queues only runs whose lease ran out and whose tools all have a
\* recorded outcome, those that executed among them.
LEMMA SettledRecovered ==
    ASSUME NEW l \in Ledgers(Workers), Settled(l),
           NEW b \in BOOLEAN, NEW e \in BOOLEAN, e => b /\ NotQueued(l),
           NEW k, k = Recovered(l, b)
    PROVE  /\ k \in Ledgers(Workers) /\ Settled(k)
           /\ e => NotQueued(k)
           /\ Claimable(k) => ~l.live /\ ~e
<1>1. k \in Ledgers(Workers)
  BY RecoveredTyped
<1>2. CASE ~LeaseExpired(l)
  <2>1. k = l
    BY <1>2 DEF Recovered
  <2> QED BY <2>1, QueuedStatus
<1>3. CASE LeaseExpired(l) /\ l.cancel
  <2>1. k = AppendFinish(l, "cancelled")
    BY <1>3 DEF Recovered
  <2>2. Settled(k) /\ (NotQueued(l) => NotQueued(k))
    BY <2>1, SettledAppends DEF TerminalStatus
  <2> QED BY <1>1, <1>3, <2>2, QueuedStatus DEF LeaseExpired
<1>4. CASE LeaseExpired(l) /\ ~l.cancel /\ b
  <2>1. k = AppendTransition(l, "blocked")
    BY <1>4 DEF Recovered
  <2>2. MayTransition(l)
    BY <1>4 DEF LeaseExpired, MayTransition, TerminalStatus
  <2>3. Settled(k) /\ NotQueued(k)
    BY <2>1, <2>2, SettledAppends DEF TransitionStatus
  <2> QED BY <1>1, <2>3, QueuedStatus
<1>5. CASE LeaseExpired(l) /\ ~l.cancel /\ ~b
  <2>1. k = AppendQueue(l) /\ ~l.live
    BY <1>5 DEF Recovered, LeaseExpired
  <2>2. Settled(k)
    BY <2>1 DEF AppendQueue, Settled, NotQueued, Ledgers
  <2> QED BY <1>1, <1>5, <2>1, <2>2
<1> QED BY <1>1, <1>2, <1>3, <1>4, <1>5

\* The sweep, at one run.
LEMMA SweptSettled ==
    ASSUME TypeInv, NEW r \in Runs, QueueInv(r)
    PROVE  /\ Swept[r] \in Ledgers(Workers) /\ Settled(Swept[r])
           /\ Executed(r) => NotQueued(Swept[r])
           /\ Claimable(Swept[r]) => ~ledger[r].live /\ ~Executed(r)
<1>1. Swept[r] = Recovered(ledger[r], Indeterminate(r))
  BY DEF Swept
<1>2. Indeterminate(r) \in BOOLEAN /\ Executed(r) \in BOOLEAN
  BY DEF Indeterminate, Executed
<1>3. ledger[r] \in Ledgers(Workers) /\ Settled(ledger[r])
      /\ (Executed(r) => Indeterminate(r) /\ NotQueued(ledger[r]))
  BY DEF TypeInv, TypeOK, QueueInv, Indeterminate, Executed
<1> QED BY <1>1, <1>2, <1>3, SettledRecovered

\* A step that writes one ledger.  It may start an executor of the run, if it
\* leaves the run unqueued; it loses none, and nobody takes the run.
LEMMA OneLedgerQueue ==
    ASSUME TypeInv, NEW r \in Runs, QueueInv(r), NEW s \in Runs, NEW k,
           ledger' = [ledger EXCEPT ![s] = k],
           s = r => /\ Settled(k)
                    /\ NotQueued(ledger[r]) => NotQueued(k),
           Executed(r)' => Executed(r) \/ (s = r /\ NotQueued(k)),
           \A t \in Tools : Lost \in open'[<<r, t>>] => Lost \in open[<<r, t>>],
           \A w \in Workers : Busy(w, r)' => Busy(w, r)
    PROVE  QueueInv(r)'
<1>1. ledger'[r] = IF s = r THEN k ELSE ledger[r]
  BY DEF TypeInv, TypeOK
<1>2. Settled(ledger'[r]) /\ (Executed(r)' => NotQueued(ledger'[r]))
  BY <1>1 DEF QueueInv
<1>3. \A t \in Tools, w \in Workers : Lost \in open'[<<r, t>>] => ~Busy(w, r)'
  BY DEF QueueInv
<1> QED BY <1>2, <1>3 DEF QueueInv

\* A step that writes no ledger and starts nothing.
LEMMA NoLedgerQueue ==
    ASSUME TypeInv, NEW r \in Runs, QueueInv(r), ledger' = ledger,
           \A t \in Tools : open'[<<r, t>>] \subseteq open[<<r, t>>],
           \A w \in Workers : Busy(w, r)' => Busy(w, r)
    PROVE  QueueInv(r)'
  BY DEF QueueInv, Executed

\* Taking a run.
LEMMA TakeQueue ==
    ASSUME TypeInv, NEW r \in Runs, QueueInv(r), NEW w \in Workers, NEW s \in Runs,
           Claimable(Swept[s]), Take(w, s, Swept)
    PROVE  QueueInv(r)'
<1>1. /\ Swept[r] \in Ledgers(Workers) /\ Settled(Swept[r])
      /\ Executed(r) => NotQueued(Swept[r])
      /\ s = r => ~Executed(r)
  BY SweptSettled
<1>2. /\ ledger' = [Swept EXCEPT ![s] = AppendClaim(Swept[s], w)]
      /\ worker' = [worker EXCEPT ![w] = [IdleWorker EXCEPT !.pc = "working", !.run = s]]
      /\ UNCHANGED open
  BY DEF Take, toolVars
<1>3. s = r => Settled(AppendClaim(Swept[s], w)) /\ NotQueued(AppendClaim(Swept[s], w))
  BY <1>1, SettledAppends
<1>4. ledger'[r] = IF s = r THEN AppendClaim(Swept[s], w) ELSE Swept[r]
  BY <1>2 DEF Swept
<1>5. Settled(ledger'[r]) /\ (Executed(r)' => NotQueued(ledger'[r]))
  BY <1>1, <1>2, <1>3, <1>4 DEF Executed
<1>6. ASSUME NEW t \in Tools, NEW v \in Workers, Lost \in open'[<<r, t>>]
      PROVE  ~Busy(v, r)'
  <2>1. Lost \in open[<<r, t>>] /\ s # r
    BY <1>1, <1>2, <1>6, AgentRunsAssumption DEF Executed
  <2>2. ~Busy(v, r)
    BY <2>1 DEF QueueInv
  <2>3. CASE v = w
    BY <1>2, <2>1, <2>3 DEF Busy, IdleWorker, TypeInv, TypeOK
  <2>4. CASE v # w
    BY <1>2, <2>2, <2>4 DEF Busy, TypeInv, TypeOK
  <2> QED BY <2>3, <2>4
<1> QED BY <1>5, <1>6 DEF QueueInv

\* Between its claim and its last operation a worker stays on its run.
LEMMA WorkerStays ==
    ASSUME TypeInv, NEW w \in Workers, WorkerStep(w), NEW v \in Workers, NEW r \in Runs,
           Busy(v, r)'
    PROVE  Busy(v, r)
<1>0. worker \in [Workers -> WorkerStates]
  BY DEF TypeInv, TypeOK
<1>1. worker[w].pc # "idle"
  BY DEF WorkerStep, Heartbeat, Renews, HeartbeatRefused, Beating, WorkerStartsTool,
     WorkerToolBlocked, WorkerAsks, WorkerEndsTool, WorkerEvidenceRefused, WorkerReturns,
     WorkerReadsCancel, WorkerCommits
<1>2. \A u \in Workers \ {w} : worker'[u] = worker[u]
  BY <1>0 DEF WorkerStep, Heartbeat, HeartbeatRefused, WorkerStartsTool, WorkerToolBlocked,
     WorkerAsks, WorkerEndsTool, WorkerEvidenceRefused, WorkerReturns, WorkerReadsCancel,
     WorkerCommits
<1>3. worker'[w].run = worker[w].run \/ worker'[w] = IdleWorker
  <2>1. worker[w] \in WorkerStates
    BY <1>0
  <2>2. CASE Heartbeat(w) \/ HeartbeatRefused(w) \/ WorkerReadsCancel(w) \/ WorkerCommits(w)
    BY <1>0, <2>1, <2>2 DEF Heartbeat, HeartbeatRefused, WorkerReadsCancel, WorkerCommits, WorkerStates
  <2>3. CASE \E t \in Tools : WorkerStartsTool(w, t) \/ WorkerToolBlocked(w, t) \/ WorkerAsks(w, t)
    BY <1>0, <2>1, <2>3 DEF WorkerStartsTool, WorkerToolBlocked, WorkerAsks, WorkerStates
  <2>4. ASSUME NEW ok \in BOOLEAN, WorkerEndsTool(w, ok) \/ WorkerEvidenceRefused(w, ok)
        PROVE  worker'[w].run = worker[w].run
    BY <1>0, <2>4, WorkerEnds
  <2>5. ASSUME NEW out \in Outcomes, WorkerReturns(w, out) PROVE worker'[w].run = worker[w].run
    BY <1>0, <2>5, WorkerReturned
  <2> QED BY <2>2, <2>3, <2>4, <2>5 DEF WorkerStep
<1> QED BY <1>1, <1>2, <1>3 DEF Busy, IdleWorker

\* Recording the outcome of an invocation, whoever ran it.
LEMMA EndQueue ==
    ASSUME TypeInv, NEW r \in Runs, QueueInv(r), NEW q \in Requests, NEW o \in Owners,
           NEW ok, Ends(o, q, ok), \A w \in Workers : Busy(w, r)' => Busy(w, r)
    PROVE  QueueInv(r)'
<1>1. q[1] \in Runs /\ ledger[r] \in Ledgers(Workers) /\ Settled(ledger[r])
  BY DEF Requests, TypeInv, TypeOK, QueueInv
<1>2. \A p \in Requests : open'[p] \subseteq open[p]
  BY DEF Ends, EndExecution, EvidenceRefused, Ended, TypeInv, TypeOK
<1>3. \A t \in Tools : open'[<<r, t>>] \subseteq open[<<r, t>>]
  BY <1>2 DEF Requests
<1>4. CASE UNCHANGED ledger
  BY <1>3, <1>4, NoLedgerQueue
<1>5. CASE EndExecution(o, q, ok)
  <2> DEFINE k == AppendTransition(ledger[q[1]], IF ok THEN "running" ELSE "blocked")
  <2>1. ledger' = [ledger EXCEPT ![q[1]] = k]
    BY <1>5 DEF EndExecution
  <2>2. q[1] = r => Settled(k) /\ (NotQueued(ledger[r]) => NotQueued(k))
    BY <1>1, SettledAppends DEF TransitionStatus
  <2>3. Executed(r)' => Executed(r)
    BY <1>3 DEF Executed
  <2> HIDE DEF k
  <2> QED BY <1>1, <1>3, <2>1, <2>2, <2>3, OneLedgerQueue
<1> QED BY <1>4, <1>5 DEF Ends, EvidenceRefused

\* Starting one.  The dispatch refuses a run that may not transition, so the
\* run is left running whatever it was.
LEMMA StartQueue ==
    ASSUME TypeInv, NEW r \in Runs, QueueInv(r), NEW q \in Requests, NEW o \in Owners \ {Lost},
           MayTransition(ledger[q[1]]), StartExecution(o, q),
           \A w \in Workers : Busy(w, r)' => Busy(w, r)
    PROVE  QueueInv(r)'
<1> DEFINE k == AppendTransition(ledger[q[1]], "running")
<1>1. q[1] \in Runs /\ q = <<q[1], q[2]>> /\ ledger[r] \in Ledgers(Workers) /\ Settled(ledger[r])
  BY DEF Requests, TypeInv, TypeOK, QueueInv
<1>2. ledger' = [ledger EXCEPT ![q[1]] = k] /\ open' = [open EXCEPT ![q] = @ \cup {o}]
  BY DEF StartExecution
<1>3. q[1] = r => Settled(k) /\ NotQueued(k)
  BY <1>1, SettledAppends DEF TransitionStatus
<1>4. \A t \in Tools : /\ Lost \in open'[<<r, t>>] => Lost \in open[<<r, t>>]
                       /\ q[1] # r => open'[<<r, t>>] = open[<<r, t>>]
  <2> SUFFICES ASSUME NEW t \in Tools
               PROVE  /\ Lost \in open'[<<r, t>>] => Lost \in open[<<r, t>>]
                      /\ q[1] # r => open'[<<r, t>>] = open[<<r, t>>]
    OBVIOUS
  <2>1. <<r, t>> \in Requests /\ open \in [Requests -> SUBSET Owners]
    BY DEF Requests, TypeInv, TypeOK
  <2>2. CASE <<r, t>> = q
    BY <1>2, <2>1, <2>2
  <2>3. CASE <<r, t>> # q
    BY <1>2, <2>1, <2>3
  <2> QED BY <1>1, <2>2, <2>3
<1>5. Executed(r)' => Executed(r) \/ q[1] = r
  BY <1>4 DEF Executed
<1> HIDE DEF k
<1> QED BY <1>1, <1>2, <1>3, <1>4, <1>5, OneLedgerQueue

\* Recording a transition, with no invocation started or ended.
LEMMA TransitionQueue ==
    ASSUME TypeInv, NEW r \in Runs, QueueInv(r), NEW s \in Runs,
           NEW new \in TransitionStatus \ {"queued"},
           ledger' = [ledger EXCEPT ![s] = AppendTransition(@, new)], UNCHANGED open,
           \A w \in Workers : Busy(w, r)' => Busy(w, r)
    PROVE  QueueInv(r)'
<1> DEFINE k == AppendTransition(ledger[s], new)
<1>1. s = r => Settled(k) /\ (NotQueued(ledger[r]) => NotQueued(k))
  BY SettledAppends DEF TypeInv, TypeOK, QueueInv
<1>2. ledger' = [ledger EXCEPT ![s] = k] /\ (Executed(r)' => Executed(r))
  BY DEF Executed
<1> HIDE DEF k
<1> QED BY <1>1, <1>2, OneLedgerQueue

\* A worker's own steps.
LEMMA WorkerQueue ==
    ASSUME TypeInv, NEW r \in Runs, QueueInv(r), NEW w \in Workers, WorkerStep(w)
    PROVE  QueueInv(r)'
<1> DEFINE s == worker[w].run
<1>0. /\ Coherent /\ worker[w] \in WorkerStates /\ w \in Owners \ {Lost}
      /\ ledger \in [Runs -> Ledgers(Workers)] /\ Settled(ledger[r])
  BY AgentRunsAssumption DEF TypeInv, TypeOK, QueueInv, Owners, Threads
<1>b. \A v \in Workers : Busy(v, r)' => Busy(v, r)
  BY WorkerStays
<1>1. CASE Heartbeat(w)
  <2>1. s \in Runs
    BY <1>0, <1>1 DEF Heartbeat, Renews, Beating, Coherent
  <2>2. s = r => Settled(AppendClaim(ledger[s], w)) /\ NotQueued(AppendClaim(ledger[s], w))
    BY <1>0, <2>1, SettledAppends
  <2>3. ledger' = [ledger EXCEPT ![s] = AppendClaim(ledger[s], w)] /\ UNCHANGED open
    BY <1>1 DEF Heartbeat, toolVars
  <2> QED BY <1>b, <2>1, <2>2, <2>3, OneLedgerQueue DEF Executed
<1>2. CASE HeartbeatRefused(w) \/ WorkerReadsCancel(w) \/ \E out \in Outcomes : WorkerReturns(w, out)
  <2>1. UNCHANGED <<ledger, open>>
    BY <1>2 DEF HeartbeatRefused, WorkerReadsCancel, WorkerReturns, toolVars
  <2> QED BY <1>b, <2>1, NoLedgerQueue
<1>3. ASSUME NEW t \in Tools, WorkerStartsTool(w, t) PROVE QueueInv(r)'
  <2>1. RequestOf(w, t) \in Requests
    BY <1>0, <1>3 DEF WorkerStartsTool, RequestOf, Requests, Coherent
  <2> QED BY <1>0, <1>b, <1>3, <2>1, StartQueue DEF WorkerStartsTool
<1>4. ASSUME NEW t \in Tools, WorkerToolBlocked(w, t) \/ WorkerAsks(w, t) PROVE QueueInv(r)'
  <2>1. s \in Runs
    BY <1>0, <1>4 DEF WorkerToolBlocked, WorkerAsks, Coherent
  <2>2. PICK new \in {"blocked", "waiting_for_confirmation"} :
          ledger' = [ledger EXCEPT ![s] = AppendTransition(@, new)]
    BY <1>4 DEF WorkerToolBlocked, WorkerAsks, BlockDispatch, AskFirst, RequestOf
  <2>3. UNCHANGED open
    BY <1>4 DEF WorkerToolBlocked, WorkerAsks, BlockDispatch, AskFirst, toolVars
  <2>4. new \in TransitionStatus \ {"queued"}
    BY DEF TransitionStatus, WaitingStatus
  <2> QED BY <1>b, <2>1, <2>2, <2>3, <2>4, TransitionQueue
<1>5. ASSUME NEW ok \in BOOLEAN, WorkerEndsTool(w, ok) \/ WorkerEvidenceRefused(w, ok)
      PROVE  QueueInv(r)'
  BY <1>0, <1>b, <1>5, WorkerEnds, EndQueue
<1>6. CASE WorkerCommits(w)
  <2>1. s \in Runs /\ worker[w].out \in Outcomes \ {"none"} /\ UNCHANGED open
    BY <1>0, <1>6 DEF WorkerCommits, Coherent, WorkerStates
  <2>2. CASE worker[w].out \in TerminalStatus
             /\ ledger' = [ledger EXCEPT ![s] = AppendFinish(@, worker[w].out)]
    <3>1. s = r => /\ Settled(AppendFinish(ledger[s], worker[w].out))
                   /\ NotQueued(ledger[r]) => NotQueued(AppendFinish(ledger[s], worker[w].out))
      BY <1>0, <2>1, <2>2, SettledAppends
    <3> QED BY <1>b, <2>1, <2>2, <3>1, OneLedgerQueue DEF Executed
  <2>3. CASE /\ worker[w].out \notin {"failed", "cancelled"}
             /\ ledger' = [ledger EXCEPT ![s] =
                   AppendTransition(@, IF worker[w].out = "completed" THEN "blocked" ELSE worker[w].out)]
    <3>1. (IF worker[w].out = "completed" THEN "blocked" ELSE worker[w].out)
            \in TransitionStatus \ {"queued"}
      BY <2>1, <2>3 DEF Outcomes, TransitionStatus, WaitingStatus
    <3> QED BY <1>b, <2>1, <2>3, <3>1, TransitionQueue
  <2> QED BY <1>6, <2>2, <2>3 DEF WorkerCommits
<1> QED BY <1>1, <1>2, <1>3, <1>4, <1>5, <1>6 DEF WorkerStep

\* The desktop's steps.  One that continues another run leaves this one alone.
LEMMA DesktopQueue ==
    ASSUME TypeInv, NEW r \in Runs, QueueInv(r), DesktopStep, ~Continued(r)'
    PROVE  QueueInv(r)'
<1>0. /\ ledger \in [Runs -> Ledgers(Workers)] /\ Settled(ledger[r])
      /\ UI \in Owners \ {Lost} /\ ui.req \subseteq Requests
  BY AgentRunsAssumption DEF TypeInv, TypeOK, QueueInv, Owners, Threads
<1>b. \A v \in Workers : Busy(v, r)' => Busy(v, r)
  BY DEF Busy, DesktopStep, ResolveApproval, ResumeUnavailable, ResumeDispatch, ResumeEndsTool,
         ResumeEvidenceRefused, ResumeFinishes
<1>1. ASSUME NEW q \in Requests, NEW v, ResolveApproval(q, v) PROVE QueueInv(r)'
  BY <1>b, <1>1, NoLedgerQueue DEF ResolveApproval
<1>2. ASSUME NEW q \in Requests, NEW new \in {"blocked", "waiting_for_confirmation"},
             ledger' = [ledger EXCEPT ![q[1]] = AppendTransition(@, new)], UNCHANGED open
      PROVE  QueueInv(r)'
  <2>1. q[1] \in Runs /\ new \in TransitionStatus \ {"queued"}
    BY DEF Requests, TransitionStatus, WaitingStatus
  <2> QED BY <1>b, <1>2, <2>1, TransitionQueue
<1>3. ASSUME NEW q \in Requests, ResumeUnavailable(q) PROVE QueueInv(r)'
  BY <1>2, <1>3 DEF ResumeUnavailable, toolVars
<1>4. ASSUME NEW q \in Requests, ResumeDispatch(q) PROVE QueueInv(r)'
  <2>1. CASE MayTransition(ledger[q[1]]) /\ StartExecution(UI, q)
    BY <1>0, <1>b, <2>1, StartQueue
  <2>2. CASE AskFirst(UI, q)
    BY <1>2, <2>2 DEF AskFirst
  <2>3. CASE BlockDispatch(q)
    BY <1>2, <2>3 DEF BlockDispatch, toolVars
  <2>4. CASE UNCHANGED <<ledger, toolVars>>
    BY <1>b, <2>4, NoLedgerQueue DEF toolVars
  <2> QED BY <1>4, <2>1, <2>2, <2>3, <2>4 DEF ResumeDispatch
<1>5. ASSUME NEW ok \in BOOLEAN, ResumeEndsTool(ok) \/ ResumeEvidenceRefused(ok)
      PROVE  QueueInv(r)'
  BY <1>0, <1>b, <1>5, ResumeEnds, EndQueue
<1>6. CASE ResumeFinishes
  <2> DEFINE queues(q) == ~ledger[q[1]].cancel /\ ui.res = "succeeded" /\ q \notin continued
             after(q)  == IF ledger[q[1]].cancel THEN AppendFinish(ledger[q[1]], "cancelled")
                          ELSE IF queues(q) THEN AppendQueue(ledger[q[1]])
                          ELSE IF ui.res = "failed" THEN AppendFinish(ledger[q[1]], "failed")
                          ELSE ledger[q[1]]
  <2>1. PICK q \in Requests : /\ ledger' = [ledger EXCEPT ![q[1]] = after(q)]
                              /\ continued' = IF queues(q) THEN continued \cup {q} ELSE continued
    BY <1>0, <1>6 DEF ResumeFinishes
  <2>2. UNCHANGED open /\ q[1] \in Runs /\ q[2] \in Tools /\ q = <<q[1], q[2]>>
    BY <1>6 DEF ResumeFinishes, Requests
  <2>3. q[1] = r => ~queues(q)
    BY <2>1, <2>2 DEF Continued
  <2>4. q[1] = r => Settled(after(q)) /\ (NotQueued(ledger[r]) => NotQueued(after(q)))
    <3> SUFFICES ASSUME q[1] = r
                 PROVE  Settled(after(q)) /\ (NotQueued(ledger[r]) => NotQueued(after(q)))
      OBVIOUS
    <3>1. after(q) \in {AppendFinish(ledger[r], "cancelled"), AppendFinish(ledger[r], "failed"), ledger[r]}
      BY <2>3
    <3> HIDE DEF after
    <3> QED BY <1>0, <3>1, SettledAppends DEF TerminalStatus
  <2> HIDE DEF after
  <2> QED BY <1>b, <2>1, <2>2, <2>4, OneLedgerQueue DEF Executed
<1> QED BY <1>1, <1>3, <1>4, <1>5, <1>6 DEF DesktopStep

\* Every step that leaves the run without a continuation keeps its queue right.
LEMMA QueueStep ==
    ASSUME TypeInv, NEW r \in Runs, QueueInv(r), [Next]_vars, ~Continued(r)'
    PROVE  QueueInv(r)'
<1>0. /\ TypeOK /\ ledger \in [Runs -> Ledgers(Workers)] /\ Settled(ledger[r])
  BY DEF TypeInv, TypeOK, QueueInv
<1>1. ASSUME NEW s \in Runs, Enqueue(s) \/ RequestCancel(s) \/ LeaseExpires(s) PROVE QueueInv(r)'
  <2>1. PICK k : /\ ledger' = [ledger EXCEPT ![s] = k]
                 /\ k \in {StartRun(ledger[s]), AppendCancel(ledger[s]), ExpireLease(ledger[s])}
    BY <1>0, <1>1 DEF Enqueue, RequestCancel, LeaseExpires
  <2>2. s = r => Settled(k) /\ (NotQueued(ledger[r]) => NotQueued(k))
    BY <1>0, <2>1, SettledAppends
  <2>3. UNCHANGED <<worker, open>>
    BY <1>1 DEF Enqueue, RequestCancel, LeaseExpires, toolVars
  <2> QED BY <2>1, <2>2, <2>3, OneLedgerQueue DEF Executed, Busy
<1>2. ASSUME NEW w \in Workers, NEW s \in Runs, Claimable(Swept[s]), Take(w, s, Swept)
      PROVE  QueueInv(r)'
  BY <1>2, TakeQueue
<1>3. ASSUME NEW w \in Workers, WorkerStep(w) PROVE QueueInv(r)'
  BY <1>3, WorkerQueue
<1>4. CASE SweepOnly
  <2>1. ledger' = Swept /\ UNCHANGED <<worker, open>>
    BY <1>4 DEF SweepOnly, toolVars
  <2>2. Settled(ledger'[r]) /\ (Executed(r)' => NotQueued(ledger'[r]))
    BY <2>1, SweptSettled DEF Executed
  <2> QED BY <2>1, <2>2 DEF QueueInv, Busy
<1>5. CASE DesktopStep
  BY <1>5, DesktopQueue
<1>6. CASE Stops
  <2>1. \A w \in Workers : ~Busy(w, r)'
    BY <1>6, StopsEffect DEF Busy, IdleWorker
  <2>2. ASSUME NEW t \in Tools, open'[<<r, t>>] \ {Unstarted} # {} PROVE Executed(r)
    <3>1. <<r, t>> \in Requests
      BY DEF Requests
    <3>2. open'[<<r, t>>] \subseteq {Lost, Unstarted}
      BY <1>6, <3>1, StopsEffect
    <3>3. Lost \in open'[<<r, t>>]
      BY <2>2, <3>2
    <3> QED BY <1>6, <3>1, <3>3, StopsEffect DEF Executed
  <2>3. UNCHANGED ledger /\ (Executed(r)' => Executed(r))
    BY <1>6, <2>2, StopsEffect DEF Executed
  <2> QED BY <2>1, <2>3 DEF QueueInv
<1>7. CASE \/ \E q \in Requests, o \in Owners : ResourceLeaseExpires(q, o)
           \/ UNCHANGED vars
  <2>1. UNCHANGED <<ledger, worker, open>>
    BY <1>7 DEF ResourceLeaseExpires, vars
  <2> QED BY <2>1, NoLedgerQueue DEF Busy
<1> QED BY <1>1, <1>2, <1>3, <1>4, <1>5, <1>6, <1>7 DEF Next, ClaimNext, ClaimRun, Stops

\* Nothing is queued, and nothing runs, in the beginning.
LEMMA QueueInit == Init => \A r \in Runs : QueueInv(r)
<1> SUFFICES ASSUME Init, NEW r \in Runs PROVE QueueInv(r)
  OBVIOUS
<1>1. Settled(ledger[r])
  BY DEF Init, Settled, NoLedger
<1>2. \A t \in Tools : open[<<r, t>>] = {}
  BY DEF Init, Requests
<1> QED BY <1>1, <1>2 DEF QueueInv, Executed

\* A worker only gets a run by a claim that found no live lease on it.
LEMMA TakenUnleased ==
    ASSUME TypeInv, NEW r \in Runs, QueueInv(r), [Next]_vars, NEW w \in Workers,
           worker[w].pc = "idle", Busy(w, r)'
    PROVE  ~ledger[r].live
<1>1. worker \in [Workers -> WorkerStates] /\ ~Busy(w, r)
  BY DEF TypeInv, TypeOK, Busy
<1>2. ASSUME UNCHANGED worker PROVE FALSE
  BY <1>2 DEF Busy
<1>3. ASSUME NEW v \in Workers, NEW s \in Runs, Claimable(Swept[s]), Take(v, s, Swept)
      PROVE  ~ledger[r].live
  <2>1. s = r
    BY <1>1, <1>3 DEF Take, Busy, IdleWorker
  <2> QED BY <1>3, <2>1, SweptSettled
<1>4. ASSUME NEW v \in Workers, WorkerStep(v) PROVE FALSE
  BY <1>1, <1>4, WorkerStays
<1>5. CASE \/ \E s \in Runs : Enqueue(s) \/ RequestCancel(s) \/ LeaseExpires(s)
           \/ \E q \in Requests, o \in Owners : ResourceLeaseExpires(q, o)
           \/ SweepOnly \/ DesktopStep \/ UNCHANGED vars
  BY <1>2, <1>5 DEF Enqueue, RequestCancel, LeaseExpires, ResourceLeaseExpires, SweepOnly, vars,
     DesktopStep, ResolveApproval, ResumeUnavailable, ResumeDispatch, ResumeEndsTool, ResumeEvidenceRefused,
     ResumeFinishes
<1>6. CASE Stops
  BY <1>6, StopsEffect DEF Busy, IdleWorker
<1> QED BY <1>3, <1>4, <1>5, <1>6 DEF Next, ClaimNext, ClaimRun, Stops

\* A worker only dispatches in a run that is in its hands, and none is on a
\* run that has a lost invocation.
LEMMA NoneReplayed ==
    ASSUME TypeInv, NEW q \in Requests, QueueInv(q[1]), [Next]_vars, NEW w \in Workers,
           Starts(q, w)
    PROVE  Lost \notin open[q]
<1>1. w \in Owners /\ w # UI /\ w # Lost /\ q = <<q[1], q[2]>> /\ q[2] \in Tools
  BY AgentRunsAssumption DEF Owners, Threads, Requests
<1>2. \/ \E t \in Tools : q = RequestOf(w, t) /\ WorkerStartsTool(w, t)
      \/ StartExecution(UI, q)
  BY <1>1, StartersOnly
<1>3. CASE StartExecution(UI, q)
  \* The card's start adds UI to the owners, and no worker.
  BY <1>1, <1>3 DEF StartExecution, Starts, TypeInv, TypeOK
<1>4. ASSUME NEW t \in Tools, q = RequestOf(w, t), WorkerStartsTool(w, t)
      PROVE  Lost \notin open[q]
  <2>1. Busy(w, q[1])
    BY <1>4 DEF WorkerStartsTool, Busy, RequestOf
  <2> QED BY <1>1, <2>1 DEF QueueInv
<1> QED BY <1>2, <1>3, <1>4

\* While the lease of a run is live, neither claim_next_agent_run nor
\* claim_agent_run hands the run to another worker, unless an approved action
\* of this run has continued it; cards of other runs do not matter.
THEOREM LeaseExcludesOnRun ==
    ASSUME NEW r \in Runs
    PROVE  Spec /\ []~Continued(r) =>
             [][\A w \in Workers : (worker[w].pc = "idle" /\ Busy(w, r)') => ~ledger[r].live]_vars
<1>1. TypeInv /\ QueueInv(r) /\ [Next]_vars /\ ~Continued(r)' => QueueInv(r)'
  BY QueueStep
<1>2. TypeInv /\ QueueInv(r) /\ [Next]_vars =>
        [\A w \in Workers : (worker[w].pc = "idle" /\ Busy(w, r)') => ~ledger[r].live]_vars
  BY TakenUnleased
<1>3. Init => QueueInv(r)
  BY QueueInit
<1> QED BY <1>1, <1>2, <1>3, TypeInvariant, PTL DEF Spec

\* The same of all runs, when no card has continued any.
THEOREM LeaseExcludes == Spec /\ [](continued = {}) => NoConcurrentExecution
<1> DEFINE Inv == \A r \in Runs : QueueInv(r)
<1>1. TypeInv /\ Inv /\ [Next]_vars /\ (continued = {})' => Inv'
  BY QueueStep DEF Continued
<1>2. TypeInv /\ Inv /\ [Next]_vars =>
        [\A w \in Workers, r \in Runs : (worker[w].pc = "idle" /\ Busy(w, r)') =>
            \A v \in Workers : Busy(v, r) => ~ledger[r].live]_vars
  BY TakenUnleased
<1>3. Init => Inv
  BY QueueInit
<1> QED BY <1>1, <1>2, <1>3, TypeInvariant, PTL DEF Spec, NoConcurrentExecution

\* recover_expired_agent_runs blocks a run whose interrupted tool has no
\* recorded outcome, and nothing but the continuation of an approved action of
\* this run makes it claimable: no worker starts that tool again.
THEOREM RecoveryNeverReplaysOnRun ==
    ASSUME NEW r \in Runs
    PROVE  Spec /\ []~Continued(r) =>
             [][\A t \in Tools, w \in Workers :
                  Starts(<<r, t>>, w) => Lost \notin open[<<r, t>>]]_vars
<1>1. TypeInv /\ QueueInv(r) /\ [Next]_vars /\ ~Continued(r)' => QueueInv(r)'
  BY QueueStep
<1>2. TypeInv /\ QueueInv(r) /\ [Next]_vars =>
        [\A t \in Tools, w \in Workers : Starts(<<r, t>>, w) => Lost \notin open[<<r, t>>]]_vars
  BY NoneReplayed DEF Requests
<1>3. Init => QueueInv(r)
  BY QueueInit
<1> QED BY <1>1, <1>2, <1>3, TypeInvariant, PTL DEF Spec

\* The same of all runs, when no card has continued any.
THEOREM RecoveryNeverReplays == Spec /\ [](continued = {}) => NoAutomaticReplay
<1> DEFINE Inv == \A r \in Runs : QueueInv(r)
<1>1. TypeInv /\ Inv /\ [Next]_vars /\ (continued = {})' => Inv'
  BY QueueStep DEF Continued
<1>2. TypeInv /\ Inv /\ [Next]_vars =>
        [\A q \in Requests, w \in Workers : Starts(q, w) => Lost \notin open[q]]_vars
  BY NoneReplayed DEF Requests
<1>3. Init => Inv
  BY QueueInit
<1> QED BY <1>1, <1>2, <1>3, TypeInvariant, PTL DEF Spec, NoAutomaticReplay

-----------------------------------------------------------------------------
(* Where the policy allows every tool, no card ever appears, so the premise of *)
(* the theorems above holds.                                                  *)

NoCards ==
    /\ delivered = {} /\ continued = {}
    /\ ui.pc = "idle"
    /\ \A w \in Workers : worker[w].asked = {}

\* No worker asks, so no response brings a card.
LEMMA NoCardsStep ==
    ASSUME AutoTools = Tools, TypeInv, NoCards, [Next]_vars
    PROVE  NoCards'
<1>0. worker \in [Workers -> WorkerStates]
  BY DEF TypeInv, TypeOK
<1>1. ASSUME UNCHANGED <<delivered, continued, ui>>,
             \A w \in Workers : worker'[w].asked = worker[w].asked
      PROVE  NoCards'
  BY <1>1 DEF NoCards
<1>2. ASSUME NEW w \in Workers, WorkerStep(w) PROVE NoCards'
  <2>0. worker[w] \in WorkerStates /\ worker[w].asked = {}
    BY <1>0 DEF NoCards
  <2>1. CASE Heartbeat(w) \/ HeartbeatRefused(w) \/ WorkerReadsCancel(w)
    BY <1>0, <1>1, <2>0, <2>1
    DEF Heartbeat, HeartbeatRefused, WorkerReadsCancel, toolVars, WorkerStates
  <2>7. ASSUME NEW out \in Outcomes, WorkerReturns(w, out) PROVE NoCards'
    <3>1. \A v \in Workers : worker'[v].asked = worker[v].asked
      BY <1>0, <2>0, <2>7, WorkerReturned
    <3> QED BY <1>1, <2>7, <3>1 DEF WorkerReturns, toolVars
  <2>2. ASSUME NEW t \in Tools, WorkerStartsTool(w, t) PROVE NoCards'
    <3>1. UNCHANGED <<delivered, continued, ui>>
      BY <2>2 DEF WorkerStartsTool, StartExecution
    <3>2. \A v \in Workers : worker'[v].asked = worker[v].asked
      BY <1>0, <2>0, <2>2 DEF WorkerStartsTool, WorkerStates
    <3> QED BY <1>1, <3>1, <3>2
  <2>3. ASSUME NEW t \in Tools, WorkerToolBlocked(w, t) PROVE NoCards'
    BY <1>1, <2>3 DEF WorkerToolBlocked, BlockDispatch, toolVars
  <2>4. ASSUME NEW t \in Tools, WorkerAsks(w, t) PROVE FALSE
    BY <2>4 DEF WorkerAsks, AskFirst, RequestOf
  <2>5. ASSUME NEW ok \in BOOLEAN, WorkerEndsTool(w, ok) \/ WorkerEvidenceRefused(w, ok)
        PROVE  NoCards'
    <3>1. continued' \subseteq continued /\ UNCHANGED <<delivered, ui>>
      BY <2>5, WorkerEnds DEF Ends, EndExecution, EvidenceRefused, Outcome
    <3>2. \A v \in Workers : worker'[v].asked = worker[v].asked
      BY <1>0, <2>0, <2>5, WorkerEnds
    <3> QED BY <3>1, <3>2 DEF NoCards
  <2>6. CASE WorkerCommits(w)
    <3>1. delivered' = delivered /\ UNCHANGED <<continued, ui>>
      BY <2>0, <2>6 DEF WorkerCommits
    <3>2. \A v \in Workers : worker'[v].asked = worker[v].asked
      BY <1>0, <2>0, <2>6 DEF WorkerCommits, IdleWorker
    <3> QED BY <1>1, <3>1, <3>2
  <2> QED BY <1>2, <2>1, <2>2, <2>3, <2>4, <2>5, <2>6, <2>7 DEF WorkerStep
<1>3. CASE DesktopStep
  <2>1. ASSUME NEW q \in Requests, NEW v, ResolveApproval(q, v) PROVE NoCards'
    BY <1>1, <2>1 DEF ResolveApproval
  <2>2. ASSUME NEW q \in Requests, ResumeUnavailable(q) \/ ResumeDispatch(q) PROVE FALSE
    BY <2>2 DEF ResumeUnavailable, ResumeDispatch, NoCards
  <2>3. ASSUME \/ ResumeFinishes
               \/ \E ok \in BOOLEAN : ResumeEndsTool(ok) \/ ResumeEvidenceRefused(ok)
        PROVE  FALSE
    BY <2>3 DEF ResumeFinishes, ResumeEndsTool, ResumeEvidenceRefused, NoCards
  <2> QED BY <1>3, <2>1, <2>2, <2>3 DEF DesktopStep
<1>4. ASSUME NEW w \in Workers, NEW r, Take(w, r, Swept) PROVE NoCards'
  <2>1. UNCHANGED <<delivered, continued, ui>>
    BY <1>4 DEF Take, toolVars
  <2>2. \A v \in Workers : worker'[v].asked = worker[v].asked
    BY <1>0, <1>4 DEF Take, NoCards, IdleWorker
  <2> QED BY <1>1, <2>1, <2>2
<1>5. CASE Stops
  BY <1>5, StopsEffect DEF NoCards, IdleWorker, IdleUI
<1>6. CASE \/ \E r \in Runs : Enqueue(r) \/ RequestCancel(r) \/ LeaseExpires(r)
           \/ \E q \in Requests, o \in Owners : ResourceLeaseExpires(q, o)
           \/ SweepOnly \/ UNCHANGED vars
  BY <1>1, <1>6 DEF Enqueue, RequestCancel, LeaseExpires, ResourceLeaseExpires, SweepOnly,
     toolVars, vars
<1> QED BY <1>2, <1>3, <1>4, <1>5, <1>6 DEF Next, ClaimNext, ClaimRun, Stops

\* When the policy asks for no tool, the premise of the two theorems is met:
\* nothing is ever continued by a card.
THEOREM NothingContinued ==
    ASSUME AutoTools = Tools
    PROVE  Spec => [](continued = {})
<1>1. Init => NoCards
  BY DEF Init, NoCards, IdleUI, IdleWorker
<1>2. TypeInv /\ NoCards /\ [Next]_vars => NoCards'
  BY NoCardsStep
<1>3. NoCards => continued = {}
  BY DEF NoCards
<1> QED BY <1>1, <1>2, <1>3, TypeInvariant, PTL DEF Spec

-----------------------------------------------------------------------------
(* One-shot approvals.  A request that was executed under its approval has no *)
(* invocation waiting under it, unless several had been, and a new invocation *)
(* needs a new approval.                                                      *)

UsedUp ==
    /\ \A q \in Requests \ crowded : waiting[q] <= 1
    /\ \A q \in used \ crowded : waiting[q] = 0 /\ approval[q] \in {"granted", "consumed"}

\* What the steps other than an ask and a verdict do to what waits or is used:
\* at most one waiting invocation is bound to a grant, which may use it up.
OneBound ==
    /\ UNCHANGED crowded
    /\ \A q \in Requests : approval'[q] \in {approval[q], "consumed"}
    /\ \A q \in Requests \ used : approval'[q] = approval[q]
    /\ \/ UNCHANGED <<waiting, used>>
       \/ \E q \in Requests : /\ approval[q] = "granted" /\ waiting[q] > 0
                             /\ waiting' = [waiting EXCEPT ![q] = @ - 1]
                             /\ used' \in {used, used \cup {q}}

\* A start binds a waiting invocation or, where no one-shot grant is asked
\* for, none.
LEMMA StartBinds ==
    ASSUME TypeInv, NEW o, NEW q \in Requests, StartExecution(o, q)
    PROVE  OneBound
<1>1. UNCHANGED <<approval, crowded>> /\ MayStart(q) /\ Bind(q)
  BY DEF StartExecution
<1>2. CASE q[2] \in OneShot
  BY <1>1, <1>2, BindTyped DEF StartExecution, MayStart, Bind, OneBound
<1>3. CASE q[2] \notin OneShot
  BY <1>1, <1>3 DEF StartExecution, Bind, OneBound
<1> QED BY <1>2, <1>3

\* So does a dispatch that a conflict blocks.
LEMMA BlockBinds ==
    ASSUME TypeInv, NEW q \in Requests, BlockDispatch(q)
    PROVE  OneBound
<1>1. /\ UNCHANGED <<approval, used, crowded>>
      /\ UNCHANGED waiting \/ (Authorized(q) /\ Bind(q))
  BY DEF BlockDispatch
<1>2. CASE UNCHANGED waiting
  BY <1>1, <1>2 DEF OneBound
<1>3. CASE Authorized(q) /\ Bind(q) /\ q[2] \in OneShot
  BY <1>1, <1>3, BindTyped DEF Bind, OneBound
<1> QED BY <1>1, <1>2, <1>3 DEF Bind

\* So does a stop inside a start, which uses nothing up; a stop inside an end may
\* have consumed the approval.
LEMMA StopsBind ==
    ASSUME TypeInv, Stops
    PROVE  OneBound
<1>0. approval \in [Requests -> Approvals]
  BY DEF TypeInv, TypeOK
<1>1. CASE Crash
  BY <1>1 DEF Crash, OneBound
<1>2. ASSUME NEW q \in Requests, NEW o \in Threads, CrashInStart(o, q) PROVE OneBound
  <2>1. /\ UNCHANGED <<approval, used, crowded>> /\ MayStart(q)
        /\ Bind(q) \/ UNCHANGED waiting
    BY <1>2 DEF CrashInStart
  <2>2. CASE UNCHANGED waiting
    BY <2>1, <2>2 DEF OneBound
  <2>3. CASE Bind(q) /\ q[2] \in OneShot
    BY <2>1, <2>3, BindTyped DEF MayStart, Bind, OneBound
  <2> QED BY <2>1, <2>2, <2>3 DEF MayStart, Bind
<1>3. ASSUME NEW q \in Requests, NEW o \in Threads, NEW ok \in BOOLEAN, CrashInEnd(o, q, ok)
      PROVE  OneBound
  BY <1>0, <1>3 DEF CrashInEnd, Outcome, Consumed, OneBound
<1> QED BY <1>1, <1>2, <1>3 DEF Stops

\* Nothing else touches what waits or is used.
LEMMA ApprovalsMove ==
    ASSUME TypeInv, [Next]_vars
    PROVE  \/ \E q \in Requests, o \in Owners : AskFirst(o, q)
           \/ \E q \in Requests, v \in {"granted", "rejected"} : ResolveApproval(q, v)
           \/ OneBound
<1>0. /\ Coherent /\ worker \in [Workers -> WorkerStates]
      /\ approval \in [Requests -> Approvals] /\ UI \in Owners /\ Workers \subseteq Owners
  BY DEF TypeInv, TypeOK, Owners, Threads
<1>1. ASSUME UNCHANGED <<waiting, used, approval, crowded>> PROVE OneBound
  BY <1>1 DEF OneBound
<1>2. ASSUME NEW q \in Requests, NEW o, NEW ok, Ends(o, q, ok) PROVE OneBound
  BY <1>0, <1>2 DEF Ends, EndExecution, EvidenceRefused, Outcome, Consumed, OneBound
<1>3. ASSUME NEW w \in Workers, WorkerStep(w)
      PROVE  (\E q \in Requests, o \in Owners : AskFirst(o, q)) \/ OneBound
  <2>1. ASSUME NEW t \in Tools, WorkerStartsTool(w, t) PROVE OneBound
    <3>1. RequestOf(w, t) \in Requests /\ StartExecution(w, RequestOf(w, t))
      BY <1>0, <2>1 DEF WorkerStartsTool, RequestOf, Requests, Coherent
    <3> QED BY <3>1, StartBinds
  <2>2. ASSUME NEW t \in Tools, WorkerAsks(w, t)
        PROVE  \E q \in Requests, o \in Owners : AskFirst(o, q)
    <3>1. RequestOf(w, t) \in Requests /\ AskFirst(w, RequestOf(w, t))
      BY <1>0, <2>2 DEF WorkerAsks, RequestOf, Requests, Coherent
    <3> QED BY <1>0, <3>1
  <2>3. ASSUME NEW ok \in BOOLEAN, WorkerEndsTool(w, ok) \/ WorkerEvidenceRefused(w, ok)
        PROVE  OneBound
    BY <1>2, <2>3, WorkerEnds
  <2>4. CASE \/ Heartbeat(w) \/ HeartbeatRefused(w) \/ WorkerReadsCancel(w) \/ WorkerCommits(w)
             \/ \E out \in Outcomes : WorkerReturns(w, out)
    BY <1>1, <2>4 DEF Heartbeat, HeartbeatRefused, WorkerReturns, WorkerReadsCancel,
       WorkerCommits, toolVars
  <2>5. ASSUME NEW t \in Tools, WorkerToolBlocked(w, t) PROVE OneBound
    <3>1. RequestOf(w, t) \in Requests /\ BlockDispatch(RequestOf(w, t))
      BY <1>0, <2>5 DEF WorkerToolBlocked, RequestOf, Requests, Coherent
    <3> QED BY <3>1, BlockBinds
  <2> QED BY <1>3, <2>1, <2>2, <2>3, <2>4, <2>5 DEF WorkerStep
<1>4. ASSUME NEW q \in Requests, ResumeUnavailable(q) \/ ResumeDispatch(q)
      PROVE  AskFirst(UI, q) \/ OneBound
  BY <1>1, <1>4, StartBinds, BlockBinds DEF ResumeUnavailable, ResumeDispatch, toolVars
<1>5. ASSUME NEW ok \in BOOLEAN, ResumeEndsTool(ok) \/ ResumeEvidenceRefused(ok) PROVE OneBound
  BY <1>2, <1>5, ResumeEnds
<1>6. CASE \/ \E r \in Runs : Enqueue(r) \/ RequestCancel(r) \/ LeaseExpires(r)
           \/ \E p \in Requests, u \in Owners : ResourceLeaseExpires(p, u)
           \/ \E w \in Workers : ClaimNext(w) \/ \E r \in Runs : ClaimRun(w, r)
           \/ SweepOnly \/ ResumeFinishes \/ UNCHANGED vars
  BY <1>1, <1>6 DEF Enqueue, RequestCancel, LeaseExpires, ResourceLeaseExpires, ClaimNext,
     ClaimRun, Take, SweepOnly, ResumeFinishes, toolVars, vars
<1>7. CASE Stops
  BY <1>7, StopsBind
<1> QED BY <1>0, <1>3, <1>4, <1>5, <1>6, <1>7 DEF Next, DesktopStep, Stops

\* An executed request that no other invocation awaited stays without a waiting
\* one until it is asked for anew.
LEMMA UsedUpStep == TypeInv /\ UsedUp /\ [Next]_vars => UsedUp'
<1> SUFFICES ASSUME TypeInv, UsedUp, [Next]_vars PROVE UsedUp'
  OBVIOUS
<1>0. /\ used \subseteq Requests /\ waiting \in [Requests -> Nat]
      /\ approval \in [Requests -> Approvals]
  BY DEF TypeInv, TypeOK
<1>1. ASSUME NEW q \in Requests, NEW o \in Owners, AskFirst(o, q) PROVE UsedUp'
  <2>1. CASE approval[q] = "pending"
    <3>1. /\ waiting' = [waiting EXCEPT ![q] = @ + 1] /\ UNCHANGED <<approval, used>>
          /\ crowded' = IF waiting[q] > 0 THEN crowded \cup {q} ELSE crowded
      BY <1>1, <2>1 DEF AskFirst
    <3>2. q \in used => q \in crowded
      BY <2>1 DEF UsedUp
    <3>3. ASSUME NEW p \in Requests \ crowded' PROVE waiting'[p] <= 1
      <4>1. CASE p = q
        BY <1>0, <3>1, <3>3, <4>1
      <4>2. CASE p # q
        BY <1>0, <3>1, <3>3, <4>2 DEF UsedUp
      <4> QED BY <4>1, <4>2
    <3>4. ASSUME NEW p \in used' \ crowded'
          PROVE  waiting'[p] = 0 /\ approval'[p] \in {"granted", "consumed"}
      <4>1. p \in used \ crowded /\ p # q
        BY <3>1, <3>2, <3>4
      <4> QED BY <1>0, <3>1, <4>1 DEF UsedUp
    <3> QED BY <3>3, <3>4 DEF UsedUp
  <2>2. CASE approval[q] # "pending"
    BY <1>0, <1>1, <2>2 DEF AskFirst, UsedUp
  <2> QED BY <2>1, <2>2
<1>2. ASSUME NEW q \in Requests, NEW v, ResolveApproval(q, v) PROVE UsedUp'
  BY <1>0, <1>2 DEF ResolveApproval, UsedUp
<1>3. ASSUME OneBound PROVE UsedUp'
  <2>1. CASE UNCHANGED <<waiting, used>>
    BY <1>0, <1>3, <2>1 DEF OneBound, UsedUp
  <2>2. ASSUME NEW q \in Requests, approval[q] = "granted", waiting[q] > 0,
               waiting' = [waiting EXCEPT ![q] = @ - 1], used' \in {used, used \cup {q}}
        PROVE  UsedUp'
    <3>1. /\ waiting'[q] = waiting[q] - 1
          /\ \A p \in Requests \ {q} : waiting'[p] = waiting[p]
      BY <1>0, <2>2
    <3>2. \A p \in Requests \ crowded' : waiting'[p] <= 1
      BY <1>0, <1>3, <3>1 DEF OneBound, UsedUp
    <3>3. ASSUME NEW p \in used' \ crowded'
          PROVE  waiting'[p] = 0 /\ approval'[p] \in {"granted", "consumed"}
      <4>1. CASE p = q
        BY <1>0, <1>3, <2>2, <3>1, <3>3, <4>1 DEF OneBound, UsedUp
      <4>2. CASE p # q
        BY <1>0, <1>3, <2>2, <3>1, <3>3, <4>2 DEF OneBound, UsedUp
      <4> QED BY <4>1, <4>2
    <3> QED BY <3>2, <3>3 DEF UsedUp
  <2> QED BY <1>3, <2>1, <2>2 DEF OneBound
<1> QED BY <1>1, <1>2, <1>3, ApprovalsMove

\* An approval that was granted once starts its tool at most once, by whatever
\* worker or card, if one invocation of the request waited for it:
\* record_completed_agent_tool_execution consumes the approval only after the
\* outcome is recorded, so what stops a second start before that, after a
\* crash too, is that no invocation waits any more.
THEOREM GrantStartsOnce == Spec => OneShotApproval
<1>1. Init => UsedUp
  BY DEF Init, UsedUp
<1>2. TypeInv /\ UsedUp /\ [Next]_vars =>
        [\A q \in Requests, o \in Owners :
           (Starts(q, o) /\ q[2] \in OneShot /\ q \notin crowded) => q \notin used]_vars
  <2> SUFFICES ASSUME TypeInv, UsedUp, [Next]_vars, NEW q \in Requests, NEW o \in Owners,
                      Starts(q, o), q[2] \in OneShot, q \notin crowded
               PROVE  q \notin used
    OBVIOUS
  <2>1. MayStart(q) /\ Bind(q)
    BY StartersOnly DEF WorkerStartsTool, StartExecution
  <2>2. waiting[q] > 0
    BY <2>1, BindTyped DEF MayStart
  <2> QED BY <2>2 DEF UsedUp, TypeInv, TypeOK
<1> QED BY <1>1, <1>2, UsedUpStep, TypeInvariant, PTL DEF Spec, OneShotApproval

-----------------------------------------------------------------------------
(* The projected status. *)

\* A step of anyone continues the ledger of every run.
LEMMA LedgersContinue ==
    ASSUME TypeInv, [Next]_vars, NEW r \in Runs
    PROVE  Continues(ledger[r], ledger'[r])
<1>0. /\ TypeOK /\ Coherent /\ ledger \in [Runs -> Ledgers(Workers)]
      /\ \A s \in Runs : ledger[s] \in Ledgers(Workers)
  BY DEF TypeInv, TypeOK
<1>1. \A s \in Runs : Continues(ledger[s], ledger[s])
  BY <1>0, AppendsContinue
<1>2. ASSUME NEW s \in Runs, NEW m, Continues(ledger[s], m),
             ledger' = [ledger EXCEPT ![s] = m]
      PROVE  Continues(ledger[r], ledger'[r])
  BY <1>0, <1>1, <1>2
<1>3. ASSUME NEW s \in Runs, NEW t, ledger' = [ledger EXCEPT ![s] = AppendTransition(@, t)]
      PROVE  Continues(ledger[r], ledger'[r])
  BY <1>0, <1>2, <1>3, AppendsContinue
<1>4. CASE UNCHANGED ledger
  BY <1>1, <1>4
<1>5. ASSUME NEW q \in Requests, NEW o, \/ StartExecution(o, q)
                                      \/ AskFirst(o, q)
                                      \/ BlockDispatch(q)
                                      \/ \E ok \in BOOLEAN : Ends(o, q, ok)
      PROVE  Continues(ledger[r], ledger'[r])
  <2>1. q[1] \in Runs
    BY DEF Requests
  <2>2. \/ \E t : ledger' = [ledger EXCEPT ![q[1]] = AppendTransition(@, t)]
        \/ UNCHANGED ledger
    BY <1>5 DEF StartExecution, AskFirst, BlockDispatch, Ends, EndExecution, EvidenceRefused
  <2> QED BY <1>3, <1>4, <2>1, <2>2
<1>6. ASSUME NEW s \in Runs, Enqueue(s) \/ RequestCancel(s) \/ LeaseExpires(s)
      PROVE  Continues(ledger[r], ledger'[r])
  <2>1. PICK m : ledger' = [ledger EXCEPT ![s] = m] /\ Continues(ledger[s], m)
    BY <1>0, <1>6, AppendsContinue DEF Enqueue, RequestCancel, LeaseExpires
  <2> QED BY <1>2, <2>1
<1>7. ASSUME NEW w \in Workers, NEW s \in Runs, Take(w, s, Swept)
      PROVE  Continues(ledger[r], ledger'[r])
  BY <1>0, <1>7, RecoveredContinues DEF Take, Swept
<1>8. CASE SweepOnly
  BY <1>0, <1>8, RecoveredContinues DEF SweepOnly, Swept
<1>9. ASSUME NEW w \in Workers, WorkerStep(w) PROVE Continues(ledger[r], ledger'[r])
  <2>1. worker[w] \in WorkerStates /\ w \in Owners
    BY <1>0 DEF TypeOK, Owners, Threads
  <2>2. worker[w].pc # "idle" =>
          worker[w].run \in Runs /\ \A t \in Tools : RequestOf(w, t) \in Requests
    BY <1>0 DEF Coherent, Requests, RequestOf
  <2>3. CASE Heartbeat(w)
    <3>1. worker[w].run \in Runs
      BY <2>2, <2>3 DEF Heartbeat, Renews, Beating
    <3> QED BY <1>0, <1>2, <2>3, <3>1, AppendsContinue DEF Heartbeat
  <2>4. ASSUME NEW t \in Tools,
               WorkerStartsTool(w, t) \/ WorkerToolBlocked(w, t) \/ WorkerAsks(w, t)
        PROVE  Continues(ledger[r], ledger'[r])
    BY <1>5, <2>2, <2>4 DEF WorkerStartsTool, WorkerToolBlocked, WorkerAsks
  <2>5. ASSUME NEW ok \in BOOLEAN, WorkerEndsTool(w, ok) \/ WorkerEvidenceRefused(w, ok)
        PROVE  Continues(ledger[r], ledger'[r])
    BY <1>5, <2>5, WorkerEnds
  <2>6. CASE WorkerCommits(w)
    <3>1. worker[w].run \in Runs
      BY <2>2, <2>6 DEF WorkerCommits
    <3>2. PICK m : ledger' = [ledger EXCEPT ![worker[w].run] = m]
                   /\ Continues(ledger[worker[w].run], m)
      BY <1>0, <2>6, <3>1, AppendsContinue DEF WorkerCommits
    <3> QED BY <1>2, <3>1, <3>2
  <2>7. CASE \/ HeartbeatRefused(w) \/ WorkerReadsCancel(w)
             \/ \E out \in Outcomes : WorkerReturns(w, out)
    BY <1>4, <2>7 DEF HeartbeatRefused, WorkerReadsCancel, WorkerReturns
  <2> QED BY <1>9, <2>3, <2>4, <2>5, <2>6, <2>7 DEF WorkerStep
<1>10. CASE DesktopStep
  <2>1. ASSUME NEW q \in Requests, ResumeDispatch(q)
        PROVE  Continues(ledger[r], ledger'[r])
    BY <1>4, <1>5, <2>1 DEF ResumeDispatch
  <2>2. ASSUME NEW q \in Requests, ResumeUnavailable(q)
        PROVE  Continues(ledger[r], ledger'[r])
    BY <1>3, <2>2 DEF ResumeUnavailable, Requests
  <2>3. ASSUME NEW ok \in BOOLEAN, ResumeEndsTool(ok) \/ ResumeEvidenceRefused(ok)
        PROVE  Continues(ledger[r], ledger'[r])
    BY <1>5, <2>3, ResumeEnds
  <2>4. CASE ResumeFinishes
    <3> DEFINE Finishes(q) == {AppendFinish(ledger[q[1]], "cancelled"), AppendQueue(ledger[q[1]]),
                           AppendFinish(ledger[q[1]], "failed"), ledger[q[1]]}
    <3>1. PICK q \in Requests :
            \E m \in Finishes(q) : ledger' = [ledger EXCEPT ![q[1]] = m]
      BY <1>0, <2>4 DEF ResumeFinishes, TypeOK
    <3>2. q[1] \in Runs
      BY DEF Requests
    <3>3. {"cancelled", "failed"} \subseteq TerminalStatus
      BY DEF TerminalStatus
    <3>4. \A m \in Finishes(q) : Continues(ledger[q[1]], m)
      BY <1>0, <3>2, <3>3, AppendsContinue
    <3> QED BY <1>2, <3>1, <3>2, <3>4
  <2>5. CASE \E q \in Requests, v \in {"granted", "rejected"} : ResolveApproval(q, v)
    BY <1>4, <2>5 DEF ResolveApproval
  <2> QED BY <1>10, <2>1, <2>2, <2>3, <2>4, <2>5 DEF DesktopStep
<1>11. CASE (\E q \in Requests, o \in Owners : ResourceLeaseExpires(q, o)) \/ Stops
  BY <1>4, <1>11, StopsEffect DEF ResourceLeaseExpires
<1>12. CASE UNCHANGED vars
  BY <1>4, <1>12 DEF vars
<1> QED
  BY <1>6, <1>7, <1>8, <1>9, <1>10, <1>11, <1>12 DEF Next, ClaimNext, ClaimRun, Stops

\* A ledger that is continued makes a move that AgentStatus allows.
LEMMA ContinuesMoves ==
    ASSUME NEW l \in Ledgers(Workers), NEW m \in Ledgers(Workers), Continues(l, m)
    PROVE  \/ StatusOf(l) = "absent"
           \/ StatusOf(l) = StatusOf(m)
           \/ Observed!LedgerMove(StatusOf(l), StatusOf(m))
<1> SUFFICES ASSUME l.started PROVE StatusOf(l) = StatusOf(m)
                                    \/ Observed!LedgerMove(StatusOf(l), StatusOf(m))
  BY DEF StatusOf, Ledgers
<1> USE DEF Observed!LedgerMove, Observed!Closed, Observed!AgentStatuses, Observed!OpenStatus
<1>1. m.started
  BY DEF Continues
<1>2. \A k \in {l, m} :
        /\ k.cancel \/ k.finish # "none" =>
             StatusOf(k) \in TerminalStatus \cup {"cancel_requested"}
        /\ ~k.cancel /\ k.finish = "none" => StatusOf(k) \in Observed!OpenStatus
  BY <1>1 DEF StatusOf, BaseStatus, Ledgers, TerminalStatus, TransitionStatus, WaitingStatus
<1>3. CASE ~l.cancel /\ l.finish = "none"
  BY <1>2, <1>3
<1>4. CASE StatusOf(l) = "completed"
  <2>1. ~l.cancel
    BY <1>4 DEF StatusOf, BaseStatus, Ledgers
  <2>2. ~m.cancel /\ m.finish # "none"
    BY <1>4, <2>1, <1>2, <1>3 DEF Continues, TerminalStatus
  <2>3. StatusOf(m) \in TerminalStatus
    BY <1>1, <2>2 DEF StatusOf, BaseStatus, Ledgers
  <2> QED BY <1>4, <2>3 DEF TerminalStatus
<1>5. CASE (l.cancel \/ l.finish # "none") /\ StatusOf(l) # "completed"
  <2>1. m.cancel \/ m.finish # "none"
    BY <1>5 DEF Continues
  <2> QED BY <1>2, <1>5, <2>1 DEF TerminalStatus
<1> QED BY <1>3, <1>4, <1>5 DEF Ledgers

\* The moves that automations and expert teams see an agent run make, by its
\* ledger: an ended run never reads open again.
THEOREM StatusMoves == Spec => AgentMovesOnly
<1> DEFINE A == \A r \in Runs :
                  LET s == StatusOf(ledger[r])
                      t == StatusOf(ledger'[r])
                  IN s = t \/ s = "absent" \/ Observed!LedgerMove(s, t)
<1>1. TypeInv /\ TypeInv' /\ [Next]_vars => [A]_vars
  <2> SUFFICES ASSUME TypeInv, TypeInv', Next, NEW r \in Runs
               PROVE  LET s == StatusOf(ledger[r])
                          t == StatusOf(ledger'[r])
                      IN s = t \/ s = "absent" \/ Observed!LedgerMove(s, t)
    BY DEF vars
  <2>1. ledger[r] \in Ledgers(Workers) /\ ledger'[r] \in Ledgers(Workers)
    BY DEF TypeInv, TypeOK
  <2> QED BY <2>1, LedgersContinue, ContinuesMoves
<1>2. AgentMovesOnly <=> [][A]_vars
  BY DEF AgentMovesOnly
<1> QED BY <1>1, <1>2, TypeInvariant, TypeStep, PTL DEF Spec
=============================================================================
