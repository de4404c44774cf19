------------------------- MODULE ConnectedWorkProofs -------------------------
(***************************************************************************)
(* Theorems about ConnectedWork, for any requests, attempts and bounds.    *)
(***************************************************************************)
EXTENDS ConnectedWork, TLAPS

-----------------------------------------------------------------------------
(* The inductive invariant.                                                *)

\* An attempt that was never taken has nothing.
Untaken(i) ==
    plan[i] = "none" =>
        /\ run[i] = "none" /\ local[i] = "none"
        /\ review[i] = "none" /\ approval[i] = "none"

\* The records of an attempt agree: an invocation has a review, nothing was
\* sent before it is running, and only an uncertain one is scheduled.
Agree(i) ==
    /\ review[i] = "none" => call[i] = "none"
    /\ call[i] # "none" => local[i] \in {"frozen", "consumed"}
    /\ call[i] \in {"none", "pending_approval"} => sent[i] = 0 /\ remote[i] = "none"
    /\ check[i] # "none" => call[i] = "reconciliation_required"
    /\ run[i] = "waiting" => review[i] # "none"
    /\ sent[i] <= 1
    /\ frozen[i] <= account.generation

\* VerdictsTrue, of one attempt.
Truthful(i) ==
    /\ call[i] = "succeeded" => remote[i] = "applied" /\ review[i] = "accepted"
    /\ call[i] = "failed" => remote[i] \in {"none", "void"} /\ review[i] = "rejected"
    /\ local[i] = "consumed" <=> call[i] = "succeeded"

\* An attempt is taken when all before it are spent.
InOrder ==
    \A w \in Work, a, b \in 1..MaxAttempts :
        b < a /\ plan[<<w, a>>] # "none" => Spent(<<w, b>>)

\* What the command remembers between its holds of the mutex.
Remembered ==
    LET i == command.item IN
    /\ command.step # "idle" => i \in Items /\ review[i] # "none"
    /\ command.step = "looked" =>
          /\ call[i] = "running" => command.status = "running"
          /\ frozen[i] <= command.generation
          /\ command.generation <= account.generation
    /\ command.step \in {"started", "sent"} =>
          /\ call[i] = "running" /\ review[i] = "pending_approval"
          /\ approval[i] = "exact" \/ (approval[i] = "granted" /\ ~IsMail(i))
          /\ command.generation = frozen[i]
    /\ command.step = "started" => sent[i] = 0

IInv ==
    /\ TypeOK /\ InOrder /\ Remembered
    /\ \A i \in Items : Untaken(i) /\ Agree(i) /\ Truthful(i)

-----------------------------------------------------------------------------
(* Helpers.                                                                *)

\* An attempt of a request is an item.
LEMMA ItemsAre ==
    /\ \A w \in Work, a \in 1..MaxAttempts : <<w, a>> \in Items
    /\ \A i \in Items : /\ i = <<i[1], i[2]>>
                        /\ i[1] \in Work /\ i[2] \in 1..MaxAttempts
    /\ None \notin Items
  BY WorkAssumption DEF Items

\* The order of the attempts is kept by what takes none and revives none.
LEMMA OrderKept ==
    ASSUME InOrder,
           \A i \in Items : plan'[i] # "none" => plan[i] # "none",
           \A i \in Items : Spent(i) => Spent(i)'
    PROVE  InOrder'
  BY ItemsAre DEF InOrder

\* An attempt nothing is recorded of was taken neither before nor after.
LEMMA FreshIs ==
    ASSUME IInv, NEW w \in Work, NEW i \in Items, Fresh(w, i)
    PROVE  /\ i[1] = w
           /\ local[i] = "none" /\ review[i] = "none" /\ approval[i] = "none"
           /\ call[i] = "none" /\ check[i] = "none"
           /\ sent[i] = 0 /\ remote[i] = "none"
           /\ plan[i] = "none" /\ run[i] = "none"
           /\ \A b \in 1..MaxAttempts : b < i[2] => Spent(<<w, b>>)
           /\ \A b \in 1..MaxAttempts : i[2] < b => plan[<<w, b>>] = "none"
<1>1. PICK a \in Reserved(w) : i = <<w, a>>
  BY DEF Fresh
<1>2. /\ a \in 1..MaxAttempts /\ ~Spent(<<w, a>>)
      /\ \A b \in 1..(a - 1) : Spent(<<w, b>>)
  BY <1>1 DEF Reserved
<1>3. i[1] = w /\ i[2] = a
  BY <1>1
<1>4. \A b \in 1..MaxAttempts : a < b => plan[<<w, b>>] = "none"
  BY <1>2 DEF IInv, InOrder
<1>5. \A b \in 1..MaxAttempts : b < a => Spent(<<w, b>>)
  BY <1>2, WorkAssumption
<1> QED BY <1>3, <1>4, <1>5 DEF IInv, Untaken, Agree, Fresh, TypeOK, Calls

LEMMA InitIInv == Init => IInv
<1> SUFFICES ASSUME Init PROVE IInv
  OBVIOUS
<1> USE DEF Init
<1>1. TypeOK
  BY WorkAssumption DEF TypeOK, Calls, NoCommand, NoBatch
<1>2. InOrder
  BY ItemsAre DEF InOrder
<1>3. Remembered
  BY DEF Remembered, NoCommand
<1>4. \A i \in Items : Untaken(i) /\ Agree(i) /\ Truthful(i)
  BY DEF Untaken, Agree, Truthful
<1> QED BY <1>1, <1>2, <1>3, <1>4 DEF IInv

-----------------------------------------------------------------------------
(* Preparation.                                                            *)

\* What the transactions up to a stage write about an attempt.
LEMMA WrittenIs ==
    ASSUME IInv, NEW w \in Work, NEW i \in Items, Fresh(w, i), NEW s \in Stages,
           Written(i, s), UNCHANGED <<account, sent, remote, kind>>,
           plan' \in [Items -> {"none", "active", "deleted"}],
           run' \in [Items -> {"none", "queued", "running", "waiting", "ended"}],
           plan'[i] # "none", run'[i] = "waiting" => s = "review",
           \A j \in Items \ {i} : plan'[j] = plan[j] /\ run'[j] = run[j]
    PROVE  /\ local' \in [Items -> {"none", "editing", "pending_review", "frozen",
                                    "consumed"}]
           /\ frozen' \in [Items -> Nat]
           /\ review' \in [Items -> {"none", "pending_review", "pending_approval",
                                     "accepted", "rejected"}]
           /\ approval' \in [Items -> {"none", "pending", "granted", "exact", "denied"}]
           /\ call' \in [Items -> Calls] /\ check' = check
           /\ \A j \in Items \ {i} : /\ frozen'[j] = frozen[j] /\ review'[j] = review[j]
                                     /\ approval'[j] = approval[j] /\ call'[j] = call[j]
                                     /\ local'[j] = local[j]
           /\ InOrder'
           /\ \A j \in Items : Untaken(j)' /\ Agree(j)' /\ Truthful(j)'
<1> USE FreshIs
<1>1. LocalAt(i)[s] \in {"none", "editing", "pending_review", "frozen"}
  BY DEF LocalAt, Stages
<1>2. s = "review" => LocalAt(i)[s] = IF IsMail(i) THEN "frozen" ELSE "pending_review"
  BY DEF LocalAt, Stages
<1>3. /\ local' = [local EXCEPT ![i] = LocalAt(i)[s]]
      /\ frozen' = [frozen EXCEPT ![i] = account.generation]
      /\ check' = check
      /\ IF s = "review" /\ IsMail(i)
         THEN /\ review' = [review EXCEPT ![i] = "pending_approval"]
              /\ approval' = [approval EXCEPT ![i] = "pending"]
              /\ call' = [call EXCEPT ![i] = "pending_approval"]
         ELSE /\ review' = IF s = "review"
                           THEN [review EXCEPT ![i] = "pending_review"] ELSE review
              /\ UNCHANGED <<approval, call>>
  BY DEF Written
<1>4. /\ local' \in [Items -> {"none", "editing", "pending_review", "frozen",
                               "consumed"}]
      /\ frozen' \in [Items -> Nat]
      /\ review' \in [Items -> {"none", "pending_review", "pending_approval",
                                "accepted", "rejected"}]
      /\ approval' \in [Items -> {"none", "pending", "granted", "exact", "denied"}]
      /\ call' \in [Items -> Calls] /\ check' = check
  <2>1. local' \in [Items -> {"none", "editing", "pending_review", "frozen", "consumed"}]
        /\ frozen' \in [Items -> Nat]
    BY <1>1, <1>3 DEF IInv, TypeOK
  <2>2. review' \in [Items -> {"none", "pending_review", "pending_approval",
                              "accepted", "rejected"}]
    <3>1. review \in [Items -> {"none", "pending_review", "pending_approval",
                               "accepted", "rejected"}]
      BY DEF IInv, TypeOK
    <3>2. \/ review' = [review EXCEPT ![i] = "pending_approval"]
          \/ review' = [review EXCEPT ![i] = "pending_review"]
          \/ review' = review
      BY <1>3
    <3> QED BY <3>1, <3>2
  <2>3. /\ approval' \in [Items -> {"none", "pending", "granted", "exact", "denied"}]
        /\ call' \in [Items -> Calls]
    BY <1>3 DEF IInv, TypeOK, Calls
  <2> QED BY <1>3, <2>1, <2>2, <2>3
<1>5. \A j \in Items \ {i} : /\ frozen'[j] = frozen[j] /\ review'[j] = review[j]
                             /\ approval'[j] = approval[j] /\ call'[j] = call[j]
                             /\ local'[j] = local[j]
  BY <1>3 DEF IInv, TypeOK
<1>6. \A j \in Items \ {i} : Untaken(j)' /\ Agree(j)' /\ Truthful(j)'
  BY <1>3, <1>5 DEF IInv, Untaken, Agree, Truthful
<1>7. Untaken(i)' /\ Agree(i)' /\ Truthful(i)'
  BY <1>1, <1>2, <1>3 DEF IInv, TypeOK, Untaken, Agree, Truthful
<1>8. InOrder'
  <2> SUFFICES ASSUME NEW v \in Work, NEW a \in 1..MaxAttempts, NEW b \in 1..MaxAttempts,
                      b < a, plan'[<<v, a>>] # "none"
               PROVE  Spent(<<v, b>>)'
    BY DEF InOrder
  <2>1. <<v, a>> \in Items /\ <<v, b>> \in Items
    BY ItemsAre
  <2>2. CASE <<v, a>> = i
    <3>1. Spent(<<v, b>>) /\ <<v, b>> # i
      BY <2>2
    <3> QED BY <3>1, <1>5, <2>1 DEF Spent
  <2>3. CASE <<v, a>> # i
    <3>1. plan[<<v, a>>] # "none"
      BY <2>1, <2>3
    <3>2. Spent(<<v, b>>)
      BY <3>1 DEF IInv, InOrder
    <3>3. <<v, b>> # i
      BY <3>1, <2>1, ItemsAre
    <3> QED BY <3>2, <3>3, <1>5, <2>1 DEF Spent
  <2> QED BY <2>2, <2>3
<1> QED BY <1>4, <1>5, <1>6, <1>7, <1>8

\* A preparation, finished, failed or stopped, leaves the invariant.
LEMMA PrepareKeeps ==
    ASSUME IInv, NEW w \in Work, NEW s \in Stages,
           Prepare(w) \/ PrepareFails(w, s) \/ PrepareStops(w, s)
    PROVE  IInv'
<1>1. PICK i \in Items, r \in Stages, p \in {"active", "deleted"},
           q \in {"none", "queued", "running", "waiting", "ended"} :
        /\ Fresh(w, i) /\ Written(i, r)
        /\ plan' = [plan EXCEPT ![i] = p]
        /\ run' = [run EXCEPT ![i] = q]
        /\ q = "waiting" => r = "review"
  <2> USE DEF RunAt, Stages
  <2>1. CASE Prepare(w)
    BY <2>1 DEF Prepare
  <2>2. CASE PrepareFails(w, s)
    <3> DEFINE over == IF s \in {"plan", "review"} THEN RunAt[s] ELSE "ended"
    <3>1. /\ RunAt[s] \in {"none", "queued", "running", "waiting", "ended"}
          /\ over \in {"none", "queued", "running", "waiting", "ended"}
          /\ "waiting" \in {RunAt[s], over} => s = "review"
      OBVIOUS
    <3>2. PICK i \in Items, q \in {RunAt[s], over}, p \in {"active", "deleted"} :
            /\ Fresh(w, i) /\ Written(i, s)
            /\ plan' = [plan EXCEPT ![i] = p]
            /\ run' = [run EXCEPT ![i] = q]
      BY <2>2 DEF PrepareFails
    <3> HIDE DEF over, RunAt, Stages
    <3>3. s \in Stages /\ q \in {RunAt[s], over} /\ p \in {"active", "deleted"}
      BY <3>2
    <3>4. /\ q \in {"none", "queued", "running", "waiting", "ended"}
          /\ q = "waiting" => s = "review"
      BY <3>1, <3>3
    <3> QED BY <3>2, <3>3, <3>4, Zenon
  <2>3. CASE PrepareStops(w, s)
    <3> DEFINE q == RunAt[s]
    <3>1. /\ q \in {"none", "queued", "running", "waiting", "ended"}
          /\ q = "waiting" => s = "review"
      OBVIOUS
    <3>2. PICK i \in Items : /\ Fresh(w, i) /\ Written(i, s)
                             /\ plan' = [plan EXCEPT ![i] = "active"]
                             /\ run' = [run EXCEPT ![i] = q]
      BY <2>3 DEF PrepareStops
    <3> HIDE DEF q
    <3> QED BY <3>1, <3>2
  <2> QED BY <2>1, <2>2, <2>3
<1>2. /\ UNCHANGED <<kind, account, remote, sent>>
      /\ up' \in BOOLEAN /\ stops' \in 0..MaxStops
      /\ UNCHANGED actors \/ (command' = NoCommand /\ worker' = NoBatch)
  <2> USE WorkAssumption DEF IInv, TypeOK
  <2>1. CASE Prepare(w)
    BY <2>1 DEF Prepare
  <2>2. CASE PrepareFails(w, s)
    BY <2>2 DEF PrepareFails
  <2>3. CASE PrepareStops(w, s)
    <3>1. /\ UNCHANGED <<kind, account, remote, sent>>
          /\ up' = FALSE /\ stops < MaxStops /\ stops' = stops + 1
          /\ command' = NoCommand /\ worker' = NoBatch
      BY <2>3 DEF PrepareStops
    <3>2. up' \in BOOLEAN
      BY <3>1, Zenon
    <3>3. stops' \in 0..MaxStops
      BY <3>1
    <3> QED BY <3>1, <3>2, <3>3
  <2> QED BY <2>1, <2>2, <2>3
<1>3. /\ plan' \in [Items -> {"none", "active", "deleted"}]
      /\ run' \in [Items -> {"none", "queued", "running", "waiting", "ended"}]
      /\ plan'[i] # "none" /\ (run'[i] = "waiting" => r = "review")
      /\ \A j \in Items \ {i} : plan'[j] = plan[j] /\ run'[j] = run[j]
  BY <1>1 DEF IInv, TypeOK
<1>4. /\ local' \in [Items -> {"none", "editing", "pending_review", "frozen",
                               "consumed"}]
      /\ frozen' \in [Items -> Nat]
      /\ review' \in [Items -> {"none", "pending_review", "pending_approval",
                                "accepted", "rejected"}]
      /\ approval' \in [Items -> {"none", "pending", "granted", "exact", "denied"}]
      /\ call' \in [Items -> Calls] /\ check' = check
      /\ \A j \in Items \ {i} : /\ frozen'[j] = frozen[j] /\ review'[j] = review[j]
                                /\ approval'[j] = approval[j] /\ call'[j] = call[j]
                                /\ local'[j] = local[j]
      /\ InOrder'
      /\ \A j \in Items : Untaken(j)' /\ Agree(j)' /\ Truthful(j)'
  BY <1>1, <1>2, <1>3, WrittenIs
<1>5. TypeOK'
  BY <1>2, <1>3, <1>4 DEF IInv, TypeOK, actors, NoCommand, NoBatch, Calls
<1>6. Remembered'
  <2>1. CASE command' = NoCommand
    BY <2>1 DEF Remembered, NoCommand
  <2>2. CASE command' = command
    <3>1. command.step # "idle" => command.item \in Items /\ command.item # i
      BY <1>1, FreshIs DEF IInv, Remembered
    <3> QED BY <2>2, <3>1, <1>2, <1>4 DEF IInv, Remembered, IsMail
  <2> QED BY <1>2, <2>1, <2>2 DEF actors
<1> QED BY <1>4, <1>5, <1>6 DEF IInv

LEMMA PrepareAgainKeeps ==
    ASSUME IInv, NEW w \in Work, PrepareAgain(w)
    PROVE  IInv'
<1> USE DEF decision, effect, actors
<1>1. PICK i \in Items :
        /\ review[i] # "none" /\ plan[i] = "active" /\ plan' = [plan EXCEPT ![i] = "deleted"]
        /\ UNCHANGED <<kind, up, stops, account, run, local, frozen, decision, effect,
                       actors, remote, sent>>
  BY DEF PrepareAgain, Reserved, Items
<1>2. TypeOK'
  BY <1>1 DEF IInv, TypeOK
<1>3. \A j \in Items : Untaken(j)' /\ Agree(j)' /\ Truthful(j)'
  BY <1>1 DEF IInv, TypeOK, Untaken, Agree, Truthful
<1>4. InOrder'
  <2>1. \A j \in Items : Spent(j) => Spent(j)'
    BY <1>1 DEF IInv, TypeOK, Spent
  <2> QED BY <1>1, <2>1, OrderKept DEF IInv
<1>5. Remembered'
  BY <1>1 DEF IInv, Remembered, IsMail
<1> QED BY <1>2, <1>3, <1>4, <1>5 DEF IInv

LEMMA EndRunKeeps ==
    ASSUME IInv, NEW i \in Items, EndRun(i)
    PROVE  IInv'
<1> USE DEF EndRun, decision, effect, actors
<1>1. TypeOK'
  BY DEF IInv, TypeOK
<1>2. \A j \in Items : Untaken(j)' /\ Agree(j)' /\ Truthful(j)'
  BY DEF IInv, TypeOK, Untaken, Agree, Truthful
<1>3. InOrder'
  <2>1. \A j \in Items : Spent(j) => Spent(j)'
    BY DEF IInv, TypeOK, Spent
  <2> QED BY <2>1, OrderKept DEF IInv
<1>4. Remembered'
  BY DEF IInv, Remembered, IsMail
<1> QED BY <1>1, <1>2, <1>3, <1>4 DEF IInv

-----------------------------------------------------------------------------
(* The user's decisions, while no command runs.                            *)

LEMMA RequestApprovalKeeps ==
    ASSUME IInv, NEW i \in Items, RequestApproval(i)
    PROVE  IInv'
<1> USE DEF RequestApproval, Idle, actors
<1>1. TypeOK'
  BY DEF IInv, TypeOK, Calls
<1>2. \A j \in Items : Untaken(j)' /\ Agree(j)' /\ Truthful(j)'
  BY DEF IInv, TypeOK, Calls, Untaken, Agree, Truthful
<1>3. InOrder'
  <2>1. \A j \in Items : Spent(j) => Spent(j)'
    BY DEF IInv, TypeOK, Spent
  <2> QED BY <2>1, OrderKept DEF IInv
<1>4. Remembered'
  BY DEF Remembered
<1> QED BY <1>1, <1>2, <1>3, <1>4 DEF IInv

LEMMA DecideKeeps ==
    ASSUME IInv, NEW i \in Items, NEW to \in {"rejected", "accepted", "pending_review"},
           Decide(i, to)
    PROVE  IInv'
<1> USE DEF Decide, Idle, actors, preparation, effect
<1>1. TypeOK'
  BY DEF IInv, TypeOK
<1>2. \A j \in Items : Untaken(j)' /\ Agree(j)' /\ Truthful(j)'
  BY DEF IInv, TypeOK, Untaken, Agree, Truthful
<1>3. InOrder'
  <2>1. \A j \in Items : Spent(j) => Spent(j)'
    BY DEF IInv, TypeOK, Spent
  <2> QED BY <2>1, OrderKept DEF IInv
<1>4. Remembered'
  BY DEF Remembered
<1> QED BY <1>1, <1>2, <1>3, <1>4 DEF IInv

LEMMA ResolveRequestKeeps ==
    ASSUME IInv, NEW i \in Items, NEW to \in {"granted", "denied"}, ResolveRequest(i, to)
    PROVE  IInv'
<1> USE DEF ResolveRequest, Idle, actors, preparation, effect
<1>1. TypeOK'
  BY DEF IInv, TypeOK
<1>2. \A j \in Items : Untaken(j)' /\ Agree(j)' /\ Truthful(j)'
  BY DEF IInv, TypeOK, Untaken, Agree, Truthful
<1>3. InOrder'
  <2>1. \A j \in Items : Spent(j) => Spent(j)'
    BY DEF Spent
  <2> QED BY <2>1, OrderKept DEF IInv
<1>4. Remembered'
  BY DEF Remembered
<1> QED BY <1>1, <1>2, <1>3, <1>4 DEF IInv

-----------------------------------------------------------------------------
(* approve_and_run.                                                        *)

LEMMA LookKeeps ==
    ASSUME IInv, NEW i \in Items, Look(i)
    PROVE  IInv'
<1> USE DEF Look, Idle, preparation, decision, effect
<1>1. TypeOK'
  BY DEF IInv, TypeOK
<1>2. \A j \in Items : Untaken(j)' /\ Agree(j)' /\ Truthful(j)'
  BY DEF IInv, TypeOK, Untaken, Agree, Truthful
<1>3. InOrder'
  <2>1. \A j \in Items : Spent(j) => Spent(j)'
    BY DEF IInv, TypeOK, Agree, Spent
  <2> QED BY <2>1, OrderKept DEF IInv
<1>4. Remembered'
  <2>1. /\ command'.step = "looked" /\ command'.item = i
        /\ command'.generation = account.generation /\ command'.status = call[i]
    OBVIOUS
  <2> QED BY <2>1 DEF IInv, TypeOK, Agree, Remembered, IsMail
<1> QED BY <1>1, <1>2, <1>3, <1>4 DEF IInv

LEMMA MarkStrandedKeeps ==
    ASSUME IInv, MarkStranded
    PROVE  IInv'
<1> USE DEF MarkStranded, MarkUncertain, Complete, effect, Calls
<1>1. TypeOK'
  BY DEF IInv, TypeOK, Remembered, NoCommand
<1>2. \A j \in Items : Untaken(j)' /\ Agree(j)' /\ Truthful(j)'
  BY DEF IInv, TypeOK, Untaken, Agree, Truthful
<1>3. InOrder'
  <2>1. \A j \in Items : Spent(j) => Spent(j)'
    BY DEF IInv, TypeOK, Agree, Spent
  <2> QED BY <2>1, OrderKept DEF IInv
<1>4. Remembered'
  BY DEF IInv, TypeOK, Remembered, IsMail, NoCommand
<1> QED BY <1>1, <1>2, <1>3, <1>4 DEF IInv

\* The invocation starts once: it was waiting for its approval.
LEMMA StartKeeps ==
    ASSUME IInv, Start
    PROVE  IInv'
<1> DEFINE i == command.item
<1>1. i \in Items /\ review[i] # "none"
  BY DEF Start, IInv, Remembered
<1>2. UNCHANGED <<kind, up, stops, account, preparation, review, check, worker, remote,
                  sent>>
  BY DEF Start
<1>3. CASE /\ MayStart(i)
           /\ approval' = [approval EXCEPT ![i] = IF @ = "pending" THEN "exact" ELSE @]
           /\ call' = [call EXCEPT ![i] = "running"]
           /\ command' = [command EXCEPT !.step = "started"]
  <2> HIDE DEF i
  <2> USE <1>1, <1>2, <1>3 DEF preparation, MayStart, Current
  <2>0. command.step = "looked" /\ i = command.item
    BY DEF Start, i
  <2>1. TypeOK'
    BY DEF IInv, TypeOK, Calls
  <2>2. \A j \in Items : Untaken(j)' /\ Agree(j)' /\ Truthful(j)'
    BY DEF IInv, TypeOK, Untaken, Agree, Truthful
  <2>3. InOrder'
    <3>1. \A j \in Items : Spent(j) => Spent(j)'
      BY DEF Spent
    <3> QED BY <3>1, OrderKept DEF IInv
  <2>4. Remembered'
    <3>1. /\ command'.step = "started" /\ command'.item = i
          /\ command'.generation = command.generation
      BY <2>0 DEF IInv, TypeOK
    <3>2. command.generation = frozen[i]
      BY <2>0 DEF IInv, TypeOK, Remembered
    <3>3. sent[i] = 0
      BY DEF IInv, Agree
    <3>4. call'[i] = "running" /\ approval'[i] \in {"exact", "granted"}
      BY DEF IInv, TypeOK
    <3>5. approval'[i] = "exact" \/ ~IsMail(i)
      BY DEF IInv, TypeOK
    <3> QED BY <3>1, <3>2, <3>3, <3>4, <3>5 DEF Remembered, IsMail
  <2> QED BY <2>1, <2>2, <2>3, <2>4 DEF IInv
<1>4. CASE command' = NoCommand /\ UNCHANGED <<approval, call>>
  <2> USE <1>2, <1>4 DEF preparation
  <2>1. TypeOK'
    BY DEF IInv, TypeOK, NoCommand, Calls
  <2>2. \A j \in Items : Untaken(j)' /\ Agree(j)' /\ Truthful(j)'
    BY DEF IInv, Untaken, Agree, Truthful
  <2>3. InOrder' /\ Remembered'
    BY DEF IInv, InOrder, Spent, Remembered, NoCommand
  <2> QED BY <2>1, <2>2, <2>3 DEF IInv
<1>5. ~(call[i] = "running")
  BY DEF Start, IInv, Remembered
<1> QED BY <1>3, <1>4, <1>5 DEF Start

LEMMA SendKeeps ==
    ASSUME IInv, Send
    PROVE  IInv'
<1> DEFINE i == command.item
<1>1. i \in Items /\ call[i] = "running" /\ sent[i] = 0 /\ command.step = "started"
  BY DEF Send, IInv, Remembered
<1>2. /\ UNCHANGED <<kind, up, stops, account, preparation, decision, effect, worker>>
      /\ command' = [command EXCEPT !.step = "sent"]
      /\ sent' = [sent EXCEPT ![i] = @ + 1]
      /\ remote' = [remote EXCEPT ![i] = IF @ = "none" THEN "flying" ELSE @]
  BY DEF Send
<1>3. command'.step = "sent" /\ command'.item = i
      /\ command'.generation = command.generation
  BY <1>1, <1>2 DEF IInv, TypeOK
<1> HIDE DEF i
<1> USE <1>1, <1>2 DEF preparation, decision, effect
<1>4. TypeOK'
  BY DEF IInv, TypeOK
<1>5. \A j \in Items : Untaken(j)' /\ Agree(j)' /\ Truthful(j)'
  BY DEF IInv, TypeOK, Untaken, Agree, Truthful
<1>6. InOrder'
  BY DEF IInv, InOrder, Spent
<1>7. Remembered'
  BY <1>3 DEF IInv, Remembered, IsMail, i
<1> QED BY <1>4, <1>5, <1>6, <1>7 DEF IInv

LEMMA ConfirmedKeeps ==
    ASSUME IInv, Confirmed
    PROVE  IInv'
<1> USE DEF Confirmed, MarkUncertain, Complete, effect, Calls
<1>1. TypeOK'
  BY DEF IInv, TypeOK, Remembered, NoCommand
<1>2. \A j \in Items : Untaken(j)' /\ Agree(j)' /\ Truthful(j)'
  BY DEF IInv, TypeOK, Untaken, Agree, Truthful
<1>3. InOrder'
  <2>1. \A j \in Items : Spent(j) => Spent(j)'
    BY DEF IInv, TypeOK, Agree, Spent
  <2> QED BY <2>1, OrderKept DEF IInv
<1>4. Remembered'
  BY DEF IInv, TypeOK, Remembered, IsMail, NoCommand
<1> QED BY <1>1, <1>2, <1>3, <1>4 DEF IInv

LEMMA UnansweredKeeps ==
    ASSUME IInv, Unanswered
    PROVE  IInv'
<1> USE DEF Unanswered, MarkUncertain, effect, Calls
<1>1. TypeOK'
  BY DEF IInv, TypeOK, Remembered, NoCommand
<1>2. \A j \in Items : Untaken(j)' /\ Agree(j)' /\ Truthful(j)'
  BY DEF IInv, TypeOK, Untaken, Agree, Truthful
<1>3. InOrder'
  <2>1. \A j \in Items : Spent(j) => Spent(j)'
    BY DEF IInv, TypeOK, Agree, Spent
  <2> QED BY <2>1, OrderKept DEF IInv
<1>4. Remembered'
  BY DEF IInv, TypeOK, Remembered, IsMail, NoCommand
<1> QED BY <1>1, <1>2, <1>3, <1>4 DEF IInv

-----------------------------------------------------------------------------
(* The provider and the worker.                                            *)

LEMMA LandKeeps ==
    ASSUME IInv, NEW i \in Items, Land(i) \/ Drop(i)
    PROVE  IInv'
<1> USE DEF Land, Drop, preparation, decision, effect, actors
<1>1. TypeOK'
  BY DEF IInv, TypeOK
<1>2. \A j \in Items : Untaken(j)' /\ Agree(j)' /\ Truthful(j)'
  BY DEF IInv, TypeOK, Untaken, Agree, Truthful
<1>3. InOrder'
  <2>1. \A j \in Items : Spent(j) => Spent(j)'
    BY DEF IInv, TypeOK, Agree, Spent
  <2> QED BY <2>1, OrderKept DEF IInv
<1>4. Remembered'
  BY DEF IInv, TypeOK, Remembered, IsMail, NoCommand
<1> QED BY <1>1, <1>2, <1>3, <1>4 DEF IInv

LEMMA SweepKeeps ==
    ASSUME IInv, Sweep
    PROVE  IInv'
<1> USE DEF Sweep, Claimable, NoBatch, preparation, decision
<1>1. TypeOK'
  BY DEF IInv, TypeOK
<1>2. \A j \in Items : Untaken(j)' /\ Agree(j)' /\ Truthful(j)'
  BY DEF IInv, TypeOK, Untaken, Agree, Truthful
<1>3. InOrder'
  <2>1. \A j \in Items : Spent(j) => Spent(j)'
    BY DEF IInv, TypeOK, Agree, Spent
  <2> QED BY <2>1, OrderKept DEF IInv
<1>4. Remembered'
  BY DEF IInv, TypeOK, Remembered, IsMail, NoCommand
<1> QED BY <1>1, <1>2, <1>3, <1>4 DEF IInv

LEMMA QueryKeeps ==
    ASSUME IInv, NEW i \in Items, Query(i)
    PROVE  IInv'
<1> USE DEF Query, preparation, decision, effect
<1>1. TypeOK'
  BY DEF IInv, TypeOK
<1>2. \A j \in Items : Untaken(j)' /\ Agree(j)' /\ Truthful(j)'
  BY DEF IInv, TypeOK, Untaken, Agree, Truthful
<1>3. InOrder'
  <2>1. \A j \in Items : Spent(j) => Spent(j)'
    BY DEF IInv, TypeOK, Agree, Spent
  <2> QED BY <2>1, OrderKept DEF IInv
<1>4. Remembered'
  BY DEF IInv, TypeOK, Remembered, IsMail, NoCommand
<1> QED BY <1>1, <1>2, <1>3, <1>4 DEF IInv

LEMMA FoundAppliedKeeps ==
    ASSUME IInv, FoundApplied
    PROVE  IInv'
<1> USE DEF FoundApplied, Owned, Bound, Complete, effect, Calls
<1>1. TypeOK'
  <2>1. worker.item \in Items /\ TypeOK
    BY DEF IInv, TypeOK
  <2>2. /\ call' \in [Items -> Calls]
        /\ local' \in [Items -> {"none", "editing", "pending_review", "frozen", "consumed"}]
        /\ review' \in [Items -> {"none", "pending_review", "pending_approval",
                                  "accepted", "rejected"}]
        /\ check' \in [Items -> {"none", "later", "due", "held", "expired", "quarantined"}]
    BY <2>1 DEF TypeOK
  <2>3. worker' \in [held : SUBSET Items, item : Items \cup {None}]
    BY <2>1 DEF TypeOK
  <2> HIDE DEF Complete, Owned, Bound
  <2> QED BY <2>1, <2>2, <2>3 DEF TypeOK
<1>2. \A j \in Items : Untaken(j)' /\ Agree(j)' /\ Truthful(j)'
  BY DEF IInv, TypeOK, Untaken, Agree, Truthful
<1>3. InOrder'
  <2>1. \A j \in Items : Spent(j) => Spent(j)'
    BY DEF IInv, TypeOK, Agree, Spent
  <2> QED BY <2>1, OrderKept DEF IInv
<1>4. Remembered'
  <2>1. command.step \in {"started", "sent"} /\ Owned(worker.item) => command.item # worker.item
    BY DEF IInv, Remembered, Agree
  <2>2. \A j \in Items : (call'[j] = "running" <=> call[j] = "running")
                         /\ (review'[j] = "none" => review[j] = "none")
    BY DEF IInv, TypeOK, Agree
  <2> QED BY <2>1, <2>2 DEF IInv, TypeOK, Remembered, IsMail
<1> QED BY <1>1, <1>2, <1>3, <1>4 DEF IInv

LEMMA FoundVoidKeeps ==
    ASSUME IInv, FoundVoid
    PROVE  IInv'
<1> USE DEF FoundVoid, Owned, Bound, preparation, effect, Calls
<1>1. TypeOK'
  BY DEF IInv, TypeOK
<1>2. \A j \in Items : Untaken(j)' /\ Agree(j)' /\ Truthful(j)'
  BY DEF IInv, TypeOK, Untaken, Agree, Truthful
<1>3. InOrder'
  <2>1. \A j \in Items : Spent(j) => Spent(j)'
    BY DEF IInv, TypeOK, Agree, Spent
  <2> QED BY <2>1, OrderKept DEF IInv
<1>4. Remembered'
  <2>1. command.step \in {"started", "sent"} /\ Owned(worker.item) => command.item # worker.item
    BY DEF IInv, Remembered, Agree
  <2>2. \A j \in Items : (call'[j] = "running" <=> call[j] = "running")
                         /\ (review'[j] = "none" => review[j] = "none")
    BY DEF IInv, TypeOK, Agree
  <2> QED BY <2>1, <2>2 DEF IInv, TypeOK, Remembered, IsMail
<1> QED BY <1>1, <1>2, <1>3, <1>4 DEF IInv

LEMMA DeferKeeps ==
    ASSUME IInv, Defer
    PROVE  IInv'
<1> USE DEF Defer, preparation, decision
<1>1. TypeOK'
  BY DEF IInv, TypeOK
<1>2. \A j \in Items : Untaken(j)' /\ Agree(j)' /\ Truthful(j)'
  BY DEF IInv, TypeOK, Untaken, Agree, Truthful
<1>3. InOrder'
  <2>1. \A j \in Items : Spent(j) => Spent(j)'
    BY DEF IInv, TypeOK, Agree, Spent
  <2> QED BY <2>1, OrderKept DEF IInv
<1>4. Remembered'
  BY DEF IInv, TypeOK, Remembered, IsMail, NoCommand
<1> QED BY <1>1, <1>2, <1>3, <1>4 DEF IInv

LEMMA TimeKeeps ==
    ASSUME IInv, NEW i \in Items, BecomesDue(i) \/ LeaseRunsOut(i)
    PROVE  IInv'
<1> USE DEF BecomesDue, LeaseRunsOut, preparation, decision, actors
<1>1. TypeOK'
  BY DEF IInv, TypeOK
<1>2. \A j \in Items : Untaken(j)' /\ Agree(j)' /\ Truthful(j)'
  BY DEF IInv, TypeOK, Untaken, Agree, Truthful
<1>3. InOrder'
  <2>1. \A j \in Items : Spent(j) => Spent(j)'
    BY DEF IInv, TypeOK, Agree, Spent
  <2> QED BY <2>1, OrderKept DEF IInv
<1>4. Remembered'
  BY DEF IInv, TypeOK, Remembered, IsMail, NoCommand
<1> QED BY <1>1, <1>2, <1>3, <1>4 DEF IInv

-----------------------------------------------------------------------------
(* The account and the process.                                            *)

\* The generation of the account only grows.
LEMMA AccountKeeps ==
    ASSUME IInv, Disconnect \/ NeedsRepair \/ Connect(TRUE) \/ Connect(FALSE)
    PROVE  IInv'
<1> USE DEF Disconnect, NeedsRepair, Connect, Idle, preparation, decision, effect, actors
<1>1. TypeOK'
  BY DEF IInv, TypeOK
<1>2. \A j \in Items : Untaken(j)' /\ Agree(j)' /\ Truthful(j)'
  BY DEF IInv, TypeOK, Untaken, Agree, Truthful
<1>3. InOrder'
  <2>1. \A j \in Items : Spent(j) => Spent(j)'
    BY DEF IInv, TypeOK, Agree, Spent
  <2> QED BY <2>1, OrderKept DEF IInv
<1>4. Remembered'
  BY DEF IInv, TypeOK, Remembered, IsMail, NoCommand
<1> QED BY <1>1, <1>2, <1>3, <1>4 DEF IInv

LEMMA StopKeeps ==
    ASSUME IInv, Stop
    PROVE  IInv'
<1> USE DEF Stop, NoBatch, preparation, decision, effect
<1>1. TypeOK'
  <2>1. up' \in BOOLEAN
    BY Zenon
  <2>2. stops' \in 0..MaxStops
    BY WorkAssumption DEF IInv, TypeOK
  <2>3. /\ command' \in [step : {"idle", "looked", "started", "sent"},
                         item : Items \cup {None}, generation : Nat, status : Calls]
        /\ worker' \in [held : SUBSET Items, item : Items \cup {None}]
    BY DEF NoCommand, Calls
  <2> QED BY <2>1, <2>2, <2>3 DEF IInv, TypeOK
<1>2. \A j \in Items : Untaken(j)' /\ Agree(j)' /\ Truthful(j)'
  BY DEF IInv, TypeOK, Untaken, Agree, Truthful
<1>3. InOrder'
  <2>1. \A j \in Items : Spent(j) => Spent(j)'
    BY DEF IInv, TypeOK, Agree, Spent
  <2> QED BY <2>1, OrderKept DEF IInv
<1>4. Remembered'
  BY DEF IInv, TypeOK, Remembered, IsMail, NoCommand
<1> QED BY <1>1, <1>2, <1>3, <1>4 DEF IInv

LEMMA StartupKeeps ==
    ASSUME IInv, Startup
    PROVE  IInv'
<1> USE DEF Startup, decision, actors
<1>1. TypeOK'
  BY DEF IInv, TypeOK
<1>2. \A j \in Items : Untaken(j)' /\ Agree(j)' /\ Truthful(j)'
  BY DEF IInv, TypeOK, Untaken, Agree, Truthful
<1>3. InOrder'
  <2>1. \A j \in Items : Spent(j) => Spent(j)'
    BY DEF IInv, TypeOK, Agree, Spent
  <2> QED BY <2>1, OrderKept DEF IInv
<1>4. Remembered'
  BY DEF IInv, TypeOK, Remembered, IsMail, NoCommand
<1> QED BY <1>1, <1>2, <1>3, <1>4 DEF IInv

-----------------------------------------------------------------------------
(* Every step keeps the invariant.                                         *)

LEMMA ItemStepKeeps ==
    ASSUME IInv, NEW i \in Items, ItemStep(i)
    PROVE  IInv'
<1>1. CASE EndRun(i)
  BY <1>1, EndRunKeeps
<1>2. CASE RequestApproval(i)
  BY <1>2, RequestApprovalKeeps
<1>3. CASE Reject(i) \/ Accept(i) \/ Edit(i)
  BY <1>3, DecideKeeps DEF Reject, Accept, Edit
<1>4. CASE ResolveRequest(i, "granted") \/ ResolveRequest(i, "denied")
  BY <1>4, ResolveRequestKeeps
<1>5. CASE Look(i)
  BY <1>5, LookKeeps
<1>6. CASE Land(i) \/ Drop(i)
  BY <1>6, LandKeeps
<1>7. CASE Query(i)
  BY <1>7, QueryKeeps
<1>8. CASE BecomesDue(i) \/ LeaseRunsOut(i)
  BY <1>8, TimeKeeps
<1> QED BY <1>1, <1>2, <1>3, <1>4, <1>5, <1>6, <1>7, <1>8 DEF ItemStep

LEMMA StepIInv == IInv /\ [Next]_vars => IInv'
<1> SUFFICES ASSUME IInv, [Next]_vars PROVE IInv'
  OBVIOUS
<1>1. ASSUME NEW w \in Work, Prepare(w) \/ PrepareAgain(w) PROVE IInv'
  BY <1>1, PrepareKeeps, PrepareAgainKeeps DEF Stages
<1>2. ASSUME NEW w \in Work, NEW s \in Stages, PrepareFails(w, s) \/ PrepareStops(w, s)
      PROVE  IInv'
  BY <1>2, PrepareKeeps
<1>3. ASSUME NEW i \in Items, ItemStep(i) PROVE IInv'
  BY <1>3, ItemStepKeeps
<1>4. CASE MarkStranded \/ Start \/ Send \/ Confirmed \/ Unanswered
  BY <1>4, MarkStrandedKeeps, StartKeeps, SendKeeps, ConfirmedKeeps, UnansweredKeeps
<1>5. CASE Sweep \/ FoundApplied \/ FoundVoid \/ Defer
  BY <1>5, SweepKeeps, FoundAppliedKeeps, FoundVoidKeeps, DeferKeeps
<1>6. CASE Disconnect \/ NeedsRepair \/ Connect(TRUE) \/ Connect(FALSE)
  BY <1>6, AccountKeeps
<1>7. CASE Stop \/ Startup
  BY <1>7, StopKeeps, StartupKeeps
<1>8. CASE UNCHANGED vars
  BY <1>8 DEF vars, preparation, decision, effect, actors, IInv, TypeOK, InOrder, Spent,
              Remembered, IsMail, Untaken, Agree, Truthful
<1> QED BY <1>1, <1>2, <1>3, <1>4, <1>5, <1>6, <1>7, <1>8 DEF Next

LEMMA Invariant == Spec => []IInv
  BY InitIInv, StepIInv, PTL DEF Spec

-----------------------------------------------------------------------------
(* The theorems.                                                           *)

\* The records of reviews, approvals, invocations and their schedule keep their
\* types (the rows of connector_draft.rs and of the connector invocations).
THEOREM TypeCorrect == Spec => []TypeOK
<1>1. IInv => TypeOK
  BY DEF IInv
<1> QED BY <1>1, Invariant, PTL

\* A request is sent at most once, over all its attempts, whatever is clicked
\* again, stops or is looked up (foreground_connected_work_reservation,
\* approve_and_start_connected_work_review, start_connector_invocation).
THEOREM OneSend == Spec => []SentOnce
<1>1. ASSUME IInv, NEW i \in Items, NEW j \in Items, i[1] = j[1], i[2] < j[2]
      PROVE  sent[i] = 0 \/ sent[j] = 0
  <2>1. CASE plan[j] = "none"
    <3>1. call[j] = "none"
      BY <2>1, <1>1 DEF IInv, Untaken, Agree
    <3> QED BY <3>1, <1>1 DEF IInv, Agree
  <2>2. CASE plan[j] # "none"
    <3>1. Spent(i)
      BY <2>2, <1>1, ItemsAre DEF IInv, InOrder
    <3> QED BY <3>1, <1>1 DEF IInv, Spent, Agree
  <2> QED BY <2>1, <2>2
<1>2. ASSUME IInv, NEW i \in Items, NEW j \in Items, i[1] = j[1]
      PROVE  IF i = j THEN sent[i] <= 1 ELSE sent[i] = 0 \/ sent[j] = 0
  <2>1. CASE i = j
    BY <2>1, <1>2 DEF IInv, Agree
  <2>2. CASE i # j
    <3>1. i[2] # j[2] /\ i[2] \in Nat /\ j[2] \in Nat
      BY <2>2, <1>2, ItemsAre, WorkAssumption
    <3> QED BY <3>1, <2>2, <1>1, <1>2
  <2> QED BY <2>1, <2>2
<1>3. IInv => SentOnce
  BY <1>2 DEF SentOnce
<1> QED BY <1>3, Invariant, PTL

\* What is recorded as done was done, what is recorded as not done never will
\* be, and a draft is used up with its change (complete_connector_invocation,
\* fail_claimed_connector_invocation_known_not_applied).
THEOREM TrueVerdicts == Spec => []VerdictsTrue
<1>1. IInv => VerdictsTrue
  BY DEF IInv, Truthful, VerdictsTrue
<1> QED BY <1>1, Invariant, PTL

\* A change is sent only under an approval and a review that stand, to the
\* account the draft was made for
\* (approve_and_run_connected_work_review_with_state).
THEOREM SendsAsReviewed == Spec => SentAsReviewed
<1> DEFINE OK == \A i \in Items : sent'[i] # sent[i] =>
                    /\ review[i] = "pending_approval"
                    /\ approval[i] = "exact" \/ (approval[i] = "granted" /\ ~IsMail(i))
                    /\ command.generation = frozen[i]
<1>1. ASSUME IInv, [Next]_vars PROVE OK
  <2>1. UNCHANGED sent \/ Send
    BY <1>1 DEF Next, ItemStep, vars, Prepare, PrepareAgain, PrepareFails,
       PrepareStops, EndRun,
       RequestApproval, Reject, Accept, Edit, Decide, ResolveRequest, Look, Land, Drop,
       Query, BecomesDue, LeaseRunsOut, MarkStranded, Start, Confirmed, Unanswered, Sweep,
       FoundApplied, FoundVoid, Defer, Disconnect, NeedsRepair, Connect, Stop, Startup
  <2>2. CASE UNCHANGED sent
    BY <2>2
  <2>3. CASE Send
    BY <2>3, <1>1 DEF Send, IInv, TypeOK, Remembered
  <2> QED BY <2>1, <2>2, <2>3
<1>2. IInv /\ [Next]_vars => [OK]_vars
  BY <1>1
<1> QED BY <1>2, Invariant, PTL DEF Spec, SentAsReviewed

-----------------------------------------------------------------------------
(* ConnectedWork implements ChangePromise.                                 *)

\* How the approval goes with the invocation, and a change with its request.
Approved(i) ==
    /\ approval[i] = "pending" => call[i] = "pending_approval"
    /\ approval[i] = "none" <=> call[i] = "none"
    /\ review[i] = "pending_approval" => call[i] # "none"
    /\ call[i] \notin {"none", "pending_approval"} => approval[i] # "granted" \/ ~IsMail(i)
    /\ sent[i] = 0 => remote[i] = "none"

PInv == IInv /\ \A i \in Items : Approved(i)

LEMMA WrittenApproves ==
    ASSUME PInv, NEW i \in Items, NEW stage \in Stages, call[i] = "none", review[i] = "none",
           Written(i, stage), UNCHANGED <<kind, remote, sent>>
    PROVE  \A j \in Items : Approved(j)'
<1>1. CASE stage = "review" /\ IsMail(i)
  BY <1>1 DEF Written, PInv, IInv, TypeOK, Approved, IsMail
<1>2. CASE ~(stage = "review" /\ IsMail(i))
  <2>1. /\ review' = IF stage = "review" THEN [review EXCEPT ![i] = "pending_review"] ELSE review
        /\ UNCHANGED <<approval, call>>
    BY <1>2 DEF Written
  <2> QED BY <2>1 DEF PInv, IInv, TypeOK, Approved, IsMail
<1> QED BY <1>1, <1>2

LEMMA InitApproved == Init => \A i \in Items : Approved(i)
  BY DEF Init, Approved

LEMMA StepApproved == PInv /\ [Next]_vars => \A i \in Items : Approved(i)'
<1> SUFFICES ASSUME PInv, [Next]_vars PROVE \A i \in Items : Approved(i)'
  OBVIOUS
<1> USE DEF preparation, decision, effect, actors
<1>0. IInv /\ TypeOK /\ \A i \in Items : Approved(i) /\ Agree(i) /\ Truthful(i)
  BY DEF PInv, IInv
<1>1. CASE UNCHANGED <<kind, review, approval, call, remote, sent>>
  BY <1>0, <1>1 DEF Approved, IsMail
<1>2. ASSUME NEW w \in Work, Prepare(w) PROVE \A i \in Items : Approved(i)'
  <2>1. PICK i \in Items : Fresh(w, i) /\ Written(i, "review") /\ UNCHANGED <<kind, remote, sent>>
    BY <1>2 DEF Prepare
  <2> QED BY <1>0, <2>1, FreshIs, WrittenApproves DEF Stages
<1>3. ASSUME NEW w \in Work, NEW s \in Stages, PrepareFails(w, s) \/ PrepareStops(w, s)
      PROVE  \A i \in Items : Approved(i)'
  <2>1. PICK i \in Items : Fresh(w, i) /\ Written(i, s) /\ UNCHANGED <<kind, remote, sent>>
    BY <1>3 DEF PrepareFails, PrepareStops
  <2> QED BY <1>0, <2>1, FreshIs, WrittenApproves
<1>4. ASSUME NEW i \in Items, RequestApproval(i) PROVE \A j \in Items : Approved(j)'
  BY <1>0, <1>4 DEF RequestApproval, TypeOK, Approved, IsMail
<1>5. ASSUME NEW i \in Items, NEW to \in {"rejected", "accepted", "pending_review"}, Decide(i, to)
      PROVE  \A j \in Items : Approved(j)'
  BY <1>0, <1>5 DEF Decide, TypeOK, Approved, IsMail
<1>6. ASSUME NEW i \in Items, NEW to \in {"granted", "denied"}, ResolveRequest(i, to)
      PROVE  \A j \in Items : Approved(j)'
  BY <1>0, <1>6 DEF ResolveRequest, TypeOK, Approved, IsMail
<1>7. ASSUME NEW i \in Items, Land(i) \/ Drop(i) PROVE \A j \in Items : Approved(j)'
  BY <1>0, <1>7 DEF Land, Drop, TypeOK, Approved, IsMail
<1>8. ASSUME NEW i, MarkUncertain(i), UNCHANGED <<kind, approval, remote, sent>>
      PROVE  \A j \in Items : Approved(j)'
  BY <1>0, <1>8 DEF MarkUncertain, TypeOK, Approved, IsMail
<1>9. ASSUME NEW i \in Items, Complete(i), call[i] \in {"running", "reconciliation_required"},
             UNCHANGED <<kind, approval, remote, sent>>
      PROVE  \A j \in Items : Approved(j)'
  BY <1>0, <1>9 DEF Complete, TypeOK, Approved, IsMail
<1>10. CASE MarkStranded \/ Unanswered
  BY <1>8, <1>10 DEF MarkStranded, Unanswered
<1>11. CASE Start
  <2> DEFINE i == command.item
  <2>1. CASE MayStart(i) /\ approval' = [approval EXCEPT ![i] = IF @ = "pending" THEN "exact" ELSE @]
             /\ call' = [call EXCEPT ![i] = "running"]
    BY <1>0, <1>11, <2>1 DEF Start, MayStart, TypeOK, Approved, IsMail
  <2>2. CASE UNCHANGED <<approval, call>>
    BY <1>1, <1>11, <2>2 DEF Start
  <2> QED BY <1>11, <2>1, <2>2 DEF Start
<1>12. CASE Send
  BY <1>0, <1>12 DEF Send, TypeOK, Approved, IsMail
<1>13. CASE Confirmed
  <2>1. command.item \in Items
    BY <1>0, <1>13 DEF Confirmed, IInv, Remembered
  <2> QED BY <1>8, <1>9, <1>13, <2>1 DEF Confirmed
<1>14. CASE FoundApplied
  <2>1. worker.item \in Items
    BY <1>0, <1>14 DEF FoundApplied, TypeOK
  <2>2. Owned(worker.item) => call[worker.item] = "reconciliation_required"
    BY <1>0, <2>1 DEF Owned, Agree
  <2> QED BY <1>1, <1>9, <1>14, <2>1, <2>2 DEF FoundApplied
<1>15. CASE FoundVoid
  <2>1. worker.item \in Items
    BY <1>0, <1>15 DEF FoundVoid, TypeOK
  <2>2. Owned(worker.item) => call[worker.item] = "reconciliation_required"
    BY <1>0, <2>1 DEF Owned, Agree
  <2> QED BY <1>0, <1>15, <2>1, <2>2 DEF FoundVoid, TypeOK, Approved, IsMail
<1>16. CASE \/ \E w \in Work : PrepareAgain(w)
            \/ \E i \in Items : \/ EndRun(i) \/ Look(i) \/ Query(i) \/ BecomesDue(i)
                               \/ LeaseRunsOut(i)
            \/ Sweep \/ Defer \/ Disconnect \/ NeedsRepair \/ Connect(TRUE) \/ Connect(FALSE)
            \/ Stop \/ Startup \/ UNCHANGED vars
  BY <1>1, <1>16
  DEF PrepareAgain, EndRun, Look, Query, BecomesDue, LeaseRunsOut, Sweep, Defer, Disconnect,
      NeedsRepair, Connect, Stop, Startup, vars
<1> QED BY <1>2, <1>3, <1>4, <1>5, <1>6, <1>7, <1>10, <1>11, <1>12, <1>13, <1>14, <1>15, <1>16
        DEF Next, ItemStep, Reject, Accept, Edit

LEMMA PInvariant == Spec => []PInv
<1>1. Init => PInv
  BY InitIInv, InitApproved DEF PInv
<1>2. PInv /\ [Next]_vars => PInv'
  BY StepIInv, StepApproved DEF PInv
<1> QED BY <1>1, <1>2, PTL DEF Spec

\* What the promise sees of a request: nothing, or the one attempt of it that
\* came to an invocation.
SeesNothing(w) ==
    /\ \A i \in Items : i[1] = w => call[i] = "none"
    /\ Stage[w] = "none" /\ Authority[w] = "open" /\ w \notin Currents
    /\ Effect[w] = "none" /\ Sends[w] = 0

Sees(w, i) ==
    /\ i[1] = w /\ call[i] # "none"
    /\ \A j \in Items : j[1] = w /\ call[j] # "none" => j = i
    /\ Stage[w] = StageOf(i) /\ Authority[w] = AuthorityOf(i)
    /\ w \in Currents <=> Current(i)
    /\ Effect[w] = remote[i] /\ Sends[w] = sent[i]

View == \A w \in Work : SeesNothing(w) \/ \E i \in Items : Sees(w, i)

\* Attempts are taken in order, so no two of them come to an invocation.
LEMMA OneTaken ==
    ASSUME IInv, NEW i \in Items, NEW j \in Items, i[1] = j[1],
           call[i] # "none", call[j] # "none"
    PROVE  i = j
<1>1. \A k \in {i, j} : review[k] # "none" /\ plan[k] # "none" /\ ~Spent(k)
  BY DEF IInv, Agree, Untaken, Spent
<1>2. i = <<i[1], i[2]>> /\ j = <<i[1], j[2]>> /\ i[1] \in Work
      /\ i[2] \in 1..MaxAttempts /\ j[2] \in 1..MaxAttempts
  BY ItemsAre
<1>3. ~(i[2] < j[2]) /\ ~(j[2] < i[2])
  BY <1>1, <1>2 DEF IInv, InOrder
<1>4. i[2] = j[2]
  BY <1>2, <1>3, WorkAssumption
<1> QED BY <1>2, <1>4

LEMMA Views == IInv => View
<1> SUFFICES ASSUME IInv, NEW w \in Work PROVE SeesNothing(w) \/ \E i \in Items : Sees(w, i)
  BY DEF View
<1>1. CASE Taken(w) = {}
  <2>1. \A i \in Items : i[1] = w => call[i] = "none"
    BY <1>1 DEF Taken
  <2> QED BY <1>1, <2>1 DEF SeesNothing, Stage, Authority, Currents, Effect, Sends, Of
<1>2. CASE Taken(w) # {}
  <2>1. PICK i : i \in Taken(w)
    BY <1>2
  <2>2. i \in Items /\ i[1] = w /\ call[i] # "none"
    BY <2>1 DEF Taken
  <2>3. \A j \in Items : j[1] = w /\ call[j] # "none" => j = i
    BY <2>2, OneTaken
  <2>4. (CHOOSE j \in Taken(w) : TRUE) = i
    BY <2>1, <2>3 DEF Taken
  <2>5. \A f, other : Of(w, f, other) = f[i]
    BY <1>2, <2>4 DEF Of
  <2>6. Stage[w] = StageOf(i) /\ Authority[w] = AuthorityOf(i) /\ Effect[w] = remote[i]
        /\ Sends[w] = sent[i]
    BY <2>2, <2>5 DEF Stage, Authority, Effect, Sends
  <2>7. w \in Currents <=> Current(i)
    BY <2>1, <2>3 DEF Currents, Taken
  <2> QED BY <2>2, <2>3, <2>6, <2>7 DEF Sees
<1> QED BY <1>1, <1>2

\* Nothing the promise sees of an attempt is changed.
Same(i) ==
    /\ call'[i] = call[i]
    /\ call[i] # "none" => /\ approval'[i] = approval[i] /\ frozen'[i] = frozen[i]
                           /\ remote'[i] = remote[i] /\ sent'[i] = sent[i]

SameView(w) ==
    /\ Stage'[w] = Stage[w] /\ Authority'[w] = Authority[w]
    /\ Effect'[w] = Effect[w] /\ Sends'[w] = Sends[w]

LEMMA SameSeen ==
    ASSUME View, View', NEW w \in Work, UNCHANGED kind,
           \A i \in Items : i[1] = w => Same(i)
    PROVE  SameView(w) /\ (UNCHANGED account => (w \in Currents' <=> w \in Currents))
<1>1. CASE SeesNothing(w)
  <2>1. SeesNothing(w)'
    BY <1>1 DEF View, SeesNothing, Sees, Same
  <2> QED BY <1>1, <2>1 DEF SeesNothing, SameView
<1>2. ASSUME NEW i \in Items, Sees(w, i) PROVE
             SameView(w) /\ (UNCHANGED account => (w \in Currents' <=> w \in Currents))
  <2>1. Same(i) /\ call'[i] # "none"
    BY <1>2 DEF Sees, Same
  <2>2. Sees(w, i)'
    BY <1>2, <2>1 DEF View, SeesNothing, Sees
  <2>3. StageOf(i)' = StageOf(i) /\ AuthorityOf(i)' = AuthorityOf(i)
    BY <1>2, <2>1 DEF Sees, Same, StageOf, AuthorityOf, IsMail
  <2>4. UNCHANGED account => (Current(i)' <=> Current(i))
    BY <1>2, <2>1 DEF Sees, Same, Current
  <2> QED BY <1>2, <2>1, <2>2, <2>3, <2>4 DEF Sees, Same, SameView
<1> QED BY <1>1, <1>2 DEF View

promise == <<Stage, Authority, Currents, Effect, Sends>>

LEMMA NothingSeen ==
    ASSUME View, View', UNCHANGED <<kind, account>>, \A i \in Items : Same(i)
    PROVE  UNCHANGED promise
<1>1. \A w \in Work : SameView(w) /\ (w \in Currents' <=> w \in Currents)
  BY SameSeen
<1>2. Currents' = Currents
  BY <1>1 DEF Currents
<1>3. Stage' = Stage /\ Authority' = Authority /\ Effect' = Effect /\ Sends' = Sends
  BY <1>1 DEF SameView, Stage, Authority, Effect, Sends
<1> QED BY <1>2, <1>3 DEF promise

\* A step on one attempt that has its invocation.
LEMMA OneSeen ==
    ASSUME View, View', NEW i \in Items, call[i] # "none", call'[i] # "none",
           UNCHANGED <<kind, account, frozen>>, \A j \in Items \ {i} : Same(j)
    PROVE  /\ i[1] \in Work
           /\ Stage[i[1]] = StageOf(i) /\ Authority[i[1]] = AuthorityOf(i)
           /\ i[1] \in Currents <=> Current(i)
           /\ Effect[i[1]] = remote[i] /\ Sends[i[1]] = sent[i]
           /\ Stage' = [Stage EXCEPT ![i[1]] = StageOf(i)']
           /\ Authority' = [Authority EXCEPT ![i[1]] = AuthorityOf(i)']
           /\ Currents' = Currents
           /\ Effect' = [Effect EXCEPT ![i[1]] = remote'[i]]
           /\ Sends' = [Sends EXCEPT ![i[1]] = sent'[i]]
<1> DEFINE w == i[1]
<1>1. w \in Work /\ Sees(w, i)
  BY ItemsAre DEF View, SeesNothing, Sees
<1>2. Sees(w, i)'
  BY <1>1 DEF View, SeesNothing, Sees
<1>3. Current(i)' = Current(i)
  BY DEF Current
<1>4. \A v \in Work \ {w} : SameView(v) /\ (v \in Currents' <=> v \in Currents)
  BY SameSeen
<1>5. w \in Currents' <=> w \in Currents
  BY <1>1, <1>2, <1>3 DEF Sees
<1>6. Currents' = Currents
  BY <1>4, <1>5 DEF Currents
<1>7. /\ Stage' = [Stage EXCEPT ![w] = StageOf(i)']
      /\ Authority' = [Authority EXCEPT ![w] = AuthorityOf(i)']
  BY <1>2, <1>4 DEF Sees, SameView, Stage, Authority
<1>8. /\ Effect' = [Effect EXCEPT ![w] = remote'[i]]
      /\ Sends' = [Sends EXCEPT ![w] = sent'[i]]
  BY <1>2, <1>4 DEF Sees, SameView, Effect, Sends
<1> QED BY <1>1, <1>6, <1>7, <1>8 DEF Sees

\* The attempt of a request that comes to an invocation is the first to do so.
LEMMA AskSeen ==
    ASSUME View, View', NEW i \in Items, call[i] = "none", call'[i] = "pending_approval",
           approval'[i] = "pending", remote'[i] = "none", sent'[i] = 0, Current(i)',
           UNCHANGED <<kind, account>>, \A j \in Items \ {i} : Same(j)
    PROVE  Promise!Ask(i[1]) /\ i[1] \in Work
<1> DEFINE w == i[1]
<1>1. w \in Work /\ Sees(w, i)'
  BY ItemsAre DEF View, SeesNothing, Sees
<1>2. \A j \in Items : j[1] = w => call[j] = "none"
  BY <1>1 DEF Sees, Same
<1>3. SeesNothing(w)
  BY <1>1, <1>2 DEF View, Sees
<1>4. \A v \in Work \ {w} : SameView(v) /\ (v \in Currents' <=> v \in Currents)
  BY SameSeen
<1>5. Stage'[w] = "asked" /\ Authority'[w] = "open" /\ w \in Currents'
      /\ Effect'[w] = "none" /\ Sends'[w] = 0
  BY <1>1 DEF Sees, StageOf, AuthorityOf
<1>6. Stage[w] = "none" /\ Authority[w] = "open" /\ Effect[w] = "none" /\ Sends[w] = 0
  BY <1>3 DEF SeesNothing
<1>7. Currents' = Currents \cup {w}
  BY <1>1, <1>4, <1>5 DEF Currents
<1>8. Stage' = [Stage EXCEPT ![w] = "asked"]
  BY <1>4, <1>5 DEF SameView, Stage
<1>9. Authority' = Authority
  BY <1>4, <1>5, <1>6 DEF SameView, Authority
<1>10. Effect' = Effect /\ Sends' = Sends
  BY <1>4, <1>5, <1>6 DEF SameView, Effect, Sends
<1> QED BY <1>1, <1>10, <1>6, <1>7, <1>8, <1>9 DEF Promise!Ask

-----------------------------------------------------------------------------
Kept == Promise!Next \/ UNCHANGED promise

\* A run's preparation, broken off or not: the mail it comes to is asked for.
LEMMA PreparationKept ==
    ASSUME PInv, View, View', NEW w \in Work, NEW i \in Items, NEW stage \in Stages,
           Fresh(w, i), Written(i, stage), UNCHANGED <<kind, account, remote, sent>>
    PROVE  Kept
<1>0. /\ call[i] = "none" /\ remote[i] = "none" /\ sent[i] = 0
      /\ account.health = "connected"
      /\ call \in [Items -> Calls] /\ approval \in [Items -> {"none", "pending", "granted",
                                                             "exact", "denied"}]
      /\ frozen \in [Items -> Nat]
  BY FreshIs DEF PInv, IInv, TypeOK, Fresh
<1>1. /\ frozen'[i] = account.generation
      /\ \A j \in Items \ {i} : frozen'[j] = frozen[j]
  BY <1>0 DEF Written
<1>2. CASE stage = "review" /\ IsMail(i)
  <2>1. /\ approval' = [approval EXCEPT ![i] = "pending"]
        /\ call' = [call EXCEPT ![i] = "pending_approval"]
    BY <1>2 DEF Written
  <2>2. \A j \in Items \ {i} : Same(j)
    BY <1>0, <1>1, <2>1 DEF Same
  <2>3. Current(i)'
    BY <1>0, <1>1 DEF Current
  <2>4. Promise!Ask(i[1]) /\ i[1] \in Work
    BY <1>0, <2>1, <2>2, <2>3, AskSeen
  <2> QED BY <2>4 DEF Kept, Promise!Next
<1>3. CASE ~(stage = "review" /\ IsMail(i))
  <2>1. UNCHANGED <<approval, call>>
    BY <1>3 DEF Written
  <2>2. \A j \in Items : Same(j)
    BY <1>0, <1>1, <2>1 DEF Same
  <2> QED BY <2>2, NothingSeen DEF Kept
<1> QED BY <1>2, <1>3

LEMMA RequestKept ==
    ASSUME PInv, View, View', NEW i \in Items, RequestApproval(i)
    PROVE  Kept
<1>1. call[i] = "none"
  BY DEF RequestApproval, PInv, IInv, Agree
<1>2. sent[i] = 0 /\ remote[i] = "none"
  BY <1>1 DEF PInv, IInv, Agree
<1>3. /\ call' = [call EXCEPT ![i] = "pending_approval"]
      /\ approval' = [approval EXCEPT ![i] = "pending"]
      /\ call \in [Items -> Calls] /\ i \in DOMAIN approval
      /\ UNCHANGED <<kind, account, frozen, remote, sent>> /\ Current(i)
  BY DEF RequestApproval, PInv, IInv, TypeOK, actors
<1>4. \A j \in Items \ {i} : Same(j)
  BY <1>3 DEF Same
<1>5. Promise!Ask(i[1]) /\ i[1] \in Work
  BY <1>1, <1>2, <1>3, <1>4, AskSeen DEF Current
<1> QED BY <1>5 DEF Kept, Promise!Next

\* The user's decisions, in the panel and in the list.
LEMMA DecisionKept ==
    ASSUME PInv, View, View', NEW i \in Items, NEW v \in {"granted", "denied"},
           \/ review[i] = "pending_approval" /\ v = "denied"
           \/ approval[i] = "pending",
           approval' = [approval EXCEPT ![i] = v],
           UNCHANGED <<kind, account, frozen, call, remote, sent>>
    PROVE  Kept
<1> DEFINE w == i[1]
<1>1. /\ call[i] # "none" /\ approval[i] # "none"
      /\ approval[i] = "pending" => call[i] = "pending_approval"
      /\ review[i] = "pending_approval" => call[i] \notin {"succeeded", "failed"}
      /\ approval \in [Items -> {"none", "pending", "granted", "exact", "denied"}]
      /\ call[i] \in Calls
  BY DEF PInv, Approved, IInv, Truthful, TypeOK
<1>2. call[i] \in Calls \ {"none", "succeeded", "failed"}
  BY <1>1
<1>3. \A j \in Items \ {i} : Same(j)
  BY <1>1 DEF Same
<1>4. /\ w \in Work /\ Stage[w] = StageOf(i) /\ Authority[w] = AuthorityOf(i)
      /\ Stage' = [Stage EXCEPT ![w] = StageOf(i)']
      /\ Authority' = [Authority EXCEPT ![w] = AuthorityOf(i)']
      /\ Currents' = Currents
      /\ Effect' = [Effect EXCEPT ![w] = Effect[w]]
      /\ Sends' = [Sends EXCEPT ![w] = Sends[w]]
  BY <1>1, <1>3, OneSeen
<1>5. /\ StageOf(i)' = StageOf(i) /\ StageOf(i) \in {"asked", "begun", "unknown"}
      /\ call[i] = "pending_approval" => StageOf(i) = "asked"
  BY <1>2 DEF StageOf, Calls
<1>6. /\ Stage' = Stage /\ Effect' = Effect /\ Sends' = Sends
  BY <1>4, <1>5 DEF Stage, Effect, Sends
<1>7. CASE v = "granted" /\ ~IsMail(i)
  <2>1. AuthorityOf(i) = "open" /\ AuthorityOf(i)' = "given" /\ StageOf(i) = "asked"
    BY <1>1, <1>5, <1>7 DEF AuthorityOf, IsMail
  <2>2. Promise!Approve(w)
    BY <1>4, <1>6, <2>1 DEF Promise!Approve
  <2> QED BY <1>4, <2>2 DEF Kept, Promise!Next
<1>8. CASE ~(v = "granted" /\ ~IsMail(i))
  <2>1. AuthorityOf(i)' = "gone"
    BY <1>1, <1>8 DEF AuthorityOf, IsMail
  <2>2. CASE AuthorityOf(i) = "gone"
    <3>1. Authority' = Authority
      BY <1>4, <2>1, <2>2 DEF Authority
    <3> QED BY <1>4, <1>6, <3>1 DEF Kept, promise
  <2>3. CASE AuthorityOf(i) # "gone"
    <3>1. Promise!Withdraw(w)
      BY <1>4, <1>5, <1>6, <2>1, <2>3 DEF Promise!Withdraw, Promise!Verdicts
    <3> QED BY <1>4, <3>1 DEF Kept, Promise!Next
  <2> QED BY <2>2, <2>3
<1> QED BY <1>7, <1>8

\* The invocation of an attempt moves on, and with it, perhaps, its approval.
LEMMA InvocationMoves ==
    ASSUME PInv, View, View', NEW i \in Items, NEW s \in Calls \ {"none"}, call[i] # "none",
           call' = [call EXCEPT ![i] = s], AuthorityOf(i)' = AuthorityOf(i),
           UNCHANGED <<kind, account, frozen, remote, sent>>,
           \A j \in Items \ {i} : approval'[j] = approval[j]
    PROVE  /\ i[1] \in Work
           /\ Stage[i[1]] = StageOf(i) /\ Authority[i[1]] = AuthorityOf(i)
           /\ i[1] \in Currents <=> Current(i)
           /\ Effect[i[1]] = remote[i]
           /\ Stage' = [Stage EXCEPT ![i[1]] = StageOf(i)']
           /\ UNCHANGED <<Authority, Currents, Effect, Sends>>
<1>1. call'[i] = s /\ call \in [Items -> Calls]
  BY DEF PInv, IInv, TypeOK
<1>2. \A j \in Items \ {i} : Same(j)
  BY <1>1 DEF Same
<1>3. /\ i[1] \in Work
      /\ Stage[i[1]] = StageOf(i) /\ Authority[i[1]] = AuthorityOf(i)
      /\ i[1] \in Currents <=> Current(i)
      /\ Effect[i[1]] = remote[i] /\ Sends[i[1]] = sent[i]
      /\ Stage' = [Stage EXCEPT ![i[1]] = StageOf(i)']
      /\ Authority' = [Authority EXCEPT ![i[1]] = Authority[i[1]]]
      /\ Currents' = Currents
      /\ Effect' = [Effect EXCEPT ![i[1]] = Effect[i[1]]]
      /\ Sends' = [Sends EXCEPT ![i[1]] = Sends[i[1]]]
  BY <1>1, <1>2, OneSeen
<1>4. Authority' = Authority /\ Effect' = Effect /\ Sends' = Sends
  BY <1>3 DEF Authority, Effect, Sends
<1> QED BY <1>3, <1>4

LEMMA UncertainKept ==
    ASSUME PInv, View, View', NEW i \in Items, MarkUncertain(i),
           UNCHANGED <<kind, account, frozen, approval, remote, sent>>
    PROVE  Kept
<1>1. CASE call[i] = "running"
  <2>1. call' = [call EXCEPT ![i] = "reconciliation_required"]
        /\ call'[i] = "reconciliation_required"
    BY <1>1 DEF MarkUncertain, PInv, IInv, TypeOK
  <2>2. StageOf(i) = "begun" /\ StageOf(i)' = "unknown" /\ AuthorityOf(i)' = AuthorityOf(i)
    BY <1>1, <2>1 DEF StageOf, AuthorityOf, IsMail
  <2>3. Promise!Lose(i[1]) /\ i[1] \in Work
    BY <1>1, <2>1, <2>2, InvocationMoves DEF Promise!Lose, Calls
  <2> QED BY <2>3 DEF Kept, Promise!Next
<1>2. CASE call[i] # "running"
  <2>1. UNCHANGED call
    BY <1>2 DEF MarkUncertain, effect
  <2>2. \A j \in Items : Same(j)
    BY <2>1 DEF Same
  <2> QED BY <2>2, NothingSeen DEF Kept
<1> QED BY <1>1, <1>2

\* A verdict under an approval that stands.
LEMMA VerdictKept ==
    ASSUME PInv, View, View', NEW i \in Items, NEW s \in {"succeeded", "failed"},
           \/ call[i] = "running" /\ s = "succeeded"
           \/ call[i] = "reconciliation_required",
           s = "succeeded" => remote[i] = "applied",
           s = "failed" => remote[i] \in {"none", "void"},
           Current(i), AuthorityOf(i) = "given",
           call' = [call EXCEPT ![i] = s],
           UNCHANGED <<kind, account, frozen, approval, remote, sent>>
    PROVE  Kept
<1> DEFINE verdict == IF s = "succeeded" THEN "done" ELSE "not_done"
<1>1. call'[i] = s
  BY DEF PInv, IInv, TypeOK
<1>2. /\ StageOf(i)' = verdict /\ AuthorityOf(i)' = AuthorityOf(i)
      /\ StageOf(i) = IF call[i] = "running" THEN "begun" ELSE "unknown"
  BY <1>1 DEF StageOf, AuthorityOf, IsMail
<1>3. Promise!Conclude(i[1], verdict) /\ i[1] \in Work
  BY <1>1, <1>2, InvocationMoves DEF Promise!Conclude, Calls
<1> QED BY <1>3 DEF Kept, Promise!Next, Promise!Verdicts

LEMMA StartKept == ASSUME PInv, View, View', Start PROVE Kept
<1> USE DEF preparation
<1>1. PICK i \in Items : i = command.item
  BY DEF Start, PInv, IInv, Remembered
<1>2. CASE MayStart(i) /\ approval' = [approval EXCEPT ![i] = IF @ = "pending" THEN "exact" ELSE @]
           /\ call' = [call EXCEPT ![i] = "running"]
  <2>1. /\ call'[i] = "running" /\ call[i] = "pending_approval" /\ Current(i)
        /\ approval[i] \in {"pending", "granted"} /\ (approval[i] = "granted" => ~IsMail(i))
        /\ approval'[i] = (IF approval[i] = "pending" THEN "exact" ELSE approval[i])
        /\ UNCHANGED <<kind, account, frozen, remote, sent>>
        /\ \A j \in Items \ {i} : call'[j] = call[j] /\ approval'[j] = approval[j]
    BY <1>1, <1>2 DEF Start, MayStart, PInv, IInv, TypeOK
  <2>2. \A j \in Items \ {i} : Same(j)
    BY <2>1 DEF Same
  <2>3. /\ StageOf(i) = "asked" /\ StageOf(i)' = "begun"
        /\ AuthorityOf(i) # "gone" /\ AuthorityOf(i)' = "given"
    BY <2>1 DEF StageOf, AuthorityOf, IsMail
  <2>4. /\ i[1] \in Work
        /\ Stage[i[1]] = StageOf(i) /\ Authority[i[1]] = AuthorityOf(i)
        /\ i[1] \in Currents <=> Current(i)
        /\ Stage' = [Stage EXCEPT ![i[1]] = StageOf(i)']
        /\ Authority' = [Authority EXCEPT ![i[1]] = AuthorityOf(i)']
        /\ Currents' = Currents
        /\ Effect' = [Effect EXCEPT ![i[1]] = Effect[i[1]]]
        /\ Sends' = [Sends EXCEPT ![i[1]] = Sends[i[1]]]
    BY <1>1, <2>1, <2>2, OneSeen
  <2>5. Effect' = Effect /\ Sends' = Sends
    BY <2>4 DEF Effect, Sends
  <2>6. Promise!Begin(i[1])
    BY <2>1, <2>3, <2>4, <2>5 DEF Promise!Begin
  <2> QED BY <2>4, <2>6 DEF Kept, Promise!Next
<1>3. CASE UNCHANGED <<approval, call>>
  <2>1. \A j \in Items : Same(j)
    BY <1>3 DEF Start, Same
  <2> QED BY <2>1, NothingSeen DEF Start, Kept
<1> QED BY <1>1, <1>2, <1>3 DEF Start

LEMMA SendKept == ASSUME PInv, View, View', Send PROVE Kept
<1> USE DEF preparation, decision, effect
<1>1. PICK i \in Items :
         /\ i = command.item
         /\ call[i] = "running" /\ sent[i] = 0 /\ remote[i] = "none"
         /\ AuthorityOf(i) = "given"
  BY DEF Send, PInv, IInv, Remembered, Approved, AuthorityOf
<1>2. /\ sent' = [sent EXCEPT ![i] = 1] /\ remote' = [remote EXCEPT ![i] = "flying"]
      /\ sent'[i] = 1 /\ remote'[i] = "flying"
      /\ UNCHANGED <<kind, account, frozen, approval, call>>
      /\ \A j \in Items \ {i} : sent'[j] = sent[j] /\ remote'[j] = remote[j]
  BY <1>1 DEF Send, PInv, IInv, TypeOK
<1>3. \A j \in Items \ {i} : Same(j)
  BY <1>2 DEF Same
<1>4. StageOf(i) = "begun" /\ StageOf(i)' = StageOf(i) /\ AuthorityOf(i)' = AuthorityOf(i)
  BY <1>1, <1>2 DEF StageOf, AuthorityOf, IsMail
<1>5. /\ i[1] \in Work
      /\ Stage[i[1]] = "begun" /\ Authority[i[1]] = "given" /\ Sends[i[1]] = 0
      /\ Stage' = [Stage EXCEPT ![i[1]] = Stage[i[1]]]
      /\ Authority' = [Authority EXCEPT ![i[1]] = Authority[i[1]]]
      /\ Currents' = Currents
      /\ Effect' = [Effect EXCEPT ![i[1]] = "flying"]
      /\ Sends' = [Sends EXCEPT ![i[1]] = 1]
  BY <1>1, <1>2, <1>3, <1>4, OneSeen
<1>6. Stage' = Stage /\ Authority' = Authority
  BY <1>5 DEF Stage, Authority
<1>7. Promise!Send(i[1])
  BY <1>5, <1>6 DEF Promise!Send
<1> QED BY <1>5, <1>7 DEF Kept, Promise!Next

LEMMA SettleKept ==
    ASSUME PInv, View, View', NEW i \in Items, Land(i) \/ Drop(i)
    PROVE  Kept
<1> USE DEF preparation, decision, effect
<1>1. PICK to \in {"applied", "void"} : remote' = [remote EXCEPT ![i] = to]
  BY DEF Land, Drop
<1>2. /\ remote[i] = "flying" /\ remote'[i] = to
      /\ UNCHANGED <<kind, account, frozen, approval, call, sent>>
      /\ \A j \in Items \ {i} : remote'[j] = remote[j]
  BY <1>1 DEF Land, Drop, PInv, IInv, TypeOK
<1>3. call[i] # "none"
  BY <1>2 DEF PInv, IInv, Agree
<1>4. \A j \in Items \ {i} : Same(j)
  BY <1>2 DEF Same
<1>5. StageOf(i)' = StageOf(i) /\ AuthorityOf(i)' = AuthorityOf(i)
  BY <1>2 DEF StageOf, AuthorityOf, IsMail
<1>6. /\ i[1] \in Work /\ Effect[i[1]] = "flying"
      /\ Stage' = [Stage EXCEPT ![i[1]] = Stage[i[1]]]
      /\ Authority' = [Authority EXCEPT ![i[1]] = Authority[i[1]]]
      /\ Currents' = Currents
      /\ Effect' = [Effect EXCEPT ![i[1]] = to]
      /\ Sends' = [Sends EXCEPT ![i[1]] = Sends[i[1]]]
  BY <1>2, <1>3, <1>4, <1>5, OneSeen
<1>7. Stage' = Stage /\ Authority' = Authority /\ Sends' = Sends
  BY <1>6 DEF Stage, Authority, Sends
<1>8. Promise!Settle(i[1], to)
  BY <1>6, <1>7 DEF Promise!Settle
<1> QED BY <1>6, <1>8 DEF Kept, Promise!Next

LEMMA AccountKept ==
    ASSUME View, View', UNCHANGED <<kind, preparation, decision, effect, remote, sent>>
    PROVE  Kept
<1>1. \A w \in Work : SameView(w)
  BY SameSeen DEF Same, preparation, decision, effect
<1>2. Stage' = Stage /\ Authority' = Authority
  BY <1>1 DEF SameView, Stage, Authority
<1>3. Effect' = Effect /\ Sends' = Sends
  BY <1>1 DEF SameView, Effect, Sends
<1>4. Currents' \in SUBSET Work
  BY DEF Currents
<1> QED BY <1>2, <1>3, <1>4 DEF Kept, Promise!Next, Promise!AccountChanges

LEMMA ConfirmedKept == ASSUME PInv, View, View', Confirmed PROVE Kept
<1> USE DEF preparation
<1>1. PICK i \in Items : /\ i = command.item
                         /\ remote[i] = "applied" /\ AuthorityOf(i) = "given"
  BY DEF Confirmed, PInv, IInv, Remembered, AuthorityOf
<1>2. CASE call[i] = "running" /\ Current(i) /\ Complete(i)
  BY <1>1, <1>2, VerdictKept DEF Confirmed, Complete
<1>3. CASE MarkUncertain(i)
  BY <1>1, <1>3, UncertainKept DEF Confirmed
<1> QED BY <1>1, <1>2, <1>3 DEF Confirmed

LEMMA FoundKept == ASSUME PInv, View, View', FoundApplied \/ FoundVoid PROVE Kept
<1> USE DEF preparation
<1>1. PICK i \in Items : i = worker.item
  BY DEF FoundApplied, FoundVoid, PInv, IInv, TypeOK
<1>2. UNCHANGED <<kind, account, frozen, approval, remote, sent>>
  BY DEF FoundApplied, FoundVoid
<1>3. CASE ~Owned(i)
  <2>1. UNCHANGED call
    BY <1>1, <1>3 DEF FoundApplied, FoundVoid, effect
  <2>2. \A j \in Items : Same(j)
    BY <1>2, <2>1 DEF Same
  <2> QED BY <1>2, <2>2, NothingSeen DEF Kept
<1>4. CASE Owned(i)
  <2>1. call[i] = "reconciliation_required" /\ Current(i)
    BY <1>4 DEF Owned, Bound, PInv, IInv, Agree
  <2>2. AuthorityOf(i) = "given"
    BY <1>4, <2>1 DEF Owned, Bound, PInv, Approved, AuthorityOf
  <2>3. \/ remote[i] = "applied" /\ call' = [call EXCEPT ![i] = "succeeded"]
        \/ remote[i] \in {"none", "void"} /\ call' = [call EXCEPT ![i] = "failed"]
    BY <1>1, <1>4 DEF FoundApplied, FoundVoid, Complete
  <2> QED BY <1>2, <2>1, <2>2, <2>3, VerdictKept
<1> QED BY <1>3, <1>4

\* Every step of connected work is one of the promise, or is not seen there.
LEMMA PromiseStep == ASSUME PInv, PInv', [Next]_vars PROVE Kept
<1> USE DEF preparation, decision, effect, actors
<1>0. View /\ View'
  <2>1. View
    BY Views DEF PInv
  <2>2. IInv'
    BY DEF PInv
  <2>3. View'
    BY <2>2, Views, PTL
  <2> QED BY <2>1, <2>3
<1>1. CASE UNCHANGED <<kind, account, frozen, approval, call, remote, sent>>
  BY <1>0, <1>1, NothingSeen DEF Same, Kept
<1>2. ASSUME NEW w \in Work, Prepare(w) PROVE Kept
  <2>1. PICK i \in Items : /\ Fresh(w, i) /\ Written(i, "review")
                           /\ UNCHANGED <<kind, account, remote, sent>>
    BY <1>2 DEF Prepare
  <2> QED BY <1>0, <2>1, PreparationKept DEF Stages
<1>3. ASSUME NEW w \in Work, NEW s \in Stages, PrepareFails(w, s) \/ PrepareStops(w, s)
      PROVE  Kept
  <2>1. PICK i \in Items : /\ Fresh(w, i) /\ Written(i, s)
                           /\ UNCHANGED <<kind, account, remote, sent>>
    BY <1>3 DEF PrepareFails, PrepareStops
  <2> QED BY <1>0, <2>1, PreparationKept
<1>4. ASSUME NEW i \in Items, NEW to, Decide(i, to) PROVE Kept
  <2>1. CASE review[i] = "pending_approval"
    BY <1>0, <1>4, <2>1, DecisionKept DEF Decide
  <2>2. CASE review[i] # "pending_approval"
    <3>1. UNCHANGED approval
      BY <1>4, <2>2 DEF Decide, PInv, IInv, TypeOK
    <3> QED BY <1>1, <1>4, <3>1 DEF Decide
  <2> QED BY <2>1, <2>2
<1>5. ASSUME NEW i \in Items, NEW to \in {"granted", "denied"}, ResolveRequest(i, to) PROVE Kept
  BY <1>0, <1>5, DecisionKept DEF ResolveRequest
<1>6. CASE MarkStranded \/ Unanswered
  <2>1. PICK i \in Items : i = command.item
    BY <1>6 DEF MarkStranded, Unanswered, PInv, IInv, Remembered
  <2> QED BY <1>0, <1>6, <2>1, UncertainKept DEF MarkStranded, Unanswered
<1>7. CASE Disconnect \/ NeedsRepair \/ Connect(TRUE) \/ Connect(FALSE)
  BY <1>0, <1>7, AccountKept DEF Disconnect, NeedsRepair, Connect
<1>8. CASE \/ \E w \in Work : PrepareAgain(w)
           \/ \E i \in Items : \/ EndRun(i) \/ Look(i) \/ Query(i) \/ BecomesDue(i)
                               \/ LeaseRunsOut(i)
           \/ Sweep \/ Defer \/ Stop \/ Startup \/ UNCHANGED vars
  BY <1>1, <1>8 DEF PrepareAgain, EndRun, Look, Query, BecomesDue, LeaseRunsOut, Sweep, Defer, Stop,
     Startup, vars
<1>9. CASE \E i \in Items : RequestApproval(i) \/ Land(i) \/ Drop(i)
  BY <1>0, <1>9, RequestKept, SettleKept
<1>10. CASE Start \/ Send \/ Confirmed \/ FoundApplied \/ FoundVoid
  BY <1>0, <1>10, StartKept, SendKept, ConfirmedKept, FoundKept
<1> QED BY <1>2, <1>3, <1>4, <1>5, <1>6, <1>7, <1>8, <1>9, <1>10
        DEF Next, ItemStep, Reject, Accept, Edit

LEMMA PromiseInit == Init => Promise!Init
<1> SUFFICES ASSUME Init PROVE Promise!Init
  OBVIOUS
<1>1. \A w \in Work : Taken(w) = {}
  BY DEF Init, Taken
<1> QED BY <1>1 DEF Promise!Init, Stage, Authority, Currents, Effect, Sends, Of

\* Connected work implements ChangePromise: over all attempts, stops, second
\* clicks, late answers and look-ups, the change of a request is begun for the
\* account it was reviewed for, sent at most once and under an approval that
\* stands, and its verdict is true and final.
THEOREM WorkKeepsPromise == Spec => PromiseKept
<1>1. PInv /\ PInv' /\ [Next]_vars => [Promise!Next]_(Promise!vars)
  BY PromiseStep DEF Kept, promise, Promise!vars
<1> QED BY <1>1, PInvariant, PromiseInit, PTL DEF Spec, PromiseKept, Promise!Spec
=============================================================================
