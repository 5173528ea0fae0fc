------------------------- MODULE AutomationOutbox_proofs -------------------------
(***************************************************************************)
(* Proofs about AutomationOutbox, and about the order it implements, for   *)
(* every value of the constants.                                           *)
(***************************************************************************)
EXTENDS AutomationOutboxOrder, SequenceTheorems, TLAPS

(* Sequences and records. *)

LEMMA FunctionIsSeq ==
    ASSUME NEW S, NEW n \in Nat, NEW f \in [1 .. n -> S]
    PROVE  f \in Seq(S) /\ Len(f) = n
  OBVIOUS

LEMMA Facts ==
    ASSUME TypeOK, NEW e \in Events
    PROVE  /\ outbox[e] \in Row
           /\ executions[e] \in Seq(Execution) /\ workers[e] \in Seq(Worker)
           /\ Len(executions[e]) \in Nat /\ Len(workers[e]) = Len(executions[e])
           /\ DOMAIN executions[e] = 1 .. Len(executions[e])
           /\ DOMAIN workers[e] = 1 .. Len(executions[e])
           /\ \A k \in DOMAIN workers[e] :
                 workers[e][k] \in Worker /\ executions[e][k] \in Execution
<1>1. executions[e] \in Seq(Execution) /\ workers[e] \in Seq(Worker)
      /\ Len(workers[e]) = Len(executions[e]) /\ outbox[e] \in Row
  BY DEF TypeOK
<1> QED
  BY <1>1, LenProperties

\* Updates of a worker and of a row that the actions make.
LEMMA WorkerShapes ==
    \A w \in Worker :
        /\ \A s \in Stages : (s \in {"concluding", "saving"} => w.stage = "concluding")
                            => [w EXCEPT !.stage = s] \in Worker
        /\ \A o \in Outcomes : [w EXCEPT !.stage = "concluding", !.outcome = o] \in Worker
<1> SUFFICES ASSUME NEW w \in Worker
    PROVE /\ \A s \in Stages : (s \in {"concluding", "saving"} => w.stage = "concluding")
                            => [w EXCEPT !.stage = s] \in Worker
          /\ \A o \in Outcomes : [w EXCEPT !.stage = "concluding", !.outcome = o] \in Worker
  OBVIOUS
<1>1. /\ w \in [process : Processes \cup {"none"}, stage : Stages, outcome : Outcomes \cup {"none"}]
      /\ w.stage \in {"concluding", "saving"} => w.outcome \in Outcomes
  BY DEF Worker
<1>2. ASSUME NEW s \in Stages, s \in {"concluding", "saving"} => w.stage = "concluding"
      PROVE  [w EXCEPT !.stage = s] \in Worker
  <2>1. [w EXCEPT !.stage = s] = [process |-> w.process, stage |-> s, outcome |-> w.outcome]
    BY <1>1
  <2>2. QED
    BY <1>1, <1>2, <2>1 DEF Worker
<1>3. ASSUME NEW o \in Outcomes
      PROVE  [w EXCEPT !.stage = "concluding", !.outcome = o] \in Worker
  <2> DEFINE c == [w EXCEPT !.stage = "concluding", !.outcome = o]
  <2>1. c \in [process : Processes \cup {"none"}, stage : Stages,
               outcome : Outcomes \cup {"none"}]
    BY <1>1 DEF Stages
  <2>2. c.outcome = o
    BY <1>1
  <2> HIDE DEF c
  <2>3. c \in Worker
    BY <2>1, <2>2 DEF Worker
  <2>4. QED
    BY <2>3 DEF c
<1>4. QED
  BY <1>2, <1>3

LEMMA RowShapes ==
    \A r \in Row :
        /\ [r EXCEPT !.status = "delivered"] \in Row
        /\ [r EXCEPT !.status = "dead"] \in Row
        /\ [r EXCEPT !.status = "dead", !.executionId = 0] \in Row
        /\ [r EXCEPT !.status = "pending", !.due = FALSE, !.executionId = 0] \in Row
        /\ [r EXCEPT !.status = "delivered", !.executionId = 0, !.lockId = 0,
                     !.lapsed = FALSE] \in Row
        /\ [r EXCEPT !.status = "delivered", !.lockId = 0, !.lapsed = FALSE] \in Row
        /\ [r EXCEPT !.lapsed = TRUE] \in Row
        /\ [r EXCEPT !.due = TRUE] \in Row
        /\ [r EXCEPT !.lockId = 0, !.lapsed = FALSE] \in Row
  BY DEF Row, Statuses

\* The types of the three tables after a step.
TablesTyped ==
    /\ outbox \in [Events -> Row]
    /\ executions \in [Events -> Seq(Execution)]
    /\ workers \in [Events -> Seq(Worker)]
    /\ \A e \in Events : Len(workers[e]) = Len(executions[e])

LEMMA SetWorker ==
    ASSUME TypeOK, NEW e \in Events, NEW k \in DOMAIN workers[e], NEW w \in Worker,
           workers' = [workers EXCEPT ![e] = [workers[e] EXCEPT ![k] = w]]
    PROVE  /\ workers' \in [Events -> Seq(Worker)]
           /\ \A f \in Events : Len(workers'[f]) = Len(workers[f])
<1>1. [workers[e] EXCEPT ![k] = w] \in Seq(Worker)
      /\ Len([workers[e] EXCEPT ![k] = w]) = Len(workers[e])
  BY Facts, ExceptSeq
<1>2. QED
  BY <1>1 DEF TypeOK

LEMMA SetAudit ==
    ASSUME TypeOK, NEW e \in Events, NEW k \in DOMAIN workers[e], NEW s \in RowStatuses,
           executions' = [executions EXCEPT ![e][k].status = s]
    PROVE  /\ executions' \in [Events -> Seq(Execution)]
           /\ \A f \in Events : Len(executions'[f]) = Len(executions[f])
<1> DEFINE x == [executions[e][k] EXCEPT !.status = s]
<1>1. x \in Execution
  BY Facts DEF Execution
<1>2. executions' = [executions EXCEPT ![e] = [executions[e] EXCEPT ![k] = x]]
  OBVIOUS
<1> HIDE DEF x
<1>3. [executions[e] EXCEPT ![k] = x] \in Seq(Execution)
      /\ Len([executions[e] EXCEPT ![k] = x]) = Len(executions[e])
  BY <1>1, Facts, ExceptSeq
<1>4. QED
  BY <1>2, <1>3 DEF TypeOK

\* A dispatch that changes its stage stays a dispatch.
LEMMA StageTyped ==
    ASSUME TypeOK, NEW e \in Events, NEW k \in DOMAIN workers[e],
           \/ Leave(e, k)
           \/ \E s \in Stages \ {"concluding", "saving"} : SetStage(e, k, s)
           \/ workers[e][k].stage = "concluding" /\ SetStage(e, k, "saving")
    PROVE  /\ workers' \in [Events -> Seq(Worker)]
           /\ \A f \in Events : Len(workers'[f]) = Len(workers[f])
<1>1. CASE Leave(e, k)
  BY <1>1, SetWorker DEF Leave, Gone, Worker, Stages
<1>2. ASSUME NEW s \in Stages, SetStage(e, k, s),
             s \notin {"concluding", "saving"} \/ workers[e][k].stage = "concluding"
      PROVE  \E w \in Worker : workers' = [workers EXCEPT ![e] = [workers[e] EXCEPT ![k] = w]]
  <2>1. [workers[e][k] EXCEPT !.stage = s] \in Worker
    BY <1>2, Facts, WorkerShapes
  <2>2. QED
    BY <1>2, <2>1 DEF SetStage
<1>3. "saving" \in Stages
  BY DEF Stages
<1>4. QED
  BY <1>1, <1>2, <1>3, SetWorker

LEMMA FaultTyped == TypeOK /\ Fault => spent' \in Spent
  BY BoundsAssumption DEF TypeOK, Fault, Spent

\* The outbox after one row was replaced.
LEMMA SetRow ==
    ASSUME TypeOK, NEW e \in Events, NEW r \in Row, outbox' = [outbox EXCEPT ![e] = r]
    PROVE  outbox' \in [Events -> Row]
  BY DEF TypeOK

LEMMA InitTyped == Init => TypeOK
<1> SUFFICES ASSUME Init PROVE TypeOK
  OBVIOUS
<1>1. Absent \in Row
  BY BoundsAssumption DEF Absent, Row, Statuses, Topics, Requested, Collecting
<1>2. <<>> \in Seq(Execution) /\ <<>> \in Seq(Worker)
  OBVIOUS
<1>3. spent \in Spent
  BY BoundsAssumption DEF Init, Spent
<1>4. QED
  BY <1>1, <1>2, <1>3 DEF Init, TypeOK
-------------------------------------------------------------------------------
(* Typing, action by action. *)

LEMMA EnqueueTyped ==
    ASSUME TypeOK, NEW e \in Events, NEW t \in Topics, NEW c \in Collecting, Enqueue(e, t, c)
    PROVE  TypeOK'
<1> DEFINE r == [Absent EXCEPT !.status = "pending", !.topic = t, !.collecting = c]
<1>1. r \in Row
  <2>1. Absent \in Row
    BY BoundsAssumption DEF Absent, Row, Statuses, Topics, Requested, Collecting
  <2>2. QED
    BY <2>1 DEF Row, Statuses
<1>2. outbox' = [outbox EXCEPT ![e] = r]
  BY DEF Enqueue
<1> HIDE DEF r
<1>3. QED
  BY <1>1, <1>2, SetRow DEF Enqueue, TypeOK

\* The sweep keeps every row and every audit row well typed, and the attempts.
LEMMA SweepTyped ==
    ASSUME TypeOK
    PROVE  /\ SweptOutbox \in [Events -> Row]
           /\ \A e \in Events : SweptOutbox[e].attempts = outbox[e].attempts
           /\ SweptExecutions \in [Events -> Seq(Execution)]
           /\ \A e \in Events : /\ Len(SweptExecutions[e]) = Len(executions[e])
                                /\ \A k \in DOMAIN executions[e] :
                                      SweptExecutions[e][k].attempt = executions[e][k].attempt
<1>1. ASSUME NEW e \in Events
      PROVE  SweptOutbox[e] \in Row /\ SweptOutbox[e].attempts = outbox[e].attempts
  <2>1. outbox[e] \in Row
    BY Facts
  <2>2. CASE Exhausted(e)
    BY <2>1, <2>2 DEF SweptOutbox, Row, Statuses
  <2>3. CASE ~Exhausted(e)
    BY <2>1, <2>3 DEF SweptOutbox
  <2>4. QED
    BY <2>2, <2>3
<1>2. \A e \in Events : \A x \in Execution :
         Expire(e, x) \in Execution /\ Expire(e, x).attempt = x.attempt
  BY DEF Expire, Execution, RowStatuses
<1>3. ASSUME NEW e \in Events
      PROVE  /\ SweptExecutions[e] \in Seq(Execution)
             /\ Len(SweptExecutions[e]) = Len(executions[e])
             /\ \A k \in DOMAIN executions[e] :
                   SweptExecutions[e][k].attempt = executions[e][k].attempt
  <2>1. /\ Len(executions[e]) \in Nat /\ DOMAIN executions[e] = 1 .. Len(executions[e])
        /\ \A k \in DOMAIN executions[e] : executions[e][k] \in Execution
    BY Facts
  <2>2. SweptExecutions[e] = [k \in DOMAIN executions[e] |-> Expire(e, executions[e][k])]
    BY DEF SweptExecutions
  <2>3. SweptExecutions[e] \in [1 .. Len(executions[e]) -> Execution]
    BY <1>2, <2>1, <2>2
  <2>4. \A k \in DOMAIN executions[e] :
           SweptExecutions[e][k].attempt = executions[e][k].attempt
    BY <1>2, <2>1, <2>2
  <2>5. QED
    BY <2>1, <2>3, <2>4, FunctionIsSeq
<1>4. QED
  BY <1>1, <1>3 DEF SweptOutbox, SweptExecutions

LEMMA TickTyped ==
    ASSUME TypeOK, NEW p \in Processes, Tick(p)
    PROVE  TypeOK'
<1>1. PICK S \in SUBSET Candidates(SweptOutbox) :
        /\ outbox' = [e \in Events |-> IF e \in S THEN Claimed(e, SweptOutbox[e])
                                                  ELSE SweptOutbox[e]]
        /\ executions' =
             [e \in Events |->
                IF e \in S
                THEN Append(SweptExecutions[e],
                            [attempt |-> outbox[e].attempts + 1, status |-> "claimed"])
                ELSE SweptExecutions[e]]
        /\ workers' =
             [e \in Events |->
                IF e \in S
                THEN Append(workers[e],
                            [process |-> p, stage |-> "claimed", outcome |-> "none"])
                ELSE workers[e]]
        /\ running' = [running EXCEPT ![p] = {<<e, Len(executions[e]) + 1>> : e \in S}]
  BY DEF Tick
<1>2. \A e \in S : e \in Events /\ SweptOutbox[e].attempts < MaxAttempts
  BY DEF Candidates
<1>3. ASSUME NEW e \in Events
      PROVE  /\ outbox'[e] \in Row /\ executions'[e] \in Seq(Execution)
             /\ workers'[e] \in Seq(Worker) /\ Len(workers'[e]) = Len(executions'[e])
  <2>1. /\ SweptOutbox[e] \in Row /\ SweptExecutions[e] \in Seq(Execution)
        /\ workers[e] \in Seq(Worker) /\ Len(workers[e]) = Len(SweptExecutions[e])
        /\ Len(executions[e]) \in Nat /\ SweptOutbox[e].attempts = outbox[e].attempts
    BY SweepTyped, Facts
  <2>2. CASE e \in S
    <3>1. outbox[e].attempts + 1 \in 1 .. MaxAttempts
      BY <1>2, <2>1, <2>2, BoundsAssumption DEF Row
    <3>2. Claimed(e, SweptOutbox[e]) \in Row
      <4>1. SweptOutbox[e].attempts + 1 \in 0 .. MaxAttempts
        BY <2>1, <3>1, BoundsAssumption
      <4>2. Len(executions[e]) + 1 \in Nat
        BY <2>1
      <4> DEFINE n == Len(executions[e]) + 1
                 a == SweptOutbox[e].attempts + 1
                 row == SweptOutbox[e]
      <4>3. Claimed(e, row) = [row EXCEPT !.status = "processing", !.attempts = a,
                                          !.lapsed = FALSE, !.lockId = n, !.executionId = n]
        BY DEF Claimed
      <4>4. row \in Row
        BY <2>1
      <4> HIDE DEF n, a, row
      <4>5. n \in Nat /\ a \in 0 .. MaxAttempts
        BY <4>1, <4>2 DEF n, a
      <4>6. Claimed(e, row) \in Row
        BY <4>3, <4>4, <4>5 DEF Row, Statuses
      <4>7. QED
        BY <4>6 DEF row
    <3>3. [attempt |-> outbox[e].attempts + 1, status |-> "claimed"] \in Execution
      BY <3>1 DEF Execution, RowStatuses
    <3>4. [process |-> p, stage |-> "claimed", outcome |-> "none"] \in Worker
      BY DEF Worker, Stages
    <3>5. QED
      BY <1>1, <2>1, <2>2, <3>2, <3>3, <3>4, AppendProperties
  <2>3. CASE e \notin S
    BY <1>1, <2>1, <2>3
  <2>4. QED
    BY <2>2, <2>3
<1>4. /\ outbox' \in [Events -> Row] /\ executions' \in [Events -> Seq(Execution)]
      /\ workers' \in [Events -> Seq(Worker)]
  BY <1>1, <1>3
<1>5. running' \in [Processes -> SUBSET (Events \X Nat)]
  <2> DEFINE D == {<<e, Len(executions[e]) + 1>> : e \in S}
  <2>1. \A e \in S : e \in Events /\ Len(executions[e]) + 1 \in Nat
    BY <1>2, Facts
  <2>2. D \in SUBSET (Events \X Nat)
    BY <2>1
  <2>3. running' = [running EXCEPT ![p] = D]
    BY <1>1
  <2> HIDE DEF D
  <2>4. QED
    BY <2>2, <2>3 DEF TypeOK
<1>6. QED
  BY <1>3, <1>4, <1>5 DEF Tick, TypeOK

LEMMA EndTickTyped ==
    ASSUME TypeOK, NEW p \in Processes, EndTick(p)
    PROVE  TypeOK'
  BY DEF EndTick, TypeOK

LEMMA CrashTyped ==
    ASSUME TypeOK, NEW p \in Processes, Crash(p)
    PROVE  TypeOK'
<1>1. ASSUME NEW e \in Events
      PROVE  workers'[e] \in Seq(Worker) /\ Len(workers'[e]) = Len(workers[e])
  <2>1. /\ Len(workers[e]) \in Nat /\ DOMAIN workers[e] = 1 .. Len(workers[e])
        /\ \A k \in DOMAIN workers[e] : workers[e][k] \in Worker
    BY Facts
  <2>2. Gone \in Worker
    BY DEF Gone, Worker, Stages
  <2>3. workers'[e] = [k \in DOMAIN workers[e] |->
                         IF workers[e][k].process = p THEN Gone ELSE workers[e][k]]
    BY DEF Crash
  <2>4. workers'[e] \in [1 .. Len(workers[e]) -> Worker]
    BY <2>1, <2>2, <2>3
  <2>5. QED
    BY <2>1, <2>4, FunctionIsSeq
<1>2. workers' \in [Events -> Seq(Worker)]
  BY <1>1 DEF Crash
<1>3. QED
  BY <1>1, <1>2, FaultTyped DEF Crash, TypeOK

LEMMA AcceptTyped ==
    ASSUME TypeOK, NEW e \in Events, NEW k \in DOMAIN workers[e],
           Accept(e, k) \/ AcceptWithoutLock(e, k) \/ AcceptFails(e, k)
    PROVE  TypeOK'
<1>1. workers' \in [Events -> Seq(Worker)] /\ \A f \in Events : Len(workers'[f]) = Len(workers[f])
  BY StageTyped DEF Accept, AcceptWithoutLock, AcceptFails, Stages
<1>2. CASE Accept(e, k)
  <2>1. [outbox[e] EXCEPT !.lockId = 0, !.lapsed = FALSE] \in Row
    BY Facts DEF Row
  <2>2. outbox' = [outbox EXCEPT ![e] = [outbox[e] EXCEPT !.lockId = 0, !.lapsed = FALSE]]
    BY <1>2 DEF Accept, GrantLease
  <2>3. outbox' \in [Events -> Row]
    BY <2>1, <2>2, SetRow
  <2>4. /\ executions' \in [Events -> Seq(Execution)]
        /\ \A f \in Events : Len(executions'[f]) = Len(executions[f])
    BY <1>2, SetAudit DEF Accept, GrantLease, RowStatuses
  <2>5. spent' \in Spent
    BY <1>2, FaultTyped DEF Accept, TypeOK
  <2>6. QED
    BY <1>1, <1>2, <2>3, <2>4, <2>5 DEF Accept, TypeOK
<1>3. CASE AcceptWithoutLock(e, k) \/ AcceptFails(e, k)
  BY <1>1, <1>3, FaultTyped DEF AcceptWithoutLock, AcceptFails, TypeOK
<1>4. QED
  BY <1>2, <1>3

LEMMA AbandonTyped ==
    ASSUME TypeOK, NEW e \in Events, NEW k \in DOMAIN workers[e], Abandon(e, k)
    PROVE  running' \in [Processes -> SUBSET (Events \X Nat)]
<1>1. running' = [q \in Processes |-> IF <<e, k>> \in running[q] THEN {} ELSE running[q]]
  BY DEF Abandon
<1>2. \A q \in Processes : running[q] \in SUBSET (Events \X Nat)
  BY DEF TypeOK
<1>3. QED
  BY <1>1, <1>2

LEMMA RejectTyped ==
    ASSUME TypeOK, NEW e \in Events, NEW k \in DOMAIN workers[e],
           Reject(e, k) \/ RejectReplyLost(e, k)
    PROVE  TypeOK'
<1> GiveBack(e, k)
  BY DEF Reject, RejectReplyLost
<1>1. outbox[e] \in Row /\ executions[e][k].attempt \in 1 .. MaxAttempts
  BY Facts DEF Execution
<1>2. executions[e][k].attempt \in 0 .. MaxAttempts
  BY <1>1, BoundsAssumption
<1>3. outbox' \in [Events -> Row]
  <2>1. CASE ~HoldsLock(e, k)
    BY <2>1 DEF GiveBack, TypeOK
  <2>2. CASE HoldsLock(e, k)
    <3> DEFINE st == IF executions[e][k].attempt >= MaxAttempts THEN "dead" ELSE "pending"
               r == [outbox[e] EXCEPT !.status = st, !.attempts = executions[e][k].attempt,
                       !.due = FALSE, !.lockId = 0, !.executionId = 0, !.lapsed = FALSE]
    <3>1. st \in Statuses
      BY DEF Statuses
    <3>2. outbox' = [outbox EXCEPT ![e] = r]
      BY <2>2 DEF GiveBack
    <3> HIDE DEF st
    <3>3. r \in Row
      BY <1>1, <1>2, <3>1 DEF Row
    <3> HIDE DEF r
    <3>4. QED
      BY <3>2, <3>3, SetRow
  <2>3. QED
    BY <2>1, <2>2
<1>4. /\ executions' \in [Events -> Seq(Execution)]
      /\ \A f \in Events : Len(executions'[f]) = Len(executions[f])
  BY SetAudit DEF GiveBack, RowStatuses, TypeOK
<1>5. /\ workers' \in [Events -> Seq(Worker)]
      /\ \A f \in Events : Len(workers'[f]) = Len(workers[f])
  BY StageTyped DEF GiveBack
<1>6. CASE Reject(e, k)
  BY <1>3, <1>4, <1>5, <1>6 DEF Reject, GiveBack, TypeOK
<1>7. CASE RejectReplyLost(e, k)
  <2>1. running' \in [Processes -> SUBSET (Events \X Nat)] /\ spent' \in Spent
    BY <1>7, AbandonTyped, FaultTyped DEF RejectReplyLost, Abandon
  <2>2. QED
    BY <1>3, <1>4, <1>5, <2>1 DEF GiveBack, TypeOK
<1>8. QED
  BY <1>6, <1>7

LEMMA RejectFailsTyped ==
    ASSUME TypeOK, NEW e \in Events, NEW k \in DOMAIN workers[e], RejectFails(e, k)
    PROVE  TypeOK'
<1>1. running' \in [Processes -> SUBSET (Events \X Nat)] /\ spent' \in Spent
  BY AbandonTyped, FaultTyped DEF RejectFails, Abandon
<1>2. QED
  BY <1>1, StageTyped DEF RejectFails, TypeOK

LEMMA CheckpointTyped ==
    ASSUME TypeOK, NEW e \in Events, NEW k \in DOMAIN workers[e], StoreCheckpoint(e, k)
    PROVE  TypeOK'
<1>1. PICK B \in SUBSET {f \in Events : f \in Successors(e)} :
         checkpoint' = [checkpoint EXCEPT ![e] = {e[2]} \cup {f[2] : f \in B}]
  BY DEF StoreCheckpoint, Successors
<1>2. {e[2]} \cup {f[2] : f \in B} \in SUBSET (1 .. MaxSequence)
  BY DEF Events
<1>3. QED
  BY <1>1, <1>2 DEF StoreCheckpoint, TypeOK

LEMMA EndExecutionTyped ==
    ASSUME TypeOK, NEW e \in Events, NEW k \in DOMAIN workers[e], NEW o \in Outcomes,
           EndExecution(e, k, o)
    PROVE  TypeOK'
<1> DEFINE w == [workers[e][k] EXCEPT !.stage = "concluding", !.outcome = o]
<1>1. w \in Worker
  BY Facts, WorkerShapes
<1>2. workers' = [workers EXCEPT ![e] = [workers[e] EXCEPT ![k] = w]]
  BY DEF EndExecution
<1> HIDE DEF w
<1>3. /\ workers' \in [Events -> Seq(Worker)]
      /\ \A f \in Events : Len(workers'[f]) = Len(workers[f])
  BY <1>1, <1>2, SetWorker
<1>4. QED
  BY <1>3 DEF EndExecution, TypeOK

LEMMA FailedCompletionTyped ==
    ASSUME TypeOK, NEW e \in Events, NEW k \in DOMAIN workers[e], AfterFailedCompletion(e, k)
    PROVE  /\ workers' \in [Events -> Seq(Worker)]
           /\ \A f \in Events : Len(workers'[f]) = Len(workers[f])
<1> DEFINE w == IF workers[e][k].outcome = "succeeded"
                THEN [workers[e][k] EXCEPT !.stage = "concluding",
                                           !.outcome = "retryable-failure"]
                ELSE Gone
<1>1. w \in Worker
  BY Facts DEF Worker, Stages, Gone, Outcomes, Failures
<1>2. workers' = [workers EXCEPT ![e] = [workers[e] EXCEPT ![k] = w]]
  BY DEF AfterFailedCompletion
<1> HIDE DEF w
<1>3. QED
  BY <1>1, <1>2, SetWorker

LEMMA CompletionTyped ==
    ASSUME TypeOK, NEW e \in Events, NEW k \in DOMAIN workers[e],
           BeginCompletion(e, k) \/ CompletionFails(e, k)
    PROVE  TypeOK'
<1>1. \/ AfterFailedCompletion(e, k)
      \/ workers[e][k].stage = "concluding" /\ SetStage(e, k, "saving")
  <2>1. CASE BeginCompletion(e, k) /\ Owns(e, k)
    BY <2>1 DEF BeginCompletion
  <2>2. CASE BeginCompletion(e, k) /\ ~Owns(e, k)
    BY <2>2 DEF BeginCompletion
  <2>3. CASE CompletionFails(e, k)
    BY <2>3 DEF CompletionFails
  <2>4. QED
    BY <2>1, <2>2, <2>3
<1>2. /\ workers' \in [Events -> Seq(Worker)]
      /\ \A f \in Events : Len(workers'[f]) = Len(workers[f])
  BY <1>1, StageTyped, FailedCompletionTyped
<1>3. QED
  BY <1>2, FaultTyped DEF BeginCompletion, CompletionFails, TypeOK

\* The row of a completion: its attempt is that of the execution, and it is
\* not in progress any more.
LEMMA ConcludedTyped ==
    ASSUME TypeOK, NEW e \in Events, NEW k \in DOMAIN workers[e]
    PROVE  Concluded(e, k) \in Row /\ Concluded(e, k).status # "processing"
<1> DEFINE a == executions[e][k].attempt
           released == [outbox[e] EXCEPT !.attempts = a, !.lockId = 0, !.lapsed = FALSE]
<1>1. a \in 0 .. MaxAttempts
  BY Facts, BoundsAssumption DEF Execution
<1> HIDE DEF a
<1>2. released \in Row
  BY <1>1, Facts DEF Row
<1> HIDE DEF released
<1>3. \/ Concluded(e, k) = [released EXCEPT !.status = "delivered"]
      \/ Concluded(e, k) = [released EXCEPT !.status = "pending", !.due = FALSE, !.executionId = 0]
      \/ Concluded(e, k) = [released EXCEPT !.status = "dead", !.executionId = 0]
      \/ Concluded(e, k) = [released EXCEPT !.status = "dead"]
  <2> DEFINE o == workers[e][k].outcome
             last == executions[e][k].attempt >= MaxAttempts
  <2>1. CASE o = "succeeded"
    BY <2>1 DEF Concluded, released, a
  <2>2. CASE o = "retryable-failure" /\ ~last
    BY <2>2 DEF Concluded, released, a
  <2>3. CASE o = "retryable-failure" /\ last
    BY <2>3 DEF Concluded, released, a
  <2>4. CASE o # "succeeded" /\ o # "retryable-failure"
    BY <2>4 DEF Concluded, released, a
  <2>5. QED
    BY <2>1, <2>2, <2>3, <2>4
<1>4. Concluded(e, k) \in Row
  BY <1>2, <1>3, RowShapes
<1>5. Concluded(e, k).status \in {"delivered", "pending", "dead"}
  BY <1>2, <1>3 DEF Row
<1>6. QED
  BY <1>4, <1>5

LEMMA SaveTyped ==
    ASSUME TypeOK, NEW e \in Events, NEW k \in DOMAIN workers[e], SaveCompletion(e, k)
    PROVE  TypeOK'
<1> DEFINE B == Consumed(e, k)
<1>1. PICK w \in Worker :
         /\ workers' = [f \in Events |-> IF f = e THEN [workers[e] EXCEPT ![k] = w]
                                         ELSE IF f \in B THEN Append(workers[f], Gone)
                                         ELSE workers[f]]
         /\ UNCHANGED spent \/ Fault
  BY DEF SaveCompletion
<1>2. ASSUME NEW f \in Events
      PROVE  /\ outbox'[f] \in Row /\ executions'[f] \in Seq(Execution)
             /\ workers'[f] \in Seq(Worker) /\ Len(workers'[f]) = Len(executions'[f])
  <2>1. /\ outbox[f] \in Row /\ executions[f] \in Seq(Execution)
        /\ workers[f] \in Seq(Worker) /\ Len(workers[f]) = Len(executions[f])
        /\ Len(executions[f]) \in Nat
    BY Facts
  <2>2. CASE f = e
    <3> DEFINE x == [executions[e][k] EXCEPT !.status = ConcludedStatus(e, k)]
    <3>1. ConcludedStatus(e, k) \in RowStatuses
      <4>1. workers[e][k].outcome \in Outcomes
        BY Facts DEF Worker, SaveCompletion
      <4>2. QED
        BY <4>1 DEF ConcludedStatus, RowStatuses, Outcomes, Failures
    <3>2. x \in Execution
      BY <3>1, Facts DEF Execution
    <3>3. executions'[e] = [executions[e] EXCEPT ![k] = x]
      BY DEF SaveCompletion
    <3> HIDE DEF x
    <3>4. executions'[e] \in Seq(Execution) /\ Len(executions'[e]) = Len(executions[e])
      BY <3>2, <3>3, Facts, ExceptSeq
    <3>5. workers'[e] = [workers[e] EXCEPT ![k] = w]
      BY <1>1
    <3>6. workers'[e] \in Seq(Worker) /\ Len(workers'[e]) = Len(workers[e])
      BY <3>5, Facts, ExceptSeq
    <3>7. outbox'[e] \in Row
      BY ConcludedTyped DEF SaveCompletion
    <3>8. QED
      BY <2>1, <2>2, <3>4, <3>6, <3>7
  <2>3. CASE f # e /\ f \in B
    <3>1. outbox'[f] = [outbox[f] EXCEPT !.status = "delivered", !.executionId = 0,
                                         !.lockId = 0, !.lapsed = FALSE]
      BY <2>3 DEF SaveCompletion
    <3>2. outbox'[f] \in Row
      BY <2>1, <3>1, RowShapes
    <3>3. (IF outbox[f].attempts = 0 THEN 1 ELSE outbox[f].attempts) \in 1 .. MaxAttempts
      BY <2>1, BoundsAssumption DEF Row
    <3>4. [attempt |-> IF outbox[f].attempts = 0 THEN 1 ELSE outbox[f].attempts,
           status |-> "succeeded"] \in Execution
      BY <3>3 DEF Execution, RowStatuses
    <3>5. Gone \in Worker
      BY DEF Gone, Worker, Stages
    <3>6. /\ executions'[f] = Append(executions[f],
                [attempt |-> IF outbox[f].attempts = 0 THEN 1 ELSE outbox[f].attempts,
                 status |-> "succeeded"])
          /\ workers'[f] = Append(workers[f], Gone)
      BY <1>1, <2>3 DEF SaveCompletion
    <3>7. QED
      BY <2>1, <3>2, <3>4, <3>5, <3>6, AppendProperties
  <2>4. CASE f # e /\ f \notin B
    BY <1>1, <2>1, <2>4 DEF SaveCompletion
  <2>5. QED
    BY <2>2, <2>3, <2>4
<1>3. /\ outbox' \in [Events -> Row] /\ executions' \in [Events -> Seq(Execution)]
      /\ workers' \in [Events -> Seq(Worker)]
  BY <1>1, <1>2 DEF SaveCompletion
<1>4. QED
  BY <1>1, <1>2, <1>3, FaultTyped DEF SaveCompletion, TypeOK

LEMMA ReconcileTyped ==
    ASSUME TypeOK, NEW e \in Events, NEW sent \in BOOLEAN, Reconcile(e, sent)
    PROVE  TypeOK'
<1> DEFINE closed == [outbox[e] EXCEPT !.status = "delivered", !.lockId = 0,
                                    !.lapsed = FALSE, !.reconciled = TRUE]
           reopened == [outbox[e] EXCEPT !.status = "pending", !.attempts = 0, !.due = TRUE,
                          !.executionId = 0, !.lockId = 0, !.lapsed = FALSE]
<1>1. closed \in Row /\ reopened \in Row
  <2>1. outbox[e] \in Row /\ 0 \in 0 .. MaxAttempts
    BY Facts, BoundsAssumption
  <2>2. closed \in Row
    BY <2>1 DEF Row, Statuses
  <2>3. reopened \in Row
    BY <2>1 DEF Row, Statuses
  <2>4. QED
    BY <2>2, <2>3
<1>2. outbox' = [outbox EXCEPT ![e] = closed] \/ outbox' = [outbox EXCEPT ![e] = reopened]
  BY DEF Reconcile
<1> HIDE DEF closed, reopened
<1>3. outbox' \in [Events -> Row]
  BY <1>1, <1>2, SetRow
<1>4. spent' \in Spent
  <2>1. /\ spent \in Spent /\ spent.reconciliations + 1 \in 0 .. MaxReconciliations
        /\ spent' = [spent EXCEPT !.reconciliations = @ + 1]
    BY BoundsAssumption DEF Reconcile, TypeOK, Spent
  <2>2. QED
    BY <2>1 DEF Spent
<1>5. QED
  BY <1>3, <1>4 DEF Reconcile, TypeOK

LEMMA TimeTyped ==
    ASSUME TypeOK, NEW e \in Events, Lapse(e) \/ BackoffEnds(e) \/ Mature(e)
    PROVE  TypeOK'
<1>1. spent' \in Spent
  BY BoundsAssumption DEF Lapse, BackoffEnds, Mature, TypeOK, Spent
<1>2. outbox[e] \in Row
  BY Facts
<1>3. CASE Lapse(e)
  <2>1. [outbox[e] EXCEPT !.lapsed = TRUE] \in Row
    BY <1>2 DEF Row
  <2>2. QED
    BY <1>1, <1>3, <2>1 DEF Lapse, TypeOK
<1>4. CASE BackoffEnds(e)
  <2>1. [outbox[e] EXCEPT !.due = TRUE] \in Row
    BY <1>2 DEF Row
  <2>2. QED
    BY <1>1, <1>4, <2>1 DEF BackoffEnds, TypeOK
<1>5. CASE Mature(e)
  <2>1. outbox[e].age + 1 \in 1 .. 3
    BY <1>2, <1>5 DEF Mature, OldestAge, Row
  <2>2. [outbox[e] EXCEPT !.age = @ + 1] \in Row
    BY <1>2, <2>1 DEF Row
  <2>3. QED
    BY <1>1, <1>5, <2>2 DEF Mature, TypeOK
<1>6. QED
  BY <1>3, <1>4, <1>5

LEMMA TypeStep == TypeOK /\ [Next]_vars => TypeOK'
<1> SUFFICES ASSUME TypeOK, [Next]_vars PROVE TypeOK'
  OBVIOUS
<1>1. CASE UNCHANGED vars
  BY <1>1 DEF vars, TypeOK
<1>2. ASSUME NEW e \in Events, NEW t \in Topics, NEW c \in Collecting, Enqueue(e, t, c)
      PROVE  TypeOK'
  BY <1>2, EnqueueTyped
<1>3. ASSUME NEW p \in Processes, Tick(p) \/ EndTick(p) \/ Crash(p) PROVE TypeOK'
  BY <1>3, TickTyped, EndTickTyped, CrashTyped
<1>4. ASSUME NEW e \in Events, NEW k \in DOMAIN workers[e], Dispatch(e, k) PROVE TypeOK'
  BY <1>4, AcceptTyped, RejectTyped, RejectFailsTyped, CheckpointTyped, EndExecutionTyped,
     CompletionTyped, SaveTyped DEF Dispatch
<1>5. ASSUME NEW e \in Events, NEW sent \in BOOLEAN, Reconcile(e, sent) PROVE TypeOK'
  BY <1>5, ReconcileTyped
<1>6. ASSUME NEW e \in Events, Lapse(e) \/ BackoffEnds(e) \/ Mature(e) PROVE TypeOK'
  BY <1>6, TimeTyped
<1>7. QED
  BY <1>1, <1>2, <1>3, <1>4, <1>5, <1>6 DEF Next

\* The tables and the dispatchers stay well typed; in particular no retry,
\* takeover or completion carries the attempts of a row past max_attempts, and
\* every claim has exactly one audit row.
THEOREM TypeCorrect == Spec => []TypeOK
  BY InitTyped, TypeStep, PTL DEF Spec
-------------------------------------------------------------------------------
(* A row in progress belongs to its newest claim.  Only a tick makes a row     *)
(* "processing", under the identifier it has just given out; every other step  *)
(* keeps what the row says of its claim, or ends its progress.                 *)

RowKept(e) ==
    outbox'[e].status = "processing" =>
        /\ outbox[e].status = "processing"
        /\ outbox'[e].executionId = outbox[e].executionId
        /\ outbox'[e].attempts = outbox[e].attempts
        /\ outbox'[e].lockId \in {0, outbox[e].lockId}
        /\ Len(executions'[e]) = Len(executions[e])
        /\ \A k \in DOMAIN executions[e] : executions'[e][k].attempt = executions[e][k].attempt

LEMMA KeptInv ==
    ASSUME TypeOK, NewestClaimOwnsRow, \A e \in Events : RowKept(e)
    PROVE  NewestClaimOwnsRow'
<1> SUFFICES ASSUME NEW e \in Events, outbox'[e].status = "processing"
    PROVE  LET n == Len(executions'[e])
           IN  /\ n > 0 /\ outbox'[e].executionId = n
               /\ executions'[e][n].attempt = outbox'[e].attempts
               /\ outbox'[e].lockId \in {0, n}
  BY DEF NewestClaimOwnsRow
<1>1. Len(executions[e]) \in DOMAIN executions[e]
  BY Facts DEF NewestClaimOwnsRow, RowKept
<1>2. QED
  BY <1>1 DEF NewestClaimOwnsRow, RowKept

\* A row and an audit that did not change are kept.
LEMMA SameIsKept ==
    ASSUME NEW e, outbox'[e] = outbox[e], executions'[e] = executions[e]
    PROVE  RowKept(e)
  BY DEF RowKept

\* The status of an audit row does not touch its attempt.
LEMMA AuditKept ==
    ASSUME TypeOK, NEW e \in Events, NEW k \in DOMAIN workers[e], NEW s,
           executions' = [executions EXCEPT ![e][k].status = s]
    PROVE  \A f \in Events : /\ Len(executions'[f]) = Len(executions[f])
                            /\ \A j \in DOMAIN executions[f] :
                                  executions'[f][j].attempt = executions[f][j].attempt
<1> DEFINE x == [executions[e][k] EXCEPT !.status = s]
<1>1. x.attempt = executions[e][k].attempt
  BY Facts DEF Execution
<1>2. executions' = [executions EXCEPT ![e] = [executions[e] EXCEPT ![k] = x]]
  OBVIOUS
<1> HIDE DEF x
<1>3. \A f \in Events : f # e => executions'[f] = executions[f]
  BY <1>2 DEF TypeOK
<1>4. executions'[e] = [executions[e] EXCEPT ![k] = x]
  BY <1>2 DEF TypeOK
<1>5. executions[e] \in [1 .. Len(executions[e]) -> Execution] /\ Len(executions[e]) \in Nat
  BY Facts
<1>6. Len(executions'[e]) = Len(executions[e])
  BY <1>4, <1>5
<1>7. QED
  BY <1>1, <1>3, <1>4, <1>5, <1>6

LEMMA TickNewest ==
    ASSUME TypeOK, NewestClaimOwnsRow, NEW p \in Processes, Tick(p)
    PROVE  NewestClaimOwnsRow'
<1>1. PICK S \in SUBSET Candidates(SweptOutbox) :
        /\ outbox' = [e \in Events |-> IF e \in S THEN Claimed(e, SweptOutbox[e])
                                                  ELSE SweptOutbox[e]]
        /\ executions' =
             [e \in Events |->
                IF e \in S
                THEN Append(SweptExecutions[e],
                            [attempt |-> outbox[e].attempts + 1, status |-> "claimed"])
                ELSE SweptExecutions[e]]
  BY DEF Tick
<1> SUFFICES ASSUME NEW e \in Events, outbox'[e].status = "processing"
    PROVE  LET n == Len(executions'[e])
           IN  /\ n > 0 /\ outbox'[e].executionId = n
               /\ executions'[e][n].attempt = outbox'[e].attempts
               /\ outbox'[e].lockId \in {0, n}
  BY DEF NewestClaimOwnsRow
<1>2. /\ SweptOutbox[e] \in Row /\ SweptExecutions[e] \in Seq(Execution)
      /\ Len(SweptExecutions[e]) = Len(executions[e]) /\ Len(executions[e]) \in Nat
      /\ SweptOutbox[e].attempts = outbox[e].attempts
      /\ DOMAIN executions[e] = 1 .. Len(executions[e])
      /\ \A k \in DOMAIN executions[e] :
            SweptExecutions[e][k].attempt = executions[e][k].attempt
  BY SweepTyped, Facts
<1>3. CASE e \in S
  <2> DEFINE n == Len(executions[e]) + 1
             x == [attempt |-> outbox[e].attempts + 1, status |-> "claimed"]
             row == SweptOutbox[e]
  <2>1. executions'[e] = Append(SweptExecutions[e], x)
    BY <1>1, <1>3
  <2>2. Len(executions'[e]) = n /\ executions'[e][n] = x
    BY <1>2, <2>1
  <2>3. outbox'[e] = [row EXCEPT !.status = "processing", !.attempts = @ + 1,
                                 !.lapsed = FALSE, !.lockId = n, !.executionId = n]
    BY <1>1, <1>3 DEF Claimed
  <2>4. row \in Row
    BY <1>2
  <2>5. /\ outbox'[e].executionId = n /\ outbox'[e].lockId = n
        /\ outbox'[e].attempts = row.attempts + 1
    BY <2>3, <2>4 DEF Row
  <2>6. QED
    BY <1>2, <2>2, <2>5
<1>4. CASE e \notin S
  <2>1. outbox'[e] = SweptOutbox[e] /\ executions'[e] = SweptExecutions[e]
    BY <1>1, <1>4
  <2>2. outbox'[e] = outbox[e]
    <3>1. ~Exhausted(e)
      BY <2>1, Facts DEF SweptOutbox, Row
    <3>2. QED
      BY <2>1, <3>1 DEF SweptOutbox
  <2>3. Len(executions[e]) \in DOMAIN executions[e]
    BY <1>2, <2>2 DEF NewestClaimOwnsRow
  <2>4. QED
    BY <1>2, <2>1, <2>2, <2>3 DEF NewestClaimOwnsRow
<1>5. QED
  BY <1>3, <1>4

LEMMA DispatchNewest ==
    ASSUME TypeOK, NewestClaimOwnsRow, NEW e \in Events, NEW k \in DOMAIN workers[e],
           Dispatch(e, k)
    PROVE  NewestClaimOwnsRow'
<1>1. outbox[e] \in Row /\ outbox \in [Events -> Row]
  BY DEF TypeOK
<1>2. CASE Accept(e, k)
  <2>1. outbox' = [outbox EXCEPT ![e] = [outbox[e] EXCEPT !.lockId = 0, !.lapsed = FALSE]]
    BY <1>2 DEF Accept, GrantLease
  <2>2. /\ outbox'[e].executionId = outbox[e].executionId
        /\ outbox'[e].attempts = outbox[e].attempts
        /\ outbox'[e].lockId = 0 /\ outbox'[e].status = outbox[e].status
    BY <1>1, <2>1 DEF Row
  <2>3. \A f \in Events \ {e} : outbox'[f] = outbox[f]
    BY <1>1, <2>1
  <2>4. \A f \in Events : /\ Len(executions'[f]) = Len(executions[f])
                         /\ \A j \in DOMAIN executions[f] :
                               executions'[f][j].attempt = executions[f][j].attempt
    BY <1>2, AuditKept DEF Accept, GrantLease
  <2>5. \A f \in Events : RowKept(f)
    BY <2>2, <2>3, <2>4 DEF RowKept
  <2>6. QED
    BY <2>5, KeptInv
<1>3. CASE GiveBack(e, k)
  <2>1. \A f \in Events \ {e} : outbox'[f] = outbox[f]
    BY <1>1, <1>3 DEF GiveBack
  <2>2. outbox'[e] = outbox[e] \/ outbox'[e].status \in {"dead", "pending"}
    <3>1. CASE ~HoldsLock(e, k)
      BY <1>3, <3>1 DEF GiveBack
    <3>2. CASE HoldsLock(e, k)
      <4> DEFINE st == IF executions[e][k].attempt >= MaxAttempts THEN "dead" ELSE "pending"
      <4>1. outbox'[e] = [outbox[e] EXCEPT !.status = st, !.attempts = executions[e][k].attempt,
                       !.due = FALSE, !.lockId = 0, !.executionId = 0, !.lapsed = FALSE]
        BY <1>1, <1>3, <3>2 DEF GiveBack
      <4>2. st \in {"dead", "pending"}
        OBVIOUS
      <4> HIDE DEF st
      <4>3. outbox'[e].status = st
        BY <1>1, <4>1 DEF Row
      <4>4. QED
        BY <4>2, <4>3
    <3>3. QED
      BY <3>1, <3>2
  <2>3. \A f \in Events : /\ Len(executions'[f]) = Len(executions[f])
                         /\ \A j \in DOMAIN executions[f] :
                               executions'[f][j].attempt = executions[f][j].attempt
    BY <1>3, AuditKept DEF GiveBack
  <2>4. \A f \in Events : RowKept(f)
    BY <2>1, <2>2, <2>3 DEF RowKept
  <2>5. QED
    BY <2>4, KeptInv
<1>4. CASE SaveCompletion(e, k)
  <2>1. outbox'[e].status # "processing"
    BY <1>4, ConcludedTyped DEF SaveCompletion
  <2>2. ASSUME NEW f \in Events \ {e}, f \in Consumed(e, k) PROVE outbox'[f].status # "processing"
    <3>1. outbox'[f] = [outbox[f] EXCEPT !.status = "delivered", !.executionId = 0,
                                         !.lockId = 0, !.lapsed = FALSE]
      BY <1>4, <2>2 DEF SaveCompletion
    <3>2. outbox[f] \in Row
      BY <1>1
    <3>3. QED
      BY <3>1, <3>2 DEF Row
  <2>3. \A f \in Events \ {e} : f \notin Consumed(e, k) =>
           outbox'[f] = outbox[f] /\ executions'[f] = executions[f]
    BY <1>4 DEF SaveCompletion
  <2>4. \A f \in Events : RowKept(f)
    BY <2>1, <2>2, <2>3 DEF RowKept
  <2>5. QED
    BY <2>4, KeptInv
<1>5. CASE UNCHANGED <<outbox, executions>>
  BY <1>5, SameIsKept, KeptInv
<1>6. QED
  BY <1>2, <1>3, <1>4, <1>5
     DEF Dispatch, AcceptWithoutLock, AcceptFails, Reject, RejectReplyLost, RejectFails,
         StoreCheckpoint,         EndExecution, BeginCompletion, CompletionFails

LEMMA RowStepNewest ==
    ASSUME TypeOK, NewestClaimOwnsRow, NEW e \in Events,
           \/ \E t \in Topics, c \in Collecting : Enqueue(e, t, c)
           \/ \E sent \in BOOLEAN : Reconcile(e, sent)
           \/ Lapse(e) \/ BackoffEnds(e) \/ Mature(e)
    PROVE  NewestClaimOwnsRow'
<1>1. outbox[e] \in Row /\ outbox \in [Events -> Row]
  BY DEF TypeOK
<1>2. UNCHANGED executions
  BY DEF Enqueue, Reconcile, Lapse, BackoffEnds, Mature
<1>3. \A f \in Events \ {e} : outbox'[f] = outbox[f]
  BY <1>1 DEF Enqueue, Reconcile, Lapse, BackoffEnds, Mature
<1>4. \/ outbox'[e].status # "processing"
      \/ /\ outbox'[e].status = outbox[e].status
         /\ outbox'[e].executionId = outbox[e].executionId
         /\ outbox'[e].attempts = outbox[e].attempts
         /\ outbox'[e].lockId = outbox[e].lockId
  <2>1. ASSUME NEW t \in Topics, NEW c \in Collecting, Enqueue(e, t, c)
        PROVE  outbox'[e].status # "processing"
    BY <1>1, <2>1 DEF Enqueue, Absent
  <2>2. ASSUME NEW sent \in BOOLEAN, Reconcile(e, sent)
        PROVE  outbox'[e].status # "processing"
    <3>1. CASE sent
      <4>1. outbox'[e] = [outbox[e] EXCEPT !.status = "delivered", !.lockId = 0,
                                           !.lapsed = FALSE]
        BY <1>1, <2>2, <3>1 DEF Reconcile
      <4>2. QED
        BY <1>1, <4>1 DEF Row
    <3>2. CASE ~sent
      <4>1. outbox'[e] = [outbox[e] EXCEPT !.status = "pending", !.attempts = 0, !.due = TRUE,
                            !.executionId = 0, !.lockId = 0, !.lapsed = FALSE]
        BY <1>1, <2>2, <3>2 DEF Reconcile
      <4>2. QED
        BY <1>1, <4>1 DEF Row
    <3>3. QED
      BY <3>1, <3>2
  <2>3. CASE Lapse(e) \/ BackoffEnds(e) \/ Mature(e)
    <3>1. \/ outbox'[e] = [outbox[e] EXCEPT !.lapsed = TRUE]
          \/ outbox'[e] = [outbox[e] EXCEPT !.due = TRUE]
          \/ outbox'[e] = [outbox[e] EXCEPT !.age = outbox[e].age + 1]
      BY <1>1, <2>3 DEF Lapse, BackoffEnds, Mature
    <3>2. QED
      BY <1>1, <3>1 DEF Row
  <2>4. QED
    BY <2>1, <2>2, <2>3
<1>5. \A f \in Events : RowKept(f)
  BY <1>2, <1>3, <1>4 DEF RowKept
<1>6. QED
  BY <1>5, KeptInv

\* A row in progress belongs to its newest claim, whatever leases lapse under
\* workers that are still alive, and whatever is retried or reconciled.
THEOREM NewestClaimOwns == Spec => []NewestClaimOwnsRow
<1>1. Init => NewestClaimOwnsRow
  BY DEF Init, NewestClaimOwnsRow, Absent
<1>2. TypeOK /\ NewestClaimOwnsRow /\ [Next]_vars => NewestClaimOwnsRow'
  <2> SUFFICES ASSUME TypeOK, NewestClaimOwnsRow, [Next]_vars PROVE NewestClaimOwnsRow'
    OBVIOUS
  <2>1. CASE UNCHANGED <<outbox, executions>>
    BY <2>1, SameIsKept, KeptInv
  <2>2. ASSUME NEW p \in Processes, Tick(p) PROVE NewestClaimOwnsRow'
    BY <2>2, TickNewest
  <2>3. ASSUME NEW e \in Events, NEW k \in DOMAIN workers[e], Dispatch(e, k)
        PROVE  NewestClaimOwnsRow'
    BY <2>3, DispatchNewest
  <2>4. ASSUME NEW e \in Events,
               \/ \E t \in Topics, c \in Collecting : Enqueue(e, t, c)
               \/ \E sent \in BOOLEAN : Reconcile(e, sent)
               \/ Lapse(e) \/ BackoffEnds(e) \/ Mature(e)
        PROVE  NewestClaimOwnsRow'
    BY <2>4, RowStepNewest
  <2>5. QED
    BY <2>1, <2>2, <2>3, <2>4 DEF Next, vars, EndTick, Crash
<1>3. QED
  BY <1>1, <1>2, TypeCorrect, PTL DEF Spec
-------------------------------------------------------------------------------
(* What a step does to one row, its audit and its dispatches.  The invariants  *)
(* below are about one row each, and are shown by these cases.                 *)

SameKind(e) ==
    outbox'[e].topic = outbox[e].topic /\ outbox'[e].reconciled = outbox[e].reconciled

USE DEF SameKind

RowSame(e) ==
    /\ outbox'[e].status = outbox[e].status /\ SameKind(e)
    /\ outbox'[e].executionId = outbox[e].executionId /\ outbox'[e].lockId = outbox[e].lockId
    /\ outbox'[e].attempts = outbox[e].attempts

Kept(e) ==
    RowSame(e) /\ executions'[e] = executions[e] /\ workers'[e] = workers[e]

Created(e) ==
    /\ outbox[e].status = "absent" /\ outbox'[e].status = "pending"
    /\ outbox'[e].attempts = 0 /\ ~outbox'[e].reconciled
    /\ executions'[e] = executions[e] /\ workers'[e] = workers[e]

\* Only dispatch k changes; only its audit row changes, and keeps its attempt.
OnlyWorker(e, k) ==
    /\ DOMAIN workers'[e] = DOMAIN workers[e]
    /\ \A j \in DOMAIN workers[e] : j # k => workers'[e][j] = workers[e][j]

OnlyAudit(e, k, s) ==
    /\ DOMAIN executions'[e] = DOMAIN executions[e]
    /\ Len(executions'[e]) = Len(executions[e])
    /\ \A j \in DOMAIN executions[e] : j # k => executions'[e][j] = executions[e][j]
    /\ executions'[e][k].attempt = executions[e][k].attempt
    /\ executions'[e][k].status = s

\* The stages a dispatch goes through on its own.
Moves == {<<"claimed", "executing">>, <<"claimed", "rejecting">>, <<"rejecting", "gone">>,
          <<"executing", "concluding">>, <<"concluding", "saving">>,
          <<"concluding", "concluding">>, <<"concluding", "gone">>,
          <<"saving", "concluding">>, <<"saving", "gone">>}

Moved(e, k) ==
    /\ RowSame(e) /\ executions'[e] = executions[e] /\ OnlyWorker(e, k)
    /\ <<workers[e][k].stage, workers'[e][k].stage>> \in Moves
    /\ workers'[e][k].stage = "saving" =>
          Owns(e, k) /\ \A j \in DOMAIN workers[e] : workers[e][j].stage # "saving"

Accepted(e, k) ==
    /\ workers[e][k].stage = "claimed" /\ workers'[e][k].stage \in {"executing", "rejecting"}
    /\ HoldsLock(e, k)
    /\ outbox'[e].status = "processing" /\ SameKind(e)
    /\ outbox'[e].executionId = k /\ outbox'[e].lockId = 0
    /\ outbox'[e].attempts = outbox[e].attempts
    /\ OnlyAudit(e, k, "accepted") /\ OnlyWorker(e, k)

Rejected(e, k) ==
    /\ workers[e][k].stage = "rejecting" /\ workers'[e][k].stage = "gone"
    /\ OnlyWorker(e, k)
    /\ IF HoldsLock(e, k)
       THEN /\ outbox'[e].status = IF executions[e][k].attempt >= MaxAttempts
                                   THEN "dead" ELSE "pending"
            /\ SameKind(e)
            /\ outbox'[e].executionId = 0 /\ outbox'[e].lockId = 0
            /\ outbox'[e].attempts = executions[e][k].attempt
       ELSE RowSame(e)
    /\ IF executions[e][k].status = "claimed"
       THEN \E s \in Failures : OnlyAudit(e, k, s)
       ELSE executions'[e] = executions[e]

Saved(e, k) ==
    /\ workers[e][k].stage = "saving"
    /\ outbox'[e] = Concluded(e, k)
    /\ OnlyAudit(e, k, ConcludedStatus(e, k)) /\ OnlyWorker(e, k)
    /\ \/ workers'[e][k].stage = "gone"
       \/ workers'[e][k].stage = "concluding" /\ workers[e][k].outcome = "succeeded"

\* The row is answered in the batch of the completion of row d.
Absorbed(e) ==
    /\ \E d \in Events : d # e /\ d[1] = e[1] /\ e[2] \in checkpoint[d]
    /\ outbox[e].topic = Persisted /\ SameKind(e)
    /\ outbox[e].status = "pending" /\ outbox'[e].status = "delivered"
    /\ outbox'[e].attempts = outbox[e].attempts
    /\ LET n == Len(executions[e]) + 1
       IN  /\ Len(executions'[e]) = n /\ DOMAIN executions'[e] = 1 .. n
           /\ \A k \in DOMAIN executions[e] : executions'[e][k] = executions[e][k]
           /\ executions'[e][n].status = "succeeded"
           /\ executions'[e][n].attempt = IF outbox[e].attempts = 0 THEN 1 ELSE outbox[e].attempts
           /\ DOMAIN workers'[e] = 1 .. n
           /\ \A k \in DOMAIN workers[e] : workers'[e][k] = workers[e][k]
           /\ workers'[e][n].stage = "gone"

Reconciled(e) ==
    /\ outbox[e].status = "dead" /\ outbox[e].topic = Requested
    /\ outbox'[e].topic = Requested
    /\ \A k \in DOMAIN workers[e] : workers[e][k].stage # "saving"
    /\ executions'[e] = executions[e] /\ workers'[e] = workers[e]
    /\ spent.reconciliations < MaxReconciliations
    /\ spent'.reconciliations = spent.reconciliations + 1
    /\ \/ /\ outbox'[e].status = "delivered" /\ outbox'[e].reconciled
          /\ outbox'[e].attempts = outbox[e].attempts
       \/ outbox'[e].status = "pending" /\ outbox'[e].attempts = 0 /\ SameKind(e)

AuditSwept(e) ==
    \A k \in DOMAIN executions[e] : executions'[e][k] = Expire(e, executions[e][k])

Swept(e) ==
    /\ IF Exhausted(e)
       THEN /\ outbox'[e].status = "dead" /\ SameKind(e)
            /\ outbox'[e].executionId = 0 /\ outbox'[e].lockId = 0
            /\ outbox'[e].attempts = outbox[e].attempts
       ELSE RowSame(e)
    /\ Len(executions'[e]) = Len(executions[e])
    /\ DOMAIN executions'[e] = DOMAIN executions[e]
    /\ AuditSwept(e)
    /\ workers'[e] = workers[e]

Taken(e) ==
    /\ outbox[e].status = "pending" \/ Lapsed(e)
    /\ ~Exhausted(e) /\ outbox[e].attempts < MaxAttempts
    /\ outbox'[e].status = "processing" /\ SameKind(e)
    /\ outbox'[e].attempts = outbox[e].attempts + 1
    /\ LET n == Len(executions[e]) + 1
       IN  /\ outbox'[e].executionId = n /\ outbox'[e].lockId = n
           /\ Len(executions'[e]) = n /\ DOMAIN executions'[e] = 1 .. n
           /\ AuditSwept(e)
           /\ executions'[e][n].status = "claimed"
           /\ executions'[e][n].attempt = outbox[e].attempts + 1
           /\ DOMAIN workers'[e] = 1 .. n
           /\ \A k \in DOMAIN workers[e] : workers'[e][k] = workers[e][k]
           /\ workers'[e][n].stage = "claimed"

\* The process of some dispatches died.
Orphaned(e) ==
    /\ RowSame(e) /\ executions'[e] = executions[e]
    /\ DOMAIN workers'[e] = DOMAIN workers[e]
    /\ \A k \in DOMAIN workers[e] :
          workers'[e][k] = workers[e][k] \/ workers'[e][k].stage = "gone"

Effect(e) ==
    \/ Kept(e) \/ Created(e) \/ Absorbed(e) \/ Reconciled(e)
    \/ Swept(e) \/ Taken(e) \/ Orphaned(e)
    \/ \E k \in DOMAIN workers[e] : Moved(e, k) \/ Accepted(e, k) \/ Rejected(e, k) \/ Saved(e, k)

\* One dispatch is replaced.
LEMMA WorkerReplaced ==
    ASSUME TypeOK, NEW e \in Events, NEW k \in DOMAIN workers[e], NEW w,
           workers' = [workers EXCEPT ![e] = [workers[e] EXCEPT ![k] = w]]
    PROVE  OnlyWorker(e, k) /\ workers'[e][k] = w
<1>1. workers'[e] = [workers[e] EXCEPT ![k] = w]
  BY DEF TypeOK
<1>2. workers[e] \in [1 .. Len(workers[e]) -> Worker] /\ k \in 1 .. Len(workers[e])
  BY Facts
<1>3. QED
  BY <1>1, <1>2 DEF OnlyWorker

LEMMA StageReplaced ==
    ASSUME TypeOK, NEW e \in Events, NEW k \in DOMAIN workers[e], NEW s, SetStage(e, k, s)
    PROVE  OnlyWorker(e, k) /\ workers'[e][k].stage = s
<1> DEFINE w == [workers[e][k] EXCEPT !.stage = s]
<1>1. w.stage = s
  BY Facts DEF Worker
<1>2. workers' = [workers EXCEPT ![e] = [workers[e] EXCEPT ![k] = w]]
  BY DEF SetStage
<1> HIDE DEF w
<1>3. QED
  BY <1>1, <1>2, WorkerReplaced

LEMMA Left ==
    ASSUME TypeOK, NEW e \in Events, NEW k \in DOMAIN workers[e], Leave(e, k)
    PROVE  OnlyWorker(e, k) /\ workers'[e][k].stage = "gone"
<1>1. workers' = [workers EXCEPT ![e] = [workers[e] EXCEPT ![k] = Gone]]
  BY DEF Leave
<1>2. Gone.stage = "gone"
  BY DEF Gone
<1>3. QED
  BY <1>1, <1>2, WorkerReplaced

\* One audit row gets another status.
LEMMA AuditReplaced ==
    ASSUME TypeOK, NEW e \in Events, NEW k \in DOMAIN workers[e], NEW s,
           executions'[e] = [executions[e] EXCEPT ![k].status = s]
    PROVE  OnlyAudit(e, k, s)
<1> DEFINE x == [executions[e][k] EXCEPT !.status = s]
<1>1. x.attempt = executions[e][k].attempt /\ x.status = s
  BY Facts DEF Execution
<1>2. executions'[e] = [executions[e] EXCEPT ![k] = x]
  OBVIOUS
<1> HIDE DEF x
<1>3. /\ executions[e] \in [1 .. Len(executions[e]) -> Execution]
      /\ Len(executions[e]) \in Nat /\ k \in 1 .. Len(executions[e])
  BY Facts
<1>4. Len(executions'[e]) = Len(executions[e])
  BY <1>2, <1>3
<1>5. QED
  BY <1>1, <1>2, <1>3, <1>4 DEF OnlyAudit

LEMMA RowStepEffects ==
    ASSUME TypeOK, NEW e \in Events,
           \/ \E t \in Topics, c \in Collecting : Enqueue(e, t, c)
           \/ Lapse(e) \/ BackoffEnds(e) \/ Mature(e)
    PROVE  Created(e) \/ Kept(e)
<1>1. outbox[e] \in Row /\ outbox \in [Events -> Row]
  BY DEF TypeOK
<1>2. ASSUME NEW t \in Topics, NEW c \in Collecting, Enqueue(e, t, c) PROVE Created(e)
  BY <1>1, <1>2 DEF Enqueue, Absent, Created
<1>3. CASE Lapse(e) \/ BackoffEnds(e) \/ Mature(e)
  <2>1. \/ outbox'[e] = [outbox[e] EXCEPT !.lapsed = TRUE]
        \/ outbox'[e] = [outbox[e] EXCEPT !.due = TRUE]
        \/ outbox'[e] = [outbox[e] EXCEPT !.age = outbox[e].age + 1]
    BY <1>1, <1>3 DEF Lapse, BackoffEnds, Mature
  <2>2. RowSame(e)
    BY <1>1, <2>1 DEF Row, RowSame
  <2>3. QED
    BY <1>3, <2>2 DEF Kept, Lapse, BackoffEnds, Mature
<1>4. QED
  BY <1>2, <1>3

LEMMA ReconcileEffects ==
    ASSUME TypeOK, NEW e \in Events, NEW sent \in BOOLEAN, Reconcile(e, sent)
    PROVE  Reconciled(e) /\ \A f \in Events : f # e => Kept(f)
<1>1. outbox[e] \in Row /\ outbox \in [Events -> Row]
  BY DEF TypeOK
<1>2. \/ outbox'[e] = [outbox[e] EXCEPT !.status = "delivered", !.lockId = 0,
                          !.lapsed = FALSE, !.reconciled = TRUE]
      \/ outbox'[e] = [outbox[e] EXCEPT !.status = "pending", !.attempts = 0, !.due = TRUE,
                          !.executionId = 0, !.lockId = 0, !.lapsed = FALSE]
  BY <1>1 DEF Reconcile
<1>3. /\ outbox'[e].topic = outbox[e].topic
      /\ \/ /\ outbox'[e].status = "delivered" /\ outbox'[e].reconciled
            /\ outbox'[e].attempts = outbox[e].attempts
         \/ outbox'[e].status = "pending" /\ outbox'[e].attempts = 0 /\ SameKind(e)
  BY <1>1, <1>2 DEF Row
<1>4. spent.reconciliations < MaxReconciliations
      /\ spent'.reconciliations = spent.reconciliations + 1
  BY DEF Reconcile, TypeOK, Spent
<1>5. \A f \in Events : f # e => Kept(f)
  BY <1>1 DEF Reconcile, Kept, RowSame
<1>6. QED
  BY <1>3, <1>4, <1>5 DEF Reconcile, Reconciled

LEMMA TickEffects ==
    ASSUME TypeOK, NEW p \in Processes, Tick(p), NEW e \in Events
    PROVE  Swept(e) \/ Taken(e)
<1>1. PICK S \in SUBSET Candidates(SweptOutbox) :
        /\ outbox' = [f \in Events |-> IF f \in S THEN Claimed(f, SweptOutbox[f])
                                                  ELSE SweptOutbox[f]]
        /\ executions' =
             [f \in Events |->
                IF f \in S
                THEN Append(SweptExecutions[f],
                            [attempt |-> outbox[f].attempts + 1, status |-> "claimed"])
                ELSE SweptExecutions[f]]
        /\ workers' =
             [f \in Events |->
                IF f \in S
                THEN Append(workers[f],
                            [process |-> p, stage |-> "claimed", outcome |-> "none"])
                ELSE workers[f]]
  BY DEF Tick
<1>2. /\ outbox[e] \in Row /\ SweptOutbox[e] \in Row
      /\ SweptExecutions[e] \in Seq(Execution) /\ workers[e] \in Seq(Worker)
      /\ Len(SweptExecutions[e]) = Len(executions[e]) /\ Len(workers[e]) = Len(executions[e])
      /\ Len(executions[e]) \in Nat
      /\ DOMAIN executions[e] = 1 .. Len(executions[e])
      /\ DOMAIN workers[e] = 1 .. Len(executions[e])
      /\ DOMAIN SweptExecutions[e] = 1 .. Len(executions[e])
  BY SweepTyped, Facts
<1>3. \A k \in DOMAIN executions[e] : SweptExecutions[e][k] = Expire(e, executions[e][k])
  BY DEF SweptExecutions
<1>4. SweptOutbox[e] = IF Exhausted(e)
                       THEN [outbox[e] EXCEPT !.status = "dead", !.executionId = 0,
                                              !.lockId = 0, !.lapsed = FALSE]
                       ELSE outbox[e]
  BY DEF SweptOutbox
<1>5. CASE e \in S
  <2> DEFINE n == Len(executions[e]) + 1
             x == [attempt |-> outbox[e].attempts + 1, status |-> "claimed"]
             w == [process |-> p, stage |-> "claimed", outcome |-> "none"]
  <2>1. /\ SweptOutbox[e].attempts < MaxAttempts
        /\ \/ SweptOutbox[e].status = "pending"
           \/ SweptOutbox[e].status = "processing" /\ SweptOutbox[e].lapsed
    BY <1>5 DEF Candidates
  <2>2. ~Exhausted(e) /\ SweptOutbox[e] = outbox[e]
    BY <1>2, <1>4, <2>1 DEF Row
  <2>3. /\ executions'[e] = Append(SweptExecutions[e], x)
        /\ workers'[e] = Append(workers[e], w)
    BY <1>1, <1>5
  <2>4. /\ Len(executions'[e]) = n /\ DOMAIN executions'[e] = 1 .. n
        /\ \A k \in 1 .. Len(executions[e]) : executions'[e][k] = SweptExecutions[e][k]
        /\ executions'[e][n] = x
    BY <1>2, <2>3
  <2>5. /\ DOMAIN workers'[e] = 1 .. n
        /\ \A k \in 1 .. Len(executions[e]) : workers'[e][k] = workers[e][k]
        /\ workers'[e][n].stage = "claimed"
    <3>1. w.stage = "claimed" /\ w \in Worker
      BY DEF Worker, Stages
    <3>2. Len(workers[e]) = Len(executions[e]) /\ workers'[e] = Append(workers[e], w)
      BY <1>2, <2>3
    <3> HIDE DEF w
    <3>3. QED
      BY <1>2, <3>1, <3>2, AppendProperties
  <2>6. outbox'[e] = [outbox[e] EXCEPT !.status = "processing",
                        !.attempts = outbox[e].attempts + 1,
                        !.lapsed = FALSE, !.lockId = n, !.executionId = n]
    BY <1>1, <1>5, <2>2 DEF Claimed
  <2>7. /\ outbox'[e].status = "processing" /\ SameKind(e)
        /\ outbox'[e].attempts = outbox[e].attempts + 1
        /\ outbox'[e].executionId = n /\ outbox'[e].lockId = n
    BY <1>2, <2>6 DEF Row
  <2>8. AuditSwept(e)
    BY <1>2, <1>3, <2>4 DEF AuditSwept
  <2>9. QED
    BY <1>2, <2>1, <2>2, <2>4, <2>5, <2>7, <2>8 DEF Taken, Lapsed
<1>6. CASE e \notin S
  <2>1. outbox'[e] = SweptOutbox[e] /\ executions'[e] = SweptExecutions[e]
        /\ workers'[e] = workers[e]
    BY <1>1, <1>6
  <2>2. IF Exhausted(e)
        THEN /\ outbox'[e].status = "dead" /\ SameKind(e)
             /\ outbox'[e].executionId = 0 /\ outbox'[e].lockId = 0
             /\ outbox'[e].attempts = outbox[e].attempts
        ELSE RowSame(e)
    BY <1>2, <1>4, <2>1 DEF Row, RowSame
  <2>3. AuditSwept(e)
    BY <1>3, <2>1 DEF AuditSwept
  <2>4. QED
    BY <1>2, <2>1, <2>2, <2>3 DEF Swept
<1>7. QED
  BY <1>5, <1>6

LEMMA CrashEffects ==
    ASSUME TypeOK, NEW p \in Processes, EndTick(p) \/ Crash(p), NEW e \in Events
    PROVE  Kept(e) \/ Orphaned(e)
<1>1. CASE EndTick(p)
  BY <1>1 DEF EndTick, Kept, RowSame
<1>2. CASE Crash(p)
  <2>1. workers'[e] = [k \in DOMAIN workers[e] |->
                         IF workers[e][k].process = p THEN Gone ELSE workers[e][k]]
    BY <1>2 DEF Crash
  <2>2. QED
    BY <1>2, <2>1 DEF Crash, Orphaned, RowSame, Gone
<1>3. QED
  BY <1>1, <1>2

LEMMA AcceptEffects ==
    ASSUME TypeOK, NEW e \in Events, NEW k \in DOMAIN workers[e], Accept(e, k)
    PROVE  Accepted(e, k) /\ \A f \in Events : f # e => Kept(f)
<1>1. PICK s \in {"executing", "rejecting"} : SetStage(e, k, s)
  BY DEF Accept
<1>2. OnlyWorker(e, k) /\ workers'[e][k].stage = s
  BY <1>1, StageReplaced
<1>4. outbox[e] \in Row
  BY Facts
<1>5. /\ outbox'[e] = [outbox[e] EXCEPT !.lockId = 0, !.lapsed = FALSE]
      /\ executions'[e] = [executions[e] EXCEPT ![k].status = "accepted"]
      /\ \A f \in Events : f # e =>
            outbox'[f] = outbox[f] /\ executions'[f] = executions[f] /\ workers'[f] = workers[f]
  BY <1>1 DEF Accept, GrantLease, SetStage, TypeOK
<1>6. /\ outbox'[e].status = outbox[e].status /\ SameKind(e)
      /\ outbox'[e].executionId = outbox[e].executionId /\ outbox'[e].lockId = 0
      /\ outbox'[e].attempts = outbox[e].attempts
  BY <1>4, <1>5 DEF Row
<1>7. OnlyAudit(e, k, "accepted")
  BY <1>5, AuditReplaced
<1>8. \A f \in Events : f # e => Kept(f)
  BY <1>5 DEF Kept, RowSame
<1>9. QED
  BY <1>2, <1>6, <1>7, <1>8 DEF Accept, Accepted, HoldsLock, Owns

LEMMA RejectEffects ==
    ASSUME TypeOK, NEW e \in Events, NEW k \in DOMAIN workers[e], GiveBack(e, k)
    PROVE  Rejected(e, k) /\ \A f \in Events : f # e => Kept(f)
<1>1. OnlyWorker(e, k) /\ workers'[e][k].stage = "gone"
  BY Left DEF GiveBack
<1>2. \A f \in Events : f # e => Kept(f)
  BY DEF GiveBack, Leave, Kept, RowSame, TypeOK
<1>3. IF HoldsLock(e, k)
      THEN /\ outbox'[e].status = IF executions[e][k].attempt >= MaxAttempts
                                  THEN "dead" ELSE "pending"
           /\ SameKind(e)
           /\ outbox'[e].executionId = 0 /\ outbox'[e].lockId = 0
           /\ outbox'[e].attempts = executions[e][k].attempt
      ELSE RowSame(e)
  <2>1. outbox[e] \in Row /\ outbox \in [Events -> Row]
    BY DEF TypeOK
  <2>2. CASE HoldsLock(e, k)
    <3> DEFINE st == IF executions[e][k].attempt >= MaxAttempts THEN "dead" ELSE "pending"
               a == executions[e][k].attempt
    <3>1. outbox'[e] = [outbox[e] EXCEPT !.status = st, !.attempts = a,
                          !.due = FALSE, !.lockId = 0, !.executionId = 0, !.lapsed = FALSE]
      BY <2>1, <2>2 DEF GiveBack
    <3> HIDE DEF st, a
    <3>2. /\ outbox'[e].status = st /\ SameKind(e)
          /\ outbox'[e].executionId = 0 /\ outbox'[e].lockId = 0 /\ outbox'[e].attempts = a
      BY <2>1, <3>1 DEF Row
    <3>3. QED
      BY <2>2, <3>2 DEF st, a
  <2>3. CASE ~HoldsLock(e, k)
    BY <2>3 DEF GiveBack, RowSame
  <2>4. QED
    BY <2>2, <2>3
<1>4. IF executions[e][k].status = "claimed"
      THEN \E s \in Failures : OnlyAudit(e, k, s)
      ELSE executions'[e] = executions[e]
  <2>1. CASE executions[e][k].status = "claimed"
    <3>1. PICK s \in Failures : executions' = [executions EXCEPT ![e][k].status = s]
      BY <2>1 DEF GiveBack, Failures
    <3>2. executions'[e] = [executions[e] EXCEPT ![k].status = s]
      BY <3>1 DEF TypeOK
    <3>3. QED
      BY <2>1, <3>2, AuditReplaced
  <2>2. CASE executions[e][k].status # "claimed"
    BY <2>2 DEF GiveBack
  <2>3. QED
    BY <2>1, <2>2
<1>5. QED
  BY <1>1, <1>2, <1>3, <1>4 DEF GiveBack, Rejected

\* A completion that fails leaves the row to a retry, or to the lease.
LEMMA FailedCompletion ==
    ASSUME TypeOK, NEW e \in Events, NEW k \in DOMAIN workers[e], AfterFailedCompletion(e, k)
    PROVE  /\ OnlyWorker(e, k) /\ workers'[e][k].stage \in {"concluding", "gone"}
           /\ \A f \in Events : f # e => workers'[f] = workers[f]
<1> DEFINE w == IF workers[e][k].outcome = "succeeded"
                THEN [workers[e][k] EXCEPT !.stage = "concluding",
                                           !.outcome = "retryable-failure"]
                ELSE Gone
<1>1. w.stage \in {"concluding", "gone"}
  BY Facts DEF Worker, Gone
<1>2. workers' = [workers EXCEPT ![e] = [workers[e] EXCEPT ![k] = w]]
  BY DEF AfterFailedCompletion
<1> HIDE DEF w
<1>3. \A f \in Events : f # e => workers'[f] = workers[f]
  BY <1>2 DEF TypeOK
<1>4. OnlyWorker(e, k) /\ workers'[e][k] = w
  BY <1>2, WorkerReplaced
<1>5. QED
  BY <1>1, <1>3, <1>4

LEMMA MoveEffects ==
    ASSUME TypeOK, NEW e \in Events, NEW k \in DOMAIN workers[e],
           \/ AcceptWithoutLock(e, k) \/ AcceptFails(e, k) \/ RejectFails(e, k)
           \/ StoreCheckpoint(e, k) \/ \E o \in Outcomes : EndExecution(e, k, o)
           \/ BeginCompletion(e, k) \/ CompletionFails(e, k)
    PROVE  (Moved(e, k) \/ Kept(e)) /\ \A f \in Events : f # e => Kept(f)
<1>1. UNCHANGED <<outbox, executions>>
  BY DEF AcceptWithoutLock, AcceptFails, RejectFails, StoreCheckpoint, EndExecution,
         BeginCompletion, CompletionFails
<1>2. CASE AcceptWithoutLock(e, k) \/ AcceptFails(e, k)
  <2>1. PICK s \in {"executing", "rejecting"} : SetStage(e, k, s)
    BY <1>2 DEF AcceptWithoutLock, AcceptFails
  <2>2. OnlyWorker(e, k) /\ workers'[e][k].stage = s
    BY <2>1, StageReplaced
  <2>3. \A f \in Events : f # e => workers'[f] = workers[f]
    BY <2>1 DEF SetStage, TypeOK
  <2>4. workers[e][k].stage = "claimed"
    BY <1>2 DEF AcceptWithoutLock, AcceptFails
  <2>5. QED
    BY <1>1, <2>2, <2>3, <2>4 DEF Moved, Moves, Kept, RowSame
<1>3. CASE RejectFails(e, k)
  <2>1. OnlyWorker(e, k) /\ workers'[e][k].stage = "gone"
    BY <1>3, Left DEF RejectFails
  <2>2. \A f \in Events : f # e => workers'[f] = workers[f]
    BY <1>3 DEF RejectFails, Leave, TypeOK
  <2>3. QED
    BY <1>1, <1>3, <2>1, <2>2 DEF RejectFails, Moved, Moves, Kept, RowSame
<1>4. CASE StoreCheckpoint(e, k)
  BY <1>1, <1>4 DEF StoreCheckpoint, Kept, RowSame
<1>5. ASSUME NEW o \in Outcomes, EndExecution(e, k, o)
      PROVE  Moved(e, k) /\ \A f \in Events : f # e => Kept(f)
  <2> DEFINE w == [workers[e][k] EXCEPT !.stage = "concluding", !.outcome = o]
  <2>1. w.stage = "concluding"
    BY Facts DEF Worker
  <2>2. workers' = [workers EXCEPT ![e] = [workers[e] EXCEPT ![k] = w]]
    BY <1>5 DEF EndExecution
  <2> HIDE DEF w
  <2>3. OnlyWorker(e, k) /\ workers'[e][k].stage = "concluding"
    BY <2>1, <2>2, WorkerReplaced
  <2>4. \A f \in Events : f # e => workers'[f] = workers[f]
    BY <2>2 DEF TypeOK
  <2>5. workers[e][k].stage = "executing"
    BY <1>5 DEF EndExecution, Executing
  <2>6. QED
    BY <1>1, <2>3, <2>4, <2>5 DEF Moved, Moves, Kept, RowSame
<1>6. CASE AfterFailedCompletion(e, k) /\ workers[e][k].stage \in {"concluding", "saving"}
  BY <1>1, <1>6, FailedCompletion DEF Moved, Moves, Kept, RowSame
<1>7. CASE BeginCompletion(e, k) /\ Owns(e, k)
  <2>1. SetStage(e, k, "saving")
    BY <1>7 DEF BeginCompletion
  <2>2. OnlyWorker(e, k) /\ workers'[e][k].stage = "saving"
    BY <2>1, StageReplaced
  <2>3. \A f \in Events : f # e => workers'[f] = workers[f]
    BY <2>1 DEF SetStage, TypeOK
  <2>4. workers[e][k].stage = "concluding"
        /\ \A j \in DOMAIN workers[e] : workers[e][j].stage # "saving"
    BY <1>7 DEF BeginCompletion
  <2>5. QED
    BY <1>1, <1>7, <2>2, <2>3, <2>4 DEF Moved, Moves, Kept, RowSame
<1>8. QED
  BY <1>2, <1>3, <1>4, <1>5, <1>6, <1>7 DEF BeginCompletion, CompletionFails

LEMMA SaveEffects ==
    ASSUME TypeOK, NEW e \in Events, NEW k \in DOMAIN workers[e], SaveCompletion(e, k)
    PROVE  /\ Saved(e, k)
           /\ \A f \in Consumed(e, k) : Absorbed(f)
           /\ \A f \in Events \ {e} : f \notin Consumed(e, k) => Kept(f)
<1> DEFINE B == Consumed(e, k)
           Reply == [workers[e][k] EXCEPT !.stage = "concluding",
                                          !.outcome = "retryable-failure"]
<1>1. PICK w \in Worker :
         /\ workers' = [f \in Events |-> IF f = e THEN [workers[e] EXCEPT ![k] = w]
                                         ELSE IF f \in B THEN Append(workers[f], Gone)
                                         ELSE workers[f]]
         /\ w = Gone \/ (w = Reply /\ workers[e][k].outcome = "succeeded")
  BY DEF SaveCompletion
<1>2. Saved(e, k)
  <2>1. workers'[e] = [workers[e] EXCEPT ![k] = w]
    BY <1>1
  <2>2. workers[e] \in [1 .. Len(workers[e]) -> Worker] /\ k \in 1 .. Len(workers[e])
    BY Facts
  <2>3. OnlyWorker(e, k) /\ workers'[e][k] = w
    BY <2>1, <2>2 DEF OnlyWorker
  <2>4. w.stage = "gone" \/ (w.stage = "concluding" /\ workers[e][k].outcome = "succeeded")
    <3>1. Reply.stage = "concluding"
      BY Facts DEF Worker
    <3>2. Gone.stage = "gone"
      BY DEF Gone
    <3> HIDE DEF Reply
    <3>3. QED
      BY <1>1, <3>1, <3>2
  <2>5. executions'[e] = [executions[e] EXCEPT ![k].status = ConcludedStatus(e, k)]
    BY DEF SaveCompletion
  <2>6. OnlyAudit(e, k, ConcludedStatus(e, k))
    BY <2>5, AuditReplaced
  <2>7. outbox'[e] = Concluded(e, k) /\ workers[e][k].stage = "saving"
    BY DEF SaveCompletion
  <2>8. QED
    BY <2>3, <2>4, <2>6, <2>7 DEF Saved
<1>3. ASSUME NEW f \in B PROVE Absorbed(f)
  <2>1. /\ f \in Events /\ f # e /\ f[1] = e[1] /\ f[2] \in checkpoint[e]
        /\ outbox[f].topic = Persisted /\ outbox[f].status = "pending"
    BY DEF Consumed
  <2>2. /\ outbox[f] \in Row /\ executions[f] \in Seq(Execution) /\ workers[f] \in Seq(Worker)
        /\ Len(workers[f]) = Len(executions[f]) /\ Len(executions[f]) \in Nat
        /\ DOMAIN executions[f] = 1 .. Len(executions[f])
        /\ DOMAIN workers[f] = 1 .. Len(executions[f])
    BY <2>1, Facts
  <2> DEFINE x == [attempt |-> IF outbox[f].attempts = 0 THEN 1 ELSE outbox[f].attempts,
                   status |-> "succeeded"]
             n == Len(executions[f]) + 1
  <2>3. executions'[f] = Append(executions[f], x) /\ workers'[f] = Append(workers[f], Gone)
        /\ outbox'[f] = [outbox[f] EXCEPT !.status = "delivered", !.executionId = 0,
                                          !.lockId = 0, !.lapsed = FALSE]
    BY <1>1, <2>1 DEF SaveCompletion
  <2>4. /\ x.status = "succeeded"
        /\ x.attempt = IF outbox[f].attempts = 0 THEN 1 ELSE outbox[f].attempts
    OBVIOUS
  <2>5. Gone.stage = "gone" /\ Gone \in Worker
    BY DEF Gone, Worker, Stages
  <2> HIDE DEF x
  <2>6. /\ Len(executions'[f]) = n /\ DOMAIN executions'[f] = 1 .. n
        /\ \A j \in 1 .. Len(executions[f]) : executions'[f][j] = executions[f][j]
        /\ executions'[f][n] = x
    BY <2>2, <2>3
  <2>7. /\ DOMAIN workers'[f] = 1 .. n
        /\ \A j \in 1 .. Len(executions[f]) : workers'[f][j] = workers[f][j]
        /\ workers'[f][n] = Gone
    BY <2>2, <2>3, <2>5
  <2>8. /\ outbox'[f].status = "delivered" /\ SameKind(f)
        /\ outbox'[f].attempts = outbox[f].attempts
    BY <2>1, <2>2, <2>3 DEF Row
  <2>9. QED
    BY <2>1, <2>2, <2>4, <2>5, <2>6, <2>7, <2>8 DEF Absorbed
<1>4. ASSUME NEW f \in Events \ {e}, f \notin B PROVE Kept(f)
  BY <1>1, <1>4 DEF SaveCompletion, Kept, RowSame
<1>5. QED
  BY <1>2, <1>3, <1>4

LEMMA Effects ==
    ASSUME TypeOK, [Next]_vars, NEW e \in Events
    PROVE  Effect(e)
<1>1. CASE UNCHANGED vars
  BY <1>1 DEF vars, Effect, Kept, RowSame
<1>2. ASSUME NEW f \in Events,
             \/ \E t \in Topics, c \in Collecting : Enqueue(f, t, c)
             \/ Lapse(f) \/ BackoffEnds(f) \/ Mature(f)
      PROVE  Effect(e)
  <2>1. Created(f) \/ Kept(f)
    BY <1>2, RowStepEffects
  <2>2. f # e => Kept(e)
    BY <1>2 DEF Enqueue, Lapse, BackoffEnds, Mature, Kept, RowSame, TypeOK
  <2>3. QED
    BY <2>1, <2>2 DEF Effect
<1>3. ASSUME NEW p \in Processes, Tick(p) \/ EndTick(p) \/ Crash(p) PROVE Effect(e)
  BY <1>3, TickEffects, CrashEffects DEF Effect
<1>4. ASSUME NEW f \in Events, NEW sent \in BOOLEAN, Reconcile(f, sent) PROVE Effect(e)
  BY <1>4, ReconcileEffects DEF Effect
<1>5. ASSUME NEW f \in Events, NEW k \in DOMAIN workers[f], Dispatch(f, k) PROVE Effect(e)
  BY <1>5, AcceptEffects, RejectEffects, MoveEffects, SaveEffects
     DEF Effect, Dispatch, Reject, RejectReplyLost
<1>6. QED
  BY <1>1, <1>2, <1>3, <1>4, <1>5 DEF Next
-------------------------------------------------------------------------------
(* The audit.  An execution that succeeded has nothing more to do with its row: *)
(* its dispatch has saved, and the row is not in its hands.                     *)

AuditInv(e) ==
    /\ outbox[e].status = "absent" => executions[e] = <<>>
    /\ \A k \in DOMAIN executions[e] : executions[e][k].status = "succeeded" =>
          workers[e][k].stage \in {"concluding", "gone"} /\ ~Owns(e, k)

LEMMA ConcludedCases ==
    ASSUME TypeOK, NEW e \in Events, NEW k \in DOMAIN workers[e], Saved(e, k)
    PROVE  /\ outbox'[e].status \in {"pending", "dead", "delivered"}
           /\ SameKind(e)
           /\ outbox'[e].attempts = executions[e][k].attempt
           /\ outbox'[e].status = "delivered" <=> workers[e][k].outcome = "succeeded"
           /\ ConcludedStatus(e, k) = "succeeded" <=> workers[e][k].outcome = "succeeded"
           /\ ConcludedStatus(e, k) \notin {"claimed", "accepted"}
           /\ outbox'[e].status = "pending" => executions[e][k].attempt < MaxAttempts
<1>1. outbox[e] \in Row /\ workers[e][k] \in Worker /\ executions[e][k] \in Execution
  BY Facts
<1> DEFINE a == executions[e][k].attempt
           R == [outbox[e] EXCEPT !.attempts = a, !.lockId = 0, !.lapsed = FALSE]
           o == workers[e][k].outcome
<1>2. o \in Outcomes
  BY <1>1 DEF Saved, Worker
<1>3. outbox'[e] = CASE o = "succeeded" -> [R EXCEPT !.status = "delivered"]
                     [] o = "retryable-failure" /\ ~(a >= MaxAttempts) ->
                          [R EXCEPT !.status = "pending", !.due = FALSE, !.executionId = 0]
                     [] o = "retryable-failure" /\ a >= MaxAttempts ->
                          [R EXCEPT !.status = "dead", !.executionId = 0]
                     [] OTHER -> [R EXCEPT !.status = "dead"]
  BY DEF Saved, Concluded
<1>4. /\ outbox'[e].status = IF o = "succeeded" THEN "delivered"
                             ELSE IF o = "retryable-failure" /\ ~(a >= MaxAttempts)
                             THEN "pending" ELSE "dead"
      /\ SameKind(e)
      /\ outbox'[e].attempts = a
  <2> HIDE DEF a, o
  <2>1. DOMAIN outbox[e] = {"status", "topic", "collecting", "attempts", "due", "age",
                            "executionId", "lockId", "lapsed", "reconciled"}
    BY <1>1 DEF Row
  <2>2. CASE o = "succeeded"
    BY <1>1, <1>3, <2>1, <2>2
  <2>3. CASE o = "retryable-failure" /\ ~(a >= MaxAttempts)
    BY <1>1, <1>3, <2>1, <2>3
  <2>4. CASE o = "retryable-failure" /\ a >= MaxAttempts
    BY <1>1, <1>3, <2>1, <2>4
  <2>5. CASE o # "succeeded" /\ o # "retryable-failure"
    BY <1>1, <1>3, <2>1, <2>5
  <2>6. QED
    BY <2>2, <2>3, <2>4, <2>5
<1>5. a \in Int /\ MaxAttempts \in Int
  BY <1>1, BoundsAssumption DEF Execution
<1>6. QED
  BY <1>2, <1>4, <1>5 DEF ConcludedStatus, Outcomes, Failures

LEMMA ExpireCases ==
    ASSUME NEW e \in Events, NEW x \in Execution
    PROVE  /\ Expire(e, x).attempt = x.attempt
           /\ Expire(e, x).status = "succeeded" <=> x.status = "succeeded"
           /\ Expire(e, x).status \in {"claimed", "accepted"} =>
                 Expire(e, x) = x /\ ~Lapsed(e)
           /\ x.status \in {"claimed", "accepted"} /\ ~Lapsed(e) => Expire(e, x) = x
  BY DEF Expire, Execution

\* What the sweep leaves of the audit of a row.
LEMMA SweptAudit ==
    ASSUME TypeOK, NEW e \in Events, AuditSwept(e), NEW k \in DOMAIN executions[e]
    PROVE  /\ executions'[e][k].attempt = executions[e][k].attempt
           /\ executions'[e][k].status = "succeeded" <=> executions[e][k].status = "succeeded"
           /\ executions'[e][k].status \in {"claimed", "accepted"} =>
                 executions'[e][k] = executions[e][k] /\ ~Lapsed(e)
           /\ executions[e][k].status \in {"claimed", "accepted"} /\ ~Lapsed(e) =>
                 executions'[e][k] = executions[e][k]
<1>1. executions[e][k] \in Execution /\ executions'[e][k] = Expire(e, executions[e][k])
  BY Facts DEF AuditSwept
<1>2. QED
  BY <1>1, ExpireCases

HIDE DEF SameKind

LEMMA AuditStep ==
    ASSUME TypeOK, [Next]_vars, NEW e \in Events, AuditInv(e)
    PROVE  AuditInv(e)' /\ SuccessKept(e)
<1>0. /\ DOMAIN executions[e] = 1 .. Len(executions[e])
      /\ DOMAIN workers[e] = 1 .. Len(executions[e]) /\ Len(executions[e]) \in Nat
      /\ \A k \in DOMAIN workers[e] :
            workers[e][k] \in Worker /\ executions[e][k] \in Execution
      /\ outbox[e].status \in Statuses
  BY Facts DEF Row
<1>1. CASE Kept(e) \/ Created(e)
  BY <1>1 DEF AuditInv, SuccessKept, Kept, Created, RowSame, Owns
<1>2. CASE Absorbed(e)
  <2> DEFINE n == Len(executions[e]) + 1
  <2>1. /\ DOMAIN executions'[e] = 1 .. n /\ DOMAIN workers'[e] = 1 .. n
        /\ \A k \in 1 .. n : k = n \/ k \in DOMAIN executions[e]
        /\ workers'[e][n].stage = "gone" /\ outbox'[e].status = "delivered"
        /\ \A k \in DOMAIN executions[e] :
              executions'[e][k] = executions[e][k] /\ workers'[e][k] = workers[e][k]
    BY <1>0, <1>2 DEF Absorbed
  <2>2. QED
    BY <1>0, <2>1 DEF AuditInv, SuccessKept, Owns
<1>3. CASE Reconciled(e)
  BY <1>3 DEF AuditInv, SuccessKept, Reconciled, Owns
<1>4. CASE Swept(e)
  <2>1. /\ \A k \in DOMAIN executions[e] : executions'[e][k].status = "succeeded"
                                        <=> executions[e][k].status = "succeeded"
        /\ DOMAIN executions'[e] = DOMAIN executions[e] /\ workers'[e] = workers[e]
        /\ Len(executions'[e]) = Len(executions[e])
    BY <1>4, SweptAudit DEF Swept
  <2>2. CASE Exhausted(e)
    BY <1>0, <1>4, <2>1, <2>2 DEF AuditInv, SuccessKept, Swept, Owns
  <2>3. CASE ~Exhausted(e)
    <3>1. outbox'[e].status = outbox[e].status /\ \A k : Owns(e, k)' <=> Owns(e, k)
      BY <1>4, <2>3 DEF Swept, RowSame, Owns
    <3>2. outbox[e].status = "absent" => executions'[e] = <<>>
      BY <1>0, <1>4, <2>1 DEF AuditInv, Swept
    <3>3. QED
      BY <1>0, <2>1, <3>1, <3>2 DEF AuditInv, SuccessKept
  <2>4. QED
    BY <2>2, <2>3
<1>5. CASE Taken(e)
  <2> DEFINE n == Len(executions[e]) + 1
  <2>1. /\ DOMAIN executions'[e] = 1 .. n /\ DOMAIN workers'[e] = 1 .. n
        /\ \A k \in 1 .. n : k = n \/ k \in DOMAIN executions[e]
        /\ executions'[e][n].status = "claimed"
        /\ outbox'[e].status = "processing" /\ outbox'[e].executionId = n
        /\ \A k \in DOMAIN executions[e] : workers'[e][k] = workers[e][k]
    BY <1>0, <1>5 DEF Taken
  <2>2. \A k \in DOMAIN executions[e] : executions'[e][k].status = "succeeded"
                                  <=> executions[e][k].status = "succeeded"
    BY <1>5, SweptAudit DEF Taken
  <2>3. \A k \in DOMAIN executions[e] : k # n
    BY <1>0
  <2>4. QED
    BY <1>0, <2>1, <2>2, <2>3 DEF AuditInv, SuccessKept, Owns
<1>6. CASE Orphaned(e)
  BY <1>0, <1>6 DEF AuditInv, SuccessKept, Orphaned, RowSame, Owns
<1>7. ASSUME NEW k \in DOMAIN workers[e], Moved(e, k) PROVE AuditInv(e)' /\ SuccessKept(e)
  BY <1>0, <1>7 DEF AuditInv, SuccessKept, Moved, Moves, OnlyWorker, RowSame, Owns
<1>8. ASSUME NEW k \in DOMAIN workers[e], Accepted(e, k) PROVE AuditInv(e)' /\ SuccessKept(e)
  BY <1>0, <1>8 DEF AuditInv, SuccessKept, Accepted, OnlyAudit, OnlyWorker, Owns, HoldsLock
<1>9. ASSUME NEW k \in DOMAIN workers[e], Rejected(e, k) PROVE AuditInv(e)' /\ SuccessKept(e)
  BY <1>0, <1>9
  DEF AuditInv, SuccessKept, Rejected, OnlyAudit, OnlyWorker, RowSame, Owns, HoldsLock, Failures
<1>10. ASSUME NEW k \in DOMAIN workers[e], Saved(e, k) PROVE AuditInv(e)' /\ SuccessKept(e)
  BY <1>0, <1>10, ConcludedCases DEF AuditInv, SuccessKept, Saved, OnlyAudit, OnlyWorker, Owns
<1>11. QED
  BY <1>1, <1>2, <1>3, <1>4, <1>5, <1>6, <1>7, <1>8, <1>9, <1>10, Effects DEF Effect
-------------------------------------------------------------------------------
(* A row that no completion of another one can absorb: it is not a message of a *)
(* customer, or it is the first of its conversation.                            *)

CheckpointInv == \A d \in Events : \A n \in checkpoint[d] : n >= d[2]

Absorbable(e) == outbox[e].topic = Persisted /\ Predecessors(e) # {}

DeliveredInv(e) ==
    /\ \A j, k \in DOMAIN workers[e] :
          workers[e][j].stage = "saving" /\ workers[e][k].stage = "saving" => j = k
    /\ outbox[e].status = "delivered" =>
          \A k \in DOMAIN workers[e] : workers[e][k].stage # "saving"
    /\ \A k \in DOMAIN executions[e] :
          executions[e][k].status = "succeeded" => outbox[e].status = "delivered"
    /\ outbox[e].reconciled => outbox[e].status = "delivered"
    /\ SucceededOnce(e)

LEMMA CheckpointStep ==
    ASSUME TypeOK, CheckpointInv, [Next]_vars
    PROVE  CheckpointInv'
<1>1. CASE checkpoint' = checkpoint
  BY <1>1 DEF CheckpointInv
<1>2. ASSUME NEW e \in Events, NEW k \in DOMAIN workers[e], StoreCheckpoint(e, k)
      PROVE  CheckpointInv'
  <2>1. PICK B \in SUBSET {f \in Successors(e) : /\ outbox[f].status # "absent"
                                                 /\ outbox[f].topic \in Inbound} :
           checkpoint' = [checkpoint EXCEPT ![e] = {e[2]} \cup {f[2] : f \in B}]
    BY <1>2 DEF StoreCheckpoint
  <2>2. \A n \in checkpoint'[e] : n >= e[2]
    <3>1. checkpoint'[e] = {e[2]} \cup {f[2] : f \in B}
      BY <2>1 DEF TypeOK
    <3>2. e[2] \in Int /\ \A f \in B : f[2] \in Int /\ f[2] > e[2]
      BY <2>1 DEF Successors, Events
    <3>3. QED
      BY <3>1, <3>2
  <2>3. \A d \in Events : d # e => checkpoint'[d] = checkpoint[d]
    BY <2>1 DEF TypeOK
  <2>4. QED
    BY <2>2, <2>3 DEF CheckpointInv
<1>3. ASSUME NEW e \in Events, NEW k \in DOMAIN workers[e], Dispatch(e, k)
      PROVE  checkpoint' = checkpoint \/ StoreCheckpoint(e, k)
  BY <1>3 DEF Dispatch, Accept, AcceptWithoutLock, AcceptFails, Reject, RejectReplyLost,
              GiveBack, RejectFails, EndExecution, BeginCompletion, CompletionFails, SaveCompletion
<1>4. QED
  BY <1>1, <1>2, <1>3
     DEF Next, vars, Enqueue, Tick, EndTick, Crash, Reconcile, Lapse, BackoffEnds, Mature

\* Only a row with others ahead of it is absorbed.
LEMMA AbsorbedAbsorbable ==
    ASSUME CheckpointInv, NEW e \in Events, Absorbed(e)
    PROVE  Absorbable(e)
<1>1. PICK d \in Events : d # e /\ d[1] = e[1] /\ e[2] \in checkpoint[d]
  BY DEF Absorbed
<1>2. e[2] >= d[2] /\ e[2] # d[2] /\ d[2] \in Int /\ e[2] \in Int
  BY <1>1 DEF CheckpointInv, Events
<1>3. d \in Predecessors(e)
  BY <1>1, <1>2 DEF Predecessors
<1>4. QED
  BY <1>3 DEF Absorbed, Absorbable

USE DEF SameKind

\* A row that is absorbed, if at all, only while no completion of its own is
\* open, is delivered once and stays delivered.
LEMMA DeliveredStep ==
    ASSUME TypeOK, [Next]_vars, NEW e \in Events, AuditInv(e), DeliveredInv(e),
           Absorbed(e) => \A k \in DOMAIN workers[e] : workers[e][k].stage # "saving"
    PROVE  DeliveredInv(e)' /\ StaysDelivered(e)
<1>0. /\ DOMAIN executions[e] = 1 .. Len(executions[e])
      /\ DOMAIN workers[e] = 1 .. Len(executions[e]) /\ Len(executions[e]) \in Nat
      /\ \A k \in DOMAIN workers[e] :
            workers[e][k] \in Worker /\ executions[e][k] \in Execution
      /\ outbox[e].status \in Statuses
      /\ SuccessKept(e)
  BY Facts, AuditStep DEF Row
<1> SUFFICES DeliveredInv(e)' /\ (outbox[e].status = "delivered" => outbox'[e].status = "delivered")
  BY <1>0 DEF StaysDelivered
<1> USE DEF DeliveredInv, SucceededOnce
<1>1. CASE Kept(e)
  BY <1>1 DEF Kept, RowSame
<1>2. CASE Created(e)
  BY <1>0, <1>2 DEF AuditInv, Created
<1>3. CASE Absorbed(e)
  <2> DEFINE n == Len(executions[e]) + 1
  <2>1. /\ DOMAIN executions'[e] = 1 .. n /\ DOMAIN workers'[e] = 1 .. n
        /\ \A k \in 1 .. n : k = n \/ k \in DOMAIN executions[e]
        /\ workers'[e][n].stage = "gone" /\ outbox'[e].status = "delivered"
        /\ \A k \in DOMAIN executions[e] :
              executions'[e][k] = executions[e][k] /\ workers'[e][k] = workers[e][k]
    BY <1>0, <1>3 DEF Absorbed
  <2>2. \A k \in DOMAIN executions[e] :
           executions[e][k].status # "succeeded" /\ workers[e][k].stage # "saving"
    BY <1>0, <1>3 DEF Absorbed
  <2>3. QED
    BY <1>0, <2>1, <2>2
<1>4. CASE Reconciled(e)
  BY <1>4 DEF Reconciled
<1>5. CASE Swept(e)
  <2>1. /\ \A k \in DOMAIN executions[e] : executions'[e][k].status = "succeeded"
                                        <=> executions[e][k].status = "succeeded"
        /\ DOMAIN executions'[e] = DOMAIN executions[e] /\ workers'[e] = workers[e]
    BY <1>5, SweptAudit DEF Swept
  <2>2. CASE Exhausted(e)
    <3>1. /\ outbox[e].status # "delivered" /\ outbox'[e].status = "dead"
          /\ SameKind(e) /\ ~outbox'[e].reconciled
      BY <1>5, <2>2 DEF Swept, Exhausted, Lapsed
    <3>2. QED
      BY <2>1, <3>1
  <2>3. CASE ~Exhausted(e)
    BY <1>5, <2>1, <2>3 DEF Swept, RowSame
  <2>4. QED
    BY <2>2, <2>3
<1>6. CASE Taken(e)
  <2> DEFINE n == Len(executions[e]) + 1
  <2>1. /\ DOMAIN executions'[e] = 1 .. n /\ DOMAIN workers'[e] = 1 .. n
        /\ \A k \in 1 .. n : k = n \/ k \in DOMAIN executions[e]
        /\ executions'[e][n].status = "claimed" /\ workers'[e][n].stage = "claimed"
        /\ outbox[e].status # "delivered" /\ outbox'[e].status = "processing"
        /\ ~outbox'[e].reconciled
        /\ \A k \in DOMAIN executions[e] : workers'[e][k] = workers[e][k]
    BY <1>0, <1>6 DEF Taken, Lapsed
  <2>2. \A k \in DOMAIN executions[e] : executions'[e][k].status = "succeeded"
                                  <=> executions[e][k].status = "succeeded"
    BY <1>6, SweptAudit DEF Taken
  <2>3. \A k \in DOMAIN executions'[e] : executions'[e][k].status # "succeeded"
    BY <1>0, <2>1, <2>2
  <2>4. \A k \in DOMAIN workers'[e] : workers'[e][k].stage = "saving" =>
           k \in DOMAIN workers[e] /\ workers[e][k].stage = "saving"
    BY <1>0, <2>1
  <2>5. QED
    BY <2>1, <2>3, <2>4
<1>7. CASE Orphaned(e)
  BY <1>7 DEF Orphaned, RowSame
<1>8. ASSUME NEW k \in DOMAIN workers[e], Moved(e, k)
      PROVE  DeliveredInv(e)' /\ (outbox[e].status = "delivered" => outbox'[e].status = "delivered")
  <2>0. /\ outbox'[e].status = outbox[e].status /\ executions'[e] = executions[e]
        /\ outbox'[e].reconciled = outbox[e].reconciled
    BY <1>8 DEF Moved, RowSame
  <2>h. (outbox[e].reconciled => outbox[e].status = "delivered") =>
           (outbox'[e].reconciled => outbox'[e].status = "delivered")
    BY <2>0
  <2>1. CASE workers'[e][k].stage = "saving"
    BY <1>0, <1>8, <2>0, <2>1, <2>h DEF Moved, OnlyWorker, Owns
  <2>2. CASE workers'[e][k].stage # "saving"
    <3>1. /\ DOMAIN workers'[e] = DOMAIN workers[e]
          /\ \A j \in DOMAIN workers[e] : j # k => workers'[e][j] = workers[e][j]
      BY <1>8 DEF Moved, OnlyWorker
    <3>2. \A j \in DOMAIN workers'[e] : workers'[e][j].stage = "saving" =>
             j \in DOMAIN workers[e] /\ workers[e][j].stage = "saving"
      BY <2>2, <3>1
    <3>3. QED
      BY <2>0, <2>h, <3>2
  <2>3. QED
    BY <2>1, <2>2
<1>9. ASSUME NEW k \in DOMAIN workers[e], Accepted(e, k)
      PROVE  DeliveredInv(e)' /\ (outbox[e].status = "delivered" => outbox'[e].status = "delivered")
  <2>1. /\ outbox[e].status = "processing" /\ outbox'[e].status = "processing"
        /\ ~outbox'[e].reconciled
    BY <1>9 DEF Accepted, HoldsLock, Owns
  <2>2. QED
    BY <1>0, <1>9, <2>1 DEF Accepted, OnlyAudit, OnlyWorker
<1>10. ASSUME NEW k \in DOMAIN workers[e], Rejected(e, k)
      PROVE  DeliveredInv(e)' /\ (outbox[e].status = "delivered" => outbox'[e].status = "delivered")
  <2>1. /\ DOMAIN workers'[e] = DOMAIN workers[e] /\ workers'[e][k].stage = "gone"
        /\ \A j \in DOMAIN workers[e] : j # k => workers'[e][j] = workers[e][j]
    BY <1>10 DEF Rejected, OnlyWorker
  <2>2. /\ DOMAIN executions'[e] = DOMAIN executions[e]
        /\ \A j \in DOMAIN executions[e] :
              executions'[e][j].status = "succeeded" => executions[e][j].status = "succeeded"
    BY <1>0, <1>10 DEF Rejected, OnlyAudit, Failures
  <2>3. \/ outbox'[e].status = outbox[e].status
        \/ outbox[e].status = "processing" /\ outbox'[e].status # "delivered"
    BY <1>10 DEF Rejected, RowSame, HoldsLock, Owns
  <2>4. outbox'[e].reconciled = outbox[e].reconciled
    BY <1>10 DEF Rejected, RowSame
  <2>5. QED
    BY <1>0, <2>1, <2>2, <2>3, <2>4
<1>11. ASSUME NEW k \in DOMAIN workers[e], Saved(e, k)
      PROVE  DeliveredInv(e)' /\ (outbox[e].status = "delivered" => outbox'[e].status = "delivered")
  <2>1. \A j \in DOMAIN executions[e] : executions[e][j].status # "succeeded"
    BY <1>0, <1>11 DEF Saved
  <2>2. \A j \in DOMAIN workers'[e] : workers'[e][j].stage # "saving"
    BY <1>11 DEF Saved, OnlyWorker
  <2>3. \A j \in DOMAIN executions'[e] : executions'[e][j].status = "succeeded" =>
           j = k /\ workers[e][k].outcome = "succeeded"
    BY <1>11, <2>1, ConcludedCases DEF Saved, OnlyAudit
  <2>4. outbox[e].status # "delivered"
    BY <1>11 DEF Saved
  <2>5. QED
    BY <1>11, <2>2, <2>3, <2>4, ConcludedCases
<1>12. QED
  BY <1>1, <1>2, <1>3, <1>4, <1>5, <1>6, <1>7, <1>8, <1>9, <1>10, <1>11, Effects DEF Effect

\* The audit and the checkpoints, after any number of steps.
LEMMA AuditInvariant == Spec => [](CheckpointInv /\ \A e \in Events : AuditInv(e))
<1>1. Init => CheckpointInv /\ \A e \in Events : AuditInv(e)
  BY DEF Init, CheckpointInv, AuditInv
<1>2. TypeOK /\ (CheckpointInv /\ \A e \in Events : AuditInv(e)) /\ [Next]_vars
         => (CheckpointInv /\ \A e \in Events : AuditInv(e))'
  BY CheckpointStep, AuditStep
<1>3. QED
  BY <1>1, <1>2, TypeCorrect, PTL DEF Spec

\* The audit never takes a success back, whatever lapses, fails or is reconciled.
THEOREM SuccessIsKept == Spec => [][\A e \in Events : SuccessKept(e)]_vars
<1>1. TypeOK /\ (CheckpointInv /\ \A e \in Events : AuditInv(e)) /\ [Next]_vars
         => [\A e \in Events : SuccessKept(e)]_vars
  BY AuditStep
<1>2. QED
  BY <1>1, TypeCorrect, AuditInvariant, PTL DEF Spec

\* How a row comes to be delivered.
LEMMA DeliveredBy ==
    ASSUME TypeOK, [Next]_vars, NEW e \in Events
    PROVE  /\ DOMAIN executions[e] \subseteq DOMAIN executions'[e]
           /\ outbox[e].status = "delivered" => SameKind(e)
           /\ outbox[e].status # "delivered" /\ outbox'[e].status = "delivered" =>
                 \/ \E k \in DOMAIN executions'[e] : executions'[e][k].status = "succeeded"
                 \/ outbox'[e].reconciled
<1>0. /\ DOMAIN executions[e] = 1 .. Len(executions[e])
      /\ DOMAIN workers[e] = 1 .. Len(executions[e]) /\ Len(executions[e]) \in Nat
  BY Facts
<1>1. CASE Kept(e) \/ Created(e) \/ Orphaned(e)
  BY <1>1 DEF Kept, Created, Orphaned, RowSame
<1>2. CASE Absorbed(e)
  <2>1. /\ DOMAIN executions'[e] = 1 .. Len(executions[e]) + 1
        /\ executions'[e][Len(executions[e]) + 1].status = "succeeded"
        /\ SameKind(e)
    BY <1>2 DEF Absorbed
  <2>2. QED
    BY <1>0, <2>1
<1>3. CASE Reconciled(e)
  BY <1>0, <1>3 DEF Reconciled
<1>4. CASE Swept(e)
  BY <1>4 DEF Swept, RowSame
<1>5. CASE Taken(e)
  BY <1>0, <1>5 DEF Taken
<1>6. ASSUME NEW k \in DOMAIN workers[e], Moved(e, k) \/ Accepted(e, k) \/ Rejected(e, k)
      PROVE  /\ DOMAIN executions[e] \subseteq DOMAIN executions'[e]
             /\ SameKind(e)
             /\ outbox'[e].status = "delivered" => outbox[e].status = "delivered"
  BY <1>6 DEF Moved, Accepted, Rejected, RowSame, OnlyAudit
<1>7. ASSUME NEW k \in DOMAIN workers[e], Saved(e, k)
      PROVE  /\ DOMAIN executions[e] \subseteq DOMAIN executions'[e]
             /\ SameKind(e)
             /\ outbox'[e].status = "delivered" => executions'[e][k].status = "succeeded"
  BY <1>7, ConcludedCases DEF Saved, OnlyAudit
<1>8. QED
  BY <1>0, <1>1, <1>2, <1>3, <1>4, <1>5, <1>6, <1>7, Effects DEF Effect

\* A row is delivered only on account of an execution that succeeded, its own
\* or the one that consumed it, or of an operator who confirmed this very row.
THEOREM DeliveredHasCause == Spec => []DeliveredForCause
<1> DEFINE A == CheckpointInv /\ \A e \in Events : AuditInv(e)
<1>1. Init => DeliveredForCause
  BY DEF Init, DeliveredForCause, Absent
<1>2. TypeOK /\ A /\ DeliveredForCause /\ [Next]_vars => DeliveredForCause'
  <2> SUFFICES ASSUME TypeOK, A, DeliveredForCause, [Next]_vars, NEW e \in Events,
                      outbox'[e].status = "delivered"
               PROVE  \/ \E k \in DOMAIN executions'[e] : executions'[e][k].status = "succeeded"
                      \/ outbox'[e].reconciled
    BY DEF DeliveredForCause, Succeeded
  <2>1. CASE outbox[e].status = "delivered"
    <3>1. CASE Succeeded(e)
      BY <2>1, <3>1, DeliveredBy, AuditStep DEF SuccessKept, Succeeded
    <3>2. CASE outbox[e].reconciled
      BY <2>1, <3>2, DeliveredBy
    <3>3. QED
      BY <2>1, <3>1, <3>2 DEF DeliveredForCause
  <2>2. CASE outbox[e].status # "delivered"
    BY <2>2, DeliveredBy
  <2>3. QED
    BY <2>1, <2>2
<1>3. QED
  BY <1>1, <1>2, TypeCorrect, AuditInvariant, PTL DEF Spec

DeliveredRows == \A e \in Events : Absorbable(e) \/ DeliveredInv(e)

LEMMA DeliveredRowsStep ==
    ASSUME TypeOK, CheckpointInv, \A e \in Events : AuditInv(e), DeliveredRows, [Next]_vars
    PROVE  DeliveredRows' /\ \A e \in Events : Absorbable(e) \/ StaysDelivered(e)
<1> SUFFICES ASSUME NEW e \in Events
    PROVE  (Absorbable(e) \/ DeliveredInv(e))' /\ (Absorbable(e) \/ StaysDelivered(e))
  BY DEF DeliveredRows
<1>1. CASE ~Absorbable(e)
  BY <1>1, AbsorbedAbsorbable, DeliveredStep DEF DeliveredRows
<1>2. CASE Absorbable(e) /\ outbox'[e].topic = outbox[e].topic
  BY <1>2 DEF Absorbable, Predecessors
<1>3. CASE Created(e)
  <2>1. executions'[e] = <<>> /\ workers'[e] = workers[e] /\ DOMAIN workers[e] = {}
    BY <1>3, Facts DEF Created, AuditInv
  <2>2. DeliveredInv(e)'
    BY <2>1, <1>3 DEF DeliveredInv, SucceededOnce, Created
  <2>3. QED
    BY <1>1, <2>2
<1>4. Created(e) \/ outbox'[e].topic = outbox[e].topic
  BY Effects, ConcludedCases
     DEF Effect, Kept, RowSame, Absorbed, Reconciled, Swept, Taken, Orphaned, Moved, Accepted,
         Rejected
<1>5. QED
  BY <1>1, <1>2, <1>3, <1>4

LEMMA DeliveredRowsInvariant == Spec => []DeliveredRows
<1> DEFINE A == CheckpointInv /\ \A e \in Events : AuditInv(e)
<1>1. Init => DeliveredRows
  BY DEF Init, DeliveredRows, DeliveredInv, SucceededOnce, Absent
<1>2. TypeOK /\ A /\ DeliveredRows /\ [Next]_vars => DeliveredRows'
  BY DeliveredRowsStep
<1>3. QED
  BY <1>1, <1>2, TypeCorrect, AuditInvariant, PTL DEF Spec

\* A row that no completion of another one can absorb succeeds at most once,
\* however many leases lapse under live dispatches, whatever fails, and whatever
\* an operator re-opens.
THEOREM SucceedsOnce == Spec => [](\A e \in Events : Absorbable(e) \/ SucceededOnce(e))
<1>1. DeliveredRows => \A e \in Events : Absorbable(e) \/ SucceededOnce(e)
  BY DEF DeliveredRows, DeliveredInv
<1>2. QED
  BY <1>1, DeliveredRowsInvariant, PTL

\* Such a row, once delivered, stays delivered: no late completion, rejection,
\* sweep or claim takes it back.
THEOREM DeliveredIsKept ==
    Spec => [][\A e \in Events : Absorbable(e) \/ StaysDelivered(e)]_vars
<1> DEFINE A == CheckpointInv /\ \A e \in Events : AuditInv(e)
<1>1. TypeOK /\ A /\ DeliveredRows /\ [Next]_vars
         => [\A e \in Events : Absorbable(e) \/ StaysDelivered(e)]_vars
  BY DeliveredRowsStep
<1>2. QED
  BY <1>1, TypeCorrect, AuditInvariant, DeliveredRowsInvariant, PTL DEF Spec

-------------------------------------------------------------------------------
(***************************************************************************)
(* What the outbox guarantees as long as no lease lapses under a worker    *)
(* that is still alive: every row is delivered once and for good.  When no *)
(* operator re-opens a dead row either, a conversation has one execution   *)
(* at a time, in the order of its rows, the audit tells what happened, and *)
(* the outbox implements OrderedDispatch.                                  *)
(* For every number of conversations, processes, rows, attempts and faults.*)
(***************************************************************************)

(* The inductive invariant.  Only the newest claim of a row has a dispatch,    *)
(* and that dispatch holds the row under a lease that has not lapsed; or the   *)
(* reply to its completion was lost, and it is about to notice.                *)

LiveInv(e) ==
    \A k \in DOMAIN workers[e] : Live(e, k) =>
        /\ k = Len(executions[e])
        /\ \/ Owns(e, k) /\ ~outbox[e].lapsed
           \/ workers[e][k].stage = "concluding" /\ outbox[e].status = "delivered"

\* Rows are created in the order of their sequence numbers.
QueueInv ==
    \A e \in Events : outbox[e].status # "absent" =>
        \A f \in Predecessors(e) : outbox[f].status # "absent"

\* A re-opened row waits behind rows that were claimed while it was dead.
UnlessReopened == MaxReconciliations = 0 => InOrder

ExclusiveInv == (\A e \in Events : LiveInv(e)) /\ QueueInv /\ UnlessReopened

\* What a step does to one row, as far as the order of a conversation goes.
OrderKept(e) ==
    /\ outbox[e].status # "absent" => outbox'[e].status # "absent"
    /\ outbox[e].status = "absent" /\ outbox'[e].status # "absent" =>
          \A f \in Predecessors(e) : outbox[f].status # "absent"
    /\ Final(outbox[e]) => Final(outbox'[e])
    /\ executions'[e] # <<>> /\ outbox'[e].status # "delivered" =>
          \/ executions[e] # <<>> /\ outbox[e].status # "delivered"
          \/ \A f \in Predecessors(e) : Final(outbox'[f])

LEMMA OrderInv ==
    ASSUME QueueInv, UnlessReopened, \A e \in Events : OrderKept(e)
    PROVE  QueueInv' /\ UnlessReopened'
<1>1. \A e \in Events : \A f \in Predecessors(e) : f \in Events
  BY DEF Predecessors
<1>2. QueueInv'
  BY <1>1 DEF QueueInv, OrderKept, Predecessors
<1>3. UnlessReopened'
  BY <1>1 DEF UnlessReopened, InOrder, OrderKept, Predecessors
<1>4. QED
  BY <1>2, <1>3

\* A row that did not change, nor its audit, is kept; so is its dispatch.
LEMMA SameOrder ==
    ASSUME NEW e, outbox'[e] = outbox[e], executions'[e] = executions[e]
    PROVE  OrderKept(e)
  BY DEF OrderKept, Final

LEMMA SameLive ==
    ASSUME NEW e, LiveInv(e), outbox'[e] = outbox[e], executions'[e] = executions[e],
           workers'[e] = workers[e]
    PROVE  LiveInv(e)'
  BY DEF LiveInv, Live, Owns, Final

\* A row that is pending, or whose lease has lapsed, has no dispatch left.
LEMMA NobodyLeft ==
    ASSUME NEW e, LiveInv(e), \/ outbox[e].status = "pending"
                              \/ outbox[e].status = "processing" /\ outbox[e].lapsed
    PROVE  \A k \in DOMAIN workers[e] : ~Live(e, k)
  BY DEF LiveInv, Owns, Final

\* A step of the only dispatch of a row: it leaves, or still holds the row.
LEMMA OneDispatch ==
    ASSUME NEW e, LiveInv(e), NEW k \in DOMAIN workers[e], Live(e, k),
           DOMAIN workers'[e] = DOMAIN workers[e],
           \A j \in DOMAIN workers[e] : j # k => workers'[e][j] = workers[e][j],
           Len(executions'[e]) = Len(executions[e]),
           \/ workers'[e][k].stage = "gone"
           \/ Owns(e, k)' /\ ~outbox'[e].lapsed
           \/ workers'[e][k].stage = "concluding" /\ outbox'[e].status = "delivered"
    PROVE  LiveInv(e)'
<1>1. k = Len(executions[e])
  BY DEF LiveInv
<1>2. \A j \in DOMAIN workers'[e] : Live(e, j)' => j = k
  BY <1>1 DEF LiveInv, Live
<1>3. QED
  BY <1>1, <1>2 DEF LiveInv, Live

\* Dispatch k of row e takes the value w, and no other dispatch changes.
Replaced(e, k, w) == workers' = [workers EXCEPT ![e] = [workers[e] EXCEPT ![k] = w]]

\* The other rows of such a step, and the other dispatches of its row.
LEMMA OtherWorkers ==
    ASSUME TypeOK, NEW e \in Events, NEW k \in DOMAIN workers[e], NEW w,
           Replaced(e, k, w)
    PROVE  /\ \A f \in Events : f # e => workers'[f] = workers[f]
           /\ DOMAIN workers'[e] = DOMAIN workers[e]
           /\ workers'[e][k] = w
           /\ \A j \in DOMAIN workers[e] : j # k => workers'[e][j] = workers[e][j]
<1>1. workers \in [Events -> Seq(Worker)] /\ k \in 1 .. Len(workers[e])
      /\ workers[e] \in [1 .. Len(workers[e]) -> Worker]
  BY Facts DEF TypeOK
<1>2. /\ workers'[e] = [workers[e] EXCEPT ![k] = w]
      /\ \A f \in Events : f # e => workers'[f] = workers[f]
  BY <1>1 DEF Replaced
<1>3. QED
  BY <1>1, <1>2

\* Steps of a dispatch that touch neither its row nor the audit.
LEMMA QuietDispatch ==
    ASSUME TypeOK, ExclusiveInv, NEW e \in Events, NEW k \in DOMAIN workers[e], NEW w,
           Live(e, k), UNCHANGED <<outbox, executions>>,
           Replaced(e, k, w),
           w.stage = "gone" \/ w.stage = "concluding" \/ workers[e][k].stage # "concluding"
    PROVE  ExclusiveInv'
<1>1. \A f \in Events : OrderKept(f)
  BY SameOrder
<1>2. \A f \in Events : f # e => LiveInv(f)'
  BY OtherWorkers, SameLive DEF ExclusiveInv
<1>3. LiveInv(e)'
  <2>1. LiveInv(e)
    BY DEF ExclusiveInv
  <2>2. \/ Owns(e, k) /\ ~outbox[e].lapsed
        \/ workers[e][k].stage = "concluding" /\ outbox[e].status = "delivered"
    BY <2>1 DEF LiveInv
  <2>3. \/ w.stage = "gone"
        \/ Owns(e, k)' /\ ~outbox'[e].lapsed
        \/ w.stage = "concluding" /\ outbox'[e].status = "delivered"
    BY <2>2 DEF Owns, Final
  <2>4. /\ \A f \in Events : f # e => workers'[f] = workers[f]
        /\ DOMAIN workers'[e] = DOMAIN workers[e]
        /\ workers'[e][k] = w
        /\ \A j \in DOMAIN workers[e] : j # k => workers'[e][j] = workers[e][j]
    BY OtherWorkers
  <2>5. QED
    BY <2>1, <2>3, <2>4, OneDispatch
<1>4. QED
  BY <1>1, <1>2, <1>3, OrderInv DEF ExclusiveInv

LEMMA QuietSteps ==
    ASSUME TypeOK, ExclusiveInv, NEW e \in Events, NEW k \in DOMAIN workers[e],
           \/ AcceptWithoutLock(e, k) \/ AcceptFails(e, k) \/ RejectFails(e, k)
           \/ StoreCheckpoint(e, k) \/ \E o \in Outcomes : EndExecution(e, k, o)
           \/ BeginCompletion(e, k) \/ CompletionFails(e, k)
    PROVE  ExclusiveInv'
<1>1. workers[e][k] \in Worker
  BY Facts
<1>2. CASE AcceptWithoutLock(e, k) \/ AcceptFails(e, k)
  <2>1. PICK s \in Stages : SetStage(e, k, s)
    BY <1>2 DEF AcceptWithoutLock, AcceptFails, Stages
  <2>2. Replaced(e, k, [workers[e][k] EXCEPT !.stage = s])
    BY <2>1 DEF SetStage, Replaced
  <2>3. Live(e, k) /\ workers[e][k].stage # "concluding" /\ UNCHANGED <<outbox, executions>>
    BY <1>2 DEF AcceptWithoutLock, AcceptFails, Live
  <2>4. QED
    BY <2>2, <2>3, QuietDispatch
<1>3. CASE RejectFails(e, k)
  <2>1. Replaced(e, k, Gone)
    BY <1>3 DEF RejectFails, Leave, Replaced
  <2>2. Live(e, k) /\ UNCHANGED <<outbox, executions>>
    BY <1>3 DEF RejectFails, Live
  <2>3. Gone.stage = "gone"
    BY DEF Gone
  <2>4. QED
    BY <2>1, <2>2, <2>3, QuietDispatch
<1>4. CASE StoreCheckpoint(e, k)
  <2>1. \A f \in Events : OrderKept(f) /\ LiveInv(f)'
    BY <1>4, SameOrder, SameLive DEF StoreCheckpoint, ExclusiveInv
  <2>2. QED
    BY <2>1, OrderInv DEF ExclusiveInv
<1>5. ASSUME NEW o \in Outcomes, EndExecution(e, k, o) PROVE ExclusiveInv'
  <2>1. Replaced(e, k, [workers[e][k] EXCEPT !.stage = "concluding", !.outcome = o])
    BY <1>5 DEF EndExecution, Replaced
  <2>2. Live(e, k) /\ workers[e][k].stage # "concluding" /\ UNCHANGED <<outbox, executions>>
    BY <1>5 DEF EndExecution, Executing, Live
  <2>3. QED
    BY <2>1, <2>2, QuietDispatch
<1>6. ASSUME AfterFailedCompletion(e, k), Live(e, k), UNCHANGED <<outbox, executions>>
      PROVE  ExclusiveInv'
  <2>1. CASE workers[e][k].outcome = "succeeded"
    <3> DEFINE w == [workers[e][k] EXCEPT !.stage = "concluding",
                                          !.outcome = "retryable-failure"]
    <3>1. Replaced(e, k, w)
      BY <1>6, <2>1 DEF AfterFailedCompletion, Replaced
    <3>2. w.stage = "concluding"
      BY <1>1 DEF Worker
    <3> HIDE DEF w
    <3>3. QED
      BY <1>6, <3>1, <3>2, QuietDispatch
  <2>2. CASE workers[e][k].outcome # "succeeded"
    <3>1. Replaced(e, k, Gone) /\ Gone.stage = "gone"
      BY <1>6, <2>2 DEF AfterFailedCompletion, Gone, Replaced
    <3>2. QED
      BY <1>6, <3>1, QuietDispatch
  <2>3. QED
    BY <2>1, <2>2
<1>7. CASE BeginCompletion(e, k)
  <2>1. Live(e, k) /\ UNCHANGED <<outbox, executions>>
    BY <1>7 DEF BeginCompletion, Live
  <2>2. CASE Owns(e, k)
    <3>1. SetStage(e, k, "saving")
      BY <1>7, <2>2 DEF BeginCompletion
    <3>2. \A f \in Events : OrderKept(f)
      BY <2>1, SameOrder
    <3>3. Replaced(e, k, [workers[e][k] EXCEPT !.stage = "saving"])
      BY <3>1 DEF SetStage, Replaced
    <3>4. LiveInv(e)' /\ \A f \in Events : f # e => LiveInv(f)'
      <4>1. \A f \in Events : f # e => LiveInv(f)'
        BY <2>1, <3>3, OtherWorkers, SameLive DEF ExclusiveInv
      <4>2. LiveInv(e)
        BY DEF ExclusiveInv
      <4>3. Owns(e, k)' /\ ~outbox'[e].lapsed
        BY <2>1, <2>2, <4>2 DEF LiveInv, Owns, Final
      <4>4. QED
        BY <2>1, <3>3, <4>1, <4>2, <4>3, OtherWorkers, OneDispatch
    <3>5. QED
      BY <3>2, <3>4, OrderInv DEF ExclusiveInv
  <2>3. CASE ~Owns(e, k)
    <3>1. AfterFailedCompletion(e, k)
      BY <1>7, <2>3 DEF BeginCompletion
    <3>2. QED
      BY <1>6, <2>1, <3>1
  <2>4. QED
    BY <2>2, <2>3
<1>8. CASE CompletionFails(e, k)
  BY <1>6, <1>8 DEF CompletionFails, Live
<1>9. QED
  BY <1>2, <1>3, <1>4, <1>5, <1>7, <1>8

\* Acceptance and rejection of a claim.
LEMMA AcceptOrdered ==
    ASSUME TypeOK, ExclusiveInv, NEW e \in Events, NEW k \in DOMAIN workers[e], Accept(e, k)
    PROVE  ExclusiveInv'
<1>1. PICK s \in Stages : SetStage(e, k, s)
  BY DEF Accept, Stages
<1>2. Replaced(e, k, [workers[e][k] EXCEPT !.stage = s])
  BY <1>1 DEF SetStage, Replaced
<1>3. /\ Owns(e, k) /\ Live(e, k)
      /\ outbox'[e] = [outbox[e] EXCEPT !.lockId = 0, !.lapsed = FALSE]
      /\ \A f \in Events : f # e => outbox'[f] = outbox[f] /\ executions'[f] = executions[f]
      /\ Len(executions'[e]) = Len(executions[e]) /\ executions[e] # <<>>
  <2>1. outbox[e] \in Row /\ executions[e] \in Seq(Execution) /\ k \in 1 .. Len(executions[e])
    BY Facts
  <2>2. executions'[e] = [executions[e] EXCEPT ![k].status = "accepted"]
    BY DEF Accept, GrantLease, TypeOK
  <2>3. Len(executions'[e]) = Len(executions[e]) /\ executions[e] # <<>>
    BY <2>1, <2>2
  <2>4. QED
    BY <2>3 DEF Accept, GrantLease, HoldsLock, Live, TypeOK
<1>4. outbox[e] \in Row
  BY Facts
<1>5. /\ outbox'[e].status = outbox[e].status /\ outbox'[e].executionId = outbox[e].executionId
      /\ ~outbox'[e].lapsed
  BY <1>3, <1>4 DEF Row
<1>6. OrderKept(e)
  BY <1>3, <1>5 DEF OrderKept, Owns, Final
<1>7. \A f \in Events : f # e => OrderKept(f) /\ LiveInv(f)'
  BY <1>2, <1>3, SameOrder, SameLive, OtherWorkers DEF ExclusiveInv
<1>8. LiveInv(e)'
  <2>1. LiveInv(e) /\ Owns(e, k)'
    BY <1>3, <1>5 DEF ExclusiveInv, Owns
  <2>2. QED
    BY <1>2, <1>3, <1>5, <2>1, OtherWorkers, OneDispatch
<1>9. QED
  BY <1>6, <1>7, <1>8, OrderInv DEF ExclusiveInv

LEMMA RejectOrdered ==
    ASSUME TypeOK, ExclusiveInv, NEW e \in Events, NEW k \in DOMAIN workers[e], GiveBack(e, k)
    PROVE  ExclusiveInv'
<1>1. Replaced(e, k, Gone) /\ Live(e, k) /\ Gone.stage = "gone"
  BY DEF GiveBack, Leave, Replaced, Live, Gone
<1>2. /\ \A f \in Events : f # e => outbox'[f] = outbox[f] /\ executions'[f] = executions[f]
      /\ Len(executions'[e]) = Len(executions[e]) /\ executions[e] # <<>>
  <2>1. executions[e] \in Seq(Execution) /\ k \in 1 .. Len(executions[e])
    BY Facts
  <2>2. \/ executions' = executions
        \/ \E s \in RowStatuses : executions' = [executions EXCEPT ![e][k].status = s]
    BY DEF GiveBack, RowStatuses
  <2>3. /\ \A f \in Events : f # e => executions'[f] = executions[f]
        /\ Len(executions'[e]) = Len(executions[e]) /\ executions[e] # <<>>
    BY <2>1, <2>2 DEF TypeOK
  <2>4. \A f \in Events : f # e => outbox'[f] = outbox[f]
    BY DEF GiveBack, TypeOK
  <2>5. QED
    BY <2>3, <2>4
<1>3. \/ outbox' = outbox
      \/ outbox[e].status = "processing" /\ outbox'[e].status \in {"pending", "dead"}
  <2>1. CASE HoldsLock(e, k)
    <3>1. outbox[e] \in Row /\ outbox[e].status = "processing"
      BY <2>1, Facts DEF HoldsLock, Owns
    <3>2. outbox'[e].status = IF executions[e][k].attempt >= MaxAttempts THEN "dead" ELSE "pending"
      BY <2>1, <3>1 DEF GiveBack, TypeOK, Row
    <3>3. QED
      BY <3>1, <3>2
  <2>2. CASE ~HoldsLock(e, k)
    BY <2>2 DEF GiveBack
  <2>3. QED
    BY <2>1, <2>2
<1>4. OrderKept(e)
  <2>1. LiveInv(e)
    BY DEF ExclusiveInv
  <2>2. outbox[e].status = "processing"
    BY <1>1, <2>1 DEF LiveInv, Owns, GiveBack
  <2>3. QED
    BY <1>2, <1>3, <2>2 DEF OrderKept, Final
<1>5. \A f \in Events : f # e => OrderKept(f) /\ LiveInv(f)'
  BY <1>1, <1>2, SameOrder, SameLive, OtherWorkers DEF ExclusiveInv
<1>6. LiveInv(e)'
  <2>1. LiveInv(e)
    BY DEF ExclusiveInv
  <2>2. QED
    BY <1>1, <1>2, <2>1, OtherWorkers, OneDispatch
<1>7. QED
  BY <1>4, <1>5, <1>6, OrderInv DEF ExclusiveInv

\* A dispatcher claims a batch: the sweep and the claim take only rows that
\* have no dispatch left, and a claimed row has only final ones ahead of it.
LEMMA TickOrdered ==
    ASSUME TypeOK, ExclusiveInv, NEW p \in Processes, Tick(p)
    PROVE  ExclusiveInv'
<1>1. PICK S \in SUBSET Candidates(SweptOutbox) :
        /\ outbox' = [e \in Events |-> IF e \in S THEN Claimed(e, SweptOutbox[e])
                                                  ELSE SweptOutbox[e]]
        /\ executions' =
             [e \in Events |->
                IF e \in S
                THEN Append(SweptExecutions[e],
                            [attempt |-> outbox[e].attempts + 1, status |-> "claimed"])
                ELSE SweptExecutions[e]]
        /\ workers' =
             [e \in Events |->
                IF e \in S
                THEN Append(workers[e],
                            [process |-> p, stage |-> "claimed", outcome |-> "none"])
                ELSE workers[e]]
  BY DEF Tick
<1>2. ASSUME NEW e \in Events
      PROVE  /\ outbox[e] \in Row /\ SweptOutbox[e] \in Row
             /\ executions[e] \in Seq(Execution) /\ SweptExecutions[e] \in Seq(Execution)
             /\ workers[e] \in Seq(Worker)
             /\ Len(executions[e]) \in Nat /\ Len(workers[e]) = Len(executions[e])
             /\ DOMAIN workers[e] = 1 .. Len(executions[e])
             /\ Len(SweptExecutions[e]) = Len(executions[e])
             /\ LiveInv(e)
  BY Facts, SweepTyped DEF ExclusiveInv
<1>3. \A e \in Events :
         SweptOutbox[e] = IF Exhausted(e)
                          THEN [outbox[e] EXCEPT !.status = "dead", !.executionId = 0,
                                                 !.lockId = 0, !.lapsed = FALSE]
                          ELSE outbox[e]
  BY DEF SweptOutbox
<1>4. \A e \in Events :
         \/ SweptOutbox[e] = outbox[e]
         \/ SweptOutbox[e].status = "dead" /\ Exhausted(e)
  BY <1>2, <1>3 DEF Row
<1>5. ASSUME NEW e \in S
      PROVE  /\ e \in Events
             /\ SweptOutbox[e] = outbox[e]
             /\ \/ outbox[e].status = "pending"
                \/ outbox[e].status = "processing" /\ outbox[e].lapsed
             /\ \A f \in Predecessors(e) : ~Open(SweptOutbox[f])
  BY <1>4 DEF Candidates
<1>6. ASSUME NEW e \in Events, e \notin S
      PROVE  LiveInv(e)' /\ OrderKept(e)
  <2>1. /\ outbox'[e] = SweptOutbox[e] /\ executions'[e] = SweptExecutions[e]
        /\ workers'[e] = workers[e]
    BY <1>1, <1>6
  <2>2. Len(executions'[e]) = Len(executions[e]) /\ (executions'[e] = <<>> <=> executions[e] = <<>>)
    BY <1>2, <2>1
  <2>3. CASE SweptOutbox[e] = outbox[e]
    BY <1>2, <2>1, <2>2, <2>3 DEF LiveInv, Live, Owns, Final, OrderKept
  <2>4. CASE SweptOutbox[e].status = "dead" /\ Exhausted(e)
    <3>1. outbox[e].status = "pending" \/ (outbox[e].status = "processing" /\ outbox[e].lapsed)
      BY <2>4 DEF Exhausted, Lapsed
    <3>2. \A k \in DOMAIN workers[e] : ~Live(e, k)
      BY <1>2, <3>1, NobodyLeft
    <3>3. LiveInv(e)'
      BY <2>1, <3>2 DEF LiveInv, Live
    <3>4. OrderKept(e)
      BY <2>1, <2>2, <2>4, <3>1 DEF OrderKept, Final
    <3>5. QED
      BY <3>3, <3>4
  <2>5. QED
    BY <1>4, <2>3, <2>4
<1>7. ASSUME NEW e \in S
      PROVE  LiveInv(e)' /\ OrderKept(e)
  <2> DEFINE n == Len(executions[e]) + 1
             worker == [process |-> p, stage |-> "claimed", outcome |-> "none"]
  <2>1. /\ e \in Events
        /\ outbox'[e] = Claimed(e, outbox[e])
        /\ workers'[e] = Append(workers[e], worker)
        /\ Len(executions'[e]) = n
    BY <1>1, <1>2, <1>5, AppendProperties
  <2>2. /\ outbox'[e].status = "processing" /\ outbox'[e].executionId = n
        /\ ~outbox'[e].lapsed
    BY <1>2, <2>1 DEF Claimed, Row
  <2>3. \A k \in DOMAIN workers[e] : ~Live(e, k)
    BY <1>2, <1>5, <2>1, NobodyLeft
  <2>4. /\ DOMAIN workers'[e] = 1 .. n
        /\ \A k \in 1 .. Len(executions[e]) : workers'[e][k] = workers[e][k]
    BY <1>2, <2>1
  <2>5. LiveInv(e)'
    <3>1. \A k \in 1 .. n : k = n \/ k \in DOMAIN workers[e]
      BY <1>2, <2>1
    <3>2. \A k \in DOMAIN workers'[e] : Live(e, k)' => k = n
      BY <1>2, <2>1, <2>3, <2>4, <3>1 DEF Live
    <3>3. QED
      BY <2>1, <2>2, <3>2 DEF LiveInv, Owns
  <2>6. \A f \in Predecessors(e) : Final(outbox'[f])
    <3>1. SUFFICES ASSUME NEW f \in Predecessors(e) PROVE Final(outbox'[f])
      OBVIOUS
    <3>2. f \in Events /\ ~Open(SweptOutbox[f]) /\ f \notin S
      BY <1>5 DEF Predecessors, Open
    <3>3. outbox[f].status # "absent"
      BY <1>5, <2>1 DEF ExclusiveInv, QueueInv
    <3>4. SweptOutbox[f].status # "absent"
      BY <1>4, <3>2, <3>3
    <3>5. QED
      BY <1>1, <1>2, <3>2, <3>4 DEF Open, Final, Row, Statuses
  <2>7. OrderKept(e)
    BY <1>5, <2>2, <2>6 DEF OrderKept, Final
  <2>8. QED
    BY <2>5, <2>7
<1>8. QED
  BY <1>6, <1>7, OrderInv DEF ExclusiveInv

LEMMA CrashOrdered ==
    ASSUME TypeOK, ExclusiveInv, NEW p \in Processes, EndTick(p) \/ Crash(p)
    PROVE  ExclusiveInv'
<1>1. \A e \in Events : OrderKept(e)
  BY SameOrder DEF EndTick, Crash
<1>2. ASSUME NEW e \in Events PROVE LiveInv(e)'
  <2>1. CASE EndTick(p)
    BY <2>1, SameLive DEF EndTick, ExclusiveInv
  <2>2. CASE Crash(p)
    <3>1. /\ outbox'[e] = outbox[e] /\ executions'[e] = executions[e]
          /\ DOMAIN workers'[e] = DOMAIN workers[e]
          /\ \A k \in DOMAIN workers[e] :
                workers'[e][k] = IF workers[e][k].process = p THEN Gone ELSE workers[e][k]
      BY <2>2 DEF Crash
    <3>2. \A k \in DOMAIN workers[e] :
             workers'[e][k].stage = "gone" \/ workers'[e][k] = workers[e][k]
      BY <3>1 DEF Gone
    <3>3. LiveInv(e)
      BY DEF ExclusiveInv
    <3>4. QED
      BY <3>1, <3>2, <3>3 DEF LiveInv, Live, Owns, Final
  <2>3. QED
    BY <2>1, <2>2
<1>3. QED
  BY <1>1, <1>2, OrderInv DEF ExclusiveInv

\* A completion: its dispatch leaves, or is about to find the row final; the
\* rows it consumes were pending, so nobody was dispatching them.
LEMMA SaveOrdered ==
    ASSUME TypeOK, ExclusiveInv, NEW e \in Events, NEW k \in DOMAIN workers[e],
           SaveCompletion(e, k)
    PROVE  ExclusiveInv'
<1> DEFINE B == Consumed(e, k)
           Reply == [workers[e][k] EXCEPT !.stage = "concluding",
                                          !.outcome = "retryable-failure"]
<1>1. PICK w \in Worker :
         /\ workers' = [f \in Events |-> IF f = e THEN [workers[e] EXCEPT ![k] = w]
                                         ELSE IF f \in B THEN Append(workers[f], Gone)
                                         ELSE workers[f]]
         /\ w = Gone \/ (w = Reply /\ workers[e][k].outcome = "succeeded")
  BY DEF SaveCompletion
<1>2. ASSUME NEW f \in Events
      PROVE  /\ outbox[f] \in Row /\ executions[f] \in Seq(Execution)
             /\ workers[f] \in Seq(Worker) /\ Len(executions[f]) \in Nat
             /\ DOMAIN workers[f] = 1 .. Len(executions[f])
             /\ Len(workers[f]) = Len(executions[f]) /\ LiveInv(f)
  BY Facts DEF ExclusiveInv
<1>3. Owns(e, k) /\ Live(e, k) /\ k = Len(executions[e])
  BY <1>2 DEF LiveInv, Live, SaveCompletion
<1>4. LiveInv(e)' /\ OrderKept(e)
  <2>1. /\ DOMAIN workers'[e] = DOMAIN workers[e] /\ workers'[e][k] = w
        /\ \A j \in DOMAIN workers[e] : j # k => workers'[e][j] = workers[e][j]
    BY <1>1, <1>2
  <2>2. Len(executions'[e]) = Len(executions[e]) /\ executions[e] # <<>>
    <3>1. executions'[e] = [executions[e] EXCEPT ![k].status = ConcludedStatus(e, k)]
      BY DEF SaveCompletion
    <3>2. QED
      BY <1>2, <1>3, <3>1
  <2>3. outbox'[e] = Concluded(e, k)
    BY DEF SaveCompletion
  <2>4. outbox'[e].status \in {"pending", "delivered", "dead"}
    <3>1. Concluded(e, k) \in Row /\ Concluded(e, k).status # "processing"
      BY ConcludedTyped
    <3>2. outbox[e].status = "processing"
      BY <1>3 DEF Owns
    <3>3. Concluded(e, k).status \in {"pending", "delivered", "dead"}
      BY <1>2 DEF Concluded, Row
    <3>4. QED
      BY <2>3, <3>3
  <2>5. CASE w = Gone
    <3>1. workers'[e][k].stage = "gone"
      BY <2>1, <2>5 DEF Gone
    <3>2. LiveInv(e)'
      BY <1>2, <1>3, <2>1, <2>2, <3>1, OneDispatch
    <3>3. QED
      BY <1>3, <2>2, <2>4, <3>2 DEF OrderKept, Owns, Final
  <2>6. CASE w = Reply /\ workers[e][k].outcome = "succeeded"
    <3>1. workers[e][k] \in Worker
      BY <1>2
    <3>2. workers'[e][k].stage = "concluding"
      BY <2>1, <2>6, <3>1 DEF Worker
    <3>3. outbox'[e].status = "delivered"
      BY <1>2, <2>3, <2>6 DEF Concluded, Row
    <3>4. LiveInv(e)'
      BY <1>2, <1>3, <2>1, <2>2, <3>2, <3>3, OneDispatch DEF Final
    <3>5. QED
      BY <1>3, <2>2, <3>3, <3>4 DEF OrderKept, Owns, Final
  <2>7. QED
    BY <1>1, <2>5, <2>6
<1>5. ASSUME NEW f \in Events, f # e, f \in B
      PROVE  LiveInv(f)' /\ OrderKept(f)
  <2>1. outbox[f].status = "pending"
    BY <1>5 DEF Consumed
  <2>2. \A j \in DOMAIN workers[f] : ~Live(f, j)
    BY <1>2, <2>1, NobodyLeft
  <2>3. workers'[f] = Append(workers[f], Gone)
    BY <1>1, <1>5
  <2>4. outbox'[f].status = "delivered"
    BY <1>2, <1>5 DEF SaveCompletion, Row
  <2>5. \A j \in DOMAIN workers'[f] : workers'[f][j].stage = "gone"
    <3>1. /\ DOMAIN workers'[f] = 1 .. Len(workers[f]) + 1
          /\ \A j \in 1 .. Len(workers[f]) : workers'[f][j] = workers[f][j]
          /\ workers'[f][Len(workers[f]) + 1] = Gone
      BY <1>2, <2>3
    <3>2. \A j \in 1 .. Len(workers[f]) + 1 : j = Len(workers[f]) + 1 \/ j \in DOMAIN workers[f]
      BY <1>2
    <3>3. QED
      BY <1>2, <2>2, <3>1, <3>2 DEF Live, Gone
  <2>6. QED
    BY <2>1, <2>4, <2>5 DEF LiveInv, Live, OrderKept, Final
<1>6. ASSUME NEW f \in Events, f # e, f \notin B
      PROVE  LiveInv(f)' /\ OrderKept(f)
  <2>1. outbox'[f] = outbox[f] /\ executions'[f] = executions[f] /\ workers'[f] = workers[f]
    BY <1>1, <1>6 DEF SaveCompletion
  <2>2. QED
    BY <1>2, <2>1, SameLive, SameOrder
<1>7. QED
  BY <1>4, <1>5, <1>6, OrderInv DEF ExclusiveInv

\* Rows are created, age and fall due; without overruns only the lease of an
\* execution that nobody carries on lapses.
LEMMA RowStepOrdered ==
    ASSUME TypeOK, ExclusiveInv, MaxOverruns = 0, NEW e \in Events,
           \/ \E t \in Topics, c \in Collecting : Enqueue(e, t, c)
           \/ Lapse(e) \/ BackoffEnds(e) \/ Mature(e)
    PROVE  ExclusiveInv'
<1>1. /\ executions' = executions /\ workers' = workers
      /\ \A f \in Events : f # e => outbox'[f] = outbox[f]
  BY DEF Enqueue, Lapse, BackoffEnds, Mature, TypeOK
<1>2. outbox[e] \in Row /\ LiveInv(e)
  BY Facts DEF ExclusiveInv
<1>3. CASE \E t \in Topics, c \in Collecting : Enqueue(e, t, c)
  <2>1. PICK t \in Topics, c \in Collecting : Enqueue(e, t, c)
    BY <1>3
  <2>2. outbox'[e] = [Absent EXCEPT !.status = "pending", !.topic = t, !.collecting = c]
    BY <2>1 DEF Enqueue, TypeOK
  <2>3. outbox[e].status = "absent" /\ outbox'[e].status = "pending"
    BY <2>1, <2>2 DEF Enqueue, Absent
  <2>4. \A k \in DOMAIN workers[e] : ~Live(e, k)
    BY <1>2, <2>3 DEF LiveInv, Owns, Final
  <2>5. LiveInv(e)'
    BY <1>1, <2>4 DEF LiveInv, Live
  <2>6. OrderKept(e)
    BY <1>1, <2>1, <2>3 DEF OrderKept, Final, Enqueue
  <2>7. QED
    BY <1>1, <2>5, <2>6, SameLive, SameOrder, OrderInv DEF ExclusiveInv
<1>4. CASE Lapse(e)
  <2>1. outbox'[e] = [outbox[e] EXCEPT !.lapsed = TRUE] /\ outbox[e].status = "processing"
    BY <1>4 DEF Lapse, TypeOK
  <2>2. Orphan(e)
    BY <1>4 DEF Lapse, TypeOK, Spent
  <2>3. \A k \in DOMAIN workers[e] : ~Live(e, k)
    BY <1>2, <2>1, <2>2 DEF Orphan, LiveInv, Owns, Final
  <2>4. LiveInv(e)'
    BY <1>1, <2>3 DEF LiveInv, Live
  <2>5. OrderKept(e)
    BY <1>1, <1>2, <2>1 DEF OrderKept, Final, Row
  <2>6. QED
    BY <1>1, <2>4, <2>5, SameLive, SameOrder, OrderInv DEF ExclusiveInv
<1>5. CASE BackoffEnds(e) \/ Mature(e)
  <2>1. /\ outbox'[e].status = outbox[e].status
        /\ outbox'[e].executionId = outbox[e].executionId
        /\ outbox'[e].lapsed = outbox[e].lapsed
    <3>1. \/ outbox'[e] = [outbox[e] EXCEPT !.due = TRUE]
          \/ outbox'[e] = [outbox[e] EXCEPT !.age = outbox[e].age + 1]
      BY <1>5 DEF BackoffEnds, Mature, TypeOK
    <3>2. QED
      BY <1>2, <3>1 DEF Row
  <2>2. LiveInv(e)' /\ OrderKept(e)
    BY <1>1, <1>2, <2>1 DEF LiveInv, Live, Owns, Final, OrderKept
  <2>3. QED
    BY <1>1, <2>2, SameLive, SameOrder, OrderInv DEF ExclusiveInv
<1>6. QED
  BY <1>3, <1>4, <1>5

\* An operator settles a dead row, which has no dispatch.
LEMMA ReconcileOrdered ==
    ASSUME TypeOK, ExclusiveInv, NEW e \in Events, NEW sent \in BOOLEAN, Reconcile(e, sent)
    PROVE  ExclusiveInv'
<1>1. MaxReconciliations # 0
  BY BoundsAssumption DEF Reconcile, TypeOK, Spent
<1>2. Reconciled(e) /\ \A f \in Events : f # e => outbox'[f] = outbox[f]
  BY ReconcileEffects DEF Reconcile, TypeOK
<1>3. LiveInv(e)'
  <2>1. \A k \in DOMAIN workers[e] : ~Live(e, k)
    BY <1>2 DEF ExclusiveInv, LiveInv, Owns, Reconciled
  <2>2. QED
    BY <1>2, <2>1 DEF LiveInv, Live, Reconciled
<1>4. \A f \in Events : f # e => LiveInv(f)'
  BY <1>2, SameLive DEF ExclusiveInv, Reconcile
<1>5. QueueInv'
  BY <1>2 DEF ExclusiveInv, QueueInv, Reconciled, Predecessors
<1>6. QED
  BY <1>1, <1>3, <1>4, <1>5 DEF ExclusiveInv, UnlessReopened

LEMMA ExclusiveStep ==
    ASSUME MaxOverruns = 0, TypeOK, ExclusiveInv, [Next]_vars
    PROVE  ExclusiveInv'
<1>1. CASE UNCHANGED vars
  <2>1. \A e \in Events : OrderKept(e) /\ LiveInv(e)'
    BY <1>1, SameOrder, SameLive DEF vars, ExclusiveInv
  <2>2. QED
    BY <2>1, OrderInv DEF ExclusiveInv
<1>2. ASSUME NEW p \in Processes, Tick(p) \/ EndTick(p) \/ Crash(p) PROVE ExclusiveInv'
  BY <1>2, TickOrdered, CrashOrdered
<1>3. ASSUME NEW e \in Events, NEW k \in DOMAIN workers[e], Dispatch(e, k)
      PROVE  ExclusiveInv'
  BY <1>3, AcceptOrdered, RejectOrdered, QuietSteps, SaveOrdered
     DEF Dispatch, Reject, RejectReplyLost
<1>4. ASSUME NEW e \in Events,
             \/ \E t \in Topics, c \in Collecting : Enqueue(e, t, c)
             \/ Lapse(e) \/ BackoffEnds(e) \/ Mature(e)
      PROVE  ExclusiveInv'
  BY <1>4, RowStepOrdered
<1>5. ASSUME NEW e \in Events, NEW sent \in BOOLEAN, Reconcile(e, sent) PROVE ExclusiveInv'
  BY <1>5, ReconcileOrdered
<1>6. QED
  BY <1>1, <1>2, <1>3, <1>4, <1>5 DEF Next

\* Without overruns every step keeps the invariant: a row has at most one
\* dispatch, that of its newest claim, whatever crashes, fails or is reconciled.
THEOREM Exclusive ==
    ASSUME MaxOverruns = 0
    PROVE  Spec => []ExclusiveInv
<1>1. Init => ExclusiveInv
  BY DEF Init, ExclusiveInv, LiveInv, QueueInv, UnlessReopened, InOrder, Absent
<1>2. TypeOK /\ ExclusiveInv /\ [Next]_vars => ExclusiveInv'
  BY ExclusiveStep
<1>3. QED
  BY <1>1, <1>2, TypeCorrect, PTL DEF Spec

\* As long as no lease lapses under a live worker, the rows of a conversation
\* are executed one after another, each by a single dispatch.
THEOREM ExecutedOneByOne ==
    ASSUME MaxOverruns = 0, MaxReconciliations = 0
    PROVE  Spec => []OneRowPerConversation
<1>1. TypeOK /\ ExclusiveInv => OneRowPerConversation
  <2> SUFFICES ASSUME TypeOK, ExclusiveInv, NEW e \in Events, NEW f \in Events,
                      NEW j \in DOMAIN workers[e], NEW k \in DOMAIN workers[f],
                      e[1] = f[1], Executing(e, j), Executing(f, k)
               PROVE  e = f /\ j = k
    BY DEF OneRowPerConversation
  <2>1. /\ Owns(e, j) /\ j = Len(executions[e])
        /\ Owns(f, k) /\ k = Len(executions[f])
    BY DEF ExclusiveInv, LiveInv, Live, Executing
  <2>2. executions[e] # <<>> /\ executions[f] # <<>>
    BY <2>1, Facts
  <2>3. e[2] = f[2]
    <3>1. e[2] \in 1 .. MaxSequence /\ f[2] \in 1 .. MaxSequence
      BY DEF Events
    <3>2. e \notin Predecessors(f) /\ f \notin Predecessors(e)
      BY <2>1, <2>2 DEF ExclusiveInv, UnlessReopened, InOrder, Owns, Final
    <3>3. QED
      BY <3>1, <3>2, BoundsAssumption DEF Predecessors
  <2>4. e = f
    BY <2>3 DEF Events
  <2>5. QED
    BY <2>1, <2>4
<1>2. QED
  BY <1>1, Exclusive, TypeCorrect, PTL

\* Under the same assumptions nobody claims a row before everything ahead of it
\* in its conversation has been concluded.
THEOREM ClaimedInOrder ==
    ASSUME MaxOverruns = 0, MaxReconciliations = 0
    PROVE  Spec => []InOrder
<1>1. ExclusiveInv => InOrder
  BY DEF ExclusiveInv, UnlessReopened
<1>2. QED
  BY <1>1, Exclusive, PTL
-------------------------------------------------------------------------------
(* A row that a completion absorbs is pending, and then has no dispatch: so the *)
(* results about rows that are never absorbed hold of every row.                *)

AllDelivered == \A e \in Events : DeliveredInv(e)

LEMMA AllDeliveredStep ==
    ASSUME TypeOK, ExclusiveInv, \A e \in Events : AuditInv(e), AllDelivered, [Next]_vars
    PROVE  AllDelivered' /\ \A e \in Events : StaysDelivered(e)
<1> SUFFICES ASSUME NEW e \in Events PROVE DeliveredInv(e)' /\ StaysDelivered(e)
  BY DEF AllDelivered
<1>1. ASSUME Absorbed(e), NEW k \in DOMAIN workers[e] PROVE workers[e][k].stage # "saving"
  BY <1>1, NobodyLeft DEF Absorbed, ExclusiveInv, Live
<1>2. QED
  BY <1>1, DeliveredStep DEF AllDelivered

LEMMA AllDeliveredInvariant ==
    ASSUME MaxOverruns = 0
    PROVE  Spec => []AllDelivered
<1> DEFINE A == CheckpointInv /\ \A e \in Events : AuditInv(e)
<1>1. Init => AllDelivered
  BY DEF Init, AllDelivered, DeliveredInv, SucceededOnce, Absent
<1>2. TypeOK /\ ExclusiveInv /\ A /\ AllDelivered /\ [Next]_vars => AllDelivered'
  BY AllDeliveredStep
<1>3. QED
  BY <1>1, <1>2, TypeCorrect, Exclusive, AuditInvariant, PTL DEF Spec

\* As long as no lease lapses under a live worker, every row succeeds at most
\* once, and is delivered exactly when one execution of it (or the one that
\* consumed it) succeeded or an operator confirmed that very row as sent.
THEOREM SucceedsForCause ==
    ASSUME MaxOverruns = 0
    PROVE  Spec => []DeliveredOnce
<1>1. AllDelivered /\ DeliveredForCause => DeliveredOnce
  BY DEF AllDelivered, DeliveredInv, DeliveredOnce, CauseDelivers, Succeeded
<1>2. QED
  BY <1>1, AllDeliveredInvariant, DeliveredHasCause, PTL

\* Under the same assumption a delivered row stays delivered: no late completion,
\* rejection, sweep, claim or reconciliation takes it back.
THEOREM DeliveredForGood ==
    ASSUME MaxOverruns = 0
    PROVE  Spec => DeliveredIsFinal
<1> DEFINE A == CheckpointInv /\ \A e \in Events : AuditInv(e)
<1>1. TypeOK /\ ExclusiveInv /\ A /\ AllDelivered /\ [Next]_vars
         => [\A e \in Events : StaysDelivered(e)]_vars
  BY AllDeliveredStep
<1>2. QED
  BY <1>1, TypeCorrect, Exclusive, AuditInvariant, AllDeliveredInvariant, PTL
     DEF Spec, DeliveredIsFinal
-------------------------------------------------------------------------------
(* The attempts.  Without overruns and reconciliations a row is claimed once    *)
(* per attempt, and only a row in progress has an open audit row: the newest.   *)

InProgress == {"claimed", "accepted"}

CountInv(e) ==
    /\ \A k \in DOMAIN workers[e] :
          Live(e, k) /\ HoldsLock(e, k) => executions[e][k].status = "claimed"
    /\ \A k \in DOMAIN executions[e] : executions[e][k].status \in InProgress =>
          outbox[e].status = "processing" /\ k = Len(executions[e])
    /\ outbox[e].status # "delivered" =>
          /\ outbox[e].attempts = Len(executions[e])
          /\ \A k \in DOMAIN executions[e] :
                k = Len(executions[e]) => executions[e][k].attempt = k
    /\ outbox[e].status = "pending" => Len(executions[e]) < MaxAttempts
    /\ outbox[e].status = "delivered" =>
          /\ Len(executions[e]) \in 1 .. MaxAttempts
          /\ executions[e][Len(executions[e])].attempt >= outbox[e].attempts

LEMMA CountStep ==
    ASSUME MaxReconciliations = 0, TypeOK, ExclusiveInv, NewestClaimOwnsRow,
           [Next]_vars, NEW e \in Events, AuditInv(e), CountInv(e)
    PROVE  CountInv(e)'
<1>0. /\ DOMAIN executions[e] = 1 .. Len(executions[e])
      /\ DOMAIN workers[e] = 1 .. Len(executions[e]) /\ Len(executions[e]) \in Nat
      /\ \A k \in DOMAIN workers[e] :
            workers[e][k] \in Worker /\ executions[e][k] \in Execution
      /\ outbox[e] \in Row /\ outbox[e].attempts \in Nat
      /\ LiveInv(e) /\ MaxAttempts \in Nat \ {0}
  BY Facts, BoundsAssumption DEF Row, ExclusiveInv
<1>n. outbox[e].status = "processing" =>
         /\ Len(executions[e]) > 0 /\ outbox[e].executionId = Len(executions[e])
         /\ executions[e][Len(executions[e])].attempt = outbox[e].attempts
  BY DEF NewestClaimOwnsRow
<1> USE DEF CountInv, InProgress
<1>1. CASE Kept(e)
  BY <1>1 DEF Kept, RowSame, HoldsLock, Owns, Live
<1>2. CASE Created(e)
  <2>1. /\ executions'[e] = <<>> /\ DOMAIN executions[e] = {}
        /\ outbox'[e].status = "pending" /\ outbox'[e].attempts = 0 /\ workers'[e] = workers[e]
    BY <1>0, <1>2 DEF AuditInv, Created
  <2>2. QED
    BY <1>0, <2>1
<1>3. CASE Absorbed(e)
  <2> DEFINE n == Len(executions[e]) + 1
  <2>1. /\ Len(executions'[e]) = n /\ DOMAIN executions'[e] = 1 .. n /\ DOMAIN workers'[e] = 1 .. n
        /\ \A k \in 1 .. n : k = n \/ k \in DOMAIN executions[e]
        /\ outbox[e].status = "pending" /\ outbox'[e].status = "delivered"
        /\ outbox'[e].attempts = outbox[e].attempts
        /\ \A k \in DOMAIN executions[e] : executions'[e][k] = executions[e][k]
        /\ executions'[e][n].status = "succeeded"
        /\ executions'[e][n].attempt = IF outbox[e].attempts = 0 THEN 1 ELSE outbox[e].attempts
    BY <1>0, <1>3 DEF Absorbed
  <2>2. \A k \in DOMAIN executions'[e] : executions'[e][k].status \notin InProgress
    BY <1>0, <2>1
  <2>3. n \in 1 .. MaxAttempts /\ executions'[e][n].attempt >= outbox'[e].attempts
    BY <1>0, <2>1
  <2>4. QED
    BY <2>1, <2>2, <2>3 DEF HoldsLock, Owns
<1>4. CASE Reconciled(e)
  BY <1>4, BoundsAssumption DEF Reconciled, TypeOK, Spent
<1>5. CASE Swept(e)
  <2>1. /\ \A k \in DOMAIN executions[e] :
              /\ executions'[e][k].attempt = executions[e][k].attempt
              /\ executions'[e][k].status \in InProgress =>
                    executions'[e][k] = executions[e][k] /\ ~Lapsed(e)
              /\ executions[e][k].status \in InProgress /\ ~Lapsed(e) =>
                    executions'[e][k] = executions[e][k]
        /\ DOMAIN executions'[e] = DOMAIN executions[e] /\ workers'[e] = workers[e]
        /\ Len(executions'[e]) = Len(executions[e])
    BY <1>5, SweptAudit DEF Swept
  <2>2. CASE Exhausted(e)
    <3>1. /\ outbox[e].status = "pending" \/ Lapsed(e)
          /\ outbox'[e].status = "dead" /\ outbox'[e].attempts = outbox[e].attempts
          /\ outbox[e].status # "delivered"
      BY <1>5, <2>2 DEF Swept, Exhausted, Lapsed
    <3>2. \A k \in DOMAIN executions'[e] : executions'[e][k].status \notin InProgress
      BY <2>1, <3>1
    <3>3. QED
      BY <2>1, <3>1, <3>2 DEF HoldsLock, Owns
  <2>3. CASE ~Exhausted(e)
    <3>1. RowSame(e)
      BY <1>5, <2>3 DEF Swept
    <3>2. ASSUME NEW k \in DOMAIN workers[e], Live(e, k), HoldsLock(e, k)
          PROVE  executions'[e][k].status = "claimed"
      <4>1. executions[e][k].status = "claimed"
        BY <3>2
      <4>2. ~Lapsed(e)
        BY <3>2, NobodyLeft DEF ExclusiveInv, Lapsed
      <4>3. QED
        BY <1>0, <2>1, <4>1, <4>2
    <3>3. QED
      BY <1>0, <2>1, <3>1, <3>2 DEF RowSame, HoldsLock, Owns, Live
  <2>4. QED
    BY <2>2, <2>3
<1>6. CASE Taken(e)
  <2> DEFINE n == Len(executions[e]) + 1
  <2>1. /\ Len(executions'[e]) = n /\ DOMAIN executions'[e] = 1 .. n /\ DOMAIN workers'[e] = 1 .. n
        /\ \A k \in 1 .. n : k = n \/ k \in DOMAIN executions[e]
        /\ executions'[e][n].status = "claimed"
        /\ executions'[e][n].attempt = outbox[e].attempts + 1
        /\ outbox[e].status = "pending" \/ Lapsed(e)
        /\ outbox'[e].status = "processing" /\ outbox'[e].executionId = n
        /\ outbox'[e].attempts = outbox[e].attempts + 1
    BY <1>0, <1>6 DEF Taken
  <2>2. \A k \in DOMAIN executions[e] : executions'[e][k].status \notin InProgress
    BY <1>6, <2>1, SweptAudit DEF Taken
  <2>3. outbox[e].attempts = Len(executions[e])
    BY <2>1 DEF Lapsed
  <2>4. QED
    BY <1>0, <2>1, <2>2, <2>3 DEF HoldsLock, Owns
<1>7. CASE Orphaned(e)
  BY <1>7 DEF Orphaned, RowSame, HoldsLock, Owns, Live
<1>8. ASSUME NEW k \in DOMAIN workers[e], Moved(e, k)
      PROVE  CountInv(e)'
  <2>1. \A j \in DOMAIN workers'[e] : j \in DOMAIN workers[e] /\ (Live(e, j)' => Live(e, j))
    BY <1>8 DEF Moved, Moves, OnlyWorker, Live
  <2>2. QED
    BY <1>8, <2>1 DEF Moved, RowSame, HoldsLock, Owns
<1>9. ASSUME NEW k \in DOMAIN workers[e], Accepted(e, k)
      PROVE  CountInv(e)'
  <2>1. /\ outbox[e].status = "processing" /\ outbox'[e].status = "processing"
        /\ k = Len(executions[e]) /\ outbox'[e].attempts = outbox[e].attempts
        /\ outbox'[e].lockId = 0 /\ 0 \notin DOMAIN workers[e]
    BY <1>0, <1>n, <1>9 DEF Accepted, HoldsLock, Owns
  <2>2. /\ DOMAIN executions'[e] = DOMAIN executions[e]
        /\ Len(executions'[e]) = Len(executions[e])
        /\ DOMAIN workers'[e] = DOMAIN workers[e]
        /\ \A j \in DOMAIN executions[e] :
              /\ executions'[e][j].attempt = executions[e][j].attempt
              /\ j # k => executions'[e][j] = executions[e][j]
    BY <1>9 DEF Accepted, OnlyAudit, OnlyWorker
  <2>3. QED
    BY <1>0, <2>1, <2>2 DEF HoldsLock
<1>10. ASSUME NEW k \in DOMAIN workers[e], Rejected(e, k)
      PROVE  CountInv(e)'
  <2>1. /\ DOMAIN executions'[e] = DOMAIN executions[e]
        /\ Len(executions'[e]) = Len(executions[e])
        /\ DOMAIN workers'[e] = DOMAIN workers[e]
        /\ workers'[e][k].stage = "gone" /\ workers[e][k].stage = "rejecting"
        /\ \A j \in DOMAIN workers[e] : j # k => workers'[e][j] = workers[e][j]
        /\ \A j \in DOMAIN executions[e] :
              /\ executions'[e][j].attempt = executions[e][j].attempt
              /\ j # k => executions'[e][j] = executions[e][j]
        /\ executions'[e][k].status \in InProgress =>
              executions[e][k].status = executions'[e][k].status
              /\ executions[e][k].status # "claimed"
    BY <1>0, <1>10 DEF Rejected, OnlyAudit, OnlyWorker, Failures
  <2>2. CASE HoldsLock(e, k)
    <3>1. outbox[e].status = "processing" /\ k = Len(executions[e])
      BY <1>n, <2>2 DEF HoldsLock, Owns
    <3>2. executions[e][k].status = "claimed" /\ executions[e][k].attempt = k
      BY <1>0, <2>1, <2>2, <3>1 DEF Live
    <3>3. \A j \in DOMAIN executions'[e] : executions'[e][j].status \notin InProgress
      BY <1>0, <2>1, <3>1, <3>2
    <3>4. /\ outbox'[e].attempts = k
          /\ outbox'[e].status = IF k >= MaxAttempts THEN "dead" ELSE "pending"
      BY <1>10, <2>2, <3>2 DEF Rejected
    <3>5. QED
      BY <1>0, <2>1, <3>1, <3>2, <3>3, <3>4 DEF HoldsLock, Owns
  <2>3. CASE ~HoldsLock(e, k)
    <3>1. RowSame(e)
      BY <1>10, <2>3 DEF Rejected
    <3>2. \A j \in DOMAIN workers'[e] :
             Live(e, j)' /\ HoldsLock(e, j)' => executions'[e][j].status = "claimed"
      BY <1>0, <2>1, <3>1 DEF RowSame, HoldsLock, Owns, Live
    <3>3. \A j \in DOMAIN executions'[e] : executions'[e][j].status \in InProgress =>
             outbox'[e].status = "processing" /\ j = Len(executions'[e])
      BY <1>0, <2>1, <3>1 DEF RowSame
    <3>4. /\ outbox'[e].status = outbox[e].status /\ outbox'[e].attempts = outbox[e].attempts
          /\ \A j \in DOMAIN executions[e] : executions'[e][j].attempt = executions[e][j].attempt
      BY <2>1, <3>1 DEF RowSame
    <3>5. QED
      BY <1>0, <2>1, <3>2, <3>3, <3>4
  <2>4. QED
    BY <2>2, <2>3
<1>11. ASSUME NEW k \in DOMAIN workers[e], Saved(e, k)
      PROVE  CountInv(e)'
  <2>1. outbox[e].status = "processing" /\ k = Len(executions[e])
    BY <1>0, <1>11 DEF Saved, LiveInv, Live, Owns
  <2>2. executions[e][k].attempt = k /\ k \in 1 .. MaxAttempts
    BY <1>0, <2>1 DEF Execution
  <2>3. /\ DOMAIN executions'[e] = DOMAIN executions[e]
        /\ Len(executions'[e]) = Len(executions[e])
        /\ executions'[e][k].attempt = k
        /\ executions'[e][k].status = ConcludedStatus(e, k)
        /\ \A j \in DOMAIN executions[e] : j # k => executions'[e][j] = executions[e][j]
    BY <1>11, <2>2 DEF Saved, OnlyAudit
  <2>4. \A j \in DOMAIN executions'[e] : executions'[e][j].status \notin InProgress
    BY <1>0, <1>11, <2>1, <2>3, ConcludedCases
  <2>5. /\ outbox'[e].status \in {"pending", "dead", "delivered"}
        /\ outbox'[e].attempts = k
        /\ outbox'[e].status = "pending" => k < MaxAttempts
    BY <1>11, <2>2, ConcludedCases
  <2>6. QED
    BY <1>0, <2>1, <2>2, <2>3, <2>4, <2>5 DEF HoldsLock, Owns
<1>12. QED
  BY <1>1, <1>2, <1>3, <1>4, <1>5, <1>6, <1>7, <1>8, <1>9, <1>10, <1>11, Effects DEF Effect
LEMMA AuditCounts ==
    ASSUME MaxOverruns = 0, MaxReconciliations = 0
    PROVE  Spec => [](\A e \in Events : CountInv(e))
<1> DEFINE A == CheckpointInv /\ \A e \in Events : AuditInv(e)
           C == \A e \in Events : CountInv(e)
<1>1. Init => C
  BY DEF Init, CountInv, Absent, InProgress
<1>2. TypeOK /\ ExclusiveInv /\ NewestClaimOwnsRow /\ A /\ C /\ [Next]_vars => C'
  BY CountStep
<1>3. QED
  BY <1>1, <1>2, TypeCorrect, Exclusive, NewestClaimOwns, AuditInvariant, PTL DEF Spec

\* As long as no lease lapses under a live worker and no operator re-opens a dead
\* row, the audit tells what became of a row, and how often it was tried.
THEOREM AuditTells ==
    ASSUME MaxOverruns = 0, MaxReconciliations = 0
    PROVE  Spec => []AuditIsTrue
<1> DEFINE C == \A e \in Events : CountInv(e)
<1>1. TypeOK /\ C => AuditIsTrue
  <2> SUFFICES ASSUME TypeOK, C PROVE AuditIsTrue
    OBVIOUS
  <2>1. AuditClosed
    BY DEF AuditClosed, CountInv, InProgress, Final
  <2>2. ASSUME NEW e \in Events
        PROVE  /\ Len(executions[e]) <= MaxAttempts
               /\ executions[e] # <<>> =>
                     executions[e][Len(executions[e])].attempt >= outbox[e].attempts
    <3>1. /\ outbox[e].attempts \in 0 .. MaxAttempts /\ Len(executions[e]) \in Nat
          /\ DOMAIN executions[e] = 1 .. Len(executions[e])
          /\ executions[e] # <<>> => Len(executions[e]) > 0
      BY Facts DEF Row
    <3>2. CASE outbox[e].status = "delivered"
      BY <3>1, <3>2, BoundsAssumption DEF CountInv
    <3>3. CASE outbox[e].status # "delivered"
      <4>1. /\ outbox[e].attempts = Len(executions[e])
            /\ executions[e] # <<>> =>
                  executions[e][Len(executions[e])].attempt = Len(executions[e])
        BY <3>1, <3>3 DEF CountInv
      <4>2. QED
        BY <3>1, <4>1, BoundsAssumption
    <3>4. QED
      BY <3>2, <3>3
  <2>3. QED
    BY <2>1, <2>2 DEF AuditIsTrue, AttemptsAudited
<1>2. QED
  BY <1>1, TypeCorrect, AuditCounts, PTL
-------------------------------------------------------------------------------
(* The outbox implements OrderedDispatch: each step, seen through Phase, is a  *)
(* step of the ordered hand-over of the conversations or changes nothing.      *)

LEMMA PhaseIs ==
    TypeOK => \A e \in Events :
                 /\ Phase[e] = "absent" <=> outbox[e].status = "absent"
                 /\ Phase[e] = "done" <=> Final(outbox[e])
                 /\ Phase[e] = "running" <=> Open(outbox[e]) /\ Handled(e)
                 /\ Phase[e] = "waiting" <=> Open(outbox[e]) /\ ~Handled(e)
                 /\ Phase[e] \in {"absent", "done", "running", "waiting"}
<1> SUFFICES ASSUME TypeOK, NEW e \in Events
    PROVE  /\ Phase[e] = "absent" <=> outbox[e].status = "absent"
           /\ Phase[e] = "done" <=> Final(outbox[e])
           /\ Phase[e] = "running" <=> Open(outbox[e]) /\ Handled(e)
           /\ Phase[e] = "waiting" <=> Open(outbox[e]) /\ ~Handled(e)
           /\ Phase[e] \in {"absent", "done", "running", "waiting"}
  OBVIOUS
<1>1. outbox[e].status \in Statuses
  BY Facts DEF Row
<1>2. Phase[e] = CASE outbox[e].status = "absent" -> "absent"
                   [] Final(outbox[e])            -> "done"
                   [] Open(outbox[e])             -> IF Handled(e) THEN "running" ELSE "waiting"
  BY DEF Phase
<1>3. QED
  BY <1>1, <1>2 DEF Statuses, Final, Open

LEMMA PhaseIsNext ==
    ASSUME TypeOK', NEW e \in Events
    PROVE  /\ Phase'[e] = "absent" <=> outbox'[e].status = "absent"
           /\ Phase'[e] = "done" <=> Final(outbox'[e])
           /\ Phase'[e] = "running" <=> Open(outbox'[e]) /\ Handled(e)'
           /\ Phase'[e] = "waiting" <=> Open(outbox'[e]) /\ ~Handled(e)'
           /\ Phase'[e] \in {"absent", "done", "running", "waiting"}
<1>1. outbox'[e].status \in Statuses
  BY DEF TypeOK, Row
<1>2. Phase'[e] = CASE outbox'[e].status = "absent" -> "absent"
                    [] Final(outbox'[e])            -> "done"
                    [] Open(outbox'[e])             -> IF Handled(e)' THEN "running"
                                                                      ELSE "waiting"
  BY DEF Phase
<1>3. QED
  BY <1>1, <1>2 DEF Statuses, Final, Open

LEMMA PhaseFunctions ==
    /\ Phase = [e \in Events |-> Phase[e]] /\ Phase' = [e \in Events |-> Phase'[e]]
    /\ Ordered!Events = Events
<1> DEFINE F(e) == CASE outbox[e].status = "absent" -> "absent"
                     [] Final(outbox[e])            -> "done"
                     [] Open(outbox[e])             -> IF Handled(e) THEN "running"
                                                                     ELSE "waiting"
           G(e) == F(e)'
<1>a. Phase = [e \in Events |-> F(e)] /\ Phase' = [e \in Events |-> G(e)]
  BY DEF Phase
<1> HIDE DEF F, G
<1>1. Phase = [e \in Events |-> Phase[e]]
  BY <1>a
<1>2. Phase' = [e \in Events |-> Phase'[e]]
  BY <1>a
<1>3. Ordered!Events = Events
  BY DEF Ordered!Events, Events
<1>4. QED
  BY <1>1, <1>2, <1>3

\* The four kinds of steps, and the stutter, from what happens to each row.
LEMMA SamePhases ==
    ASSUME \A f \in Events : Phase'[f] = Phase[f]
    PROVE  UNCHANGED Phase
  BY PhaseFunctions

LEMMA ReleaseStep ==
    ASSUME NEW E \in SUBSET Events,
           \A f \in E : Phase[f] = "running" /\ Phase'[f] = "waiting",
           \A f \in Events \ E : Phase'[f] = Phase[f]
    PROVE  [Ordered!Next]_Phase
<1>1. CASE E = {}
  BY <1>1, SamePhases
<1>2. CASE E # {}
  <2>1. Phase' = [f \in Events |-> IF f \in E THEN "waiting" ELSE Phase[f]]
    BY PhaseFunctions
  <2>2. Ordered!Release(E)
    BY <1>2, <2>1, PhaseFunctions DEF Ordered!Release
  <2>3. QED
    BY <2>2, PhaseFunctions DEF Ordered!Next
<1>3. QED
  BY <1>1, <1>2

LEMMA IsolateStep ==
    ASSUME NEW E \in SUBSET Events,
           \A f \in E : Phase[f] = "waiting" /\ Phase'[f] = "done"
                        /\ \A g \in Predecessors(f) : Phase[g] = "done",
           \A f \in Events \ E : Phase'[f] = Phase[f]
    PROVE  [Ordered!Next]_Phase
<1>1. CASE E = {}
  BY <1>1, SamePhases
<1>2. CASE E # {}
  <2>1. Phase' = [f \in Events |-> IF f \in E THEN "done" ELSE Phase[f]]
    BY PhaseFunctions
  <2>2. Ordered!Isolate(E)
    BY <1>2, <2>1, PhaseFunctions
       DEF Ordered!Isolate, Ordered!Head, Ordered!Before, Predecessors
  <2>3. QED
    BY <2>2, PhaseFunctions DEF Ordered!Next
<1>3. QED
  BY <1>1, <1>2

LEMMA StartStep ==
    ASSUME NEW e \in Events, Phase[e] = "waiting", Phase'[e] = "running",
           \A g \in Predecessors(e) : Phase[g] = "done",
           \A f \in Events : f # e => Phase'[f] = Phase[f]
    PROVE  [Ordered!Next]_Phase
<1>1. Phase' = [Phase EXCEPT ![e] = "running"]
  BY PhaseFunctions
<1>2. Ordered!Start(e)
  BY <1>1, PhaseFunctions DEF Ordered!Start, Ordered!Head, Ordered!Before, Predecessors
<1>3. QED
  BY <1>2, PhaseFunctions DEF Ordered!Next

LEMMA ArriveStep ==
    ASSUME NEW e \in Events, Phase[e] = "absent", Phase'[e] = "waiting",
           \A g \in Predecessors(e) : Phase[g] # "absent",
           \A f \in Events : f # e => Phase'[f] = Phase[f]
    PROVE  [Ordered!Next]_Phase
<1>1. Phase' = [Phase EXCEPT ![e] = "waiting"]
  BY PhaseFunctions
<1>2. Ordered!Arrive(e)
  BY <1>1, PhaseFunctions DEF Ordered!Arrive, Ordered!Before, Predecessors
<1>3. QED
  BY <1>2, PhaseFunctions DEF Ordered!Next

LEMMA FinishStep ==
    ASSUME NEW e \in Events, NEW B \in SUBSET Successors(e),
           Phase[e] = "running", Phase'[e] = "done",
           \A f \in B : Phase[f] = "waiting" /\ Phase'[f] = "done",
           \A f \in Events \ B : f # e => Phase'[f] = Phase[f]
    PROVE  [Ordered!Next]_Phase
<1>1. Phase' = [f \in Events |-> IF f \in B \cup {e} THEN "done" ELSE Phase[f]]
  BY PhaseFunctions
<1>2. Ordered!After(e) = Successors(e)
  BY PhaseFunctions DEF Ordered!After, Successors
<1>3. Ordered!Finish(e, B)
  BY <1>1, <1>2, PhaseFunctions DEF Ordered!Finish
<1>4. QED
  BY <1>2, <1>3, PhaseFunctions DEF Ordered!Next
\* What holds along a behaviour without overruns and without reconciliations.
OrderlyInv ==
    /\ TypeOK /\ ExclusiveInv /\ InOrder
    /\ CheckpointInv
    /\ \A e \in Events : AuditInv(e) /\ CountInv(e)

LEMMA KeptPhase ==
    ASSUME TypeOK, TypeOK', NEW e \in Events, Kept(e)
    PROVE  Phase'[e] = Phase[e]
<1>1. Handled(e)' <=> Handled(e)
  BY DEF Kept, Handled
<1>2. (Open(outbox'[e]) <=> Open(outbox[e])) /\ (Final(outbox'[e]) <=> Final(outbox[e]))
  BY DEF Kept, RowSame, Open, Final
<1>3. outbox'[e].status = outbox[e].status
  BY DEF Kept, RowSame
<1>4. QED
  BY <1>1, <1>2, <1>3, PhaseIs, PhaseIsNext

\* A row that nobody handles any more: it is pending, or its lease is over.
LEMMA Unhandled ==
    ASSUME OrderlyInv, NEW e \in Events, outbox[e].status = "pending" \/ Lapsed(e)
    PROVE  Phase[e] = "waiting" /\ \A k \in DOMAIN workers[e] : workers[e][k].stage = "gone"
<1>1. \A k \in DOMAIN workers[e] : workers[e][k].stage = "gone"
  BY NobodyLeft DEF OrderlyInv, ExclusiveInv, Lapsed, Live
<1>2. QED
  BY <1>1, PhaseIs DEF OrderlyInv, Handled, Open, Lapsed

\* Everything ahead of a row that was claimed, and is not delivered, is done.
LEMMA AtHead ==
    ASSUME OrderlyInv, NEW e \in Events, DOMAIN workers[e] # {}, outbox[e].status # "delivered"
    PROVE  \A g \in Predecessors(e) : Phase[g] = "done"
<1>1. executions[e] # <<>>
  BY Facts DEF OrderlyInv
<1>2. QED
  BY <1>1, PhaseIs DEF OrderlyInv, InOrder, Predecessors

LEMMA TickOrder ==
    ASSUME OrderlyInv, TypeOK', NEW p \in Processes, Tick(p)
    PROVE  [Ordered!Next]_Phase
<1> USE DEF OrderlyInv
<1>1. ASSUME NEW e \in Events, Exhausted(e), Swept(e)
      PROVE  /\ Phase[e] = "waiting" /\ Phase'[e] = "done"
             /\ \A g \in Predecessors(e) : Phase[g] = "done"
  <2>1. outbox[e].status = "pending" \/ Lapsed(e)
    BY <1>1 DEF Exhausted
  <2>2. outbox[e].attempts = Len(executions[e]) /\ outbox[e].status # "delivered"
    BY <2>1 DEF CountInv, Lapsed
  <2>3. DOMAIN workers[e] # {}
    BY <1>1, <2>2, Facts, BoundsAssumption DEF Exhausted
  <2>4. Phase'[e] = "done"
    BY <1>1, PhaseIsNext DEF Swept, Final
  <2>5. QED
    BY <2>1, <2>2, <2>3, <2>4, Unhandled, AtHead
<1>2. ASSUME NEW e \in Events, ~Exhausted(e), Swept(e)
      PROVE  Phase'[e] = Phase[e]
  <2>1. Handled(e)' <=> Handled(e)
    BY <1>2 DEF Swept, Handled
  <2>2. outbox'[e].status = outbox[e].status
    BY <1>2 DEF Swept, RowSame
  <2>3. QED
    BY <2>1, <2>2, PhaseIs, PhaseIsNext DEF Open, Final
<1>3. ASSUME NEW e \in Events, Taken(e)
      PROVE  Phase'[e] = Phase[e] /\ ~Exhausted(e)
  <2> DEFINE n == Len(executions[e]) + 1
  <2>1. /\ outbox[e].status = "pending" \/ Lapsed(e)
        /\ outbox'[e].status = "processing" /\ ~Exhausted(e)
        /\ DOMAIN workers'[e] = 1 .. n /\ workers'[e][n].stage = "claimed"
        /\ \A k \in DOMAIN workers[e] : workers'[e][k] = workers[e][k]
    BY <1>3 DEF Taken
  <2>2. Len(executions[e]) \in Nat /\ DOMAIN workers[e] = 1 .. Len(executions[e])
    BY Facts
  <2>3. \A k \in 1 .. n : k = n \/ k \in DOMAIN workers[e]
    BY <2>2
  <2>4. ~Handled(e)'
    BY <2>1, <2>3, Unhandled DEF Handled
  <2>5. QED
    BY <2>1, <2>4, Unhandled, PhaseIsNext DEF Open
<1> DEFINE E == {e \in Events : Exhausted(e)}
<1>4. \A f \in E : Phase[f] = "waiting" /\ Phase'[f] = "done"
                   /\ \A g \in Predecessors(f) : Phase[g] = "done"
  BY <1>1, <1>3, TickEffects
<1>5. \A f \in Events \ E : Phase'[f] = Phase[f]
  BY <1>2, <1>3, TickEffects
<1>6. QED
  BY <1>4, <1>5, IsolateStep

LEMMA CrashOrder ==
    ASSUME OrderlyInv, TypeOK', NEW p \in Processes, EndTick(p) \/ Crash(p)
    PROVE  [Ordered!Next]_Phase
<1> DEFINE E == {e \in Events : Phase[e] = "running" /\ Phase'[e] = "waiting"}
<1>1. ASSUME NEW e \in Events, Orphaned(e)
      PROVE  Phase'[e] = Phase[e] \/ e \in E
  <2>1. Handled(e)' => Handled(e)
    BY <1>1 DEF Orphaned, Handled
  <2>2. outbox'[e].status = outbox[e].status
    BY <1>1 DEF Orphaned, RowSame
  <2>3. QED
    BY <2>1, <2>2, PhaseIs, PhaseIsNext DEF OrderlyInv, Open, Final
<1>2. \A f \in Events \ E : Phase'[f] = Phase[f]
  BY <1>1, CrashEffects, KeptPhase DEF OrderlyInv
<1>3. E \in SUBSET Events /\ \A f \in E : Phase[f] = "running" /\ Phase'[f] = "waiting"
  OBVIOUS
<1> HIDE DEF E
<1>4. QED
  BY <1>2, <1>3, ReleaseStep

\* A dispatch whose row is open is the only one of the row.
LEMMA OnlyHandler ==
    ASSUME OrderlyInv, NEW e \in Events, NEW k \in DOMAIN workers[e], Live(e, k)
    PROVE  /\ \A j \in DOMAIN workers[e] : j # k => workers[e][j].stage = "gone"
           /\ Handled(e) <=> workers[e][k].stage \in {"executing", "concluding", "saving"}
           /\ \/ outbox[e].status = "processing" /\ Owns(e, k)
              \/ outbox[e].status = "delivered" /\ workers[e][k].stage = "concluding"
<1>1. LiveInv(e)
  BY DEF OrderlyInv, ExclusiveInv
<1>2. \A j \in DOMAIN workers[e] : j # k => workers[e][j].stage = "gone"
  BY <1>1 DEF LiveInv, Live
<1>3. Handled(e) <=> workers[e][k].stage \in {"executing", "concluding", "saving"}
  BY <1>2 DEF Handled
<1>4. QED
  BY <1>1, <1>2, <1>3 DEF LiveInv, Owns

LEMMA OneHandler ==
    ASSUME NEW e \in Events, NEW k \in DOMAIN workers[e], OnlyWorker(e, k),
           \A j \in DOMAIN workers[e] : j # k => workers[e][j].stage = "gone"
    PROVE  Handled(e)' <=> workers'[e][k].stage \in {"executing", "concluding", "saving"}
  BY DEF OnlyWorker, Handled

LEMMA DispatchOrder ==
    ASSUME OrderlyInv, TypeOK', NEW e \in Events, NEW k \in DOMAIN workers[e], Dispatch(e, k)
    PROVE  [Ordered!Next]_Phase
<1> USE DEF OrderlyInv
<1> DEFINE Others == \A f \in Events : f # e => Phase'[f] = Phase[f]
<1>1. ASSUME Accepted(e, k), \A f \in Events : f # e => Kept(f) PROVE [Ordered!Next]_Phase
  <2>1. Others
    BY <1>1, KeptPhase
  <2>2. /\ Live(e, k) /\ workers[e][k].stage = "claimed"
        /\ outbox[e].status = "processing" /\ outbox'[e].status = "processing"
        /\ workers'[e][k].stage \in {"executing", "rejecting"}
    BY <1>1 DEF Accepted, Live, HoldsLock, Owns
  <2>3. Handled(e)' <=> workers'[e][k].stage \in {"executing", "concluding", "saving"}
    BY <1>1, <2>2, OnlyHandler, OneHandler DEF Accepted
  <2>4. Phase[e] = "waiting"
    BY <2>2, OnlyHandler, PhaseIs DEF Open
  <2>5. CASE workers'[e][k].stage = "executing"
    <3>1. Phase'[e] = "running"
      BY <2>2, <2>3, <2>5, PhaseIsNext DEF Open
    <3>2. QED
      BY <2>1, <2>2, <2>4, <3>1, AtHead, StartStep
  <2>6. CASE workers'[e][k].stage = "rejecting"
    <3>1. Phase'[e] = "waiting"
      BY <2>2, <2>3, <2>6, PhaseIsNext DEF Open
    <3>2. QED
      BY <2>1, <2>4, <3>1, SamePhases
  <2>7. QED
    BY <2>2, <2>5, <2>6
<1>2. ASSUME Rejected(e, k), \A f \in Events : f # e => Kept(f) PROVE [Ordered!Next]_Phase
  <2>1. Others
    BY <1>2, KeptPhase
  <2>2. Live(e, k) /\ workers[e][k].stage = "rejecting" /\ workers'[e][k].stage = "gone"
    BY <1>2 DEF Rejected, Live
  <2>3. ~Handled(e)'
    BY <1>2, <2>2, OnlyHandler, OneHandler DEF Rejected
  <2>4. Phase[e] = "waiting" /\ outbox[e].status = "processing"
    BY <2>2, OnlyHandler, PhaseIs DEF Open
  <2>5. outbox'[e].status \in {"dead", "pending", "processing"}
    BY <1>2, <2>4 DEF Rejected, RowSame
  <2>6. CASE outbox'[e].status = "dead"
    <3>1. Phase'[e] = "done"
      BY <2>6, PhaseIsNext DEF Final
    <3>2. \A g \in Predecessors(e) : Phase[g] = "done"
      BY <2>4, AtHead
    <3>3. {e} \in SUBSET Events /\ \A f \in Events \ {e} : Phase'[f] = Phase[f]
      BY <2>1
    <3>4. QED
      BY <2>4, <3>1, <3>2, <3>3, IsolateStep
  <2>7. CASE outbox'[e].status # "dead"
    <3>1. Phase'[e] = "waiting"
      BY <2>3, <2>5, <2>7, PhaseIsNext DEF Open
    <3>2. QED
      BY <2>1, <2>4, <3>1, SamePhases
  <2>8. QED
    BY <2>6, <2>7
<1>3. ASSUME Moved(e, k), \A f \in Events : f # e => Kept(f) PROVE [Ordered!Next]_Phase
  <2>1. Others
    BY <1>3, KeptPhase
  <2>2. Live(e, k) /\ outbox'[e].status = outbox[e].status
        /\ <<workers[e][k].stage, workers'[e][k].stage>> \in Moves
    BY <1>3 DEF Moved, Moves, Live, RowSame
  <2>3. /\ Handled(e)' <=> workers'[e][k].stage \in {"executing", "concluding", "saving"}
        /\ Handled(e) <=> workers[e][k].stage \in {"executing", "concluding", "saving"}
    BY <1>3, <2>2, OnlyHandler, OneHandler DEF Moved
  <2>4. CASE outbox[e].status = "delivered"
    <3>1. Phase'[e] = Phase[e]
      BY <2>2, <2>4, PhaseIs, PhaseIsNext DEF Final
    <3>2. QED
      BY <2>1, <3>1, SamePhases
  <2>5. CASE outbox[e].status = "processing"
    <3>1. /\ Phase[e] = IF Handled(e) THEN "running" ELSE "waiting"
          /\ Phase'[e] = IF Handled(e)' THEN "running" ELSE "waiting"
      BY <2>2, <2>5, PhaseIs, PhaseIsNext DEF Open
    <3>2. CASE Handled(e)' /\ ~Handled(e)
      <4>1. \A g \in Predecessors(e) : Phase[g] = "done"
        BY <2>5, AtHead
      <4>2. QED
        BY <2>1, <3>1, <3>2, <4>1, StartStep
    <3>3. CASE ~Handled(e)' /\ Handled(e)
      <4>1. {e} \in SUBSET Events /\ \A f \in Events \ {e} : Phase'[f] = Phase[f]
        BY <2>1
      <4>2. QED
        BY <3>1, <3>3, <4>1, ReleaseStep
    <3>4. CASE Handled(e)' <=> Handled(e)
      BY <2>1, <3>1, <3>4, SamePhases
    <3>5. QED
      BY <3>2, <3>3, <3>4
  <2>6. QED
    BY <2>2, <2>4, <2>5, OnlyHandler
<1>4. ASSUME \A f \in Events : Kept(f) PROVE [Ordered!Next]_Phase
  BY <1>4, KeptPhase, SamePhases
<1>5. CASE SaveCompletion(e, k)
  <2> DEFINE B == Consumed(e, k)
  <2>1. Saved(e, k) /\ \A f \in Events \ {e} : f \notin B => Kept(f)
    BY <1>5, SaveEffects
  <2>2. Live(e, k) /\ workers[e][k].stage = "saving"
    BY <1>5 DEF SaveCompletion, Live
  <2>3. Phase[e] = "running"
    BY <2>2, OnlyHandler, PhaseIs DEF Open
  <2>4. B \in SUBSET Successors(e)
    <3>1. ASSUME NEW f \in B PROVE f \in Successors(e)
      <4>1. f \in Events /\ f # e /\ f[1] = e[1] /\ f[2] \in checkpoint[e]
        BY DEF Consumed
      <4>2. f[2] >= e[2] /\ f[2] # e[2] /\ f[2] \in Int /\ e[2] \in Int
        BY <4>1 DEF CheckpointInv, Events
      <4>3. QED
        BY <4>1, <4>2 DEF Successors
    <3>2. QED
      BY <3>1
  <2>5. \A f \in B : f # e /\ f \in Events /\ outbox[f].status = "pending" /\ Absorbed(f)
    BY <1>5, SaveEffects DEF Consumed
  <2>6. \A f \in B : Phase[f] = "waiting" /\ Phase'[f] = "done"
    BY <2>5, Unhandled, PhaseIsNext DEF Absorbed, Final
  <2>7. \A f \in Events \ B : f # e => Phase'[f] = Phase[f]
    BY <2>1, KeptPhase
  <2>8. CASE outbox'[e].status = "pending"
    <3>1. workers[e][k].outcome # "succeeded"
      BY <2>1, <2>8, ConcludedCases
    <3>2. B = {}
      BY <3>1 DEF Consumed
    <3>3. workers'[e][k].stage = "gone"
      BY <2>1, <3>1 DEF Saved
    <3>4. ~Handled(e)'
      BY <2>1, <2>2, <3>3, OnlyHandler, OneHandler DEF Saved
    <3>5. Phase'[e] = "waiting"
      BY <2>8, <3>4, PhaseIsNext DEF Open
    <3>6. {e} \in SUBSET Events /\ \A f \in Events \ {e} : Phase'[f] = Phase[f]
      BY <2>7, <3>2
    <3>7. QED
      BY <2>3, <3>5, <3>6, ReleaseStep
  <2>9. CASE outbox'[e].status # "pending"
    <3>1. outbox'[e].status \in {"dead", "delivered"}
      BY <2>1, <2>9, ConcludedCases
    <3>2. Phase'[e] = "done"
      BY <3>1, PhaseIsNext DEF Final
    <3>3. QED
      BY <2>3, <2>4, <2>6, <2>7, <3>2, FinishStep
  <2>10. QED
    BY <2>8, <2>9
<1>6. QED
  BY <1>1, <1>2, <1>3, <1>4, <1>5, AcceptEffects, RejectEffects, MoveEffects
     DEF Dispatch, Reject, RejectReplyLost

LEMMA RowStepOrder ==
    ASSUME OrderlyInv, TypeOK', NEW e \in Events,
           \/ \E t \in Topics, c \in Collecting : Enqueue(e, t, c)
           \/ Lapse(e) \/ BackoffEnds(e) \/ Mature(e)
    PROVE  [Ordered!Next]_Phase
<1> USE DEF OrderlyInv
<1>1. \A f \in Events : f # e => Kept(f)
  BY DEF Enqueue, Lapse, BackoffEnds, Mature, Kept, RowSame, TypeOK
<1>2. CASE Kept(e)
  BY <1>1, <1>2, KeptPhase, SamePhases
<1>3. CASE Created(e)
  <2>1. DOMAIN workers[e] = {} /\ workers'[e] = workers[e] /\ outbox'[e].status = "pending"
        /\ outbox[e].status = "absent"
    BY <1>3, Facts DEF Created, AuditInv
  <2>2. Phase[e] = "absent" /\ Phase'[e] = "waiting"
    BY <2>1, PhaseIs, PhaseIsNext DEF Open, Handled
  <2>3. \A g \in Predecessors(e) : Phase[g] # "absent"
    <3>1. \E t \in Topics, c \in Collecting : Enqueue(e, t, c)
      BY <2>1 DEF Lapse, BackoffEnds, Mature
    <3>2. QED
      BY <3>1, PhaseIs DEF Enqueue, Predecessors
  <2>4. QED
    BY <1>1, <2>2, <2>3, KeptPhase, ArriveStep
<1>4. QED
  BY <1>2, <1>3, RowStepEffects

\* The outbox hands the events of a conversation over in their order, one at a
\* time, and never again once they are concluded.
THEOREM ImplementsOrder ==
    ASSUME MaxOverruns = 0, MaxReconciliations = 0
    PROVE  Spec => RefinesOrder
<1>1. Init => Ordered!Init
  <2> SUFFICES ASSUME Init PROVE Ordered!Init
    OBVIOUS
  <2>1. \A e \in Events : Phase[e] = "absent"
    BY InitTyped, PhaseIs DEF Init, Absent
  <2>2. QED
    BY <2>1, PhaseFunctions DEF Ordered!Init
<1>2. OrderlyInv /\ TypeOK' /\ [Next]_vars => [Ordered!Next]_Phase
  <2> SUFFICES ASSUME OrderlyInv, TypeOK', [Next]_vars PROVE [Ordered!Next]_Phase
    OBVIOUS
  <2>1. CASE UNCHANGED vars
    <3>1. \A e \in Events : Kept(e)
      BY <2>1 DEF vars, Kept, RowSame
    <3>2. QED
      BY <3>1, KeptPhase, SamePhases DEF OrderlyInv
  <2>2. ASSUME NEW p \in Processes, Tick(p) \/ EndTick(p) \/ Crash(p)
        PROVE  [Ordered!Next]_Phase
    BY <2>2, TickOrder, CrashOrder
  <2>3. ASSUME NEW e \in Events, NEW k \in DOMAIN workers[e], Dispatch(e, k)
        PROVE  [Ordered!Next]_Phase
    BY <2>3, DispatchOrder
  <2>4. ASSUME NEW e \in Events,
               \/ \E t \in Topics, c \in Collecting : Enqueue(e, t, c)
               \/ Lapse(e) \/ BackoffEnds(e) \/ Mature(e)
        PROVE  [Ordered!Next]_Phase
    BY <2>4, RowStepOrder
  <2>5. ASSUME NEW e \in Events, NEW sent \in BOOLEAN, Reconcile(e, sent) PROVE FALSE
    BY <2>5, BoundsAssumption DEF Reconcile, OrderlyInv, TypeOK, Spent
  <2>6. QED
    BY <2>1, <2>2, <2>3, <2>4, <2>5 DEF Next
<1> DEFINE A == CheckpointInv /\ \A e \in Events : AuditInv(e)
           C == \A e \in Events : CountInv(e)
<1>3. TypeOK /\ ExclusiveInv /\ A /\ C => OrderlyInv
  BY DEF OrderlyInv, ExclusiveInv, UnlessReopened
<1>4. Spec => []C
  BY AuditCounts
<1>5. QED
  BY <1>1, <1>2, <1>3, <1>4, TypeCorrect, Exclusive, AuditInvariant, PTL
     DEF Spec, RefinesOrder, Ordered!Spec
-------------------------------------------------------------------------------
(* What the order promises, and with it the outbox.                        *)

\* Every phase is one of the four.
LEMMA OrderedTypes == Ordered!Spec => []Ordered!TypeOK
<1>1. Ordered!Init => Ordered!TypeOK
  BY DEF Ordered!Init, Ordered!TypeOK, Ordered!Phases
<1>2. Ordered!TypeOK /\ [Ordered!Next]_Phase => Ordered!TypeOK'
  BY DEF Ordered!TypeOK, Ordered!Next, Ordered!Arrive, Ordered!Start, Ordered!Release,
         Ordered!Finish, Ordered!Isolate, Ordered!Phases
<1>3. QED
  BY <1>1, <1>2, PTL DEF Ordered!Spec

\* What has been concluded is not handled a second time.
THEOREM ConcludedForGood == Ordered!Spec => Ordered!DoneIsFinal
<1>1. Ordered!TypeOK /\ [Ordered!Next]_Phase =>
        [\A e \in Ordered!Events : Phase[e] = "done" => Phase'[e] = "done"]_Phase
  BY DEF Ordered!TypeOK, Ordered!Next, Ordered!Arrive, Ordered!Start, Ordered!Release,
         Ordered!Finish, Ordered!Isolate
<1>2. QED
  BY <1>1, OrderedTypes, PTL DEF Ordered!Spec, Ordered!DoneIsFinal

\* An event that is being handled has only concluded events ahead of it.
THEOREM NothingOvertaken == Ordered!Spec => []Ordered!NoOvertaking
<1>1. Ordered!Init => Ordered!NoOvertaking
  BY DEF Ordered!Init, Ordered!NoOvertaking
<1>2. Ordered!TypeOK /\ Ordered!NoOvertaking /\ [Ordered!Next]_Phase
        => Ordered!NoOvertaking'
  <2> SUFFICES ASSUME Ordered!TypeOK, Ordered!NoOvertaking, [Ordered!Next]_Phase,
                      NEW e \in Ordered!Events, Phase'[e] = "running",
                      NEW f \in Ordered!Before(e)
               PROVE  Phase'[f] = "done"
    BY DEF Ordered!NoOvertaking, Ordered!Head, Ordered!Before
  <2>1. f \in Ordered!Events
    BY DEF Ordered!Before
  <2>2. Phase[f] = "done" => Phase'[f] = "done"
    BY <2>1 DEF Ordered!TypeOK, Ordered!Next, Ordered!Arrive, Ordered!Start,
                Ordered!Release, Ordered!Finish, Ordered!Isolate
  <2>3. CASE Phase[e] = "running"
    BY <2>2, <2>3 DEF Ordered!NoOvertaking, Ordered!Head
  <2>4. CASE Phase[e] # "running"
    <3>1. Ordered!Start(e)
      BY <2>4 DEF Ordered!TypeOK, Ordered!Next, Ordered!Arrive, Ordered!Start,
                  Ordered!Release, Ordered!Finish, Ordered!Isolate
    <3>2. QED
      BY <2>2, <3>1 DEF Ordered!Start, Ordered!Head
  <2>5. QED
    BY <2>3, <2>4
<1>3. QED
  BY <1>1, <1>2, OrderedTypes, PTL DEF Ordered!Spec

\* The events of a conversation are handled one at a time.
THEOREM HandledOneAtATime == Ordered!Spec => []Ordered!OneAtATime
<1>1. Ordered!NoOvertaking => Ordered!OneAtATime
  <2> SUFFICES ASSUME Ordered!NoOvertaking,
                      NEW e \in Ordered!Events, NEW f \in Ordered!Events, e[1] = f[1],
                      Phase[e] = "running", Phase[f] = "running"
               PROVE  e = f
    BY DEF Ordered!OneAtATime
  <2>1. e \notin Ordered!Before(f) /\ f \notin Ordered!Before(e)
    BY DEF Ordered!NoOvertaking, Ordered!Head
  <2>2. e[2] \in Nat /\ f[2] \in Nat /\ e = <<e[1], e[2]>> /\ f = <<f[1], f[2]>>
    BY DEF Ordered!Events
  <2>3. e[2] = f[2]
    BY <2>1, <2>2 DEF Ordered!Before
  <2>4. QED
    BY <2>2, <2>3
<1>2. QED
  BY <1>1, NothingOvertaken, PTL

\* So the outbox handles the events of a conversation one at a time, none ahead of
\* one that came before it, and none after it was concluded.
THEOREM OutboxKeepsTheOrder ==
    ASSUME MaxOverruns = 0, MaxReconciliations = 0
    PROVE  Spec => /\ []Ordered!OneAtATime
                   /\ []Ordered!NoOvertaking
                   /\ Ordered!DoneIsFinal
<1>1. Spec => Ordered!Spec
  BY ImplementsOrder DEF RefinesOrder
<1>2. QED
  BY <1>1, HandledOneAtATime, NothingOvertaken, ConcludedForGood
===============================================================================
