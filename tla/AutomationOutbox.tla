--------------------------- MODULE AutomationOutbox ---------------------------
(***************************************************************************)
(* The WhatsApp automation outbox: the table integration_outbox, its audit *)
(* table whatsapp_automation_executions, and the dispatchers that run in   *)
(* every API process.                                                      *)
(*                                                                         *)
(* A row belongs to a conversation and has a sequence number in it.  A     *)
(* dispatcher tick claims rows (claim), accepts each one (markAccepted),   *)
(* executes it and concludes it (completeOutboxExecution); an error before *)
(* acceptance returns the row (rejectBeforeAcceptance).  The claim is      *)
(* protected by a lock that becomes stale, the execution by a lease that   *)
(* runs out; whoever ticks next takes such a row over.                     *)
(*                                                                         *)
(* An execution is identified by a UUID in the code.  Identifiers are only *)
(* ever compared within one row, so here the n-th claim of a row has       *)
(* identifier n, and 0 stands for NULL.                                    *)
(*                                                                         *)
(* The clock is abstracted to three flags of a row: "due" (available_at is *)
(* past), "lapsed" (locked_at is stale, or execution_lease_until is past)  *)
(* and "age" (which of the two collection windows created_at has left).    *)
(***************************************************************************)
EXTENDS Integers, Sequences, FiniteSets

CONSTANTS
    Conversations,      \* aggregates of the outbox
    Processes,          \* API processes, each with a dispatcher
    MaxSequence,        \* bound: rows created per conversation
    MaxAttempts,        \* max_attempts of a row
    BatchSize,          \* WHATSAPP_API_DISPATCH_BATCH_SIZE
    MaxOverruns,        \* bound: leases that lapse under a worker still alive
    MaxFaults,          \* bound: process crashes and failed database calls
    MaxReconciliations  \* bound: dead rows an operator reconciles

ASSUME BoundsAssumption ==
    /\ MaxSequence \in Nat /\ MaxAttempts \in Nat \ {0} /\ BatchSize \in Nat \ {0}
    /\ MaxOverruns \in Nat /\ MaxFaults \in Nat /\ MaxReconciliations \in Nat

VARIABLES
    outbox,      \* [Events -> Row]
    executions,  \* [Events -> Seq(Execution)]: the audit rows, by identifier
    workers,     \* [Events -> Seq(Worker)]: who handles each execution
    checkpoint,  \* [Events -> SUBSET sequences]: stored batch, {} before it exists
    running,     \* [Processes -> SUBSET dispatches]: what a running tick awaits
    spent        \* how much of each bound has been used

vars == <<outbox, executions, workers, checkpoint, running, spent>>
-------------------------------------------------------------------------------
Events == Conversations \X (1 .. MaxSequence)

Persisted    == "inbound.persisted"
Notification == "inbound.human-notification"
Requested    == "outbound.requested"
Inbound      == {Persisted, Notification}
Topics       == Inbound \cup {Requested}

\* Whether the payload carries departmentContactOption, and a closing keyword.
Collecting == {"no", "open", "closing"}

\* created_at against the 2 s debounce and the 120 s department collection.
Ages == <<"new", "debounced", "collected">>

Statuses     == {"absent", "pending", "processing", "delivered", "dead"}
RowStatuses  == {"claimed", "accepted", "succeeded", "expired",
                 "retryable-failure", "terminal-failure"}
Failures     == {"retryable-failure", "terminal-failure"}
Outcomes     == {"succeeded"} \cup Failures
Stages       == {"claimed", "rejecting", "executing", "concluding", "saving", "gone"}

Row == [status : Statuses, topic : Topics, collecting : Collecting,
        attempts : 0 .. MaxAttempts, due : BOOLEAN, age : 1 .. 3,
        executionId : Nat, lockId : Nat, lapsed : BOOLEAN,
        reconciled : BOOLEAN]  \* integration_inbox: an operator confirmed it was sent

Execution == [attempt : 1 .. MaxAttempts, status : RowStatuses]
Worker    == {w \in [process : Processes \cup {"none"}, stage : Stages,
                     outcome : Outcomes \cup {"none"}] :
                w.stage \in {"concluding", "saving"} => w.outcome \in Outcomes}
Spent     == [overruns : 0 .. MaxOverruns, faults : 0 .. MaxFaults,
              reconciliations : 0 .. MaxReconciliations]

Gone   == [process |-> "none", stage |-> "gone", outcome |-> "none"]
Absent == [status |-> "absent", topic |-> Requested, collecting |-> "no",
           attempts |-> 0, due |-> TRUE, age |-> 1,
           executionId |-> 0, lockId |-> 0, lapsed |-> FALSE, reconciled |-> FALSE]

Init ==
    /\ outbox = [e \in Events |-> Absent]
    /\ executions = [e \in Events |-> <<>>]
    /\ workers = [e \in Events |-> <<>>]
    /\ checkpoint = [e \in Events |-> {}]
    /\ running = [p \in Processes |-> {}]
    /\ spent = [overruns |-> 0, faults |-> 0, reconciliations |-> 0]
-------------------------------------------------------------------------------
Predecessors(e) == {f \in Events : f[1] = e[1] /\ f[2] < e[2]}
Successors(e)   == {f \in Events : f[1] = e[1] /\ f[2] > e[2]}

Open(row)  == row.status \in {"pending", "processing"}
Final(row) == row.status \in {"delivered", "dead"}

Executing(e, k) == workers[e][k].stage = "executing"
Live(e, k)      == workers[e][k].stage # "gone"

\* Slip: the row of a completion is looked up by its execution alone.
OwnsIgnoringStatus(e, k) == outbox[e].executionId = k

\* Execution k still holds the row, and still holds its claim lock.
Owns(e, k)      == outbox[e].status = "processing" /\ outbox[e].executionId = k
HoldsLock(e, k) == Owns(e, k) /\ outbox[e].lockId = k

\* Nobody is left to conclude the execution that the row is waiting for.
Orphan(e) == ~ \E k \in DOMAIN workers[e] : k = outbox[e].executionId /\ Live(e, k)

Fault == /\ spent.faults < MaxFaults
         /\ spent' = [spent EXCEPT !.faults = @ + 1]

SetStage(e, k, s) == workers' = [workers EXCEPT ![e][k].stage = s]
Leave(e, k)       == workers' = [workers EXCEPT ![e][k] = Gone]
-------------------------------------------------------------------------------
(* createOrderedOutbox: the next sequence number, under an advisory lock. *)
Enqueue(e, topic, collecting) ==
    /\ outbox[e].status = "absent"
    /\ \A f \in Predecessors(e) : outbox[f].status # "absent"
    /\ topic = Requested => collecting = "no"
    /\ outbox' = [outbox EXCEPT ![e] =
                    [Absent EXCEPT !.status = "pending", !.topic = topic,
                                   !.collecting = collecting]]
    /\ UNCHANGED <<executions, workers, checkpoint, running, spent>>
-------------------------------------------------------------------------------
(* claim: one transaction sweeps what has lapsed and then takes a batch. *)

Lapsed(e)    == outbox[e].status = "processing" /\ outbox[e].lapsed
\* Slip: the sweep forgets to look at the status of a row.
ExhaustedIgnoringStatus(e) == outbox[e].attempts >= MaxAttempts

Exhausted(e) == /\ outbox[e].attempts >= MaxAttempts
                /\ outbox[e].status = "pending" \/ Lapsed(e)

SweptOutbox ==
    [e \in Events |->
        IF Exhausted(e)
        THEN [outbox[e] EXCEPT !.status = "dead", !.executionId = 0,
                               !.lockId = 0, !.lapsed = FALSE]
        ELSE outbox[e]]

\* Slip: only claims that were never accepted are closed in the audit.
ExpireOnlyClaimed(e, x) ==
    IF Lapsed(e) /\ x.status = "claimed"
    THEN [x EXCEPT !.status = IF Exhausted(e) THEN "terminal-failure" ELSE "expired"]
    ELSE x

Expire(e, x) ==
    LET timedOut == \/ x.status = "expired"
                    \/ Lapsed(e) /\ x.status \in {"claimed", "accepted"}
        isDead   == outbox[e].status = "dead" \/ Exhausted(e)
    IN  IF ~timedOut THEN x
        ELSE [x EXCEPT !.status = IF isDead THEN "terminal-failure" ELSE "expired"]

SweptExecutions ==
    [e \in Events |-> [k \in DOMAIN executions[e] |-> Expire(e, executions[e][k])]]

\* The debounce of claim: an ordinary inbound row waits for the conversation
\* to fall silent, one of a department collection waits for its own window.
Settled(e, rows) ==
    \/ rows[e].topic = Requested
    \/ rows[e].collecting = "closing"
    \/ rows[e].collecting = "open" /\ Ages[rows[e].age] = "collected"
    \/ /\ rows[e].collecting = "no"
       /\ Ages[rows[e].age] # "new"
       /\ ~ \E f \in Successors(e) : /\ rows[f].status # "absent"
                                     /\ rows[f].topic \in Inbound
                                     /\ Ages[rows[f].age] = "new"

\* Slips: claim without the predecessor rule, and without ever taking over a row
\* whose lease is over.
CandidatesInAnyOrder(rows) ==
    {e \in Events :
        /\ rows[e].status = "pending" \/ (rows[e].status = "processing" /\ rows[e].lapsed)
        /\ rows[e].due
        /\ rows[e].attempts < MaxAttempts
        /\ Settled(e, rows)}

CandidatesPendingOnly(rows) ==
    {e \in Events :
        /\ rows[e].status = "pending" /\ rows[e].due
        /\ rows[e].attempts < MaxAttempts
        /\ Settled(e, rows)
        /\ \A f \in Predecessors(e) : ~Open(rows[f])}

Candidates(rows) ==
    {e \in Events :
        /\ rows[e].status = "pending" \/ (rows[e].status = "processing" /\ rows[e].lapsed)
        /\ rows[e].due
        /\ rows[e].attempts < MaxAttempts
        /\ Settled(e, rows)
        /\ \A f \in Predecessors(e) : ~Open(rows[f])}

\* Slip: a takeover keeps the execution that the row already names.
ClaimedKeepingExecution(e, row) ==
    [row EXCEPT !.status = "processing", !.attempts = @ + 1, !.lapsed = FALSE,
                !.lockId = Len(executions[e]) + 1,
                !.executionId = IF @ = 0 THEN Len(executions[e]) + 1 ELSE @]

Claimed(e, row) ==
    [row EXCEPT !.status = "processing", !.attempts = @ + 1, !.lapsed = FALSE,
                !.lockId = Len(executions[e]) + 1,
                !.executionId = Len(executions[e]) + 1]

Tick(p) ==
    /\ running[p] = {}
    /\ \E S \in SUBSET Candidates(SweptOutbox) :
        /\ Cardinality(S) <= BatchSize
        /\ S = Candidates(SweptOutbox) \/ Cardinality(S) = BatchSize
        /\ outbox' = [e \in Events |-> IF e \in S THEN Claimed(e, SweptOutbox[e])
                                                  ELSE SweptOutbox[e]]
        /\ executions' =
             [e \in Events |->
                IF e \in S
                THEN Append(SweptExecutions[e],
                            [attempt |-> outbox[e].attempts + 1, status |-> "claimed"])
                ELSE SweptExecutions[e]]
        /\ workers' =
             [e \in Events |->
                IF e \in S
                THEN Append(workers[e],
                            [process |-> p, stage |-> "claimed", outcome |-> "none"])
                ELSE workers[e]]
        /\ running' = [running EXCEPT ![p] = {<<e, Len(executions[e]) + 1>> : e \in S}]
    /\ UNCHANGED <<checkpoint, spent>>

\* The promise of tick settles once every dispatch of its batch has.
EndTick(p) ==
    /\ running[p] # {}
    /\ \A d \in running[p] : ~Live(d[1], d[2])
    /\ running' = [running EXCEPT ![p] = {}]
    /\ UNCHANGED <<outbox, executions, workers, checkpoint, spent>>
-------------------------------------------------------------------------------
(* dispatch: markAccepted, and rejectBeforeAcceptance when it throws. *)

GrantLease(e, k) ==
    /\ outbox' = [outbox EXCEPT ![e].lockId = 0, ![e].lapsed = FALSE]
    /\ executions' = [executions EXCEPT ![e][k].status = "accepted"]

\* The update matched the row; the reply may still be lost, and then the
\* dispatcher believes that nothing was accepted.
Accept(e, k) ==
    /\ workers[e][k].stage = "claimed"
    /\ HoldsLock(e, k)
    /\ GrantLease(e, k)
    /\ \/ SetStage(e, k, "executing") /\ UNCHANGED spent
       \/ SetStage(e, k, "rejecting") /\ Fault
    /\ UNCHANGED <<checkpoint, running>>

\* The update matched nothing.  Any audit status other than "claimed" is read
\* as "this execution was completed already", and the dispatcher goes on.
AcceptWithoutLock(e, k) ==
    /\ workers[e][k].stage = "claimed"
    /\ ~HoldsLock(e, k)
    /\ SetStage(e, k, IF executions[e][k].status = "claimed" THEN "rejecting"
                                                             ELSE "executing")
    /\ UNCHANGED <<outbox, executions, checkpoint, running, spent>>

AcceptFails(e, k) ==
    /\ workers[e][k].stage = "claimed"
    /\ SetStage(e, k, "rejecting")
    /\ Fault
    /\ UNCHANGED <<outbox, executions, checkpoint, running>>

GiveBack(e, k) ==
    LET attempts == executions[e][k].attempt
        isDead   == attempts >= MaxAttempts
    IN  /\ workers[e][k].stage = "rejecting"
        /\ outbox' = IF HoldsLock(e, k)
                     THEN [outbox EXCEPT ![e].status = IF isDead THEN "dead" ELSE "pending",
                                         ![e].attempts = attempts, ![e].due = FALSE,
                                         ![e].lockId = 0, ![e].executionId = 0,
                                         ![e].lapsed = FALSE]
                     ELSE outbox
        /\ executions' = IF executions[e][k].status = "claimed"
                         THEN [executions EXCEPT ![e][k].status =
                                 IF isDead THEN "terminal-failure" ELSE "retryable-failure"]
                         ELSE executions
        /\ Leave(e, k)
        /\ UNCHANGED checkpoint

\* A rejection that throws leaves dispatch: Promise.all fails, the tick that
\* awaits it ends, and the other dispatches of its batch go on unawaited.
Abandon(e, k) ==
    /\ running' = [p \in Processes |-> IF <<e, k>> \in running[p] THEN {} ELSE running[p]]
    /\ Fault

Reject(e, k) == GiveBack(e, k) /\ UNCHANGED <<running, spent>>

RejectReplyLost(e, k) == GiveBack(e, k) /\ Abandon(e, k)

RejectFails(e, k) ==
    /\ workers[e][k].stage = "rejecting"
    /\ Leave(e, k)
    /\ Abandon(e, k)
    /\ UNCHANGED <<outbox, executions, checkpoint>>
-------------------------------------------------------------------------------
(* execute: a stored checkpoint fixes the batch, then the plan is carried out. *)

\* The batch of an inbound row: itself and later inbound messages that exist by
\* now (those of its window that are text).  The first one stored is kept.
StoreCheckpoint(e, k) ==
    /\ Executing(e, k)
    /\ outbox[e].topic \in Inbound
    /\ checkpoint[e] = {}
    /\ \E B \in SUBSET {f \in Successors(e) : /\ outbox[f].status # "absent"
                                              /\ outbox[f].topic \in Inbound} :
          checkpoint' = [checkpoint EXCEPT ![e] = {e[2]} \cup {f[2] : f \in B}]
    /\ UNCHANGED <<outbox, executions, workers, running, spent>>

\* The plan ends with an outcome; success needs the checkpoint of an inbound row.
EndExecution(e, k, outcome) ==
    /\ Executing(e, k)
    /\ outcome = "succeeded" /\ outbox[e].topic \in Inbound => checkpoint[e] # {}
    /\ workers' = [workers EXCEPT ![e][k].stage = "concluding",
                                  ![e][k].outcome = outcome]
    /\ UNCHANGED <<outbox, executions, checkpoint, running, spent>>
-------------------------------------------------------------------------------
(* completeOutboxExecution: one transaction at READ COMMITTED.  It reads the  *)
(* row, and later updates it by primary key only.  Advisory locks keep two    *)
(* completions of a row apart; claim and rejection do not take them.          *)

\* complete() that throws is followed by completeUnexpectedAcceptedFailure;
\* when that throws too, the error is logged and the row waits for its lease.
AfterFailedCompletion(e, k) ==
    workers' = [workers EXCEPT ![e][k] =
                  IF @.outcome = "succeeded"
                  THEN [@ EXCEPT !.stage = "concluding", !.outcome = "retryable-failure"]
                  ELSE Gone]

BeginCompletion(e, k) ==
    /\ workers[e][k].stage = "concluding"
    /\ \A j \in DOMAIN workers[e] : workers[e][j].stage # "saving"
    /\ IF Owns(e, k) THEN SetStage(e, k, "saving") ELSE AfterFailedCompletion(e, k)
    /\ UNCHANGED <<outbox, executions, checkpoint, running, spent>>

CompletionFails(e, k) ==
    /\ workers[e][k].stage \in {"concluding", "saving"}
    /\ AfterFailedCompletion(e, k)
    /\ Fault
    /\ UNCHANGED <<outbox, executions, checkpoint, running>>

\* Rows of the stored batch that are concluded together with e.
Consumed(e, k) ==
    IF workers[e][k].outcome = "succeeded" /\ outbox[e].topic = Persisted
    THEN {f \in Events : /\ f[1] = e[1] /\ f # e /\ f[2] \in checkpoint[e]
                         /\ outbox[f].topic = Persisted
                         /\ outbox[f].status = "pending"}
    ELSE {}

\* "attempts" is written back as it was read: the attempt of execution k.
Concluded(e, k) ==
    LET attempts  == executions[e][k].attempt
        exhausted == attempts >= MaxAttempts
        released  == [outbox[e] EXCEPT !.attempts = attempts, !.lockId = 0, !.lapsed = FALSE]
    IN  CASE workers[e][k].outcome = "succeeded" ->
               [released EXCEPT !.status = "delivered"]
          [] workers[e][k].outcome = "retryable-failure" /\ ~exhausted ->
               [released EXCEPT !.status = "pending", !.due = FALSE, !.executionId = 0]
          [] workers[e][k].outcome = "retryable-failure" /\ exhausted ->
               [released EXCEPT !.status = "dead", !.executionId = 0]
          [] OTHER ->
               [released EXCEPT !.status = "dead"]

ConcludedStatus(e, k) ==
    IF workers[e][k].outcome = "retryable-failure" /\ executions[e][k].attempt >= MaxAttempts
    THEN "terminal-failure" ELSE workers[e][k].outcome

SaveCompletion(e, k) ==
    LET B == Consumed(e, k)
    IN  /\ workers[e][k].stage = "saving"
        /\ outbox' = [f \in Events |->
              IF f = e THEN Concluded(e, k)
              ELSE IF f \in B THEN [outbox[f] EXCEPT !.status = "delivered",
                                       !.executionId = 0, !.lockId = 0, !.lapsed = FALSE]
              ELSE outbox[f]]
        /\ executions' = [f \in Events |->
              IF f = e THEN [executions[e] EXCEPT ![k].status = ConcludedStatus(e, k)]
              ELSE IF f \in B
              THEN Append(executions[f],
                          [attempt |-> IF outbox[f].attempts = 0 THEN 1 ELSE outbox[f].attempts,
                           status |-> "succeeded"])
              ELSE executions[f]]
        /\ \E w \in Worker :
              /\ workers' = [f \in Events |->
                   IF f = e THEN [workers[e] EXCEPT ![k] = w]
                   ELSE IF f \in B THEN Append(workers[f], Gone)
                   ELSE workers[f]]
              /\ \/ w = Gone /\ UNCHANGED spent
                 \/ /\ workers[e][k].outcome = "succeeded"  \* committed, reply lost
                    /\ w = [workers[e][k] EXCEPT !.stage = "concluding",
                                                 !.outcome = "retryable-failure"]
                    /\ Fault
        /\ UNCHANGED <<checkpoint, running>>
-------------------------------------------------------------------------------
(* reconcileAutomationOutbox, for a dead outbound row.  "confirmed-not-sent"    *)
(* re-opens the row with a new dispatch generation and no attempts.  (The code   *)
(* re-opens inbound rows only when a removed provider had isolated them.)  The   *)
(* evidence takes an operator longer than a completion's transaction stays open. *)
Reconcile(e, sent) ==
    /\ outbox[e].status = "dead"
    /\ outbox[e].topic = Requested
    /\ \A k \in DOMAIN workers[e] : workers[e][k].stage # "saving"
    /\ spent.reconciliations < MaxReconciliations
    /\ spent' = [spent EXCEPT !.reconciliations = @ + 1]
    /\ outbox' = IF sent
                 THEN [outbox EXCEPT ![e].status = "delivered", ![e].lockId = 0,
                                     ![e].lapsed = FALSE, ![e].reconciled = TRUE]
                 ELSE [outbox EXCEPT ![e].status = "pending", ![e].attempts = 0,
                                     ![e].due = TRUE, ![e].executionId = 0,
                                     ![e].lockId = 0, ![e].lapsed = FALSE]
    /\ UNCHANGED <<executions, workers, checkpoint, running>>
-------------------------------------------------------------------------------
(* Time and failures. *)

\* A lease granted after a completion has read its row outlives that short
\* transaction (5 s against 30 s), so it does not lapse while one is saving: the
\* completion of an older execution, or that of a row ahead which was open when
\* it was read, and was concluded before this row could be claimed.
\* A lapse under a worker that is still alive is an overrun.
Lapse(e) ==
    /\ outbox[e].status = "processing" /\ ~outbox[e].lapsed
    /\ \A k \in DOMAIN workers[e] :
          workers[e][k].stage = "saving" => k = outbox[e].executionId
    /\ \A f \in Predecessors(e) : \A k \in DOMAIN workers[f] :
          workers[f][k].stage = "saving" => ~Final(outbox[f])
    /\ \/ Orphan(e) /\ UNCHANGED spent
       \/ /\ ~Orphan(e)
          /\ spent.overruns < MaxOverruns
          /\ spent' = [spent EXCEPT !.overruns = @ + 1]
    /\ outbox' = [outbox EXCEPT ![e].lapsed = TRUE]
    /\ UNCHANGED <<executions, workers, checkpoint, running>>

BackoffEnds(e) ==
    /\ outbox[e].status = "pending" /\ ~outbox[e].due
    /\ outbox' = [outbox EXCEPT ![e].due = TRUE]
    /\ UNCHANGED <<executions, workers, checkpoint, running, spent>>

\* Rows of a conversation grow old in the order they were created.  Only a
\* department collection tells the second window from the first.
OldestAge(e) == IF outbox[e].collecting = "open" THEN 3 ELSE 2

Mature(e) ==
    /\ outbox[e].status # "absent" /\ outbox[e].topic \in Inbound
    /\ outbox[e].age < OldestAge(e)
    /\ \A f \in Predecessors(e) :
          outbox[f].topic \in Inbound => outbox[f].age > outbox[e].age \/ outbox[f].age = OldestAge(f)
    /\ outbox' = [outbox EXCEPT ![e].age = @ + 1]
    /\ UNCHANGED <<executions, workers, checkpoint, running, spent>>

\* A process dies: its promises and open transactions are gone.
Crash(p) ==
    /\ \/ running[p] # {}
       \/ \E e \in Events : \E k \in DOMAIN workers[e] : workers[e][k].process = p
    /\ workers' = [e \in Events |-> [k \in DOMAIN workers[e] |->
          IF workers[e][k].process = p THEN Gone ELSE workers[e][k]]]
    /\ running' = [running EXCEPT ![p] = {}]
    /\ Fault
    /\ UNCHANGED <<outbox, executions, checkpoint>>
-------------------------------------------------------------------------------
\* One step of the dispatch of execution k of row e.
Dispatch(e, k) ==
    \/ Accept(e, k) \/ AcceptWithoutLock(e, k) \/ AcceptFails(e, k)
    \/ Reject(e, k) \/ RejectReplyLost(e, k) \/ RejectFails(e, k)
    \/ StoreCheckpoint(e, k)
    \/ \E o \in Outcomes : EndExecution(e, k, o)
    \/ BeginCompletion(e, k) \/ CompletionFails(e, k) \/ SaveCompletion(e, k)

Next ==
    \/ \E e \in Events, t \in Topics, c \in Collecting : Enqueue(e, t, c)
    \/ \E p \in Processes : Tick(p) \/ EndTick(p) \/ Crash(p)
    \/ \E e \in Events : \E k \in DOMAIN workers[e] : Dispatch(e, k)
    \/ \E e \in Events, sent \in BOOLEAN : Reconcile(e, sent)
    \/ \E e \in Events : Lapse(e) \/ BackoffEnds(e) \/ Mature(e)

Spec == Init /\ [][Next]_vars

\* What the runtime provides: setInterval ticks every process, a promise whose
\* calls return is resumed, and the clock advances.  Nothing is assumed of
\* faults, of overruns, of arrivals or of the operator.
MaxExecutions == MaxAttempts * (MaxReconciliations + 1) + MaxOverruns + 1

Proceed(e, k) == k \in DOMAIN workers[e] /\ Dispatch(e, k)

Fairness ==
    /\ \A p \in Processes : WF_vars(Tick(p)) /\ WF_vars(EndTick(p))
    /\ \A e \in Events :
          /\ \A k \in 1 .. MaxExecutions : WF_vars(Proceed(e, k))
          /\ WF_vars(Lapse(e) /\ Orphan(e))
          /\ WF_vars(BackoffEnds(e)) /\ WF_vars(Mature(e))

FairSpec == Spec /\ Fairness
-------------------------------------------------------------------------------
(* The tables and the dispatchers hold values of their types; audit rows and  *)
(* dispatches are kept in step, one of each per claim.                        *)
TypeOK ==
    /\ outbox \in [Events -> Row]
    /\ executions \in [Events -> Seq(Execution)]
    /\ workers \in [Events -> Seq(Worker)]
    /\ \A e \in Events : Len(workers[e]) = Len(executions[e])
    /\ checkpoint \in [Events -> SUBSET (1 .. MaxSequence)]
    /\ running \in [Processes -> SUBSET (Events \X Nat)]
    /\ spent \in Spent

\* Rows of one conversation are executed one after another, each by a single
\* dispatch: as long as no lease lapses under a live worker, the predecessor rule
\* of claim, takeovers, retries, consumption of batches and crashes never let two
\* executions of a conversation run side by side, in one process or in several.
OneRowPerConversation ==
    \A e, f \in Events : \A j \in DOMAIN workers[e], k \in DOMAIN workers[f] :
        e[1] = f[1] /\ Executing(e, j) /\ Executing(f, k) => e = f /\ j = k

\* Nobody claims a row before everything ahead of it in its conversation has
\* been concluded, and what is ahead of a claimed row stays concluded; only rows
\* answered in the batch of an earlier one are delivered without that.
InOrder ==
    \A e \in Events :
        executions[e] # <<>> /\ outbox[e].status # "delivered" =>
            \A f \in Predecessors(e) : Final(outbox[f])

\* A concluded row leaves no audit row that claims to be in progress.
AuditClosed ==
    \A e \in Events : Final(outbox[e]) =>
        \A k \in DOMAIN executions[e] : executions[e][k].status \notin {"claimed", "accepted"}

\* Retries, takeovers and rejections together never start a row more often
\* than max_attempts: the counter and the audit rows agree.
AttemptsAudited ==
    \A e \in Events :
        /\ Len(executions[e]) <= MaxAttempts
        /\ executions[e] # <<>> => executions[e][Len(executions[e])].attempt >= outbox[e].attempts

\* The audit rows tell what became of a row, and how often it was tried.
AuditIsTrue == AuditClosed /\ AttemptsAudited

\* A row in progress belongs to its newest claim, whose audit row agrees on the
\* attempt: no older completion, rejection or sweep can leave it to another.
NewestClaimOwnsRow ==
    \A e \in Events : outbox[e].status = "processing" =>
        LET n == Len(executions[e])
        IN  /\ n > 0 /\ outbox[e].executionId = n
            /\ executions[e][n].attempt = outbox[e].attempts
            /\ outbox[e].lockId \in {0, n}

\* A row counts as delivered only on account of an execution that succeeded,
\* its own or the one that consumed it, or of an operator who confirmed this row.
Succeeded(e) == \E k \in DOMAIN executions[e] : executions[e][k].status = "succeeded"

DeliveredForCause ==
    \A e \in Events :
        outbox[e].status = "delivered" => Succeeded(e) \/ outbox[e].reconciled

\* What succeeded, or was confirmed by an operator, is not executed again: the
\* row is delivered, and no late completion, rejection or sweep re-opens it.
CauseDelivers ==
    \A e \in Events :
        Succeeded(e) \/ outbox[e].reconciled => outbox[e].status = "delivered"

\* A row succeeds at most once, whoever else was executing it.
SucceededOnce(e) ==
    \A j, k \in DOMAIN executions[e] :
        executions[e][j].status = "succeeded" /\ executions[e][k].status = "succeeded" => j = k

\* A row is delivered exactly when an execution of it (or the one that consumed
\* it) succeeded or an operator confirmed it, and it succeeds at most once.
DeliveredOnce ==
    (\A e \in Events : SucceededOnce(e)) /\ DeliveredForCause /\ CauseDelivers

\* The audit never takes a success back.
SuccessKept(e) ==
    \A k \in DOMAIN executions[e] :
        executions[e][k].status = "succeeded" => executions'[e][k].status = "succeeded"

StaysDelivered(e) ==
    SuccessKept(e) /\ (outbox[e].status = "delivered" => outbox'[e].status = "delivered")

\* A delivered row stays delivered, whichever late completion, rejection or
\* sweep arrives; and the audit never takes a success back.
DeliveredIsFinal == [][\A e \in Events : StaysDelivered(e)]_vars

\* Every row is concluded in the end: crashes, failed calls, overruns, lost
\* replies and retries delay a row, and none of them strands it.
EventuallyConcluded ==
    \A e \in Events : outbox[e].status = "pending" ~> Final(outbox[e])
===============================================================================
