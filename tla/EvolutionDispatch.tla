--------------------------- MODULE EvolutionDispatch ---------------------------
(***************************************************************************)
(* The delivery of one outbound message through the Evolution provider:    *)
(* the message, its attempts, the outbox row that requests it, and the     *)
(* dispatches that carry it out (deliverPersistedMessage).                 *)
(*                                                                         *)
(* A provider call cannot be undone or asked about, so an attempt is       *)
(* claimed before the call and its result is recorded after it; whenever   *)
(* the result is not certain the attempt is UNKNOWN and the row is         *)
(* isolated until an operator reconciles it.                               *)
(*                                                                         *)
(* Of the outbox row only what delivery depends on is kept: whether it can *)
(* still be claimed, and which dispatch its executionId names.  Attempt n  *)
(* belongs to dispatch generation n: reconciliation creates both together, *)
(* and the identifiers of the claim and result commands derive from it.    *)
(***************************************************************************)
EXTENDS Naturals, FiniteSets

CONSTANTS
    Dispatches,      \* dispatches of the row that can overlap
    None,            \* no dispatch
    MaxGenerations,  \* bound: attempts of the message
    MaxStarts,       \* max_attempts of the row
    MaxOverruns,     \* bound: dispatches that start while another is running
    MaxFaults,       \* bound: crashes and failed database calls
    MaxReports,      \* bound: results reported through the internal API
    MaxServiceClaims \* bound: claims made through the internal API

ASSUME DispatchAssumption ==
    /\ None \notin Dispatches
    /\ MaxGenerations \in Nat \ {0} /\ MaxStarts \in Nat \ {0}
    /\ MaxOverruns \in Nat /\ MaxFaults \in Nat /\ MaxReports \in Nat
    /\ MaxServiceClaims \in Nat

VARIABLES
    message,     \* the row of whatsapp_messages
    attempts,    \* [Generations -> Attempt]: whatsapp_message_attempts
    generation,  \* attemptId and dispatchGeneration in the payload of the row
    row,         \* the outbox row
    dispatch,    \* [Dispatches -> Dispatch]: control state of the callers
    service,     \* [Generations -> ServiceStage]: a service that claims and sends itself
    claimed,     \* claim commands found in integration_inbox
    recorded,    \* result commands found in integration_inbox
    inFlight,    \* provider requests not yet decided
    delivered,   \* [Generations -> Nat]: what the provider sent to the customer
    spent

vars == <<message, attempts, generation, row, dispatch, service, claimed, recorded,
          inFlight, delivered, spent>>
-------------------------------------------------------------------------------
Generations == 1 .. MaxGenerations

Sent            == {"sent", "delivered", "read"}
DeliveryStatus  == {"pending", "failed"} \cup Sent
AttemptStatus   == {"absent", "pending", "succeeded", "failed"}
DispatchState   == {"ready", "leased", "unknown", "succeeded", "failed"}
RowStatus       == {"open", "dead", "delivered"}
Outcomes        == {"succeeded", "retryable-failure", "terminal-failure"}
Stages          == {"idle", "claiming", "sending", "waiting", "confirmed",
                    "retrying", "not-sent", "ambiguous", "unsaved", "ending"}
ServiceStage    == {"none", "asked", "sending", "sent"}

Message  == [status : DeliveryStatus, identified : BOOLEAN]
Attempt  == [status : AttemptStatus, state : DispatchState, lapsed : BOOLEAN,
             identified : BOOLEAN, misconfigured : BOOLEAN]
Row      == [status : RowStatus, owner : Dispatches \cup {None}, starts : 0 .. MaxStarts]
Dispatch == [stage : Stages, generation : Generations,
             outcome : Outcomes \cup {"none"}]
Spent    == [overruns : 0 .. MaxOverruns, faults : 0 .. MaxFaults,
             reports : 0 .. MaxReports, claims : 0 .. MaxServiceClaims]

Fresh == [status |-> "pending", state |-> "ready", lapsed |-> FALSE,
          identified |-> FALSE, misconfigured |-> FALSE]
Idle  == [stage |-> "idle", generation |-> 1, outcome |-> "none"]

\* createHumanOutbound writes message, first attempt and row in one transaction.
Init ==
    /\ message = [status |-> "pending", identified |-> FALSE]
    /\ attempts = [g \in Generations |->
                     IF g = 1 THEN Fresh ELSE [Fresh EXCEPT !.status = "absent"]]
    /\ generation = 1
    /\ row = [status |-> "open", owner |-> None, starts |-> 0]
    /\ dispatch = [d \in Dispatches |-> Idle]
    /\ service = [g \in Generations |-> "none"]
    /\ claimed = {} /\ recorded = {} /\ inFlight = {}
    /\ delivered = [g \in Generations |-> 0]
    /\ spent = [overruns |-> 0, faults |-> 0, reports |-> 0, claims |-> 0]
-------------------------------------------------------------------------------
At(d, s)    == dispatch[d].stage = s
Go(d, s)    == dispatch' = [dispatch EXCEPT ![d].stage = s]
End(d, o)   == dispatch' = [dispatch EXCEPT ![d].stage = "ending", ![d].outcome = o]
Leave(d)    == dispatch' = [dispatch EXCEPT ![d] = Idle]
Fault       == /\ spent.faults < MaxFaults
               /\ spent' = [spent EXCEPT !.faults = @ + 1]

(* The row: claim, takeover, completion and the sweep of an exhausted row. *)

\* Slip: a claim of the row that is not counted.
StartUncounted(d) ==
    /\ row.status = "open" /\ row.owner = None
    /\ At(d, "idle")
    /\ row' = [row EXCEPT !.owner = d]
    /\ dispatch' = [dispatch EXCEPT ![d] =
                      [stage |-> "claiming", generation |-> generation, outcome |-> "none"]]
    /\ UNCHANGED <<service, message, attempts, generation, claimed, recorded, inFlight,
                   delivered, spent>>

Start(d) ==
    /\ row.status = "open" /\ row.starts < MaxStarts
    /\ At(d, "idle")
    /\ \/ row.owner = None /\ UNCHANGED spent
       \/ /\ row.owner # None                     \* its lease lapsed under it
          /\ spent.overruns < MaxOverruns
          /\ spent' = [spent EXCEPT !.overruns = @ + 1]
    /\ row' = [row EXCEPT !.owner = d, !.starts = @ + 1]
    /\ dispatch' = [dispatch EXCEPT ![d] =
                      [stage |-> "claiming", generation |-> generation, outcome |-> "none"]]
    /\ UNCHANGED <<service, message, attempts, generation, claimed, recorded, inFlight, delivered>>

Sweep ==
    /\ row.status = "open" /\ row.starts = MaxStarts
    /\ \/ row.owner = None /\ UNCHANGED spent
       \/ /\ row.owner # None
          /\ spent.overruns < MaxOverruns
          /\ spent' = [spent EXCEPT !.overruns = @ + 1]
    /\ row' = [row EXCEPT !.status = "dead", !.owner = None]
    /\ UNCHANGED <<service, message, attempts, generation, dispatch, claimed, recorded,
                   inFlight, delivered>>

\* A requested row is delivered only once its message and attempt agree.
Confirmed ==
    \/ message.status \in Sent /\ attempts[generation].status = "succeeded"
                               /\ attempts[generation].state = "succeeded"
    \/ message.status = "failed" /\ attempts[generation].status = "failed"
                                 /\ attempts[generation].state = "failed"

Holds(d)    == row.status = "open" /\ row.owner = d
Conclude(s) == row' = [row EXCEPT !.status = s, !.owner = None]

\* A refused success is concluded once more, as a retryable failure; a dispatch
\* that no longer holds the row concludes nothing.
Finish(d) ==
    /\ At(d, "ending")
    /\ \/ ~Holds(d) /\ Leave(d) /\ UNCHANGED row
       \/ /\ Holds(d) /\ dispatch[d].outcome = "succeeded"
          /\ \/ Confirmed /\ Leave(d) /\ Conclude("delivered")
             \/ ~Confirmed /\ End(d, "retryable-failure") /\ UNCHANGED row
       \/ /\ Holds(d) /\ dispatch[d].outcome = "retryable-failure"
          /\ Leave(d) /\ Conclude(IF row.starts = MaxStarts THEN "dead" ELSE "open")
       \/ /\ Holds(d) /\ dispatch[d].outcome = "terminal-failure"
          /\ Leave(d) /\ Conclude("dead")
    /\ UNCHANGED <<service, message, attempts, generation, claimed, recorded, inFlight,
                   delivered, spent>>

\* The process dies, or its last database call fails; the lease runs out.
Vanish(d) ==
    /\ ~At(d, "idle")
    /\ Leave(d)
    /\ row' = IF row.owner = d THEN [row EXCEPT !.owner = None] ELSE row
    /\ Fault
    /\ UNCHANGED <<service, message, attempts, generation, claimed, recorded, inFlight, delivered>>
-------------------------------------------------------------------------------
(* claimEvolutionDispatch, under the advisory lock of the attempt.  A claim is *)
(* fresh when its command is not in the inbox yet; its evidence says that the  *)
(* provider confirmed that nothing was sent ("confirmed-not-sent").            *)

Lapsed(g)  == attempts[g].state = "leased" /\ attempts[g].lapsed
Pending(g) == attempts[g].status = "pending" /\ message.status = "pending"

\* Slip: an attempt whose result is unknown is written off as failed.
UnknownAsFailed(a) == [a EXCEPT !.status = "failed", !.state = "unknown", !.lapsed = FALSE]

Unknown(a) == [a EXCEPT !.state = "unknown", !.lapsed = FALSE]

\* Slip: an expired lease lets the next claim send again.
MaySendAfterLease(g, fresh, evidence) ==
    /\ Pending(g)
    /\ attempts[g].state = "ready" \/ Lapsed(g)

\* Only a fresh command is told to send: one that finds the attempt ready, or
\* unknown with evidence that it was not sent.
MaySend(g, fresh, evidence) ==
    /\ fresh /\ Pending(g)
    /\ attempts[g].state = "ready" \/ (attempts[g].state = "unknown" /\ evidence)

\* An expired lease is turned into UNKNOWN, on a replay whatever the result.
Isolates(g, fresh) == Lapsed(g) /\ (~fresh \/ Pending(g))

RefusedOutcome(state) ==
    CASE state = "succeeded"             -> "succeeded"
      [] state \in {"failed", "unknown"} -> "terminal-failure"
      [] OTHER                           -> "retryable-failure"

\* What the claim makes of the attempts.
Answered(g, fresh, evidence) ==
    CASE MaySend(g, fresh, evidence) ->
            [attempts EXCEPT ![g].state = "leased", ![g].lapsed = FALSE]
      [] Isolates(g, fresh) -> [attempts EXCEPT ![g] = Unknown(@)]
      [] OTHER              -> attempts

(* A dispatch gives no evidence, and derives its command from the row: the     *)
(* dispatches of one generation share it.                                      *)
First(g) == g \notin claimed

Claim(d) ==
    LET g == dispatch[d].generation
    IN  /\ At(d, "claiming")
        /\ claimed' = claimed \cup {g}
        /\ attempts' = Answered(g, First(g), FALSE)
        /\ IF MaySend(g, First(g), FALSE) THEN Go(d, "sending")
           ELSE End(d, RefusedOutcome(attempts'[g].state))
        /\ UNCHANGED <<service, message, generation, row, recorded, inFlight, delivered, spent>>

\* The call fails, before or after its commit: the dispatch gives up for now.
ClaimFails(d) ==
    LET g == dispatch[d].generation
    IN  /\ At(d, "claiming")
        /\ End(d, "retryable-failure")
        /\ Fault
        /\ \/ UNCHANGED <<claimed, attempts>>
           \/ claimed' = claimed \cup {g} /\ attempts' = Answered(g, First(g), FALSE)
        /\ UNCHANGED <<service, message, generation, row, recorded, inFlight, delivered>>

LeaseLapses(g) ==
    /\ attempts[g].state = "leased" /\ ~attempts[g].lapsed
    /\ attempts' = [attempts EXCEPT ![g].lapsed = TRUE]
    /\ UNCHANGED <<service, message, generation, row, dispatch, claimed, recorded,
                   inFlight, delivered, spent>>
-------------------------------------------------------------------------------
(* The same through the internal API: a service claims an attempt with commands *)
(* of its own and sends it itself.  Its evidence is true, and final.            *)

\* No request of the attempt reached the customer, and none still can.
NeverSent(g) ==
    /\ delivered[g] = 0 /\ g \notin inFlight /\ service[g] # "sending"
    /\ \A d \in Dispatches : At(d, "sending") => dispatch[d].generation # g

ServiceClaim(g, fresh, evidence) ==
    /\ spent.claims < MaxServiceClaims
    /\ attempts[g].status # "absent"
    /\ fresh \/ service[g] # "none"
    /\ evidence => fresh /\ NeverSent(g)
    /\ attempts' = Answered(g, fresh, evidence)
    /\ service' = [service EXCEPT ![g] =
                     CASE MaySend(g, fresh, evidence) -> "sending"
                       [] @ = "none"                  -> "asked"
                       [] OTHER                       -> @]
    /\ spent' = [spent EXCEPT !.claims = @ + 1]
    /\ UNCHANGED <<message, generation, row, dispatch, claimed, recorded, inFlight, delivered>>

\* It makes its one request (or, stopped before, none) and owns the lease until
\* the attempt is claimed anew: a dispatch can mark it no longer.
ServiceSends(g) ==
    /\ service[g] = "sending"
    /\ service' = [service EXCEPT ![g] = "sent"]
    /\ inFlight' = inFlight \cup {g} \/ UNCHANGED inFlight
    /\ UNCHANGED <<message, attempts, generation, row, dispatch, claimed, recorded,
                   delivered, spent>>

OwnedByService(g) == service[g] \in {"sending", "sent"}
-------------------------------------------------------------------------------
(* The provider call (external): one request, never repeated by the client. *)

\* The client refuses an incomplete configuration before any request.
Refuse(d) ==
    /\ At(d, "sending")
    /\ Go(d, "not-sent")
    /\ UNCHANGED <<service, message, attempts, generation, row, claimed, recorded,
                   inFlight, delivered, spent>>

Request(d) ==
    /\ At(d, "sending")
    /\ inFlight' = inFlight \cup {dispatch[d].generation}
    /\ Go(d, "waiting")
    /\ UNCHANGED <<service, message, attempts, generation, row, claimed, recorded, delivered, spent>>

\* The provider delivers, or drops, a request; the caller may be gone by then.
Provide(g) ==
    /\ g \in inFlight
    /\ inFlight' = inFlight \ {g}
    /\ \/ delivered' = [delivered EXCEPT ![g] = @ + 1]
       \/ UNCHANGED delivered
    /\ UNCHANGED <<service, message, attempts, generation, row, dispatch, claimed, recorded, spent>>

\* A confirmation names the message sent; everything else is ambiguous: a
\* timeout, an error status, a broken connection, a body without identifier.
Respond(d) ==
    LET g == dispatch[d].generation
    IN  /\ At(d, "waiting")
        /\ \/ /\ g \notin inFlight /\ delivered[g] > 0 /\ ~OwnedByService(g)
              /\ Go(d, "confirmed")
           \/ Go(d, "ambiguous")
        /\ UNCHANGED <<service, message, attempts, generation, row, claimed, recorded,
                       inFlight, delivered, spent>>
-------------------------------------------------------------------------------
(* recordEvolutionResult. *)

Rank == [s \in DeliveryStatus |->
           CASE s = "pending" -> 0 [] s = "sent" -> 1 [] s = "delivered" -> 2
             [] s = "read" -> 3 [] OTHER -> 0]

\* Slip: the latest result wins.
FinalStatusLatest(requested) == requested

\* A result never takes a message back: FAILED has rank -1 in the code.
FinalStatus(requested) ==
    IF /\ message.status # "pending"
       /\ \/ requested = "failed"
          \/ message.status # "failed" /\ Rank[requested] < Rank[message.status]
    THEN message.status ELSE requested

Recordable(g) == attempts[g].status # "absent" /\ attempts[g].state # "ready"

SaveResult(g, requested, identified, misconfigured) ==
    LET final == FinalStatus(requested)
    IN  /\ attempts' = [attempts EXCEPT ![g] =
              [status        |-> IF final = "failed" THEN "failed" ELSE "succeeded",
               state         |-> IF final = "failed" THEN "failed" ELSE "succeeded",
               lapsed        |-> FALSE,
               identified    |-> @.identified \/ identified,
               misconfigured |-> final = "failed" /\ misconfigured]]
        /\ message' = [status |-> final, identified |-> message.identified \/ identified]

\* The result of a dispatch; a replay of the same command changes nothing.
Record(d, requested) ==
    LET g == dispatch[d].generation
    IN  /\ g \in recorded \/ Recordable(g)
        /\ recorded' = recorded \cup {g}
        /\ IF g \in recorded THEN UNCHANGED <<attempts, message>>
           ELSE \E misconfigured \in {requested = "failed", FALSE} :
                   SaveResult(g, requested, requested # "failed", misconfigured)

RecordSent(d) ==
    /\ At(d, "confirmed") \/ At(d, "retrying")
    /\ Record(d, "sent")
    /\ End(d, "succeeded")
    /\ UNCHANGED <<service, generation, row, claimed, inFlight, delivered, spent>>

\* Two tries with one command; the first may have been committed.
RecordSentFails(d) ==
    /\ At(d, "confirmed") \/ At(d, "retrying")
    /\ Go(d, IF At(d, "confirmed") THEN "retrying" ELSE "unsaved")
    /\ \/ Record(d, "sent")
       \/ UNCHANGED <<attempts, message, recorded>>
    /\ Fault
    /\ UNCHANGED <<service, generation, row, claimed, inFlight, delivered>>

RecordNotSent(d) ==
    /\ At(d, "not-sent")
    /\ \/ Record(d, "failed") /\ End(d, "terminal-failure") /\ UNCHANGED spent
       \/ /\ End(d, "retryable-failure") /\ Fault
          /\ Record(d, "failed") \/ UNCHANGED <<attempts, message, recorded>>
    /\ UNCHANGED <<service, generation, row, claimed, inFlight, delivered>>

(* markEvolutionDispatchUnknown.  The owner it checks is derived from the row, *)
(* so any dispatch of the row passes; a service's lease is refused.            *)
Leasing(g) == attempts[g].state = "leased" /\ ~OwnedByService(g)

Marked(g) == IF Leasing(g) THEN [attempts EXCEPT ![g] = Unknown(@)] ELSE attempts

Mark(d) ==
    LET g == dispatch[d].generation
        accepted == attempts[g].state = "unknown" \/ Leasing(g)
    IN  /\ At(d, "ambiguous") \/ At(d, "unsaved")
        /\ attempts' = Marked(g)
        /\ End(d, IF accepted \/ At(d, "unsaved") THEN "terminal-failure"
                  ELSE "retryable-failure")
        /\ UNCHANGED <<service, message, generation, row, claimed, recorded, inFlight,
                       delivered, spent>>

\* The call fails, before or after its commit.
MarkFails(d) ==
    /\ At(d, "ambiguous") \/ At(d, "unsaved")
    /\ End(d, IF At(d, "unsaved") THEN "terminal-failure" ELSE "retryable-failure")
    /\ Fault
    /\ attempts' = Marked(dispatch[d].generation) \/ UNCHANGED attempts
    /\ UNCHANGED <<service, message, generation, row, claimed, recorded, inFlight, delivered>>

\* The internal API: a service reports what the provider told it of an attempt.
Report(g, requested) ==
    /\ spent.reports < MaxReports
    /\ Recordable(g)
    /\ IF requested = "failed" THEN NeverSent(g) ELSE delivered[g] > 0
    /\ \E identified \in BOOLEAN :
          SaveResult(g, requested, requested # "failed" /\ identified, FALSE)
    /\ spent' = [spent EXCEPT !.reports = @ + 1]
    /\ UNCHANGED <<service, generation, row, dispatch, claimed, recorded, inFlight, delivered>>
-------------------------------------------------------------------------------
(* reconcileAutomationOutbox.  The evidence is true, and final: what is said  *)
(* not to have been sent is in no request and in the hands of no dispatch.    *)

AlreadyPersisted ==
    LET a == attempts[generation]
    IN  /\ a.status = "succeeded" /\ a.state = "succeeded" /\ message.status \in Sent
        /\ a.identified /\ message.identified

Awaiting ==
    /\ attempts[generation].state = "unknown" \/ Lapsed(generation)
    /\ attempts[generation].status = "pending"

CanConfirmSent ==
    /\ row.status = "dead"
    /\ AlreadyPersisted \/ (Awaiting /\ message.status # "failed")

\* Slip: the operator's confirmation concludes the row and nothing else.
ReconcileSentRowOnly ==
    /\ CanConfirmSent
    /\ delivered[generation] > 0
    /\ row' = [row EXCEPT !.status = "delivered"]
    /\ UNCHANGED <<service, message, attempts, generation, dispatch, claimed, recorded,
                   inFlight, delivered, spent>>

ReconcileSent ==
    /\ CanConfirmSent
    /\ delivered[generation] > 0
    /\ row' = [row EXCEPT !.status = "delivered"]
    /\ IF AlreadyPersisted THEN UNCHANGED <<attempts, message>>
       ELSE /\ attempts' = [attempts EXCEPT ![generation] =
                  [status |-> "succeeded", state |-> "succeeded", lapsed |-> FALSE,
                   identified |-> TRUE, misconfigured |-> FALSE]]
            /\ message' = [status |-> IF message.status \in Sent THEN message.status
                                                                ELSE "sent",
                           identified |-> TRUE]
    /\ UNCHANGED <<service, generation, dispatch, claimed, recorded, inFlight, delivered, spent>>

\* The client never made a request: its configuration was incomplete.
Misconfigured ==
    LET a == attempts[generation]
    IN  /\ a.status = "failed" /\ a.state = "failed" /\ a.misconfigured
        /\ message.status = "failed"

CanConfirmNotSent ==
    /\ row.status = "dead"
    /\ ~attempts[generation].identified /\ ~message.identified
    /\ Misconfigured \/ (Awaiting /\ message.status = "pending")

ReconcileNotSent ==
    LET g == generation
    IN  /\ CanConfirmNotSent
        /\ g < MaxGenerations
        /\ NeverSent(g)
        /\ \A d \in Dispatches : At(d, "idle") \/ dispatch[d].generation # g
        /\ attempts' = [attempts EXCEPT
              ![g] = [@ EXCEPT !.status = "failed", !.state = "failed", !.lapsed = FALSE,
                               !.misconfigured = FALSE],
              ![g + 1] = Fresh]
        /\ message' = [message EXCEPT !.status = "pending"]
        /\ generation' = g + 1
        /\ row' = [status |-> "open", owner |-> None, starts |-> 0]
        /\ UNCHANGED <<service, dispatch, claimed, recorded, inFlight, delivered, spent>>
-------------------------------------------------------------------------------
Step(d) ==
    \/ Claim(d) \/ ClaimFails(d) \/ Refuse(d) \/ Request(d) \/ Respond(d)
    \/ RecordSent(d) \/ RecordSentFails(d) \/ RecordNotSent(d)
    \/ Mark(d) \/ MarkFails(d) \/ Finish(d)

Next ==
    \/ \E d \in Dispatches : Start(d) \/ Step(d) \/ Vanish(d)
    \/ Sweep
    \/ \E g \in Generations : LeaseLapses(g) \/ Provide(g) \/ ServiceSends(g)
    \/ \E g \in Generations, fresh, evidence \in BOOLEAN : ServiceClaim(g, fresh, evidence)
    \/ \E g \in Generations, s \in Sent \cup {"failed"} : Report(g, s)
    \/ ReconcileSent \/ ReconcileNotSent

Spec == Init /\ [][Next]_vars

\* The dispatcher claims an open row, a dispatch whose calls return goes on.
Fairness ==
    /\ WF_vars(Sweep) /\ WF_vars(\E d \in Dispatches : Start(d))
    /\ \A d \in Dispatches : WF_vars(Step(d))

FairSpec == Spec /\ Fairness
-------------------------------------------------------------------------------
(* Tables, dispatches and bounds hold values of their types. *)
TypeOK ==
    /\ message \in Message
    /\ attempts \in [Generations -> Attempt]
    /\ generation \in Generations
    /\ row \in Row
    /\ dispatch \in [Dispatches -> Dispatch]
    /\ service \in [Generations -> ServiceStage]
    /\ claimed \in SUBSET Generations /\ recorded \in SUBSET Generations
    /\ inFlight \in SUBSET Generations
    /\ delivered \in [Generations -> Nat]
    /\ spent \in Spent

\* The customer receives a message at most once: whatever is retried, taken
\* over, crashed, timed out, re-opened or claimed by a service, no two requests
\* of it are delivered, provided that evidence that it was not sent is true.
AtMostOnce ==
    /\ \A g \in Generations : delivered[g] <= 1
    /\ \A g, h \in Generations : delivered[g] > 0 /\ delivered[h] > 0 => g = h

\* A row concluded as delivered belongs to a message that is known as sent.
DeliveredMeansSent ==
    row.status = "delivered" => message.status \in Sent /\ delivered[generation] > 0

\* Results that arrive late, twice or in another order never take a message
\* back from a later delivery status to an earlier one, nor make it fail.
NeverTakenBack ==
    [][message.status \in Sent =>
          message'.status \in Sent /\ Rank[message'.status] >= Rank[message.status]]_vars

Quiet == inFlight = {} /\ \A d \in Dispatches : At(d, "idle")

\* A message that was delivered and has no result yet is never trapped in an
\* isolated row: once nothing runs and leases are over, an operator can confirm
\* it.  (A report can give it a result that does trap the row: a delivery without
\* the provider's identifier, or the late failure of an earlier attempt.)
DeliveredCanBeConfirmed ==
    row.status = "dead" /\ Quiet /\ delivered[generation] > 0
    /\ message.status = "pending"
    /\ (attempts[generation].state = "leased" => attempts[generation].lapsed)
        => CanConfirmSent

\* A message that was claimed for sending and has no result is not trapped
\* either: once leases are over, and if it was not delivered, an operator can
\* have it sent again.  (A row whose attempts are used up before its message is
\* claimed has no such way out.)
UndeliveredCanBeReopened ==
    row.status = "dead" /\ Quiet /\ delivered[generation] = 0
    /\ message.status = "pending"
    /\ attempts[generation].status = "pending" /\ attempts[generation].state # "ready"
    /\ (attempts[generation].state = "leased" => attempts[generation].lapsed)
        => CanConfirmNotSent

\* No isolated row is beyond an operator's help, whether its message was
\* delivered or not.
IsolatedCanBeReconciled == DeliveredCanBeConfirmed /\ UndeliveredCanBeReopened

\* A row does not stay open for ever: retries of one message come to an end,
\* in its delivery or in isolation.
EventuallySettled == row.status = "open" ~> row.status # "open"
===============================================================================
