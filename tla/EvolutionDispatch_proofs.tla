------------------------ MODULE EvolutionDispatch_proofs ------------------------
(***************************************************************************)
(* Proofs about EvolutionDispatch, for every value of its constants.       *)
(***************************************************************************)
EXTENDS EvolutionDispatch, TLAPS

\* The initial records are well typed.
LEMMA InitialRecords ==
    /\ Fresh \in Attempt /\ [Fresh EXCEPT !.status = "absent"] \in Attempt
    /\ Idle \in Dispatch
    /\ 1 \in Generations
<1>1. 1 \in Generations
  BY DispatchAssumption DEF Generations
<1>2. Fresh \in Attempt /\ [Fresh EXCEPT !.status = "absent"] \in Attempt
  BY DEF Fresh, Attempt, AttemptStatus, DispatchState
<1>3. Idle \in Dispatch
  BY <1>1 DEF Idle, Dispatch, Stages, Outcomes
<1>4. QED
  BY <1>1, <1>2, <1>3

\* The initial tables are well typed.
LEMMA InitTyped == Init => TypeOK
<1> SUFFICES ASSUME Init PROVE TypeOK
  OBVIOUS
<1>1. message \in Message
  BY DEF Init, Message, DeliveryStatus
<1>2. attempts \in [Generations -> Attempt]
  BY InitialRecords DEF Init
<1>3. row \in Row
  BY DispatchAssumption DEF Init, Row, RowStatus
<1>4. dispatch \in [Dispatches -> Dispatch]
  BY InitialRecords DEF Init
<1>5. spent \in Spent /\ service \in [Generations -> ServiceStage]
  BY DispatchAssumption DEF Init, Spent, ServiceStage
<1>6. QED
  BY <1>1, <1>2, <1>3, <1>4, <1>5, InitialRecords DEF Init, TypeOK
-------------------------------------------------------------------------------
(* Typing of the helpers that the actions share. *)

LEMMA StageTyped ==
    ASSUME TypeOK, NEW d \in Dispatches
    PROVE  /\ \A s \in Stages : Go(d, s) => dispatch' \in [Dispatches -> Dispatch]
           /\ \A o \in Outcomes : End(d, o) => dispatch' \in [Dispatches -> Dispatch]
           /\ Leave(d) => dispatch' \in [Dispatches -> Dispatch]
<1>1. dispatch[d] \in Dispatch
  BY DEF TypeOK
<1>2. ASSUME NEW s \in Stages, Go(d, s) PROVE dispatch' \in [Dispatches -> Dispatch]
  BY <1>1, <1>2 DEF TypeOK, Go, Dispatch
<1>3. ASSUME NEW o \in Outcomes, End(d, o) PROVE dispatch' \in [Dispatches -> Dispatch]
  BY <1>1, <1>3 DEF TypeOK, End, Dispatch, Stages
<1>4. ASSUME Leave(d) PROVE dispatch' \in [Dispatches -> Dispatch]
  BY <1>4, InitialRecords DEF TypeOK, Leave
<1>5. QED
  BY <1>2, <1>3, <1>4

LEMMA FaultTyped == TypeOK /\ Fault => spent' \in Spent
  BY DispatchAssumption DEF TypeOK, Fault, Spent

LEMMA UnknownTyped == \A a \in Attempt : Unknown(a) \in Attempt
  BY DEF Unknown, Attempt, DispatchState

\* A message keeps its status or takes the requested one.
LEMMA FinalStatusTyped ==
    ASSUME TypeOK, NEW requested \in DeliveryStatus
    PROVE  FinalStatus(requested) \in DeliveryStatus
  BY DEF TypeOK, FinalStatus, Message

LEMMA SaveResultTyped ==
    ASSUME TypeOK, NEW g \in Generations, NEW requested \in DeliveryStatus,
           NEW identified \in BOOLEAN, NEW misconfigured \in BOOLEAN,
           SaveResult(g, requested, identified, misconfigured)
    PROVE  attempts' \in [Generations -> Attempt] /\ message' \in Message
<1> DEFINE final == FinalStatus(requested)
<1>1. final \in DeliveryStatus
  BY FinalStatusTyped
<1> HIDE DEF final
<1>2. message' \in Message
  BY <1>1 DEF SaveResult, final, Message, TypeOK
<1>3. attempts[g] \in Attempt
  BY DEF TypeOK
<1>4. [status |-> IF final = "failed" THEN "failed" ELSE "succeeded",
       state  |-> IF final = "failed" THEN "failed" ELSE "succeeded",
       lapsed |-> FALSE,
       identified |-> attempts[g].identified \/ identified,
       misconfigured |-> final = "failed" /\ misconfigured] \in Attempt
  BY <1>3 DEF Attempt, AttemptStatus, DispatchState
<1>5. attempts' \in [Generations -> Attempt]
  BY <1>4 DEF SaveResult, final, TypeOK
<1>6. QED
  BY <1>2, <1>5
-------------------------------------------------------------------------------
(* Typing of the row and of the bounds, action by action. *)

LEMMA RowTyped ==
    ASSUME TypeOK, NEW d \in Dispatches, NEW s \in RowStatus, Conclude(s)
    PROVE  row' \in Row
  BY DEF TypeOK, Conclude, Row

LEMMA StartTyped ==
    ASSUME TypeOK, NEW d \in Dispatches, Start(d)
    PROVE  TypeOK'
<1>1. row' \in Row
  <2>1. row \in Row /\ row.starts + 1 \in 0 .. MaxStarts
    BY DispatchAssumption DEF TypeOK, Start, Row
  <2>2. row' = [row EXCEPT !.owner = d, !.starts = @ + 1]
    BY DEF Start
  <2>3. QED
    BY <2>1, <2>2 DEF Row
<1>2. dispatch' \in [Dispatches -> Dispatch]
  BY DEF TypeOK, Start, Dispatch, Stages
<1>3. spent' \in Spent
  BY DispatchAssumption DEF TypeOK, Start, Spent
<1>4. QED
  BY <1>1, <1>2, <1>3 DEF TypeOK, Start

LEMMA SweepTyped == TypeOK /\ Sweep => TypeOK'
<1> SUFFICES ASSUME TypeOK, Sweep PROVE TypeOK'
  OBVIOUS
<1>1. row' \in Row
  BY DEF TypeOK, Sweep, Row, RowStatus
<1>2. spent' \in Spent
  BY DispatchAssumption DEF TypeOK, Sweep, Spent
<1>3. QED
  BY <1>1, <1>2 DEF TypeOK, Sweep

LEMMA FinishTyped ==
    ASSUME TypeOK, NEW d \in Dispatches, Finish(d)
    PROVE  TypeOK'
<1>1. dispatch' \in [Dispatches -> Dispatch]
  BY StageTyped DEF Finish, Outcomes
<1>2. row' \in Row
  BY RowTyped DEF Finish, RowStatus, TypeOK
<1>3. QED
  BY <1>1, <1>2 DEF TypeOK, Finish

LEMMA VanishTyped ==
    ASSUME TypeOK, NEW d \in Dispatches, Vanish(d)
    PROVE  TypeOK'
<1>1. row' \in Row
  BY DEF TypeOK, Vanish, Row
<1>2. QED
  BY <1>1, StageTyped, FaultTyped DEF TypeOK, Vanish

LEMMA AnsweredTyped ==
    ASSUME TypeOK, NEW g \in Generations, NEW fresh, NEW evidence
    PROVE  Answered(g, fresh, evidence) \in [Generations -> Attempt]
<1>1. attempts[g] \in Attempt
  BY DEF TypeOK
<1> DEFINE leased == [attempts EXCEPT ![g].state = "leased", ![g].lapsed = FALSE]
<1>2. leased \in [Generations -> Attempt]
  BY <1>1 DEF TypeOK, Attempt, DispatchState
<1>3. [attempts EXCEPT ![g] = Unknown(@)] \in [Generations -> Attempt]
  BY <1>1, UnknownTyped DEF TypeOK
<1> HIDE DEF leased
<1>4. QED
  BY <1>2, <1>3 DEF Answered, leased, TypeOK

LEMMA ClaimTyped ==
    ASSUME TypeOK, NEW d \in Dispatches, Claim(d) \/ ClaimFails(d)
    PROVE  TypeOK'
<1> DEFINE g == dispatch[d].generation
<1>1. g \in Generations
  BY DEF TypeOK, Dispatch
<1>2. attempts' \in [Generations -> Attempt]
  <2>1. Answered(g, First(g), FALSE) \in [Generations -> Attempt]
    BY <1>1, AnsweredTyped, Zenon
  <2>2. attempts' = attempts \/ attempts' = Answered(g, First(g), FALSE)
    BY Zenon DEF Claim, ClaimFails
  <2>3. QED
    BY <2>1, <2>2 DEF TypeOK
<1>3. \A s : RefusedOutcome(s) \in Outcomes
  BY DEF RefusedOutcome, Outcomes
<1>4. dispatch' \in [Dispatches -> Dispatch]
  <2>1. CASE Claim(d)
    BY <2>1, <1>3, StageTyped DEF Claim, Stages
  <2>2. CASE ClaimFails(d)
    BY <2>2, StageTyped DEF ClaimFails, Outcomes
  <2>3. QED
    BY <2>1, <2>2
<1> HIDE DEF g
<1>5. claimed' \in SUBSET Generations
  BY <1>1 DEF TypeOK, Claim, ClaimFails, g
<1>6. QED
  BY <1>2, <1>4, <1>5, FaultTyped DEF Claim, ClaimFails, TypeOK

LEMMA ServiceTyped ==
    ASSUME TypeOK, NEW g \in Generations,
           \/ \E fresh, evidence \in BOOLEAN : ServiceClaim(g, fresh, evidence)
           \/ ServiceSends(g)
    PROVE  TypeOK'
<1>1. service' \in [Generations -> ServiceStage]
  BY DEF TypeOK, ServiceStage, ServiceClaim, ServiceSends
<1>2. attempts' \in [Generations -> Attempt]
  BY AnsweredTyped DEF TypeOK, ServiceClaim, ServiceSends
<1>3. spent' \in Spent
  BY DispatchAssumption DEF TypeOK, ServiceClaim, ServiceSends, Spent
<1>4. inFlight' \in SUBSET Generations
  BY DEF TypeOK, ServiceClaim, ServiceSends
<1>5. QED
  BY <1>1, <1>2, <1>3, <1>4 DEF TypeOK, ServiceClaim, ServiceSends

LEMMA LeaseLapsesTyped ==
    ASSUME TypeOK, NEW g \in Generations, LeaseLapses(g)
    PROVE  TypeOK'
<1>1. attempts' \in [Generations -> Attempt]
  BY DEF TypeOK, LeaseLapses, Attempt
<1>2. QED
  BY <1>1 DEF TypeOK, LeaseLapses

LEMMA CallTyped ==
    ASSUME TypeOK, NEW d \in Dispatches, Refuse(d) \/ Request(d) \/ Respond(d)
    PROVE  TypeOK'
<1>1. dispatch' \in [Dispatches -> Dispatch]
  BY StageTyped DEF Refuse, Request, Respond, Stages
<1>2. dispatch[d].generation \in Generations
  BY DEF TypeOK, Dispatch
<1>3. inFlight' \in SUBSET Generations
  BY <1>2 DEF TypeOK, Refuse, Request, Respond
<1>4. QED
  BY <1>1, <1>3 DEF TypeOK, Refuse, Request, Respond

LEMMA ProvideTyped ==
    ASSUME TypeOK, NEW g \in Generations, Provide(g)
    PROVE  TypeOK'
<1>1. delivered' \in [Generations -> Nat]
  BY DEF TypeOK, Provide
<1>2. QED
  BY <1>1 DEF TypeOK, Provide

LEMMA RecordTyped ==
    ASSUME TypeOK, NEW d \in Dispatches, NEW requested \in DeliveryStatus,
           Record(d, requested)
    PROVE  /\ attempts' \in [Generations -> Attempt] /\ message' \in Message
           /\ recorded' \in SUBSET Generations
<1>1. dispatch[d].generation \in Generations
  BY DEF TypeOK, Dispatch
<1>2. recorded' \in SUBSET Generations
  BY <1>1 DEF Record, TypeOK
<1>3. CASE dispatch[d].generation \in recorded
  BY <1>2, <1>3 DEF Record, TypeOK
<1>4. CASE dispatch[d].generation \notin recorded
  <2>1. PICK m \in {requested = "failed", FALSE} :
           SaveResult(dispatch[d].generation, requested, requested # "failed", m)
    BY <1>4 DEF Record
  <2>2. m \in BOOLEAN /\ (requested # "failed") \in BOOLEAN
    BY <2>1
  <2>3. QED
    BY <2>1, <2>2, <1>1, <1>2, SaveResultTyped
<1>5. QED
  BY <1>3, <1>4

LEMMA ResultTyped ==
    ASSUME TypeOK, NEW d \in Dispatches,
           RecordSent(d) \/ RecordSentFails(d) \/ RecordNotSent(d)
    PROVE  TypeOK'
<1>1. "sent" \in DeliveryStatus /\ "failed" \in DeliveryStatus
  BY DEF DeliveryStatus, Sent
<1>2. CASE RecordSent(d)
  BY <1>1, <1>2, RecordTyped, StageTyped DEF RecordSent, TypeOK, Outcomes
<1>3. CASE RecordSentFails(d)
  <2>1. dispatch' \in [Dispatches -> Dispatch]
    BY <1>3, StageTyped DEF RecordSentFails, Stages
  <2>2. /\ attempts' \in [Generations -> Attempt] /\ message' \in Message
        /\ recorded' \in SUBSET Generations
    BY <1>1, <1>3, RecordTyped DEF RecordSentFails, TypeOK
  <2>3. QED
    BY <2>1, <2>2, <1>3, FaultTyped DEF RecordSentFails, TypeOK
<1>4. CASE RecordNotSent(d)
  <2>1. dispatch' \in [Dispatches -> Dispatch]
    BY <1>4, StageTyped DEF RecordNotSent, Outcomes
  <2>2. /\ attempts' \in [Generations -> Attempt] /\ message' \in Message
        /\ recorded' \in SUBSET Generations
    BY <1>1, <1>4, RecordTyped DEF RecordNotSent, TypeOK
  <2>3. spent' \in Spent
    BY <1>4, FaultTyped DEF RecordNotSent, TypeOK
  <2>4. QED
    BY <2>1, <2>2, <2>3, <1>4 DEF RecordNotSent, TypeOK
<1>5. QED
  BY <1>2, <1>3, <1>4

LEMMA MarkTyped ==
    ASSUME TypeOK, NEW d \in Dispatches, Mark(d) \/ MarkFails(d)
    PROVE  TypeOK'
<1>1. dispatch[d].generation \in Generations
  BY DEF TypeOK, Dispatch
<1>2. dispatch' \in [Dispatches -> Dispatch]
  BY StageTyped DEF Mark, MarkFails, Outcomes
<1>3. attempts' \in [Generations -> Attempt]
  BY <1>1, UnknownTyped DEF Mark, MarkFails, Marked, TypeOK
<1>4. QED
  BY <1>2, <1>3, FaultTyped DEF Mark, MarkFails, TypeOK

LEMMA ReportTyped ==
    ASSUME TypeOK, NEW g \in Generations, NEW s \in Sent \cup {"failed"}, Report(g, s)
    PROVE  TypeOK'
<1>1. PICK identified \in BOOLEAN : SaveResult(g, s, s # "failed" /\ identified, FALSE)
  BY DEF Report
<1>2. s \in DeliveryStatus /\ (s # "failed" /\ identified) \in BOOLEAN
  BY DEF DeliveryStatus
<1>3. attempts' \in [Generations -> Attempt] /\ message' \in Message
  BY <1>1, <1>2, SaveResultTyped
<1>4. spent' \in Spent
  BY DispatchAssumption DEF Report, TypeOK, Spent
<1>5. QED
  BY <1>3, <1>4 DEF Report, TypeOK

LEMMA ReconcileTyped == TypeOK /\ (ReconcileSent \/ ReconcileNotSent) => TypeOK'
<1> SUFFICES ASSUME TypeOK, ReconcileSent \/ ReconcileNotSent PROVE TypeOK'
  OBVIOUS
<1>1. row' \in Row
  BY DispatchAssumption DEF TypeOK, ReconcileSent, ReconcileNotSent, Row, RowStatus
<1>2. message' \in Message
  <2>1. message \in Message /\ message.status \in DeliveryStatus
    BY DEF TypeOK, Message
  <2>2. CASE ReconcileSent
    <3> DEFINE status == IF message.status \in Sent THEN message.status ELSE "sent"
    <3>1. status \in DeliveryStatus
      BY DEF DeliveryStatus, Sent
    <3> HIDE DEF status
    <3>2. [status |-> status, identified |-> TRUE] \in Message
      BY <3>1 DEF Message
    <3>3. message' = message \/ message' = [status |-> status, identified |-> TRUE]
      BY <2>2 DEF ReconcileSent, status
    <3>4. QED
      BY <2>1, <3>2, <3>3
  <2>3. CASE ReconcileNotSent
    BY <2>1, <2>3 DEF ReconcileNotSent, Message, DeliveryStatus
  <2>4. QED
    BY <2>2, <2>3
<1>3. CASE ReconcileSent
  <2>1. attempts' \in [Generations -> Attempt]
    <3> DEFINE confirmed == [status |-> "succeeded", state |-> "succeeded", lapsed |-> FALSE,
                             identified |-> TRUE, misconfigured |-> FALSE]
    <3>1. confirmed \in Attempt
      BY DEF Attempt, AttemptStatus, DispatchState
    <3>2. attempts' = attempts \/ attempts' = [attempts EXCEPT ![generation] = confirmed]
      BY <1>3 DEF ReconcileSent
    <3> HIDE DEF confirmed
    <3>3. QED
      BY <3>1, <3>2 DEF TypeOK
  <2>2. QED
    BY <1>1, <1>2, <1>3, <2>1 DEF TypeOK, ReconcileSent
<1>4. CASE ReconcileNotSent
  <2>1. generation + 1 \in Generations
    BY <1>4, DispatchAssumption DEF TypeOK, ReconcileNotSent, Generations
  <2>2. attempts' \in [Generations -> Attempt]
    <3>1. generation \in Generations /\ attempts[generation] \in Attempt
      BY DEF TypeOK
    <3> DEFINE a == attempts[generation]
               closed == [a EXCEPT !.status = "failed", !.state = "failed",
                                   !.lapsed = FALSE, !.misconfigured = FALSE]
    <3>2. closed \in Attempt
      <4> HIDE DEF a
      <4>1. a \in Attempt
        BY <3>1 DEF a
      <4>2. QED
        BY <4>1 DEF Attempt, AttemptStatus, DispatchState
    <3>3. attempts' = [attempts EXCEPT ![generation] = closed, ![generation + 1] = Fresh]
      BY <1>4 DEF ReconcileNotSent
    <3>4. QED
      BY <2>1, <3>2, <3>3, InitialRecords DEF TypeOK
  <2>3. QED
    BY <1>1, <1>2, <1>4, <2>1, <2>2 DEF TypeOK, ReconcileNotSent
<1>5. QED
  BY <1>3, <1>4

LEMMA TypeStep == TypeOK /\ [Next]_vars => TypeOK'
<1> SUFFICES ASSUME TypeOK, [Next]_vars PROVE TypeOK'
  OBVIOUS
<1>1. CASE UNCHANGED vars
  BY <1>1 DEF vars, TypeOK
<1>2. ASSUME NEW d \in Dispatches, Start(d) \/ Step(d) \/ Vanish(d) PROVE TypeOK'
  BY <1>2, StartTyped, VanishTyped, ClaimTyped, CallTyped, ResultTyped, MarkTyped,
     FinishTyped DEF Step
<1>3. CASE Sweep
  BY <1>3, SweepTyped
<1>4. ASSUME NEW g \in Generations,
             \/ LeaseLapses(g) \/ Provide(g) \/ ServiceSends(g)
             \/ \E fresh, evidence \in BOOLEAN : ServiceClaim(g, fresh, evidence)
      PROVE  TypeOK'
  BY <1>4, LeaseLapsesTyped, ProvideTyped, ServiceTyped
<1>5. ASSUME NEW g \in Generations, NEW s \in Sent \cup {"failed"}, Report(g, s)
      PROVE TypeOK'
  BY <1>5, ReportTyped
<1>6. CASE ReconcileSent \/ ReconcileNotSent
  BY <1>6, ReconcileTyped
<1>7. QED
  BY <1>1, <1>2, <1>3, <1>4, <1>5, <1>6 DEF Next

\* The tables stay well typed, and the counters within their bounds.
THEOREM TypeCorrect == Spec => []TypeOK
  BY InitTyped, TypeStep, PTL DEF Spec
-------------------------------------------------------------------------------
(* At most one delivery.  A generation is sent by the one dispatch, or the one *)
(* service, that a claim told to send; its request is then in those hands, in  *)
(* flight or delivered, and in one of these places only.  An attempt that was  *)
(* told to be sent is never ready again, and is claimed for sending once more  *)
(* only when its request is in none of these places; for the same reason a     *)
(* generation is given up.                                                     *)

Sending(d, g) == dispatch[d].stage = "sending" /\ dispatch[d].generation = g

Untouched(g) ==
    /\ \A d \in Dispatches : ~Sending(d, g)
    /\ service[g] # "sending"
    /\ g \notin inFlight /\ delivered[g] = 0

SingleRequest ==
    /\ \A g \in Generations : attempts[g].state = "ready" => Untouched(g)
    /\ \A g \in Generations, d \in Dispatches :
          Sending(d, g) => g \notin inFlight /\ delivered[g] = 0 /\ service[g] # "sending"
    /\ \A g \in Generations, c, d \in Dispatches : Sending(c, g) /\ Sending(d, g) => c = d
    /\ \A g \in Generations : service[g] = "sending" => g \notin inFlight /\ delivered[g] = 0
    /\ \A g \in inFlight : delivered[g] = 0
    /\ \A g \in Generations : delivered[g] <= 1

OneGeneration ==
    /\ \A g \in Generations : g < generation => Untouched(g) /\ attempts[g].status # "pending"
    /\ \A g \in Generations : g > generation =>
          attempts[g].status = "absent" /\ attempts[g].state = "ready" /\ g \notin claimed
    /\ \A d \in Dispatches : dispatch[d].generation <= generation

DeliveryInv == TypeOK /\ SingleRequest /\ OneGeneration

LEMMA DeliveryInvInit == Init => DeliveryInv
<1> SUFFICES ASSUME Init PROVE DeliveryInv
  OBVIOUS
<1>1. TypeOK
  BY InitTyped
<1>2. \A d \in Dispatches : dispatch[d].stage = "idle" /\ dispatch[d].generation = 1
  BY DEF Init, Idle
<1>3. \A g \in Generations : Untouched(g)
  BY <1>2 DEF Init, Untouched, Sending
<1>4. SingleRequest
  BY <1>2, <1>3 DEF Init, SingleRequest, Untouched, Sending
<1>5. \A g \in Generations :
         /\ ~(g < 1)
         /\ g > 1 => attempts[g].status = "absent" /\ attempts[g].state = "ready"
  BY DispatchAssumption DEF Init, Generations, Fresh
<1>6. OneGeneration
  BY <1>2, <1>5 DEF Init, OneGeneration
<1>7. QED
  BY <1>1, <1>4, <1>6 DEF DeliveryInv

\* What most steps do to the attempts: none becomes pending or ready, and those
\* of later generations stay as they are.
Settles ==
    /\ \A h \in Generations : h > generation => attempts'[h] = attempts[h]
    /\ \A h \in Generations : attempts'[h].status = "pending" => attempts[h].status = "pending"
    /\ \A h \in Generations : attempts'[h].state = "ready" => attempts[h].state = "ready"

\* Most steps make no request, and at most take a dispatch out of "sending".
LEMMA NothingSent ==
    ASSUME DeliveryInv, TypeOK', UNCHANGED <<generation, claimed, inFlight, delivered>>,
           Settles,
           \A g \in Generations : service'[g] = "sending" => service[g] = "sending",
           \A d \in Dispatches :
              /\ dispatch'[d].stage = "sending" => dispatch'[d] = dispatch[d]
              /\ dispatch'[d].generation <= generation
    PROVE  DeliveryInv'
<1>1. \A d \in Dispatches, g \in Generations : Sending(d, g)' => Sending(d, g)
  BY DEF Sending
<1>2. \A g \in Generations : Untouched(g) => Untouched(g)'
  BY <1>1 DEF Untouched
<1>3. SingleRequest'
  BY <1>1, <1>2 DEF DeliveryInv, SingleRequest, TypeOK, Settles
<1>4. OneGeneration'
  BY <1>2 DEF DeliveryInv, OneGeneration, Settles
<1>5. QED
  BY <1>3, <1>4 DEF DeliveryInv

LEMMA Unchanged ==
    ASSUME attempts' = attempts PROVE Settles
  BY DEF Settles

\* A step that changes an attempt which is there, and neither opens nor readies it.
LEMMA SettlesAt ==
    ASSUME DeliveryInv, NEW g \in Generations,
           attempts[g].status # "absent" \/ attempts[g].state # "ready" \/ g <= generation,
           \A h \in Generations \ {g} : attempts'[h] = attempts[h],
           attempts'[g].status = "pending" => attempts[g].status = "pending",
           attempts'[g].state = "ready" => attempts[g].state = "ready"
    PROVE  Settles
<1>1. ~(g > generation)
  BY DEF DeliveryInv, OneGeneration, TypeOK, Generations
<1>2. QED
  BY <1>1 DEF Settles

\* The dispatches after one of them left, ended or went to another stage.
LEMMA NotToSending ==
    ASSUME DeliveryInv, NEW d \in Dispatches,
           \/ Leave(d)
           \/ \E o \in Outcomes : End(d, o)
           \/ \E s \in Stages \ {"sending"} : Go(d, s)
    PROVE  \A c \in Dispatches :
              /\ dispatch'[c].stage = "sending" => dispatch'[c] = dispatch[c]
              /\ dispatch'[c].generation <= generation
<1>1. /\ dispatch \in [Dispatches -> Dispatch] /\ generation \in Generations
      /\ \A c \in Dispatches : dispatch[c].generation <= generation
  BY DEF DeliveryInv, TypeOK, OneGeneration
<1>2. 1 <= generation
  BY <1>1 DEF Generations
<1>3. CASE Leave(d)
  BY <1>1, <1>2, <1>3 DEF Leave, Idle
<1>4. ASSUME NEW o \in Outcomes, End(d, o)
      PROVE \A c \in Dispatches :
              /\ dispatch'[c].stage = "sending" => dispatch'[c] = dispatch[c]
              /\ dispatch'[c].generation <= generation
  BY <1>1, <1>4 DEF End, Dispatch
<1>5. ASSUME NEW s \in Stages \ {"sending"}, Go(d, s)
      PROVE \A c \in Dispatches :
              /\ dispatch'[c].stage = "sending" => dispatch'[c] = dispatch[c]
              /\ dispatch'[c].generation <= generation
  BY <1>1, <1>5 DEF Go, Dispatch
<1>6. QED
  BY <1>3, <1>4, <1>5

\* A recorded result leaves no attempt pending, and creates none.
LEMMA SaveResultSettles ==
    ASSUME DeliveryInv, NEW g \in Generations, NEW requested, NEW identified,
           NEW misconfigured, attempts[g].status # "absent" \/ g <= generation,
           SaveResult(g, requested, identified, misconfigured)
    PROVE  Settles
<1>1. attempts \in [Generations -> Attempt]
  BY DEF DeliveryInv, TypeOK
<1>2. /\ attempts'[g].status \in {"failed", "succeeded"}
      /\ attempts'[g].state \in {"failed", "succeeded"}
  BY <1>1 DEF SaveResult
<1>3. \A h \in Generations \ {g} : attempts'[h] = attempts[h]
  BY <1>1 DEF SaveResult
<1>4. QED
  BY <1>2, <1>3, SettlesAt

LEMMA RecordSettles ==
    ASSUME DeliveryInv, NEW d \in Dispatches, NEW requested, Record(d, requested)
    PROVE  Settles
<1>1. dispatch[d].generation \in Generations /\ dispatch[d].generation <= generation
  BY DEF DeliveryInv, TypeOK, Dispatch, OneGeneration
<1>2. CASE dispatch[d].generation \in recorded
  BY <1>2, Unchanged DEF Record
<1>3. CASE dispatch[d].generation \notin recorded
  <2>1. PICK m : SaveResult(dispatch[d].generation, requested, requested # "failed", m)
    BY <1>3 DEF Record
  <2>2. QED
    BY <1>1, <2>1, SaveResultSettles
<1>4. QED
  BY <1>2, <1>3

\* Leases and claims change the state of an attempt, to one that is no result, and
\* never its status.
LEMMA StateKept ==
    ASSUME TypeOK, NEW g \in Generations,
           \/ attempts' = attempts
           \/ attempts' = [attempts EXCEPT ![g] = Unknown(@)]
           \/ attempts' = [attempts EXCEPT ![g].state = "leased", ![g].lapsed = FALSE]
    PROVE  \A h \in Generations :
              \/ attempts'[h] = attempts[h]
              \/ /\ h = g
                 /\ attempts'[h].state \in {"leased", "unknown"}
                 /\ attempts'[h].status = attempts[h].status
                 /\ attempts'[h].identified = attempts[h].identified
<1>1. \A a \in Attempt : /\ Unknown(a).state = "unknown"
                         /\ Unknown(a).status = a.status
                         /\ Unknown(a).identified = a.identified
  BY DEF Unknown, Attempt
<1>2. attempts \in [Generations -> Attempt] /\ attempts[g] \in Attempt
  BY DEF TypeOK
<1>3. CASE attempts' = [attempts EXCEPT ![g] = Unknown(@)]
  BY <1>1, <1>2, <1>3
<1>4. CASE attempts' = [attempts EXCEPT ![g].state = "leased", ![g].lapsed = FALSE]
  <2> DEFINE leased(a) == [a EXCEPT !.state = "leased", !.lapsed = FALSE]
  <2>1. attempts' = [attempts EXCEPT ![g] = leased(@)]
    BY <1>4
  <2>2. \A a \in Attempt : /\ leased(a).state = "leased"
                           /\ leased(a).status = a.status
                           /\ leased(a).identified = a.identified
    BY DEF Attempt
  <2> HIDE DEF leased
  <2>3. QED
    BY <1>2, <2>1, <2>2
<1>5. QED
  BY <1>3, <1>4

LEMMA MarkedCases ==
    ASSUME TypeOK, NEW g \in Generations, attempts' = Marked(g)
    PROVE  \A h \in Generations :
              \/ attempts'[h] = attempts[h]
              \/ /\ h = g
                 /\ attempts'[h].state \in {"leased", "unknown"}
                 /\ attempts'[h].status = attempts[h].status
                 /\ attempts'[h].identified = attempts[h].identified
  BY StateKept DEF Marked

\* What a claim makes of the attempts: one that is told to be sent is leased.
LEMMA AnsweredCases ==
    ASSUME TypeOK, NEW g \in Generations, NEW fresh, NEW evidence,
           attempts' = Answered(g, fresh, evidence)
    PROVE  /\ \A h \in Generations :
                 \/ attempts'[h] = attempts[h]
                 \/ /\ h = g
                    /\ attempts'[h].state \in {"leased", "unknown"}
                    /\ attempts'[h].status = attempts[h].status
                    /\ attempts'[h].identified = attempts[h].identified
           /\ MaySend(g, fresh, evidence) => attempts'[g].state = "leased"
<1>1. \/ attempts' = attempts
      \/ attempts' = [attempts EXCEPT ![g] = Unknown(@)]
      \/ attempts' = [attempts EXCEPT ![g].state = "leased", ![g].lapsed = FALSE]
  BY DEF Answered
<1>2. ASSUME MaySend(g, fresh, evidence) PROVE attempts'[g].state = "leased"
  <2>1. attempts' = [attempts EXCEPT ![g].state = "leased", ![g].lapsed = FALSE]
    BY <1>2 DEF Answered, MaySend, Isolates, Lapsed
  <2>2. attempts \in [Generations -> Attempt] /\ attempts[g] \in Attempt
    BY DEF TypeOK
  <2>3. QED
    BY <2>1, <2>2 DEF Attempt
<1>3. QED
  BY <1>1, <1>2, StateKept

\* A claim hands the request to one dispatch: it finds the attempt ready.
LEMMA ClaimInv ==
    ASSUME DeliveryInv, TypeOK', NEW d \in Dispatches, Claim(d) \/ ClaimFails(d)
    PROVE  DeliveryInv'
<1> DEFINE g == dispatch[d].generation
           told == MaySend(g, First(g), FALSE)
<1>1. /\ g \in Generations /\ g <= generation /\ generation \in Generations
      /\ dispatch \in [Dispatches -> Dispatch] /\ TypeOK
  BY DEF DeliveryInv, TypeOK, Dispatch, OneGeneration
<1>2. UNCHANGED <<generation, inFlight, delivered, service>>
  BY DEF Claim, ClaimFails
<1>3. claimed' = claimed \/ claimed' = claimed \cup {g}
  BY DEF Claim, ClaimFails
<1>4. Settles /\ (told /\ Claim(d) => attempts'[g].state = "leased")
  <2>1. CASE attempts' = Answered(g, First(g), FALSE)
    <3>1. /\ \A h \in Generations :
                \/ attempts'[h] = attempts[h]
                \/ /\ h = g
                   /\ attempts'[h].state \in {"leased", "unknown"}
                   /\ attempts'[h].status = attempts[h].status
                   /\ attempts'[h].identified = attempts[h].identified
          /\ told => attempts'[g].state = "leased"
      BY <1>1, <2>1, AnsweredCases, Zenon
    <3> HIDE DEF told
    <3>2. QED
      BY <1>1, <3>1, SettlesAt
  <2>2. CASE attempts' = attempts /\ ~Claim(d)
    BY <2>2, Unchanged
  <2>3. attempts' = Answered(g, First(g), FALSE) \/ (attempts' = attempts /\ ~Claim(d))
    <3>1. CASE Claim(d)
      BY <3>1, Zenon DEF Claim
    <3>2. CASE ~Claim(d)
      BY <3>2, Zenon DEF ClaimFails
    <3>3. QED
      BY <3>1, <3>2
  <2>4. QED
    BY <2>1, <2>2, <2>3
<1>5. (\E stage \in Stages : Go(d, stage)) \/ (\E o : End(d, o))
  <2>1. Go(d, "sending") \/ \E o : End(d, o)
    BY Zenon DEF Claim, ClaimFails
  <2>2. QED
    BY <2>1 DEF Stages
<1>6. /\ \A c \in Dispatches \ {d} : dispatch'[c] = dispatch[c]
      /\ \A c \in Dispatches : dispatch'[c].generation = dispatch[c].generation
  BY <1>1, <1>5 DEF Go, End, Dispatch
<1>7. dispatch'[d].stage = "sending" => told /\ Claim(d)
  <2>1. CASE Claim(d) /\ told
    BY <2>1
  <2>2. CASE ~Claim(d) \/ ~told
    <3>1. \E o : End(d, o)
      BY <2>2, Zenon DEF Claim, ClaimFails
    <3>2. QED
      BY <1>1, <3>1 DEF End, Dispatch
  <2>3. QED
    BY <2>1, <2>2
<1>8. told => Untouched(g) /\ g = generation
  BY <1>1 DEF MaySend, Pending, DeliveryInv, SingleRequest, OneGeneration, Generations
<1> HIDE DEF told
<1>9. \A c \in Dispatches, h \in Generations :
         Sending(c, h)' => Sending(c, h) \/ (c = d /\ h = g /\ told /\ Claim(d))
  BY <1>6, <1>7 DEF Sending
<1> HIDE DEF g
<1>10. \A h \in Generations : Untouched(h) /\ ~(h = g /\ told /\ Claim(d)) => Untouched(h)'
  BY <1>2, <1>9 DEF Untouched
<1>11. SingleRequest'
  <2>1. \A h \in Generations : attempts'[h].state = "ready" => Untouched(h)'
    BY <1>4, <1>10 DEF DeliveryInv, SingleRequest, Settles
  <2>2. \A h \in Generations, c \in Dispatches :
           Sending(c, h)' => /\ h \notin inFlight' /\ delivered'[h] = 0
                             /\ service'[h] # "sending"
    BY <1>2, <1>8, <1>9 DEF DeliveryInv, SingleRequest, Untouched
  <2>3. \A h \in Generations, b, c \in Dispatches : Sending(b, h)' /\ Sending(c, h)' => b = c
    BY <1>8, <1>9 DEF DeliveryInv, SingleRequest, Untouched
  <2>4. QED
    BY <1>2, <2>1, <2>2, <2>3 DEF DeliveryInv, SingleRequest
<1>12. OneGeneration'
  <2>1. \A h \in Generations : h < generation => ~(h = g /\ told /\ Claim(d))
    BY <1>1, <1>8 DEF Generations
  <2>2. \A h \in Generations : h < generation => Untouched(h)'
    BY <2>1, <1>10 DEF DeliveryInv, OneGeneration
  <2>3. \A h \in Generations : h > generation => h \notin claimed'
    BY <1>1, <1>3 DEF DeliveryInv, OneGeneration, Generations
  <2>4. QED
    BY <1>2, <1>4, <1>6, <2>2, <2>3 DEF DeliveryInv, OneGeneration, Settles
<1>13. QED
  BY <1>11, <1>12 DEF DeliveryInv

\* A service is told to send an attempt that is ready, or one whose request its
\* evidence says is nowhere.
LEMMA ServiceClaimInv ==
    ASSUME DeliveryInv, TypeOK', NEW g \in Generations, NEW fresh \in BOOLEAN,
           NEW evidence \in BOOLEAN, ServiceClaim(g, fresh, evidence)
    PROVE  DeliveryInv'
<1> DEFINE told == MaySend(g, fresh, evidence)
<1>1. /\ TypeOK /\ generation \in Generations /\ service \in [Generations -> ServiceStage]
      /\ UNCHANGED <<generation, dispatch, claimed, inFlight, delivered>>
      /\ attempts[g].status # "absent"
      /\ \A d \in Dispatches : dispatch[d].generation <= generation
  BY DEF DeliveryInv, TypeOK, OneGeneration, ServiceClaim
<1>2. Settles /\ (told => attempts'[g].state = "leased")
  <2>1. attempts' = Answered(g, fresh, evidence)
    BY DEF ServiceClaim
  <2>2. QED
    BY <1>1, <2>1, AnsweredCases, SettlesAt
<1>3. /\ \A h \in Generations \ {g} : service'[h] = service[h]
      /\ ~told => (service'[g] = "sending" => service[g] = "sending")
  BY <1>1 DEF ServiceClaim
<1>4. told => Untouched(g) /\ ~(g < generation)
  <2>1. ASSUME told PROVE Untouched(g)
    <3>1. CASE attempts[g].state = "ready"
      BY <3>1 DEF DeliveryInv, SingleRequest
    <3>2. CASE evidence
      BY <3>2 DEF ServiceClaim, NeverSent, Untouched, Sending, At
    <3>3. QED
      BY <2>1, <3>1, <3>2 DEF MaySend
  <2>2. told => attempts[g].status = "pending"
    BY DEF MaySend, Pending
  <2>3. QED
    BY <2>1, <2>2 DEF DeliveryInv, OneGeneration
<1> HIDE DEF told
<1>5. \A d \in Dispatches, h \in Generations : Sending(d, h)' <=> Sending(d, h)
  BY <1>1 DEF Sending
<1>6. CASE ~told
  BY <1>1, <1>2, <1>3, <1>6, NothingSent
<1>7. CASE told
  <2>1. \A h \in Generations : h # g => (Untouched(h)' <=> Untouched(h))
    BY <1>1, <1>3, <1>5 DEF Untouched
  <2>2. SingleRequest'
    BY <1>1, <1>2, <1>3, <1>4, <1>5, <1>7, <2>1
       DEF DeliveryInv, SingleRequest, Settles, Untouched
  <2>3. OneGeneration'
    BY <1>1, <1>2, <1>4, <1>7, <2>1 DEF DeliveryInv, OneGeneration, Settles
  <2>4. QED
    BY <2>2, <2>3 DEF DeliveryInv
<1>8. QED
  BY <1>6, <1>7

\* The request leaves the hands of its dispatch when it goes in flight.
LEMMA RequestInv ==
    ASSUME DeliveryInv, TypeOK', NEW d \in Dispatches, Request(d)
    PROVE  DeliveryInv'
<1> DEFINE g == dispatch[d].generation
<1>1. /\ g \in Generations /\ dispatch \in [Dispatches -> Dispatch]
      /\ Sending(d, g)
  BY DEF DeliveryInv, TypeOK, Dispatch, Request, At, Sending
<1>2. /\ UNCHANGED <<attempts, generation, claimed, delivered, service>>
      /\ inFlight' = inFlight \cup {g}
  BY DEF Request
<1>3. \A c \in Dispatches : /\ dispatch'[c].generation = dispatch[c].generation
                            /\ c # d => dispatch'[c] = dispatch[c]
                            /\ dispatch'[d].stage # "sending"
  BY <1>1 DEF Request, Go, Dispatch
<1>4. \A c \in Dispatches, h \in Generations : Sending(c, h)' => Sending(c, h) /\ c # d
  BY <1>3 DEF Sending
<1>5. delivered[g] = 0 /\ ~Untouched(g) /\ service[g] # "sending"
  BY <1>1 DEF DeliveryInv, SingleRequest, Untouched
<1> HIDE DEF g
<1>6. \A h \in Generations : Untouched(h) => Untouched(h)'
  BY <1>2, <1>4, <1>5 DEF Untouched
<1>7. SingleRequest'
  <2>1. \A h \in Generations, c \in Dispatches :
           Sending(c, h)' => /\ h \notin inFlight' /\ delivered'[h] = 0
                             /\ service'[h] # "sending"
    BY <1>1, <1>2, <1>4 DEF DeliveryInv, SingleRequest
  <2>2. QED
    BY <1>2, <1>4, <1>5, <1>6, <2>1 DEF DeliveryInv, SingleRequest
<1>8. OneGeneration'
  BY <1>2, <1>3, <1>6 DEF DeliveryInv, OneGeneration
<1>9. QED
  BY <1>7, <1>8 DEF DeliveryInv

LEMMA ServiceSendsInv ==
    ASSUME DeliveryInv, TypeOK', NEW g \in Generations, ServiceSends(g)
    PROVE  DeliveryInv'
<1>1. /\ TypeOK /\ UNCHANGED <<attempts, generation, dispatch, claimed, delivered>>
      /\ service[g] = "sending" /\ service'[g] = "sent"
      /\ \A h \in Generations \ {g} : service'[h] = service[h]
      /\ inFlight' = inFlight \cup {g} \/ inFlight' = inFlight
  BY DEF DeliveryInv, TypeOK, ServiceSends
<1>2. /\ ~Untouched(g) /\ delivered[g] = 0 /\ g \notin inFlight
      /\ \A d \in Dispatches : ~Sending(d, g)
  BY <1>1 DEF DeliveryInv, SingleRequest, Untouched
<1>3. \A d \in Dispatches, h \in Generations : Sending(d, h)' <=> Sending(d, h)
  BY <1>1 DEF Sending
<1>4. \A h \in Generations : Untouched(h) => Untouched(h)'
  BY <1>1, <1>2, <1>3 DEF Untouched
<1>5. SingleRequest'
  BY <1>1, <1>2, <1>3, <1>4 DEF DeliveryInv, SingleRequest
<1>6. OneGeneration'
  BY <1>1, <1>4 DEF DeliveryInv, OneGeneration
<1>7. QED
  BY <1>5, <1>6 DEF DeliveryInv

\* The provider decides a request once.
LEMMA ProvideInv ==
    ASSUME DeliveryInv, TypeOK', NEW g \in Generations, Provide(g)
    PROVE  DeliveryInv'
<1>1. /\ g \in inFlight /\ inFlight' = inFlight \ {g}
      /\ UNCHANGED <<attempts, generation, dispatch, service, claimed>>
      /\ delivered[g] = 0 /\ delivered'[g] \in {0, 1}
      /\ \A h \in Generations \ {g} : delivered'[h] = delivered[h]
  BY DEF Provide, DeliveryInv, SingleRequest, TypeOK
<1>2. /\ ~Untouched(g) /\ service[g] # "sending"
      /\ \A d \in Dispatches : ~Sending(d, g)
  BY <1>1 DEF DeliveryInv, SingleRequest, Untouched
<1>3. \A d \in Dispatches, h \in Generations : Sending(d, h)' <=> Sending(d, h)
  BY <1>1 DEF Sending
<1>4. \A h \in Generations : Untouched(h) => Untouched(h)'
  BY <1>1, <1>2, <1>3 DEF Untouched
<1>5. SingleRequest'
  BY <1>1, <1>2, <1>3, <1>4 DEF DeliveryInv, SingleRequest, TypeOK
<1>6. OneGeneration'
  BY <1>1, <1>4 DEF DeliveryInv, OneGeneration
<1>7. QED
  BY <1>5, <1>6 DEF DeliveryInv

\* A generation is given up only when nothing of it is left to be delivered.
LEMMA ReconcileNotSentInv ==
    ASSUME DeliveryInv, TypeOK', ReconcileNotSent
    PROVE  DeliveryInv'
<1> DEFINE g == generation
<1>1. /\ g \in Generations /\ g + 1 \in Generations /\ generation' = g + 1
      /\ attempts \in [Generations -> Attempt]
      /\ UNCHANGED <<dispatch, service, claimed, inFlight, delivered>>
  BY DispatchAssumption DEF DeliveryInv, TypeOK, ReconcileNotSent, Generations
<1>2. Untouched(g)
  BY DEF ReconcileNotSent, NeverSent, Untouched, Sending, At
<1>3. /\ attempts'[g].status = "failed" /\ attempts'[g].state = "failed"
      /\ attempts'[g + 1] = Fresh
      /\ \A h \in Generations : h # g /\ h # g + 1 => attempts'[h] = attempts[h]
  <2> DEFINE closed(a) == [a EXCEPT !.status = "failed", !.state = "failed",
                                    !.lapsed = FALSE, !.misconfigured = FALSE]
  <2>1. \A a \in Attempt : closed(a).status = "failed" /\ closed(a).state = "failed"
    BY DEF Attempt
  <2>2. attempts' = [attempts EXCEPT ![g] = closed(@), ![g + 1] = Fresh]
    BY DEF ReconcileNotSent
  <2> HIDE DEF closed
  <2>3. attempts[g] \in Attempt /\ g # g + 1
    BY <1>1 DEF Generations
  <2>4. QED
    BY <1>1, <2>1, <2>2, <2>3
<1>4. \A d \in Dispatches, h \in Generations : Sending(d, h)' <=> Sending(d, h)
  BY <1>1 DEF Sending
<1>5. \A h \in Generations : Untouched(h)' <=> Untouched(h)
  BY <1>1, <1>4 DEF Untouched
<1>6. SingleRequest'
  <2>1. Untouched(g + 1)
    BY <1>1 DEF DeliveryInv, OneGeneration, SingleRequest, Generations
  <2>2. \A h \in Generations : attempts'[h].state = "ready" => Untouched(h)'
    BY <1>3, <1>5, <2>1 DEF DeliveryInv, SingleRequest
  <2>3. QED
    BY <1>1, <1>4, <2>2 DEF DeliveryInv, SingleRequest
<1>7. OneGeneration'
  <2>1. ASSUME NEW h \in Generations, h < g + 1
        PROVE  Untouched(h) /\ attempts'[h].status # "pending"
    BY <1>1, <1>2, <1>3, <2>1 DEF DeliveryInv, OneGeneration, Generations
  <2>2. ASSUME NEW h \in Generations, h > g + 1
        PROVE  /\ attempts'[h].status = "absent" /\ attempts'[h].state = "ready"
               /\ h \notin claimed
    BY <1>1, <1>3, <2>2 DEF DeliveryInv, OneGeneration, Generations
  <2>3. ASSUME NEW d \in Dispatches PROVE dispatch[d].generation <= g + 1
    BY <1>1 DEF DeliveryInv, OneGeneration, TypeOK, Dispatch, Generations
  <2>4. QED
    BY <1>1, <1>5, <2>1, <2>2, <2>3 DEF OneGeneration
<1>8. QED
  BY <1>6, <1>7 DEF DeliveryInv

\* Every other step sends nothing.
LEMMA OtherStepsInv ==
    ASSUME DeliveryInv, TypeOK',
           \/ Sweep \/ ReconcileSent
           \/ \E d \in Dispatches :
                 \/ Start(d) \/ Vanish(d) \/ Finish(d) \/ Refuse(d) \/ Respond(d)
                 \/ RecordSent(d) \/ RecordSentFails(d) \/ RecordNotSent(d)
                 \/ Mark(d) \/ MarkFails(d)
           \/ \E g \in Generations : LeaseLapses(g)
           \/ \E g \in Generations, s \in Sent \cup {"failed"} : Report(g, s)
    PROVE  DeliveryInv'
<1> DEFINE StaysAway == \A d \in Dispatches :
              /\ dispatch'[d].stage = "sending" => dispatch'[d] = dispatch[d]
              /\ dispatch'[d].generation <= generation
<1>1. /\ TypeOK /\ generation \in Generations
      /\ dispatch \in [Dispatches -> Dispatch] /\ attempts \in [Generations -> Attempt]
      /\ \A d \in Dispatches : dispatch[d].generation <= generation
  BY DEF DeliveryInv, TypeOK, OneGeneration
<1>2. CASE Sweep
  BY <1>1, <1>2, Unchanged, NothingSent DEF Sweep
<1>3. CASE ReconcileSent
  <2>1. Settles
    <3>1. CASE attempts' = attempts
      BY <3>1, Unchanged
    <3>2. CASE ~AlreadyPersisted
      BY <1>1, <1>3, <3>2, SettlesAt DEF ReconcileSent, CanConfirmSent, Awaiting
    <3>3. QED
      BY <1>3, <3>1, <3>2 DEF ReconcileSent
  <2>2. QED
    BY <2>1, <1>1, <1>3, NothingSent DEF ReconcileSent
<1>4. ASSUME NEW d \in Dispatches, Start(d) PROVE DeliveryInv'
  <2>1. StaysAway
    <3>1. dispatch' = [dispatch EXCEPT ![d] =
             [stage |-> "claiming", generation |-> generation, outcome |-> "none"]]
      BY <1>4 DEF Start
    <3>2. generation <= generation
      BY <1>1 DEF Generations
    <3>3. QED
      BY <1>1, <3>1, <3>2
  <2>2. QED
    BY <2>1, <1>4, Unchanged, NothingSent DEF Start
<1>5. ASSUME NEW d \in Dispatches, Vanish(d) \/ Finish(d) \/ Refuse(d) \/ Respond(d)
      PROVE  DeliveryInv'
  <2>1. StaysAway
    BY <1>5, NotToSending DEF Vanish, Finish, Refuse, Respond, Outcomes, Stages
  <2>2. QED
    BY <2>1, <1>5, Unchanged, NothingSent DEF Vanish, Finish, Refuse, Respond
<1>6. ASSUME NEW d \in Dispatches, RecordSent(d) \/ RecordSentFails(d) \/ RecordNotSent(d)
      PROVE  DeliveryInv'
  <2>1. StaysAway
    BY <1>6, NotToSending DEF RecordSent, RecordSentFails, RecordNotSent, Outcomes, Stages
  <2>2. Settles
    BY <1>1, <1>6, RecordSettles, Unchanged DEF RecordSent, RecordSentFails, RecordNotSent
  <2>3. QED
    BY <2>1, <2>2, <1>6, NothingSent DEF RecordSent, RecordSentFails, RecordNotSent
<1>7. ASSUME NEW d \in Dispatches, Mark(d) \/ MarkFails(d) PROVE DeliveryInv'
  <2>1. StaysAway
    BY <1>7, NotToSending DEF Mark, MarkFails, Outcomes
  <2>2. Settles
    <3>1. dispatch[d].generation \in Generations
      BY <1>1 DEF Dispatch
    <3> DEFINE g == dispatch[d].generation
    <3>2. CASE attempts' = attempts
      BY <3>2, Unchanged
    <3>3. CASE attempts' = Marked(g) /\ attempts' # attempts
      <4>1. g \in Generations /\ attempts[g].state = "leased"
        BY <3>1, <3>3 DEF Marked, Leasing
      <4> HIDE DEF g
      <4>2. \A h \in Generations :
               \/ attempts'[h] = attempts[h]
               \/ /\ h = g
                  /\ attempts'[h].state \in {"leased", "unknown"}
                  /\ attempts'[h].status = attempts[h].status
        BY <1>1, <3>3, <4>1, MarkedCases
      <4>3. QED
        BY <3>3, <4>1, <4>2, SettlesAt
    <3>4. QED
      BY <1>7, <3>2, <3>3 DEF Mark, MarkFails
  <2>3. QED
    BY <2>1, <2>2, <1>7, NothingSent DEF Mark, MarkFails
<1>8. ASSUME NEW g \in Generations, LeaseLapses(g) PROVE DeliveryInv'
  <2>1. Settles
    <3>1. \A h \in Generations : /\ attempts'[h].state = attempts[h].state
                                 /\ attempts'[h].status = attempts[h].status
      BY <1>1, <1>8 DEF LeaseLapses, Attempt
    <3>2. QED
      BY <1>1, <1>8, <3>1, SettlesAt DEF LeaseLapses
  <2>2. QED
    BY <2>1, <1>1, <1>8, NothingSent DEF LeaseLapses
<1>9. ASSUME NEW g \in Generations, NEW s \in Sent \cup {"failed"}, Report(g, s)
      PROVE  DeliveryInv'
  <2>1. Settles
    BY <1>9, SaveResultSettles DEF Report, Recordable
  <2>2. QED
    BY <2>1, <1>1, <1>9, NothingSent DEF Report
<1>10. QED
  BY <1>2, <1>3, <1>4, <1>5, <1>6, <1>7, <1>8, <1>9

\* Only the latest generation can have been delivered: an older one was given up
\* because it was not, and a later one has not been claimed.
LEMMA DeliveredGeneration ==
    ASSUME DeliveryInv, NEW g \in Generations, delivered[g] > 0
    PROVE  g = generation
<1>1. ~Untouched(g)
  BY DEF Untouched
<1>2. ~(g > generation)
  BY <1>1 DEF DeliveryInv, SingleRequest, OneGeneration
<1>3. ~(g < generation)
  BY <1>1 DEF DeliveryInv, OneGeneration
<1>4. QED
  BY <1>2, <1>3 DEF DeliveryInv, TypeOK, Generations

LEMMA DeliveryStep == DeliveryInv /\ TypeOK' /\ [Next]_vars => DeliveryInv'
<1> SUFFICES ASSUME DeliveryInv, TypeOK', [Next]_vars PROVE DeliveryInv'
  OBVIOUS
<1>1. CASE UNCHANGED vars
  BY <1>1, Unchanged, NothingSent DEF vars, DeliveryInv, OneGeneration
<1>2. CASE Next
  BY <1>2, ClaimInv, ServiceClaimInv, ServiceSendsInv, RequestInv, ProvideInv, ReconcileNotSentInv, OtherStepsInv
     DEF Next, Step
<1>3. QED
  BY <1>1, <1>2

LEMMA DeliveryInvariant == Spec => []DeliveryInv
  BY DeliveryStep, DeliveryInvInit, TypeCorrect, PTL DEF Spec

\* The customer receives a message at most once, for any number of dispatches,
\* services, retries, re-opened generations, faults, overruns and reports, as
\* long as the evidence that an attempt was not sent is true.
THEOREM DeliveredAtMostOnce == Spec => []AtMostOnce
<1>1. DeliveryInv => AtMostOnce
  BY DeliveredGeneration DEF AtMostOnce, DeliveryInv, SingleRequest
<1>2. QED
  BY <1>1, DeliveryInvariant, PTL
-------------------------------------------------------------------------------
(* What a result does to the message.  A status that the provider confirmed is *)
(* never lost: reports and results raise it or leave it alone, and an attempt  *)
(* is re-opened only for a message that has no such status.                    *)

LEMMA SaveCases ==
    ASSUME TypeOK, NEW g \in Generations, NEW requested \in DeliveryStatus \ {"pending"},
           NEW identified, NEW misconfigured,
           SaveResult(g, requested, identified, misconfigured)
    PROVE  /\ message'.status \in Sent \cup {"failed"}
           /\ message.status \in Sent =>
                 message'.status \in Sent /\ Rank[message'.status] >= Rank[message.status]
           /\ requested \in Sent => message'.status \in Sent
           /\ message'.status \in Sent => message.status \in Sent \/ requested \in Sent
           /\ attempts'[g].state = "succeeded" => message'.status \in Sent
           /\ \A h \in Generations \ {g} : attempts'[h] = attempts[h]
<1>1. message.status \in DeliveryStatus /\ message'.status = FinalStatus(requested)
  BY DEF TypeOK, Message, SaveResult
<1>2. /\ FinalStatus(requested) \in Sent \cup {"failed"}
      /\ message.status \in Sent =>
            /\ FinalStatus(requested) \in Sent
            /\ Rank[FinalStatus(requested)] >= Rank[message.status]
      /\ requested \in Sent => FinalStatus(requested) \in Sent
      /\ FinalStatus(requested) \in Sent => message.status \in Sent \/ requested \in Sent
  BY <1>1 DEF FinalStatus, DeliveryStatus, Sent, Rank
<1>3. /\ attempts'[g].state = "succeeded" => FinalStatus(requested) # "failed"
      /\ \A h \in Generations \ {g} : attempts'[h] = attempts[h]
  BY DEF SaveResult, TypeOK
<1>4. QED
  BY <1>1, <1>2, <1>3

\* The recorded result of a dispatch is that of its generation, or was before.
LEMMA RecordCases ==
    ASSUME TypeOK, NEW d \in Dispatches, NEW requested \in {"sent", "failed"},
           Record(d, requested)
    PROVE  /\ dispatch[d].generation \in Generations
           /\ recorded' = recorded \cup {dispatch[d].generation}
           /\ \/ /\ dispatch[d].generation \in recorded
                 /\ UNCHANGED <<attempts, message>>
              \/ /\ dispatch[d].generation \notin recorded
                 /\ requested \in DeliveryStatus \ {"pending"}
                 /\ \E i, m : SaveResult(dispatch[d].generation, requested, i, m)
<1>1. dispatch[d].generation \in Generations
  BY DEF TypeOK, Dispatch
<1>2. requested \in DeliveryStatus \ {"pending"}
  BY DEF DeliveryStatus, Sent
<1>3. QED
  BY <1>1, <1>2 DEF Record

SentKept ==
    message.status \in Sent =>
        message'.status \in Sent /\ Rank[message'.status] >= Rank[message.status]

LEMMA SentSame == TypeOK /\ message' = message => SentKept
  BY DEF TypeOK, Message, SentKept, Sent, Rank, DeliveryStatus

LEMMA SentStep == TypeOK /\ [Next]_vars => SentKept
<1> SUFFICES ASSUME TypeOK, [Next]_vars PROVE SentKept
  OBVIOUS
<1>1. CASE UNCHANGED message
  BY <1>1, SentSame
<1>2. ASSUME NEW g \in Generations, NEW requested \in DeliveryStatus \ {"pending"},
             NEW i, NEW m, SaveResult(g, requested, i, m)
      PROVE  SentKept
  BY <1>2, SaveCases DEF SentKept
<1>3. ASSUME NEW d \in Dispatches, NEW requested \in {"sent", "failed"}, Record(d, requested)
      PROVE  SentKept
  BY <1>1, <1>2, <1>3, RecordCases
<1>4. ASSUME NEW d \in Dispatches, Start(d) \/ Step(d) \/ Vanish(d) PROVE SentKept
  <2>1. CASE RecordSent(d) \/ RecordSentFails(d) \/ RecordNotSent(d)
    BY <1>1, <1>3, <2>1 DEF RecordSent, RecordSentFails, RecordNotSent
  <2>2. CASE UNCHANGED message
    BY <1>1, <2>2
  <2>3. QED
    BY <1>4, <2>1, <2>2 DEF Start, Step, Vanish, Claim, ClaimFails, Refuse, Request,
       Respond, Mark, MarkFails, Finish
<1>5. ASSUME NEW g \in Generations, NEW s \in Sent \cup {"failed"}, Report(g, s)
      PROVE  SentKept
  BY <1>2, <1>5 DEF Report, DeliveryStatus, Sent
<1>6. CASE ReconcileSent
  BY <1>6, <1>1 DEF ReconcileSent, TypeOK, Message, SentKept, Sent, Rank, DeliveryStatus
<1>7. CASE ReconcileNotSent
  BY <1>7 DEF ReconcileNotSent, CanConfirmNotSent, Misconfigured, SentKept, Sent
<1>8. QED
  BY <1>1, <1>4, <1>5, <1>6, <1>7
     DEF Next, vars, Sweep, LeaseLapses, Provide, ServiceClaim, ServiceSends

\* A delivery status that the provider gave is never taken back: neither a late
\* result, nor a report of any order, nor an operator's decision lowers it or
\* makes the message fail.
THEOREM StatusIsKept == Spec => NeverTakenBack
<1>1. TypeOK /\ [Next]_vars =>
         [message.status \in Sent =>
             message'.status \in Sent /\ Rank[message'.status] >= Rank[message.status]]_vars
  BY SentStep DEF SentKept
<1>2. QED
  BY <1>1, TypeCorrect, PTL DEF Spec, NeverTakenBack
-------------------------------------------------------------------------------
(* Who may record a result.  The dispatch that its claim told to send is alone *)
(* with its generation until it ends, and no result of the generation has been *)
(* recorded under its command before it records one.                           *)

Senders == {"sending", "waiting", "confirmed", "retrying", "not-sent", "ambiguous", "unsaved"}
Unrecorded == {"sending", "waiting", "confirmed", "not-sent"}

SenderInv ==
    /\ recorded \subseteq claimed
    /\ \A d \in Dispatches :
          dispatch[d].stage \in Senders => dispatch[d].generation \in claimed
    /\ \A c, d \in Dispatches :
          /\ dispatch[c].stage \in Senders /\ dispatch[d].stage \in Senders
          /\ dispatch[c].generation = dispatch[d].generation
          => c = d
    /\ \A d \in Dispatches :
          dispatch[d].stage \in Unrecorded => dispatch[d].generation \notin recorded
    /\ \A d \in Dispatches :
          dispatch[d].stage = "retrying" /\ dispatch[d].generation \in recorded
          => message.status \in Sent

\* What each change of the control state of a dispatch leaves of the others.
LEMMA Moves ==
    ASSUME TypeOK, NEW d \in Dispatches
    PROVE  /\ \A s : Go(d, s) =>
                 /\ dispatch'[d].stage = s
                 /\ dispatch'[d].generation = dispatch[d].generation
                 /\ \A c \in Dispatches \ {d} : dispatch'[c] = dispatch[c]
           /\ \A o : End(d, o) =>
                 /\ dispatch'[d].stage = "ending" /\ dispatch'[d].outcome = o
                 /\ \A c \in Dispatches \ {d} : dispatch'[c] = dispatch[c]
           /\ Leave(d) =>
                 /\ dispatch'[d].stage = "idle"
                 /\ \A c \in Dispatches \ {d} : dispatch'[c] = dispatch[c]
<1>1. dispatch \in [Dispatches -> Dispatch] /\ dispatch[d] \in Dispatch
  BY DEF TypeOK
<1>2. ASSUME NEW s, Go(d, s)
      PROVE  /\ dispatch'[d].stage = s
             /\ dispatch'[d].generation = dispatch[d].generation
             /\ \A c \in Dispatches \ {d} : dispatch'[c] = dispatch[c]
  BY <1>1, <1>2 DEF Go, Dispatch
<1>3. ASSUME NEW o, End(d, o)
      PROVE  /\ dispatch'[d].stage = "ending" /\ dispatch'[d].outcome = o
             /\ \A c \in Dispatches \ {d} : dispatch'[c] = dispatch[c]
  BY <1>1, <1>3 DEF End, Dispatch
<1>4. ASSUME Leave(d)
      PROVE  /\ dispatch'[d].stage = "idle"
             /\ \A c \in Dispatches \ {d} : dispatch'[c] = dispatch[c]
  BY <1>1, <1>4 DEF Leave, Idle
<1>5. QED
  BY <1>2, <1>3, <1>4

\* A step that records nothing, and makes no dispatch a sender.
LEMMA SenderKeep ==
    ASSUME SenderInv, SentKept, recorded' = recorded, claimed \subseteq claimed',
           \A c \in Dispatches : dispatch'[c].stage \in Senders =>
              /\ dispatch[c].stage \in Senders
              /\ dispatch'[c].generation = dispatch[c].generation
              /\ dispatch'[c].stage \in Unrecorded => dispatch[c].stage \in Unrecorded
              /\ dispatch'[c].stage = "retrying" => dispatch[c].stage = "retrying"
    PROVE  SenderInv'
<1>1. Unrecorded \subseteq Senders /\ "retrying" \in Senders
  BY DEF Unrecorded, Senders
<1>2. QED
  BY <1>1 DEF SenderInv, SentKept

\* The claim that is told to send finds no sender of its generation.
LEMMA SenderClaim ==
    ASSUME DeliveryInv, SenderInv, SentKept, NEW d \in Dispatches, Claim(d)
    PROVE  SenderInv'
<1> DEFINE g == dispatch[d].generation
<1>1. /\ recorded' = recorded /\ claimed' = claimed \cup {g}
      /\ \A c \in Dispatches \ {d} : dispatch'[c] = dispatch[c]
      /\ \/ g \notin claimed /\ dispatch'[d].stage = "sending" /\ dispatch'[d].generation = g
         \/ dispatch'[d].stage = "ending"
  BY Moves DEF Claim, MaySend, First, DeliveryInv
<1>2. CASE dispatch'[d].stage = "ending"
  BY <1>1, <1>2, SenderKeep DEF Senders
<1>3. CASE g \notin claimed /\ dispatch'[d].stage = "sending" /\ dispatch'[d].generation = g
  <2>1. g \notin claimed /\ g \notin recorded
    BY <1>3 DEF SenderInv
  <2>2. \A c \in Dispatches : dispatch[c].stage \in Senders => dispatch[c].generation # g
    BY <2>1 DEF SenderInv
  <2>3. QED
    BY <1>1, <1>3, <2>1, <2>2 DEF SenderInv, SentKept, Senders, Unrecorded
<1>4. QED
  BY <1>1, <1>2, <1>3

\* A dispatch that records its result is the one that may.
LEMMA SenderRecord ==
    ASSUME DeliveryInv, SenderInv, SentKept, NEW d \in Dispatches,
           dispatch[d].stage \in Senders, claimed' = claimed,
           recorded' = recorded \/ recorded' = recorded \cup {dispatch[d].generation},
           \A c \in Dispatches \ {d} : dispatch'[c] = dispatch[c],
           dispatch'[d].stage \notin Unrecorded,
           dispatch'[d].stage \in Senders =>
              dispatch'[d].generation = dispatch[d].generation,
           dispatch'[d].stage = "retrying" =>
              dispatch[d].generation \notin recorded' \/ message'.status \in Sent
    PROVE  SenderInv'
<1>1. \A c \in Dispatches \ {d} : dispatch[c].stage \in Senders =>
         dispatch[c].generation # dispatch[d].generation
  BY DEF SenderInv
<1>2. Unrecorded \subseteq Senders /\ "retrying" \in Senders
  BY DEF Unrecorded, Senders
<1>3. QED
  BY <1>1, <1>2 DEF SenderInv, SentKept

LEMMA SenderResult ==
    ASSUME DeliveryInv, SenderInv, SentKept, NEW d \in Dispatches,
           RecordSent(d) \/ RecordSentFails(d) \/ RecordNotSent(d)
    PROVE  SenderInv'
<1>1. /\ TypeOK /\ claimed' = claimed
      /\ dispatch[d].stage \in {"confirmed", "retrying", "not-sent"}
  BY DEF DeliveryInv, RecordSent, RecordSentFails, RecordNotSent, At
<1>2. recorded' = recorded \/ recorded' = recorded \cup {dispatch[d].generation}
  BY <1>1, RecordCases DEF RecordSent, RecordSentFails, RecordNotSent
<1>3. CASE dispatch'[d].stage = "ending"
  <2>1. \A c \in Dispatches \ {d} : dispatch'[c] = dispatch[c]
    BY <1>1, Moves DEF RecordSent, RecordSentFails, RecordNotSent
  <2>2. QED
    BY <1>1, <1>2, <1>3, <2>1, SenderRecord DEF Senders, Unrecorded
<1>4. CASE RecordSentFails(d)
  <2>1. /\ dispatch'[d].stage = IF At(d, "confirmed") THEN "retrying" ELSE "unsaved"
        /\ dispatch'[d].generation = dispatch[d].generation
        /\ \A c \in Dispatches \ {d} : dispatch'[c] = dispatch[c]
    BY <1>1, <1>4, Moves DEF RecordSentFails
  <2>2. ASSUME At(d, "confirmed")
        PROVE  dispatch[d].generation \notin recorded' \/ message'.status \in Sent
    <3>1. dispatch[d].generation \notin recorded
      BY <2>2 DEF SenderInv, At, Unrecorded
    <3>2. CASE Record(d, "sent")
      <4>1. PICK i, m : SaveResult(dispatch[d].generation, "sent", i, m)
        BY <1>1, <3>1, <3>2, RecordCases
      <4>2. "sent" \in Sent /\ "sent" \in DeliveryStatus \ {"pending"}
        BY DEF Sent, DeliveryStatus
      <4>3. QED
        BY <1>1, <3>2, <4>1, <4>2, SaveCases, RecordCases
    <3>3. QED
      BY <1>4, <3>1, <3>2 DEF RecordSentFails
  <2>3. QED
    BY <1>1, <1>2, <2>1, <2>2, SenderRecord DEF Senders, Unrecorded
<1>5. QED
  BY <1>1, <1>3, <1>4, Moves DEF RecordSent, RecordNotSent

LEMMA SenderStep == DeliveryInv /\ SenderInv /\ [Next]_vars => SenderInv'
<1> SUFFICES ASSUME DeliveryInv, SenderInv, [Next]_vars PROVE SenderInv'
  OBVIOUS
<1>1. TypeOK /\ SentKept
  BY SentStep DEF DeliveryInv
<1>2. CASE UNCHANGED <<dispatch, recorded, claimed>>
  BY <1>1, <1>2, SenderKeep
<1>3. ASSUME NEW d \in Dispatches, Start(d) PROVE SenderInv'
  <2>1. \A c \in Dispatches : dispatch'[c] = dispatch[c] \/ dispatch'[c].stage = "claiming"
    BY <1>1, <1>3 DEF Start, TypeOK
  <2>2. QED
    BY <1>1, <1>3, <2>1, SenderKeep DEF Start, Senders
<1>4. ASSUME NEW d \in Dispatches,
             Vanish(d) \/ Finish(d) \/ ClaimFails(d) \/ Mark(d) \/ MarkFails(d)
      PROVE  SenderInv'
  <2>1. /\ dispatch'[d].stage \in {"idle", "ending"}
        /\ \A c \in Dispatches \ {d} : dispatch'[c] = dispatch[c]
    BY <1>1, <1>4, Moves DEF Vanish, Finish, ClaimFails, Mark, MarkFails
  <2>2. recorded' = recorded /\ claimed \subseteq claimed'
    BY <1>4 DEF Vanish, Finish, ClaimFails, Mark, MarkFails
  <2>3. QED
    BY <1>1, <2>1, <2>2, SenderKeep DEF Senders
<1>5. ASSUME NEW d \in Dispatches, Refuse(d) \/ Request(d) \/ Respond(d) PROVE SenderInv'
  <2>1. /\ dispatch[d].stage \in {"sending", "waiting"}
        /\ dispatch'[d].stage \in {"not-sent", "waiting", "confirmed", "ambiguous"}
        /\ dispatch'[d].generation = dispatch[d].generation
        /\ \A c \in Dispatches \ {d} : dispatch'[c] = dispatch[c]
    BY <1>1, <1>5, Moves DEF Refuse, Request, Respond, At
  <2>2. recorded' = recorded /\ claimed' = claimed
    BY <1>5 DEF Refuse, Request, Respond
  <2>3. QED
    BY <1>1, <2>1, <2>2, SenderKeep DEF Senders, Unrecorded
<1>6. ASSUME NEW d \in Dispatches, Step(d) PROVE SenderInv'
  BY <1>1, <1>4, <1>5, <1>6, SenderClaim, SenderResult DEF Step
<1>7. CASE \E d \in Dispatches : Start(d) \/ Step(d) \/ Vanish(d)
  BY <1>3, <1>4, <1>6, <1>7
<1>8. QED
  BY <1>2, <1>7 DEF Next, vars, Sweep, LeaseLapses, Provide, ServiceClaim, ServiceSends,
     Report, ReconcileSent, ReconcileNotSent
-------------------------------------------------------------------------------
(* What the records say was sent, was delivered.                              *)

ResultInv ==
    /\ message.status \in Sent => delivered[generation] > 0
    /\ \A g \in Generations : attempts[g].state = "succeeded" => message.status \in Sent
    /\ \A d \in Dispatches :
          dispatch[d].stage \in {"confirmed", "retrying"}
          => delivered[dispatch[d].generation] > 0
    /\ \A d \in Dispatches :
          dispatch[d].stage = "ending" /\ dispatch[d].outcome = "succeeded"
          => message.status \in Sent
    /\ row.status = "delivered" => message.status \in Sent

\* The parts of ResultInv that a step may keep one by one.
NoNewSuccess ==
    \A g \in Generations :
       attempts'[g].state = "succeeded" =>
          attempts[g].state = "succeeded" \/ message'.status \in Sent

Truthful ==
    \A c \in Dispatches :
       /\ dispatch'[c].stage \in {"confirmed", "retrying"} =>
             delivered'[dispatch'[c].generation] > 0
       /\ dispatch'[c].stage = "ending" /\ dispatch'[c].outcome = "succeeded" =>
             message'.status \in Sent

LEMMA ResultKeep ==
    ASSUME DeliveryInv, ResultInv, SentKept, generation' = generation,
           delivered[generation] > 0 => delivered'[generation] > 0,
           message'.status \in Sent =>
              message.status \in Sent \/ delivered'[generation] > 0,
           NoNewSuccess, Truthful,
           row'.status = "delivered" => row.status = "delivered" \/ message'.status \in Sent
    PROVE  ResultInv'
  BY DEF ResultInv, SentKept, NoNewSuccess, Truthful

\* What a dispatch that a step leaves alone says, it may still say.
LEMMA OthersTruthful ==
    ASSUME DeliveryInv, ResultInv, SentKept, NEW d \in Dispatches,
           \A g \in Generations : delivered[g] > 0 => delivered'[g] > 0,
           \A c \in Dispatches \ {d} : dispatch'[c] = dispatch[c],
           dispatch'[d].stage \in {"confirmed", "retrying"} =>
              delivered'[dispatch'[d].generation] > 0,
           dispatch'[d].stage = "ending" /\ dispatch'[d].outcome = "succeeded" =>
              message'.status \in Sent
    PROVE  Truthful
<1>1. \A c \in Dispatches : dispatch[c].generation \in Generations
  BY DEF DeliveryInv, TypeOK, Dispatch
<1>2. QED
  BY <1>1 DEF ResultInv, SentKept, Truthful

LEMMA AllTruthful ==
    ASSUME DeliveryInv, ResultInv, SentKept, dispatch' = dispatch,
           \A g \in Generations : delivered[g] > 0 => delivered'[g] > 0
    PROVE  Truthful
<1>1. \A c \in Dispatches : dispatch[c].generation \in Generations
  BY DEF DeliveryInv, TypeOK, Dispatch
<1>2. QED
  BY <1>1 DEF ResultInv, SentKept, Truthful

LEMMA ResultClaim ==
    ASSUME DeliveryInv, ResultInv, SentKept, NEW d \in Dispatches, Claim(d) \/ ClaimFails(d)
    PROVE  ResultInv'
<1> DEFINE g == dispatch[d].generation
<1>1. /\ TypeOK /\ g \in Generations
      /\ UNCHANGED <<generation, delivered, message, row>>
  BY DEF DeliveryInv, TypeOK, Dispatch, Claim, ClaimFails
<1>2. attempts' = attempts \/ attempts' = Answered(g, First(g), FALSE)
  BY Zenon DEF Claim, ClaimFails
<1>3. \A h \in Generations :
         attempts'[h] = attempts[h] \/ attempts'[h].state \in {"leased", "unknown"}
  <2>1. CASE attempts' = Answered(g, First(g), FALSE)
    BY <1>1, <2>1, AnsweredCases, Zenon
  <2>2. QED
    BY <1>2, <2>1
<1>4. NoNewSuccess
  BY <1>3 DEF NoNewSuccess
<1>5. \A c \in Dispatches \ {d} : dispatch'[c] = dispatch[c]
  BY <1>1, Moves DEF Claim, ClaimFails
<1>6. \/ dispatch'[d].stage = "sending"
      \/ /\ dispatch'[d].stage = "ending"
         /\ \/ dispatch'[d].outcome = RefusedOutcome(attempts'[g].state)
            \/ dispatch'[d].outcome = "retryable-failure"
  <2>1. \/ Go(d, "sending") \/ End(d, RefusedOutcome(attempts'[g].state))
        \/ End(d, "retryable-failure")
    BY Zenon DEF Claim, ClaimFails
  <2>2. QED
    BY <1>1, <2>1, Moves
<1>7. RefusedOutcome(attempts'[g].state) = "succeeded" => attempts[g].state = "succeeded"
  BY <1>1, <1>3 DEF RefusedOutcome
<1>8. dispatch'[d].stage = "ending" /\ dispatch'[d].outcome = "succeeded" =>
         message'.status \in Sent
  BY <1>1, <1>6, <1>7 DEF ResultInv
<1> HIDE DEF g
<1>9. Truthful
  BY <1>1, <1>5, <1>6, <1>8, OthersTruthful
<1>10. QED
  BY <1>1, <1>4, <1>9, ResultKeep

\* A result is recorded by a dispatch that was told of its delivery, or that
\* made no request.
LEMMA ResultRecord ==
    ASSUME DeliveryInv, ResultInv, NEW d \in Dispatches, NEW requested \in {"sent", "failed"},
           Record(d, requested), requested = "sent" => delivered[dispatch[d].generation] > 0
    PROVE  /\ NoNewSuccess
           /\ message'.status \in Sent => message.status \in Sent \/ delivered[generation] > 0
<1> DEFINE g == dispatch[d].generation
<1>1. TypeOK /\ g \in Generations
  BY DEF DeliveryInv, TypeOK, Dispatch
<1>2. CASE UNCHANGED <<attempts, message>>
  BY <1>2 DEF NoNewSuccess
<1>3. ASSUME NEW i, NEW m, SaveResult(g, requested, i, m),
             requested \in DeliveryStatus \ {"pending"}
      PROVE  /\ NoNewSuccess
             /\ message'.status \in Sent => message.status \in Sent \/ delivered[generation] > 0
  <2>1. "failed" \notin Sent
    BY DEF Sent
  <2>2. requested = "sent" => g = generation
    BY <1>1, DeliveredGeneration
  <2>3. QED
    BY <1>1, <1>3, <2>1, <2>2, SaveCases DEF NoNewSuccess
<1>4. QED
  BY <1>1, <1>2, <1>3, RecordCases

LEMMA ResultResult ==
    ASSUME DeliveryInv, SenderInv, ResultInv, SentKept, NEW d \in Dispatches,
           RecordSent(d) \/ RecordSentFails(d) \/ RecordNotSent(d)
    PROVE  ResultInv'
<1>1. TypeOK /\ UNCHANGED <<generation, delivered, row>>
  BY DEF DeliveryInv, RecordSent, RecordSentFails, RecordNotSent
<1>2. RecordSent(d) \/ RecordSentFails(d) => delivered[dispatch[d].generation] > 0
  BY DEF RecordSent, RecordSentFails, At, ResultInv
<1>3. /\ NoNewSuccess
      /\ message'.status \in Sent => message.status \in Sent \/ delivered[generation] > 0
  <2>1. CASE UNCHANGED <<attempts, message>>
    BY <2>1 DEF NoNewSuccess
  <2>2. CASE (RecordSent(d) \/ RecordSentFails(d)) /\ Record(d, "sent")
    BY <1>2, <2>2, ResultRecord
  <2>3. CASE Record(d, "failed")
    BY <2>3, ResultRecord
  <2>4. QED
    BY <2>1, <2>2, <2>3 DEF RecordSent, RecordSentFails, RecordNotSent
<1>4. \A c \in Dispatches \ {d} : dispatch'[c] = dispatch[c]
  BY <1>1, Moves DEF RecordSent, RecordSentFails, RecordNotSent
<1>5. CASE RecordSentFails(d)
  <2>1. /\ dispatch'[d].stage \in {"retrying", "unsaved"}
        /\ dispatch'[d].generation = dispatch[d].generation
    BY <1>1, <1>5, Moves DEF RecordSentFails
  <2>2. Truthful
    BY <1>1, <1>2, <1>4, <1>5, <2>1, OthersTruthful
  <2>3. QED
    BY <1>1, <1>3, <2>2, ResultKeep
<1>6. CASE RecordSent(d)
  <2>1. dispatch'[d].stage = "ending"
    BY <1>1, <1>6, Moves DEF RecordSent
  <2>2. message'.status \in Sent
    <3>1. CASE dispatch[d].generation \in recorded
      <4>1. message.status \in Sent
        BY <1>6, <3>1 DEF RecordSent, At, SenderInv, Unrecorded
      <4>2. QED
        BY <4>1 DEF SentKept
    <3>2. CASE dispatch[d].generation \notin recorded
      <4>1. PICK i, m : SaveResult(dispatch[d].generation, "sent", i, m)
        BY <1>1, <1>6, <3>2, RecordCases DEF RecordSent
      <4>2. "sent" \in Sent /\ "sent" \in DeliveryStatus \ {"pending"}
        BY DEF Sent, DeliveryStatus
      <4>3. QED
        BY <1>1, <1>6, <4>1, <4>2, SaveCases, RecordCases DEF RecordSent
    <3>3. QED
      BY <3>1, <3>2
  <2>3. Truthful
    BY <1>1, <1>4, <2>1, <2>2, OthersTruthful
  <2>4. QED
    BY <1>1, <1>3, <2>3, ResultKeep
<1>7. CASE RecordNotSent(d)
  <2>1. /\ dispatch'[d].stage = "ending"
        /\ dispatch'[d].outcome \in {"terminal-failure", "retryable-failure"}
    BY <1>1, <1>7, Moves DEF RecordNotSent
  <2>2. Truthful
    BY <1>1, <1>4, <2>1, OthersTruthful
  <2>3. QED
    BY <1>1, <1>3, <2>2, ResultKeep
<1>8. QED
  BY <1>5, <1>6, <1>7

\* A row is concluded as delivered on behalf of a dispatch that succeeded.
LEMMA ResultFinish ==
    ASSUME DeliveryInv, ResultInv, SentKept, NEW d \in Dispatches, Finish(d)
    PROVE  ResultInv'
<1>1. /\ TypeOK /\ UNCHANGED <<generation, delivered, message, attempts>>
      /\ dispatch[d].stage = "ending"
  BY DEF DeliveryInv, Finish, At
<1>2. /\ \A c \in Dispatches \ {d} : dispatch'[c] = dispatch[c]
      /\ \/ dispatch'[d].stage = "idle"
         \/ dispatch'[d].stage = "ending" /\ dispatch'[d].outcome = "retryable-failure"
  BY <1>1, Moves DEF Finish
<1>3. row'.status = "delivered" => row.status = "delivered" \/ message.status \in Sent
  BY <1>1 DEF Finish, Conclude, TypeOK, Row, ResultInv
<1>4. Truthful
  BY <1>1, <1>2, OthersTruthful
<1>5. QED
  BY <1>1, <1>3, <1>4, ResultKeep DEF NoNewSuccess

\* Dispatches that come, go or call.
LEMMA ResultMove ==
    ASSUME DeliveryInv, ResultInv, SentKept, NEW d \in Dispatches,
           \/ Start(d) \/ Vanish(d) \/ Refuse(d) \/ Request(d) \/ Respond(d)
           \/ Mark(d) \/ MarkFails(d)
    PROVE  ResultInv'
<1>1. /\ TypeOK /\ UNCHANGED <<generation, delivered, message>>
      /\ row'.status = row.status
  BY DEF DeliveryInv, TypeOK, Row, Start, Vanish, Refuse, Request, Respond, Mark, MarkFails
<1>2. NoNewSuccess
  <2>1. CASE attempts' = attempts
    BY <2>1 DEF NoNewSuccess
  <2>2. CASE Mark(d) \/ MarkFails(d)
    <3>1. dispatch[d].generation \in Generations
      BY <1>1 DEF TypeOK, Dispatch
    <3>2. QED
      BY <1>1, <2>2, <3>1, StateKept DEF Mark, MarkFails, Marked, NoNewSuccess
  <2>3. QED
    BY <2>1, <2>2 DEF Start, Vanish, Refuse, Request, Respond
<1>3. /\ \A c \in Dispatches \ {d} : dispatch'[c] = dispatch[c]
      /\ \/ dispatch'[d].stage \in {"claiming", "idle", "not-sent", "waiting", "ambiguous"}
         \/ /\ dispatch'[d].stage = "confirmed"
            /\ delivered[dispatch'[d].generation] > 0
         \/ /\ dispatch'[d].stage = "ending"
            /\ dispatch'[d].outcome \in {"terminal-failure", "retryable-failure"}
  <2>1. CASE Start(d)
    BY <1>1, <2>1 DEF Start, TypeOK
  <2>2. CASE ~Start(d)
    BY <1>1, <2>2, Moves DEF Vanish, Refuse, Request, Respond, Mark, MarkFails
  <2>3. QED
    BY <2>1, <2>2
<1>4. Truthful
  BY <1>1, <1>3, OthersTruthful
<1>5. QED
  BY <1>1, <1>2, <1>4, ResultKeep

LEMMA ResultReport ==
    ASSUME DeliveryInv, ResultInv, SentKept, NEW g \in Generations,
           NEW s \in Sent \cup {"failed"}, Report(g, s)
    PROVE  ResultInv'
<1>1. /\ TypeOK /\ UNCHANGED <<generation, delivered, dispatch, row>>
      /\ s \in DeliveryStatus \ {"pending"} /\ "failed" \notin Sent
  BY DEF DeliveryInv, Report, DeliveryStatus, Sent
<1>2. PICK i, m : SaveResult(g, s, i, m)
  BY DEF Report
<1>3. s \in Sent => g = generation /\ delivered[g] > 0
  BY <1>1, DeliveredGeneration DEF Report
<1>4. NoNewSuccess
  BY <1>1, <1>2, SaveCases DEF NoNewSuccess
<1>5. message'.status \in Sent => message.status \in Sent \/ delivered[generation] > 0
  BY <1>1, <1>2, <1>3, SaveCases
<1>6. QED
  BY <1>1, <1>4, <1>5, AllTruthful, ResultKeep

LEMMA ResultReconcile ==
    ASSUME DeliveryInv, ResultInv, SentKept, ReconcileSent \/ ReconcileNotSent
    PROVE  ResultInv'
<1>1. /\ TypeOK /\ UNCHANGED <<delivered, dispatch>> /\ generation \in Generations
      /\ attempts \in [Generations -> Attempt]
  BY DEF DeliveryInv, TypeOK, ReconcileSent, ReconcileNotSent
<1>2. CASE ReconcileSent
  <2>1. message'.status \in Sent
    BY <1>2 DEF ReconcileSent, AlreadyPersisted, Sent
  <2>2. NoNewSuccess
    BY <2>1 DEF NoNewSuccess
  <2>3. generation' = generation /\ delivered[generation] > 0
    BY <1>2 DEF ReconcileSent
  <2>4. QED
    <3>1. Truthful
      BY <1>1, AllTruthful
    <3>2. SentKept /\ delivered' = delivered /\ generation' = generation
      BY <1>1, <2>3
    <3>3. QED
      BY <2>1, <2>2, <2>3, <3>1, <3>2, ResultKeep
<1>3. CASE ReconcileNotSent
  <2>1. message.status \notin Sent
    BY <1>3 DEF ReconcileNotSent, NeverSent, ResultInv
  <2>2. /\ message'.status \notin Sent /\ row'.status = "open"
        /\ generation + 1 \in Generations
    BY <1>1, <1>3, DispatchAssumption
       DEF ReconcileNotSent, TypeOK, Message, Sent, Generations
  <2>3. \A g \in Generations : attempts'[g].state # "succeeded"
    <3> DEFINE closed(a) == [a EXCEPT !.status = "failed", !.state = "failed",
                                      !.lapsed = FALSE, !.misconfigured = FALSE]
    <3>1. \A a \in Attempt : closed(a).state = "failed"
      BY DEF Attempt
    <3>2. attempts' = [attempts EXCEPT ![generation] = closed(@), ![generation + 1] = Fresh]
      BY <1>3 DEF ReconcileNotSent
    <3> HIDE DEF closed
    <3>3. \A g \in Generations : attempts[g].state # "succeeded"
      BY <2>1 DEF ResultInv
    <3>4. Fresh.state = "ready" /\ attempts[generation] \in Attempt
      BY <1>1 DEF Fresh
    <3>5. QED
      BY <1>1, <2>2, <3>1, <3>2, <3>3, <3>4
  <2>4. QED
    BY <1>1, <2>1, <2>2, <2>3 DEF ResultInv
<1>4. QED
  BY <1>2, <1>3

LEMMA ResultStep == DeliveryInv /\ SenderInv /\ ResultInv /\ [Next]_vars => ResultInv'
<1> SUFFICES ASSUME DeliveryInv, SenderInv, ResultInv, [Next]_vars PROVE ResultInv'
  OBVIOUS
<1>1. TypeOK /\ SentKept
  BY SentStep DEF DeliveryInv
<1>2. CASE UNCHANGED vars
  BY <1>2 DEF vars, ResultInv
<1>3. CASE Sweep
  BY <1>1, <1>3, AllTruthful, ResultKeep DEF Sweep, TypeOK, Row, NoNewSuccess
<1>4. ASSUME NEW d \in Dispatches, Start(d) \/ Step(d) \/ Vanish(d) PROVE ResultInv'
  BY <1>1, <1>4, ResultClaim, ResultResult, ResultFinish, ResultMove DEF Step
<1>5. ASSUME NEW g \in Generations, LeaseLapses(g) PROVE ResultInv'
  <2>1. \A h \in Generations : attempts'[h].state = attempts[h].state
    BY <1>1, <1>5 DEF LeaseLapses, TypeOK, Attempt
  <2>2. UNCHANGED <<generation, delivered, message, dispatch, row>> /\ NoNewSuccess
    BY <1>5, <2>1 DEF LeaseLapses, NoNewSuccess
  <2>3. QED
    BY <1>1, <2>2, AllTruthful, ResultKeep
<1>6. ASSUME NEW g \in Generations, Provide(g) PROVE ResultInv'
  <2>1. /\ UNCHANGED <<generation, attempts, message, dispatch, row>>
        /\ generation \in Generations
        /\ \A h \in Generations : delivered[h] > 0 => delivered'[h] > 0
    BY <1>1, <1>6 DEF Provide, TypeOK
  <2>2. QED
    BY <1>1, <2>1, AllTruthful, ResultKeep DEF NoNewSuccess
<1>7. ASSUME NEW g \in Generations, NEW s \in Sent \cup {"failed"}, Report(g, s)
      PROVE  ResultInv'
  BY <1>1, <1>7, ResultReport
<1>8. CASE ReconcileSent \/ ReconcileNotSent
  BY <1>1, <1>8, ResultReconcile
<1>9. ASSUME NEW g \in Generations, ServiceSends(g) PROVE ResultInv'
  BY <1>1, <1>9, AllTruthful, ResultKeep DEF ServiceSends, NoNewSuccess
<1>10. ASSUME NEW g \in Generations, NEW fresh \in BOOLEAN, NEW evidence \in BOOLEAN,
              ServiceClaim(g, fresh, evidence)
       PROVE  ResultInv'
  <2>1. /\ UNCHANGED <<generation, delivered, message, dispatch, row>>
        /\ attempts' = Answered(g, fresh, evidence)
    BY <1>10 DEF ServiceClaim
  <2>2. NoNewSuccess
    BY <1>1, <2>1, AnsweredCases DEF NoNewSuccess
  <2>3. QED
    BY <1>1, <2>1, <2>2, AllTruthful, ResultKeep
<1>11. QED
  BY <1>2, <1>3, <1>4, <1>5, <1>6, <1>7, <1>8, <1>9, <1>10 DEF Next

LEMMA ResultInvariant == Spec => [](SenderInv /\ ResultInv)
<1>1. Init => SenderInv /\ ResultInv
  <2> SUFFICES ASSUME Init PROVE SenderInv /\ ResultInv
    OBVIOUS
  <2>1. \A d \in Dispatches : dispatch[d].stage = "idle"
    BY DEF Init, Idle
  <2>2. SenderInv
    BY <2>1 DEF Init, SenderInv, Senders, Unrecorded
  <2>3. \A g \in Generations : attempts[g].state = "ready"
    BY DEF Init, Fresh
  <2>4. QED
    BY <2>1, <2>2, <2>3 DEF Init, ResultInv, Sent
<1>2. DeliveryInv /\ SenderInv /\ ResultInv /\ [Next]_vars => (SenderInv /\ ResultInv)'
  BY SenderStep, ResultStep
<1>3. QED
  BY <1>1, <1>2, DeliveryInvariant, PTL DEF Spec

\* A row is concluded as delivered only when its message is known as sent and
\* the customer has received it, whoever concluded it and on whatever evidence.
THEOREM DeliveredRowsAreSent == Spec => []DeliveredMeansSent
<1>1. ResultInv => DeliveredMeansSent
  BY DEF ResultInv, DeliveredMeansSent
<1>2. QED
  BY <1>1, ResultInvariant, PTL
-------------------------------------------------------------------------------
(* The way out of isolation.  While a message has no result, its latest attempt *)
(* has none either, was never identified, and can be ready only before its      *)
(* claim.                                                                       *)

IsoInv ==
    message.status = "pending" =>
        /\ attempts[generation].status = "pending"
        /\ attempts[generation].state \in {"ready", "leased", "unknown"}
        /\ ~attempts[generation].identified /\ ~message.identified
        /\ attempts[generation].state = "ready" => generation \notin claimed

LEMMA IsoKeep ==
    ASSUME IsoInv, UNCHANGED <<generation, claimed>>,
           message'.status = "pending" => message' = message,
           \/ attempts'[generation] = attempts[generation]
           \/ /\ attempts'[generation].state \in {"leased", "unknown"}
              /\ attempts'[generation].status = attempts[generation].status
              /\ attempts'[generation].identified = attempts[generation].identified
    PROVE  IsoInv'
  BY DEF IsoInv

LEMMA IsoSettled == ASSUME message'.status # "pending" PROVE IsoInv'
  BY DEF IsoInv

\* A claim takes the attempt of a pending message out of "ready".
LEMMA IsoClaim ==
    ASSUME DeliveryInv, IsoInv, NEW d \in Dispatches, Claim(d) \/ ClaimFails(d)
    PROVE  IsoInv'
<1> DEFINE g == dispatch[d].generation
<1>1. /\ TypeOK /\ g \in Generations /\ generation \in Generations
      /\ UNCHANGED <<generation, message>>
  BY DEF DeliveryInv, TypeOK, Dispatch, Claim, ClaimFails
<1>2. \/ attempts' = attempts /\ claimed' = claimed
      \/ attempts' = Answered(g, First(g), FALSE) /\ claimed' = claimed \cup {g}
  BY Zenon DEF Claim, ClaimFails
<1> HIDE DEF g
<1>3. CASE attempts' = attempts /\ claimed' = claimed
  BY <1>1, <1>3, IsoKeep
<1>4. CASE attempts' = Answered(g, First(g), FALSE) /\ claimed' = claimed \cup {g}
  <2>1. /\ \A h \in Generations :
              \/ attempts'[h] = attempts[h]
              \/ /\ h = g
                 /\ attempts'[h].state \in {"leased", "unknown"}
                 /\ attempts'[h].status = attempts[h].status
                 /\ attempts'[h].identified = attempts[h].identified
        /\ MaySend(g, First(g), FALSE) => attempts'[g].state = "leased"
    BY <1>1, <1>4, AnsweredCases, Zenon
  <2>2. ASSUME message.status = "pending", g = generation, attempts'[g].state = "ready"
        PROVE  FALSE
    <3>1. attempts[g].state = "ready" /\ attempts[g].status = "pending" /\ g \notin claimed
      BY <1>1, <2>1, <2>2 DEF IsoInv
    <3>2. MaySend(g, First(g), FALSE)
      BY <2>2, <3>1 DEF MaySend, Pending, First
    <3>3. QED
      BY <2>1, <2>2, <3>2
  <2>3. QED
    BY <1>1, <1>4, <2>1, <2>2 DEF IsoInv
<1>5. QED
  BY <1>2, <1>3, <1>4

\* A claim of a service uses no command of the row.
LEMMA IsoService ==
    ASSUME DeliveryInv, IsoInv, NEW g \in Generations, NEW fresh \in BOOLEAN,
           NEW evidence \in BOOLEAN, ServiceClaim(g, fresh, evidence)
    PROVE  IsoInv'
<1>1. /\ TypeOK /\ generation \in Generations
      /\ UNCHANGED <<generation, message, claimed>>
      /\ attempts' = Answered(g, fresh, evidence)
  BY DEF DeliveryInv, TypeOK, ServiceClaim
<1>2. \A h \in Generations :
         \/ attempts'[h] = attempts[h]
         \/ /\ attempts'[h].state \in {"leased", "unknown"}
            /\ attempts'[h].status = attempts[h].status
            /\ attempts'[h].identified = attempts[h].identified
  BY <1>1, AnsweredCases
<1>3. QED
  BY <1>1, <1>2, IsoKeep

LEMMA IsoReopened ==
    ASSUME DeliveryInv, ReconcileNotSent
    PROVE  IsoInv'
<1>1. /\ generation \in Generations /\ generation + 1 \in Generations
      /\ generation' = generation + 1 /\ claimed' = claimed
      /\ message'.identified = message.identified /\ ~message.identified
  BY DispatchAssumption
     DEF DeliveryInv, TypeOK, Message, ReconcileNotSent, CanConfirmNotSent, Generations
<1>2. attempts'[generation + 1] = Fresh
  BY <1>1 DEF ReconcileNotSent, DeliveryInv, TypeOK
<1>3. generation + 1 \notin claimed
  BY <1>1 DEF DeliveryInv, OneGeneration, Generations
<1>4. QED
  BY <1>1, <1>2, <1>3 DEF IsoInv, Fresh

LEMMA IsoStep == DeliveryInv /\ IsoInv /\ [Next]_vars => IsoInv'
<1> SUFFICES ASSUME DeliveryInv, IsoInv, [Next]_vars PROVE IsoInv'
  OBVIOUS
<1>1. TypeOK /\ generation \in Generations /\ attempts \in [Generations -> Attempt]
  BY DEF DeliveryInv, TypeOK
<1>2. CASE UNCHANGED <<generation, claimed, message, attempts>>
  BY <1>2, IsoKeep
<1>3. ASSUME NEW g \in Generations, NEW requested \in DeliveryStatus \ {"pending"},
             NEW i, NEW m, SaveResult(g, requested, i, m)
      PROVE  IsoInv'
  BY <1>1, <1>3, SaveCases, IsoSettled DEF Sent
<1>4. ASSUME NEW d \in Dispatches, RecordSent(d) \/ RecordSentFails(d) \/ RecordNotSent(d)
      PROVE  IsoInv'
  <2>1. UNCHANGED <<generation, claimed>>
    BY <1>4 DEF RecordSent, RecordSentFails, RecordNotSent
  <2>2. ASSUME NEW requested \in {"sent", "failed"}, Record(d, requested) PROVE IsoInv'
    BY <1>1, <1>2, <1>3, <2>1, <2>2, RecordCases
  <2>3. QED
    BY <1>2, <1>4, <2>1, <2>2 DEF RecordSent, RecordSentFails, RecordNotSent
<1>5. ASSUME NEW d \in Dispatches, Mark(d) \/ MarkFails(d) PROVE IsoInv'
  <2>1. dispatch[d].generation \in Generations
    BY <1>1 DEF TypeOK, Dispatch
  <2>2. \/ attempts'[generation] = attempts[generation]
        \/ /\ attempts'[generation].state \in {"leased", "unknown"}
           /\ attempts'[generation].status = attempts[generation].status
           /\ attempts'[generation].identified = attempts[generation].identified
    BY <1>1, <1>5, <2>1, StateKept DEF Mark, MarkFails, Marked
  <2>3. QED
    BY <1>5, <2>2, IsoKeep DEF Mark, MarkFails
<1>6. ASSUME NEW d \in Dispatches, Start(d) \/ Step(d) \/ Vanish(d) PROVE IsoInv'
  BY <1>2, <1>4, <1>5, <1>6, IsoClaim
     DEF Start, Step, Vanish, Refuse, Request, Respond, Finish
<1>7. ASSUME NEW g \in Generations, LeaseLapses(g) PROVE IsoInv'
  <2>1. \A a \in Attempt : /\ [a EXCEPT !.lapsed = TRUE].state = a.state
                           /\ [a EXCEPT !.lapsed = TRUE].status = a.status
                           /\ [a EXCEPT !.lapsed = TRUE].identified = a.identified
    BY DEF Attempt
  <2>2. /\ attempts[g].state = "leased"
        /\ attempts' = [attempts EXCEPT ![g] = [@ EXCEPT !.lapsed = TRUE]]
    BY <1>7 DEF LeaseLapses
  <2>3. QED
    BY <1>1, <1>7, <2>1, <2>2, IsoKeep DEF LeaseLapses
<1>8. ASSUME NEW g \in Generations, NEW s \in Sent \cup {"failed"}, Report(g, s)
      PROVE  IsoInv'
  BY <1>3, <1>8 DEF Report, DeliveryStatus, Sent
<1>9. CASE ReconcileSent
  BY <1>1, <1>2, <1>9, IsoSettled DEF ReconcileSent, Sent
<1>10. CASE ReconcileNotSent
  BY <1>10, IsoReopened
<1>11. ASSUME NEW g \in Generations, ServiceSends(g) PROVE IsoInv'
  BY <1>2, <1>11 DEF ServiceSends
<1>12. QED
  BY <1>2, <1>6, <1>7, <1>8, <1>9, <1>10, <1>11, IsoService DEF Next, vars, Sweep, Provide

\* An isolated row is never beyond an operator's help: a message that reached
\* the customer can be confirmed, one that was claimed and did not can be sent
\* again, once nothing runs and its lease is over.
THEOREM IsolationHasAWayOut == Spec => []IsolatedCanBeReconciled
<1>1. Init => IsoInv
  BY DispatchAssumption DEF Init, IsoInv, Fresh, Generations
<1>2. Spec => []IsoInv
  BY <1>1, IsoStep, DeliveryInvariant, PTL DEF Spec
<1>3. DeliveryInv /\ IsoInv => IsolatedCanBeReconciled
  <2> SUFFICES ASSUME DeliveryInv, IsoInv PROVE IsolatedCanBeReconciled
    OBVIOUS
  <2>1. generation \in Generations
    BY DEF DeliveryInv, TypeOK
  <2>2. delivered[generation] > 0 => attempts[generation].state # "ready"
    BY <2>1 DEF DeliveryInv, SingleRequest, Untouched
  <2>3. DeliveredCanBeConfirmed
    BY <2>2 DEF DeliveredCanBeConfirmed, IsoInv, CanConfirmSent, Awaiting, Lapsed
  <2>4. UndeliveredCanBeReopened
    BY DEF UndeliveredCanBeReopened, IsoInv, CanConfirmNotSent, Awaiting, Lapsed
  <2>5. QED
    BY <2>3, <2>4 DEF IsolatedCanBeReconciled
<1>4. QED
  BY <1>2, <1>3, DeliveryInvariant, PTL
===============================================================================
