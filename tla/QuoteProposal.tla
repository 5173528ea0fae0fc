----------------------------- MODULE QuoteProposal -----------------------------
(***************************************************************************)
(* The commercial cycle of one conversation: its quote requests, the       *)
(* proposal documents attached to them and sent in batches, and the        *)
(* transitions of the conversation by the bot, the attendants and the      *)
(* customer.                                                               *)
(*                                                                         *)
(* Every operation but one runs from its first read to its commit under    *)
(* the advisory lock of the conversation and is one action here; a command *)
(* whose expectedVersion is stale is refused and changes nothing.  The     *)
(* exception is an operator's reconciliation of a sent document: it takes  *)
(* no such lock and is two actions.                                        *)
(***************************************************************************)
EXTENDS AttendedConversation, Naturals, FiniteSets

CONSTANTS
    Documents,       \* bound: proposal documents that can be uploaded
    Batches,         \* identifiers of delivery batches chosen by the panel
    MaxQuotes,       \* bound: quote requests of the conversation
    MaxIsolations,   \* bound: deliveries whose result is not known
    MaxOverlaps,     \* bound: commits during an operator's transaction
    Commands         \* transitions that are asked for

ASSUME QuoteAssumption ==
    /\ None \notin Users \cup Documents \cup Batches
    /\ MaxQuotes \in Nat /\ MaxIsolations \in Nat /\ MaxOverlaps \in Nat
    /\ Commands \subseteq TransitionNames

VARIABLES
    quotes,        \* [1 .. MaxQuotes -> Quote]: the quote requests by sequence
    current,       \* sequence of the latest one, 0 if there is none
    documents,     \* [Documents -> Document]: quote_proposal_documents
    operator,      \* the reconciliation in progress
    spent

vars == <<conversation, assigned, contextual, quotes, current, documents, operator, spent>>
-------------------------------------------------------------------------------
Numbers     == 1 .. MaxQuotes
DocumentStatus == {"absent", "uploaded", "queued", "failed", "sent"}
\* Of the outbound message of a queued document: the dispatcher has it, or
\* its outbox row is isolated and waits for an operator.
Deliveries     == {"none", "requested", "isolated"}

Quote    == [status : Requests, confirmed : BOOLEAN]
Document == [quote : 0 .. MaxQuotes, status : DocumentStatus,
             batch : Batches \cup {None}, delivery : Deliveries]
Operator == [document : Documents \cup {None}, completes : BOOLEAN, stale : BOOLEAN]
Away     == [document |-> None, completes |-> FALSE, stale |-> FALSE]
Unused   == [quote |-> 0, status |-> "absent", batch |-> None, delivery |-> "none"]

Init ==
    /\ conversation = FirstContact /\ assigned = None /\ contextual = FALSE
    /\ quotes = [s \in Numbers |-> [status |-> "not-started", confirmed |-> FALSE]]
    /\ current = 0
    /\ documents = [d \in Documents |-> Unused]
    /\ operator = Away
    /\ spent = [isolations |-> 0, overlaps |-> 0]
-------------------------------------------------------------------------------
Of(q)        == {d \in Documents : documents[d].quote = q}
InBatch(q,b) == {d \in Of(q) : documents[d].batch = b}
Unfinished   == {"uploaded", "queued", "failed"}
SentOf(q)    == {d \in Of(q) : documents[d].status = "sent"}
Sending      == {d \in Documents : documents[d].status = "queued"}

Closed      == ~Open(conversation)   \* closedAt is set with the state
InCommercial == conversation.department = "commercial"
Final       == {"approved", "rejected"}

\* acceptsProposalDocumentsForCurrentCycle, for the current request
AcceptsDocuments ==
    /\ current > 0
    /\ quotes[current].confirmed
    /\ quotes[current].status \in {"under-review", "waiting-for-customer"}

SetStatus(q, s) == quotes' = [quotes EXCEPT ![q].status = s]

\* What createQuoteProposal and sendQuoteProposal make of the conversation.
SendPending(u) ==
    /\ conversation' = Proposed(conversation)
    /\ assigned' = u
-------------------------------------------------------------------------------
(* Transitions asked for by an attendant (u) or by the automation (None).  *)

\* Slip: an attendant may forward a conversation whose proposal is being sent.
WaitsForDeliveryButForward == {"take-over", "return-to-bot", "new-quote-request"}

WaitsForDelivery == {"take-over", "return-to-bot", "forward", "new-quote-request"}

AssignedBy(u, name, to) ==
    IF to.conversationState # "human-active" THEN None
    ELSE IF name = "take-over" THEN u ELSE assigned

ContextualAfter(name, to) ==
    CASE name = "confirm-quote" -> TRUE
      [] name \in ClosingTransitions -> FALSE
      [] name = "return-to-bot" /\ to.flowStep = "commercial-follow-up-menu" -> TRUE
      [] name = "resume-contextual-contact" -> FALSE
      [] OTHER -> contextual

OpensQuote(name) == name \in {"start-quote", "new-quote-request"}
MovesQuote(name) == name \in {"present-quote-summary", "correct-quote", "confirm-quote"}

\* Slip: a new request leaves the previous one under review.
QuotesAfterKeepingPrevious(name, to) ==
    IF OpensQuote(name) THEN
        [quotes EXCEPT ![current + 1] =
            [status |-> "collecting-information", confirmed |-> FALSE]]
    ELSE IF MovesQuote(name) THEN
        [quotes EXCEPT ![current] =
            [status |-> to.requestStatus, confirmed |-> @.confirmed \/ name = "confirm-quote"]]
    ELSE quotes

QuotesAfter(name, to) ==
    IF OpensQuote(name) THEN
        [s \in Numbers |->
            IF s = current + 1 THEN [status |-> "collecting-information", confirmed |-> FALSE]
            ELSE IF /\ s = current /\ name = "new-quote-request"
                    /\ quotes[s].status = "under-review"
                 THEN [quotes[s] EXCEPT !.status = "cancelled"]
            ELSE quotes[s]]
    ELSE IF MovesQuote(name) THEN
        [quotes EXCEPT ![current] =
            [status |-> to.requestStatus, confirmed |-> @.confirmed \/ name = "confirm-quote"]]
    ELSE quotes

Transition(u, name, target) ==
    LET to   == Resolved(conversation, name, target)
        next == AssignedBy(u, name, to)
    IN  /\ name \in IF u = None THEN SystemTransitions ELSE UserTransitions
        /\ name \in WaitsForDelivery => Sending = {}
        /\ Permitted(conversation, name)
        /\ OpensQuote(name) => current < MaxQuotes
        /\ MovesQuote(name) => current > 0
        /\ to.conversationState = "human-active" => next # None
        /\ conversation' = to /\ assigned' = next
        /\ contextual' = ContextualAfter(name, to)
        /\ quotes' = QuotesAfter(name, to)
        /\ current' = IF OpensQuote(name) THEN current + 1 ELSE current
        /\ UNCHANGED documents
-------------------------------------------------------------------------------
(* Messages of the customer.                                               *)

Reopen ==
    /\ Closed
    /\ conversation' = Resolved(conversation, "reopen-after-customer-message", "commercial")
    /\ assigned' = None /\ contextual' = FALSE
    /\ UNCHANGED <<quotes, current, documents>>

Resume ==
    \E name \in ResumeNames(conversation, contextual) :
        /\ Permitted(conversation, name)
        /\ conversation' = Resolved(conversation, name, conversation.department)
        /\ contextual' = (contextual /\ name = "resume-awaited-reply")
        /\ UNCHANGED <<assigned, quotes, current, documents>>
-------------------------------------------------------------------------------
(* Proposals, by the attendants.                                           *)

CreateProposal(u) ==
    /\ InCommercial /\ ~Closed
    /\ assigned \in {None, u}
    /\ current > 0 => quotes[current].status # "under-review"
    /\ current < MaxQuotes
    /\ quotes' = [quotes EXCEPT ![current + 1] = [status |-> "under-review", confirmed |-> TRUE]]
    /\ current' = current + 1
    /\ SendPending(u)
    /\ contextual' = FALSE
    /\ UNCHANGED documents

\* Slip: a decision without a delivered document.
MayDecideUndelivered(q) == InCommercial /\ ~Closed /\ quotes[q].status \notin Final

MayDecide(q) ==
    /\ InCommercial /\ ~Closed
    /\ SentOf(q) # {}
    /\ quotes[q].status \notin Final

Decide(q, decision) ==
    /\ q <= current /\ MayDecide(q)
    /\ SetStatus(q, decision)
    /\ conversation' = IF q = current
                       THEN [conversation EXCEPT !.requestStatus = decision]
                       ELSE conversation
    /\ UNCHANGED <<assigned, contextual, current, documents>>

UpdateStatus(u, status) ==
    /\ current > 0 /\ InCommercial /\ ~Closed
    /\ assigned = u
    /\ quotes[current].status \notin Final \cup {"cancelled", status}
    /\ status = "waiting-for-customer" => SentOf(current) # {}
    /\ SetStatus(current, status)
    /\ conversation' = [conversation EXCEPT !.requestStatus = status]
    /\ UNCHANGED <<assigned, contextual, current, documents>>

Upload(d) ==
    /\ documents[d].status = "absent"
    /\ InCommercial /\ ~Closed /\ AcceptsDocuments
    /\ \A e \in Of(current) : documents[e].batch # None => documents[e].status \notin Unfinished
    /\ documents' = [documents EXCEPT ![d] = [Unused EXCEPT !.quote = current, !.status = "uploaded"]]
    /\ UNCHANGED <<conversation, assigned, contextual, quotes, current>>

\* The documents that make up batch b, as the panel lists them.
Composes(batchDocuments, b) ==
    LET existing == InBatch(current, b)
    IN  /\ batchDocuments \subseteq Of(current)
        /\ \A e \in batchDocuments : documents[e].batch \in {None, b}
        /\ existing = {} =>
              \A e \in batchDocuments : documents[e].status \in {"uploaded", "failed"}
        /\ existing # {} => existing = batchDocuments

CompetingBatch(b) ==
    \E e \in Of(current) : /\ documents[e].batch \notin {None, b}
                           /\ documents[e].status \in Unfinished

Send(u, d, batchDocuments, b) ==
    /\ InCommercial /\ ~Closed /\ AcceptsDocuments
    /\ assigned \in {None, u}
    /\ d \in batchDocuments /\ d \in Of(current)
    /\ documents[d].status \in {"uploaded", "failed"}
    /\ Composes(batchDocuments, b)
    /\ ~CompetingBatch(b)
    /\ documents' = [e \in Documents |->
            IF e = d THEN [documents[e] EXCEPT !.status = "queued", !.batch = b,
                                               !.delivery = "requested"]
            ELSE IF e \in batchDocuments THEN [documents[e] EXCEPT !.batch = b]
            ELSE documents[e]]
    /\ SetStatus(current, "under-review")
    /\ SendPending(u)
    /\ UNCHANGED <<contextual, current>>
-------------------------------------------------------------------------------
(* Results of the deliveries.                                              *)

Settled(d, s) == [documents EXCEPT ![d].status = s, ![d].delivery = "none"]

\* Slip: every document of the request is counted, not those of the batch.
LastOfQuote(d) ==
    /\ \A e \in Of(documents[d].quote) \ {d} : documents[e].status \notin Unfinished
    /\ quotes[documents[d].quote].status = "under-review"

\* completeQuoteProposalBatchIfReady, with d counted as sent: the batch has no
\* other document to send, and the request still waits for the delivery.
LastOfBatch(d) ==
    /\ \A e \in InBatch(documents[d].quote, documents[d].batch) \ {d} :
          documents[e].status \notin Unfinished
    /\ quotes[documents[d].quote].status = "under-review"

Confirmed == Resolved(conversation, "proposal-delivery-confirmed", "commercial")

CompleteBatch(d) ==
    /\ SetStatus(documents[d].quote, "waiting-for-customer")
    /\ conversation' = Confirmed
    /\ assigned' = None /\ contextual' = FALSE

\* What recordEvolutionResult asks for, whatever the result.
Recordable(d) ==
    /\ documents[d].status = "queued"
    /\ quotes[documents[d].quote].status = "under-review"
    /\ Permitted(conversation, "proposal-delivery-confirmed")

RecordSentOfMany(d) ==
    /\ documents[d].delivery = "requested" /\ Recordable(d) /\ ~LastOfBatch(d)
    /\ documents' = Settled(d, "sent")
    /\ UNCHANGED <<conversation, assigned, contextual, quotes, current>>

RecordSentLast(d) ==
    /\ documents[d].delivery = "requested" /\ Recordable(d) /\ LastOfBatch(d)
    /\ documents' = Settled(d, "sent")
    /\ CompleteBatch(d)
    /\ UNCHANGED current

RecordFailed(d) ==
    /\ documents[d].delivery = "requested" /\ Recordable(d)
    /\ documents' = Settled(d, "failed")
    /\ UNCHANGED <<conversation, assigned, contextual, quotes, current>>

\* A result that is refused, or not known, isolates the row of the message.
Isolated(d) == documents' = [documents EXCEPT ![d].delivery = "isolated"]

Refuse(d) ==
    /\ documents[d].delivery = "requested" /\ ~Recordable(d)
    /\ Isolated(d)
    /\ UNCHANGED <<conversation, assigned, contextual, quotes, current>>

LoseResult(d) ==
    /\ documents[d].delivery = "requested"
    /\ spent.isolations < MaxIsolations
    /\ spent' = [spent EXCEPT !.isolations = @ + 1]
    /\ Isolated(d)
    /\ UNCHANGED <<conversation, assigned, contextual, quotes, current, operator>>

\* confirmed-not-sent: a new attempt of the same message.
ReconcileNotSent(d) ==
    /\ documents[d].delivery = "isolated" /\ operator.document # d
    /\ documents' = [documents EXCEPT ![d].delivery = "requested"]
    /\ UNCHANGED <<conversation, assigned, contextual, quotes, current>>

\* confirmed-sent: counts the batch and reads the conversation without its
\* lock, and fails at once when the batch is complete and the conversation
\* does not accept the confirmation.
BeginReconcileSent(d) ==
    /\ operator = Away
    /\ documents[d].delivery = "isolated" /\ documents[d].status = "queued"
    /\ LastOfBatch(d) => Permitted(conversation, "proposal-delivery-confirmed")
    /\ operator' = [document |-> d, completes |-> LastOfBatch(d), stale |-> FALSE]
    /\ UNCHANGED <<conversation, assigned, contextual, quotes, current, documents, spent>>

EndReconcileSent ==
    LET d == operator.document
    IN  /\ d # None
        /\ \/ /\ operator.completes /\ ~operator.stale
              /\ CompleteBatch(d)
           \/ /\ ~operator.completes
              /\ UNCHANGED <<conversation, assigned, contextual, quotes>>
        /\ documents' = Settled(d, "sent")
        /\ operator' = Away
        /\ UNCHANGED <<current, spent>>

\* The update is guarded by the versions that were read.
AbortReconcileSent ==
    /\ operator.document # None /\ operator.completes /\ operator.stale
    /\ operator' = Away
    /\ UNCHANGED <<conversation, assigned, contextual, quotes, current, documents, spent>>
-------------------------------------------------------------------------------
\* An operation that commits while a reconciliation is open.
Beside(versioned) ==
    IF operator = Away THEN UNCHANGED <<operator, spent>>
    ELSE /\ spent.overlaps < MaxOverlaps
         /\ spent' = [spent EXCEPT !.overlaps = @ + 1]
         /\ operator' = [operator EXCEPT !.stale = @ \/ versioned]

Automation == \E name \in Commands, p \in Departments : Transition(None, name, p)
Attendant  == \E u \in Users, name \in Commands, p \in Departments : Transition(u, name, p)
Customer   == Reopen \/ Resume
Proposals  == \/ \E u \in Users : CreateProposal(u)
              \/ \E q \in 1 .. current, decision \in Final : Decide(q, decision)
              \/ \E u \in Users, s \in {"under-review", "waiting-for-customer", "cancelled"} :
                    UpdateStatus(u, s)
              \/ \E u \in Users, b \in Batches, B \in SUBSET Documents :
                    \E d \in B : Send(u, d, B, b)
              \/ \E d \in Documents : RecordSentLast(d)
Progress    == \E d \in Documents :
                  \/ Upload(d) \/ RecordSentOfMany(d) \/ RecordFailed(d)
                  \/ Refuse(d) \/ ReconcileNotSent(d)

Next ==
    \/ (Automation \/ Attendant \/ Customer \/ Proposals) /\ Beside(TRUE)
    \/ Progress /\ Beside(FALSE)
    \/ \E d \in Documents : LoseResult(d) \/ BeginReconcileSent(d)
    \/ EndReconcileSent
    \/ AbortReconcileSent

Spec == Init /\ [][Next]_vars

\* A reconciliation that was begun ends, one way or the other.
FairSpec == Spec /\ WF_vars(EndReconcileSent \/ AbortReconcileSent)
-------------------------------------------------------------------------------
TypeOK ==
    /\ conversation \in Snapshot
    /\ assigned \in Users \cup {None}
    /\ contextual \in BOOLEAN
    /\ quotes \in [Numbers -> Quote] /\ current \in 0 .. MaxQuotes
    /\ documents \in [Documents -> Document]
    /\ operator \in Operator
    /\ spent \in [isolations : 0 .. MaxIsolations, overlaps : 0 .. MaxOverlaps]

\* The commercial situation shown with the conversation is the one of its
\* latest quote request, and no earlier request is still under review.
RequestFollowsQuote ==
    /\ conversation.requestStatus =
          IF current = 0 THEN "not-started" ELSE quotes[current].status
    /\ \A q \in 1 .. current : quotes[q].status = "under-review" => q = current

\* A request has at most one batch that is not finished.
OneOpenBatch ==
    \A q \in Numbers :
        Cardinality({documents[d].batch : d \in {e \in Of(q) :
            documents[e].batch # None /\ documents[e].status \in Unfinished}}) <= 1

\* A request waits for the customer's answer to a proposal, or is decided,
\* only when a proposal document reached the customer.
AnswersAProposal ==
    \A q \in 1 .. current :
        \/ quotes[q].status \in Final
        \/ quotes[q].status = "waiting-for-customer" /\ quotes[q].confirmed
        => SentOf(q) # {}

\* Proposals are sent one batch at a time and answered when they arrived.
ProposalsInOrder == OneOpenBatch /\ AnswersAProposal

\* A decision is final.
DecisionIsFinal ==
    [][\A q \in Numbers : quotes[q].status \in Final => quotes'[q].status = quotes[q].status]_vars

\* The webhook never refuses a customer's message because the transition it
\* brings about is not accepted: it would be delivered again for ever.
InboundIsNeverRefused ==
    /\ Closed => Permitted(conversation, "reopen-after-customer-message")
    /\ \A name \in ResumeNames(conversation, contextual) : Permitted(conversation, name)

Awaited(d) == /\ documents[d].status = "queued"
              /\ quotes[documents[d].quote].status = "under-review"

\* Only a closing takes from a proposal that is being sent the conversation
\* that accepts its confirmation.
OnlyClosingPreventsConfirmation ==
    [][\A d \in Documents :
          /\ ~Awaited(d) \/ Permitted(conversation, "proposal-delivery-confirmed")
          /\ Awaited(d)' /\ Open(conversation) /\ Open(conversation')
          => Permitted(conversation', "proposal-delivery-confirmed")]_vars

\* d is now sent, the last of its batch, and its request goes on with it.
LastConfirmation(d) ==
    LET q == documents[d].quote
    IN  /\ documents[d].status = "queued" /\ documents'[d].status = "sent"
        /\ \A e \in InBatch(q, documents[d].batch) : documents'[e].status = "sent"
        /\ quotes[q].status = "under-review"
MovesOn(q) == /\ quotes'[q].status = "waiting-for-customer"
              /\ conversation'.conversationState = "waiting-for-customer"

\* The confirmation of the last document of a batch moves its request and the
\* conversation on, as the documentation says of every confirmation.
LastConfirmationCounts ==
    [][\A d \in Documents : LastConfirmation(d) => MovesOn(documents[d].quote)]_vars

\* The confirmation of the last document of a batch moves its request and the
\* conversation on, unless something was committed beside a reconciliation.
UndisturbedConfirmationCounts ==
    [][\A d \in Documents : spent.overlaps = 0 /\ LastConfirmation(d)
                                => MovesOn(documents[d].quote)]_vars
===============================================================================
