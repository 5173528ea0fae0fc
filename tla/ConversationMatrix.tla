-------------------------- MODULE ConversationMatrix --------------------------
(***************************************************************************)
(* The transition matrix of a WhatsApp conversation: which transition is   *)
(* accepted from which snapshot, who may ask for it and what it makes of   *)
(* the snapshot.  Pure: the modules of the conversation apply it.          *)
(***************************************************************************)
CONSTANT Departments   \* "commercial" and the others

ASSUME DepartmentAssumption == "commercial" \in Departments
-------------------------------------------------------------------------------
States   == {"bot-active", "waiting-for-customer", "sent-to-human",
             "human-active", "closed"}
Steps    == {"main-menu", "commercial-menu", "quote-data-collection",
             "quote-summary-confirmation", "quote-send-pending",
             "commercial-follow-up-menu", "human-service", "closed"}
Requests == {"not-started", "collecting-information", "waiting-for-customer",
             "under-review", "approved", "rejected", "cancelled"}
Snapshot == [department : Departments, conversationState : States,
             flowStep : Steps, requestStatus : Requests,
             resumeState : {"none", "bot-active"},
             resumeFlowStep : Steps \cup {"none"}]

FirstContact == [department |-> "commercial", conversationState |-> "bot-active",
                 flowStep |-> "main-menu", requestStatus |-> "not-started",
                 resumeState |-> "none", resumeFlowStep |-> "none"]

UserTransitions    == {"take-over", "return-to-bot", "forward", "mark-read",
                       "close", "close-after-rejection"}
SystemTransitions  == {"present-main-menu", "select-commercial",
                       "start-department-contact", "start-quote",
                       "new-quote-request", "present-quote-summary",
                       "correct-quote", "confirm-quote",
                       "proposal-delivery-confirmed", "proposal-response-received",
                       "return-to-main-menu", "forward", "resume-awaited-reply",
                       "resume-contextual-contact"}
WebhookTransitions == {"proposal-response-received", "resume-awaited-reply",
                       "resume-contextual-contact", "reopen-after-customer-message"}
TransitionNames    == UserTransitions \cup SystemTransitions \cup WebhookTransitions
ClosingTransitions == {"close", "close-after-rejection"}
-------------------------------------------------------------------------------
FollowUpRequests == {"waiting-for-customer", "under-review", "approved", "rejected"}
NotOfTheBot      == {"quote-send-pending", "human-service", "closed"}

\* Slip: the step in which the person took over is kept as the bot's.
BotFlowStepOfTheHuman(c) ==
    IF c.requestStatus \in FollowUpRequests THEN "commercial-follow-up-menu"
    ELSE IF c.resumeFlowStep # "none" THEN c.resumeFlowStep ELSE c.flowStep

\* Where the bot goes on after a person has attended.  The switch of the code
\* is reached by the statuses that are not in follow-up only.
BotFlowStep(c) ==
    LET candidate == IF c.resumeFlowStep # "none" THEN c.resumeFlowStep ELSE c.flowStep
    IN  IF c.requestStatus \in FollowUpRequests THEN "commercial-follow-up-menu"
        ELSE IF candidate \notin NotOfTheBot THEN candidate
        ELSE IF c.requestStatus = "collecting-information" THEN "quote-data-collection"
        ELSE "main-menu"

Bot(c)  == c.conversationState = "bot-active"
Open(c) == c.conversationState # "closed"
InSummary(c) == /\ c.conversationState \in {"waiting-for-customer", "bot-active"}
                /\ c.flowStep = "quote-summary-confirmation"
                /\ c.requestStatus = "waiting-for-customer"

\* Slip: the state of the conversation is not looked at.
InFollowUpStep(c) == c.flowStep \in {"quote-send-pending", "commercial-follow-up-menu"}

InFollowUp(c) ==
    \/ c.conversationState = "sent-to-human" /\ c.flowStep = "quote-send-pending"
    \/ Bot(c) /\ c.flowStep \in {"quote-send-pending", "commercial-follow-up-menu"}

\* The policy that keeps an approved conversation from closing is off.
Permitted(c, name) ==
    CASE name = "present-main-menu"  -> Bot(c) /\ c.flowStep = "main-menu"
      [] name = "select-commercial"  -> Bot(c) /\ c.flowStep = "main-menu"
      [] name = "start-department-contact" ->
            Bot(c) /\ c.flowStep \in {"main-menu", "commercial-menu"}
      [] name = "start-quote" -> /\ Bot(c) /\ c.flowStep = "commercial-menu"
                                 /\ c.requestStatus = "not-started"
      [] name = "new-quote-request" -> /\ Bot(c) /\ c.flowStep = "commercial-follow-up-menu"
                                       /\ c.requestStatus \in FollowUpRequests
      [] name = "present-quote-summary" -> /\ Bot(c) /\ c.flowStep = "quote-data-collection"
                                           /\ c.requestStatus = "collecting-information"
      [] name = "correct-quote"       -> InSummary(c)
      [] name = "confirm-quote"       -> InSummary(c)
      [] name = "proposal-delivery-confirmed" ->
            /\ c.conversationState \in {"bot-active", "sent-to-human", "human-active"}
            /\ c.department = "commercial" /\ c.flowStep = "quote-send-pending"
            /\ c.requestStatus = "under-review"
      [] name = "proposal-response-received" ->
            /\ c.conversationState = "waiting-for-customer"
            /\ c.department = "commercial" /\ c.flowStep = "quote-send-pending"
            /\ c.requestStatus = "waiting-for-customer"
      [] name = "return-to-main-menu" -> Bot(c)
      [] name = "take-over"           -> TRUE
      [] name = "return-to-bot"       -> c.conversationState = "human-active"
      [] name = "forward"             -> Open(c)
      [] name = "mark-read"           -> Open(c)
      [] name = "close"               -> Open(c)
      [] name = "close-after-rejection" -> Open(c) /\ c.requestStatus = "rejected"
      [] name = "reopen-after-customer-message" -> ~Open(c) /\ c.flowStep = "closed"
      [] name = "resume-awaited-reply" ->
            /\ c.conversationState = "waiting-for-customer"
            /\ c.flowStep = "quote-summary-confirmation"
            /\ c.requestStatus = "waiting-for-customer" /\ c.resumeState = "bot-active"
      [] name = "resume-contextual-contact" ->
            InFollowUp(c) /\ c.requestStatus \in FollowUpRequests

\* The snapshot with a new state and step, and nothing to resume.
To(c, state, step) == [c EXCEPT !.conversationState = state, !.flowStep = step,
                                !.resumeState = "none", !.resumeFlowStep = "none"]
Commercial(c) == [c EXCEPT !.department = "commercial"]
Collecting(c) == [To(Commercial(c), "bot-active", "quote-data-collection")
                    EXCEPT !.requestStatus = "collecting-information"]

\* Slip: a forward only changes the department.
ForwardedInPlace(c, target) == [c EXCEPT !.department = target]

Forwarded(c, target) ==
    [To(c, "sent-to-human", "human-service")
       EXCEPT !.resumeFlowStep = BotFlowStep(c), !.department = target]

\* target is the department a forward or a department contact names.
Resolved(c, name, target) ==
    CASE name = "present-main-menu" -> To(c, c.conversationState, c.flowStep)
      [] name = "select-commercial" ->
            To(Commercial(c), "bot-active",
               IF c.requestStatus = "not-started" THEN "commercial-menu"
               ELSE "commercial-follow-up-menu")
      [] name = "start-department-contact" ->
            [To(c, "bot-active", "main-menu") EXCEPT !.department = target]
      [] name \in {"start-quote", "new-quote-request"} -> Collecting(c)
      [] name = "present-quote-summary" ->
            [c EXCEPT !.conversationState = "waiting-for-customer",
                      !.flowStep = "quote-summary-confirmation",
                      !.requestStatus = "waiting-for-customer",
                      !.resumeState = "bot-active",
                      !.resumeFlowStep = "quote-summary-confirmation"]
      [] name = "correct-quote" ->
            [To(c, "bot-active", "quote-data-collection")
               EXCEPT !.requestStatus = "collecting-information"]
      [] name = "confirm-quote" ->
            [To(c, "bot-active", "commercial-follow-up-menu")
               EXCEPT !.requestStatus = "under-review"]
      [] name = "proposal-delivery-confirmed" ->
            [To(c, "waiting-for-customer", "quote-send-pending")
               EXCEPT !.requestStatus = "waiting-for-customer"]
      [] name = "proposal-response-received" ->
            [To(c, "sent-to-human", "human-service")
               EXCEPT !.resumeFlowStep = "commercial-follow-up-menu"]
      [] name = "return-to-main-menu" -> To(c, "bot-active", "main-menu")
      [] name = "take-over" ->
            [To(c, "human-active", "human-service") EXCEPT !.resumeFlowStep = BotFlowStep(c)]
      [] name = "return-to-bot" -> To(c, "bot-active", BotFlowStep(c))
      [] name = "forward" -> Forwarded(c, target)
      [] name = "mark-read" -> c
      [] name \in ClosingTransitions -> To(c, "closed", "closed")
      [] name = "reopen-after-customer-message" -> To(Commercial(c), "bot-active", "main-menu")
      [] name = "resume-awaited-reply" ->
            To(c, "bot-active", c.flowStep)
      [] name = "resume-contextual-contact" ->
            To(Commercial(c), "bot-active", "commercial-follow-up-menu")
-------------------------------------------------------------------------------
(* What the repository does to a snapshot outside the matrix.              *)

\* The transition a text message of the customer brings about, chosen by
\* persistWebhookMessage.  Whether it came late enough for the contextual one
\* is left open.
ResumeNames(c, contextual) ==
    IF /\ c.conversationState = "waiting-for-customer"
       /\ c.flowStep = "quote-summary-confirmation"
       /\ c.requestStatus = "waiting-for-customer" /\ c.resumeState = "bot-active"
    THEN {"resume-awaited-reply"}
    ELSE IF /\ c.conversationState = "waiting-for-customer"
            /\ c.flowStep = "quote-send-pending"
            /\ c.requestStatus = "waiting-for-customer"
    THEN {"proposal-response-received"}
    ELSE IF /\ contextual /\ InFollowUp(c)
            /\ c.requestStatus \in {"under-review", "approved", "rejected"}
    THEN {"resume-contextual-contact"}
    ELSE {}

\* What createQuoteProposal and sendQuoteProposal write.
Proposed(c) == [c EXCEPT
    !.conversationState = "human-active", !.flowStep = "quote-send-pending",
    !.requestStatus = "under-review", !.resumeState = "none",
    !.resumeFlowStep = "commercial-follow-up-menu"]
-------------------------------------------------------------------------------
\* State, step and attendant of a conversation fit together, and the bot is
\* neither in nor sent back to a step that is not one of its own.
Fits(c, attended) ==
    /\ c.conversationState = "human-active" <=> attended
    /\ attended => c.flowStep \in {"human-service", "quote-send-pending"}
    /\ c.conversationState = "sent-to-human" => c.flowStep = "human-service"
    /\ c.conversationState = "waiting-for-customer" =>
          c.flowStep \in {"quote-summary-confirmation", "quote-send-pending"}
    /\ ~Open(c) <=> c.flowStep = "closed"
    /\ Bot(c) => c.flowStep \notin NotOfTheBot
    /\ c.resumeFlowStep \notin NotOfTheBot
===============================================================================
