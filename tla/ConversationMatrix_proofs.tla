----------------------- MODULE ConversationMatrix_proofs -----------------------
(***************************************************************************)
(* The transitions of the matrix keep a snapshot well formed, whoever      *)
(* attends and whatever the departments are.                               *)
(***************************************************************************)
EXTENDS ConversationMatrix, TLAPS

\* A snapshot in a state and a step, with a step to resume.
Shape(c, state, step, resume) ==
    /\ c \in Snapshot
    /\ c.conversationState = state /\ c.flowStep = step /\ c.resumeFlowStep = resume

\* The parts of Fits, over the state and the steps.
Matches(state, step, resume) ==
    /\ state = "human-active" => step \in {"human-service", "quote-send-pending"}
    /\ state = "sent-to-human" => step = "human-service"
    /\ state = "waiting-for-customer" =>
          step \in {"quote-summary-confirmation", "quote-send-pending"}
    /\ state = "closed" <=> step = "closed"
    /\ state = "bot-active" => step \notin NotOfTheBot
    /\ resume \notin NotOfTheBot

LEMMA SnapshotShape ==
    ASSUME NEW c \in Snapshot
    PROVE  Shape(c, c.conversationState, c.flowStep, c.resumeFlowStep)
  BY DEF Shape

LEMMA MatchingFits ==
    ASSUME NEW c, NEW state, NEW step, NEW resume,
           Shape(c, state, step, resume), Matches(state, step, resume)
    PROVE  c \in Snapshot /\ Fits(c, state = "human-active")
           /\ Fits(c, c.conversationState = "human-active")
  BY DEF Shape, Matches, Fits, Open, Bot

LEMMA FitsMatches ==
    ASSUME NEW c \in Snapshot, NEW attended \in BOOLEAN, Fits(c, attended)
    PROVE  Matches(c.conversationState, c.flowStep, c.resumeFlowStep)
  BY DEF Matches, Fits, Open, Bot

LEMMA CommercialShape ==
    ASSUME NEW c, NEW state, NEW step, NEW resume, Shape(c, state, step, resume),
           NEW d \in Departments
    PROVE  Shape([c EXCEPT !.department = d], state, step, resume)
  BY DEF Shape, Snapshot

LEMMA RequestShape ==
    ASSUME NEW c, NEW state, NEW step, NEW resume, Shape(c, state, step, resume),
           NEW r \in Requests
    PROVE  Shape([c EXCEPT !.requestStatus = r], state, step, resume)
  BY DEF Shape, Snapshot

LEMMA ResumeShape ==
    ASSUME NEW c, NEW state, NEW step, NEW resume, Shape(c, state, step, resume),
           NEW s \in Steps
    PROVE  Shape([c EXCEPT !.resumeFlowStep = s], state, step, s)
  BY DEF Shape, Snapshot

LEMMA ToShape ==
    ASSUME NEW c \in Snapshot, NEW state \in States, NEW step \in Steps
    PROVE  Shape(To(c, state, step), state, step, "none")
  BY DEF To, Shape, Snapshot

LEMMA CommercialTyped == \A c \in Snapshot : Commercial(c) \in Snapshot
  BY DepartmentAssumption DEF Commercial, Snapshot
\* The bot resumes in a step of its own.
LEMMA BotFlowStepOwn ==
    ASSUME NEW c \in Snapshot
    PROVE  BotFlowStep(c) \in Steps \ NotOfTheBot
  BY DEF BotFlowStep, Snapshot, Steps, NotOfTheBot

\* The first contact is a snapshot that nobody attends, whatever its request.
LEMMA FirstContactFits ==
    ASSUME NEW r \in Requests
    PROVE  /\ [FirstContact EXCEPT !.requestStatus = r] \in Snapshot
           /\ Fits([FirstContact EXCEPT !.requestStatus = r], FALSE)
<1>1. Shape(FirstContact, "bot-active", "main-menu", "none")
  BY DepartmentAssumption DEF FirstContact, Shape, Snapshot, States, Steps, Requests
<1>2. Shape([FirstContact EXCEPT !.requestStatus = r], "bot-active", "main-menu", "none")
  BY <1>1, RequestShape
<1>3. Matches("bot-active", "main-menu", "none")
  BY DEF Matches, NotOfTheBot
<1>4. QED
  BY <1>2, <1>3 DEF Shape, Matches, Fits, Open, Bot

\* A proposal makes the conversation one that its author attends.
LEMMA ProposedFits ==
    ASSUME NEW c \in Snapshot
    PROVE  /\ Proposed(c) \in Snapshot /\ Fits(Proposed(c), TRUE)
           /\ Proposed(c).conversationState = "human-active"
<1>1. Shape(Proposed(c), "human-active", "quote-send-pending", "commercial-follow-up-menu")
  BY DEF Proposed, Shape, Snapshot, States, Steps, Requests
<1>2. Matches("human-active", "quote-send-pending", "commercial-follow-up-menu")
  BY DEF Matches, NotOfTheBot
<1>3. QED
  BY <1>1, <1>2, MatchingFits DEF Shape

\* Another commercial situation changes nothing else of the conversation.
LEMMA RequestFits ==
    ASSUME NEW c \in Snapshot, NEW attended \in BOOLEAN, Fits(c, attended),
           NEW r \in Requests
    PROVE  /\ [c EXCEPT !.requestStatus = r] \in Snapshot
           /\ Fits([c EXCEPT !.requestStatus = r], attended)
           /\ [c EXCEPT !.requestStatus = r].conversationState = c.conversationState
<1>1. Shape([c EXCEPT !.requestStatus = r], c.conversationState, c.flowStep, c.resumeFlowStep)
  BY SnapshotShape, RequestShape
<1>2. c.conversationState = "human-active" <=> attended
  BY DEF Fits
<1>3. QED
  BY <1>1, <1>2, FitsMatches, MatchingFits DEF Shape

\* A snapshot whose state and step fit together.
WellFormed(c) == c \in Snapshot /\ Fits(c, c.conversationState = "human-active")

LEMMA ToWellFormed ==
    ASSUME NEW c \in Snapshot, NEW state \in States, NEW step \in Steps,
           Matches(state, step, "none")
    PROVE  WellFormed(To(c, state, step))
  BY ToShape, MatchingFits DEF WellFormed

\* A change of department, request or step to resume leaves it well formed.
LEMMA ChangeWellFormed ==
    ASSUME NEW c, WellFormed(c)
    PROVE  /\ \A d \in Departments : WellFormed([c EXCEPT !.department = d])
           /\ \A r \in Requests : WellFormed([c EXCEPT !.requestStatus = r])
           /\ \A s \in Steps \ NotOfTheBot : WellFormed([c EXCEPT !.resumeFlowStep = s])
<1> DEFINE state == c.conversationState
           step  == c.flowStep
           resume == c.resumeFlowStep
<1>1. Shape(c, state, step, resume) /\ Matches(state, step, resume)
  BY SnapshotShape, FitsMatches DEF WellFormed
<1>2. ASSUME NEW s \in Steps \ NotOfTheBot PROVE Matches(state, step, s)
  BY <1>1 DEF Matches
<1> HIDE DEF state, step, resume
<1>3. ASSUME NEW d \in Departments PROVE WellFormed([c EXCEPT !.department = d])
  BY <1>1, CommercialShape, MatchingFits DEF WellFormed
<1>4. ASSUME NEW r \in Requests PROVE WellFormed([c EXCEPT !.requestStatus = r])
  BY <1>1, RequestShape, MatchingFits DEF WellFormed
<1>5. ASSUME NEW s \in Steps \ NotOfTheBot PROVE WellFormed([c EXCEPT !.resumeFlowStep = s])
  BY <1>1, <1>2, ResumeShape, MatchingFits DEF WellFormed
<1>6. QED
  BY <1>3, <1>4, <1>5

\* Whatever transition the matrix permits, its result is a snapshot whose state
\* and step fit together, with a step of the bot to resume.
THEOREM ResolvedFits ==
    ASSUME NEW c \in Snapshot, NEW attended \in BOOLEAN, Fits(c, attended),
           NEW name \in TransitionNames, NEW target \in Departments,
           Permitted(c, name)
    PROVE  WellFormed(Resolved(c, name, target))
<1>1. /\ Commercial(c) \in Snapshot
      /\ BotFlowStep(c) \in Steps \ NotOfTheBot
      /\ WellFormed(c)
  BY CommercialTyped, BotFlowStepOwn DEF WellFormed, Fits
<1>2. /\ \A step \in Steps \ NotOfTheBot : Matches("bot-active", step, "none")
      /\ Matches("human-active", "human-service", "none")
      /\ Matches("sent-to-human", "human-service", "none")
      /\ Matches("waiting-for-customer", "quote-send-pending", "none")
      /\ Matches("waiting-for-customer", "quote-summary-confirmation", "none")
      /\ Matches("closed", "closed", "none")
  BY DEF Matches, NotOfTheBot
<1>3. /\ {"bot-active", "human-active", "sent-to-human", "waiting-for-customer", "closed"} \subseteq States
      /\ {"main-menu", "commercial-menu", "quote-data-collection",
          "quote-summary-confirmation", "commercial-follow-up-menu"} \subseteq Steps \ NotOfTheBot
      /\ {"quote-send-pending", "human-service", "closed"} \subseteq Steps
      /\ {"collecting-information", "waiting-for-customer", "under-review"} \subseteq Requests
      /\ c.flowStep \in Steps
  BY DEF States, Steps, Requests, NotOfTheBot, Snapshot
<1>4. ASSUME NEW d \in Snapshot, NEW step \in Steps \ NotOfTheBot
      PROVE  WellFormed(To(d, "bot-active", step))
  BY <1>2, <1>3, ToWellFormed
<1>5. WellFormed(To(c, "human-active", "human-service"))
      /\ WellFormed(To(c, "sent-to-human", "human-service"))
      /\ WellFormed(To(c, "waiting-for-customer", "quote-send-pending"))
      /\ WellFormed(To(c, "waiting-for-customer", "quote-summary-confirmation"))
      /\ WellFormed(To(c, "closed", "closed"))
  BY <1>2, <1>3, ToWellFormed
<1>6. CASE name = "present-main-menu"
  BY <1>3, <1>4, <1>6 DEF Permitted, Resolved, Bot, ClosingTransitions
<1>7. CASE name \in {"start-quote", "new-quote-request"}
  BY <1>1, <1>3, <1>4, <1>7, ChangeWellFormed DEF Resolved, Collecting, ClosingTransitions
<1>8. CASE name = "select-commercial"
  BY <1>1, <1>3, <1>4, <1>8 DEF Resolved, ClosingTransitions
<1>9. CASE name = "start-department-contact"
  BY <1>3, <1>4, <1>9, ChangeWellFormed DEF Resolved, ClosingTransitions
<1>10. CASE name \in {"correct-quote", "confirm-quote"}
  BY <1>3, <1>4, <1>10, ChangeWellFormed DEF Resolved, ClosingTransitions
<1>11. CASE name = "proposal-delivery-confirmed"
  BY <1>3, <1>5, <1>11, ChangeWellFormed DEF Resolved, ClosingTransitions
<1>12. CASE name = "proposal-response-received"
  BY <1>3, <1>5, <1>12, ChangeWellFormed DEF Resolved, ClosingTransitions
<1>13. CASE name = "return-to-main-menu"
  BY <1>3, <1>4, <1>13 DEF Resolved, ClosingTransitions
<1>14. CASE name = "take-over"
  BY <1>1, <1>5, <1>14, ChangeWellFormed DEF Resolved, ClosingTransitions
<1>15. CASE name = "return-to-bot"
  BY <1>1, <1>4, <1>15 DEF Resolved, ClosingTransitions
<1>16. CASE name = "forward"
  <2>1. WellFormed([To(c, "sent-to-human", "human-service") EXCEPT !.resumeFlowStep = BotFlowStep(c)])
    BY <1>1, <1>5, ChangeWellFormed
  <2>2. QED
    BY <2>1, <1>16, ChangeWellFormed DEF Resolved, Forwarded, ClosingTransitions
<1>17. CASE name = "mark-read"
  BY <1>1, <1>17 DEF Resolved, ClosingTransitions
<1>18. CASE name \in ClosingTransitions
  BY <1>5, <1>18 DEF Resolved, ClosingTransitions
<1>19. CASE name \in {"reopen-after-customer-message", "resume-contextual-contact"}
  BY <1>1, <1>3, <1>4, <1>19 DEF Resolved, ClosingTransitions
<1>20. CASE name = "resume-awaited-reply"
  BY <1>3, <1>4, <1>20 DEF Permitted, Resolved, ClosingTransitions
<1>21. CASE name = "present-quote-summary"
  <2> DEFINE summary == [c EXCEPT
                 !.conversationState = "waiting-for-customer",
                 !.flowStep = "quote-summary-confirmation",
                 !.requestStatus = "waiting-for-customer",
                 !.resumeState = "bot-active",
                 !.resumeFlowStep = "quote-summary-confirmation"]
  <2>1. Shape(summary, "waiting-for-customer", "quote-summary-confirmation",
              "quote-summary-confirmation")
    BY DEF Shape, Snapshot, States, Steps, Requests
  <2>2. Matches("waiting-for-customer", "quote-summary-confirmation", "quote-summary-confirmation")
    BY DEF Matches, NotOfTheBot
  <2>3. Resolved(c, name, target) = summary
    BY <1>21 DEF Resolved, ClosingTransitions
  <2> HIDE DEF summary
  <2>4. QED
    BY <2>1, <2>2, <2>3, MatchingFits DEF WellFormed
<1>22. QED
  BY <1>6, <1>7, <1>8, <1>9, <1>10, <1>11, <1>12, <1>13, <1>14, <1>15, <1>16,
     <1>17, <1>18, <1>19, <1>20, <1>21
  DEF TransitionNames, UserTransitions, SystemTransitions, WebhookTransitions,
      ClosingTransitions
Requesting == {"start-quote", "new-quote-request", "present-quote-summary",
               "correct-quote", "confirm-quote", "proposal-delivery-confirmed"}

\* Only the transitions of the commercial cycle change the situation shown with
\* the conversation, and each to one value.
THEOREM ResolvedRequest ==
    ASSUME NEW c \in Snapshot, NEW name \in TransitionNames, NEW target \in Departments
    PROVE  Resolved(c, name, target).requestStatus =
              CASE name \in {"start-quote", "new-quote-request", "correct-quote"} ->
                        "collecting-information"
                [] name \in {"present-quote-summary", "proposal-delivery-confirmed"} ->
                        "waiting-for-customer"
                [] name = "confirm-quote" -> "under-review"
                [] name \notin Requesting -> c.requestStatus
<1>1. ASSUME NEW d \in Snapshot, NEW state, NEW step
      PROVE  /\ To(d, state, step).requestStatus = d.requestStatus
             /\ \A q : [To(d, state, step) EXCEPT !.requestStatus = q].requestStatus = q
             /\ \A q : [To(d, state, step) EXCEPT !.department = q].requestStatus = d.requestStatus
             /\ \A q : [To(d, state, step) EXCEPT !.resumeFlowStep = q].requestStatus = d.requestStatus
             /\ \A q, e : [To(d, state, step) EXCEPT !.resumeFlowStep = q,
                                                   !.department = e].requestStatus = d.requestStatus
  BY DEF To, Snapshot
<1>2. Commercial(c) \in Snapshot /\ Commercial(c).requestStatus = c.requestStatus
  BY CommercialTyped DEF Commercial, Snapshot
<1>3. CASE name \in {"start-quote", "new-quote-request"}
  BY <1>1, <1>2, <1>3 DEF Resolved, Collecting, ClosingTransitions, Requesting
<1>4. CASE name = "correct-quote"
  BY <1>1, <1>4 DEF Resolved, ClosingTransitions, Requesting, To, Snapshot
<1>5. CASE name = "confirm-quote"
  BY <1>1, <1>5 DEF Resolved, ClosingTransitions, Requesting, To, Snapshot
<1>6. CASE name = "proposal-delivery-confirmed"
  BY <1>1, <1>6 DEF Resolved, ClosingTransitions, Requesting, To, Snapshot
<1>7. CASE name = "present-quote-summary"
  BY <1>7 DEF Resolved, ClosingTransitions, Requesting, Snapshot
<1>8. CASE name \in {"select-commercial", "reopen-after-customer-message",
                    "resume-contextual-contact"}
  BY <1>1, <1>2, <1>8 DEF Resolved, ClosingTransitions, Requesting
<1>9. CASE name \in {"present-main-menu", "return-to-main-menu", "return-to-bot",
                    "resume-awaited-reply"} \cup ClosingTransitions
  BY <1>1, <1>9 DEF Resolved, ClosingTransitions, Requesting
<1>10. CASE name = "start-department-contact"
  BY <1>1, <1>10 DEF Resolved, ClosingTransitions, Requesting, To, Snapshot
<1>11. CASE name \in {"proposal-response-received", "take-over"}
  BY <1>1, <1>11 DEF Resolved, ClosingTransitions, Requesting
<1>12. CASE name = "forward"
  BY <1>1, <1>12 DEF Resolved, Forwarded, ClosingTransitions, Requesting, To, Snapshot
<1>13. CASE name = "mark-read"
  BY <1>13 DEF Resolved, ClosingTransitions, Requesting
<1>14. QED
  BY <1>3, <1>4, <1>5, <1>6, <1>7, <1>8, <1>9, <1>10, <1>11, <1>12, <1>13
  DEF TransitionNames, UserTransitions, SystemTransitions, WebhookTransitions,
      ClosingTransitions
\* A message never makes a conversation one that a person attends, nor takes
\* it from the person: the transitions it brings about start and end elsewhere.
LEMMA ResumedFits ==
    ASSUME NEW c \in Snapshot, NEW attended \in BOOLEAN, Fits(c, attended),
           NEW contextually \in BOOLEAN,
           NEW name \in ResumeNames(c, contextually), Permitted(c, name)
    PROVE  /\ name \in TransitionNames
           /\ Resolved(c, name, c.department) \in Snapshot
           /\ Fits(Resolved(c, name, c.department), attended)
           /\ ~attended
<1>1. name \in {"resume-awaited-reply", "proposal-response-received",
               "resume-contextual-contact"}
  BY DEF ResumeNames
<1>2. name \in TransitionNames /\ c.department \in Departments
  BY <1>1 DEF TransitionNames, WebhookTransitions, Snapshot
<1>3. c.conversationState \in {"waiting-for-customer", "sent-to-human", "bot-active"}
  BY DEF ResumeNames, InFollowUp, Bot
<1>4. ~attended
  BY <1>3 DEF Fits
<1>5. WellFormed(Resolved(c, name, c.department))
  BY <1>2, ResolvedFits
<1>6. Resolved(c, name, c.department).conversationState # "human-active"
  <2>1. \A d \in Snapshot, step \in Steps :
           /\ To(d, "bot-active", step).conversationState = "bot-active"
           /\ To(d, "sent-to-human", "human-service") \in Snapshot
           /\ To(d, "sent-to-human", "human-service").conversationState = "sent-to-human"
    BY ToShape DEF Shape, States, Steps
  <2>2. Commercial(c) \in Snapshot /\ c.flowStep \in Steps
        /\ "commercial-follow-up-menu" \in Steps
    BY CommercialTyped DEF Snapshot, Steps
  <2>3. CASE name = "resume-awaited-reply"
    BY <2>1, <2>2, <2>3 DEF Resolved, ClosingTransitions
  <2>4. CASE name = "resume-contextual-contact"
    BY <2>1, <2>2, <2>4 DEF Resolved, ClosingTransitions
  <2>5. CASE name = "proposal-response-received"
    <3>1. Resolved(c, name, c.department) =
             [To(c, "sent-to-human", "human-service")
                EXCEPT !.resumeFlowStep = "commercial-follow-up-menu"]
      BY <2>5 DEF Resolved, ClosingTransitions
    <3>2. QED
      BY <2>1, <2>2, <3>1 DEF Snapshot
  <2>6. QED
    BY <1>1, <2>3, <2>4, <2>5
<1>7. QED
  BY <1>2, <1>4, <1>5, <1>6 DEF WellFormed, Fits
===============================================================================
