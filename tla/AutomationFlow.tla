---------------------------- MODULE AutomationFlow ----------------------------
(***************************************************************************)
(* How the automation answers a customer: the plan it makes for the oldest *)
(* message of a conversation, the commands it sends to carry the plan out, *)
(* and what survives when an execution fails half way and the message is   *)
(* tried again.                                                            *)
(*                                                                         *)
(* An execution keeps two records of its own.  The checkpoint (the         *)
(* conversation and the plan, made once) and the decision (the answer of   *)
(* the model, together with a hash of what it was asked) are found again   *)
(* by the next attempt; every command has an identifier derived from the   *)
(* message, so that a repeated one returns its first result.  A command    *)
(* that is not a repetition names the version it was planned for.          *)
(*                                                                         *)
(* The queue is the one of AutomationOutbox seen from one conversation:    *)
(* the oldest message is executed, a failure puts it back until the        *)
(* attempts are used up.  A message is delivered in one step, what may go  *)
(* wrong there being the matter of EvolutionDispatch.                      *)
(***************************************************************************)
EXTENDS ConversationMatrix, Naturals, Sequences, FiniteSets

CONSTANTS
    Alphabet,      \* what the customer writes, among Kinds
    MaxMessages,   \* bound: messages the customer writes
    MaxQueue,      \* bound: messages waiting at a time
    MaxDisturbances, \* bound: actions of the attendants, and failures that
                     \* have nothing to do with the plan
    MaxAttempts    \* attempts of one message before it is isolated

ASSUME AutomationFlowAssumption ==
    /\ Alphabet \subseteq {"0", "1", "2", "3", "yes", "media"}
    /\ MaxMessages \in Nat /\ MaxQueue \in Nat /\ MaxDisturbances \in Nat
    /\ MaxAttempts \in Nat \ {0}

VARIABLES
    conversation,  \* the snapshot in the row
    marks,         \* the other columns of the row the plans depend on
    quote,         \* the current quote request
    inbox,         \* inbound rows of the outbox not concluded yet, oldest first
    work,          \* the execution of the oldest row, with its durable records
    screen,        \* what the customer was shown last, notices apart
    spent          \* how much of each bound is used up

vars == <<conversation, marks, quote, inbox, work, screen, spent>>
-------------------------------------------------------------------------------
\* What a customer may write: an option of a menu, an explicit confirmation
\* (an option of no menu), or something that is not text.  Where the model is
\* asked, an option stands for any other text.
Options == {"0", "1", "2", "3"}
Texts   == Options \cup {"yes"}
Kinds   == Texts \cup {"media"}

Screens == {"nothing", "notice", "main", "commercial", "follow-up", "contact",
            "question", "summary", "handoff"}

\* The topic, the flags of the payload, whether it is the first of a session,
\* and what the customer had been shown when writing it.
Event == [text : Kinds, human : BOOLEAN, allowed : BOOLEAN,
          follows : BOOLEAN, opens : BOOLEAN, saw : Screens]

Marks == [contact : BOOLEAN,      \* departmentContactOption is set
          main : BOOLEAN,         \* mainMenuPresentedAt is set
          followUp : BOOLEAN,     \* followUpMenuPresentedAt is set
          contextual : BOOLEAN,   \* contextualFollowUpAt is set
          attended : BOOLEAN]     \* assignedToUserId is set

Quote   == [open : BOOLEAN, confirmed : BOOLEAN, complete : BOOLEAN]
NoQuote == [open |-> FALSE, confirmed |-> FALSE, complete |-> FALSE]

\* A plan: the transition before, the mode of the model, what is shown, and the
\* transition after.
PlanKinds == {"none", "reply", "ai", "leave-to-human", "suppressed"}
Plan == [kind : PlanKinds, before : SystemTransitions \cup {"none"},
         mode : {"none", "quote", "correction"},
         shows : Screens, after : SystemTransitions \cup {"none"}]
NoPlan == [kind |-> "none", before |-> "none", mode |-> "none",
           shows |-> "nothing", after |-> "none"]
Shows(screenShown)          == [NoPlan EXCEPT !.kind = "reply", !.shows = screenShown]
After(screenShown, name)    == [Shows(screenShown) EXCEPT !.after = name]
Before(name, screenShown)   == [Shows(screenShown) EXCEPT !.before = name]
Asks(mode)                  == [NoPlan EXCEPT !.kind = "ai", !.mode = mode]
Suppressed                  == [NoPlan EXCEPT !.kind = "suppressed"]
LeaveToHuman                == [NoPlan EXCEPT !.kind = "leave-to-human"]

\* The answer of the model: the decision it reads from the text, whether the
\* data it extracted completes the request, and whether they can be stored.
Verdicts == {"undecided", "confirmed", "correction-requested", "human-requested",
             "ready-for-summary"}
Answer   == {answer \in [verdict : Verdicts, completes : BOOLEAN, readable : BOOLEAN] :
                answer.completes => answer.readable}
NoAnswer == [verdict |-> "undecided", completes |-> FALSE, readable |-> FALSE]

Stages == {"waiting", "planned", "prepared", "decided", "corrected", "patched",
           "checked", "created", "sent", "done"}
\* What the model was asked about: the conversation of the checkpoint, the
\* result of the transition before it, or that result given a second time.
Questions == {"nothing", "checkpoint", "result", "repeated result"}
Work   == [stage : Stages, attempt : 1 .. MaxAttempts,
           plan : Plan, asked : Questions,
           answer : Answer, done : SUBSET (SystemTransitions \cup {"patch", "message", "delivery"}),
           stale : BOOLEAN, repeated : SUBSET SystemTransitions,
           batch : 0 .. MaxMessages]
NoWork == [stage |-> "waiting", attempt |-> 1, plan |-> NoPlan, asked |-> "nothing",
           answer |-> NoAnswer, done |-> {}, stale |-> FALSE, repeated |-> {}, batch |-> 0]

Init ==
    /\ conversation = FirstContact
    /\ marks = [contact |-> FALSE, main |-> FALSE, followUp |-> FALSE,
                contextual |-> FALSE, attended |-> FALSE]
    /\ quote = NoQuote
    /\ inbox = <<>> /\ work = NoWork /\ screen = "nothing"
    /\ spent = [messages |-> 0, hands |-> 0, failures |-> 0, lost |-> 0]
-------------------------------------------------------------------------------
(* The plan.                                                               *)

ActiveQuote == quote.open /\ conversation.requestStatus \in FollowUpRequests

MainMenuPlan(text) ==
    CASE text = "1" -> Before("select-commercial",
                              IF ActiveQuote THEN "follow-up" ELSE "commercial")
      [] text \in {"2", "3"} -> Before("start-department-contact", "contact")
      [] OTHER -> Shows("main")

CommercialMenuPlan(text) ==
    CASE text = "0" -> Before("return-to-main-menu", "main")
      [] text = "1" -> [Asks("quote") EXCEPT !.before = "start-quote"]
      [] text = "2" -> Before("start-department-contact", "contact")
      [] text = "3" -> After("handoff", "forward")
      [] OTHER -> Shows("commercial")

FollowUpMenuPlan(text) ==
    IF text = "0" THEN Before("return-to-main-menu", "main")
    ELSE After("handoff", "forward")

\* The text decides under the menu of the step the conversation is in.
StepPlan(text) ==
    CASE conversation.flowStep = "main-menu" -> MainMenuPlan(text)
      [] conversation.flowStep = "commercial-menu" -> CommercialMenuPlan(text)
      [] conversation.flowStep = "commercial-follow-up-menu" -> FollowUpMenuPlan(text)
      [] conversation.flowStep = "quote-data-collection" -> Asks("quote")
      [] conversation.flowStep = "quote-summary-confirmation" -> Asks("correction")
      [] conversation.flowStep \in {"human-service", "quote-send-pending"} -> LeaveToHuman
      [] conversation.flowStep = "closed" -> Suppressed

HumanBlocks(event) ==
    \/ event.human
    \/ conversation.conversationState \in {"human-active", "sent-to-human"}
    \/ conversation.flowStep = "human-service"
    \/ marks.attended

InitialMenu(event) == event.opens /\ ~marks.main

\* Slip: the follow-up menu is shown on a contextual contact only.
FollowUpDueOnContact(event) ==
    conversation.flowStep = "commercial-follow-up-menu" /\ event.follows

FollowUpDue(event) ==
    /\ conversation.flowStep = "commercial-follow-up-menu"
    /\ event.follows \/ ~marks.followUp

PlanFor(event) ==
    IF HumanBlocks(event) THEN LeaveToHuman
    ELSE IF ~event.allowed \/ ~Bot(conversation) THEN Suppressed
    ELSE IF InitialMenu(event) THEN After("main", "present-main-menu")
    ELSE IF event.text = "media" THEN Shows("notice")
    ELSE IF marks.contact THEN After("notice", "return-to-main-menu")
    ELSE IF FollowUpDue(event) THEN Shows("follow-up")
    ELSE StepPlan(event.text)
-------------------------------------------------------------------------------
(* The customer writes.                                                    *)

Undisturbed == spent.hands + spent.failures < MaxDisturbances

Spend(what) == spent' = [spent EXCEPT ![what] = @ + 1]

\* A change of the row the execution did not make: its next command that is not
\* a repetition finds another version.
Overtaken == IF work.plan = NoPlan THEN work ELSE [work EXCEPT !.stale = TRUE]

Reopened(c) == [FirstContact EXCEPT !.requestStatus = c.requestStatus]

\* The row as the message finds it, after a re-opening.
Receive(text) ==
    LET reopens == ~Open(conversation)
        found   == IF reopens THEN Reopened(conversation) ELSE conversation
        cleared == IF reopens THEN [m \in DOMAIN marks |-> FALSE] ELSE marks
        names   == IF text = "media" THEN {}
                   ELSE ResumeNames(found, cleared.contextual)
    IN  /\ spent.messages < MaxMessages /\ Len(inbox) < MaxQueue
        /\ Spend("messages")
        /\ \E name \in IF names = {} THEN {"none"} ELSE names \cup
                          \* too early for the contextual contact
                          (IF "resume-contextual-contact" \in names THEN {"none"} ELSE {}) :
              LET to == IF name = "none" THEN found
                        ELSE Resolved(found, name, found.department)
                  clears == name \in {"resume-contextual-contact",
                                      "proposal-response-received"}
                  human  == \/ to.conversationState \in {"human-active", "sent-to-human"}
                            \/ to.flowStep = "human-service"
              IN  /\ conversation' = to
                  /\ marks' = IF clears THEN [cleared EXCEPT !.followUp = FALSE,
                                                             !.contextual = FALSE]
                              ELSE cleared
                  /\ inbox' = Append(inbox,
                        [text |-> text, human |-> human, allowed |-> Bot(to) /\ ~human,
                         follows |-> name = "resume-contextual-contact",
                         opens |-> reopens \/ spent.messages = 0, saw |-> screen])
                  /\ work' = IF reopens \/ name # "none" THEN Overtaken ELSE work
        /\ UNCHANGED <<quote, screen>>
-------------------------------------------------------------------------------
(* The execution of the oldest message.                                    *)

Oldest == inbox[1]

\* The rows a successful execution settles with its own: texts that were stored
\* within the window of the first, still pending and meant for the automation.
Kept(n) == {i \in 2 .. Len(inbox) : i > n \/ inbox[i].text = "media" \/ inbox[i].human}

\* The others, in their order.
Remaining(n) ==
    [k \in 1 .. Cardinality(Kept(n)) |->
        inbox[CHOOSE i \in Kept(n) : Cardinality({j \in Kept(n) : j < i}) = k - 1]]

Conclude(n) ==
    /\ inbox' = Remaining(n)
    /\ work' = NoWork

\* An execution that fails with its plan isolates the message, or leaves it to
\* another attempt, which finds the records of this one.
Isolate(failures) ==
    /\ Conclude(1)
    /\ spent' = [spent EXCEPT !.failures = @ + failures, !.lost = @ + 1]

\* Slip: the attempts are not counted.
FailByForever(failures) ==
    /\ work' = [work EXCEPT !.stage = "waiting", !.repeated = {}]
    /\ spent' = [spent EXCEPT !.failures = @ + failures]
    /\ UNCHANGED inbox

FailBy(failures) ==
    IF work.attempt = MaxAttempts THEN Isolate(failures)
    ELSE /\ work' = [work EXCEPT !.stage = "waiting", !.attempt = @ + 1, !.repeated = {}]
         /\ spent' = [spent EXCEPT !.failures = @ + failures]
         /\ UNCHANGED inbox

Fail == FailBy(0)

ConcludedByPlan == {"leave-to-human", "suppressed"}

\* An envelope that says "automation" but does not allow it is refused for a text.
InvalidEnvelope(event) == ~event.human /\ event.text # "media" /\ ~event.allowed

Begin ==
    /\ inbox # <<>> /\ work.stage = "waiting"
    /\ IF InvalidEnvelope(Oldest)
       THEN Isolate(0)
       ELSE /\ UNCHANGED <<inbox, spent>>
            /\ IF work.plan # NoPlan
               THEN work' = [work EXCEPT !.stage = "planned"]
               ELSE \E n \in 1 .. IF Oldest.text = "media" THEN 1 ELSE Len(inbox) :
                       work' = [work EXCEPT !.stage = "planned", !.batch = n,
                                            !.plan = PlanFor(Oldest)]
    /\ UNCHANGED <<conversation, marks, quote, screen>>

EndWithoutReply ==
    /\ work.stage = "planned" /\ work.plan.kind \in ConcludedByPlan
    /\ Conclude(IF Oldest.human THEN 1 ELSE work.batch)
    /\ UNCHANGED <<conversation, marks, quote, screen, spent>>

ClearsContact == {"present-main-menu", "select-commercial", "return-to-main-menu",
                  "take-over", "return-to-bot", "forward"} \cup ClosingTransitions

MarksAfter(name, to) ==
    [marks EXCEPT
       !.contact    = IF name = "start-department-contact" THEN TRUE
                      ELSE @ /\ name \notin ClearsContact,
       !.followUp   = /\ @
                      /\ name \notin ClosingTransitions \cup {"confirm-quote"}
                      /\ ~(/\ name \in {"return-to-bot", "select-commercial"}
                           /\ to.flowStep = "commercial-follow-up-menu"),
       !.main       = @ /\ name \notin ClosingTransitions,
       !.contextual = IF \/ name = "confirm-quote"
                         \/ name = "return-to-bot" /\ to.flowStep = "commercial-follow-up-menu"
                      THEN TRUE ELSE @ /\ name \notin ClosingTransitions,
       !.attended   = to.conversationState = "human-active"]

QuoteAfter(name) ==
    CASE name = "start-quote"   -> [NoQuote EXCEPT !.open = TRUE]
      [] name = "confirm-quote" -> [quote EXCEPT !.confirmed = TRUE]
      [] OTHER -> quote

\* present-quote-summary and confirm-quote check the request themselves.
Accepts(name) ==
    /\ Permitted(conversation, name)
    /\ name \in {"present-quote-summary", "confirm-quote"} => quote.open /\ quote.complete
    /\ name = "correct-quote" => quote.open

HumanTookIt == \/ conversation.conversationState \in {"human-active", "sent-to-human", "closed"}
               \/ conversation.flowStep = "human-service"

\* A command that lost to another one: if a person has the conversation now,
\* the message is done with.
Refused ==
    /\ IF work.stale /\ HumanTookIt THEN Conclude(work.batch) /\ UNCHANGED spent
       ELSE Fail
    /\ UNCHANGED <<conversation, marks, quote, screen>>

\* Slip: the version the plan was made for is not compared.
SameVersionUnchecked == TRUE

SameVersion == ~work.stale

\* A transition by the automation, and what the execution knows afterwards.
Transition(name, done) ==
    IF name \in work.done
    THEN /\ work' = [done EXCEPT !.repeated = @ \cup {name}]
         /\ UNCHANGED <<conversation, marks, quote, inbox, spent, screen>>
    ELSE IF SameVersion /\ Accepts(name)
    THEN LET to == Resolved(conversation, name,
                            IF name = "forward" THEN "commercial" ELSE conversation.department)
         IN  /\ conversation' = to
             /\ marks' = MarksAfter(name, to)
             /\ quote' = QuoteAfter(name)
             /\ work' = [done EXCEPT !.done = @ \cup {name}]
             /\ UNCHANGED <<inbox, spent, screen>>
    ELSE Refused

Prepare ==
    /\ work.stage = "planned" /\ work.plan.before # "none"
    /\ Transition(work.plan.before, [work EXCEPT !.stage = "prepared"])

Prepared == \/ work.stage = "prepared"
            \/ work.stage = "planned" /\ work.plan.before = "none"

\* A repeated transition answers "idempotent: true" where the first one said
\* false, and the answer is part of the question.
Question ==
    IF work.plan.before = "none" THEN "checkpoint"
    ELSE IF work.plan.before \in work.repeated THEN "repeated result"
    ELSE "result"

\* The model answers, or its answer is found.
Decide ==
    /\ Prepared /\ work.plan.kind = "ai"
    /\ IF work.asked = "nothing"
       THEN /\ \E answer \in Answer :
                  work' = [work EXCEPT !.stage = "decided", !.asked = Question,
                                       !.answer = answer]
            /\ UNCHANGED <<inbox, spent>>
       ELSE IF work.asked = Question
       THEN /\ work' = [work EXCEPT !.stage = "decided"]
            /\ UNCHANGED <<inbox, spent>>
       ELSE Isolate(0)
    /\ UNCHANGED <<conversation, marks, quote, screen>>

\* The whole text of the batch is a confirmation.
Explicit ==
    Oldest.text = "yes" /\ \A i \in 2 .. work.batch : inbox[i].text = "media"

\* Slip: the verdict of the model is enough.
SafeVerdict == work.answer.verdict = "confirmed" => work.plan.mode = "correction"

Safe == work.answer.verdict = "confirmed" => work.plan.mode = "correction" /\ Explicit

Correct ==
    /\ work.stage = "decided"
    /\ work.answer.verdict = "correction-requested"
    /\ Transition("correct-quote", [work EXCEPT !.stage = "corrected"])

Patch ==
    /\ \/ work.stage = "decided" /\ work.answer.verdict # "correction-requested"
       \/ work.stage = "corrected"
    /\ IF /\ Safe /\ quote.open /\ work.answer.readable
          /\ "patch" \in work.done \/ ~quote.confirmed
       THEN /\ work' = [work EXCEPT !.stage = "patched", !.done = @ \cup {"patch"}]
            /\ quote' = [quote EXCEPT !.complete = @ \/ work.answer.completes]
            /\ UNCHANGED <<inbox, spent>>
       ELSE Fail /\ UNCHANGED quote
    /\ UNCHANGED <<conversation, marks, screen>>

AnswerShows ==
    IF work.answer.verdict = "ready-for-summary" THEN "summary"
    ELSE IF work.answer.verdict = "human-requested" THEN "handoff"
    ELSE IF work.answer.verdict = "correction-requested" \/ work.plan.mode = "quote"
         THEN "question"
    ELSE "notice"

\* Slip: the customer who asks for a person is told so and stays with the bot.
AnswerAfterUnforwarded ==
    CASE work.answer.verdict = "confirmed"         -> "confirm-quote"
      [] work.answer.verdict = "ready-for-summary" -> "present-quote-summary"
      [] OTHER -> "none"

AnswerAfter ==
    CASE work.answer.verdict = "confirmed"         -> "confirm-quote"
      [] work.answer.verdict = "human-requested"   -> "forward"
      [] work.answer.verdict = "ready-for-summary" -> "present-quote-summary"
      [] OTHER -> "none"

AfterName == IF work.plan.kind = "ai" THEN AnswerAfter ELSE work.plan.after

Written ==
    \/ Prepared /\ work.plan.kind = "reply"
    \/ work.stage = "patched"

Unattended == Bot(conversation) /\ ~marks.attended

\* The reply is asked for: one that was created before is found, a new one is
\* accepted for the conversation as it is read now.
CheckReply ==
    /\ Written
    /\ IF AfterName \in {"present-quote-summary", "confirm-quote"} /\ ~quote.complete
       THEN Fail
       ELSE IF "message" \in work.done
       THEN work' = [work EXCEPT !.stage = "created"] /\ UNCHANGED <<inbox, spent>>
       ELSE IF SameVersion /\ Unattended
       THEN work' = [work EXCEPT !.stage = "checked"] /\ UNCHANGED <<inbox, spent>>
       ELSE IF work.stale /\ HumanTookIt THEN Conclude(work.batch) /\ UNCHANGED spent
       ELSE Fail
    /\ UNCHANGED <<conversation, marks, quote, screen>>

\* It is stored without the lock of the conversation and whatever became of the
\* version in the meantime.
CreateReply ==
    /\ work.stage = "checked"
    /\ work' = [work EXCEPT !.stage = "created", !.done = @ \cup {"message"}]
    /\ UNCHANGED <<conversation, marks, quote, inbox, screen, spent>>

Shown == IF work.plan.kind = "ai" THEN AnswerShows ELSE work.plan.shows

\* The gateway took the message, and the result was stored.
Deliver ==
    /\ work.stage = "created"
    /\ work' = [work EXCEPT !.stage = "sent", !.done = @ \cup {"delivery"}]
    /\ IF "delivery" \in work.done \/ Shown = "notice"
       THEN UNCHANGED <<screen, marks>>
       ELSE /\ screen' = Shown
            /\ marks' = [marks EXCEPT
                 !.main = @ \/ (/\ Shown = "main"
                                /\ \/ work.plan.before = "return-to-main-menu"
                                   \/ work.plan.after = "present-main-menu"),
                 !.followUp = @ \/ Shown = "follow-up"]
    /\ UNCHANGED <<conversation, quote, inbox, spent>>

\* The gateway refused it, or it is not known what became of it.
DeliveryFails ==
    /\ work.stage = "created" /\ "delivery" \notin work.done
    /\ Undisturbed
    /\ Isolate(1)
    /\ UNCHANGED <<conversation, marks, quote, screen>>

Finish ==
    /\ work.stage = "sent" /\ AfterName # "none"
    /\ Transition(AfterName, [work EXCEPT !.stage = "done"])

End ==
    /\ \/ work.stage = "done"
       \/ work.stage = "sent" /\ AfterName = "none"
    /\ Conclude(work.batch)
    /\ UNCHANGED <<conversation, marks, quote, screen, spent>>

\* A crash, or an error that has nothing to do with the plan, at any point.
Crash ==
    /\ work.stage # "waiting" /\ Undisturbed
    /\ FailBy(1)
    /\ UNCHANGED <<conversation, marks, quote, screen>>

Execute == \/ Begin \/ EndWithoutReply \/ Prepare \/ Decide \/ Correct \/ Patch
           \/ CheckReply \/ CreateReply \/ Deliver \/ Finish \/ End
-------------------------------------------------------------------------------
(* The attendants.                                                         *)

By(to) ==
    /\ Undisturbed /\ Spend("hands")
    /\ conversation' = to
    /\ work' = Overtaken
    /\ UNCHANGED <<inbox, screen>>

Attend(name) ==
    /\ name \in {"take-over", "return-to-bot", "forward", "close"}
    /\ Permitted(conversation, name)
    /\ LET to == Resolved(conversation, name, conversation.department)
       IN  By(to) /\ marks' = MarksAfter(name, to)
    /\ UNCHANGED quote

\* A proposal is sent, its delivery is confirmed, or it is decided on.
Propose ==
    /\ quote.confirmed /\ Open(conversation)
    /\ By(Proposed(conversation)) /\ marks' = [marks EXCEPT !.attended = TRUE]
    /\ UNCHANGED quote

ProposalDelivered ==
    /\ Permitted(conversation, "proposal-delivery-confirmed")
    /\ conversation' = Resolved(conversation, "proposal-delivery-confirmed", "commercial")
    /\ marks' = [marks EXCEPT !.attended = FALSE, !.contextual = FALSE]
    /\ work' = Overtaken
    /\ UNCHANGED <<quote, inbox, screen, spent>>

DecideRequest(status) ==
    /\ quote.confirmed /\ Open(conversation)
    /\ conversation.requestStatus \in {"under-review", "waiting-for-customer"}
    /\ By([conversation EXCEPT !.requestStatus = status])
    /\ UNCHANGED <<marks, quote>>
-------------------------------------------------------------------------------
Next ==
    \/ \E text \in Alphabet : Receive(text)
    \/ Begin \/ EndWithoutReply \/ Prepare \/ Decide \/ Correct \/ Patch
    \/ CheckReply \/ CreateReply \/ Deliver \/ DeliveryFails \/ Finish \/ End \/ Crash
    \/ \E name \in UserTransitions : Attend(name)
    \/ Propose \/ ProposalDelivered
    \/ \E status \in {"approved", "rejected"} : DecideRequest(status)

Spec == Init /\ [][Next]_vars /\ WF_vars(Execute)
-------------------------------------------------------------------------------
TypeOK ==
    /\ conversation \in Snapshot /\ marks \in Marks /\ quote \in Quote
    /\ inbox \in Seq(Event) /\ Len(inbox) <= MaxMessages
    /\ work \in Work /\ screen \in Screens
    /\ spent.messages \in 0 .. MaxMessages
    /\ spent.hands \in Nat /\ spent.failures \in Nat
    /\ spent.hands + spent.failures <= MaxDisturbances
    /\ spent.lost \in 0 .. MaxMessages

\* While nothing fails and no attendant steps in, an option is read under the
\* menu the customer was shown last.  After a contact request was handed on no
\* menu is shown, and the next option is one of the main menu.
AnswersShownMenu ==
    [][/\ work.plan = NoPlan /\ work'.plan.kind \in {"reply", "ai"}
       /\ spent.hands = 0 /\ spent.lost = 0
       => LET plan == work'.plan
          IN  /\ plan = CommercialMenuPlan(Oldest.text) /\ plan.shows # "commercial"
                    /\ conversation.flowStep = "commercial-menu"
                 => screen = "commercial"
              /\ plan = MainMenuPlan(Oldest.text) /\ plan.before # "none"
                    /\ conversation.flowStep = "main-menu"
                 => screen \in {"main", "contact"}
              /\ plan = FollowUpMenuPlan(Oldest.text)
                    /\ conversation.flowStep = "commercial-follow-up-menu"
                 => screen = "follow-up"]_vars

\* A request is confirmed by an explicit message of the customer, never by what
\* the model makes of another one, and the summary is what the customer was
\* shown last.  Two screens may cover it: the main menu of a message that
\* re-opened the conversation and was executed behind older ones, and the
\* hand-off of a message that was given up before the person was called.
ConfirmedByCustomer ==
    [][quote'.confirmed /\ ~quote.confirmed =>
          /\ Oldest.text = "yes"
          /\ \/ screen = "summary"
             \/ screen = "main" /\ spent.hands > 0
             \/ screen = "handoff" /\ spent.lost > 0]_vars

Moves == (work'.done \ work.done) \cap SystemTransitions # {}
Writes == "message" \in work'.done \ work.done

\* The automation does not move the conversation of a customer whom a person
\* attends, also when that person came while the plan was carried out, and
\* accepts no reply to that customer.  The one reply that may still be created
\* then is the one it had accepted before, in an execution that was overtaken.
HumanIsNotDisturbed ==
    [][/\ Moves => Unattended
       /\ (work'.stage = "checked" /\ work.stage # "checked") => Unattended
       /\ Writes => Unattended \/ (work.stage = "checked" /\ work.stale)]_vars

\* What the documentation says instead: while a person attends, nothing is
\* written to the customer.
SilentWhileAttended == [][Writes => Unattended]_vars

\* A customer who was told that a person takes over is not left with the bot:
\* when the message is done, somebody attends, or did.
HandoffReachesHuman ==
    screen = "handoff" /\ work = NoWork /\ spent.lost = 0 =>
       ~Bot(conversation) \/ spent.hands > 0

\* No state the automation goes through leaves its types or a customer alone.
Safety == TypeOK /\ HandoffReachesHuman

\* Every message is concluded, whatever fails.
EventuallyConcluded == <>[](inbox = <<>>)
===============================================================================
