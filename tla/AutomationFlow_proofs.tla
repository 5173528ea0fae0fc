------------------------- MODULE AutomationFlow_proofs -------------------------
(***************************************************************************)
(* Proofs about AutomationFlow, for every value of its constants.          *)
(***************************************************************************)
EXTENDS AutomationFlow, ConversationMatrix_proofs, FiniteSetTheorems, WellFoundedInduction

\* An execution that writes to the customer, and whether its first transition,
\* if it has one, is done.
Working == work.plan.kind \in {"reply", "ai"}
Moved   == work.plan.before = "none" \/ work.plan.before \in work.done
Delivered == "delivery" \in work.done
Handed  == "forward" \in work.done

\* A hand-off was shown and the person is not called yet.
Handing == Working /\ Delivered /\ AfterName = "forward" /\ ~Handed

\* What the customer will have been shown when the message is delivered.
Expected == IF Delivered \/ Shown = "notice" THEN screen ELSE Shown

BeforeNames == {"none", "select-commercial", "start-department-contact",
                "return-to-main-menu"}
AfterNames  == {"none", "forward", "present-main-menu", "return-to-main-menu"}

\* The plans that are made.
ReplyShape(p) ==
    /\ p.mode = "none"
    /\ p.before \in BeforeNames /\ p.after \in AfterNames
    /\ p.before = "none" \/ p.after = "none"
    /\ p.shows \in {"main", "commercial", "follow-up", "contact", "notice", "handoff"}
    /\ p.shows = "handoff" <=> p.after = "forward"
    /\ p.before = "select-commercial" => p.shows \in {"commercial", "follow-up"}
    /\ p.before = "start-department-contact" <=> p.shows = "contact"
    /\ p.before = "return-to-main-menu" => p.shows = "main"
    /\ p.after = "present-main-menu" => p.shows = "main"
    /\ p.after = "return-to-main-menu" => p.shows = "notice"

AnswerShape(p) ==
    /\ p.shows = "nothing" /\ p.after = "none" /\ p.mode \in {"quote", "correction"}
    /\ p.before \in {"none", "start-quote"}
    /\ p.mode = "correction" => p.before = "none"

\* Every plan is one of these.
PlanShape(p) ==
    /\ p.kind = "reply" => ReplyShape(p)
    /\ p.kind = "ai" => AnswerShape(p)
    /\ p.kind \notin {"reply", "ai"} => p.before = "none" /\ p.after = "none"
    /\ p.kind = "none" => p = NoPlan

\* What the stage of an execution says of its durable records.
StageInv ==
    /\ work.stage \notin {"waiting", "planned"} => Working /\ Moved
    /\ work.stage \in {"decided", "corrected", "patched"} =>
          work.plan.kind = "ai" /\ work.asked # "nothing"
    /\ work.stage = "corrected" => "correct-quote" \in work.done
    /\ work.stage = "patched" => "patch" \in work.done
    /\ work.stage = "checked" /\ work.plan.kind = "ai" => "patch" \in work.done
    /\ work.stage \in {"created", "sent", "done"} => "message" \in work.done
    /\ work.stage \in {"sent", "done"} => Delivered
    /\ work.stage = "done" => AfterName \in work.done

\* In which order the commands of an execution were done.
DoneInv ==
    /\ work.done # {} => Working
    /\ work.asked = "nothing" => work.answer = NoAnswer
    /\ work.asked # "nothing" => work.plan.kind = "ai" /\ Moved
    /\ "correct-quote" \in work.done =>
          work.plan.kind = "ai" /\ work.answer.verdict = "correction-requested"
    /\ "patch" \in work.done =>
          /\ work.plan.kind = "ai" /\ work.asked # "nothing"
          /\ work.answer.verdict = "correction-requested" => "correct-quote" \in work.done
          /\ work.answer.verdict = "confirmed" =>
                work.plan.mode = "correction" /\ Oldest.text = "yes"
    /\ "message" \in work.done =>
          Working /\ Moved /\ (work.plan.kind = "ai" => "patch" \in work.done)
    /\ Delivered => "message" \in work.done
    /\ Delivered /\ Shown # "notice" => screen = Shown
    /\ work.done \cap SystemTransitions \subseteq
          {work.plan.before, "correct-quote", AfterName}
    /\ AfterName \in work.done => Delivered

\* There is an execution only while its message is the oldest one.
WorkInv ==
    /\ PlanShape(work.plan)
    /\ work.plan = NoPlan => work = NoWork
    /\ work.plan # NoPlan => inbox # <<>> /\ work.batch \in 1 .. Len(inbox)
    /\ StageInv /\ DoneInv

CountInv == /\ spent \in [messages : Nat, hands : Nat, failures : Nat, lost : Nat]
            /\ spent.lost + Len(inbox) <= spent.messages

\* State, step and attendant fit together; as long as nobody overtook the
\* execution, and until its last transition, the conversation is the bot's.
BotInv ==
    /\ Fits(conversation, marks.attended)
    /\ Working /\ ~work.stale /\ AfterName \notin work.done =>
          Bot(conversation) /\ ~marks.attended

\* Until its first transition the conversation is in the step it was planned for.
StepInv ==
    /\ Working /\ marks.contact => /\ work.plan.kind = "reply" /\ Moved
                                   /\ work.plan.after # "forward"
    /\ Working /\ ~work.stale /\ ~Moved =>
          conversation.flowStep \in
             CASE work.plan.before = "select-commercial" -> {"main-menu"}
               [] work.plan.before = "start-quote" -> {"commercial-menu"}
               [] work.plan.before = "start-department-contact" ->
                     {"main-menu", "commercial-menu"}
               [] OTHER -> {"commercial-menu", "commercial-follow-up-menu"}
    /\ /\ Working /\ work.plan.after = "return-to-main-menu"
       /\ ~work.stale /\ AfterName \notin work.done
       => marks.contact

InSummaryStep == conversation.flowStep = "quote-summary-confirmation"

\* The plans that are made, or go on, while the summary is to be confirmed.
SummaryPlan ==
    \/ work.plan.kind = "ai" /\ work.plan.mode = "correction"
    \/ /\ work.plan.kind = "reply" /\ work.plan.before = "none"
       /\ \/ work.plan.shows = "notice"
          \/ work.plan.shows = "main" /\ spent.hands > 0

\* Where a request is to be confirmed the summary is what was shown last,
\* but for the two screens that may cover it.
SummaryInv ==
    /\ InSummaryStep \/ conversation.resumeFlowStep = "quote-summary-confirmation" =>
          conversation.requestStatus \in FollowUpRequests
    /\ InSummaryStep =>
          /\ \/ screen = "summary"
             \/ screen = "main" /\ spent.hands > 0
             \/ screen = "handoff" /\ (spent.lost > 0 \/ Handing)
          /\ Working => Delivered \/ SummaryPlan
          /\ "correct-quote" \notin work.done /\ ~Handed

\* As long as no attendant acts, nobody but the automation moves the
\* conversation, and only its first message opens it.
AloneInv ==
    spent.hands = 0 =>
       /\ ~marks.attended /\ Open(conversation)
       /\ conversation.flowStep # "quote-send-pending"
       /\ marks.contact => conversation.flowStep = "main-menu"
       /\ spent.messages = 0 =>
             conversation = FirstContact /\ work.plan = NoPlan /\ marks = [m \in DOMAIN marks |-> FALSE]
       /\ \A i \in 1 .. Len(inbox) : inbox[i].opens =>
             /\ i = 1 /\ inbox[i].allowed /\ ~inbox[i].human
             /\ IF work.plan = NoPlan
                THEN conversation = FirstContact /\ marks = [m \in DOMAIN marks |-> FALSE]
                ELSE work.plan = After("main", "present-main-menu")
       /\ Handed => conversation.conversationState = "sent-to-human"
       /\ screen = "handoff" =>
             \/ spent.lost > 0 \/ Handing
             \/ conversation.conversationState = "sent-to-human"

\* What the customer sees is the menu of the step the conversation is in.
Fresh == spent.messages = 0 \/ (inbox # <<>> /\ Oldest.opens)

Settled(shown, fresh) ==
    /\ conversation.flowStep = "commercial-menu" => shown = "commercial"
    /\ conversation.flowStep = "main-menu" => shown \in {"main", "contact"} \/ fresh
    /\ conversation.flowStep = "commercial-follow-up-menu" /\ marks.followUp =>
          shown = "follow-up"
    /\ marks.contact => shown = "contact"

\* As long as no attendant acts and nothing was given up, the menu of the
\* step is shown, or will be when the message under way is delivered.
MenuInv ==
    spent.hands = 0 /\ spent.lost = 0 =>
       /\ conversation.requestStatus # "cancelled"
       /\ conversation.requestStatus # "not-started" => quote.open
       /\ conversation.requestStatus = "collecting-information" =>
             conversation.flowStep \in {"quote-data-collection", "human-service"}
       /\ ~Working => Settled(screen, Fresh)
       /\ Working /\ Moved /\ ~Handed =>
             IF work.plan.kind = "reply"
             THEN work.plan.after # "forward" => Settled(Expected, FALSE)
             ELSE /\ conversation.flowStep \notin {"main-menu", "commercial-menu"}
                  /\ conversation.flowStep = "commercial-follow-up-menu" => ~marks.followUp
       /\ Working /\ ~work.stale /\ ~Moved /\ work.plan.before = "select-commercial" =>
             (conversation.requestStatus = "not-started" <=> work.plan.shows = "commercial")

\* The inductive invariant.
FlowInv == /\ TypeOK /\ CountInv /\ WorkInv /\ BotInv /\ StepInv /\ SummaryInv
           /\ AloneInv /\ MenuInv
-------------------------------------------------------------------------------
(* What the transitions make of a snapshot.                                *)

\* A step is entered: only state, step and the point of resumption change.
LEMMA ToFields ==
    ASSUME NEW c \in Snapshot, NEW state, NEW step
    PROVE  /\ To(c, state, step).conversationState = state
           /\ To(c, state, step).flowStep = step
           /\ To(c, state, step).resumeFlowStep = "none"
           /\ To(c, state, step).requestStatus = c.requestStatus
  BY DEF To, Snapshot

\* What the fields a plan depends on become.
Becomes(to, state, step, resume, request) ==
    /\ to.conversationState = state /\ to.flowStep = step
    /\ to.resumeFlowStep = resume /\ to.requestStatus = request

\* A command of the automation.
LEMMA SystemFields ==
    ASSUME NEW c \in Snapshot, NEW target \in Departments
    PROVE  /\ Becomes(Resolved(c, "present-main-menu", target),
                      c.conversationState, c.flowStep, "none", c.requestStatus)
           /\ Becomes(Resolved(c, "select-commercial", target), "bot-active",
                      IF c.requestStatus = "not-started" THEN "commercial-menu"
                      ELSE "commercial-follow-up-menu", "none", c.requestStatus)
           /\ Becomes(Resolved(c, "start-department-contact", target),
                      "bot-active", "main-menu", "none", c.requestStatus)
           /\ Becomes(Resolved(c, "start-quote", target),
                      "bot-active", "quote-data-collection", "none", "collecting-information")
           /\ Becomes(Resolved(c, "return-to-main-menu", target),
                      "bot-active", "main-menu", "none", c.requestStatus)
           /\ Becomes(Resolved(c, "correct-quote", target),
                      "bot-active", "quote-data-collection", "none", "collecting-information")
           /\ Becomes(Resolved(c, "confirm-quote", target),
                      "bot-active", "commercial-follow-up-menu", "none", "under-review")
           /\ Becomes(Resolved(c, "present-quote-summary", target),
                      "waiting-for-customer", "quote-summary-confirmation",
                      "quote-summary-confirmation", "waiting-for-customer")
           /\ Becomes(Resolved(c, "forward", target),
                      "sent-to-human", "human-service", BotFlowStep(c), c.requestStatus)
<1>1. /\ Commercial(c) \in Snapshot /\ Commercial(c).requestStatus = c.requestStatus
  BY CommercialTyped DEF Commercial, Snapshot
<1>2. Becomes(Resolved(c, "present-main-menu", target),
              c.conversationState, c.flowStep, "none", c.requestStatus)
  BY ToFields DEF Becomes, Resolved, ClosingTransitions
<1>3. Becomes(Resolved(c, "select-commercial", target), "bot-active",
              IF c.requestStatus = "not-started" THEN "commercial-menu"
              ELSE "commercial-follow-up-menu", "none", c.requestStatus)
  BY <1>1, ToFields DEF Becomes, Resolved, ClosingTransitions
<1>4. Becomes(Resolved(c, "start-department-contact", target),
              "bot-active", "main-menu", "none", c.requestStatus)
  BY DEF Becomes, Resolved, ClosingTransitions, To, Snapshot
<1>5. Becomes(Resolved(c, "start-quote", target),
              "bot-active", "quote-data-collection", "none", "collecting-information")
  BY <1>1 DEF Becomes, Resolved, ClosingTransitions, Collecting, To, Snapshot
<1>6. Becomes(Resolved(c, "return-to-main-menu", target),
              "bot-active", "main-menu", "none", c.requestStatus)
  BY ToFields DEF Becomes, Resolved, ClosingTransitions
<1>7. Becomes(Resolved(c, "correct-quote", target),
              "bot-active", "quote-data-collection", "none", "collecting-information")
  BY DEF Becomes, Resolved, ClosingTransitions, To, Snapshot
<1>8. Becomes(Resolved(c, "confirm-quote", target),
              "bot-active", "commercial-follow-up-menu", "none", "under-review")
  BY DEF Becomes, Resolved, ClosingTransitions, To, Snapshot
<1>9. Becomes(Resolved(c, "present-quote-summary", target),
              "waiting-for-customer", "quote-summary-confirmation",
              "quote-summary-confirmation", "waiting-for-customer")
  BY DEF Becomes, Resolved, ClosingTransitions, Snapshot
<1>10. Becomes(Resolved(c, "forward", target),
               "sent-to-human", "human-service", BotFlowStep(c), c.requestStatus)
  BY DEF Becomes, Resolved, Forwarded, ClosingTransitions, To, Snapshot
<1>11. QED
  BY <1>2, <1>3, <1>4, <1>5, <1>6, <1>7, <1>8, <1>9, <1>10

\* A command of an attendant, and the confirmation of a delivery.
LEMMA UserFields ==
    ASSUME NEW c \in Snapshot, NEW target \in Departments
    PROVE  /\ Becomes(Resolved(c, "take-over", target),
                      "human-active", "human-service", BotFlowStep(c), c.requestStatus)
           /\ Becomes(Resolved(c, "return-to-bot", target),
                      "bot-active", BotFlowStep(c), "none", c.requestStatus)
           /\ Becomes(Resolved(c, "close", target),
                      "closed", "closed", "none", c.requestStatus)
           /\ Becomes(Resolved(c, "proposal-delivery-confirmed", target),
                      "waiting-for-customer", "quote-send-pending", "none",
                      "waiting-for-customer")
<1>1. Becomes(Resolved(c, "take-over", target),
              "human-active", "human-service", BotFlowStep(c), c.requestStatus)
  BY DEF Becomes, Resolved, ClosingTransitions, To, Snapshot
<1>2. Becomes(Resolved(c, "return-to-bot", target),
              "bot-active", BotFlowStep(c), "none", c.requestStatus)
  BY ToFields DEF Becomes, Resolved, ClosingTransitions
<1>3. Becomes(Resolved(c, "close", target), "closed", "closed", "none", c.requestStatus)
  BY ToFields DEF Becomes, Resolved, ClosingTransitions
<1>4. Becomes(Resolved(c, "proposal-delivery-confirmed", target),
              "waiting-for-customer", "quote-send-pending", "none", "waiting-for-customer")
  BY DEF Becomes, Resolved, ClosingTransitions, To, Snapshot
<1>5. QED
  BY <1>1, <1>2, <1>3, <1>4

\* What a message of the customer brings about.
LEMMA MessageFields ==
    ASSUME NEW c \in Snapshot, NEW target \in Departments
    PROVE  /\ Becomes(Resolved(c, "resume-awaited-reply", target),
                      "bot-active", c.flowStep, "none", c.requestStatus)
           /\ Becomes(Resolved(c, "resume-contextual-contact", target),
                      "bot-active", "commercial-follow-up-menu", "none", c.requestStatus)
           /\ Becomes(Resolved(c, "proposal-response-received", target),
                      "sent-to-human", "human-service", "commercial-follow-up-menu",
                      c.requestStatus)
<1>1. /\ Commercial(c) \in Snapshot /\ Commercial(c).requestStatus = c.requestStatus
  BY CommercialTyped DEF Commercial, Snapshot
<1>2. Becomes(Resolved(c, "resume-awaited-reply", target),
              "bot-active", c.flowStep, "none", c.requestStatus)
  BY ToFields DEF Becomes, Resolved, ClosingTransitions
<1>3. Becomes(Resolved(c, "resume-contextual-contact", target),
              "bot-active", "commercial-follow-up-menu", "none", c.requestStatus)
  BY <1>1, ToFields DEF Becomes, Resolved, ClosingTransitions
<1>4. Becomes(Resolved(c, "proposal-response-received", target),
              "sent-to-human", "human-service", "commercial-follow-up-menu", c.requestStatus)
  BY DEF Becomes, Resolved, ClosingTransitions, To, Snapshot
<1>5. QED
  BY <1>2, <1>3, <1>4

\* Where a request is in follow-up the bot resumes in that menu; it never
\* resumes where a request is to be confirmed otherwise than in follow-up.
LEMMA ResumedStep ==
    ASSUME NEW c \in Snapshot
    PROVE  /\ c.requestStatus \in FollowUpRequests =>
                 BotFlowStep(c) = "commercial-follow-up-menu"
           /\ BotFlowStep(c) = "quote-summary-confirmation" =>
                 \/ c.flowStep = "quote-summary-confirmation"
                 \/ c.resumeFlowStep = "quote-summary-confirmation"
           /\ BotFlowStep(c) \in Steps \ NotOfTheBot
  BY BotFlowStepOwn DEF BotFlowStep
-------------------------------------------------------------------------------
(* The plans.                                                              *)

\* The ways to write a plan, as records.
LEMMA ShowsLiteral ==
    ASSUME NEW s
    PROVE  Shows(s) = [kind |-> "reply", before |-> "none", mode |-> "none",
                       shows |-> s, after |-> "none"]
<1>1. Shows(s) = [[NoPlan EXCEPT !.kind = "reply"] EXCEPT !.shows = s]
  BY DEF Shows
<1>2. [NoPlan EXCEPT !.kind = "reply"] =
         [kind |-> "reply", before |-> "none", mode |-> "none",
          shows |-> "nothing", after |-> "none"]
  BY DEF NoPlan
<1>3. QED
  BY <1>1, <1>2

LEMMA BeforeLiteral ==
    ASSUME NEW name, NEW s
    PROVE  Before(name, s) = [kind |-> "reply", before |-> name, mode |-> "none",
                              shows |-> s, after |-> "none"]
  BY ShowsLiteral DEF Before

LEMMA PlanLiterals ==
    ASSUME NEW s, NEW name, NEW mode
    PROVE  /\ Shows(s) = [kind |-> "reply", before |-> "none", mode |-> "none",
                          shows |-> s, after |-> "none"]
           /\ After(s, name) = [kind |-> "reply", before |-> "none", mode |-> "none",
                                shows |-> s, after |-> name]
           /\ Before(name, s) = [kind |-> "reply", before |-> name, mode |-> "none",
                                 shows |-> s, after |-> "none"]
           /\ Asks(mode) = [kind |-> "ai", before |-> "none", mode |-> mode,
                            shows |-> "nothing", after |-> "none"]
           /\ [Asks(mode) EXCEPT !.before = name] =
                 [kind |-> "ai", before |-> name, mode |-> mode,
                  shows |-> "nothing", after |-> "none"]
           /\ Suppressed = [kind |-> "suppressed", before |-> "none", mode |-> "none",
                            shows |-> "nothing", after |-> "none"]
           /\ LeaveToHuman = [kind |-> "leave-to-human", before |-> "none", mode |-> "none",
                              shows |-> "nothing", after |-> "none"]
<1>1. /\ Shows(s) = [kind |-> "reply", before |-> "none", mode |-> "none",
                     shows |-> s, after |-> "none"]
      /\ Asks(mode) = [kind |-> "ai", before |-> "none", mode |-> mode,
                       shows |-> "nothing", after |-> "none"]
  <2>1. Shows(s) = [kind |-> "reply", before |-> "none", mode |-> "none",
                    shows |-> s, after |-> "none"]
    BY ShowsLiteral
  <2>2. Asks(mode) = [kind |-> "ai", before |-> "none", mode |-> mode,
                      shows |-> "nothing", after |-> "none"]
    <3>1. Asks(mode) = [[NoPlan EXCEPT !.kind = "ai"] EXCEPT !.mode = mode]
      BY DEF Asks
    <3>2. [NoPlan EXCEPT !.kind = "ai"] =
             [kind |-> "ai", before |-> "none", mode |-> "none",
              shows |-> "nothing", after |-> "none"]
      BY DEF NoPlan
    <3>3. QED
      BY <3>1, <3>2
  <2>3. QED
    BY <2>1, <2>2
<1>2. /\ After(s, name) = [kind |-> "reply", before |-> "none", mode |-> "none",
                           shows |-> s, after |-> name]
      /\ Before(name, s) = [kind |-> "reply", before |-> name, mode |-> "none",
                            shows |-> s, after |-> "none"]
      /\ [Asks(mode) EXCEPT !.before = name] =
                 [kind |-> "ai", before |-> name, mode |-> mode,
                  shows |-> "nothing", after |-> "none"]
  BY <1>1 DEF After, Before
<1>3. QED
  BY <1>1, <1>2 DEF Suppressed, LeaveToHuman, NoPlan

\* What is planned in a step the bot may be in.
Planned(p, step) ==
    /\ p \in Plan /\ PlanShape(p) /\ p.kind # "none"
    /\ p.kind \in {"reply", "ai"} =>
         /\ p.before # "none" =>
              step \in CASE p.before = "select-commercial" -> {"main-menu"}
                         [] p.before = "start-quote" -> {"commercial-menu"}
                         [] p.before = "start-department-contact" ->
                               {"main-menu", "commercial-menu"}
                         [] OTHER -> {"commercial-menu", "commercial-follow-up-menu"}
         /\ p.kind = "ai" =>
              \/ p.before # "none"
              \/ step \in {"quote-data-collection", "quote-summary-confirmation"}
         /\ step = "quote-data-collection" => p.kind = "ai"
         /\ step = "quote-summary-confirmation" => p.kind = "ai" /\ p.mode = "correction"
         /\ p.kind = "reply" /\ p.before = "none" /\ p.after = "none" =>
              \/ step = "main-menu" /\ p.shows = "main"
              \/ step = "commercial-menu" /\ p.shows = "commercial"
         /\ p.after \in {"none", "forward"}
         /\ p.after = "forward" => step \in {"commercial-menu", "commercial-follow-up-menu"}
         /\ p.before = "select-commercial" =>
              (p.shows = "follow-up" <=> ActiveQuote)

\* The menus make plans of the shapes above, and only those of their step.
LEMMA MainMenuPlanned ==
    ASSUME NEW text \in Texts
    PROVE  Planned(MainMenuPlan(text), "main-menu")
<1>1. CASE text = "1"
  <2> DEFINE s == IF ActiveQuote THEN "follow-up" ELSE "commercial"
  <2>1. MainMenuPlan(text) =
           [kind |-> "reply", before |-> "select-commercial", mode |-> "none",
            shows |-> s, after |-> "none"]
    <3>1. MainMenuPlan(text) = Before("select-commercial", s)
      BY <1>1 DEF MainMenuPlan
    <3> HIDE DEF s
    <3>2. QED
      BY <3>1, BeforeLiteral
  <2>2. s \in {"follow-up", "commercial"} /\ (s = "follow-up" <=> ActiveQuote)
    OBVIOUS
  <2> HIDE DEF s
  <2>3. QED
    BY <2>1, <2>2
    DEF Planned, PlanShape, ReplyShape, BeforeNames, AfterNames, Plan, PlanKinds,
        SystemTransitions, Screens
<1>2. CASE text \in {"2", "3"}
  <2>1. MainMenuPlan(text) =
           [kind |-> "reply", before |-> "start-department-contact", mode |-> "none",
            shows |-> "contact", after |-> "none"]
    <3>1. MainMenuPlan(text) = Before("start-department-contact", "contact")
      BY <1>2, Zenon DEF MainMenuPlan
    <3>2. QED
      BY <3>1, BeforeLiteral
  <2>2. QED
    BY <2>1
    DEF Planned, PlanShape, ReplyShape, BeforeNames, AfterNames, Plan, PlanKinds,
        SystemTransitions, Screens
<1>3. CASE text \notin {"1", "2", "3"}
  <2>1. MainMenuPlan(text) =
           [kind |-> "reply", before |-> "none", mode |-> "none",
            shows |-> "main", after |-> "none"]
    <3>1. MainMenuPlan(text) = Shows("main")
      BY <1>3 DEF MainMenuPlan
    <3>2. QED
      BY <3>1, PlanLiterals
  <2>2. QED
    BY <2>1
    DEF Planned, PlanShape, ReplyShape, BeforeNames, AfterNames, Plan, PlanKinds,
        SystemTransitions, Screens
<1>4. QED
  BY <1>1, <1>2, <1>3

LEMMA CommercialMenuPlanned ==
    ASSUME NEW text \in Texts
    PROVE  Planned(CommercialMenuPlan(text), "commercial-menu")
<1>1. CASE text = "0"
  <2>1. CommercialMenuPlan(text) =
           [kind |-> "reply", before |-> "return-to-main-menu", mode |-> "none",
            shows |-> "main", after |-> "none"]
    <3>1. CommercialMenuPlan(text) = Before("return-to-main-menu", "main")
      BY <1>1 DEF CommercialMenuPlan
    <3>2. QED
      BY <3>1, BeforeLiteral
  <2>2. QED
    BY <2>1
    DEF Planned, PlanShape, ReplyShape, BeforeNames, AfterNames, Plan, PlanKinds,
        SystemTransitions, Screens
<1>2. CASE text = "1"
  <2>1. CommercialMenuPlan(text) =
           [kind |-> "ai", before |-> "start-quote", mode |-> "quote",
            shows |-> "nothing", after |-> "none"]
    <3>1. CommercialMenuPlan(text) = [Asks("quote") EXCEPT !.before = "start-quote"]
      BY <1>2 DEF CommercialMenuPlan
    <3>2. QED
      BY <3>1, PlanLiterals
  <2>2. QED
    BY <2>1
    DEF Planned, PlanShape, AnswerShape, Plan, PlanKinds, SystemTransitions, Screens
<1>3. CASE text = "2"
  <2>1. CommercialMenuPlan(text) =
           [kind |-> "reply", before |-> "start-department-contact", mode |-> "none",
            shows |-> "contact", after |-> "none"]
    <3>1. CommercialMenuPlan(text) = Before("start-department-contact", "contact")
      BY <1>3 DEF CommercialMenuPlan
    <3>2. QED
      BY <3>1, BeforeLiteral
  <2>2. QED
    BY <2>1
    DEF Planned, PlanShape, ReplyShape, BeforeNames, AfterNames, Plan, PlanKinds,
        SystemTransitions, Screens
<1>4. CASE text = "3"
  <2>1. CommercialMenuPlan(text) =
           [kind |-> "reply", before |-> "none", mode |-> "none",
            shows |-> "handoff", after |-> "forward"]
    <3>1. CommercialMenuPlan(text) = After("handoff", "forward")
      BY <1>4 DEF CommercialMenuPlan
    <3>2. QED
      BY <3>1, PlanLiterals
  <2>2. QED
    BY <2>1
    DEF Planned, PlanShape, ReplyShape, BeforeNames, AfterNames, Plan, PlanKinds,
        SystemTransitions, Screens
<1>5. CASE text \notin {"0", "1", "2", "3"}
  <2>1. CommercialMenuPlan(text) =
           [kind |-> "reply", before |-> "none", mode |-> "none",
            shows |-> "commercial", after |-> "none"]
    <3>1. CommercialMenuPlan(text) = Shows("commercial")
      BY <1>5 DEF CommercialMenuPlan
    <3>2. QED
      BY <3>1, PlanLiterals
  <2>2. QED
    BY <2>1
    DEF Planned, PlanShape, ReplyShape, BeforeNames, AfterNames, Plan, PlanKinds,
        SystemTransitions, Screens
<1>6. QED
  BY <1>1, <1>2, <1>3, <1>4, <1>5

LEMMA FollowUpMenuPlanned ==
    ASSUME NEW text \in Texts
    PROVE  Planned(FollowUpMenuPlan(text), "commercial-follow-up-menu")
<1>1. CASE text = "0"
  <2>1. FollowUpMenuPlan(text) =
           [kind |-> "reply", before |-> "return-to-main-menu", mode |-> "none",
            shows |-> "main", after |-> "none"]
    <3>1. FollowUpMenuPlan(text) = Before("return-to-main-menu", "main")
      BY <1>1 DEF FollowUpMenuPlan
    <3>2. QED
      BY <3>1, BeforeLiteral
  <2>2. QED
    BY <2>1
    DEF Planned, PlanShape, ReplyShape, BeforeNames, AfterNames, Plan, PlanKinds,
        SystemTransitions, Screens
<1>2. CASE text # "0"
  <2>1. FollowUpMenuPlan(text) =
           [kind |-> "reply", before |-> "none", mode |-> "none",
            shows |-> "handoff", after |-> "forward"]
    <3>1. FollowUpMenuPlan(text) = After("handoff", "forward")
      BY <1>2 DEF FollowUpMenuPlan
    <3>2. QED
      BY <3>1, PlanLiterals
  <2>2. QED
    BY <2>1
    DEF Planned, PlanShape, ReplyShape, BeforeNames, AfterNames, Plan, PlanKinds,
        SystemTransitions, Screens
<1>3. QED
  BY <1>1, <1>2

LEMMA StepPlanned ==
    ASSUME NEW text \in Texts, conversation \in Snapshot
    PROVE  Planned(StepPlan(text), conversation.flowStep)
<1>1. CASE conversation.flowStep = "main-menu"
  BY <1>1, MainMenuPlanned DEF StepPlan
<1>2. CASE conversation.flowStep = "commercial-menu"
  BY <1>2, CommercialMenuPlanned DEF StepPlan
<1>3. CASE conversation.flowStep = "commercial-follow-up-menu"
  BY <1>3, FollowUpMenuPlanned DEF StepPlan
<1>4. CASE conversation.flowStep = "quote-data-collection"
  <2>1. StepPlan(text) = [kind |-> "ai", before |-> "none", mode |-> "quote",
                          shows |-> "nothing", after |-> "none"]
    BY <1>4, PlanLiterals DEF StepPlan
  <2>2. QED
    BY <1>4, <2>1 DEF Planned, PlanShape, AnswerShape, Plan, PlanKinds, Screens
<1>5. CASE conversation.flowStep = "quote-summary-confirmation"
  <2>1. StepPlan(text) = [kind |-> "ai", before |-> "none", mode |-> "correction",
                          shows |-> "nothing", after |-> "none"]
    BY <1>5, PlanLiterals DEF StepPlan
  <2>2. QED
    BY <1>5, <2>1 DEF Planned, PlanShape, AnswerShape, Plan, PlanKinds, Screens
<1>6. CASE conversation.flowStep \in {"human-service", "quote-send-pending"}
  <2>1. StepPlan(text) = [kind |-> "leave-to-human", before |-> "none", mode |-> "none",
                          shows |-> "nothing", after |-> "none"]
    BY <1>6, PlanLiterals DEF StepPlan
  <2>2. QED
    BY <2>1 DEF Planned, PlanShape, Plan, PlanKinds, Screens
<1>7. CASE conversation.flowStep = "closed"
  <2>1. StepPlan(text) = [kind |-> "suppressed", before |-> "none", mode |-> "none",
                          shows |-> "nothing", after |-> "none"]
    BY <1>7, PlanLiterals DEF StepPlan
  <2>2. QED
    BY <2>1 DEF Planned, PlanShape, Plan, PlanKinds, Screens
<1>8. conversation.flowStep \in Steps
  BY DEF Snapshot
<1>9. QED
  BY <1>1, <1>2, <1>3, <1>4, <1>5, <1>6, <1>7, <1>8 DEF Steps

\* A plan that writes is made for a conversation of the bot: the first menu of a
\* session, a notice, the menu of the follow-up, or what the step asks for.
LEMMA PlanMade ==
    ASSUME NEW event \in Event, conversation \in Snapshot
    PROVE  LET p == PlanFor(event)
           IN  /\ p \in Plan /\ PlanShape(p) /\ p.kind # "none"
               /\ p.kind \in {"reply", "ai"} =>
                    /\ Bot(conversation) /\ ~marks.attended
                    /\ \/ InitialMenu(event) /\ p = After("main", "present-main-menu")
                       \/ /\ ~InitialMenu(event) /\ event.text = "media"
                          /\ p = Shows("notice")
                       \/ /\ ~InitialMenu(event) /\ marks.contact
                          /\ p = After("notice", "return-to-main-menu")
                       \/ /\ ~InitialMenu(event) /\ ~marks.contact
                          /\ conversation.flowStep = "commercial-follow-up-menu"
                          /\ p = Shows("follow-up")
                       \/ /\ ~InitialMenu(event) /\ ~marks.contact /\ ~FollowUpDue(event)
                          /\ Planned(p, conversation.flowStep)
<1> DEFINE p == PlanFor(event)
<1>1. CASE HumanBlocks(event)
  <2>1. p = [kind |-> "leave-to-human", before |-> "none", mode |-> "none",
             shows |-> "nothing", after |-> "none"]
    BY <1>1, PlanLiterals DEF PlanFor
  <2>2. QED
    BY <2>1 DEF PlanShape, Plan, PlanKinds, Screens
<1>2. CASE ~HumanBlocks(event) /\ (~event.allowed \/ ~Bot(conversation))
  <2>1. p = [kind |-> "suppressed", before |-> "none", mode |-> "none",
             shows |-> "nothing", after |-> "none"]
    BY <1>2, PlanLiterals DEF PlanFor
  <2>2. QED
    BY <2>1 DEF PlanShape, Plan, PlanKinds, Screens
<1>3. CASE ~HumanBlocks(event) /\ event.allowed /\ Bot(conversation)
  <2>1. ~marks.attended
    BY <1>3 DEF HumanBlocks
  <2>2. CASE InitialMenu(event)
    <3>1. p = After("main", "present-main-menu")
      BY <1>3, <2>2 DEF PlanFor
    <3>2. p = [kind |-> "reply", before |-> "none", mode |-> "none",
               shows |-> "main", after |-> "present-main-menu"]
      BY <3>1, PlanLiterals
    <3>3. p \in Plan /\ PlanShape(p) /\ p.kind # "none"
      BY <3>2 DEF PlanShape, ReplyShape, BeforeNames, AfterNames, Plan, PlanKinds,
                  SystemTransitions, Screens
    <3>4. QED
      BY <1>3, <2>1, <2>2, <3>1, <3>3
  <2>3. CASE ~InitialMenu(event) /\ event.text = "media"
    <3>1. p = Shows("notice")
      BY <1>3, <2>3 DEF PlanFor
    <3>2. p = [kind |-> "reply", before |-> "none", mode |-> "none",
               shows |-> "notice", after |-> "none"]
      BY <3>1, PlanLiterals
    <3>3. p \in Plan /\ PlanShape(p) /\ p.kind # "none"
      BY <3>2 DEF PlanShape, ReplyShape, BeforeNames, AfterNames, Plan, PlanKinds,
                  SystemTransitions, Screens
    <3>4. QED
      BY <1>3, <2>1, <2>3, <3>1, <3>3
  <2>4. CASE ~InitialMenu(event) /\ event.text # "media" /\ marks.contact
    <3>1. p = After("notice", "return-to-main-menu")
      BY <1>3, <2>4 DEF PlanFor
    <3>2. p = [kind |-> "reply", before |-> "none", mode |-> "none",
               shows |-> "notice", after |-> "return-to-main-menu"]
      BY <3>1, PlanLiterals
    <3>3. p \in Plan /\ PlanShape(p) /\ p.kind # "none"
      BY <3>2 DEF PlanShape, ReplyShape, BeforeNames, AfterNames, Plan, PlanKinds,
                  SystemTransitions, Screens
    <3>4. QED
      BY <1>3, <2>1, <2>4, <3>1, <3>3
  <2>5. CASE ~InitialMenu(event) /\ event.text # "media" /\ ~marks.contact /\ FollowUpDue(event)
    <3>1. p = Shows("follow-up") /\ conversation.flowStep = "commercial-follow-up-menu"
      BY <1>3, <2>5 DEF PlanFor, FollowUpDue
    <3>2. p = [kind |-> "reply", before |-> "none", mode |-> "none",
               shows |-> "follow-up", after |-> "none"]
      BY <3>1, PlanLiterals
    <3>3. p \in Plan /\ PlanShape(p) /\ p.kind # "none"
      BY <3>2 DEF PlanShape, ReplyShape, BeforeNames, AfterNames, Plan, PlanKinds,
                  SystemTransitions, Screens
    <3>4. QED
      BY <1>3, <2>1, <2>5, <3>1, <3>3
  <2>6. CASE ~InitialMenu(event) /\ event.text # "media" /\ ~marks.contact /\ ~FollowUpDue(event)
    <3>1. event.text \in Texts
      BY <2>6 DEF Event, Kinds
    <3>2. p = StepPlan(event.text)
      BY <1>3, <2>6 DEF PlanFor
    <3>3. Planned(p, conversation.flowStep)
      BY <3>1, <3>2, StepPlanned
    <3>4. QED
      BY <1>3, <2>1, <2>6, <3>3 DEF Planned
  <2>7. QED
    BY <2>2, <2>3, <2>4, <2>5, <2>6
<1>4. QED
  BY <1>1, <1>2, <1>3
-------------------------------------------------------------------------------
(* The rows that are left.                                                 *)

\* The least element of a set of naturals.
LEMMA LeastNatural ==
    ASSUME NEW S \in SUBSET Nat, S # {}
    PROVE  \E m \in S : \A n \in S : m <= n
<1>1. PICK m \in S : \A n \in S : <<n, m>> \notin OpToRel(<, Nat)
  BY NatLessThanWellFounded, WFMin, Zenon
<1>2. ASSUME NEW n \in S PROVE m <= n
  <2>1. CASE n < m
    <3>1. <<n, m>> \in OpToRel(<, Nat)
      BY <2>1 DEF OpToRel
    <3>2. QED
      BY <1>1, <3>1
  <2>2. QED
    BY <2>1
<1>3. QED
  BY <1>2

\* The elements of a finite set of numbers that are below one of them.
Below(K, i) == {j \in K : j < i}

\* The elements before one of a finite set can be counted.
LEMMA BelowFinite ==
    ASSUME NEW K \in SUBSET Nat, IsFiniteSet(K), NEW i \in Nat
    PROVE  IsFiniteSet(Below(K, i)) /\ Cardinality(Below(K, i)) \in Nat
  BY FS_Subset, FS_CardinalityType DEF Below

\* Every rank up to the cardinality is that of some element.
LEMMA RankExists ==
    ASSUME NEW K \in SUBSET Nat, IsFiniteSet(K)
    PROVE  \A k \in 1 .. Cardinality(K) : \E i \in K : Cardinality(Below(K, i)) = k - 1
<1> DEFINE Missing == {k \in 1 .. Cardinality(K) :
                          \A i \in K : Cardinality(Below(K, i)) # k - 1}
<1> SUFFICES ASSUME Missing # {} PROVE FALSE
  OBVIOUS
<1>1. Cardinality(K) \in Nat /\ \A j \in K : j \in Nat
  BY FS_CardinalityType
<1>2. Missing \in SUBSET Nat
  BY <1>1
<1>3. PICK k \in Missing : \A n \in Missing : k <= n
  BY <1>2, LeastNatural
<1>4. k \in 1 .. Cardinality(K) /\ \A i \in K : Cardinality(Below(K, i)) # k - 1
  BY <1>3
<1>5. CASE k = 1
  <2>1. K # {}
    BY <1>1, <1>4, FS_EmptySet
  <2>2. PICK i \in K : \A j \in K : i <= j
    BY <2>1, LeastNatural
  <2>3. Below(K, i) = {}
    <3>1. \A j \in K : ~(j < i)
      BY <1>1, <2>2
    <3>2. QED
      BY <3>1 DEF Below
  <2>4. Cardinality(Below(K, i)) = 0
    BY <2>3, FS_EmptySet
  <2>5. QED
    BY <1>4, <1>5, <2>2, <2>4
<1>6. CASE k # 1
  <2>1. k - 1 \in 1 .. Cardinality(K) /\ k - 1 \notin Missing
    BY <1>1, <1>2, <1>3, <1>4, <1>6
  <2>2. PICK i \in K : Cardinality(Below(K, i)) = k - 2
    BY <1>1, <1>4, <2>1
  <2>3. /\ IsFiniteSet(Below(K, i) \cup {i})
        /\ Cardinality(Below(K, i) \cup {i}) = k - 1
    <3>1. IsFiniteSet(Below(K, i)) /\ i \notin Below(K, i)
      BY <2>2, BelowFinite DEF Below
    <3>2. QED
      BY <1>1, <1>4, <2>2, <3>1, FS_AddElement
  <2>4. {j \in K : i < j} # {}
    <3>1. CASE {j \in K : i < j} = {}
      <4>1. K = Below(K, i) \cup {i}
        <5>1. \A j \in K : j < i \/ j = i
          BY <1>1, <2>2, <3>1
        <5>2. QED
          BY <2>2, <5>1 DEF Below
      <4>2. Cardinality(K) = k - 1 /\ k <= Cardinality(K) /\ k \in Nat
        BY <1>1, <1>4, <2>3, <4>1
      <4>3. QED
        BY <4>2
    <3>2. QED
      BY <3>1
  <2>5. PICK n \in {j \in K : i < j} : \A j \in {h \in K : i < h} : n <= j
    BY <2>4, LeastNatural
  <2>6. Below(K, n) = Below(K, i) \cup {i}
    <3>1. n \in K /\ i < n /\ \A j \in K : i < j => n <= j
      BY <2>5
    <3>2. \A j \in K : j < n <=> (j < i \/ j = i)
      BY <1>1, <2>2, <3>1
    <3>3. QED
      BY <2>2, <3>2 DEF Below
  <2>7. QED
    BY <1>4, <2>3, <2>5, <2>6
<1>7. QED
  BY <1>5, <1>6

\* What is left of the queue are rows of it, the first one excepted.
LEMMA RemainingRows ==
    ASSUME inbox \in Seq(Event), inbox # <<>>, NEW n
    PROVE  /\ Remaining(n) \in Seq(Event) /\ Len(Remaining(n)) <= Len(inbox) - 1
           /\ \A k \in 1 .. Len(Remaining(n)) :
                 \E i \in 2 .. Len(inbox) : Remaining(n)[k] = inbox[i]
<1> DEFINE size == Cardinality(Kept(n))
<1>1. Kept(n) \in SUBSET (2 .. Len(inbox)) /\ Len(inbox) \in Nat \ {0}
  BY DEF Kept
<1>2. /\ IsFiniteSet(Kept(n)) /\ size \in Nat /\ size <= Len(inbox) - 1
  <2>1. IsFiniteSet(2 .. Len(inbox)) /\ Cardinality(2 .. Len(inbox)) = Len(inbox) - 1
    BY <1>1, FS_Interval
  <2>2. QED
    BY <1>1, <2>1, FS_Subset, FS_CardinalityType
<1>3. ASSUME NEW k \in 1 .. size
      PROVE  \E i \in 2 .. Len(inbox) : Remaining(n)[k] = inbox[i]
  <2> DEFINE Ranked(i) == Cardinality({j \in Kept(n) : j < i}) = k - 1
  <2>1. \E i \in Kept(n) : Ranked(i)
    <3>1. Kept(n) \in SUBSET Nat
      BY <1>1
    <3>2. QED
      BY <1>2, <3>1, RankExists DEF Below
  <2>2. Remaining(n)[k] = inbox[CHOOSE i \in Kept(n) : Ranked(i)]
    BY DEF Remaining
  <2> HIDE DEF Ranked
  <2>3. (CHOOSE i \in Kept(n) : Ranked(i)) \in Kept(n)
    BY <2>1
  <2>4. QED
    BY <1>1, <2>2, <2>3
<1>4. Remaining(n) = [k \in 1 .. size |-> Remaining(n)[k]]
  BY DEF Remaining
<1> HIDE DEF size
<1>5. \A k \in 1 .. size : Remaining(n)[k] \in Event
  BY <1>1, <1>3
<1>6. Remaining(n) \in Seq(Event) /\ Len(Remaining(n)) = size
  BY <1>2, <1>4, <1>5
<1>7. QED
  BY <1>2, <1>3, <1>6
-------------------------------------------------------------------------------
(* Steps of the execution that change its records only.                    *)

\* The facts about types the steps rest on.
LEMMA FlowTypes ==
    ASSUME FlowInv
    PROVE  /\ conversation \in Snapshot /\ marks \in Marks /\ quote \in Quote
           /\ inbox \in Seq(Event) /\ Len(inbox) \in Nat /\ work \in Work /\ screen \in Screens
           /\ spent \in [messages : Nat, hands : Nat, failures : Nat, lost : Nat]
           /\ spent.messages <= MaxMessages /\ spent.lost + Len(inbox) <= spent.messages
           /\ spent.hands + spent.failures <= MaxDisturbances
  BY DEF FlowInv, TypeOK, CountInv

\* A quiet step leaves the conversation and what was shown alone, and adds no
\* transition or delivery to what the execution has done; the answer of the
\* model only comes while the execution has none.
QuietStep ==
    /\ UNCHANGED <<conversation, marks, inbox, screen>> /\ quote'.open = quote.open
    /\ spent'.hands = spent.hands /\ spent'.lost = spent.lost
    /\ spent'.messages = spent.messages
    /\ work' \in Work /\ work'.plan = work.plan /\ work'.stale = work.stale
    /\ work'.batch = work.batch
    /\ \A x \in SystemTransitions \cup {"delivery"} :
          x \in work'.done <=> x \in work.done
    /\ \/ work'.answer = work.answer
       \/ work.plan.kind = "ai" /\ work.asked = "nothing"

\* The transitions of an execution are those of the automation, and differ
\* from the other commands it records.
LEMMA NamesOfWork ==
    ASSUME FlowInv
    PROVE  /\ AfterName \in SystemTransitions \cup {"none"}
           /\ work.plan.before \in SystemTransitions \cup {"none"}
           /\ "none" \notin work.done
           /\ work.done \subseteq SystemTransitions \cup {"patch", "message", "delivery"}
           /\ Working => work.plan # NoPlan
           /\ work.plan.kind = "ai" => AfterName \in {"confirm-quote", "forward",
                                                     "present-quote-summary", "none"}
           /\ ~Working => AfterName = "none"
<1>1. work \in Work
  BY FlowTypes
<1>2. work.plan \in Plan /\ work.done \in SUBSET (SystemTransitions \cup {"patch", "message", "delivery"})
  BY <1>1 DEF Work
<1>3. AnswerAfter \in {"confirm-quote", "forward", "present-quote-summary", "none"}
  BY DEF AnswerAfter
<1>4. {"confirm-quote", "forward", "present-quote-summary"} \subseteq SystemTransitions
      /\ "none" \notin SystemTransitions
  BY DEF SystemTransitions
<1>5. ~Working => work.plan.after = "none"
  BY DEF FlowInv, WorkInv, PlanShape, Working
<1>6. QED
  BY <1>2, <1>3, <1>4, <1>5 DEF Plan, AfterName, Working, NoPlan

\* After a quiet step an execution is where it was.
LEMMA QuietViews ==
    ASSUME FlowInv, QuietStep
    PROVE  /\ Working' = Working /\ Moved' = Moved /\ Delivered' = Delivered
           /\ Handed' = Handed
           /\ AfterName' \in work'.done <=> AfterName \in work.done
           /\ work.plan.kind # "ai" => AfterName' = AfterName /\ Expected' = Expected
           /\ (Handing' <=> Handing)
<1>1. Working' = Working /\ Delivered' = Delivered /\ Handed' = Handed
  BY DEF QuietStep, Working, Delivered, Handed, SystemTransitions
<1>2. Moved' = Moved
  BY NamesOfWork DEF QuietStep, Moved
<1>3. CASE work'.answer = work.answer
  <2>1. AfterName' = AfterName /\ Shown' = Shown
    BY <1>3 DEF QuietStep, AfterName, AnswerAfter, Shown, AnswerShows
  <2>2. AfterName' \in work'.done <=> AfterName \in work.done
    <3>1. "none" \notin work'.done
      BY DEF QuietStep, Work, SystemTransitions
    <3>2. QED
      BY <2>1, <3>1, NamesOfWork DEF QuietStep
  <2>3. QED
    BY <1>1, <1>2, <2>1, <2>2 DEF Handing, Expected, QuietStep
<1>4. CASE work.plan.kind = "ai" /\ work.asked = "nothing"
  <2>1. work.answer = NoAnswer /\ ~Delivered
    BY <1>4 DEF FlowInv, WorkInv, DoneInv, Delivered
  <2>2. AfterName = "none"
    BY <1>4, <2>1 DEF AfterName, AnswerAfter, NoAnswer
  <2>3. AfterName' \in {"confirm-quote", "forward", "present-quote-summary", "none"}
    BY <1>4 DEF AfterName, AnswerAfter, QuietStep
  <2>4. work.plan.before \in {"none", "start-quote"}
    BY <1>4 DEF FlowInv, WorkInv, PlanShape, AnswerShape
  <2>5. \A x \in SystemTransitions : x \in work.done => x \in {work.plan.before, "correct-quote"}
    BY <2>2, NamesOfWork DEF FlowInv, WorkInv, DoneInv
  <2>6. AfterName' \notin work'.done
    <3>1. "none" \notin work'.done
      BY DEF QuietStep, Work, SystemTransitions
    <3>2. QED
      BY <2>3, <2>4, <2>5, <3>1 DEF QuietStep, SystemTransitions
  <2>7. AfterName \notin work.done
    BY <2>2, NamesOfWork
  <2>8. ~Handing /\ ~Handing'
    BY <1>1, <2>1 DEF Handing
  <2>9. QED
    BY <1>1, <1>2, <1>4, <2>6, <2>7, <2>8
<1>5. QED
  BY <1>3, <1>4 DEF QuietStep

\* A quiet step keeps what is said of conversation and screen.
LEMMA QuietKeeps ==
    ASSUME FlowInv, QuietStep
    PROVE  BotInv' /\ StepInv' /\ SummaryInv' /\ AloneInv' /\ MenuInv'
<1>1. BotInv'
  BY QuietViews DEF FlowInv, BotInv, QuietStep
<1>2. StepInv'
  <2>1. Working' = Working /\ Moved' = Moved
        /\ (AfterName' \in work'.done <=> AfterName \in work.done)
    BY QuietViews
  <2>2. QED
    BY <2>1 DEF FlowInv, StepInv, QuietStep
<1>3. SummaryInv'
  <2>1. /\ Working' = Working /\ Delivered' = Delivered /\ Handed' = Handed
        /\ (Handing' <=> Handing)
    BY QuietViews
  <2>2. SummaryPlan' = SummaryPlan /\ InSummaryStep' = InSummaryStep
    BY DEF SummaryPlan, InSummaryStep, QuietStep
  <2>3. QED
    BY <2>1, <2>2 DEF FlowInv, SummaryInv, QuietStep, SystemTransitions
<1>4. AloneInv'
  <2>1. Handed' = Handed /\ (Handing' <=> Handing)
    BY QuietViews
  <2>2. QED
    BY <2>1 DEF FlowInv, AloneInv, QuietStep
<1>5. MenuInv'
  <2>1. /\ Working' = Working /\ Moved' = Moved /\ Handed' = Handed
        /\ work.plan.kind # "ai" => Expected' = Expected
    BY QuietViews
  <2>2. Fresh' = Fresh
    BY DEF Fresh, QuietStep, Oldest
  <2>3. \A s, f : Settled(s, f)' = Settled(s, f)
    BY DEF Settled, QuietStep
  <2>4. QED
    BY <2>1, <2>2, <2>3 DEF FlowInv, MenuInv, QuietStep
<1>6. QED
  BY <1>1, <1>2, <1>3, <1>4, <1>5

\* What is left to show of a quiet step are the records themselves.
LEMMA QuietInv ==
    ASSUME FlowInv, QuietStep, work.plan # NoPlan, quote' \in Quote,
           spent' \in [messages : Nat, hands : Nat, failures : Nat, lost : Nat],
           spent'.hands + spent'.failures <= MaxDisturbances,
           StageInv', DoneInv'
    PROVE  FlowInv'
<1>1. TypeOK' /\ CountInv'
  BY DEF FlowInv, TypeOK, CountInv, QuietStep
<1>2. WorkInv'
  BY DEF FlowInv, WorkInv, QuietStep, PlanShape, ReplyShape, AnswerShape
<1>3. QED
  BY <1>1, <1>2, QuietKeeps DEF FlowInv

\* An execution of the oldest message is on its way.
LEMMA UnderWay ==
    ASSUME FlowInv, work.stage # "waiting"
    PROVE  work.plan # NoPlan /\ inbox # <<>>
  BY DEF FlowInv, WorkInv, NoWork

\* A quiet step that records nothing keeps the order of the records.
LEMMA SameRecords ==
    ASSUME FlowInv, QuietStep, work'.done = work.done, work'.asked = work.asked,
           work'.answer = work.answer
    PROVE  DoneInv'
<1>1. /\ Working' = Working /\ Moved' = Moved /\ Delivered' = Delivered
      /\ AfterName' = AfterName /\ Shown' = Shown /\ Oldest' = Oldest
  BY DEF QuietStep, Working, Moved, Delivered, AfterName, AnswerAfter, Shown, AnswerShows,
         Oldest
<1>2. QED
  BY <1>1 DEF FlowInv, WorkInv, DoneInv, QuietStep

\* A step that records less than a command: the conversation is the same, and
\* the execution knows as much as before.
SameWork(stage) ==
    /\ work' \in Work /\ work'.stage = stage /\ work'.plan = work.plan
    /\ work'.asked = work.asked /\ work'.answer = work.answer /\ work'.done = work.done
    /\ work'.stale = work.stale /\ work'.batch = work.batch

\* An execution that fails is tried again.
LEMMA RetryKeeps ==
    ASSUME FlowInv, NEW failures \in {0, 1}, work.stage # "waiting",
           work.attempt # MaxAttempts, FailBy(failures),
           spent.hands + spent.failures + failures <= MaxDisturbances,
           UNCHANGED <<conversation, marks, quote, screen>>
    PROVE  FlowInv'
<1> USE FlowTypes
<1>1. /\ work' = [work EXCEPT !.stage = "waiting", !.attempt = @ + 1, !.repeated = {}]
      /\ spent' = [spent EXCEPT !.failures = @ + failures]
      /\ UNCHANGED inbox
  BY DEF FailBy
<1>2. SameWork("waiting")
  <2>1. work.attempt + 1 \in 1 .. MaxAttempts
    BY AutomationFlowAssumption DEF Work
  <2>2. QED
    BY <1>1, <2>1 DEF SameWork, Work, Stages
<1>3. /\ spent' \in [messages : Nat, hands : Nat, failures : Nat, lost : Nat]
      /\ spent'.hands = spent.hands /\ spent'.lost = spent.lost
      /\ spent'.messages = spent.messages /\ spent'.failures = spent.failures + failures
  BY <1>1
<1>4. QuietStep
  BY <1>1, <1>2, <1>3 DEF QuietStep, SameWork
<1>5. StageInv'
  BY <1>2 DEF StageInv, SameWork
<1>6. DoneInv'
  BY <1>2, <1>4, SameRecords DEF SameWork
<1>7. QED
  BY <1>3, <1>4, <1>5, <1>6, QuietInv, UnderWay

\* Another attempt finds the plan of the one before.
LEMMA BeginAgainKeeps ==
    ASSUME FlowInv, work.plan # NoPlan, work' = [work EXCEPT !.stage = "planned"],
           UNCHANGED <<conversation, marks, quote, inbox, screen, spent>>
    PROVE  FlowInv'
<1> USE FlowTypes
<1>1. SameWork("planned")
  BY DEF SameWork, Work, Stages
<1>2. QuietStep
  BY <1>1 DEF QuietStep, SameWork
<1>3. StageInv'
  BY <1>1 DEF StageInv, SameWork
<1>4. DoneInv'
  BY <1>1, <1>2, SameRecords DEF SameWork
<1>5. QED
  BY <1>2, <1>3, <1>4, QuietInv

\* Where a transition is named the execution writes to the customer.
LEMMA NamedWorks ==
    ASSUME FlowInv
    PROVE  /\ work.plan.before # "none" => Working
           /\ AfterName # "none" => Working
           /\ work.stage \notin {"waiting", "planned"} => Working /\ Moved
           /\ Prepared => Moved
  BY NamesOfWork DEF FlowInv, WorkInv, PlanShape, Working, StageInv, Prepared, Moved

\* A command that is given again changes nothing.
LEMMA RepeatedKeeps ==
    ASSUME FlowInv, NEW name \in SystemTransitions,
           NEW stage \in {"prepared", "corrected", "done"},
           name \in work.done, Transition(name, [work EXCEPT !.stage = stage]),
           \/ stage = "prepared" /\ name = work.plan.before
           \/ stage = "corrected" /\ name = "correct-quote" /\ work.stage = "decided"
           \/ stage = "done" /\ name = AfterName /\ work.stage = "sent"
    PROVE  FlowInv'
<1> USE FlowTypes
<1>1. /\ work' = [[work EXCEPT !.stage = stage] EXCEPT !.repeated = @ \cup {name}]
      /\ UNCHANGED <<conversation, marks, quote, inbox, spent, screen>>
  BY DEF Transition
<1>2. SameWork(stage)
  BY <1>1 DEF SameWork, Work, Stages
<1>3. QuietStep
  BY <1>1, <1>2 DEF QuietStep, SameWork
<1>4. DoneInv'
  BY <1>2, <1>3, SameRecords DEF SameWork
<1>5. /\ Working' = Working /\ Moved' = Moved /\ Delivered' = Delivered
      /\ AfterName' = AfterName
  BY <1>2 DEF SameWork, Working, Moved, Delivered, AfterName, AnswerAfter
<1>6. name # "none" /\ work.done # {}
  BY DEF SystemTransitions
<1>7. Working /\ Moved
  BY <1>6, NamedWorks DEF FlowInv, WorkInv, DoneInv, Moved
<1>8. StageInv'
  BY <1>2, <1>5, <1>7 DEF FlowInv, WorkInv, StageInv, SameWork
<1>9. work.plan # NoPlan
  BY <1>7, NamesOfWork
<1>10. QED
  BY <1>1, <1>3, <1>4, <1>8, <1>9, QuietInv

\* The model answers, or its answer is found again.
Answers ==
    \/ /\ work.asked = "nothing"
       /\ \E answer \in Answer :
             work' = [work EXCEPT !.stage = "decided", !.asked = Question,
                                  !.answer = answer]
    \/ work.asked # "nothing" /\ work' = [work EXCEPT !.stage = "decided"]

\* The verdict of the model, or the one that is recorded, is accepted.
LEMMA DecidedKeeps ==
    ASSUME FlowInv, Prepared, work.plan.kind = "ai", Answers,
           UNCHANGED <<conversation, marks, quote, inbox, screen, spent>>
    PROVE  FlowInv'
<1> USE FlowTypes
<1>1. /\ work' \in Work /\ work'.stage = "decided" /\ work'.plan = work.plan
      /\ work'.asked # "nothing" /\ work'.done = work.done
      /\ work'.stale = work.stale /\ work'.batch = work.batch
      /\ work.asked # "nothing" => work'.asked = work.asked /\ work'.answer = work.answer
  <2>1. CASE work.asked # "nothing"
    <3>1. work' = [work EXCEPT !.stage = "decided"]
      BY <2>1, Zenon DEF Answers
    <3>2. QED
      BY <2>1, <3>1 DEF Work, Stages
  <2>2. CASE work.asked = "nothing"
    <3>1. PICK answer \in Answer :
             work' = [work EXCEPT !.stage = "decided", !.asked = Question,
                                  !.answer = answer]
      BY <2>2, Zenon DEF Answers
    <3>2. Question \in Questions \ {"nothing"}
      BY DEF Question, Questions
    <3>3. QED
      BY <2>2, <3>1, <3>2 DEF Work, Stages
  <2>3. QED
    BY <2>1, <2>2
<1>2. Working /\ Moved /\ work.plan # NoPlan
  BY NamedWorks, NamesOfWork DEF Working
<1>3. QuietStep
  BY <1>1 DEF QuietStep
<1>4. Working' = Working /\ Moved' = Moved /\ Delivered' = Delivered /\ Oldest' = Oldest
  BY <1>1 DEF Working, Moved, Delivered, Oldest
<1>5. StageInv'
  BY <1>1, <1>2, <1>4 DEF StageInv
<1>6. DoneInv'
  <2>1. CASE work.asked # "nothing"
    BY <1>1, <1>3, <2>1, SameRecords
  <2>2. CASE work.asked = "nothing"
    <3>1. /\ work.answer = NoAnswer /\ "patch" \notin work.done
          /\ "correct-quote" \notin work.done /\ "message" \notin work.done /\ ~Delivered
      BY <2>2 DEF FlowInv, WorkInv, DoneInv, NoAnswer
    <3>2. AfterName = "none"
      BY <3>1 DEF AfterName, AnswerAfter, NoAnswer
    <3>3. work.done \cap SystemTransitions \subseteq {work.plan.before}
      BY <3>1, <3>2, NamesOfWork DEF FlowInv, WorkInv, DoneInv
    <3>4. AfterName' \notin work'.done
      BY <1>3, <3>2, NamesOfWork, QuietViews
    <3>5. QED
      BY <1>1, <1>2, <1>4, <3>1, <3>3, <3>4 DEF DoneInv, Delivered
  <2>3. QED
    BY <2>1, <2>2
<1>7. QED
  BY <1>2, <1>3, <1>5, <1>6, QuietInv

\* The data of the request are stored.
LEMMA PatchedKeeps ==
    ASSUME FlowInv, Patch, Safe, quote.open, work.answer.readable,
           work' = [work EXCEPT !.stage = "patched", !.done = @ \cup {"patch"}],
           quote' = [quote EXCEPT !.complete = @ \/ work.answer.completes],
           UNCHANGED <<conversation, marks, inbox, screen, spent>>
    PROVE  FlowInv'
<1> USE FlowTypes
<1>1. /\ work' \in Work /\ work'.stage = "patched" /\ work'.plan = work.plan
      /\ work'.asked = work.asked /\ work'.answer = work.answer
      /\ work'.done = work.done \cup {"patch"}
      /\ work'.stale = work.stale /\ work'.batch = work.batch
  BY DEF Work, Stages
<1>2. quote' \in Quote /\ quote'.open = quote.open
  <2>1. work.answer.completes \in BOOLEAN
    BY DEF Work, Answer
  <2>2. QED
    BY <2>1 DEF Quote
<1>3. work.stage \in {"decided", "corrected"}
  BY DEF Patch
<1>4. Working /\ Moved /\ work.plan # NoPlan /\ work.plan.kind = "ai" /\ work.asked # "nothing"
  BY <1>3, NamedWorks, NamesOfWork DEF FlowInv, WorkInv, StageInv
<1>5. QuietStep
  BY <1>1, <1>2 DEF QuietStep, SystemTransitions
<1>6. /\ Working' = Working /\ Moved' = Moved /\ Delivered' = Delivered /\ Oldest' = Oldest
      /\ AfterName' = AfterName /\ Shown' = Shown
      /\ AfterName \in work'.done <=> AfterName \in work.done
  <2>1. "patch" \notin SystemTransitions \cup {"none", "delivery"}
    BY DEF SystemTransitions
  <2>2. QED
    BY <1>1, <2>1, NamesOfWork
    DEF Working, Moved, Delivered, Oldest, AfterName, AnswerAfter, Shown, AnswerShows
<1>7. StageInv'
  BY <1>1, <1>4, <1>6 DEF StageInv
<1>8. DoneInv'
  <2>1. /\ work.answer.verdict = "correction-requested" => "correct-quote" \in work.done
        /\ work.answer.verdict = "confirmed" =>
              work.plan.mode = "correction" /\ Oldest.text = "yes"
    BY <1>3 DEF Patch, FlowInv, WorkInv, StageInv, Safe, Explicit
  <2>2. work'.done \cap SystemTransitions = work.done \cap SystemTransitions
    BY <1>1 DEF SystemTransitions
  <2>3. work'.done # {} => Working'
    BY <1>4, <1>6
  <2>4. "correct-quote" \in work'.done <=> "correct-quote" \in work.done
    BY <1>1
  <2>5. "message" \in work'.done <=> "message" \in work.done
    BY <1>1
  <2>6. "patch" \in work'.done
    BY <1>1
  <2>7. QED
    BY <1>1, <1>4, <1>6, <2>1, <2>2, <2>3, <2>4, <2>5, <2>6
    DEF FlowInv, WorkInv, DoneInv
<1>9. QED
  BY <1>2, <1>4, <1>5, <1>7, <1>8, QuietInv

\* The reply can be asked for, or it was accepted.
Ready == Written \/ work.stage = "checked"

LEMMA ReadyWorks ==
    ASSUME FlowInv, Ready
    PROVE  /\ Working /\ Moved /\ work.plan # NoPlan
           /\ work.plan.kind = "ai" => "patch" \in work.done
<1>1. Working /\ Moved /\ work.plan # NoPlan
  BY NamedWorks, NamesOfWork DEF Working, Ready, Written
<1>2. work.plan.kind = "ai" => "patch" \in work.done
  BY DEF FlowInv, WorkInv, StageInv, Ready, Written
<1>3. QED
  BY <1>1, <1>2

\* The reply is accepted, or the one that was created is found.
LEMMA CheckedKeeps ==
    ASSUME FlowInv, Ready,
           NEW stage, stage = "checked" \/ (stage = "created" /\ "message" \in work.done),
           work' = [work EXCEPT !.stage = stage],
           UNCHANGED <<conversation, marks, quote, inbox, screen, spent>>
    PROVE  FlowInv'
<1> USE FlowTypes
<1>1. /\ work' \in Work /\ work'.stage = stage /\ work'.plan = work.plan
      /\ work'.asked = work.asked /\ work'.answer = work.answer
      /\ work'.done = work.done
      /\ work'.stale = work.stale /\ work'.batch = work.batch
  BY DEF Work, Stages
<1>2. /\ Working /\ Moved /\ work.plan # NoPlan
      /\ work.plan.kind = "ai" => "patch" \in work.done
  BY ReadyWorks
<1>3. QuietStep
  BY <1>1 DEF QuietStep
<1>4. Working' = Working /\ Moved' = Moved
  BY <1>1 DEF Working, Moved
<1>5. StageInv'
  BY <1>1, <1>2, <1>4 DEF StageInv
<1>6. DoneInv'
  BY <1>1, <1>3, SameRecords
<1>7. QED
  BY <1>2, <1>3, <1>5, <1>6, QuietInv

\* The message is stored.
LEMMA CreatedKeeps ==
    ASSUME FlowInv, Ready,
           work' = [work EXCEPT !.stage = "created", !.done = @ \cup {"message"}],
           UNCHANGED <<conversation, marks, quote, inbox, screen, spent>>
    PROVE  FlowInv'
<1> USE FlowTypes
<1>1. /\ work' \in Work /\ work'.stage = "created" /\ work'.plan = work.plan
      /\ work'.asked = work.asked /\ work'.answer = work.answer
      /\ work'.done = work.done \cup {"message"}
      /\ work'.stale = work.stale /\ work'.batch = work.batch
  BY DEF Work, Stages
<1>2. Working /\ Moved /\ work.plan # NoPlan
  BY ReadyWorks
<1>3. work.plan.kind = "ai" => "patch" \in work.done
  BY ReadyWorks
<1>4. QuietStep
  BY <1>1 DEF QuietStep, SystemTransitions
<1>5. /\ Working' = Working /\ Moved' = Moved /\ Delivered' = Delivered /\ Oldest' = Oldest
      /\ AfterName' = AfterName /\ Shown' = Shown
      /\ AfterName \in work'.done <=> AfterName \in work.done
  <2>1. "message" \notin SystemTransitions \cup {"none", "delivery"}
    BY DEF SystemTransitions
  <2>2. QED
    BY <1>1, <2>1, NamesOfWork
    DEF Working, Moved, Delivered, Oldest, AfterName, AnswerAfter, Shown, AnswerShows
<1>6. StageInv'
  BY <1>1, <1>2, <1>5 DEF StageInv
<1>7. DoneInv'
  <2>1. work'.done \cap SystemTransitions = work.done \cap SystemTransitions
    BY <1>1 DEF SystemTransitions
  <2>2. /\ "correct-quote" \in work'.done <=> "correct-quote" \in work.done
        /\ "patch" \in work'.done <=> "patch" \in work.done
        /\ "message" \in work'.done
    BY <1>1
  <2>3. QED
    BY <1>1, <1>2, <1>3, <1>5, <2>1, <2>2 DEF FlowInv, WorkInv, DoneInv
<1>8. QED
  BY <1>2, <1>4, <1>6, <1>7, QuietInv
-------------------------------------------------------------------------------
(* The message is concluded.                                               *)

\* What holds of a conversation whose execution leaves nothing to be done.
Over == /\ InSummaryStep => screen # "handoff"
        /\ spent.hands = 0 =>
              /\ screen = "handoff" => conversation.conversationState = "sent-to-human"
              /\ Settled(screen, FALSE)

\* No execution, and what it says of the records.
LEMMA NoWorkTyped == NoWork \in Work /\ NoPlan \in Plan /\ PlanShape(NoPlan)
<1>1. NoPlan \in Plan
  BY DEF NoPlan, Plan, PlanKinds, Screens
<1>2. NoAnswer \in Answer
  BY DEF NoAnswer, Answer, Verdicts
<1>3. NoWork \in Work
  BY <1>1, <1>2, AutomationFlowAssumption DEF NoWork, Work, Stages, Questions
<1>4. QED
  BY <1>1, <1>3 DEF NoPlan, PlanShape

LEMMA NoWorkRecords ==
    ASSUME work' = NoWork
    PROVE  /\ ~Working' /\ ~Delivered' /\ ~Handed' /\ ~Handing'
           /\ StageInv' /\ DoneInv' /\ work'.plan = NoPlan /\ work'.done = {}
<1>1. ~Working' /\ ~Delivered' /\ ~Handed' /\ work'.plan = NoPlan /\ work'.done = {}
  BY DEF NoWork, NoPlan, Working, Delivered, Handed
<1>2. ~Handing' /\ AfterName' = "none"
  BY <1>1 DEF Handing, AfterName, NoPlan
<1>3. StageInv'
  BY DEF StageInv, NoWork
<1>4. DoneInv'
  BY <1>1 DEF DoneInv, NoWork, Delivered
<1>5. QED
  BY <1>1, <1>2, <1>3, <1>4

\* An execution ends and its rows are taken off; that the screen suits the
\* conversation again is left to the caller.
LEMMA ConcludeKeeps ==
    ASSUME FlowInv, inbox # <<>>, NEW n, Conclude(n),
           UNCHANGED <<conversation, marks, quote, screen>>,
           spent' \in [messages : Nat, hands : Nat, failures : Nat, lost : Nat],
           spent'.hands = spent.hands, spent'.messages = spent.messages,
           spent'.hands + spent'.failures <= MaxDisturbances,
           spent'.lost \in {spent.lost, spent.lost + 1},
           spent'.lost = spent.lost + 1 \/ spent.lost > 0 \/ Over
    PROVE  FlowInv'
<1> USE FlowTypes
<1>1. inbox' = Remaining(n) /\ work' = NoWork
  BY DEF Conclude
<1>2. /\ inbox' \in Seq(Event) /\ Len(inbox') <= Len(inbox) - 1
      /\ \A k \in 1 .. Len(inbox') : \E i \in 2 .. Len(inbox) : inbox'[k] = inbox[i]
  <2>1. /\ Remaining(n) \in Seq(Event) /\ Len(Remaining(n)) <= Len(inbox) - 1
        /\ \A k \in 1 .. Len(Remaining(n)) :
              \E i \in 2 .. Len(inbox) : Remaining(n)[k] = inbox[i]
    BY RemainingRows, Zenon
  <2>2. QED
    BY <1>1, <2>1, Zenon
<1>3. /\ ~Working' /\ ~Delivered' /\ ~Handed' /\ ~Handing'
      /\ StageInv' /\ DoneInv' /\ work'.plan = NoPlan /\ work'.done = {}
  BY <1>1, NoWorkRecords
<1>4. CountInv' /\ Len(inbox') \in Nat /\ spent.messages # 0
  <2>1. Len(inbox) > 0 /\ Len(inbox') \in Nat
    BY <1>2
  <2>2. /\ spent.lost \in Nat /\ spent'.lost \in Nat /\ spent.messages \in Nat
        /\ spent'.lost = spent.lost \/ spent'.lost = spent.lost + 1
    <3>1. spent.lost \in Nat /\ spent.messages \in Nat
      OBVIOUS
    <3>2. spent'.lost = spent.lost \/ spent'.lost = spent.lost + 1
      OBVIOUS
    <3>3. QED
      BY <3>1, <3>2
  <2>3. spent'.lost + Len(inbox') <= spent'.messages
    BY <1>2, <2>1, <2>2
  <2>4. spent.messages # 0
    BY <2>1, <2>2
  <2>5. QED
    BY <2>1, <2>3, <2>4 DEF CountInv
<1>13. spent'.lost > 0 \/ Over
  <2>1. spent.lost \in Nat
    OBVIOUS
  <2>2. CASE Over
    BY <2>2
  <2>3. CASE ~Over
    <3>1. spent'.lost = spent.lost + 1 \/ spent.lost > 0
      BY <2>3
    <3>2. spent'.lost = spent.lost \/ spent'.lost = spent.lost + 1
      OBVIOUS
    <3>3. QED
      BY <2>1, <3>1, <3>2
  <2>4. QED
    BY <2>2, <2>3
<1>5. TypeOK'
  <2>1. Len(inbox') <= MaxMessages /\ spent'.lost \in 0 .. MaxMessages
        /\ spent'.messages \in 0 .. MaxMessages
    BY <1>2, <1>4, AutomationFlowAssumption DEF CountInv
  <2>2. QED
    BY <1>1, <1>2, <2>1, NoWorkTyped DEF TypeOK
<1>6. WorkInv'
  BY <1>1, <1>3, NoWorkTyped DEF WorkInv
<1>7. BotInv' /\ StepInv'
  BY <1>3 DEF FlowInv, BotInv, StepInv
<1>8. SummaryInv'
  <2>1. InSummaryStep => screen # "handoff" \/ spent'.lost > 0
    BY <1>13 DEF Over
  <2>2. QED
    BY <1>3, <2>1 DEF FlowInv, SummaryInv, InSummaryStep
<1>9. \A k \in 1 .. Len(inbox') : spent.hands = 0 => ~inbox'[k].opens
  <2>1. ASSUME NEW k \in 1 .. Len(inbox'), spent.hands = 0 PROVE ~inbox'[k].opens
    <3>1. PICK i \in 2 .. Len(inbox) : inbox'[k] = inbox[i]
      BY <1>2
    <3>2. i \in 1 .. Len(inbox) /\ i # 1
      OBVIOUS
    <3>3. ~inbox[i].opens
      BY <2>1, <3>2 DEF FlowInv, AloneInv
    <3>4. QED
      BY <3>1, <3>3
  <2>2. QED
    BY <2>1
<1>10. AloneInv'
  <2>1. ASSUME spent'.hands = 0
        PROVE  screen = "handoff" => \/ spent'.lost > 0
                                     \/ conversation.conversationState = "sent-to-human"
    BY <2>1, <1>13 DEF Over
  <2>2. QED
    BY <1>3, <1>4, <1>9, <2>1 DEF FlowInv, AloneInv
<1>11. MenuInv'
  <2>1. SUFFICES ASSUME spent'.hands = 0, spent'.lost = 0 PROVE MenuInv'
    BY DEF MenuInv
  <2>2. spent.hands = 0 /\ spent.lost = 0 /\ Over
    BY <2>1
  <2>3. Settled(screen, FALSE)
    BY <2>2 DEF Over
  <2>4. Settled(screen, FALSE)'
    BY <2>3 DEF Settled
  <2>5. Fresh' = FALSE
    <3>1. inbox' # <<>> => ~Oldest'.opens
      BY <1>2, <1>4, <1>9, <2>2 DEF Oldest
    <3>2. QED
      BY <1>4, <3>1 DEF Fresh
  <2>6. Settled(screen, Fresh)'
    BY <2>4, <2>5 DEF Settled
  <2>7. QED
    BY <1>3, <2>2, <2>6 DEF FlowInv, MenuInv
<1>12. QED
  BY <1>4, <1>5, <1>6, <1>7, <1>8, <1>10, <1>11 DEF FlowInv

\* A message that is given up is counted.
LEMMA IsolateKeeps ==
    ASSUME FlowInv, inbox # <<>>, NEW failures \in {0, 1}, Isolate(failures),
           spent.hands + spent.failures + failures <= MaxDisturbances,
           UNCHANGED <<conversation, marks, quote, screen>>
    PROVE  FlowInv'
<1> USE FlowTypes
<1>1. spent' = [spent EXCEPT !.failures = @ + failures, !.lost = @ + 1]
  BY DEF Isolate
<1>2. /\ spent' \in [messages : Nat, hands : Nat, failures : Nat, lost : Nat]
      /\ spent'.hands = spent.hands /\ spent'.messages = spent.messages
      /\ spent'.failures = spent.failures + failures /\ spent'.lost = spent.lost + 1
  <2>1. /\ spent'.hands = spent.hands /\ spent'.messages = spent.messages
        /\ spent'.failures = spent.failures + failures /\ spent'.lost = spent.lost + 1
    BY <1>1
  <2>2. spent.failures + failures \in Nat /\ spent.lost + 1 \in Nat
    OBVIOUS
  <2>3. spent' \in [messages : Nat, hands : Nat, failures : Nat, lost : Nat]
    BY <1>1, <2>2
  <2>4. QED
    BY <2>1, <2>3
<1>3. Conclude(1)
  BY DEF Isolate
<1>4. QED
  BY <1>2, <1>3, ConcludeKeeps

\* An execution that fails is tried again, or its message is given up.
LEMMA FailKeeps ==
    ASSUME FlowInv, NEW failures \in {0, 1}, work.stage # "waiting", FailBy(failures),
           spent.hands + spent.failures + failures <= MaxDisturbances,
           UNCHANGED <<conversation, marks, quote, screen>>
    PROVE  FlowInv'
<1>1. CASE work.attempt = MaxAttempts
  BY <1>1, UnderWay, IsolateKeeps DEF FailBy
<1>2. CASE work.attempt # MaxAttempts
  BY <1>2, RetryKeeps
<1>3. QED
  BY <1>1, <1>2

\* A person has the conversation, and the automation leaves it to the person.
LEMMA LeftKeeps ==
    ASSUME FlowInv, work.stage # "waiting", HumanTookIt, Conclude(work.batch),
           UNCHANGED <<conversation, marks, quote, screen, spent>>
    PROVE  FlowInv'
<1> USE FlowTypes
<1>1. /\ conversation.conversationState \in States /\ marks.attended \in BOOLEAN
      /\ Fits(conversation, marks.attended)
  BY DEF Snapshot, Marks, FlowInv, BotInv
<1>2. ~InSummaryStep
  BY <1>1 DEF HumanTookIt, Fits, Open, InSummaryStep
<1>3. spent.hands = 0 =>
         /\ conversation.conversationState = "sent-to-human"
         /\ conversation.flowStep = "human-service" /\ ~marks.contact
  BY <1>1 DEF HumanTookIt, Fits, Open, Bot, NotOfTheBot, States, FlowInv, AloneInv
<1>4. Over
  BY <1>2, <1>3 DEF Over, Settled
<1>5. QED
  BY <1>4, UnderWay, ConcludeKeeps

\* A command is refused: the plan is abandoned or fails.
LEMMA RefusedKeeps ==
    ASSUME FlowInv, work.stage # "waiting", Refused
    PROVE  FlowInv'
<1> USE FlowTypes
<1>1. CASE work.stale /\ HumanTookIt
  BY <1>1, LeftKeeps DEF Refused
<1>2. CASE ~(work.stale /\ HumanTookIt)
  BY <1>2, FailKeeps DEF Refused, Fail
<1>3. QED
  BY <1>1, <1>2

\* The message asks for no reply.
LEMMA EndWithoutReplyKeeps ==
    ASSUME FlowInv, EndWithoutReply
    PROVE  FlowInv'
<1> USE FlowTypes
<1>1. work.stage = "planned" /\ work.plan.kind \in ConcludedByPlan
      /\ UNCHANGED <<conversation, marks, quote, screen, spent>>
  BY DEF EndWithoutReply
<1>2. inbox # <<>> /\ work.plan # NoPlan
  BY <1>1, UnderWay
<1>3. ~Working /\ ~Handing
  BY <1>1 DEF Working, Handing, ConcludedByPlan
<1>4. PICK n : Conclude(n)
  BY DEF EndWithoutReply
<1>5. spent.lost > 0 \/ Over
  <2>1. SUFFICES ASSUME spent.lost = 0 PROVE Over
    OBVIOUS
  <2>2. InSummaryStep => screen # "handoff"
    BY <1>3, <2>1 DEF FlowInv, SummaryInv
  <2>3. ASSUME spent.hands = 0
        PROVE  /\ screen = "handoff" => conversation.conversationState = "sent-to-human"
               /\ Settled(screen, FALSE)
    <3>1. screen = "handoff" => conversation.conversationState = "sent-to-human"
      BY <1>3, <2>1, <2>3 DEF FlowInv, AloneInv
    <3>2. Settled(screen, Fresh)
      BY <1>3, <2>1, <2>3 DEF FlowInv, MenuInv
    <3>3. ~Oldest.opens
      <4>1. 1 \in 1 .. Len(inbox)
        BY <1>2
      <4>2. After("main", "present-main-menu").kind = "reply"
        BY DEF After, Shows, NoPlan
      <4>3. QED
        BY <1>1, <1>2, <2>3, <4>1, <4>2 DEF FlowInv, AloneInv, Oldest, ConcludedByPlan
    <3>4. ~Fresh
      BY <1>2, <3>3 DEF Fresh
    <3>5. QED
      BY <3>1, <3>2, <3>4 DEF Settled
  <2>4. QED
    BY <2>2, <2>3 DEF Over
<1>6. QED
  BY <1>1, <1>2, <1>4, <1>5, ConcludeKeeps

\* The plan is carried out.
LEMMA EndKeeps ==
    ASSUME FlowInv, End
    PROVE  FlowInv'
<1> USE FlowTypes
<1>1. /\ work.stage = "done" \/ (work.stage = "sent" /\ AfterName = "none")
      /\ Conclude(work.batch) /\ UNCHANGED <<conversation, marks, quote, screen, spent>>
  <2>1. work.stage = "done" \/ (work.stage = "sent" /\ AfterName = "none")
    BY DEF End
  <2>2. Conclude(work.batch)
    BY DEF End
  <2>3. UNCHANGED <<conversation, marks, quote, screen, spent>>
    BY DEF End
  <2>4. QED
    BY <2>1, <2>2, <2>3
<1>2. inbox # <<>> /\ work.plan # NoPlan /\ Working /\ Moved /\ Delivered
  BY <1>1, UnderWay, NamedWorks DEF FlowInv, WorkInv, StageInv
<1>3. AfterName = "forward" => Handed
  BY <1>1 DEF FlowInv, WorkInv, StageInv, Handed
<1>4. ~Handing
  BY <1>3 DEF Handing
<1>5. spent.lost > 0 \/ Over
  <2>1. SUFFICES ASSUME spent.lost = 0 PROVE Over
    OBVIOUS
  <2>2. InSummaryStep => screen # "handoff"
    BY <1>4, <2>1 DEF FlowInv, SummaryInv
  <2>3. ASSUME spent.hands = 0
        PROVE  /\ screen = "handoff" => conversation.conversationState = "sent-to-human"
               /\ Settled(screen, FALSE)
    <3>1. screen = "handoff" => conversation.conversationState = "sent-to-human"
      BY <1>4, <2>1, <2>3 DEF FlowInv, AloneInv
    <3>2. CASE Handed
      <4>1. conversation.conversationState = "sent-to-human" /\ ~marks.attended
        BY <2>3, <3>2 DEF FlowInv, AloneInv
      <4>2. conversation.flowStep = "human-service"
        BY <4>1 DEF FlowInv, BotInv, Fits
      <4>3. ~marks.contact
        BY <2>3, <4>2 DEF FlowInv, AloneInv
      <4>4. QED
        BY <3>1, <4>2, <4>3 DEF Settled
    <3>3. CASE ~Handed /\ work.plan.kind = "reply"
      <4>1. work.plan.after # "forward"
        BY <1>3, <3>3 DEF AfterName
      <4>2. Settled(Expected, FALSE)
        BY <1>2, <2>1, <2>3, <3>3, <4>1 DEF FlowInv, MenuInv
      <4>3. Expected = screen
        BY <1>2 DEF Expected
      <4>4. QED
        BY <3>1, <4>2, <4>3
    <3>4. CASE ~Handed /\ work.plan.kind # "reply"
      <4>1. /\ conversation.flowStep \notin {"main-menu", "commercial-menu"}
            /\ conversation.flowStep = "commercial-follow-up-menu" => ~marks.followUp
        BY <1>2, <2>1, <2>3, <3>4 DEF FlowInv, MenuInv
      <4>2. ~marks.contact
        BY <1>2, <3>4 DEF FlowInv, StepInv
      <4>3. QED
        BY <3>1, <4>1, <4>2 DEF Settled
    <3>5. QED
      BY <3>2, <3>3, <3>4
  <2>4. QED
    BY <2>2, <2>3 DEF Over
<1>6. QED
  BY <1>1, <1>2, <1>5, ConcludeKeeps
-------------------------------------------------------------------------------
(* A plan is made.                                                         *)

\* What a plan that writes looks like, seen from the mark of the contact.
LEMMA MadeShape ==
    ASSUME FlowInv, inbox # <<>>, NEW p, p = PlanFor(Oldest), p.kind \in {"reply", "ai"}
    PROVE  /\ p.kind = "reply" => ReplyShape(p)
           /\ p.kind = "ai" => AnswerShape(p)
           /\ p.after = "return-to-main-menu" => marks.contact
           /\ marks.contact => p.kind = "reply" /\ p.before = "none" /\ p.after # "forward"
           /\ p.before # "none" => Planned(p, conversation.flowStep)
           /\ InitialMenu(Oldest) => p = After("main", "present-main-menu")
           /\ ~InitialMenu(Oldest) =>
                \/ p.kind = "reply" /\ p.before = "none" /\ p.shows = "notice"
                \/ /\ conversation.flowStep = "commercial-follow-up-menu" /\ ~marks.contact
                   /\ p.kind = "reply" /\ p.before = "none" /\ p.shows = "follow-up"
                \/ ~marks.contact /\ Planned(p, conversation.flowStep)
<1> USE FlowTypes
<1>1. Oldest \in Event
  BY DEF Oldest
<1>2. /\ Shows("notice").kind = "reply" /\ Shows("notice").before = "none"
      /\ Shows("notice").after = "none" /\ Shows("notice").shows = "notice"
      /\ Shows("follow-up").kind = "reply" /\ Shows("follow-up").before = "none"
      /\ Shows("follow-up").after = "none" /\ Shows("follow-up").shows = "follow-up"
  BY DEF Shows, NoPlan
<1>3. /\ After("main", "present-main-menu").kind = "reply"
      /\ After("main", "present-main-menu").before = "none"
      /\ After("main", "present-main-menu").after = "present-main-menu"
      /\ After("notice", "return-to-main-menu").kind = "reply"
      /\ After("notice", "return-to-main-menu").before = "none"
      /\ After("notice", "return-to-main-menu").after = "return-to-main-menu"
      /\ After("notice", "return-to-main-menu").shows = "notice"
  BY DEF After, Shows, NoPlan
<1>4. PlanShape(p)
  BY <1>1, PlanMade
<1>5. \/ InitialMenu(Oldest) /\ p = After("main", "present-main-menu")
      \/ ~InitialMenu(Oldest) /\ p = Shows("notice")
      \/ /\ ~InitialMenu(Oldest) /\ marks.contact
         /\ p = After("notice", "return-to-main-menu")
      \/ /\ ~InitialMenu(Oldest) /\ ~marks.contact
         /\ conversation.flowStep = "commercial-follow-up-menu" /\ p = Shows("follow-up")
      \/ ~InitialMenu(Oldest) /\ ~marks.contact /\ Planned(p, conversation.flowStep)
  BY <1>1, PlanMade
<1>6. Planned(p, conversation.flowStep) => p.after \in {"none", "forward"}
  BY DEF Planned
<1>7. QED
  BY <1>2, <1>3, <1>4, <1>5, <1>6 DEF PlanShape

\* The oldest message is planned.
LEMMA BegunKeeps ==
    ASSUME FlowInv, inbox # <<>>, work.stage = "waiting", work.plan = NoPlan,
           NEW n \in 1 .. Len(inbox),
           work' = [work EXCEPT !.stage = "planned", !.batch = n, !.plan = PlanFor(Oldest)],
           UNCHANGED <<conversation, marks, quote, inbox, screen, spent>>
    PROVE  FlowInv'
<1> USE FlowTypes
<1> DEFINE p == PlanFor(Oldest)
<1>1. Oldest \in Event
  BY DEF Oldest
<1>2. p \in Plan /\ PlanShape(p) /\ p.kind # "none" /\ p # NoPlan
  BY <1>1, PlanMade DEF NoPlan
<1>3. work = NoWork
  BY DEF FlowInv, WorkInv
<1>4. /\ work' \in Work /\ work'.stage = "planned" /\ work'.plan = p
      /\ work'.asked = "nothing" /\ work'.answer = NoAnswer /\ work'.done = {}
      /\ work'.stale = FALSE /\ work'.batch = n
  <2>1. n \in 0 .. MaxMessages
    BY AutomationFlowAssumption
  <2>2. /\ work.asked = "nothing" /\ work.answer = NoAnswer /\ work.done = {}
        /\ work.stale = FALSE
    BY <1>3 DEF NoWork
  <2>3. p \in Plan
    BY <1>2
  <2> HIDE DEF p
  <2>4. work' = [work EXCEPT !.stage = "planned", !.batch = n, !.plan = p]
    BY DEF p
  <2>5. /\ work'.stage = "planned" /\ work'.plan = p
        /\ work'.asked = "nothing" /\ work'.answer = NoAnswer /\ work'.done = {}
        /\ work'.stale = FALSE /\ work'.batch = n
    BY <2>2, <2>4 DEF Work
  <2>6. work' \in Work
    <3>1. "planned" \in Stages
      BY DEF Stages
    <3>2. QED
      BY <2>1, <2>3, <2>4, <3>1 DEF Work
  <2>7. QED
    BY <2>5, <2>6
<1> HIDE DEF p
<1>5. /\ Working' <=> p.kind \in {"reply", "ai"}
      /\ Moved' <=> p.before = "none"
      /\ ~Delivered' /\ ~Handed' /\ ~Handing' /\ AfterName' \notin work'.done
      /\ Oldest' = Oldest /\ ~Working /\ ~Handing
  BY <1>3, <1>4 DEF Working, Moved, Delivered, Handed, Handing, NoWork, NoPlan, Oldest
<1>6. TypeOK' /\ CountInv'
  BY <1>4 DEF FlowInv, TypeOK, CountInv
<1>7. WorkInv'
  BY <1>2, <1>4, <1>5 DEF WorkInv, StageInv, DoneInv, PlanShape, ReplyShape, AnswerShape
<1>8. BotInv'
  BY <1>1, <1>5, PlanMade DEF FlowInv, BotInv, p
<1>9. Working' =>
         /\ p.kind = "reply" => ReplyShape(p)
         /\ p.kind = "ai" => AnswerShape(p)
         /\ p.after = "return-to-main-menu" => marks.contact
         /\ marks.contact => p.kind = "reply" /\ p.before = "none" /\ p.after # "forward"
         /\ p.before # "none" => Planned(p, conversation.flowStep)
         /\ InitialMenu(Oldest) => p = After("main", "present-main-menu")
         /\ ~InitialMenu(Oldest) =>
              \/ p.kind = "reply" /\ p.before = "none" /\ p.shows = "notice"
              \/ /\ conversation.flowStep = "commercial-follow-up-menu" /\ ~marks.contact
                 /\ p.kind = "reply" /\ p.before = "none" /\ p.shows = "follow-up"
              \/ ~marks.contact /\ Planned(p, conversation.flowStep)
  BY <1>5, MadeShape DEF p
<1>10. StepInv'
  BY <1>4, <1>5, <1>9 DEF StepInv, Planned
<1>11. 1 \in 1 .. Len(inbox) /\ spent.messages # 0
  <2>1. Len(inbox) > 0 /\ spent.lost \in Nat /\ spent.messages \in Nat
    OBVIOUS
  <2>2. QED
    BY <2>1
<1>12. spent.hands = 0 /\ Oldest.opens =>
          /\ conversation = FirstContact /\ ~marks.main /\ ~marks.attended /\ ~marks.contact
          /\ Oldest.allowed /\ ~Oldest.human
  <2>1. SUFFICES ASSUME spent.hands = 0, Oldest.opens
                 PROVE  /\ conversation = FirstContact /\ ~marks.main /\ ~marks.attended
                        /\ ~marks.contact /\ Oldest.allowed /\ ~Oldest.human
    OBVIOUS
  <2>2. /\ conversation = FirstContact /\ marks = [m \in DOMAIN marks |-> FALSE]
        /\ Oldest.allowed /\ ~Oldest.human
    BY <2>1, <1>11 DEF FlowInv, AloneInv, Oldest
  <2>3. QED
    BY <2>2 DEF Marks
<1>13. After("main", "present-main-menu").kind = "reply"
       /\ After("main", "present-main-menu").before = "none"
       /\ After("main", "present-main-menu").shows = "main"
       /\ After("main", "present-main-menu").after = "present-main-menu"
  BY DEF After, Shows, NoPlan
<1>14. InitialMenu(Oldest) => Oldest.opens
  BY DEF InitialMenu
<1>15. SummaryInv'
  <2>1. ASSUME InSummaryStep, Working' PROVE SummaryPlan'
    <3>1. CASE InitialMenu(Oldest)
      <4>1. spent.hands # 0
        BY <1>12, <1>14, <2>1, <3>1 DEF InSummaryStep, FirstContact
      <4>2. p = After("main", "present-main-menu")
        BY <1>9, <2>1, <3>1
      <4>3. QED
        BY <1>4, <1>13, <4>1, <4>2 DEF SummaryPlan
    <3>2. CASE ~InitialMenu(Oldest)
      <4>1. CASE p.kind = "reply" /\ p.before = "none" /\ p.shows = "notice"
        BY <1>4, <4>1 DEF SummaryPlan
      <4>2. CASE Planned(p, "quote-summary-confirmation")
        <5>1. p.kind = "ai" /\ p.mode = "correction"
          BY <1>5, <2>1, <4>2 DEF Planned
        <5>2. QED
          BY <1>4, <5>1 DEF SummaryPlan
      <4>3. QED
        BY <1>9, <2>1, <3>2, <4>1, <4>2 DEF InSummaryStep
    <3>3. QED
      BY <3>1, <3>2
  <2>2. QED
    BY <1>4, <1>5, <2>1 DEF FlowInv, SummaryInv, InSummaryStep
<1>16. AloneInv'
  <2>1. ASSUME spent.hands = 0, Oldest.opens
        PROVE  p = After("main", "present-main-menu")
    <3>1. ~HumanBlocks(Oldest) /\ Oldest.allowed /\ Bot(conversation)
      BY <1>12, <2>1 DEF HumanBlocks, Bot, FirstContact
    <3>2. InitialMenu(Oldest)
      BY <1>12, <2>1 DEF InitialMenu
    <3>3. QED
      BY <3>1, <3>2 DEF PlanFor, p
  <2>2. spent.hands = 0 =>
           \A i \in 1 .. Len(inbox) : inbox[i].opens =>
             /\ i = 1 /\ inbox[i].allowed /\ ~inbox[i].human
             /\ p = After("main", "present-main-menu")
    BY <2>1 DEF FlowInv, AloneInv, Oldest
  <2>3. QED
    BY <1>2, <1>4, <1>5, <1>11, <2>2 DEF FlowInv, AloneInv
<1>17. MenuInv'
  <2>1. SUFFICES ASSUME spent.hands = 0, spent.lost = 0 PROVE MenuInv'
    BY DEF MenuInv
  <2>2. Settled(screen, Fresh) /\ Fresh' = Fresh /\ Fresh = Oldest.opens
    <3>1. Settled(screen, Fresh)
      BY <1>5, <2>1 DEF FlowInv, MenuInv
    <3>2. Fresh' = Fresh
      BY <1>5 DEF Fresh
    <3>3. Oldest.opens \in BOOLEAN
      BY <1>1 DEF Event
    <3>4. Fresh = Oldest.opens
      BY <1>11, <3>3 DEF Fresh
    <3>5. QED
      BY <3>1, <3>2, <3>4
  <2>3. \A s, f : Settled(s, f)' <=> Settled(s, f)
    BY DEF Settled
  <2>4. ~Working' => Settled(screen, Fresh)'
    BY <2>2, <2>3
  <2>5. Oldest.opens <=> InitialMenu(Oldest)
    BY <1>12, <2>1 DEF InitialMenu
  <2>6. ASSUME Working', Moved', p.kind = "reply", p.after # "forward"
        PROVE  Settled(Expected', FALSE)
    <3>1. Expected' = IF p.shows = "notice" THEN screen ELSE p.shows
      BY <1>4, <1>5, <2>6 DEF Expected, Shown
    <3>2. CASE InitialMenu(Oldest)
      <4>1. Expected' = "main" /\ conversation.flowStep = "main-menu" /\ ~marks.contact
        BY <1>9, <1>12, <1>13, <1>14, <2>1, <2>6, <3>1, <3>2 DEF FirstContact
      <4>2. QED
        BY <4>1 DEF Settled
    <3>3. CASE ~InitialMenu(Oldest) /\ p.shows = "notice"
      <4>1. ~Fresh
        BY <2>2, <2>5, <3>3
      <4>2. QED
        BY <2>2, <3>1, <3>3, <4>1 DEF Settled
    <3>4. CASE ~InitialMenu(Oldest) /\ p.shows # "notice" /\ p.shows = "follow-up"
               /\ conversation.flowStep = "commercial-follow-up-menu" /\ ~marks.contact
      BY <3>1, <3>4 DEF Settled
    <3>5. CASE ~InitialMenu(Oldest) /\ p.shows # "notice" /\ ~marks.contact
               /\ Planned(p, conversation.flowStep)
      <4>1. p.before = "none" /\ p.after = "none"
        BY <1>5, <2>6, <3>5 DEF Planned
      <4>2. \/ conversation.flowStep = "main-menu" /\ p.shows = "main"
            \/ conversation.flowStep = "commercial-menu" /\ p.shows = "commercial"
        BY <2>6, <3>5, <4>1 DEF Planned
      <4>3. QED
        BY <3>1, <3>5, <4>2 DEF Settled
    <3>6. QED
      BY <1>9, <2>6, <3>2, <3>3, <3>4, <3>5
  <2>7. ASSUME Working', Moved', p.kind = "ai"
        PROVE  conversation.flowStep \in {"quote-data-collection", "quote-summary-confirmation"}
    <3>1. ~InitialMenu(Oldest)
      BY <1>9, <1>13, <2>7
    <3>2. Planned(p, conversation.flowStep)
      BY <1>9, <2>7, <3>1
    <3>3. QED
      BY <1>5, <2>7, <3>2 DEF Planned
  <2>8. ASSUME Working', ~Moved', p.before = "select-commercial"
        PROVE  conversation.requestStatus = "not-started" <=> p.shows = "commercial"
    <3>1. /\ Planned(p, conversation.flowStep) /\ conversation.flowStep = "main-menu"
          /\ p.shows \in {"commercial", "follow-up"}
          /\ p.shows = "follow-up" <=> ActiveQuote
      <4>1. Planned(p, conversation.flowStep)
        BY <1>9, <2>8
      <4>2. p.kind = "reply" /\ ReplyShape(p)
        BY <1>5, <1>9, <2>8 DEF AnswerShape
      <4>3. p.shows \in {"commercial", "follow-up"}
        BY <2>8, <4>2 DEF ReplyShape
      <4>4. conversation.flowStep = "main-menu" /\ (p.shows = "follow-up" <=> ActiveQuote)
        BY <2>8, <4>1, <4>2 DEF Planned
      <4>5. QED
        BY <4>1, <4>3, <4>4
    <3>2. /\ conversation.requestStatus # "cancelled"
          /\ conversation.requestStatus # "not-started" => quote.open
          /\ conversation.requestStatus # "collecting-information"
      BY <2>1, <3>1 DEF FlowInv, MenuInv
    <3>3. conversation.requestStatus \in Requests
      BY DEF Snapshot
    <3>4. QED
      BY <3>1, <3>2, <3>3 DEF Requests, FollowUpRequests, ActiveQuote
  <2>9. /\ conversation.requestStatus # "cancelled"
        /\ conversation.requestStatus # "not-started" => quote.open
        /\ conversation.requestStatus = "collecting-information" =>
             conversation.flowStep \in {"quote-data-collection", "human-service"}
    BY <2>1 DEF FlowInv, MenuInv
  <2>10. Working' => p.kind \in {"reply", "ai"}
    BY <1>5
  <2>11. QED
    BY <1>4, <2>3, <2>4, <2>6, <2>7, <2>8, <2>9, <2>10 DEF MenuInv
<1>18. QED
  BY <1>6, <1>7, <1>8, <1>10, <1>15, <1>16, <1>17 DEF FlowInv
-------------------------------------------------------------------------------
(* The message is delivered.                                               *)

\* What is shown calls a person exactly when the person is called afterwards.
LEMMA HandoffShown ==
    ASSUME FlowInv, Working
    PROVE  /\ Shown \in Screens
           /\ Shown = "handoff" <=> AfterName = "forward"
           /\ work.plan.kind = "ai" => /\ Shown \in {"summary", "handoff", "question", "notice"}
                                       /\ Shown = "summary" <=> AfterName = "present-quote-summary"
<1>1. CASE work.plan.kind = "reply"
  BY <1>1, FlowTypes DEF FlowInv, WorkInv, PlanShape, ReplyShape, Shown, AfterName, Screens
<1>2. CASE work.plan.kind = "ai"
  BY <1>2 DEF Shown, AfterName, AnswerShows, AnswerAfter, Screens
<1>3. QED
  BY <1>1, <1>2 DEF Working

\* The message is shown.
LEMMA DeliverKeeps ==
    ASSUME FlowInv, Deliver
    PROVE  FlowInv'
<1> USE FlowTypes
<1>1. /\ work.stage = "created"
      /\ work' = [work EXCEPT !.stage = "sent", !.done = @ \cup {"delivery"}]
      /\ UNCHANGED <<conversation, quote, inbox, spent>>
  BY DEF Deliver
<1>2. /\ work' \in Work /\ work'.stage = "sent" /\ work'.plan = work.plan
      /\ work'.asked = work.asked /\ work'.answer = work.answer
      /\ work'.done = work.done \cup {"delivery"}
      /\ work'.stale = work.stale /\ work'.batch = work.batch
  BY <1>1 DEF Work, Stages
<1>3. Working /\ Moved /\ "message" \in work.done /\ work.plan # NoPlan /\ inbox # <<>>
  BY <1>1, NamedWorks, UnderWay DEF FlowInv, WorkInv, StageInv
<1>4. /\ Working' = Working /\ Moved' = Moved /\ Delivered' /\ Oldest' = Oldest
      /\ AfterName' = AfterName /\ Shown' = Shown /\ (Handed' <=> Handed)
      /\ AfterName \in work'.done <=> AfterName \in work.done
  <2>1. "delivery" \notin SystemTransitions \cup {"none"}
    BY DEF SystemTransitions
  <2>2. QED
    BY <1>1, <1>2, <2>1, NamesOfWork
    DEF Working, Moved, Delivered, Oldest, AfterName, AnswerAfter, Shown, AnswerShows, Handed
<1>5. CASE Delivered
  <2>1. UNCHANGED <<screen, marks>>
    BY <1>5 DEF Deliver, Delivered
  <2>2. work'.done = work.done
    BY <1>2, <1>5 DEF Delivered
  <2>3. QuietStep
    BY <1>1, <1>2, <2>1, <2>2 DEF QuietStep
  <2>4. DoneInv'
    BY <1>2, <2>2, <2>3, SameRecords
  <2>5. StageInv'
    BY <1>2, <1>3, <1>4, <2>2 DEF StageInv
  <2>6. QED
    BY <1>1, <1>3, <2>3, <2>4, <2>5, QuietInv
<1>6. CASE ~Delivered
  <2>1. screen' = Expected /\ Expected' = Expected
    BY <1>4, <1>6 DEF Deliver, Expected, Delivered
  <2>2. /\ marks' \in Marks /\ marks'.contact = marks.contact
        /\ marks'.attended = marks.attended
        /\ marks'.followUp <=> marks.followUp \/ Shown = "follow-up"
    <3>1. CASE Shown = "notice"
      BY <3>1 DEF Deliver, Marks
    <3>2. CASE Shown # "notice"
      <4>1. marks' = [marks EXCEPT
                 !.main = @ \/ (/\ Shown = "main"
                                /\ \/ work.plan.before = "return-to-main-menu"
                                   \/ work.plan.after = "present-main-menu"),
                 !.followUp = @ \/ Shown = "follow-up"]
        BY <1>6, <3>2 DEF Deliver, Delivered
      <4>2. QED
        BY <4>1 DEF Marks
    <3>3. QED
      BY <3>1, <3>2
  <2>3. Shown \in Screens /\ screen' \in Screens
    BY <1>3, <2>1, HandoffShown DEF Expected
  <2>4. TypeOK' /\ CountInv'
    BY <1>1, <1>2, <2>2, <2>3 DEF FlowInv, TypeOK, CountInv
  <2>5. StageInv'
    BY <1>2, <1>3, <1>4 DEF StageInv
  <2>6. DoneInv'
    <3>1. work'.done \cap SystemTransitions = work.done \cap SystemTransitions
      BY <1>2 DEF SystemTransitions
    <3>2. /\ "correct-quote" \in work'.done <=> "correct-quote" \in work.done
          /\ "patch" \in work'.done <=> "patch" \in work.done
          /\ "message" \in work'.done
      BY <1>2, <1>3
    <3>3. Shown # "notice" => screen' = Shown
      BY <1>6, <2>1 DEF Expected
    <3>4. QED
      BY <1>2, <1>3, <1>4, <3>1, <3>2, <3>3 DEF FlowInv, WorkInv, DoneInv
  <2>7. WorkInv'
    BY <1>1, <1>2, <2>5, <2>6, <1>3
    DEF FlowInv, WorkInv, PlanShape, ReplyShape, AnswerShape
  <2>8. BotInv' /\ StepInv'
    BY <1>1, <1>2, <1>4, <2>2 DEF FlowInv, BotInv, StepInv
  <2>9. ~Handing
    BY <1>6 DEF Handing
  <2>10. SummaryInv'
    <3>1. SUFFICES ASSUME InSummaryStep'
                   PROVE  /\ \/ screen' = "summary"
                             \/ screen' = "main" /\ spent'.hands > 0
                             \/ screen' = "handoff" /\ (spent'.lost > 0 \/ Handing')
                          /\ "correct-quote" \notin work'.done /\ ~Handed'
      BY <1>1, <1>4 DEF FlowInv, SummaryInv, InSummaryStep
    <3>2. InSummaryStep /\ SummaryPlan /\ "correct-quote" \notin work.done /\ ~Handed
      BY <1>1, <1>3, <1>6, <3>1 DEF FlowInv, SummaryInv, InSummaryStep
    <3>3. "correct-quote" \notin work'.done /\ ~Handed'
      BY <1>2, <1>4, <3>2
    <3>4. CASE Shown = "notice"
      BY <1>1, <2>1, <2>9, <3>2, <3>3, <3>4 DEF FlowInv, SummaryInv, Expected
    <3>5. CASE Shown # "notice" /\ work.plan.kind = "reply"
      <4>1. Shown = "main" /\ spent.hands > 0
        BY <3>2, <3>5 DEF SummaryPlan, Shown
      <4>2. QED
        BY <1>1, <1>6, <2>1, <3>3, <4>1 DEF Expected
    <3>6. CASE Shown # "notice" /\ work.plan.kind = "ai"
      <4>1. work.plan.mode = "correction" /\ work.answer.verdict # "correction-requested"
        BY <1>3, <3>2, <3>6 DEF SummaryPlan, FlowInv, WorkInv, DoneInv
      <4>2. Shown \in {"summary", "handoff"}
        BY <3>6, <4>1 DEF Shown, AnswerShows
      <4>3. Shown = "handoff" => Handing'
        BY <1>3, <1>4, <3>2, HandoffShown DEF Handing
      <4>4. QED
        BY <1>6, <2>1, <3>3, <4>2, <4>3 DEF Expected
    <3>7. QED
      BY <1>3, <3>4, <3>5, <3>6 DEF Working
  <2>11. AloneInv'
    <3>1. SUFFICES ASSUME spent.hands = 0 PROVE AloneInv'
      BY <1>1 DEF AloneInv
    <3>2. screen' = "handoff" => \/ spent.lost > 0 \/ Handing'
                                 \/ conversation.conversationState = "sent-to-human"
      <4>1. CASE Shown = "notice"
        BY <2>1, <2>9, <3>1, <4>1 DEF FlowInv, AloneInv, Expected
      <4>2. CASE Shown # "notice"
        <5>1. screen' = "handoff" => AfterName = "forward"
          BY <1>3, <1>6, <2>1, <4>2, HandoffShown DEF Expected
        <5>2. Handed => conversation.conversationState = "sent-to-human"
          BY <3>1 DEF FlowInv, AloneInv
        <5>3. QED
          BY <1>3, <1>4, <5>1, <5>2 DEF Handing
      <4>3. QED
        BY <4>1, <4>2
    <3>3. spent.messages # 0
      <4>1. Len(inbox) > 0 /\ spent.lost \in Nat /\ spent.messages \in Nat
        BY <1>3
      <4>2. QED
        BY <4>1
    <3>4. QED
      BY <1>1, <1>2, <1>3, <1>4, <2>2, <3>1, <3>2, <3>3 DEF FlowInv, AloneInv
  <2>12. MenuInv'
    <3>1. SUFFICES ASSUME spent.hands = 0, spent.lost = 0 PROVE MenuInv'
      BY <1>1 DEF MenuInv
    <3>2. ASSUME work.plan.kind = "reply", ~Handed, work.plan.after # "forward"
          PROVE  Settled(Expected, FALSE)'
      <4>1. Settled(Expected, FALSE)
        BY <1>3, <3>1, <3>2 DEF FlowInv, MenuInv
      <4>2. Shown = "follow-up" => Expected = "follow-up"
        BY <1>6 DEF Expected
      <4>3. QED
        BY <1>1, <2>1, <2>2, <4>1, <4>2 DEF Settled
    <3>3. ASSUME work.plan.kind # "reply", ~Handed
          PROVE  /\ conversation.flowStep \notin {"main-menu", "commercial-menu"}
                 /\ conversation.flowStep = "commercial-follow-up-menu" => ~marks'.followUp
      <4>1. work.plan.kind = "ai" /\ Shown # "follow-up"
        BY <1>3, <3>3, HandoffShown DEF Working
      <4>2. QED
        BY <1>3, <2>2, <3>1, <3>3, <4>1 DEF FlowInv, MenuInv
    <3>4. QED
      BY <1>1, <1>2, <1>3, <1>4, <3>1, <3>2, <3>3 DEF FlowInv, MenuInv
  <2>13. QED
    BY <2>4, <2>7, <2>8, <2>10, <2>11, <2>12 DEF FlowInv
<1>7. QED
  BY <1>5, <1>6
-------------------------------------------------------------------------------
(* A transition is accepted.                                               *)

\* What an accepted transition makes of the state.
Accepted(name, stage) ==
    /\ conversation.flowStep \in Steps /\ Permitted(conversation, name)
    /\ name \in {"present-quote-summary", "confirm-quote"} => quote.open
    /\ name = "correct-quote" => quote.open
    /\ ~work.stale
    /\ \E target \in Departments : conversation' = Resolved(conversation, name, target)
    /\ marks' \in Marks
    /\ marks'.attended <=> conversation'.conversationState = "human-active"
    /\ marks'.contact <=> \/ name = "start-department-contact"
                          \/ marks.contact /\ name \notin ClearsContact
    /\ marks'.followUp => marks.followUp /\ name # "confirm-quote"
    /\ name = "select-commercial" /\ marks'.followUp =>
          conversation'.flowStep # "commercial-follow-up-menu"
    /\ quote' = QuoteAfter(name)
    /\ work' \in Work /\ work'.stage = stage /\ work'.plan = work.plan
    /\ work'.asked = work.asked /\ work'.answer = work.answer
    /\ work'.done = work.done \cup {name} /\ work'.stale = work.stale
    /\ work'.batch = work.batch
    /\ UNCHANGED <<inbox, spent, screen>>

\* The marks a transition leaves.
LEMMA MarksAfterFields ==
    ASSUME marks \in Marks, NEW name, NEW to
    PROVE  /\ MarksAfter(name, to) \in Marks
           /\ MarksAfter(name, to).attended = (to.conversationState = "human-active")
           /\ MarksAfter(name, to).contact =
                 IF name = "start-department-contact" THEN TRUE
                 ELSE marks.contact /\ name \notin ClearsContact
           /\ MarksAfter(name, to).followUp =
                 /\ marks.followUp
                 /\ name \notin ClosingTransitions \cup {"confirm-quote"}
                 /\ ~(/\ name \in {"return-to-bot", "select-commercial"}
                      /\ to.flowStep = "commercial-follow-up-menu")
<1>1. MarksAfter(name, to).attended = (to.conversationState = "human-active")
  BY DEF MarksAfter, Marks
<1>2. MarksAfter(name, to).contact =
         IF name = "start-department-contact" THEN TRUE
         ELSE marks.contact /\ name \notin ClearsContact
  BY DEF MarksAfter, Marks
<1>3. MarksAfter(name, to).followUp =
         /\ marks.followUp
         /\ name \notin ClosingTransitions \cup {"confirm-quote"}
         /\ ~(/\ name \in {"return-to-bot", "select-commercial"}
              /\ to.flowStep = "commercial-follow-up-menu")
  BY DEF MarksAfter, Marks
<1>4. MarksAfter(name, to) \in Marks
  <2> DEFINE contact == IF name = "start-department-contact" THEN TRUE
                        ELSE marks.contact /\ name \notin ClearsContact
             followUp == /\ marks.followUp
                         /\ name \notin ClosingTransitions \cup {"confirm-quote"}
                         /\ ~(/\ name \in {"return-to-bot", "select-commercial"}
                              /\ to.flowStep = "commercial-follow-up-menu")
             main == marks.main /\ name \notin ClosingTransitions
             contextual == IF \/ name = "confirm-quote"
                              \/ name = "return-to-bot"
                                 /\ to.flowStep = "commercial-follow-up-menu"
                           THEN TRUE ELSE marks.contextual /\ name \notin ClosingTransitions
             attended == to.conversationState = "human-active"
  <2>1. MarksAfter(name, to) =
           [marks EXCEPT !.contact = contact, !.followUp = followUp, !.main = main,
                         !.contextual = contextual, !.attended = attended]
    BY DEF MarksAfter
  <2>2. /\ contact \in BOOLEAN /\ followUp \in BOOLEAN /\ main \in BOOLEAN
        /\ contextual \in BOOLEAN /\ attended \in BOOLEAN
    BY DEF Marks
  <2> HIDE DEF contact, followUp, main, contextual, attended
  <2> DEFINE m1 == [marks EXCEPT !.contact = contact]
             m2 == [m1 EXCEPT !.followUp = followUp]
             m3 == [m2 EXCEPT !.main = main]
             m4 == [m3 EXCEPT !.contextual = contextual]
             m5 == [m4 EXCEPT !.attended = attended]
  <2>3. MarksAfter(name, to) = m5
    BY <2>1
  <2>4. m1 \in Marks
    BY <2>2 DEF Marks
  <2> HIDE DEF m1
  <2>5. m2 \in Marks
    BY <2>2, <2>4 DEF Marks
  <2> HIDE DEF m2
  <2>6. m3 \in Marks
    BY <2>2, <2>5 DEF Marks
  <2> HIDE DEF m3
  <2>7. m4 \in Marks
    BY <2>2, <2>6 DEF Marks
  <2> HIDE DEF m4
  <2>8. m5 \in Marks
    BY <2>2, <2>7 DEF Marks
  <2>9. QED
    BY <2>3, <2>8
<1>5. QED
  BY <1>1, <1>2, <1>3, <1>4

\* A transition that is accepted is done and recorded.
LEMMA AcceptedStep ==
    ASSUME FlowInv, NEW name \in SystemTransitions, NEW stage \in Stages,
           name \notin work.done, SameVersion, Accepts(name),
           Transition(name, [work EXCEPT !.stage = stage])
    PROVE  Accepted(name, stage)
<1> USE FlowTypes
<1> DEFINE target == IF name = "forward" THEN "commercial" ELSE conversation.department
           to == Resolved(conversation, name, target)
<1>1. /\ conversation' = to /\ marks' = MarksAfter(name, to) /\ quote' = QuoteAfter(name)
      /\ work' = [[work EXCEPT !.stage = stage] EXCEPT !.done = @ \cup {name}]
      /\ UNCHANGED <<inbox, spent, screen>>
  BY DEF Transition
<1>2. target \in Departments
  BY DepartmentAssumption DEF Snapshot
<1> HIDE DEF target
<1> HIDE DEF to
<1>3. /\ marks' \in Marks
      /\ marks'.attended = (to.conversationState = "human-active")
      /\ marks'.contact = IF name = "start-department-contact" THEN TRUE
                          ELSE marks.contact /\ name \notin ClearsContact
      /\ marks'.followUp = /\ marks.followUp
                           /\ name \notin ClosingTransitions \cup {"confirm-quote"}
                           /\ ~(/\ name \in {"return-to-bot", "select-commercial"}
                                /\ to.flowStep = "commercial-follow-up-menu")
  <2>1. marks' = MarksAfter(name, to)
    BY <1>1
  <2>2. marks'.attended = (to.conversationState = "human-active")
    BY <2>1 DEF MarksAfter, Marks
  <2>3. marks'.contact = IF name = "start-department-contact" THEN TRUE
                         ELSE marks.contact /\ name \notin ClearsContact
    BY <2>1 DEF MarksAfter, Marks
  <2>4. marks'.followUp = /\ marks.followUp
                          /\ name \notin ClosingTransitions \cup {"confirm-quote"}
                          /\ ~(/\ name \in {"return-to-bot", "select-commercial"}
                               /\ to.flowStep = "commercial-follow-up-menu")
    BY <2>1 DEF MarksAfter, Marks
  <2>5. MarksAfter(name, to) \in Marks
    BY MarksAfterFields
  <2>6. QED
    BY <2>1, <2>2, <2>3, <2>4, <2>5
<1>4. /\ work' \in Work /\ work'.stage = stage /\ work'.plan = work.plan
      /\ work'.asked = work.asked /\ work'.answer = work.answer
      /\ work'.done = work.done \cup {name} /\ work'.stale = work.stale
      /\ work'.batch = work.batch
  BY <1>1 DEF Work
<1>5. /\ Permitted(conversation, name) /\ ~work.stale
      /\ name \in {"present-quote-summary", "confirm-quote"} => quote.open
      /\ name = "correct-quote" => quote.open
  BY DEF SameVersion, Accepts
<1>6. conversation.flowStep \in Steps
  BY DEF Snapshot
<1>7. \E d \in Departments : conversation' = Resolved(conversation, name, d)
  BY <1>1, <1>2 DEF to
<1>8. /\ marks'.attended <=> conversation'.conversationState = "human-active"
      /\ marks'.contact <=> \/ name = "start-department-contact"
                            \/ marks.contact /\ name \notin ClearsContact
      /\ marks'.followUp => marks.followUp /\ name # "confirm-quote"
      /\ name = "select-commercial" /\ marks'.followUp =>
            conversation'.flowStep # "commercial-follow-up-menu"
  <2>1. conversation' = to
    BY <1>1
  <2>2. marks.contact \in BOOLEAN
    BY DEF Marks
  <2>3. QED
    BY <1>3, <2>1, <2>2
<1>9. QED
  BY <1>1, <1>3, <1>4, <1>5, <1>6, <1>7, <1>8 DEF Accepted

\* Types, and the fit of state, step and attendant.
LEMMA AcceptedFits ==
    ASSUME FlowInv, NEW name \in SystemTransitions, NEW stage \in Stages,
           Accepted(name, stage)
    PROVE  TypeOK' /\ CountInv' /\ Fits(conversation, marks.attended)'
<1> USE FlowTypes
<1>1. PICK target \in Departments : conversation' = Resolved(conversation, name, target)
  BY DEF Accepted
<1>2. /\ marks.attended \in BOOLEAN /\ Fits(conversation, marks.attended)
      /\ name \in TransitionNames /\ Permitted(conversation, name)
  BY DEF Marks, FlowInv, BotInv, TransitionNames, Accepted
<1>3. WellFormed(conversation')
  BY <1>1, <1>2, ResolvedFits
<1>4. marks'.attended \in BOOLEAN
      /\ (marks'.attended <=> conversation'.conversationState = "human-active")
  BY DEF Accepted, Marks
<1>5. quote' \in Quote
  BY DEF Accepted, QuoteAfter, Quote, NoQuote
<1>6. TypeOK' /\ CountInv'
  BY <1>3, <1>5 DEF Accepted, FlowInv, TypeOK, CountInv, WellFormed
<1>7. Fits(conversation, marks.attended)'
  BY <1>3, <1>4 DEF WellFormed, Fits
<1>8. QED
  BY <1>6, <1>7

\* Before the first transition of a plan nothing was done.
LEMMA NothingDone ==
    ASSUME FlowInv, Working, ~Moved
    PROVE  work.done = {} /\ work.asked = "nothing" /\ AfterName \notin work.done
<1>1. /\ work.asked = "nothing" /\ work.answer = NoAnswer
      /\ "patch" \notin work.done /\ "message" \notin work.done /\ ~Delivered
      /\ work.plan.before \notin work.done
  BY DEF FlowInv, WorkInv, DoneInv, Moved
<1>2. "correct-quote" \notin work.done
  BY <1>1 DEF FlowInv, WorkInv, DoneInv, NoAnswer
<1>3. AfterName \notin work.done
  BY <1>1 DEF FlowInv, WorkInv, DoneInv
<1>4. work.done \cap SystemTransitions = {}
  BY <1>1, <1>2, <1>3 DEF FlowInv, WorkInv, DoneInv
<1>5. QED
  BY <1>1, <1>3, <1>4, NamesOfWork DEF Delivered

\* The transition before the message.
LEMMA PreparedKeeps ==
    ASSUME FlowInv, work.stage = "planned", work.plan.before # "none",
           work.plan.before \notin work.done, Accepted(work.plan.before, "prepared")
    PROVE  FlowInv'
<1> USE FlowTypes
<1> DEFINE name == work.plan.before
<1>1. name \in SystemTransitions /\ Working /\ ~Moved /\ work.plan # NoPlan /\ inbox # <<>>
  BY NamesOfWork, NamedWorks, UnderWay DEF Moved
<1>2. /\ work.done = {} /\ work.asked = "nothing" /\ ~Delivered /\ ~Handed /\ ~Handing
      /\ AfterName \notin work.done
  BY <1>1, NothingDone DEF Delivered, Handed, Handing
<1>3. /\ work.plan.kind = "reply" =>
           /\ ReplyShape(work.plan) /\ work.plan.after = "none"
           /\ name \in {"select-commercial", "start-department-contact", "return-to-main-menu"}
      /\ work.plan.kind = "ai" => name = "start-quote"
  BY <1>1 DEF FlowInv, WorkInv, PlanShape, ReplyShape, AnswerShape, BeforeNames
<1>4. /\ conversation.flowStep \in
            CASE name = "select-commercial" -> {"main-menu"}
              [] name = "start-quote" -> {"commercial-menu"}
              [] name = "start-department-contact" -> {"main-menu", "commercial-menu"}
              [] OTHER -> {"commercial-menu", "commercial-follow-up-menu"}
      /\ ~marks.contact
  BY <1>1 DEF FlowInv, StepInv, Accepted
<1>5. Bot(conversation) /\ ~marks.attended
  BY <1>1, <1>2 DEF FlowInv, BotInv, Accepted
<1>6. PICK target \in Departments : conversation' = Resolved(conversation, name, target)
  BY DEF Accepted
<1>7. /\ name = "select-commercial" =>
           Becomes(conversation', "bot-active",
                   IF conversation.requestStatus = "not-started" THEN "commercial-menu"
                   ELSE "commercial-follow-up-menu", "none", conversation.requestStatus)
      /\ name = "start-department-contact" =>
           Becomes(conversation', "bot-active", "main-menu", "none", conversation.requestStatus)
      /\ name = "return-to-main-menu" =>
           Becomes(conversation', "bot-active", "main-menu", "none", conversation.requestStatus)
      /\ name = "start-quote" =>
           Becomes(conversation', "bot-active", "quote-data-collection", "none",
                   "collecting-information")
  BY <1>6, SystemFields
<1>8. /\ work'.stage = "prepared" /\ work'.plan = work.plan /\ work'.asked = "nothing"
      /\ work'.answer = work.answer /\ work'.done = {name} /\ ~work'.stale
      /\ work'.batch = work.batch /\ UNCHANGED <<inbox, spent, screen>>
      /\ marks'.contact <=> name = "start-department-contact"
      /\ marks'.attended <=> conversation'.conversationState = "human-active"
      /\ name = "select-commercial" /\ marks'.followUp =>
            conversation'.flowStep # "commercial-follow-up-menu"
      /\ quote' = QuoteAfter(name)
  BY <1>2, <1>4 DEF Accepted
<1>9. name \in {"select-commercial", "start-department-contact", "return-to-main-menu",
                "start-quote"}
  BY <1>1, <1>3 DEF Working
<1> HIDE DEF name
<1>10. /\ Working' /\ Moved' /\ ~Delivered' /\ ~Handed' /\ ~Handing'
       /\ AfterName' = AfterName /\ AfterName' \notin work'.done /\ Shown' = Shown
       /\ Oldest' = Oldest
  <2>1. Working' /\ Moved' /\ AfterName' = AfterName /\ Shown' = Shown /\ Oldest' = Oldest
    BY <1>1, <1>8
    DEF Working, Moved, AfterName, AnswerAfter, Shown, AnswerShows, Oldest, name
  <2>2. ~Delivered' /\ ~Handed'
    BY <1>8, <1>9 DEF Delivered, Handed
  <2>3. AfterName = "none"
    <3>1. CASE work.plan.kind = "reply"
      BY <1>3, <3>1 DEF AfterName
    <3>2. CASE work.plan.kind = "ai"
      <4>1. work.answer = NoAnswer
        BY <1>2 DEF FlowInv, WorkInv, DoneInv
      <4>2. QED
        BY <3>2, <4>1 DEF AfterName, AnswerAfter, NoAnswer
    <3>3. QED
      BY <1>1, <3>1, <3>2 DEF Working
  <2>4. QED
    BY <1>8, <1>9, <2>1, <2>2, <2>3 DEF Handing
<1>11. TypeOK' /\ CountInv' /\ Fits(conversation, marks.attended)'
  BY <1>1, AcceptedFits DEF Stages, name
<1>12. WorkInv'
  <2>1. StageInv'
    BY <1>8, <1>10 DEF StageInv
  <2>2. DoneInv'
    BY <1>2, <1>8, <1>9, <1>10 DEF DoneInv, FlowInv, WorkInv, name
  <2>3. QED
    BY <1>1, <1>8, <2>1, <2>2 DEF FlowInv, WorkInv, PlanShape, ReplyShape, AnswerShape
<1>13. /\ Bot(conversation') /\ ~marks'.attended /\ Open(conversation')
       /\ conversation'.flowStep \in {"commercial-menu", "commercial-follow-up-menu",
                                      "main-menu", "quote-data-collection"}
       /\ conversation'.resumeFlowStep = "none"
  BY <1>7, <1>8, <1>9 DEF Becomes, Bot, Open
<1>14. BotInv'
  BY <1>11, <1>13 DEF BotInv
<1>15. StepInv'
  <2>1. marks'.contact => work'.plan.kind = "reply" /\ work'.plan.after = "none"
    BY <1>1, <1>3, <1>8 DEF Working
  <2>2. work'.plan.after # "return-to-main-menu"
    <3>1. work.plan.after = "none"
      BY <1>1, <1>3 DEF Working, FlowInv, WorkInv, PlanShape, AnswerShape
    <3>2. QED
      BY <1>8, <3>1
  <2>3. QED
    BY <1>10, <2>1, <2>2 DEF StepInv
<1>16. SummaryInv'
  BY <1>13 DEF SummaryInv, InSummaryStep
<1>17. spent.messages # 0
  <2>1. Len(inbox) > 0 /\ spent.lost \in Nat /\ spent.messages \in Nat
    BY <1>1
  <2>2. QED
    BY <2>1
<1>18. AloneInv'
  <2>1. SUFFICES ASSUME spent.hands = 0 PROVE AloneInv'
    BY <1>8 DEF AloneInv
  <2>2. marks'.contact => conversation'.flowStep = "main-menu"
    BY <1>7, <1>8 DEF Becomes
  <2>3. \A i \in 1 .. Len(inbox) : ~inbox[i].opens
    <3>1. After("main", "present-main-menu").before = "none"
      BY DEF After, Shows, NoPlan
    <3>2. QED
      BY <1>1, <2>1, <3>1 DEF FlowInv, AloneInv
  <2>4. screen = "handoff" => spent.lost > 0
    BY <1>2, <1>5, <2>1 DEF FlowInv, AloneInv, Bot
  <2>5. QED
    BY <1>8, <1>10, <1>13, <1>17, <2>1, <2>2, <2>3, <2>4 DEF AloneInv
<1>19. MenuInv'
  <2>1. SUFFICES ASSUME spent.hands = 0, spent.lost = 0 PROVE MenuInv'
    BY <1>8 DEF MenuInv
  <2>2. /\ conversation.requestStatus # "cancelled"
        /\ conversation.requestStatus # "not-started" => quote.open
        /\ conversation.requestStatus # "collecting-information"
        /\ name = "select-commercial" =>
             (conversation.requestStatus = "not-started" <=> work.plan.shows = "commercial")
    BY <1>1, <1>4, <1>9, <2>1 DEF FlowInv, MenuInv, Accepted, name
  <2>3. /\ conversation'.requestStatus # "cancelled"
        /\ conversation'.requestStatus # "not-started" => quote'.open
        /\ conversation'.requestStatus = "collecting-information" =>
             conversation'.flowStep = "quote-data-collection"
    <3>1. CASE name = "start-quote"
      BY <1>7, <1>8, <3>1 DEF Becomes, QuoteAfter, NoQuote
    <3>2. CASE name # "start-quote"
      <4>1. conversation'.requestStatus = conversation.requestStatus /\ quote' = quote
        BY <1>7, <1>8, <1>9, <3>2 DEF Becomes, QuoteAfter
      <4>2. QED
        BY <2>2, <4>1
    <3>3. QED
      BY <3>1, <3>2
  <2>4. ASSUME work.plan.kind = "reply" PROVE Settled(Expected, FALSE)'
    <3>1. Expected' = work.plan.shows /\ ReplyShape(work.plan)
      BY <1>3, <1>8, <1>9, <1>10, <2>4 DEF Expected, Shown, ReplyShape, name
    <3>2. CASE name = "select-commercial"
      <4>1. work.plan.shows \in {"commercial", "follow-up"}
        BY <3>1, <3>2 DEF ReplyShape, name
      <4>2. ~marks'.contact
        BY <1>8, <3>2
      <4>3. QED
        BY <1>7, <1>8, <2>2, <3>1, <3>2, <4>1, <4>2 DEF Becomes, Settled
    <3>3. CASE name = "start-department-contact"
      BY <1>7, <3>1, <3>3 DEF Becomes, Settled, ReplyShape, name
    <3>4. CASE name = "return-to-main-menu"
      BY <1>7, <1>8, <3>1, <3>4 DEF Becomes, Settled, ReplyShape, name
    <3>5. QED
      BY <1>3, <2>4, <3>2, <3>3, <3>4 DEF name
  <2>5. work.plan.kind = "ai" => conversation'.flowStep = "quote-data-collection"
    BY <1>3, <1>7 DEF Becomes, name
  <2>6. QED
    BY <1>8, <1>10, <2>1, <2>3, <2>4, <2>5 DEF MenuInv, Working
<1>20. QED
  BY <1>11, <1>12, <1>14, <1>15, <1>16, <1>18, <1>19 DEF FlowInv

\* The request is corrected.
LEMMA CorrectedKeeps ==
    ASSUME FlowInv, work.stage = "decided", work.answer.verdict = "correction-requested",
           Accepted("correct-quote", "corrected")
    PROVE  FlowInv'
<1> USE FlowTypes
<1>1. /\ Working /\ Moved /\ work.plan.kind = "ai" /\ work.asked # "nothing"
      /\ work.plan # NoPlan /\ inbox # <<>> /\ ~marks.contact
  <2>1. Working /\ Moved /\ work.plan.kind = "ai" /\ work.asked # "nothing"
    BY NamedWorks DEF FlowInv, WorkInv, StageInv
  <2>2. work.plan # NoPlan /\ inbox # <<>>
    BY UnderWay
  <2>3. QED
    BY <2>1, <2>2 DEF FlowInv, StepInv
<1>2. AfterName = "none"
  BY <1>1 DEF AfterName, AnswerAfter
<1>3. InSummary(conversation) /\ quote.open
  BY DEF Accepted, Permitted
<1>4. PICK target \in Departments : conversation' = Resolved(conversation, "correct-quote", target)
  BY DEF Accepted
<1>5. Becomes(conversation', "bot-active", "quote-data-collection", "none",
              "collecting-information")
  BY <1>4, SystemFields
<1>6. "correct-quote" \in SystemTransitions /\ "corrected" \in Stages
  BY DEF SystemTransitions, Stages
<1>7. TypeOK' /\ CountInv' /\ Fits(conversation, marks.attended)'
  BY <1>6, AcceptedFits
<1>8. /\ work'.stage = "corrected" /\ work'.plan = work.plan /\ work'.asked = work.asked
      /\ work'.answer = work.answer /\ work'.done = work.done \cup {"correct-quote"}
      /\ work'.stale = work.stale /\ work'.batch = work.batch
      /\ UNCHANGED <<inbox, spent, screen>>
      /\ ~marks'.contact /\ (marks'.attended <=> conversation'.conversationState = "human-active")
  BY <1>1 DEF Accepted
<1>9. quote' = quote
  BY DEF Accepted, QuoteAfter
<1>10. /\ Working' /\ Moved' /\ Delivered' = Delivered /\ Oldest' = Oldest
       /\ AfterName' = AfterName /\ Shown' = Shown /\ (Handed' <=> Handed)
       /\ AfterName' \notin work'.done /\ ~Handing'
  <2>1. Working' /\ AfterName' = AfterName /\ Shown' = Shown /\ Oldest' = Oldest
    BY <1>1, <1>8 DEF Working, AfterName, AnswerAfter, Shown, AnswerShows, Oldest
  <2>2. Moved' /\ Delivered' = Delivered /\ (Handed' <=> Handed)
    BY <1>1, <1>8 DEF Moved, Delivered, Handed
  <2>3. AfterName' \notin work'.done
    BY <1>2, <1>8, <2>1, NamesOfWork
  <2>4. QED
    BY <1>2, <2>1, <2>2, <2>3 DEF Handing
<1>11. WorkInv'
  <2>1. StageInv'
    BY <1>1, <1>8, <1>10 DEF StageInv
  <2>2. /\ "patch" \in work'.done <=> "patch" \in work.done
        /\ "message" \in work'.done <=> "message" \in work.done
        /\ work'.done # {}
    BY <1>8
  <2>3. work'.done \cap SystemTransitions \subseteq
          {work'.plan.before, "correct-quote", AfterName'}
    BY <1>8, <1>10 DEF FlowInv, WorkInv, DoneInv
  <2>4. DoneInv'
    BY <1>1, <1>8, <1>10, <2>2, <2>3 DEF DoneInv, FlowInv, WorkInv
  <2>5. QED
    BY <1>1, <1>8, <2>1, <2>4 DEF FlowInv, WorkInv, PlanShape, ReplyShape, AnswerShape
<1>12. BotInv'
  BY <1>5, <1>7, <1>8 DEF BotInv, Becomes, Bot
<1>13. StepInv'
  BY <1>1, <1>8, <1>10 DEF StepInv, FlowInv, WorkInv, PlanShape, AnswerShape
<1>14. SummaryInv'
  BY <1>5 DEF SummaryInv, InSummaryStep, Becomes
<1>15. spent.messages # 0
  <2>1. Len(inbox) > 0 /\ spent.lost \in Nat /\ spent.messages \in Nat
    BY <1>1
  <2>2. QED
    BY <2>1
<1>16. AloneInv'
  <2>1. SUFFICES ASSUME spent.hands = 0 PROVE AloneInv'
    BY <1>8 DEF AloneInv
  <2>2. \A i \in 1 .. Len(inbox) : ~inbox[i].opens
    <3>1. After("main", "present-main-menu").kind = "reply"
      BY DEF After, Shows, NoPlan
    <3>2. QED
      BY <1>1, <2>1, <3>1 DEF FlowInv, AloneInv
  <2>3. ~Handed /\ (screen = "handoff" => spent.lost > 0)
    BY <1>2, <1>3, <2>1 DEF FlowInv, AloneInv, InSummary, Handing
  <2>4. QED
    BY <1>5, <1>8, <1>10, <1>15, <2>1, <2>2, <2>3 DEF AloneInv, Becomes, Open
<1>17. MenuInv'
  BY <1>1, <1>3, <1>5, <1>8, <1>9, <1>10 DEF MenuInv, Becomes
<1>18. QED
  BY <1>7, <1>11, <1>12, <1>13, <1>14, <1>16, <1>17 DEF FlowInv

\* The transition after the message.
LEMMA FinishedKeeps ==
    ASSUME FlowInv, work.stage = "sent", AfterName # "none", AfterName \notin work.done,
           Accepted(AfterName, "done")
    PROVE  FlowInv'
<1> USE FlowTypes
<1>1. Working /\ Moved /\ Delivered /\ "message" \in work.done
      /\ work.plan # NoPlan /\ inbox # <<>>
  BY NamedWorks, UnderWay DEF FlowInv, WorkInv, StageInv
<1>2. AfterName \in SystemTransitions /\ "done" \in Stages
  BY NamesOfWork DEF Stages
<1> DEFINE name == AfterName
<1>3. /\ work.plan.kind = "reply" =>
           /\ ReplyShape(work.plan) /\ name = work.plan.after
           /\ name \in {"forward", "present-main-menu", "return-to-main-menu"}
      /\ work.plan.kind = "ai" =>
           /\ AnswerShape(work.plan) /\ ~marks.contact
           /\ name \in {"confirm-quote", "forward", "present-quote-summary"}
  BY <1>1, NamesOfWork
  DEF FlowInv, WorkInv, StepInv, PlanShape, ReplyShape, AfterNames, AfterName
<1>4. Bot(conversation) /\ ~marks.attended
  BY <1>1 DEF FlowInv, BotInv, Accepted
<1>5. PICK target \in Departments : conversation' = Resolved(conversation, name, target)
  BY DEF Accepted
<1>6. TypeOK' /\ CountInv' /\ Fits(conversation, marks.attended)'
  BY <1>2, AcceptedFits
<1>7. /\ Permitted(conversation, name)
      /\ work'.stage = "done" /\ work'.plan = work.plan /\ work'.asked = work.asked
      /\ work'.answer = work.answer /\ work'.done = work.done \cup {name}
      /\ work'.stale = work.stale /\ work'.batch = work.batch
      /\ UNCHANGED <<inbox, spent, screen>>
      /\ (marks'.attended <=> conversation'.conversationState = "human-active")
      /\ (marks'.contact <=> \/ name = "start-department-contact"
                             \/ marks.contact /\ name \notin ClearsContact)
      /\ marks'.followUp => marks.followUp /\ name # "confirm-quote"
      /\ quote' = QuoteAfter(name)
      /\ name \in {"present-quote-summary", "confirm-quote"} => quote.open
  BY DEF Accepted
<1>8. name \in {"forward", "present-main-menu", "return-to-main-menu", "confirm-quote",
                "present-quote-summary"}
  BY <1>1, <1>3 DEF Working
<1>9. /\ Shown # "notice" => screen = Shown
      /\ Shown = "handoff" <=> name = "forward"
      /\ work.plan.kind = "ai" => (Shown = "summary" <=> name = "present-quote-summary")
      /\ work.done \cap SystemTransitions \subseteq
            {work.plan.before, "correct-quote", name}
      /\ "correct-quote" \in work.done => work.answer.verdict = "correction-requested"
  BY <1>1, HandoffShown DEF FlowInv, WorkInv, DoneInv
<1>10. ~Handed
  <2>1. "forward" \in SystemTransitions /\ name \notin work.done
    BY DEF SystemTransitions
  <2>2. work.plan.before # "forward"
    BY <1>1, <1>3 DEF ReplyShape, AnswerShape, BeforeNames, Working
  <2>3. QED
    BY <1>9, <2>1, <2>2 DEF Handed
<1>11. /\ Working' /\ Moved' /\ Delivered' /\ Oldest' = Oldest
       /\ AfterName' = name /\ Shown' = Shown /\ AfterName' \in work'.done
       /\ Handed' <=> name = "forward"
       /\ ~Handing' /\ Expected' = screen
  <2>1. Working' /\ AfterName' = name /\ Shown' = Shown /\ Oldest' = Oldest
    BY <1>1, <1>7 DEF Working, AfterName, AnswerAfter, Shown, AnswerShows, Oldest
  <2>2. Moved' /\ Delivered' /\ AfterName' \in work'.done
    BY <1>1, <1>7, <2>1 DEF Moved, Delivered
  <2>3. Handed' <=> name = "forward"
    BY <1>7, <1>10 DEF Handed
  <2>4. ~Handing'
    BY <2>1, <2>3 DEF Handing
  <2>5. QED
    BY <1>7, <2>1, <2>2, <2>3, <2>4 DEF Expected
<1>12. ~marks'.contact
  BY <1>1, <1>3, <1>7, <1>8 DEF ClearsContact, Working
<1> HIDE DEF name
<1>13. /\ name = "present-main-menu" =>
            /\ Becomes(conversation', conversation.conversationState, conversation.flowStep,
                       "none", conversation.requestStatus)
            /\ conversation.flowStep = "main-menu"
       /\ name = "return-to-main-menu" =>
            Becomes(conversation', "bot-active", "main-menu", "none", conversation.requestStatus)
       /\ name = "confirm-quote" =>
            Becomes(conversation', "bot-active", "commercial-follow-up-menu", "none",
                    "under-review")
       /\ name = "present-quote-summary" =>
            Becomes(conversation', "waiting-for-customer", "quote-summary-confirmation",
                    "quote-summary-confirmation", "waiting-for-customer")
       /\ name = "forward" =>
            Becomes(conversation', "sent-to-human", "human-service",
                    BotFlowStep(conversation), conversation.requestStatus)
  <2>1. name = "present-main-menu" => conversation.flowStep = "main-menu"
    BY <1>7 DEF Permitted
  <2>2. QED
    BY <1>5, <2>1, SystemFields
<1>14. WorkInv'
  <2>1. StageInv'
    BY <1>1, <1>7, <1>11 DEF StageInv
  <2>2. /\ "patch" \in work'.done <=> "patch" \in work.done
        /\ "message" \in work'.done
        /\ "correct-quote" \in work'.done <=> "correct-quote" \in work.done
        /\ work'.done # {}
    BY <1>1, <1>7, <1>8
  <2>3. work'.done \cap SystemTransitions \subseteq
          {work'.plan.before, "correct-quote", AfterName'}
    BY <1>7, <1>9, <1>11
  <2>4. DoneInv'
    BY <1>1, <1>7, <1>11, <2>2, <2>3 DEF DoneInv, FlowInv, WorkInv
  <2>5. QED
    BY <1>1, <1>7, <2>1, <2>4 DEF FlowInv, WorkInv, PlanShape, ReplyShape, AnswerShape
<1>15. BotInv'
  BY <1>6, <1>11 DEF BotInv
<1>16. StepInv'
  BY <1>11, <1>12 DEF StepInv
<1>17. SummaryInv'
  <2>1. ASSUME conversation'.resumeFlowStep = "quote-summary-confirmation" \/ InSummaryStep'
        PROVE  name = "present-quote-summary"
    <3>1. name = "forward" => BotFlowStep(conversation) = "quote-summary-confirmation"
      BY <1>13, <2>1 DEF Becomes, InSummaryStep
    <3>2. name # "forward"
      <4>1. BotFlowStep(conversation) = "quote-summary-confirmation" =>
               conversation.requestStatus \in FollowUpRequests
        BY ResumedStep DEF FlowInv, SummaryInv, InSummaryStep
      <4>2. QED
        BY <3>1, <4>1, ResumedStep
    <3>3. QED
      BY <1>8, <1>13, <2>1, <3>2 DEF Becomes, InSummaryStep
  <2>2. CASE name = "present-quote-summary"
    <3>1. work.plan.kind = "ai" /\ work.answer.verdict = "ready-for-summary"
      BY <1>1, <1>3, <2>2 DEF Working, AfterName, AnswerAfter, name
    <3>2. screen = "summary" /\ "correct-quote" \notin work'.done
      BY <1>7, <1>9, <2>2, <3>1
    <3>3. conversation'.requestStatus \in FollowUpRequests
      BY <1>13, <2>2 DEF Becomes, FollowUpRequests
    <3>4. QED
      BY <1>7, <1>11, <2>2, <3>2, <3>3 DEF SummaryInv
  <2>3. QED
    BY <2>1, <2>2 DEF SummaryInv
<1>18. spent.messages # 0
  <2>1. Len(inbox) > 0 /\ spent.lost \in Nat /\ spent.messages \in Nat
    BY <1>1
  <2>2. QED
    BY <2>1
<1>19. AloneInv'
  <2>1. SUFFICES ASSUME spent.hands = 0 PROVE AloneInv'
    BY <1>7 DEF AloneInv
  <2>2. /\ ~marks'.attended /\ Open(conversation') /\ conversation'.flowStep # "quote-send-pending"
    BY <1>4, <1>7, <1>8, <1>13 DEF Becomes, Open, Bot
  <2>3. ~marks'.contact
    BY <1>12
  <2>4. name = "forward" => conversation'.conversationState = "sent-to-human"
    BY <1>13 DEF Becomes
  <2>5. ASSUME screen = "handoff", name # "forward" PROVE spent.lost > 0
    BY <1>4, <2>1, <2>5 DEF FlowInv, AloneInv, Bot, Handing, name
  <2>6. \A i \in 1 .. Len(inbox) : inbox[i].opens =>
             /\ i = 1 /\ inbox[i].allowed /\ ~inbox[i].human
             /\ work.plan = After("main", "present-main-menu")
    BY <1>1, <2>1 DEF FlowInv, AloneInv
  <2>7. QED
    BY <1>1, <1>7, <1>11, <1>18, <2>1, <2>2, <2>3, <2>4, <2>5, <2>6 DEF AloneInv
<1>20. MenuInv'
  <2>1. SUFFICES ASSUME spent.hands = 0, spent.lost = 0 PROVE MenuInv'
    BY <1>7 DEF MenuInv
  <2>2. /\ conversation.requestStatus # "cancelled"
        /\ conversation.requestStatus # "not-started" => quote.open
        /\ conversation.requestStatus = "collecting-information" =>
              conversation.flowStep \in {"quote-data-collection", "human-service"}
    BY <2>1 DEF FlowInv, MenuInv
  <2>3. name = "return-to-main-menu" => marks.contact /\ conversation.flowStep = "main-menu"
    <3>1. name = "return-to-main-menu" => work.plan.after = "return-to-main-menu"
      BY <1>1, <1>3 DEF Working, name
    <3>2. name = "return-to-main-menu" => marks.contact
      BY <1>1, <3>1 DEF FlowInv, StepInv, Accepted
    <3>3. QED
      BY <2>1, <3>2 DEF FlowInv, AloneInv
  <2>4. /\ conversation'.requestStatus # "cancelled"
        /\ conversation'.requestStatus # "not-started" => quote'.open
        /\ conversation'.requestStatus = "collecting-information" =>
              conversation'.flowStep \in {"quote-data-collection", "human-service"}
    <3>1. quote'.open = quote.open
      BY <1>7, <1>8 DEF QuoteAfter, Quote
    <3>2. CASE name \in {"confirm-quote", "present-quote-summary"}
      BY <1>7, <1>13, <3>1, <3>2 DEF Becomes
    <3>3. CASE name \in {"forward", "present-main-menu", "return-to-main-menu"}
      BY <1>13, <2>2, <2>3, <3>1, <3>3 DEF Becomes
    <3>4. QED
      BY <1>8, <3>2, <3>3
  <2>5. ASSUME work.plan.kind = "reply", name # "forward" PROVE Settled(screen, FALSE)'
    <3>1. CASE name = "present-main-menu"
      <4>1. Shown = "main"
        BY <1>3, <2>5, <3>1 DEF ReplyShape, Shown, name
      <4>2. QED
        BY <1>7, <1>9, <1>12, <1>13, <3>1, <4>1 DEF Becomes, Settled
    <3>2. CASE name = "return-to-main-menu"
      <4>1. work.plan.after # "forward" /\ Expected = screen
        BY <1>1, <1>3, <2>5, <3>2 DEF Expected, name
      <4>2. Settled(screen, FALSE)
        BY <1>1, <1>10, <2>1, <2>5, <4>1 DEF FlowInv, MenuInv
      <4>3. screen = "contact"
        BY <2>3, <3>2, <4>2 DEF Settled
      <4>4. QED
        BY <1>7, <1>12, <1>13, <3>2, <4>3 DEF Becomes, Settled
    <3>3. QED
      BY <1>3, <2>5, <3>1, <3>2 DEF name
  <2>6. ASSUME work.plan.kind # "reply", name # "forward"
        PROVE  /\ conversation'.flowStep \notin {"main-menu", "commercial-menu"}
               /\ conversation'.flowStep = "commercial-follow-up-menu" => ~marks'.followUp
    <3>1. name \in {"confirm-quote", "present-quote-summary"}
      BY <1>1, <1>3, <2>6 DEF Working, name
    <3>2. QED
      BY <1>7, <1>13, <3>1 DEF Becomes
  <2>7. QED
    BY <1>7, <1>11, <2>1, <2>4, <2>5, <2>6 DEF MenuInv, Settled
<1>21. QED
  BY <1>6, <1>14, <1>15, <1>16, <1>17, <1>19, <1>20 DEF FlowInv
-------------------------------------------------------------------------------
(* The customer writes.                                                    *)

\* What a message makes of the conversation: it goes on as it was, it is
\* opened again, or the message answers what it waited for.
Arrival ==
    \/ Open(conversation) /\ UNCHANGED <<conversation, marks, work>>
    \/ /\ ~Open(conversation) /\ conversation' = Reopened(conversation)
       /\ marks' = [m \in DOMAIN marks |-> FALSE] /\ work' = Overtaken
    \/ /\ conversation.conversationState = "waiting-for-customer"
       /\ conversation.flowStep = "quote-summary-confirmation"
       /\ conversation.requestStatus = "waiting-for-customer"
       /\ conversation' = Resolved(conversation, "resume-awaited-reply", conversation.department)
       /\ UNCHANGED marks /\ work' = Overtaken
    \/ /\ conversation.conversationState = "waiting-for-customer"
       /\ conversation.flowStep = "quote-send-pending"
       /\ conversation.requestStatus = "waiting-for-customer"
       /\ conversation' = Resolved(conversation, "proposal-response-received",
                                   conversation.department)
       /\ marks' = [marks EXCEPT !.followUp = FALSE, !.contextual = FALSE]
       /\ work' = Overtaken
    \/ /\ InFollowUp(conversation)
       /\ conversation.requestStatus \in {"under-review", "approved", "rejected"}
       /\ conversation' = Resolved(conversation, "resume-contextual-contact",
                                   conversation.department)
       /\ marks' = [marks EXCEPT !.followUp = FALSE, !.contextual = FALSE]
       /\ work' = Overtaken

\* A message of the customer is stored behind the others.
LEMMA ReceiveStep ==
    ASSUME FlowInv, NEW text \in Alphabet, Receive(text)
    PROVE  /\ Arrival /\ UNCHANGED <<quote, screen>>
           /\ spent.messages < MaxMessages /\ spent' = [spent EXCEPT !.messages = @ + 1]
           /\ \E event \in Event :
                /\ inbox' = Append(inbox, event)
                /\ event.opens <=> (~Open(conversation) \/ spent.messages = 0)
                /\ event.human <=>
                      \/ conversation'.conversationState \in {"human-active", "sent-to-human"}
                      \/ conversation'.flowStep = "human-service"
                /\ event.allowed <=> Bot(conversation') /\ ~event.human
<1> USE FlowTypes
<1> DEFINE reopens == ~Open(conversation)
           found   == IF reopens THEN Reopened(conversation) ELSE conversation
           cleared == IF reopens THEN [m \in DOMAIN marks |-> FALSE] ELSE marks
           names   == IF text = "media" THEN {}
                      ELSE ResumeNames(found, cleared.contextual)
           to(name) == IF name = "none" THEN found
                       ELSE Resolved(found, name, found.department)
           clears(name) == name \in {"resume-contextual-contact", "proposal-response-received"}
           human(name) == \/ to(name).conversationState \in {"human-active", "sent-to-human"}
                          \/ to(name).flowStep = "human-service"
           event(name) == [text |-> text, human |-> human(name),
                           allowed |-> Bot(to(name)) /\ ~human(name),
                           follows |-> name = "resume-contextual-contact",
                           opens |-> reopens \/ spent.messages = 0, saw |-> screen]
<1>1. PICK name \in IF names = {} THEN {"none"}
                    ELSE names \cup (IF "resume-contextual-contact" \in names THEN {"none"}
                                     ELSE {}) :
         /\ conversation' = to(name)
         /\ marks' = IF clears(name) THEN [cleared EXCEPT !.followUp = FALSE,
                                                          !.contextual = FALSE]
                     ELSE cleared
         /\ inbox' = Append(inbox, event(name))
         /\ work' = IF reopens \/ name # "none" THEN Overtaken ELSE work
  BY Zenon DEF Receive
<1>2. UNCHANGED <<quote, screen>> /\ spent.messages < MaxMessages
      /\ spent' = [spent EXCEPT !.messages = @ + 1]
  BY DEF Receive, Spend
<1>3. name = "none" \/ name \in ResumeNames(found, cleared.contextual)
  BY <1>1
<1>4. name = "none" \/ name \in {"resume-awaited-reply", "proposal-response-received",
                                 "resume-contextual-contact"}
  BY <1>3 DEF ResumeNames
<1>5. event(name) \in Event
  <2>1. text \in Kinds /\ screen \in Screens
    BY AutomationFlowAssumption DEF Kinds, Texts, Options
  <2>2. human(name) \in BOOLEAN /\ (Bot(to(name)) /\ ~human(name)) \in BOOLEAN
        /\ (name = "resume-contextual-contact") \in BOOLEAN
        /\ (reopens \/ spent.messages = 0) \in BOOLEAN
    OBVIOUS
  <2> HIDE DEF human, to, reopens
  <2>3. QED
    BY <2>1, <2>2 DEF Event
<1>6. /\ event(name).opens <=> (~Open(conversation) \/ spent.messages = 0)
      /\ event(name).human <=>
            \/ conversation'.conversationState \in {"human-active", "sent-to-human"}
            \/ conversation'.flowStep = "human-service"
      /\ event(name).allowed <=> Bot(conversation') /\ ~event(name).human
  <2>1. conversation' = to(name)
    BY <1>1
  <2> HIDE DEF to
  <2>2. QED
    BY <2>1
<1>7. Arrival
  <2>1. CASE reopens
    <3>1. /\ Reopened(conversation).conversationState = "bot-active"
          /\ Reopened(conversation).flowStep = "main-menu"
      BY DEF Reopened, FirstContact
    <3>2. ResumeNames(found, cleared.contextual) = {}
      BY <2>1, <3>1 DEF ResumeNames, InFollowUp
    <3>3. name = "none"
      BY <1>3, <3>2
    <3>4. QED
      BY <1>1, <2>1, <3>3 DEF Arrival
  <2>2. CASE ~reopens /\ name = "none"
    BY <1>1, <2>2 DEF Arrival
  <2>3. CASE ~reopens /\ name = "resume-awaited-reply"
    <3>1. name \in ResumeNames(conversation, marks.contextual)
      BY <1>3, <2>3
    <3>2. /\ conversation.conversationState = "waiting-for-customer"
          /\ conversation.flowStep = "quote-summary-confirmation"
          /\ conversation.requestStatus = "waiting-for-customer"
      BY <2>3, <3>1 DEF ResumeNames
    <3>3. QED
      BY <1>1, <2>3, <3>2 DEF Arrival
  <2>4. CASE ~reopens /\ name = "proposal-response-received"
    <3>1. name \in ResumeNames(conversation, marks.contextual)
      BY <1>3, <2>4
    <3>2. /\ conversation.conversationState = "waiting-for-customer"
          /\ conversation.flowStep = "quote-send-pending"
          /\ conversation.requestStatus = "waiting-for-customer"
      BY <2>4, <3>1 DEF ResumeNames
    <3>3. QED
      BY <1>1, <2>4, <3>2 DEF Arrival
  <2>5. CASE ~reopens /\ name = "resume-contextual-contact"
    <3>1. name \in ResumeNames(conversation, marks.contextual)
      BY <1>3, <2>5
    <3>2. /\ InFollowUp(conversation)
          /\ conversation.requestStatus \in {"under-review", "approved", "rejected"}
      BY <2>5, <3>1 DEF ResumeNames
    <3>3. QED
      BY <1>1, <2>5, <3>2 DEF Arrival
  <2>6. QED
    BY <1>4, <2>1, <2>2, <2>3, <2>4, <2>5
<1>8. QED
  <2>1. inbox' = Append(inbox, event(name))
    BY <1>1
  <2> HIDE DEF event
  <2>2. QED
    BY <1>2, <1>5, <1>6, <1>7, <2>1

\* The fields of the conversation a message finds.
LEMMA ArrivalFields ==
    ASSUME FlowInv, Arrival
    PROVE  /\ conversation' \in Snapshot /\ marks' \in Marks
           /\ Fits(conversation, marks.attended)'
           /\ marks'.contact => marks.contact
           /\ marks'.attended => marks.attended
           /\ \/ UNCHANGED <<conversation, marks, work>>
              \/ /\ work' = Overtaken /\ ~Open(conversation)
                 /\ Becomes(conversation', "bot-active", "main-menu", "none",
                            conversation.requestStatus)
              \/ /\ work' = Overtaken /\ UNCHANGED marks
                 /\ conversation.conversationState = "waiting-for-customer"
                 /\ conversation.flowStep = "quote-summary-confirmation"
                 /\ conversation.requestStatus = "waiting-for-customer"
                 /\ Becomes(conversation', "bot-active", "quote-summary-confirmation",
                            "none", conversation.requestStatus)
              \/ /\ work' = Overtaken
                 /\ conversation.conversationState = "waiting-for-customer"
                 /\ conversation.flowStep = "quote-send-pending"
                 /\ conversation.requestStatus = "waiting-for-customer"
                 /\ Becomes(conversation', "sent-to-human", "human-service",
                            "commercial-follow-up-menu", conversation.requestStatus)
              \/ /\ work' = Overtaken /\ InFollowUp(conversation) /\ ~marks'.followUp
                 /\ conversation.requestStatus \in {"under-review", "approved", "rejected"}
                 /\ Becomes(conversation', "bot-active", "commercial-follow-up-menu",
                            "none", conversation.requestStatus)
<1> USE FlowTypes
<1>1. /\ marks.attended \in BOOLEAN /\ Fits(conversation, marks.attended)
      /\ conversation.requestStatus \in Requests /\ conversation.department \in Departments
  BY DEF Marks, Snapshot, FlowInv, BotInv
<1>2. [marks EXCEPT !.followUp = FALSE, !.contextual = FALSE] \in Marks
      /\ [marks EXCEPT !.followUp = FALSE, !.contextual = FALSE].contact = marks.contact
      /\ [marks EXCEPT !.followUp = FALSE, !.contextual = FALSE].attended = marks.attended
      /\ [marks EXCEPT !.followUp = FALSE, !.contextual = FALSE].followUp = FALSE
  BY DEF Marks
<1>3. ASSUME conversation.conversationState \in {"waiting-for-customer", "sent-to-human",
                                                 "bot-active"}
      PROVE  ~marks.attended
  BY <1>1, <1>3 DEF Fits
<1>4. CASE UNCHANGED <<conversation, marks, work>>
  BY <1>1, <1>4
<1>5. CASE /\ ~Open(conversation) /\ conversation' = Reopened(conversation)
           /\ marks' = [m \in DOMAIN marks |-> FALSE] /\ work' = Overtaken
  <2>1. conversation' \in Snapshot /\ Fits(conversation', FALSE)
    BY <1>1, <1>5, FirstContactFits DEF Reopened
  <2>2. marks' \in Marks /\ ~marks'.contact /\ ~marks'.attended /\ marks'.attended = FALSE
    BY <1>5 DEF Marks
  <2>3. Becomes(conversation', "bot-active", "main-menu", "none", conversation.requestStatus)
    BY <1>5 DEF Becomes, Reopened, FirstContact
  <2>4. QED
    BY <1>5, <2>1, <2>2, <2>3
<1>6. CASE /\ conversation.conversationState = "waiting-for-customer"
           /\ conversation.flowStep = "quote-summary-confirmation"
           /\ conversation.requestStatus = "waiting-for-customer"
           /\ conversation' = Resolved(conversation, "resume-awaited-reply",
                                       conversation.department)
           /\ UNCHANGED marks /\ work' = Overtaken
  <2>1. Becomes(conversation', "bot-active", "quote-summary-confirmation",
                "none", conversation.requestStatus)
    BY <1>1, <1>6, MessageFields
  <2>2. conversation' = To(conversation, "bot-active", "quote-summary-confirmation")
    BY <1>6 DEF Resolved, ClosingTransitions
  <2>3. WellFormed(conversation')
    <3>1. /\ "bot-active" \in States /\ "quote-summary-confirmation" \in Steps
          /\ Matches("bot-active", "quote-summary-confirmation", "none")
      BY DEF States, Steps, Matches, NotOfTheBot
    <3>2. QED
      BY <2>2, <3>1, ToWellFormed
  <2>4. ~marks.attended /\ marks.attended = FALSE
    BY <1>1, <1>3, <1>6
  <2>5. QED
    BY <1>6, <2>1, <2>3, <2>4 DEF WellFormed, Becomes, Fits
<1>7. CASE /\ conversation.conversationState = "waiting-for-customer"
           /\ conversation.flowStep = "quote-send-pending"
           /\ conversation.requestStatus = "waiting-for-customer"
           /\ conversation' = Resolved(conversation, "proposal-response-received",
                                       conversation.department)
           /\ marks' = [marks EXCEPT !.followUp = FALSE, !.contextual = FALSE]
           /\ work' = Overtaken
  <2>1. Becomes(conversation', "sent-to-human", "human-service",
                "commercial-follow-up-menu", conversation.requestStatus)
    BY <1>1, <1>7, MessageFields
  <2>2. conversation' = [To(conversation, "sent-to-human", "human-service")
                           EXCEPT !.resumeFlowStep = "commercial-follow-up-menu"]
    BY <1>7 DEF Resolved, ClosingTransitions
  <2>3. WellFormed(conversation')
    <3>1. /\ "sent-to-human" \in States /\ "human-service" \in Steps
          /\ Matches("sent-to-human", "human-service", "none")
          /\ "commercial-follow-up-menu" \in Steps \ NotOfTheBot
      BY DEF States, Steps, Matches, NotOfTheBot
    <3>2. WellFormed(To(conversation, "sent-to-human", "human-service"))
      BY <3>1, ToWellFormed
    <3>3. QED
      BY <2>2, <3>1, <3>2, ChangeWellFormed
  <2>4. ~marks'.attended /\ marks'.attended = FALSE
    BY <1>1, <1>2, <1>3, <1>7
  <2>5. QED
    BY <1>2, <1>7, <2>1, <2>3, <2>4 DEF WellFormed, Becomes, Fits
<1>8. CASE /\ InFollowUp(conversation)
           /\ conversation.requestStatus \in {"under-review", "approved", "rejected"}
           /\ conversation' = Resolved(conversation, "resume-contextual-contact",
                                       conversation.department)
           /\ marks' = [marks EXCEPT !.followUp = FALSE, !.contextual = FALSE]
           /\ work' = Overtaken
  <2>1. Becomes(conversation', "bot-active", "commercial-follow-up-menu",
                "none", conversation.requestStatus)
    BY <1>1, <1>8, MessageFields
  <2>2. conversation' = To(Commercial(conversation), "bot-active", "commercial-follow-up-menu")
    BY <1>8 DEF Resolved, ClosingTransitions
  <2>3. WellFormed(conversation')
    <3>1. /\ "bot-active" \in States /\ "commercial-follow-up-menu" \in Steps
          /\ Matches("bot-active", "commercial-follow-up-menu", "none")
      BY DEF States, Steps, Matches, NotOfTheBot
    <3>2. QED
      BY <2>2, <3>1, CommercialTyped, ToWellFormed
  <2>4. conversation.conversationState \in {"sent-to-human", "bot-active"}
    BY <1>8 DEF InFollowUp, Bot
  <2>5. ~marks'.attended /\ marks'.attended = FALSE
    BY <1>1, <1>2, <1>3, <1>8, <2>4
  <2>6. QED
    BY <1>2, <1>8, <2>1, <2>3, <2>5 DEF WellFormed, Becomes, Fits
<1>9. QED
  BY <1>4, <1>5, <1>6, <1>7, <1>8 DEF Arrival

\* A step somebody else made leaves the records of the execution alone, but for
\* what it may still rely on.
LEMMA OvertakenRecords ==
    ASSUME FlowInv, UNCHANGED work \/ work' = Overtaken
    PROVE  /\ work' \in Work /\ work'.stage = work.stage /\ work'.plan = work.plan
           /\ work'.asked = work.asked /\ work'.answer = work.answer
           /\ work'.done = work.done /\ work'.batch = work.batch
           /\ work.stale => work'.stale
           /\ work.plan = NoPlan => work' = work
           /\ work' = Overtaken /\ Working => work'.stale
           /\ Working' = Working /\ Moved' = Moved /\ Delivered' = Delivered
           /\ AfterName' = AfterName /\ Shown' = Shown /\ (Handed' <=> Handed)
           /\ (Handing' <=> Handing)
           /\ StageInv' /\ PlanShape(work.plan)'
<1> USE FlowTypes
<1>1. /\ work' \in Work /\ work'.stage = work.stage /\ work'.plan = work.plan
      /\ work'.asked = work.asked /\ work'.answer = work.answer
      /\ work'.done = work.done /\ work'.batch = work.batch
      /\ work.stale => work'.stale
      /\ work.plan = NoPlan => work' = work
      /\ work' = Overtaken /\ Working => work'.stale
  <2>1. CASE UNCHANGED work /\ work' # Overtaken
    BY <2>1
  <2>2. CASE work' = Overtaken /\ work.plan = NoPlan
    BY <2>2 DEF Overtaken, Working, NoPlan
  <2>3. CASE work' = Overtaken /\ work.plan # NoPlan
    <3>1. work' = [work EXCEPT !.stale = TRUE]
      BY <2>3 DEF Overtaken
    <3>2. QED
      BY <2>3, <3>1 DEF Work
  <2>4. QED
    BY <2>1, <2>2, <2>3
<1>2. /\ Working' = Working /\ Moved' = Moved /\ Delivered' = Delivered
      /\ AfterName' = AfterName /\ Shown' = Shown /\ (Handed' <=> Handed)
  BY <1>1 DEF Working, Moved, Delivered, AfterName, AnswerAfter, Shown, AnswerShows, Handed
<1>3. Handing' <=> Handing
  BY <1>2 DEF Handing
<1>4. StageInv' /\ PlanShape(work.plan)'
  BY <1>1, <1>2 DEF FlowInv, WorkInv, StageInv, PlanShape, ReplyShape, AnswerShape
<1>5. QED
  BY <1>1, <1>2, <1>3, <1>4

\* A message of the customer keeps the invariant: the execution of another
\* one, if there is one, is overtaken where the message moves the conversation.
LEMMA ReceiveKeeps ==
    ASSUME FlowInv, NEW text \in Alphabet, Receive(text)
    PROVE  FlowInv'
<1> USE FlowTypes
<1>1. PICK event \in Event :
         /\ inbox' = Append(inbox, event)
         /\ event.opens <=> (~Open(conversation) \/ spent.messages = 0)
         /\ event.human <=>
               \/ conversation'.conversationState \in {"human-active", "sent-to-human"}
               \/ conversation'.flowStep = "human-service"
         /\ event.allowed <=> Bot(conversation') /\ ~event.human
  BY ReceiveStep
<1>2. /\ Arrival /\ UNCHANGED <<quote, screen>>
      /\ spent.messages < MaxMessages /\ spent' = [spent EXCEPT !.messages = @ + 1]
  BY ReceiveStep
<1>3. /\ spent' \in [messages : Nat, hands : Nat, failures : Nat, lost : Nat]
      /\ spent'.messages = spent.messages + 1 /\ spent'.hands = spent.hands
      /\ spent'.failures = spent.failures /\ spent'.lost = spent.lost
  BY <1>2
<1>4. /\ inbox' \in Seq(Event) /\ Len(inbox') = Len(inbox) + 1
      /\ inbox # <<>> => Oldest' = Oldest
      /\ \A i \in 1 .. Len(inbox') : inbox'[i] = IF i = Len(inbox) + 1 THEN event ELSE inbox[i]
  BY <1>1 DEF Oldest
<1>5. spent'.messages # 0 /\ inbox' # <<>>
      /\ spent'.lost + Len(inbox') <= spent'.messages /\ spent'.messages <= MaxMessages
  <2>1. spent.messages \in Nat /\ spent.lost \in Nat /\ MaxMessages \in Nat
    BY AutomationFlowAssumption
  <2>2. QED
    BY <1>2, <1>3, <1>4, <2>1
<1>6. UNCHANGED work \/ work' = Overtaken
  BY <1>2 DEF Arrival
<1>7. /\ work' \in Work /\ work'.stage = work.stage /\ work'.plan = work.plan
      /\ work'.asked = work.asked /\ work'.answer = work.answer
      /\ work'.done = work.done /\ work'.batch = work.batch
      /\ work.stale => work'.stale
      /\ work.plan = NoPlan => work' = work
      /\ work' = Overtaken /\ Working => work'.stale
      /\ Working' = Working /\ Moved' = Moved /\ Delivered' = Delivered
      /\ AfterName' = AfterName /\ Shown' = Shown /\ (Handed' <=> Handed)
      /\ (Handing' <=> Handing)
      /\ StageInv' /\ PlanShape(work.plan)'
  BY <1>6, OvertakenRecords
<1>8. /\ conversation' \in Snapshot /\ marks' \in Marks
      /\ Fits(conversation, marks.attended)'
      /\ marks'.contact => marks.contact
      /\ marks'.attended => marks.attended
  BY <1>2, ArrivalFields
<1>9. Working /\ ~work'.stale => UNCHANGED <<conversation, marks, work>>
  <2>1. UNCHANGED <<conversation, marks, work>> \/ work' = Overtaken
    BY <1>2 DEF Arrival
  <2>2. QED
    BY <1>7, <2>1
<1>10. CountInv' /\ TypeOK'
  <2>1. CountInv'
    BY <1>3, <1>5 DEF CountInv
  <2>2. Len(inbox') <= MaxMessages /\ spent'.messages \in 0 .. MaxMessages
        /\ spent'.lost \in 0 .. MaxMessages
    BY <1>3, <1>4, <1>5, AutomationFlowAssumption
  <2>3. spent'.hands \in Nat /\ spent'.failures \in Nat
        /\ spent'.hands + spent'.failures <= MaxDisturbances
    BY <1>3
  <2>4. quote' \in Quote /\ screen' \in Screens
    BY <1>2
  <2>5. QED
    BY <1>4, <1>7, <1>8, <2>1, <2>2, <2>3, <2>4 DEF TypeOK
<1>11. WorkInv'
  <2>1. work.plan # NoPlan => inbox # <<>> /\ Oldest' = Oldest
    BY <1>4 DEF FlowInv, WorkInv
  <2>2. DoneInv'
    <3>1. "patch" \in work.done => Oldest' = Oldest
      BY <2>1, NamesOfWork DEF FlowInv, WorkInv, DoneInv
    <3>2. QED
      BY <1>2, <1>7, <3>1 DEF FlowInv, WorkInv, DoneInv
  <2>3. work'.plan # NoPlan => inbox' # <<>> /\ work'.batch \in 1 .. Len(inbox')
    BY <1>4, <1>5, <1>7 DEF FlowInv, WorkInv
  <2>4. work'.plan = NoPlan => work' = NoWork
    BY <1>7 DEF FlowInv, WorkInv
  <2>5. QED
    BY <1>7, <2>2, <2>3, <2>4 DEF WorkInv
<1>12. BotInv'
  BY <1>7, <1>8, <1>9 DEF FlowInv, BotInv
<1>13. StepInv'
  BY <1>7, <1>8, <1>9 DEF FlowInv, StepInv
<1>14. SummaryInv'
  <2>1. InSummaryStep' => InSummaryStep
    BY <1>2, ArrivalFields DEF Becomes, InSummaryStep
  <2>2. InSummaryStep' \/ conversation'.resumeFlowStep = "quote-summary-confirmation" =>
           conversation'.requestStatus \in FollowUpRequests
    <3>1. UNCHANGED conversation \/
          ~(InSummaryStep' \/ conversation'.resumeFlowStep = "quote-summary-confirmation") \/
          conversation'.requestStatus = "waiting-for-customer"
      BY <1>2, ArrivalFields DEF Becomes, InSummaryStep
    <3>2. CASE UNCHANGED conversation
      BY <3>2 DEF FlowInv, SummaryInv, InSummaryStep
    <3>3. CASE conversation'.requestStatus = "waiting-for-customer"
      BY <3>3 DEF FollowUpRequests
    <3>4. QED
      BY <3>1, <3>2, <3>3
  <2>3. SummaryPlan' <=> SummaryPlan
    BY <1>3, <1>7 DEF SummaryPlan
  <2>4. QED
    BY <1>2, <1>3, <1>7, <2>1, <2>2, <2>3 DEF FlowInv, SummaryInv
<1>15. ASSUME spent.hands = 0
       PROVE  /\ ~marks.attended /\ ~marks'.attended /\ Open(conversation)
              /\ \/ UNCHANGED <<conversation, marks, work>>
                 \/ /\ work' = Overtaken /\ UNCHANGED marks
                    /\ conversation.conversationState = "waiting-for-customer"
                    /\ conversation.flowStep = "quote-summary-confirmation"
                    /\ conversation.requestStatus = "waiting-for-customer"
                    /\ Becomes(conversation', "bot-active", "quote-summary-confirmation",
                               "none", conversation.requestStatus)
                 \/ /\ work' = Overtaken /\ Bot(conversation) /\ ~marks'.followUp
                    /\ conversation.flowStep = "commercial-follow-up-menu"
                    /\ conversation.requestStatus \in {"under-review", "approved", "rejected"}
                    /\ Becomes(conversation', "bot-active", "commercial-follow-up-menu",
                               "none", conversation.requestStatus)
  <2>1. /\ ~marks.attended /\ Open(conversation)
        /\ conversation.flowStep # "quote-send-pending"
    BY <1>15 DEF FlowInv, AloneInv
  <2>2. InFollowUp(conversation) =>
           Bot(conversation) /\ conversation.flowStep = "commercial-follow-up-menu"
    BY <2>1 DEF InFollowUp
  <2>3. QED
    BY <1>2, <1>8, <2>1, <2>2, ArrivalFields
<1>16. AloneInv'
  <2>1. SUFFICES ASSUME spent.hands = 0 PROVE AloneInv'
    BY <1>3 DEF AloneInv
  <2>2. /\ conversation.flowStep # "quote-send-pending"
        /\ marks.contact => conversation.flowStep = "main-menu"
        /\ Handed => conversation.conversationState = "sent-to-human"
        /\ spent.messages = 0 =>
             /\ conversation = FirstContact /\ work.plan = NoPlan
             /\ marks = [m \in DOMAIN marks |-> FALSE]
        /\ screen = "handoff" =>
             \/ spent.lost > 0 \/ Handing
             \/ conversation.conversationState = "sent-to-human"
    BY <2>1 DEF FlowInv, AloneInv
  <2>3. /\ ~marks'.attended /\ Open(conversation')
        /\ conversation'.flowStep # "quote-send-pending"
        /\ marks'.contact => conversation'.flowStep = "main-menu"
        /\ conversation.conversationState = "sent-to-human" =>
              conversation'.conversationState = "sent-to-human"
    BY <1>8, <1>15, <2>1, <2>2 DEF Becomes, Open, Bot
  <2>4. conversation = FirstContact => UNCHANGED <<conversation, marks, work>>
    BY <1>15, <2>1 DEF FirstContact
  <2>5. ASSUME NEW i \in 1 .. Len(inbox'), inbox'[i].opens
        PROVE  /\ i = 1 /\ inbox'[i].allowed /\ ~inbox'[i].human
               /\ IF work'.plan = NoPlan
                  THEN conversation' = FirstContact /\ marks' = [m \in DOMAIN marks' |-> FALSE]
                  ELSE work'.plan = After("main", "present-main-menu")
    <3>1. CASE i = Len(inbox) + 1
      <4>1. inbox'[i] = event /\ spent.messages = 0
        BY <1>1, <1>4, <1>15, <2>1, <2>5, <3>1
      <4>2. i = 1
        <5>1. spent.lost \in Nat
          OBVIOUS
        <5>2. QED
          BY <3>1, <4>1, <5>1
      <4>3. UNCHANGED <<conversation, marks, work>> /\ conversation = FirstContact
            /\ work.plan = NoPlan /\ marks = [m \in DOMAIN marks |-> FALSE]
        BY <2>2, <2>4, <4>1
      <4>4. ~event.human /\ event.allowed
        BY <1>1, <4>3 DEF FirstContact, Bot
      <4>5. QED
        BY <4>1, <4>2, <4>3, <4>4
    <3>2. CASE i # Len(inbox) + 1
      <4>1. i \in 1 .. Len(inbox) /\ inbox'[i] = inbox[i]
        BY <1>4, <3>2
      <4>2. /\ i = 1 /\ inbox[i].allowed /\ ~inbox[i].human
            /\ IF work.plan = NoPlan
               THEN conversation = FirstContact /\ marks = [m \in DOMAIN marks |-> FALSE]
               ELSE work.plan = After("main", "present-main-menu")
        BY <2>1, <2>5, <4>1 DEF FlowInv, AloneInv
      <4>3. QED
        BY <1>7, <2>4, <4>1, <4>2
    <3>3. QED
      BY <3>1, <3>2
  <2>6. QED
    BY <1>2, <1>3, <1>5, <1>7, <2>1, <2>2, <2>3, <2>5 DEF AloneInv
<1>17. MenuInv'
  <2>1. SUFFICES ASSUME spent.hands = 0, spent.lost = 0 PROVE MenuInv'
    BY <1>3 DEF MenuInv
  <2>2. /\ conversation'.requestStatus = conversation.requestStatus /\ quote' = quote
        /\ conversation.requestStatus = "collecting-information" =>
              UNCHANGED <<conversation, marks, work>>
    BY <1>2, <1>15, <2>1 DEF Becomes
  <2>3. marks.contact => conversation.flowStep = "main-menu"
    BY <2>1 DEF FlowInv, AloneInv
  <2>4. ASSUME NEW s, NEW f, Settled(s, f) PROVE Settled(s, f)'
    BY <1>8, <1>15, <2>1, <2>3, <2>4 DEF Settled, Becomes
  <2>5. Fresh' <=> Fresh
    <3>1. CASE inbox # <<>>
      <4>1. spent.messages # 0
        <5>1. Len(inbox) > 0 /\ spent.lost \in Nat /\ spent.messages \in Nat
          BY <3>1
        <5>2. QED
          BY <5>1
      <4>2. QED
        BY <1>4, <1>5, <3>1, <4>1 DEF Fresh
    <3>2. CASE inbox = <<>>
      <4>1. Oldest' = event
        BY <1>1, <3>2 DEF Oldest
      <4>2. event.opens <=> spent.messages = 0
        BY <1>1, <1>15, <2>1
      <4>3. QED
        BY <1>5, <3>2, <4>1, <4>2 DEF Fresh
    <3>3. QED
      BY <3>1, <3>2
  <2>6. ~Working => Settled(screen, Fresh)'
    <3>1. PICK f : f = Fresh
      OBVIOUS
    <3>2. PICK s : s = screen
      OBVIOUS
    <3>3. ASSUME ~Working PROVE Settled(s, f)
      BY <2>1, <3>1, <3>2, <3>3 DEF FlowInv, MenuInv
    <3>4. ~Working => Settled(s, f)'
      BY <2>4, <3>3
    <3>5. f <=> Fresh'
      BY <2>5, <3>1
    <3>6. s = screen'
      BY <1>2, <3>2
    <3>7. QED
      BY <3>4, <3>5, <3>6 DEF Settled
  <2>7. ASSUME Working, Moved, ~Handed, work.plan.kind = "reply", work.plan.after # "forward"
        PROVE  Settled(Expected, FALSE)'
    <3>1. PICK s : s = Expected
      OBVIOUS
    <3>2. Settled(s, FALSE)
      BY <2>1, <2>7, <3>1 DEF FlowInv, MenuInv
    <3>3. Settled(s, FALSE)'
      BY <2>4, <3>2
    <3>4. Expected' = s
      BY <1>2, <1>7, <3>1 DEF Expected
    <3>5. QED
      BY <3>3, <3>4 DEF Settled
  <2>8. ASSUME Working, Moved, ~Handed, work.plan.kind # "reply"
        PROVE  /\ conversation'.flowStep \notin {"main-menu", "commercial-menu"}
               /\ conversation'.flowStep = "commercial-follow-up-menu" => ~marks'.followUp
    <3>1. /\ conversation.flowStep \notin {"main-menu", "commercial-menu"}
          /\ conversation.flowStep = "commercial-follow-up-menu" => ~marks.followUp
      BY <2>1, <2>8 DEF FlowInv, MenuInv
    <3>2. QED
      BY <1>15, <2>1, <3>1 DEF Becomes
  <2>9. ASSUME Working, ~work'.stale, ~Moved, work.plan.before = "select-commercial"
        PROVE  conversation'.requestStatus = "not-started" <=> work.plan.shows = "commercial"
    BY <1>7, <1>9, <2>1, <2>9 DEF FlowInv, MenuInv
  <2>10. /\ conversation.requestStatus # "cancelled"
         /\ conversation.requestStatus # "not-started" => quote.open
         /\ conversation.requestStatus = "collecting-information" =>
              conversation.flowStep \in {"quote-data-collection", "human-service"}
    BY <2>1 DEF FlowInv, MenuInv
  <2>11. QED
    BY <1>3, <1>7, <2>1, <2>2, <2>6, <2>7, <2>8, <2>9, <2>10 DEF MenuInv
<1>18. QED
  BY <1>10, <1>11, <1>12, <1>13, <1>14, <1>16, <1>17 DEF FlowInv
-------------------------------------------------------------------------------
(* The attendants act.                                                     *)

\* Whatever an attendant does, the execution under way knows nothing of it and
\* cannot rely on the conversation any more.
LEMMA OvertakenKeeps ==
    ASSUME FlowInv, work' = Overtaken, UNCHANGED <<quote, inbox, screen>>,
           conversation' \in Snapshot, marks' \in Marks,
           Fits(conversation, marks.attended)',
           marks'.contact => marks.contact,
           spent' \in [messages : Nat, hands : Nat, failures : Nat, lost : Nat],
           spent'.messages = spent.messages, spent'.lost = spent.lost,
           spent'.hands # 0,
           spent'.hands + spent'.failures <= MaxDisturbances,
           InSummaryStep' => InSummaryStep,
           InSummaryStep' \/ conversation'.resumeFlowStep = "quote-summary-confirmation" =>
              conversation'.requestStatus \in FollowUpRequests
    PROVE  FlowInv'
<1> USE FlowTypes
<1>1. /\ work' \in Work /\ work'.stage = work.stage /\ work'.plan = work.plan
      /\ work'.asked = work.asked /\ work'.answer = work.answer
      /\ work'.done = work.done /\ work'.batch = work.batch
      /\ work.stale => work'.stale
      /\ work.plan = NoPlan => work' = work
      /\ Working => work'.stale
      /\ Working' = Working /\ Moved' = Moved /\ Delivered' = Delivered
      /\ AfterName' = AfterName /\ Shown' = Shown /\ (Handed' <=> Handed)
      /\ (Handing' <=> Handing)
      /\ StageInv' /\ PlanShape(work.plan)'
  BY OvertakenRecords
<1>2. CountInv' /\ TypeOK'
  BY <1>1 DEF FlowInv, CountInv, TypeOK
<1>3. WorkInv'
  <2>1. DoneInv'
    BY <1>1 DEF FlowInv, WorkInv, DoneInv, Oldest
  <2>2. QED
    BY <1>1, <2>1 DEF FlowInv, WorkInv
<1>4. BotInv' /\ StepInv'
  BY <1>1 DEF FlowInv, BotInv, StepInv
<1>5. SummaryInv'
  <2>1. spent'.hands > 0
    OBVIOUS
  <2>2. SummaryPlan => SummaryPlan'
    BY <1>1, <2>1 DEF SummaryPlan
  <2>3. QED
    BY <1>1, <2>1, <2>2 DEF FlowInv, SummaryInv
<1>6. AloneInv' /\ MenuInv'
  BY DEF AloneInv, MenuInv
<1>7. QED
  BY <1>2, <1>3, <1>4, <1>5, <1>6 DEF FlowInv

\* What an attendant does is counted.
LEMMA HandSpent ==
    ASSUME FlowInv, Undisturbed, Spend("hands")
    PROVE  /\ spent' \in [messages : Nat, hands : Nat, failures : Nat, lost : Nat]
           /\ spent'.messages = spent.messages /\ spent'.lost = spent.lost
           /\ spent'.hands # 0
           /\ spent'.hands + spent'.failures <= MaxDisturbances
<1>1. spent' = [spent EXCEPT !.hands = @ + 1]
  BY DEF Spend
<1>2. /\ spent' \in [messages : Nat, hands : Nat, failures : Nat, lost : Nat]
      /\ spent'.messages = spent.messages /\ spent'.lost = spent.lost
      /\ spent'.hands = spent.hands + 1 /\ spent'.failures = spent.failures
  BY <1>1, FlowTypes
<1>3. /\ spent.hands \in Nat /\ spent.failures \in Nat /\ MaxDisturbances \in Nat
      /\ spent.hands + spent.failures < MaxDisturbances
  BY FlowTypes, AutomationFlowAssumption DEF Undisturbed
<1>4. QED
  BY <1>2, <1>3

\* Neither the step to resume nor a return to the bot leads to a summary.
LEMMA NoSummaryResumed ==
    ASSUME FlowInv
    PROVE  BotFlowStep(conversation) # "quote-summary-confirmation"
<1>1. BotFlowStep(conversation) = "quote-summary-confirmation" =>
         conversation.requestStatus \in FollowUpRequests
  BY FlowTypes, ResumedStep DEF FlowInv, SummaryInv, InSummaryStep
<1>2. QED
  BY <1>1, FlowTypes, ResumedStep

\* The commands of the attendants keep the invariant.
LEMMA AttendKeeps ==
    ASSUME FlowInv, NEW name \in UserTransitions, Attend(name)
    PROVE  FlowInv'
<1> USE FlowTypes
<1>1. /\ name \in {"take-over", "return-to-bot", "forward", "close"}
      /\ Permitted(conversation, name) /\ Undisturbed /\ Spend("hands")
      /\ conversation' = Resolved(conversation, name, conversation.department)
      /\ marks' = MarksAfter(name, conversation')
      /\ work' = Overtaken /\ UNCHANGED <<quote, inbox, screen>>
  BY DEF Attend, By
<1>2. /\ conversation.department \in Departments /\ name \in TransitionNames
      /\ marks.attended \in BOOLEAN /\ Fits(conversation, marks.attended)
  BY DEF Snapshot, TransitionNames, Marks, FlowInv, BotInv
<1>3. WellFormed(conversation')
  BY <1>1, <1>2, ResolvedFits
<1>4. /\ marks' \in Marks
      /\ marks'.attended = (conversation'.conversationState = "human-active")
      /\ marks'.contact => marks.contact
  BY <1>1, MarksAfterFields
<1>5. /\ conversation'.flowStep # "quote-summary-confirmation"
      /\ conversation'.resumeFlowStep # "quote-summary-confirmation"
  <2>1. /\ name = "take-over" =>
             Becomes(conversation', "human-active", "human-service",
                     BotFlowStep(conversation), conversation.requestStatus)
        /\ name = "return-to-bot" =>
             Becomes(conversation', "bot-active", BotFlowStep(conversation), "none",
                     conversation.requestStatus)
        /\ name = "close" =>
             Becomes(conversation', "closed", "closed", "none", conversation.requestStatus)
        /\ name = "forward" =>
             Becomes(conversation', "sent-to-human", "human-service",
                     BotFlowStep(conversation), conversation.requestStatus)
    BY <1>1, <1>2, UserFields, SystemFields
  <2>2. QED
    BY <1>1, <2>1, NoSummaryResumed DEF Becomes
<1>6. QED
  BY <1>1, <1>3, <1>4, <1>5, HandSpent, OvertakenKeeps DEF WellFormed, InSummaryStep

LEMMA ProposeKeeps ==
    ASSUME FlowInv, Propose
    PROVE  FlowInv'
<1> USE FlowTypes
<1>1. /\ Undisturbed /\ Spend("hands") /\ conversation' = Proposed(conversation)
      /\ marks' = [marks EXCEPT !.attended = TRUE]
      /\ work' = Overtaken /\ UNCHANGED <<quote, inbox, screen>>
  BY DEF Propose, By
<1>2. conversation' \in Snapshot /\ Fits(conversation', TRUE)
  BY <1>1, ProposedFits
<1>3. marks' \in Marks /\ marks'.attended = TRUE /\ marks'.contact = marks.contact
  BY <1>1 DEF Marks
<1>4. /\ conversation'.flowStep = "quote-send-pending"
      /\ conversation'.resumeFlowStep = "commercial-follow-up-menu"
  BY <1>1 DEF Proposed, Snapshot
<1>5. QED
  BY <1>1, <1>2, <1>3, <1>4, HandSpent, OvertakenKeeps DEF InSummaryStep

LEMMA ProposalDeliveredKeeps ==
    ASSUME FlowInv, ProposalDelivered
    PROVE  FlowInv'
<1> USE FlowTypes
<1> DEFINE name == "proposal-delivery-confirmed"
<1>1. /\ Permitted(conversation, name)
      /\ conversation' = Resolved(conversation, name, "commercial")
      /\ marks' = [marks EXCEPT !.attended = FALSE, !.contextual = FALSE]
      /\ work' = Overtaken /\ UNCHANGED <<quote, inbox, screen, spent>>
  BY DEF ProposalDelivered
<1>2. /\ "commercial" \in Departments /\ name \in TransitionNames
      /\ marks.attended \in BOOLEAN /\ Fits(conversation, marks.attended)
  BY DepartmentAssumption
  DEF TransitionNames, SystemTransitions, Marks, FlowInv, BotInv
<1>3. WellFormed(conversation')
  BY <1>1, <1>2, ResolvedFits
<1>4. Becomes(conversation', "waiting-for-customer", "quote-send-pending", "none",
              "waiting-for-customer")
  BY <1>1, <1>2, UserFields
<1>5. marks' \in Marks /\ marks'.attended = FALSE /\ marks'.contact = marks.contact
  BY <1>1 DEF Marks
<1>6. Fits(conversation, marks.attended)'
  BY <1>3, <1>4, <1>5 DEF WellFormed, Becomes
<1>7. conversation.flowStep = "quote-send-pending"
  BY <1>1 DEF Permitted
<1>8. spent.hands # 0
  BY <1>7 DEF FlowInv, AloneInv
<1>9. QED
  BY <1>1, <1>3, <1>4, <1>5, <1>6, <1>8, OvertakenKeeps DEF WellFormed, Becomes, InSummaryStep

LEMMA DecideRequestKeeps ==
    ASSUME FlowInv, NEW status \in {"approved", "rejected"}, DecideRequest(status)
    PROVE  FlowInv'
<1> USE FlowTypes
<1>1. /\ Undisturbed /\ Spend("hands")
      /\ conversation' = [conversation EXCEPT !.requestStatus = status]
      /\ work' = Overtaken /\ UNCHANGED <<quote, inbox, screen, marks>>
  BY DEF DecideRequest, By
<1>2. marks.attended \in BOOLEAN /\ Fits(conversation, marks.attended) /\ status \in Requests
  BY DEF Marks, FlowInv, BotInv, Requests
<1>3. conversation' \in Snapshot /\ Fits(conversation', marks.attended)
  BY <1>1, <1>2, RequestFits
<1>4. /\ conversation'.flowStep = conversation.flowStep
      /\ conversation'.requestStatus \in FollowUpRequests
  BY <1>1 DEF Snapshot, FollowUpRequests
<1>5. QED
  BY <1>1, <1>3, <1>4, HandSpent, OvertakenKeeps DEF InSummaryStep
-------------------------------------------------------------------------------
(* Every step.                                                             *)

\* The plan is made, found again, or refused with the envelope.
LEMMA BeginKeeps ==
    ASSUME FlowInv, Begin
    PROVE  FlowInv'
<1>1. /\ inbox # <<>> /\ work.stage = "waiting"
      /\ UNCHANGED <<conversation, marks, quote, screen>>
  BY Zenon DEF Begin
<1>2. CASE InvalidEnvelope(Oldest)
  <2>1. Isolate(0)
    BY <1>2 DEF Begin
  <2>2. spent.hands + spent.failures + 0 <= MaxDisturbances
    BY FlowTypes
  <2>3. QED
    BY <1>1, <2>1, <2>2, IsolateKeeps
<1>3. CASE ~InvalidEnvelope(Oldest) /\ work.plan # NoPlan
  BY <1>1, <1>3, BeginAgainKeeps DEF Begin
<1>4. CASE ~InvalidEnvelope(Oldest) /\ work.plan = NoPlan
  <2>1. /\ UNCHANGED <<inbox, spent>>
        /\ \E n \in 1 .. IF Oldest.text = "media" THEN 1 ELSE Len(inbox) :
              work' = [work EXCEPT !.stage = "planned", !.batch = n, !.plan = PlanFor(Oldest)]
    BY <1>4, Zenon DEF Begin
  <2>2. PICK n \in 1 .. IF Oldest.text = "media" THEN 1 ELSE Len(inbox) :
              work' = [work EXCEPT !.stage = "planned", !.batch = n, !.plan = PlanFor(Oldest)]
    BY <2>1, Zenon
  <2>3. n \in 1 .. Len(inbox)
    <3>1. Len(inbox) \in Nat /\ Len(inbox) # 0
      BY <1>1, FlowTypes
    <3>2. QED
      BY <2>2, <3>1
  <2>4. FlowInv /\ inbox # <<>> /\ work.stage = "waiting" /\ work.plan = NoPlan
        /\ UNCHANGED <<conversation, marks, quote, inbox, screen, spent>>
    BY <1>1, <1>4, <2>1
  <2>5. QED
    BY <2>2, <2>3, <2>4, BegunKeeps, Zenon
<1>5. QED
  BY <1>2, <1>3, <1>4

\* A transition by the automation is a repetition, accepted or refused.
LEMMA TransitionCases ==
    ASSUME NEW name, NEW stage, Transition(name, [work EXCEPT !.stage = stage])
    PROVE  \/ name \in work.done
           \/ name \notin work.done /\ SameVersion /\ Accepts(name)
           \/ Refused
  BY DEF Transition

\* The steps of an execution keep the invariant, each by what it is: a
\* transition that is refused, repeated or accepted, or a record.
LEMMA PrepareKeeps ==
    ASSUME FlowInv, Prepare
    PROVE  FlowInv'
<1> DEFINE name == work.plan.before
<1>1. /\ work.stage = "planned" /\ name # "none" /\ name \in SystemTransitions
      /\ Transition(name, [work EXCEPT !.stage = "prepared"])
  BY NamesOfWork DEF Prepare
<1>2. CASE name \in work.done
  BY <1>1, <1>2, RepeatedKeeps
<1>3. CASE name \notin work.done /\ SameVersion /\ Accepts(name)
  <2>1. "prepared" \in Stages
    BY DEF Stages
  <2>2. Accepted(name, "prepared")
    BY <1>1, <1>3, <2>1, AcceptedStep
  <2>3. QED
    BY <1>1, <1>3, <2>2, PreparedKeeps
<1>4. CASE Refused
  BY <1>1, <1>4, RefusedKeeps
<1>5. QED
  BY <1>1, <1>2, <1>3, <1>4, TransitionCases

LEMMA DecideKeeps ==
    ASSUME FlowInv, Decide
    PROVE  FlowInv'
<1>1. /\ Prepared /\ work.plan.kind = "ai" /\ UNCHANGED <<conversation, marks, quote, screen>>
  BY Zenon DEF Decide
<1>2. work.stage # "waiting" /\ inbox # <<>>
  BY <1>1, UnderWay DEF Prepared
<1>3. CASE work.asked = "nothing" \/ work.asked = Question
  <2>1. Answers /\ UNCHANGED <<inbox, spent>>
    BY <1>3, Zenon DEF Decide, Answers
  <2>2. QED
    BY <1>1, <2>1, DecidedKeeps
<1>4. CASE ~(work.asked = "nothing" \/ work.asked = Question)
  <2>1. Isolate(0)
    BY <1>4, Zenon DEF Decide
  <2>2. spent.hands + spent.failures + 0 <= MaxDisturbances
    BY FlowTypes
  <2>3. QED
    BY <1>1, <1>2, <2>1, <2>2, IsolateKeeps
<1>5. QED
  BY <1>3, <1>4

LEMMA CorrectKeeps ==
    ASSUME FlowInv, Correct
    PROVE  FlowInv'
<1> DEFINE name == "correct-quote"
<1>1. /\ work.stage = "decided" /\ work.answer.verdict = "correction-requested"
      /\ name \in SystemTransitions
      /\ Transition(name, [work EXCEPT !.stage = "corrected"])
  BY DEF Correct, SystemTransitions
<1>2. CASE name \in work.done
  BY <1>1, <1>2, RepeatedKeeps
<1>3. CASE name \notin work.done /\ SameVersion /\ Accepts(name)
  <2>1. "corrected" \in Stages
    BY DEF Stages
  <2>2. Accepted(name, "corrected")
    BY <1>1, <1>3, <2>1, AcceptedStep
  <2>3. QED
    BY <1>1, <2>2, CorrectedKeeps
<1>4. CASE Refused
  BY <1>1, <1>4, RefusedKeeps
<1>5. QED
  BY <1>1, <1>2, <1>3, <1>4, TransitionCases

LEMMA PatchKeeps ==
    ASSUME FlowInv, Patch
    PROVE  FlowInv'
<1>1. work.stage \in {"decided", "corrected"} /\ UNCHANGED <<conversation, marks, screen>>
  BY DEF Patch
<1>2. CASE Safe /\ quote.open /\ work.answer.readable /\ ("patch" \in work.done \/ ~quote.confirmed)
  BY <1>2, PatchedKeeps DEF Patch
<1>3. CASE ~(Safe /\ quote.open /\ work.answer.readable /\ ("patch" \in work.done \/ ~quote.confirmed))
  <2>1. FailBy(0) /\ UNCHANGED quote
    BY <1>3 DEF Patch, Fail
  <2>2. spent.hands + spent.failures + 0 <= MaxDisturbances
    BY FlowTypes
  <2>3. QED
    BY <1>1, <2>1, <2>2, FailKeeps
<1>4. QED
  BY <1>2, <1>3

LEMMA CheckReplyKeeps ==
    ASSUME FlowInv, CheckReply
    PROVE  FlowInv'
<1>1. Written /\ UNCHANGED <<conversation, marks, quote, screen>>
  BY DEF CheckReply
<1>2. work.stage # "waiting"
  BY <1>1 DEF Written, Prepared
<1>3. \/ /\ "message" \in work.done /\ work' = [work EXCEPT !.stage = "created"]
         /\ UNCHANGED <<inbox, spent>>
      \/ work' = [work EXCEPT !.stage = "checked"] /\ UNCHANGED <<inbox, spent>>
      \/ work.stale /\ HumanTookIt /\ Conclude(work.batch) /\ UNCHANGED spent
      \/ Fail
  BY DEF CheckReply
<1>4. CASE /\ "message" \in work.done /\ work' = [work EXCEPT !.stage = "created"]
           /\ UNCHANGED <<inbox, spent>>
  BY <1>1, <1>4, CheckedKeeps DEF Ready
<1>5. CASE work' = [work EXCEPT !.stage = "checked"] /\ UNCHANGED <<inbox, spent>>
  BY <1>1, <1>5, CheckedKeeps DEF Ready
<1>6. CASE work.stale /\ HumanTookIt /\ Conclude(work.batch) /\ UNCHANGED spent
  BY <1>1, <1>2, <1>6, LeftKeeps
<1>7. CASE Fail
  <2>1. FailBy(0)
    BY <1>7 DEF Fail
  <2>2. spent.hands + spent.failures + 0 <= MaxDisturbances
    BY FlowTypes
  <2>3. QED
    BY <1>1, <1>2, <2>1, <2>2, FailKeeps
<1>8. QED
  BY <1>3, <1>4, <1>5, <1>6, <1>7

LEMMA CreateReplyKeeps ==
    ASSUME FlowInv, CreateReply
    PROVE  FlowInv'
  BY CreatedKeeps DEF CreateReply, Ready

LEMMA DeliveryFailsKeeps ==
    ASSUME FlowInv, DeliveryFails
    PROVE  FlowInv'
<1>1. /\ inbox # <<>> /\ Isolate(1) /\ UNCHANGED <<conversation, marks, quote, screen>>
  BY UnderWay DEF DeliveryFails
<1>2. spent.hands + spent.failures + 1 <= MaxDisturbances
  BY FlowTypes, AutomationFlowAssumption DEF DeliveryFails, Undisturbed
<1>3. QED
  BY <1>1, <1>2, IsolateKeeps

LEMMA FinishKeeps ==
    ASSUME FlowInv, Finish
    PROVE  FlowInv'
<1> DEFINE name == AfterName
<1>1. /\ work.stage = "sent" /\ name # "none" /\ name \in SystemTransitions
      /\ Transition(name, [work EXCEPT !.stage = "done"])
  BY NamesOfWork DEF Finish
<1> HIDE DEF name
<1>2. CASE name \in work.done
  BY <1>1, <1>2, RepeatedKeeps DEF name
<1>3. CASE name \notin work.done /\ SameVersion /\ Accepts(name)
  <2>1. "done" \in Stages
    BY DEF Stages
  <2>2. Accepted(name, "done")
    BY <1>1, <1>3, <2>1, AcceptedStep
  <2>3. QED
    BY <1>1, <1>3, <2>2, FinishedKeeps DEF name
<1>4. CASE Refused
  BY <1>1, <1>4, RefusedKeeps
<1>5. QED
  BY <1>1, <1>2, <1>3, <1>4, TransitionCases

LEMMA CrashKeeps ==
    ASSUME FlowInv, Crash
    PROVE  FlowInv'
<1>1. work.stage # "waiting" /\ FailBy(1) /\ UNCHANGED <<conversation, marks, quote, screen>>
  BY DEF Crash
<1>2. spent.hands + spent.failures + 1 <= MaxDisturbances
  BY FlowTypes, AutomationFlowAssumption DEF Crash, Undisturbed
<1>3. QED
  BY <1>1, <1>2, FailKeeps

\* The invariant holds at first and every step keeps it.
LEMMA InitFlowInv == Init => FlowInv
<1> SUFFICES ASSUME Init PROVE FlowInv
  OBVIOUS
<1>1. /\ conversation = FirstContact /\ quote = NoQuote /\ inbox = <<>> /\ work = NoWork
      /\ marks = [contact |-> FALSE, main |-> FALSE, followUp |-> FALSE,
                  contextual |-> FALSE, attended |-> FALSE]
      /\ screen = "nothing"
      /\ spent = [messages |-> 0, hands |-> 0, failures |-> 0, lost |-> 0]
  BY DEF Init
<1>2. WellFormed(FirstContact) /\ WellFormed(conversation)
  <2>1. WellFormed(FirstContact)
    <3>1. FirstContact = [FirstContact EXCEPT !.requestStatus = "not-started"]
      BY DEF FirstContact
    <3>2. FirstContact \in Snapshot /\ Fits(FirstContact, FALSE)
      BY <3>1, FirstContactFits DEF Requests
    <3>3. ~(FirstContact.conversationState = "human-active")
      BY DEF FirstContact
    <3>4. QED
      BY <3>2, <3>3 DEF WellFormed
  <2>2. QED
    BY <1>1, <2>1
<1>3. /\ conversation.conversationState = "bot-active" /\ conversation.flowStep = "main-menu"
      /\ conversation.resumeFlowStep = "none" /\ conversation.requestStatus = "not-started"
  BY <1>1 DEF FirstContact
<1>4. TypeOK /\ CountInv
  BY <1>1, <1>2, NoWorkTyped, AutomationFlowAssumption
  DEF TypeOK, CountInv, WellFormed, Marks, Quote, NoQuote, Screens
<1>5. /\ ~Working /\ ~Delivered /\ ~Handed /\ ~Handing /\ StageInv /\ DoneInv
      /\ work.plan = NoPlan /\ work.done = {}
  <2>1. /\ ~Working /\ ~Delivered /\ ~Handed /\ work.plan = NoPlan /\ work.done = {}
    BY <1>1 DEF NoWork, NoPlan, Working, Delivered, Handed
  <2>2. ~Handing /\ AfterName = "none"
    BY <1>1, <2>1 DEF NoPlan, Handing, AfterName
  <2>3. StageInv /\ DoneInv
    BY <1>1, <2>1, <2>2 DEF NoWork, StageInv, DoneInv, Delivered
  <2>4. QED
    BY <2>1, <2>2, <2>3
<1>6. WorkInv
  BY <1>1, <1>5, NoWorkTyped DEF WorkInv
<1>7. BotInv /\ StepInv /\ SummaryInv
  BY <1>1, <1>2, <1>3, <1>5
  DEF BotInv, StepInv, SummaryInv, InSummaryStep, WellFormed, Fits, Bot
<1>8. AloneInv
  <2>1. Len(inbox) = 0
    BY <1>1
  <2>2. marks = [m \in DOMAIN marks |-> FALSE]
    <3>1. DOMAIN marks = {"contact", "main", "followUp", "contextual", "attended"}
      BY <1>1
    <3>2. \A m \in DOMAIN marks : marks[m] = FALSE
      BY <1>1, <3>1
    <3>3. marks = [m \in DOMAIN marks |-> marks[m]]
      BY <1>1
    <3>4. QED
      BY <3>2, <3>3
  <2>3. QED
    BY <1>1, <1>3, <1>5, <2>1, <2>2 DEF AloneInv, Open
<1>9. MenuInv
  BY <1>1, <1>3, <1>5 DEF MenuInv, Settled, Fresh
<1>10. QED
  BY <1>4, <1>6, <1>7, <1>8, <1>9 DEF FlowInv

\* A step that changes nothing.
LEMMA StutterKeeps ==
    ASSUME FlowInv, UNCHANGED vars
    PROVE  FlowInv'
<1>1. UNCHANGED <<conversation, marks, quote, inbox, work, screen, spent>>
  BY DEF vars
<1>2. TypeOK' /\ CountInv'
  BY <1>1 DEF FlowInv, TypeOK, CountInv
<1>3. /\ (Working' <=> Working) /\ (Moved' <=> Moved) /\ (Delivered' <=> Delivered)
      /\ (Handed' <=> Handed) /\ AfterName' = AfterName /\ Shown' = Shown
      /\ Oldest' = Oldest /\ (Fresh' <=> Fresh)
  BY <1>1 DEF Working, Moved, Delivered, Handed, AfterName, AnswerAfter, Shown, AnswerShows,
              Oldest, Fresh
<1>4. WorkInv'
  BY <1>1, <1>3 DEF FlowInv, WorkInv, PlanShape, ReplyShape, AnswerShape, StageInv, DoneInv
<1>5. BotInv' /\ StepInv'
  BY <1>1, <1>3 DEF FlowInv, BotInv, StepInv
<1>6. SummaryInv'
  BY <1>1, <1>3 DEF FlowInv, SummaryInv, InSummaryStep, SummaryPlan, Handing
<1>7. AloneInv'
  BY <1>1, <1>3 DEF FlowInv, AloneInv, Handing
<1>8. MenuInv'
  BY <1>1, <1>3 DEF FlowInv, MenuInv, Settled, Expected
<1>9. QED
  BY <1>2, <1>4, <1>5, <1>6, <1>7, <1>8 DEF FlowInv

LEMMA NextFlowInv == FlowInv /\ [Next]_vars => FlowInv'
<1> SUFFICES ASSUME FlowInv, [Next]_vars PROVE FlowInv'
  OBVIOUS
<1>1. ASSUME NEW text \in Alphabet, Receive(text) PROVE FlowInv'
  BY <1>1, ReceiveKeeps
<1>2. CASE Begin
  BY <1>2, BeginKeeps
<1>3. CASE EndWithoutReply
  BY <1>3, EndWithoutReplyKeeps
<1>4. CASE Prepare
  BY <1>4, PrepareKeeps
<1>5. CASE Decide
  BY <1>5, DecideKeeps
<1>6. CASE Correct
  BY <1>6, CorrectKeeps
<1>7. CASE Patch
  BY <1>7, PatchKeeps
<1>8. CASE CheckReply
  BY <1>8, CheckReplyKeeps
<1>20. CASE CreateReply
  BY <1>20, CreateReplyKeeps
<1>9. CASE Deliver
  BY <1>9, DeliverKeeps
<1>10. CASE DeliveryFails
  BY <1>10, DeliveryFailsKeeps
<1>11. CASE Finish
  BY <1>11, FinishKeeps
<1>12. CASE End
  BY <1>12, EndKeeps
<1>13. CASE Crash
  BY <1>13, CrashKeeps
<1>14. ASSUME NEW name \in UserTransitions, Attend(name) PROVE FlowInv'
  BY <1>14, AttendKeeps
<1>15. CASE Propose
  BY <1>15, ProposeKeeps
<1>16. CASE ProposalDelivered
  BY <1>16, ProposalDeliveredKeeps
<1>17. ASSUME NEW status \in {"approved", "rejected"}, DecideRequest(status) PROVE FlowInv'
  BY <1>17, DecideRequestKeeps
<1>18. CASE UNCHANGED vars
  BY <1>18, StutterKeeps
<1>19. QED
  BY <1>1, <1>2, <1>3, <1>4, <1>5, <1>6, <1>7, <1>8, <1>9, <1>10, <1>11, <1>12, <1>13,
     <1>14, <1>15, <1>16, <1>17, <1>18, <1>20 DEF Next

\* The inductive invariant.
THEOREM FlowInvHolds == Spec => []FlowInv
  BY InitFlowInv, NextFlowInv, PTL DEF Spec
-------------------------------------------------------------------------------
(* What the invariant says of the states and the steps.                    *)

\* Types, and a customer who was told that a person takes over.
LEMMA FlowSafety == FlowInv => Safety
<1> SUFFICES ASSUME FlowInv PROVE Safety
  OBVIOUS
<1>1. TypeOK
  BY DEF FlowInv
<1>2. ASSUME screen = "handoff", work = NoWork, spent.lost = 0, spent.hands = 0
      PROVE  ~Bot(conversation)
  <2>1. ~Handing
    BY <1>2 DEF NoWork, Delivered, Handing
  <2>2. conversation.conversationState = "sent-to-human"
    BY <1>2, <2>1 DEF FlowInv, AloneInv
  <2>3. QED
    BY <2>2 DEF Bot
<1>3. HandoffReachesHuman
  BY <1>2, FlowTypes DEF HandoffReachesHuman
<1>4. QED
  BY <1>1, <1>3 DEF Safety

\* The automation keeps its types whatever fails, and a customer who was told
\* that a person takes over is not left with the bot.
THEOREM FlowIsSafe == Spec => []Safety
  BY FlowInvHolds, FlowSafety, PTL

\* What a step that is no accepted command leaves of the commands done.
Nothing == work'.done \subseteq work.done \cup {"patch", "delivery"}

\* These steps record no command but a patch or a delivery.
LEMMA FailedNothing ==
    ASSUME FlowInv, NEW failures, FailBy(failures)
    PROVE  Nothing
<1>1. work \in Work
  BY FlowTypes
<1>2. \/ work' = NoWork
      \/ work' = [work EXCEPT !.stage = "waiting", !.attempt = @ + 1, !.repeated = {}]
  BY DEF FailBy, Isolate, Conclude
<1>3. CASE work' = NoWork
  BY <1>3 DEF NoWork, Nothing
<1>4. CASE work' = [work EXCEPT !.stage = "waiting", !.attempt = @ + 1, !.repeated = {}]
  BY <1>1, <1>4 DEF Work, Nothing
<1>5. QED
  BY <1>2, <1>3, <1>4

LEMMA ConcludedNothing ==
    ASSUME NEW n, Conclude(n)
    PROVE  Nothing
  BY DEF Conclude, NoWork, Nothing

LEMMA TransitionNothing ==
    ASSUME FlowInv, NEW name, NEW stage, Transition(name, [work EXCEPT !.stage = stage])
    PROVE  Nothing \/ (name \notin work.done /\ ~work.stale)
<1>1. work \in Work
  BY FlowTypes
<1>2. CASE name \in work.done
  BY <1>1, <1>2 DEF Transition, Work, Nothing
<1>3. CASE Refused
  BY <1>3, FailedNothing, ConcludedNothing DEF Refused, Fail
<1>4. QED
  BY <1>2, <1>3, TransitionCases DEF SameVersion

LEMMA OvertakenNothing ==
    ASSUME FlowInv, work' = Overtaken
    PROVE  Nothing
  BY OvertakenRecords DEF Nothing

\* A command that counts is given while the bot has the conversation, but for a
\* reply that was accepted before.
LEMMA StepUndisturbed ==
    ASSUME FlowInv, Next, ~Nothing
    PROVE  Unattended \/ (CreateReply /\ work.stale)
<1>1. work \in Work
  BY FlowTypes
<1>2. Working /\ ~work.stale /\ AfterName \notin work.done => Unattended
  BY DEF FlowInv, BotInv, Unattended
<1>3. ASSUME NEW text \in Alphabet, Receive(text) PROVE FALSE
  <2>1. UNCHANGED work \/ work' = Overtaken
    BY <1>3, ReceiveStep, Zenon DEF Arrival
  <2>2. QED
    BY <2>1, OvertakenNothing DEF Nothing
<1>4. CASE Begin
  <2>1. \/ Conclude(1)
        \/ work' = [work EXCEPT !.stage = "planned"]
        \/ \E n : work' = [work EXCEPT !.stage = "planned", !.batch = n,
                                       !.plan = PlanFor(Oldest)]
    BY <1>4, Zenon DEF Begin, Isolate
  <2>2. CASE Conclude(1)
    BY <2>2, ConcludedNothing
  <2>3. CASE work' = [work EXCEPT !.stage = "planned"]
    BY <1>1, <2>3 DEF Work, Nothing
  <2>4. ASSUME NEW n, work' = [work EXCEPT !.stage = "planned", !.batch = n,
                                           !.plan = PlanFor(Oldest)]
        PROVE  Nothing
    BY <1>1, <2>4 DEF Work, Nothing
  <2>5. QED
    BY <2>1, <2>2, <2>3, <2>4, Zenon
<1>5. CASE EndWithoutReply \/ End
  BY <1>5, ConcludedNothing DEF EndWithoutReply, End
<1>6. CASE Prepare
  <2>1. work.plan.before # "none" /\ work.plan.before \notin work.done /\ ~work.stale
    BY <1>6, TransitionNothing DEF Prepare
  <2>2. Working /\ ~Moved
    BY <2>1, NamedWorks DEF Moved
  <2>3. QED
    BY <1>2, <2>1, <2>2, NothingDone
<1>7. CASE Decide
  <2>1. \/ Conclude(1)
        \/ work' = [work EXCEPT !.stage = "decided"]
        \/ \E a : work' = [work EXCEPT !.stage = "decided", !.asked = Question, !.answer = a]
    BY <1>7, Zenon DEF Decide, Isolate
  <2>2. CASE Conclude(1)
    BY <2>2, ConcludedNothing
  <2>3. CASE work' = [work EXCEPT !.stage = "decided"]
    BY <1>1, <2>3 DEF Work, Nothing
  <2>4. ASSUME NEW a,
               work' = [work EXCEPT !.stage = "decided", !.asked = Question, !.answer = a]
        PROVE  Nothing
    BY <1>1, <2>4 DEF Work, Nothing
  <2>5. QED
    BY <2>1, <2>2, <2>3, <2>4, Zenon
<1>8. CASE Correct
  <2>1. /\ "correct-quote" \notin work.done /\ ~work.stale /\ work.stage = "decided"
        /\ work.answer.verdict = "correction-requested"
    BY <1>8, TransitionNothing DEF Correct
  <2>2. Working /\ AfterName \notin work.done
    BY <2>1, NamedWorks DEF FlowInv, WorkInv, DoneInv, StageInv, Working
  <2>3. QED
    BY <1>2, <2>1, <2>2
<1>9. CASE Patch
  <2>1. FailBy(0) \/ work' = [work EXCEPT !.stage = "patched", !.done = @ \cup {"patch"}]
    BY <1>9 DEF Patch, Fail
  <2>2. CASE FailBy(0)
    BY <2>2, FailedNothing
  <2>3. CASE work' = [work EXCEPT !.stage = "patched", !.done = @ \cup {"patch"}]
    BY <1>1, <2>3 DEF Work, Nothing
  <2>4. QED
    BY <2>1, <2>2, <2>3
<1>10. CASE CheckReply
  <2>1. \/ work' = [work EXCEPT !.stage = "created"]
        \/ work' = [work EXCEPT !.stage = "checked"]
        \/ Conclude(work.batch) \/ FailBy(0)
    BY <1>10 DEF CheckReply, Fail
  <2>2. CASE \/ work' = [work EXCEPT !.stage = "created"]
             \/ work' = [work EXCEPT !.stage = "checked"]
    BY <1>1, <2>2 DEF Work, Nothing
  <2>3. CASE Conclude(work.batch) \/ FailBy(0)
    BY <2>3, FailedNothing, ConcludedNothing
  <2>4. QED
    BY <2>1, <2>2, <2>3
<1>20. CASE CreateReply
  <2>1. SUFFICES ASSUME ~work.stale PROVE Unattended
    BY <1>20
  <2>2. Working
    BY <1>20, ReadyWorks DEF CreateReply, Ready
  <2>3. "message" \notin work.done
    BY <1>1, <1>20 DEF CreateReply, Work, Nothing
  <2>4. AfterName \notin work.done
    BY <2>3 DEF FlowInv, WorkInv, DoneInv
  <2>5. QED
    BY <1>2, <2>1, <2>2, <2>4
<1>11. CASE Deliver
  BY <1>1, <1>11 DEF Deliver, Work, Nothing
<1>12. CASE DeliveryFails
  BY <1>12, ConcludedNothing DEF DeliveryFails, Isolate
<1>13. CASE Finish
  <2>1. AfterName # "none" /\ AfterName \notin work.done /\ ~work.stale
    BY <1>13, TransitionNothing DEF Finish
  <2>2. QED
    BY <1>2, <2>1, NamedWorks
<1>14. CASE Crash
  BY <1>14, FailedNothing DEF Crash
<1>15. ASSUME NEW name \in UserTransitions, Attend(name) PROVE FALSE
  BY <1>15, OvertakenNothing DEF Attend, By
<1>16. CASE Propose
  BY <1>16, OvertakenNothing DEF Propose, By
<1>17. CASE ProposalDelivered
  BY <1>17, OvertakenNothing DEF ProposalDelivered
<1>18. ASSUME NEW status \in {"approved", "rejected"}, DecideRequest(status) PROVE FALSE
  BY <1>18, OvertakenNothing DEF DecideRequest, By
<1>19. QED
  BY <1>3, <1>4, <1>5, <1>6, <1>7, <1>8, <1>9, <1>10, <1>11, <1>12, <1>13, <1>14, <1>15,
     <1>16, <1>17, <1>18, <1>20 DEF Next

\* A transition that is given as one may only set these stages.
LEMMA TransitionStage ==
    ASSUME FlowInv, NEW name, NEW stage, stage # "checked",
           Transition(name, [work EXCEPT !.stage = stage])
    PROVE  work'.stage # "checked"
<1>1. work \in Work
  BY FlowTypes
<1>2. CASE Refused
  <2>1. Conclude(work.batch) \/ FailBy(0)
    BY <1>2 DEF Refused, Fail
  <2>2. CASE Conclude(work.batch)
    BY <2>2 DEF Conclude, NoWork
  <2>3. CASE FailBy(0)
    <3>1. \/ work' = NoWork
          \/ work' = [work EXCEPT !.stage = "waiting", !.attempt = @ + 1, !.repeated = {}]
      BY <2>3 DEF FailBy, Isolate, Conclude
    <3>2. CASE work' = NoWork
      BY <3>2 DEF NoWork
    <3>3. CASE work' = [work EXCEPT !.stage = "waiting", !.attempt = @ + 1, !.repeated = {}]
      BY <1>1, <3>3 DEF Work
    <3>4. QED
      BY <3>1, <3>2, <3>3
  <2>4. QED
    BY <2>1, <2>2, <2>3
<1>3. CASE ~Refused
  BY <1>1, <1>3 DEF Transition, Work
<1>4. QED
  BY <1>2, <1>3

\* A reply is accepted in one way only.
LEMMA StepAccepts ==
    ASSUME FlowInv, Next, work'.stage = "checked", work.stage # "checked"
    PROVE  Unattended
<1>1. work \in Work /\ work' # NoWork /\ work'.stage # work.stage
  BY FlowTypes DEF NoWork
<1>2. ~(\E failures \in {0, 1} : FailBy(failures)) /\ ~(\E n : Conclude(n))
  BY <1>1 DEF FailBy, Isolate, Conclude, Work
<1>3. work' # Overtaken
  BY <1>1, OvertakenRecords
<1>4. ASSUME NEW text \in Alphabet, Receive(text) PROVE FALSE
  BY <1>1, <1>3, <1>4, ReceiveStep, Zenon DEF Arrival
<1>5. ~Begin
  <2>1. SUFFICES ASSUME Begin PROVE FALSE
    OBVIOUS
  <2>2. \/ Conclude(1)
        \/ work' = [work EXCEPT !.stage = "planned"]
        \/ \E n : work' = [work EXCEPT !.stage = "planned", !.batch = n,
                                       !.plan = PlanFor(Oldest)]
    BY <2>1, Zenon DEF Begin, Isolate
  <2>3. QED
    BY <1>1, <1>2, <2>2 DEF Work
<1>6. ~EndWithoutReply /\ ~End
  BY <1>2, Zenon DEF EndWithoutReply, End
<1>7. ~Prepare /\ ~Correct /\ ~Finish
  BY TransitionStage DEF Prepare, Correct, Finish
<1>8. ~Decide
  <2>1. SUFFICES ASSUME Decide PROVE FALSE
    OBVIOUS
  <2>2. \/ Conclude(1)
        \/ work' = [work EXCEPT !.stage = "decided"]
        \/ \E a : work' = [work EXCEPT !.stage = "decided", !.asked = Question, !.answer = a]
    BY <2>1, Zenon DEF Decide, Isolate
  <2>3. QED
    BY <1>1, <1>2, <2>2 DEF Work
<1>9. ~Patch /\ ~CreateReply /\ ~Deliver
  BY <1>1, <1>2 DEF Patch, Fail, CreateReply, Deliver, Work
<1>10. ~DeliveryFails /\ ~Crash
  BY <1>2 DEF DeliveryFails, Isolate, Crash
<1>11. /\ \A name \in UserTransitions : ~Attend(name)
       /\ ~Propose /\ ~ProposalDelivered
       /\ \A status \in {"approved", "rejected"} : ~DecideRequest(status)
  BY <1>3 DEF Attend, By, Propose, ProposalDelivered, DecideRequest
<1>12. CheckReply
  BY <1>4, <1>5, <1>6, <1>7, <1>8, <1>9, <1>10, <1>11 DEF Next
<1>13. work' # [work EXCEPT !.stage = "created"]
  BY <1>1 DEF Work
<1>14. QED
  BY <1>2, <1>12, <1>13 DEF CheckReply, Fail

\* The automation does not move the conversation of a customer whom a person
\* attends and accepts no reply to that customer; one that is created then was
\* accepted before, in an execution that was overtaken since.
THEOREM HumanNotDisturbed == Spec => HumanIsNotDisturbed
<1> DEFINE A == /\ Moves => Unattended
                /\ (work'.stage = "checked" /\ work.stage # "checked") => Unattended
                /\ Writes => Unattended \/ (work.stage = "checked" /\ work.stale)
<1>1. ASSUME FlowInv, Next PROVE A
  <2>1. Moves => Unattended
    <3>1. SUFFICES ASSUME Moves PROVE Unattended
      OBVIOUS
    <3>2. ~Nothing
      BY <3>1 DEF Moves, Nothing, SystemTransitions
    <3>3. ~CreateReply
      <4>1. SUFFICES ASSUME CreateReply PROVE FALSE
        OBVIOUS
      <4>2. work'.done = work.done \cup {"message"}
        BY <4>1, FlowTypes DEF CreateReply, Work
      <4>3. "message" \notin SystemTransitions
        BY DEF SystemTransitions
      <4>4. QED
        BY <3>1, <4>2, <4>3 DEF Moves
    <3>4. QED
      BY <1>1, <3>2, <3>3, StepUndisturbed
  <2>2. Writes => Unattended \/ (work.stage = "checked" /\ work.stale)
    BY <1>1, StepUndisturbed DEF Writes, Nothing, CreateReply
  <2>3. QED
    BY <1>1, <2>1, <2>2, StepAccepts
<1>2. ASSUME UNCHANGED vars PROVE A
  BY <1>2 DEF vars, Moves, Writes
<1>3. ASSUME FlowInv, [Next]_vars PROVE [A]_vars
  BY <1>1, <1>2, <1>3
<1>4. QED
  BY <1>3, FlowInvHolds, PTL DEF Spec, HumanIsNotDisturbed

\* An accepted transition that confirms a request is the last one of a plan.
LEMMA FinishConfirms ==
    ASSUME FlowInv, work.stage = "sent", AfterName = "confirm-quote",
           Accepts("confirm-quote")
    PROVE  /\ Oldest.text = "yes"
           /\ \/ screen = "summary"
              \/ screen = "main" /\ spent.hands > 0
              \/ screen = "handoff" /\ spent.lost > 0
<1>1. Working /\ "message" \in work.done
  BY NamedWorks DEF FlowInv, WorkInv, StageInv
<1>2. work.plan.kind = "ai"
  <2>1. CASE work.plan.kind = "reply"
    <3>1. AfterName \in AfterNames
      BY <2>1 DEF FlowInv, WorkInv, PlanShape, ReplyShape, AfterName
    <3>2. QED
      BY <3>1 DEF AfterNames
  <2>2. QED
    BY <1>1, <2>1 DEF Working
<1>3. work.answer.verdict = "confirmed"
  BY <1>2 DEF AfterName, AnswerAfter
<1>4. Oldest.text = "yes"
  BY <1>1, <1>2, <1>3 DEF FlowInv, WorkInv, DoneInv
<1>5. InSummaryStep
  BY DEF Accepts, Permitted, InSummary, InSummaryStep
<1>6. ~Handing
  BY DEF Handing
<1>7. QED
  BY <1>4, <1>5, <1>6 DEF FlowInv, SummaryInv

\* Only an accepted confirmation confirms a request.
LEMMA TransitionConfirms ==
    ASSUME FlowInv, NEW name, NEW stage, Transition(name, [work EXCEPT !.stage = stage]),
           quote'.confirmed, ~quote.confirmed
    PROVE  name = "confirm-quote" /\ Accepts(name)
<1>1. quote' # quote
  OBVIOUS
<1>2. Accepts(name) /\ quote' = QuoteAfter(name)
  BY <1>1 DEF Transition, Refused
<1>3. name = "confirm-quote"
  <2>1. CASE name = "start-quote"
    BY <1>2, <2>1 DEF QuoteAfter, NoQuote
  <2>2. CASE name \notin {"start-quote", "confirm-quote"}
    BY <1>1, <1>2, <2>2 DEF QuoteAfter
  <2>3. QED
    BY <2>1, <2>2
<1>4. QED
  BY <1>2, <1>3

\* A step that confirms a request is the last transition of an execution.
LEMMA StepConfirms ==
    ASSUME FlowInv, Next, quote'.confirmed, ~quote.confirmed
    PROVE  /\ Oldest.text = "yes"
           /\ \/ screen = "summary"
              \/ screen = "main" /\ spent.hands > 0
              \/ screen = "handoff" /\ spent.lost > 0
<1>1. quote \in Quote /\ quote' # quote
  BY FlowTypes
<1>2. ~Prepare
  <2>1. SUFFICES ASSUME Prepare PROVE FALSE
    OBVIOUS
  <2>2. work.plan.before = "confirm-quote"
    BY <2>1, TransitionConfirms DEF Prepare
  <2>3. Working
    BY <2>2, NamedWorks
  <2>4. QED
    BY <2>2, <2>3
    DEF FlowInv, WorkInv, PlanShape, ReplyShape, AnswerShape, BeforeNames, Working
<1>3. ~Correct
  <2>1. SUFFICES ASSUME Correct PROVE FALSE
    OBVIOUS
  <2>2. Transition("correct-quote", [work EXCEPT !.stage = "corrected"])
    BY <2>1 DEF Correct
  <2>3. "correct-quote" = "confirm-quote"
    BY <2>2, TransitionConfirms, Zenon
  <2>4. QED
    BY <2>3
<1>4. ~Patch
  BY <1>1 DEF Patch, Quote
<1>5. Finish
  <2>1. \A text \in Alphabet : ~Receive(text)
    BY <1>1, ReceiveStep
  <2>2. /\ ~Begin /\ ~EndWithoutReply /\ ~Decide /\ ~CheckReply /\ ~CreateReply
        /\ ~DeliveryFails
    BY <1>1, Zenon DEF Begin, EndWithoutReply, Decide, CheckReply, CreateReply, DeliveryFails
  <2>3. ~Deliver /\ ~End /\ ~Crash
    BY <1>1, Zenon DEF Deliver, End, Crash
  <2>4. /\ \A name \in UserTransitions : ~Attend(name)
        /\ ~Propose /\ ~ProposalDelivered
        /\ \A status \in {"approved", "rejected"} : ~DecideRequest(status)
    BY <1>1 DEF Attend, Propose, ProposalDelivered, DecideRequest
  <2>5. QED
    BY <1>2, <1>3, <1>4, <2>1, <2>2, <2>3, <2>4 DEF Next
<1>6. QED
  BY <1>5, TransitionConfirms, FinishConfirms DEF Finish

\* A request is confirmed by an explicit message of the customer, who was shown
\* the summary last, but for the two screens that may cover it.
THEOREM CustomerConfirms == Spec => ConfirmedByCustomer
<1>1. ASSUME FlowInv, [Next]_vars
      PROVE  [quote'.confirmed /\ ~quote.confirmed =>
                /\ Oldest.text = "yes"
                /\ \/ screen = "summary"
                   \/ screen = "main" /\ spent.hands > 0
                   \/ screen = "handoff" /\ spent.lost > 0]_vars
  BY <1>1, StepConfirms
<1>2. QED
  BY <1>1, FlowInvHolds, PTL DEF Spec, ConfirmedByCustomer

\* Only Begin makes a plan.
LEMMA MadeByBegin ==
    ASSUME FlowInv, Next, work.plan = NoPlan, work'.plan.kind \in {"reply", "ai"}
    PROVE  inbox # <<>> /\ work'.plan = PlanFor(Oldest)
<1>1. work \in Work /\ work.stage = "waiting" /\ work' # NoWork /\ work' # work
  <2>1. work.stage = "waiting"
    BY UnderWay
  <2>2. NoPlan.kind = "none" /\ NoWork.plan = NoPlan
    BY DEF NoPlan, NoWork
  <2>3. QED
    BY <2>1, <2>2, FlowTypes
<1>2. work' # Overtaken
  BY <1>1 DEF Overtaken
<1>3. Begin
  <2>1. \A text \in Alphabet : ~Receive(text)
    BY <1>1, <1>2, ReceiveStep, Zenon DEF Arrival
  <2>2. /\ ~Prepare /\ ~Decide /\ ~Correct /\ ~Patch /\ ~CheckReply /\ ~CreateReply
        /\ ~Deliver /\ ~DeliveryFails /\ ~Finish /\ ~End /\ ~Crash /\ ~EndWithoutReply
    BY <1>1 DEF Prepare, Decide, Prepared, Correct, Patch, CheckReply,
                CreateReply, Written, Deliver,
                DeliveryFails, Finish, End, Crash, EndWithoutReply
  <2>3. /\ \A name \in UserTransitions : ~Attend(name)
        /\ ~Propose /\ ~ProposalDelivered
        /\ \A status \in {"approved", "rejected"} : ~DecideRequest(status)
    BY <1>2 DEF Attend, By, Propose, ProposalDelivered, DecideRequest
  <2>4. QED
    BY <2>1, <2>2, <2>3 DEF Next
<1>4. ~InvalidEnvelope(Oldest)
  BY <1>1, <1>3, Zenon DEF Begin, Isolate, Conclude
<1>5. PICK n : work' = [work EXCEPT !.stage = "planned", !.batch = n, !.plan = PlanFor(Oldest)]
  BY <1>3, <1>4, Zenon DEF Begin
<1>6. work'.plan = PlanFor(Oldest)
  BY <1>1, <1>5 DEF Work
<1>7. inbox # <<>>
  BY <1>3, Zenon DEF Begin
<1>8. QED
  BY <1>6, <1>7

\* A plan is made while the screen suits the conversation.
LEMMA StepAnswersMenu ==
    ASSUME FlowInv, Next, work.plan = NoPlan, work'.plan.kind \in {"reply", "ai"},
           spent.hands = 0, spent.lost = 0,
           NEW plan, plan = work'.plan
    PROVE  /\ conversation.flowStep = "commercial-menu" => screen = "commercial"
           /\ plan.before # "none" /\ conversation.flowStep = "main-menu" =>
                screen \in {"main", "contact"}
           /\ plan = FollowUpMenuPlan(Oldest.text)
              /\ conversation.flowStep = "commercial-follow-up-menu" => screen = "follow-up"
<1>1. inbox # <<>> /\ plan = PlanFor(Oldest)
  BY MadeByBegin
<1>2. ~Working
  BY DEF Working, NoPlan
<1>3. Settled(screen, Fresh)
  BY <1>2 DEF FlowInv, MenuInv
<1>4. spent.messages # 0 /\ 1 \in 1 .. Len(inbox)
  <2>1. Len(inbox) # 0 /\ Len(inbox) \in Nat
    BY <1>1, FlowTypes
  <2>2. QED
    BY <2>1, FlowTypes
<1>5. Fresh => InitialMenu(Oldest)
  <2>1. SUFFICES ASSUME Oldest.opens PROVE ~marks.main
    BY <1>4 DEF Fresh, InitialMenu
  <2>2. marks = [m \in DOMAIN marks |-> FALSE] /\ marks \in Marks
    BY <1>4, <2>1, FlowTypes DEF FlowInv, AloneInv, Oldest
  <2>3. "main" \in DOMAIN marks
    BY <2>2 DEF Marks
  <2>4. QED
    BY <2>2, <2>3
<1>6. InitialMenu(Oldest) => plan.before = "none"
  <2>1. InitialMenu(Oldest) => plan = After("main", "present-main-menu")
    BY <1>1, MadeShape
  <2>2. QED
    BY <2>1 DEF After, Shows, NoPlan
<1>7. ASSUME conversation.flowStep = "commercial-follow-up-menu", ~marks.followUp
      PROVE  plan # FollowUpMenuPlan(Oldest.text)
  <2>1. FollowUpDue(Oldest)
    BY <1>7 DEF FollowUpDue
  <2>2. \/ plan = LeaveToHuman \/ plan = Suppressed \/ plan = After("main", "present-main-menu")
        \/ plan = Shows("notice") \/ plan = After("notice", "return-to-main-menu")
        \/ plan = Shows("follow-up")
    BY <1>1, <2>1 DEF PlanFor
  <2>3. QED
    BY <2>2 DEF FollowUpMenuPlan, After, Before, Shows, NoPlan, LeaveToHuman, Suppressed
<1>8. QED
  BY <1>3, <1>5, <1>6, <1>7 DEF Settled

\* While nothing fails and no attendant steps in, an option is read under the
\* menu the customer was shown last.
THEOREM OptionsReadUnderShownMenu == Spec => AnswersShownMenu
<1> DEFINE A == /\ work.plan = NoPlan /\ work'.plan.kind \in {"reply", "ai"}
                /\ spent.hands = 0 /\ spent.lost = 0
                => LET plan == work'.plan
                   IN  /\ plan = CommercialMenuPlan(Oldest.text) /\ plan.shows # "commercial"
                             /\ conversation.flowStep = "commercial-menu"
                          => screen = "commercial"
                       /\ plan = MainMenuPlan(Oldest.text) /\ plan.before # "none"
                             /\ conversation.flowStep = "main-menu"
                          => screen \in {"main", "contact"}
                       /\ plan = FollowUpMenuPlan(Oldest.text)
                             /\ conversation.flowStep = "commercial-follow-up-menu"
                          => screen = "follow-up"
<1>1. ASSUME FlowInv, [Next]_vars PROVE [A]_vars
  BY <1>1, StepAnswersMenu
<1>2. QED
  BY <1>1, FlowInvHolds, PTL DEF Spec, AnswersShownMenu
===============================================================================
