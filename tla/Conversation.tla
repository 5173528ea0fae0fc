------------------------------ MODULE Conversation ------------------------------
(***************************************************************************)
(* The row of one conversation under concurrent transactions: commands of  *)
(* the attendants and of the automation, the webhook that stores what the  *)
(* customer writes, and the replies of the bot.                            *)
(*                                                                         *)
(* A command takes the advisory lock of the conversation, reads the row    *)
(* and updates it if its version has not moved.  The webhook reads the row *)
(* and re-opens a closed conversation before it takes that lock, with an   *)
(* update that names no version; a reply takes no lock of the conversation *)
(* at all.  Where the webhook and a command wait for each other (row       *)
(* against advisory lock) the database ends one of them.                   *)
(*                                                                         *)
(* Of the proposals only what they do to the row is kept.  When they may   *)
(* do it, and what a proposal that is being sent forbids, is the matter of *)
(* QuoteProposal: here more commands are accepted than there.              *)
(***************************************************************************)
EXTENDS AttendedConversation, Naturals, FiniteSets

CONSTANTS
    Messages,       \* bound: messages of the customer
    MaxVersion,     \* bound: versions of the row
    MaxOvertakes    \* bound: commands committed between a webhook's reading
                    \* of a closed conversation and its update

ASSUME ConversationAssumption ==
    /\ None \notin Users \cup Messages
    /\ IsFiniteSet(Messages)
    /\ MaxVersion \in Nat \ {0} /\ MaxOvertakes \in Nat

VARIABLES
    unread,        \* unreadCount
    version,
    messages,      \* [Messages -> {"absent", "unseen", "seen"}]
    command,       \* the command that holds the lock of the conversation
    hook,          \* the webhook transaction that holds the lock of the contact
    reply,         \* the transaction that creates a reply of the bot
    overtakes

row  == <<conversation, assigned, contextual, unread, version>>
rowVars == <<row, messages, command, hook, reply, overtakes>>
-------------------------------------------------------------------------------
\* Transitions, and the other operations that write the row.
\* "proposal-delivery-confirmed" is done by the result of the delivery,
\* "contact-forwarded" is the return to the main menu after a contact request
\* was handed on, "answer" a message by the attendant.
UserNames   == UserTransitions \cup {"answer", "create-proposal", "send-proposal",
                                     "approve", "reject"}
SystemNames == SystemTransitions \cup {"contact-forwarded"}
Names       == UserNames \cup SystemNames

Command == [actor : Users \cup {None}, name : Names, target : Departments,
            unread : 0 .. Cardinality(Messages), version : 0 .. MaxVersion]
Nothing == [actor |-> None, name |-> "mark-read", target |-> "commercial",
            unread |-> 0, version |-> 0]

HookStages == {"idle", "open", "closed", "reopened"}
Hook       == [stage : HookStages, message : Messages \cup {None}, request : Requests]
NoHook     == [stage |-> "idle", message |-> None, request |-> "not-started"]

RowInit ==
    /\ conversation = FirstContact /\ assigned = None /\ contextual = FALSE
    /\ unread = 0 /\ version = 1
    /\ messages = [m \in Messages |-> "absent"]
    /\ command = Nothing /\ hook = NoHook /\ reply = "idle"
    /\ overtakes = 0
-------------------------------------------------------------------------------
(* Commands.                                                               *)

TransitionOf(name) == IF name = "contact-forwarded" THEN "return-to-main-menu" ELSE name

Accepted(u, name) ==
    CASE name = "answer" -> conversation.conversationState = "human-active" /\ assigned = u
      [] name \in {"create-proposal", "send-proposal"} ->
            /\ conversation.department = "commercial" /\ Open(conversation)
            /\ assigned \in {None, u}
      [] name \in {"approve", "reject"} ->
            conversation.department = "commercial" /\ Open(conversation)
      [] OTHER -> Permitted(conversation, TransitionOf(name))

After(name, target) ==
    CASE name = "answer" -> conversation
      [] name \in {"create-proposal", "send-proposal"} -> Proposed(conversation)
      [] name = "approve" -> [conversation EXCEPT !.requestStatus = "approved"]
      [] name = "reject"  -> [conversation EXCEPT !.requestStatus = "rejected"]
      [] OTHER -> Resolved(conversation, TransitionOf(name), target)

AssignedAfter(u, name, to) ==
    IF to.conversationState # "human-active" THEN None
    ELSE IF name \in {"take-over", "create-proposal", "send-proposal"} THEN u
    ELSE assigned

FollowUpAfter(name, to) ==
    CASE name = "confirm-quote" -> TRUE
      [] name = "return-to-bot" /\ to.flowStep = "commercial-follow-up-menu" -> TRUE
      [] name \in ClosingTransitions \cup {"create-proposal", "resume-contextual-contact",
                                           "proposal-delivery-confirmed"} -> FALSE
      [] OTHER -> contextual

Reads(name) == name \in ClosingTransitions \cup {"mark-read", "contact-forwarded"}

Begin(u, name, target) ==
    /\ command = Nothing /\ version < MaxVersion
    /\ name \in IF u = None THEN SystemNames ELSE UserNames
    /\ Accepted(u, name)
    /\ LET to == After(name, target)
       IN  to.conversationState = "human-active" => AssignedAfter(u, name, to) # None
    /\ command' = [actor |-> u, name |-> name, target |-> target,
                   unread |-> unread, version |-> version]
    /\ UNCHANGED <<row, messages, hook, reply, overtakes>>

\* The row has the version that was read and is not locked by a webhook; a
\* webhook that read it is overtaken.
MayCommit ==
    /\ command # Nothing /\ version = command.version
    /\ hook.stage # "reopened"
    /\ IF hook.stage = "closed"
       THEN overtakes < MaxOvertakes /\ overtakes' = overtakes + 1
       ELSE UNCHANGED overtakes

Commit ==
    LET name == command.name
        to   == After(name, command.target)
    IN  /\ MayCommit
        /\ conversation' = to
        /\ assigned' = AssignedAfter(command.actor, name, to)
        /\ contextual' = FollowUpAfter(name, to)
        /\ unread' = IF Reads(name) THEN 0
                     ELSE IF name \in TransitionNames THEN command.unread
                     ELSE unread
        /\ messages' = IF Reads(name)
                       THEN [m \in Messages |-> IF messages[m] = "unseen" THEN "seen"
                                                ELSE messages[m]]
                       ELSE messages
        /\ version' = version + 1
        /\ command' = Nothing
        /\ UNCHANGED <<hook, reply>>

\* A version conflict, a failure, or the choice of the database when webhook
\* and command wait for each other.
Abort ==
    /\ command # Nothing
    /\ command' = Nothing
    /\ UNCHANGED <<row, messages, hook, reply, overtakes>>
-------------------------------------------------------------------------------
(* The webhook of a message of the customer.                               *)

Receive(m) ==
    /\ hook.stage = "idle" /\ messages[m] = "absent"
    /\ version + 2 <= MaxVersion
    /\ hook' = [stage |-> IF Open(conversation) THEN "open" ELSE "closed",
                message |-> m, request |-> conversation.requestStatus]
    /\ UNCHANGED <<row, messages, command, reply, overtakes>>

\* The update is not guarded by the version: it is the row lock from here on.
ReopenRow ==
    /\ hook.stage = "closed"
    /\ hook' = [hook EXCEPT !.stage = "reopened"]
    /\ UNCHANGED <<row, messages, command, reply, overtakes>>

Reopened == [FirstContact EXCEPT !.requestStatus = hook.request]

\* Slip: the message is stored without waiting for the lock of the conversation.
WithoutLock == TRUE

LockFree == command = Nothing

VersionAfter(reopens, resumes) ==
    version + (IF reopens THEN 1 ELSE 0) + (IF resumes THEN 1 ELSE 0)

\* From the lock to the commit nobody else can write the row.
Store ==
    LET reopens == hook.stage = "reopened"
        found   == IF reopens THEN Reopened ELSE conversation
        follows == contextual /\ ~reopens
    IN  /\ hook.stage \in {"open", "reopened"}
        /\ LockFree
        /\ version + 2 <= MaxVersion
        /\ \/ /\ conversation' = found           \* not a text, or nothing to resume
              /\ contextual' = follows
              /\ version' = VersionAfter(reopens, FALSE)
           \/ \E name \in ResumeNames(found, follows) :
                 /\ Permitted(found, name)
                 /\ conversation' = Resolved(found, name, found.department)
                 /\ contextual' = (follows /\ name = "resume-awaited-reply")
                 /\ version' = VersionAfter(reopens, TRUE)
        /\ assigned' = IF reopens THEN None ELSE assigned
        /\ unread' = unread + 1
        /\ messages' = [messages EXCEPT ![hook.message] = "unseen"]
        /\ hook' = NoHook
        /\ UNCHANGED <<command, reply, overtakes>>

\* The transaction fails, or loses to a command: the message comes again.
Fail ==
    /\ hook.stage # "idle"
    /\ hook' = NoHook
    /\ UNCHANGED <<row, messages, command, reply, overtakes>>
-------------------------------------------------------------------------------
(* A reply of the bot: checked, then created.                              *)

CheckReply ==
    /\ reply = "idle"
    /\ Bot(conversation) /\ conversation.flowStep # "human-service" /\ assigned = None
    /\ reply' = "checked"
    /\ UNCHANGED <<row, messages, command, hook, overtakes>>

CreateReply ==
    /\ reply = "checked"
    /\ reply' = "idle"
    /\ UNCHANGED <<row, messages, command, hook, overtakes>>
-------------------------------------------------------------------------------
RowNext ==
    \/ \E u \in Users \cup {None}, name \in Names, p \in Departments : Begin(u, name, p)
    \/ Commit \/ Abort
    \/ \E m \in Messages : Receive(m)
    \/ ReopenRow \/ Store \/ Fail
    \/ CheckReply \/ CreateReply

RowSpec == RowInit /\ [][RowNext]_rowVars

\* A transaction that was begun ends, one way or the other.
FairRowSpec ==
    /\ RowSpec
    /\ WF_rowVars(Commit \/ Abort) /\ WF_rowVars(ReopenRow \/ Store \/ Fail)
    /\ WF_rowVars(CreateReply)
-------------------------------------------------------------------------------
RowTypeOK ==
    /\ conversation \in Snapshot
    /\ assigned \in Users \cup {None}
    /\ contextual \in BOOLEAN
    /\ unread \in 0 .. Cardinality(Messages)
    /\ version \in 1 .. MaxVersion
    /\ messages \in [Messages -> {"absent", "unseen", "seen"}]
    /\ command \in Command /\ hook \in Hook
    /\ reply \in {"idle", "checked"}
    /\ overtakes \in 0 .. MaxOvertakes

\* The unread counter, which commands write back from what they read, is the
\* number of messages stored since the conversation was last read or closed.
UnreadIsExact ==
    unread = Cardinality({m \in Messages : messages[m] = "unseen"})

\* A version stands for one state and attendant of the row: a command sent for
\* a state that is no longer there is refused.
VersionNamesState ==
    [][/\ version' >= version
       /\ version' = version => conversation' = conversation /\ assigned' = assigned]_rowVars

\* A message that found the conversation open leaves it as a person who
\* attends it has it, also one who took over while the message was stored.
MessageKeepsAttendant ==
    [][/\ hook.stage = "open" /\ hook' = NoHook /\ unread' > unread
       /\ conversation.conversationState = "human-active"
       => conversation' = conversation /\ assigned' = assigned]_rowVars

\* What the documentation says of a take-over, that the bot is blocked and the
\* user assigned, would have to hold also beside a message that found the
\* conversation closed.
TakeOverStands ==
    [][unread' > unread /\ conversation.conversationState = "human-active"
       => conversation'.conversationState = "human-active" /\ assigned' = assigned]_rowVars
===============================================================================
