-------------------------- MODULE Conversation_proofs --------------------------
(***************************************************************************)
(* Proofs about the conversation, for every value of the constants: first  *)
(* its row under concurrent transactions (Conversation), then its          *)
(* commercial cycle (QuoteProposal).  The two state machines share the     *)
(* row's variables and each theorem is about one of them: RowSpec is the   *)
(* specification of the first, Spec that of the second.                    *)
(***************************************************************************)
EXTENDS Conversation, QuoteProposal, ConversationMatrix_proofs, FiniteSetTheorems

(***************************************************************************)
(* The row under concurrent transactions.                                  *)
(***************************************************************************)

\* What a transaction of a command read is what the row still has, and the
\* row accepts it: nobody writes the row while the lock is held.
LockInv ==
    command # Nothing =>
        /\ command.version = version /\ version < MaxVersion
        /\ command.unread = unread
        /\ command.actor = None => command.name \in SystemNames
        /\ command.actor # None => command.name \in UserNames
        /\ Accepted(command.actor, command.name)
        /\ LET to == After(command.name, command.target)
           IN  to.conversationState = "human-active" =>
                  AssignedAfter(command.actor, command.name, to) # None

\* The message a webhook brings has not been stored.
HookInv ==
    hook.stage # "idle" => /\ hook.message \in Messages
                           /\ messages[hook.message] = "absent"

ConversationInv ==
    /\ RowTypeOK /\ AttendanceFits /\ UnreadIsExact
    /\ LockInv /\ HookInv
-------------------------------------------------------------------------------
LEMMA UnseenFinite ==
    \A M : /\ IsFiniteSet({m \in Messages : M[m] = "unseen"})
           /\ Cardinality({m \in Messages : M[m] = "unseen"}) \in 0 .. Cardinality(Messages)
  BY FS_Subset, FS_CardinalityType, ConversationAssumption

\* The constant records are well typed.
LEMMA Constants ==
    /\ Nothing \in Command /\ NoHook \in Hook
    /\ {"take-over", "mark-read", "return-to-main-menu"} \subseteq TransitionNames
    /\ Cardinality(Messages) \in Nat
<1>1. Cardinality(Messages) \in Nat
  BY FS_CardinalityType, ConversationAssumption
<1>2. Nothing \in Command
  BY <1>1, ConversationAssumption, DepartmentAssumption
  DEF Nothing, Command, Names, UserNames, UserTransitions
<1>3. NoHook \in Hook
  BY DEF NoHook, Hook, HookStages, Requests
<1>4. QED
  BY <1>1, <1>2, <1>3 DEF TransitionNames, UserTransitions, SystemTransitions

LEMMA RowInitInv == RowInit => ConversationInv
<1> SUFFICES ASSUME RowInit PROVE ConversationInv
  OBVIOUS
<1>1. conversation \in Snapshot /\ Fits(conversation, FALSE)
  <2>1. FirstContact = [FirstContact EXCEPT !.requestStatus = "not-started"]
    BY DEF FirstContact
  <2>2. QED
    BY <2>1, FirstContactFits DEF RowInit, Requests
<1>2. {m \in Messages : messages[m] = "unseen"} = {}
  BY DEF RowInit
<1>3. UnreadIsExact
  BY <1>2, FS_EmptySet DEF RowInit, UnreadIsExact
<1>4. RowTypeOK
  <2>1. unread \in 0 .. Cardinality(Messages) /\ version \in 1 .. MaxVersion
        /\ overtakes \in 0 .. MaxOvertakes
    BY Constants, ConversationAssumption DEF RowInit
  <2>2. messages \in [Messages -> {"absent", "unseen", "seen"}]
    BY DEF RowInit
  <2>3. QED
    BY <1>1, <2>1, <2>2, Constants DEF RowInit, RowTypeOK
<1>5. AttendanceFits
  BY <1>1 DEF RowInit, AttendanceFits
<1>6. LockInv /\ HookInv
  BY DEF RowInit, LockInv, HookInv, NoHook
<1>7. QED
  BY <1>3, <1>4, <1>5, <1>6 DEF ConversationInv
-------------------------------------------------------------------------------
\* What an accepted command makes of the conversation is well formed.
LEMMA AfterFits ==
    ASSUME ConversationInv, NEW u \in Users \cup {None}, NEW name \in Names,
           NEW target \in Departments, Accepted(u, name)
    PROVE  WellFormed(After(name, target))
<1> DEFINE attended == assigned # None
<1>1. conversation \in Snapshot /\ attended \in BOOLEAN /\ Fits(conversation, attended)
  BY DEF ConversationInv, RowTypeOK, AttendanceFits
<1>2. WellFormed(conversation)
  <2>1. conversation.conversationState = "human-active" <=> attended
    BY <1>1 DEF Fits
  <2>2. QED
    BY <1>1, <2>1 DEF WellFormed, Fits
<1>3. CASE name = "answer"
  BY <1>2, <1>3 DEF After
<1>4. CASE name \in {"create-proposal", "send-proposal"}
  <2>1. WellFormed(Proposed(conversation))
    BY <1>1, ProposedFits DEF WellFormed, Fits
  <2>2. QED
    BY <1>4, <2>1 DEF After
<1>5. CASE name \in {"approve", "reject"}
  BY <1>2, <1>5, ChangeWellFormed DEF After, Requests
<1>6. CASE name \notin {"answer", "create-proposal", "send-proposal", "approve", "reject"}
  <2>1. TransitionOf(name) \in TransitionNames
    BY <1>6 DEF Names, UserNames, SystemNames, TransitionOf, TransitionNames,
                SystemTransitions
  <2>2. Permitted(conversation, TransitionOf(name))
    BY <1>6 DEF Accepted
  <2>3. WellFormed(Resolved(conversation, TransitionOf(name), target))
    BY <1>1, <2>1, <2>2, ResolvedFits
  <2>4. QED
    BY <1>6, <2>3 DEF After
<1>7. QED
  BY <1>3, <1>4, <1>5, <1>6

\* A conversation that fits, with the attendant its state calls for.
LEMMA AttendedFits ==
    ASSUME NEW c, NEW a, WellFormed(c),
           c.conversationState = "human-active" <=> a # None
    PROVE  c \in Snapshot /\ Fits(c, a # None)
  BY DEF WellFormed, Fits
-------------------------------------------------------------------------------
LEMMA BeginPreserves ==
    ASSUME ConversationInv, NEW u \in Users \cup {None}, NEW name \in Names,
           NEW p \in Departments, Begin(u, name, p)
    PROVE  ConversationInv'
<1>1. command' = [actor |-> u, name |-> name, target |-> p, unread |-> unread, version |-> version]
      /\ version < MaxVersion /\ Accepted(u, name)
      /\ UNCHANGED <<row, messages, hook, reply, overtakes>>
  BY DEF Begin
<1>2. command' \in Command
  BY <1>1, ConversationAssumption DEF ConversationInv, RowTypeOK, Command
<1>3. RowTypeOK' /\ AttendanceFits' /\ UnreadIsExact' /\ HookInv'
  BY <1>1, <1>2 DEF ConversationInv, RowTypeOK, AttendanceFits, UnreadIsExact, HookInv, row
<1>4. LockInv'
  BY <1>1 DEF Begin, LockInv, Accepted, After, AssignedAfter, row
<1>5. QED
  BY <1>3, <1>4 DEF ConversationInv
LEMMA CommitPreserves == ConversationInv /\ Commit => ConversationInv'
<1> SUFFICES ASSUME ConversationInv, Commit PROVE ConversationInv'
  OBVIOUS
<1> DEFINE name == command.name
           to   == After(name, command.target)
<1>1. /\ command # Nothing /\ command \in Command
      /\ conversation' = to /\ assigned' = AssignedAfter(command.actor, name, to)
      /\ version' = version + 1 /\ command' = Nothing
      /\ hook' = hook /\ reply' = reply
  BY DEF Commit, MayCommit, ConversationInv, RowTypeOK
<1>2. /\ version < MaxVersion /\ command.unread = unread
      /\ Accepted(command.actor, name)
      /\ to.conversationState = "human-active" => assigned' # None
  BY <1>1 DEF ConversationInv, LockInv
<1>3. /\ name \in Names /\ command.actor \in Users \cup {None}
      /\ command.target \in Departments
  BY <1>1 DEF Command
<1>4. WellFormed(to)
  BY <1>2, <1>3, AfterFits
<1>5. to.conversationState = "human-active" <=> assigned' # None
  BY <1>1, <1>2 DEF AssignedAfter
<1>6. conversation' \in Snapshot /\ AttendanceFits'
  BY <1>1, <1>4, <1>5, AttendedFits DEF AttendanceFits
<1>7. assigned' \in Users \cup {None}
  BY <1>1, <1>3 DEF AssignedAfter, ConversationInv, RowTypeOK
<1>8. contextual' \in BOOLEAN
  BY DEF Commit, FollowUpAfter, ConversationInv, RowTypeOK
<1>9. /\ messages' \in [Messages -> {"absent", "unseen", "seen"}]
      /\ \A m \in Messages : messages[m] = "absent" => messages'[m] = "absent"
      /\ unread' = Cardinality({m \in Messages : messages'[m] = "unseen"})
  <2>1. CASE Reads(name)
    <3>1. unread' = 0
          /\ messages' = [m \in Messages |-> IF messages[m] = "unseen" THEN "seen"
                                             ELSE messages[m]]
      BY <2>1 DEF Commit
    <3>2. {m \in Messages : messages'[m] = "unseen"} = {}
      BY <3>1
    <3>3. QED
      BY <3>1, <3>2, FS_EmptySet DEF ConversationInv, RowTypeOK
  <2>2. CASE ~Reads(name)
    <3>1. messages' = messages /\ unread' = unread
      BY <1>2, <2>2 DEF Commit
    <3>2. QED
      BY <3>1 DEF ConversationInv, RowTypeOK, UnreadIsExact
  <2>3. QED
    BY <2>1, <2>2
<1>10. unread' \in 0 .. Cardinality(Messages) /\ UnreadIsExact'
  BY <1>9, UnseenFinite DEF UnreadIsExact
<1>11. version' \in 1 .. MaxVersion
  BY <1>1, <1>2, ConversationAssumption DEF ConversationInv, RowTypeOK
<1>12. overtakes' \in 0 .. MaxOvertakes
  BY ConversationAssumption DEF Commit, MayCommit, ConversationInv, RowTypeOK
<1>13. RowTypeOK'
  BY <1>1, <1>6, <1>7, <1>8, <1>9, <1>10, <1>11, <1>12, Constants
  DEF ConversationInv, RowTypeOK
<1>14. LockInv'
  BY <1>1 DEF LockInv
<1>15. HookInv'
  BY <1>1, <1>9 DEF HookInv, ConversationInv
<1>16. QED
  BY <1>6, <1>10, <1>13, <1>14, <1>15 DEF ConversationInv

\* A step that leaves the row alone, lets a command go or not, and moves the
\* webhook among messages that are not stored.
LEMMA AsidePreserves ==
    ASSUME ConversationInv, UNCHANGED <<row, messages, overtakes>>,
           command' \in {command, Nothing}, hook' \in Hook, HookInv',
           reply' \in {"idle", "checked"}
    PROVE  ConversationInv'
<1>1. RowTypeOK' /\ AttendanceFits' /\ UnreadIsExact'
  BY Constants DEF ConversationInv, RowTypeOK, AttendanceFits, UnreadIsExact, row
<1>2. LockInv'
  BY DEF ConversationInv, LockInv, Accepted, After, AssignedAfter, row
<1>3. QED
  BY <1>1, <1>2 DEF ConversationInv

LEMMA AsideSteps ==
    ASSUME ConversationInv,
           \/ Abort \/ ReopenRow \/ Fail \/ CheckReply \/ CreateReply
           \/ \E m \in Messages : Receive(m)
    PROVE  ConversationInv'
<1> USE DEF ConversationInv, RowTypeOK
<1>1. CASE Abort
  BY <1>1, AsidePreserves DEF Abort, HookInv
<1>2. CASE ReopenRow
  <2>1. hook' \in Hook /\ HookInv'
    BY <1>2 DEF ReopenRow, Hook, HookStages, HookInv
  <2>2. QED
    BY <1>2, <2>1, AsidePreserves DEF ReopenRow
<1>3. CASE Fail
  BY <1>3, Constants, AsidePreserves DEF Fail, HookInv, NoHook
<1>4. CASE CheckReply \/ CreateReply
  BY <1>4, AsidePreserves DEF CheckReply, CreateReply, HookInv
<1>5. CASE \E m \in Messages : Receive(m)
  <2>1. PICK m \in Messages : Receive(m)
    BY <1>5
  <2>2. hook' \in Hook /\ HookInv'
    BY <2>1 DEF Receive, Hook, HookStages, HookInv, Snapshot, row
  <2>3. QED
    BY <2>1, <2>2, AsidePreserves DEF Receive
<1>6. QED
  BY <1>1, <1>2, <1>3, <1>4, <1>5
-------------------------------------------------------------------------------
(* The webhook stores its message.                                         *)

Found  == IF hook.stage = "reopened" THEN Reopened ELSE conversation
Holder == IF hook.stage = "reopened" THEN None ELSE assigned

\* What the webhook goes on from, with its attendant.
LEMMA FoundFits ==
    ASSUME ConversationInv
    PROVE  Found \in Snapshot /\ Fits(Found, Holder # None)
<1>1. CASE hook.stage = "reopened"
  <2>1. hook.request \in Requests
    BY DEF ConversationInv, RowTypeOK, Hook
  <2>2. QED
    BY <1>1, <2>1, FirstContactFits DEF Found, Holder, Reopened
<1>2. CASE hook.stage # "reopened"
  BY <1>2 DEF Found, Holder, ConversationInv, RowTypeOK, AttendanceFits
<1>3. QED
  BY <1>1, <1>2

\* What the webhook writes: the row as found, or what the message makes of it.
LEMMA StoreRow ==
    ASSUME ConversationInv, Store
    PROVE  /\ conversation' \in Snapshot /\ Fits(conversation', assigned' # None)
           /\ assigned' = Holder /\ contextual' \in BOOLEAN
           /\ \/ conversation' = Found /\ version' = VersionAfter(hook.stage = "reopened", FALSE)
              \/ Holder = None /\ version' = VersionAfter(hook.stage = "reopened", TRUE)
<1> DEFINE reopens == hook.stage = "reopened"
           follows == contextual /\ ~reopens
<1>1. follows \in BOOLEAN /\ assigned' = Holder
  BY DEF Store, Holder, ConversationInv, RowTypeOK
<1>2. Found \in Snapshot /\ Fits(Found, Holder # None)
  BY FoundFits
<1>3. CASE /\ conversation' = Found /\ contextual' = follows
           /\ version' = VersionAfter(reopens, FALSE)
  BY <1>1, <1>2, <1>3
<1>4. CASE \E name \in ResumeNames(Found, follows) :
              /\ Permitted(Found, name)
              /\ conversation' = Resolved(Found, name, Found.department)
              /\ contextual' = (follows /\ name = "resume-awaited-reply")
              /\ version' = VersionAfter(reopens, TRUE)
  <2>1. PICK name \in ResumeNames(Found, follows) :
              /\ Permitted(Found, name)
              /\ conversation' = Resolved(Found, name, Found.department)
              /\ contextual' = (follows /\ name = "resume-awaited-reply")
              /\ version' = VersionAfter(reopens, TRUE)
    BY <1>4
  <2> DEFINE attended == Holder # None
  <2>2. attended \in BOOLEAN /\ Fits(Found, attended)
    BY <1>2
  <2> HIDE DEF attended, follows
  <2>3. conversation' \in Snapshot /\ Fits(conversation', attended) /\ ~attended
    BY <1>1, <1>2, <2>1, <2>2, ResumedFits
  <2>4. contextual' \in BOOLEAN
    BY <2>1
  <2>5. QED
    BY <1>1, <2>1, <2>3, <2>4 DEF attended
<1>5. QED
  BY <1>3, <1>4 DEF Store, Found

LEMMA StorePreserves == ConversationInv /\ Store => ConversationInv'
<1> SUFFICES ASSUME ConversationInv, Store PROVE ConversationInv'
  OBVIOUS
<1> DEFINE unseen == {m \in Messages : messages[m] = "unseen"}
<1>1. /\ hook.stage # "idle" /\ command = Nothing /\ version + 2 <= MaxVersion
      /\ unread' = unread + 1
      /\ messages' = [messages EXCEPT ![hook.message] = "unseen"]
      /\ hook' = NoHook /\ UNCHANGED <<command, reply, overtakes>>
  BY DEF Store, LockFree
<1>2. hook.message \in Messages /\ messages[hook.message] = "absent"
  BY <1>1 DEF ConversationInv, HookInv
<1>3. /\ conversation' \in Snapshot /\ AttendanceFits' /\ contextual' \in BOOLEAN
      /\ assigned' \in Users \cup {None}
  BY StoreRow DEF AttendanceFits, Holder, ConversationInv, RowTypeOK
<1>4. version' \in 1 .. MaxVersion
  BY <1>1, StoreRow, ConversationAssumption DEF VersionAfter, ConversationInv, RowTypeOK
<1>5. messages' \in [Messages -> {"absent", "unseen", "seen"}]
  BY <1>1 DEF ConversationInv, RowTypeOK
<1>6. {m \in Messages : messages'[m] = "unseen"} = unseen \cup {hook.message}
  BY <1>1, <1>2 DEF ConversationInv, RowTypeOK
<1>7. Cardinality(unseen \cup {hook.message}) = Cardinality(unseen) + 1
  BY <1>2, UnseenFinite, FS_AddElement
<1>8. UnreadIsExact' /\ unread' \in 0 .. Cardinality(Messages)
  <2>1. unread = Cardinality(unseen)
    BY DEF ConversationInv, UnreadIsExact
  <2>2. unread' = Cardinality({m \in Messages : messages'[m] = "unseen"})
    BY <1>1, <1>6, <1>7, <2>1
  <2>3. Cardinality({m \in Messages : messages'[m] = "unseen"}) \in 0 .. Cardinality(Messages)
    BY UnseenFinite
  <2>4. QED
    BY <2>2, <2>3 DEF UnreadIsExact
<1>9. RowTypeOK'
  BY <1>1, <1>3, <1>4, <1>5, <1>8, Constants DEF ConversationInv, RowTypeOK
<1>10. LockInv' /\ HookInv'
  BY <1>1 DEF LockInv, HookInv, NoHook
<1>11. QED
  BY <1>3, <1>8, <1>9, <1>10 DEF ConversationInv
-------------------------------------------------------------------------------
LEMMA InvInductive == ConversationInv /\ [RowNext]_rowVars => ConversationInv'
<1> SUFFICES ASSUME ConversationInv, [RowNext]_rowVars PROVE ConversationInv'
  OBVIOUS
<1>1. CASE \E u \in Users \cup {None}, name \in Names, p \in Departments : Begin(u, name, p)
  BY <1>1, BeginPreserves
<1>2. CASE Commit
  BY <1>2, CommitPreserves
<1>3. CASE Store
  BY <1>3, StorePreserves
<1>4. CASE \/ Abort \/ ReopenRow \/ Fail \/ CheckReply \/ CreateReply
           \/ \E m \in Messages : Receive(m)
  BY <1>4, AsideSteps
<1>5. CASE UNCHANGED rowVars
  <2>1. hook' \in Hook /\ HookInv' /\ reply' \in {"idle", "checked"}
    BY <1>5 DEF rowVars, ConversationInv, RowTypeOK, HookInv
  <2>2. QED
    BY <1>5, <2>1, AsidePreserves DEF rowVars
<1>6. QED
  BY <1>1, <1>2, <1>3, <1>4, <1>5 DEF RowNext

LEMMA RowInvariance == RowSpec => []ConversationInv
<1>1. QED
  BY RowInitInv, InvInductive, PTL DEF RowSpec

\* The row, the transactions on it and the messages keep their types, however
\* many attendants, messages and versions there are.
THEOREM RowTypeCorrect == RowSpec => []RowTypeOK
<1>1. ConversationInv => RowTypeOK
  BY DEF ConversationInv
<1>2. QED
  BY <1>1, RowInvariance, PTL

\* Whatever transactions of attendants, automation and customers overlap,
\* state, step and attendant of the row fit together.
THEOREM RowAlwaysFits == RowSpec => []AttendanceFits
<1>1. ConversationInv => AttendanceFits
  BY DEF ConversationInv
<1>2. QED
  BY <1>1, RowInvariance, PTL

\* No overlap of a command that writes the unread counter back and a webhook
\* that increments it loses or invents an unread message.
THEOREM UnreadAlwaysExact == RowSpec => []UnreadIsExact
<1>1. ConversationInv => UnreadIsExact
  BY DEF ConversationInv
<1>2. QED
  BY <1>1, RowInvariance, PTL

\* A version of the row stands for one state and attendant.
THEOREM VersionsNameStates == RowSpec => VersionNamesState
<1> DEFINE Kept == /\ version' >= version
                   /\ version' = version => conversation' = conversation
                                            /\ assigned' = assigned
<1>1. ConversationInv /\ [RowNext]_rowVars => [Kept]_rowVars
  <2> SUFFICES ASSUME ConversationInv, RowNext PROVE Kept
    OBVIOUS
  <2>1. version \in Nat
    BY ConversationAssumption DEF ConversationInv, RowTypeOK
  <2>2. CASE Commit
    BY <2>1, <2>2 DEF Commit
  <2>3. CASE Store
    <3>1. CASE hook.stage = "reopened"
      BY <2>1, <2>3, <3>1, StoreRow DEF VersionAfter
    <3>2. CASE hook.stage # "reopened"
      BY <2>1, <2>3, <3>2, StoreRow DEF VersionAfter, Found, Holder
    <3>3. QED
      BY <3>1, <3>2
  <2>4. CASE UNCHANGED row
    BY <2>1, <2>4 DEF row
  <2>5. QED
    BY <2>2, <2>3, <2>4
    DEF RowNext, Begin, Abort, Receive, ReopenRow, Fail, CheckReply, CreateReply
<1>2. QED
  BY <1>1, RowInvariance, PTL DEF RowSpec, VersionNamesState

\* Only the webhook that stores its message ends with a higher unread counter.
LEMMA OnlyStoreCounts ==
    ASSUME ConversationInv, [RowNext]_rowVars,
           hook.stage = "open", hook' = NoHook, unread' > unread
    PROVE  Store
<1>1. unread \in Nat /\ hook # NoHook
  BY Constants DEF ConversationInv, RowTypeOK, NoHook
<1>2. ~Commit
  BY <1>1 DEF Commit
<1>3. ~UNCHANGED unread
  BY <1>1
<1>4. QED
  BY <1>2, <1>3
  DEF RowNext, rowVars, row, Begin, Abort, Receive, ReopenRow, Fail, CheckReply, CreateReply

\* A message stored in a conversation that was open when the webhook read it
\* neither answers for the person who attends it nor takes it from them.
THEOREM AttendantIsKept == RowSpec => MessageKeepsAttendant
<1> DEFINE Stored == /\ hook.stage = "open" /\ hook' = NoHook /\ unread' > unread
                     /\ conversation.conversationState = "human-active"
           Kept   == conversation' = conversation /\ assigned' = assigned
<1>1. ConversationInv /\ [RowNext]_rowVars => [Stored => Kept]_rowVars
  <2> SUFFICES ASSUME ConversationInv, [RowNext]_rowVars, Stored PROVE Kept
    OBVIOUS
  <2>1. Store
    BY OnlyStoreCounts
  <2>2. Found = conversation /\ Holder = assigned
    BY DEF Found, Holder
  <2>3. assigned # None
    BY DEF ConversationInv, AttendanceFits, Fits
  <2>4. QED
    BY <2>1, <2>2, <2>3, StoreRow
<1>2. QED
  BY <1>1, RowInvariance, PTL DEF RowSpec, MessageKeepsAttendant

(***************************************************************************)
(* The commercial cycle.                                                   *)
(***************************************************************************)

\* The requests after the latest one are unused.
QuotesAhead == \A q \in Numbers : q > current => quotes[q].status = "not-started"

\* A document belongs to a request of the conversation.
DocumentsAttached ==
    \A d \in Documents : documents[d].status # "absent" => documents[d].quote \in 1 .. current

\* A reconciliation that will complete a batch, and that nothing has overtaken,
\* still finds the request under review.
OperatorInv ==
    operator.document # None =>
        /\ documents[operator.document].status # "absent"
        /\ operator.completes /\ ~operator.stale =>
              quotes[documents[operator.document].quote].status = "under-review"

QuoteInv == /\ TypeOK /\ AttendanceFits /\ RequestFollowsQuote
            /\ QuotesAhead /\ DocumentsAttached /\ OperatorInv
-------------------------------------------------------------------------------
(* What a step makes of the conversation and of its requests.              *)

ConversationKept == /\ conversation' \in Snapshot /\ AttendanceFits'
                    /\ assigned' \in Users \cup {None} /\ contextual' \in BOOLEAN

QuotesKept == /\ quotes' \in [Numbers -> Quote] /\ current' \in 0 .. MaxQuotes
              /\ current <= current'
              /\ RequestFollowsQuote' /\ QuotesAhead'

\* No decision is taken back.
FinalKept == \A q \in Numbers : quotes[q].status \in Final =>
                                   quotes'[q].status = quotes[q].status

LEMMA Bounds == /\ MaxQuotes \in Nat /\ Numbers \subseteq Nat \ {0}
                /\ \A q : q \in Numbers <=> q \in Nat /\ 1 <= q /\ q <= MaxQuotes
  BY QuoteAssumption DEF Numbers

LEMMA InitInv == Init => QuoteInv
<1> SUFFICES ASSUME Init PROVE QuoteInv
  OBVIOUS
<1>1. conversation \in Snapshot /\ Fits(conversation, FALSE)
  <2>1. FirstContact = [FirstContact EXCEPT !.requestStatus = "not-started"]
    BY DEF FirstContact
  <2>2. QED
    BY <2>1, FirstContactFits DEF Init, Requests
<1>2. quotes \in [Numbers -> Quote] /\ current \in 0 .. MaxQuotes
  BY Bounds DEF Init, Quote, Requests
<1>3. documents \in [Documents -> Document]
  BY QuoteAssumption DEF Init, Document, Unused, DocumentStatus, Deliveries
<1>4. operator \in Operator
  BY DEF Init, Operator, Away
<1>5. spent \in [isolations : 0 .. MaxIsolations, overlaps : 0 .. MaxOverlaps]
  BY QuoteAssumption DEF Init
<1>6. TypeOK /\ AttendanceFits
  BY <1>1, <1>2, <1>3, <1>4, <1>5 DEF Init, TypeOK, AttendanceFits
<1>7. RequestFollowsQuote /\ QuotesAhead
  BY DEF Init, RequestFollowsQuote, QuotesAhead, FirstContact
<1>8. DocumentsAttached /\ OperatorInv
  BY DEF Init, DocumentsAttached, OperatorInv, Unused, Away
<1>9. QED
  BY <1>6, <1>7, <1>8 DEF QuoteInv
-------------------------------------------------------------------------------
LEMMA TransitionConversation ==
    ASSUME QuoteInv, NEW u \in Users \cup {None}, NEW name \in TransitionNames,
           NEW target \in Departments, Transition(u, name, target)
    PROVE  /\ ConversationKept
           /\ conversation' = Resolved(conversation, name, target)
           /\ Permitted(conversation, name)
<1> DEFINE to == Resolved(conversation, name, target)
           attended == assigned # None
<1>1. /\ Permitted(conversation, name)
      /\ conversation' = to /\ assigned' = AssignedBy(u, name, to)
      /\ to.conversationState = "human-active" => assigned' # None
      /\ contextual' = ContextualAfter(name, to)
  BY DEF Transition
<1>2. conversation \in Snapshot /\ attended \in BOOLEAN /\ Fits(conversation, attended)
  BY DEF QuoteInv, TypeOK, AttendanceFits
<1> HIDE DEF attended
<1>3. WellFormed(to)
  BY <1>1, <1>2, ResolvedFits
<1>4. to.conversationState = "human-active" <=> assigned' # None
  BY <1>1 DEF AssignedBy
<1>5. conversation' \in Snapshot /\ AttendanceFits'
  BY <1>1, <1>3, <1>4 DEF WellFormed, Fits, AttendanceFits
<1>6. assigned' \in Users \cup {None}
  BY <1>1 DEF AssignedBy, QuoteInv, TypeOK
<1>7. contextual' \in BOOLEAN
  BY <1>1 DEF ContextualAfter, QuoteInv, TypeOK
<1>8. QED
  BY <1>1, <1>5, <1>6, <1>7 DEF ConversationKept

\* A request of the conversation that is opened, and the one before it.
LEMMA OpeningQuotes ==
    ASSUME QuoteInv, NEW u \in Users \cup {None}, NEW name \in TransitionNames,
           NEW target \in Departments, Transition(u, name, target), OpensQuote(name)
    PROVE  QuotesKept /\ FinalKept
<1>1. /\ current < MaxQuotes /\ current' = current + 1
      /\ quotes' = [s \in Numbers |->
            IF s = current + 1 THEN [status |-> "collecting-information", confirmed |-> FALSE]
            ELSE IF /\ s = current /\ name = "new-quote-request"
                    /\ quotes[s].status = "under-review"
                 THEN [quotes[s] EXCEPT !.status = "cancelled"]
            ELSE quotes[s]]
  BY DEF Transition, QuotesAfter
<1>2. /\ quotes \in [Numbers -> Quote] /\ current \in Nat /\ conversation \in Snapshot
      /\ RequestFollowsQuote /\ QuotesAhead
  BY Bounds DEF QuoteInv, TypeOK
<1>3. Permitted(conversation, name) /\ name \in {"start-quote", "new-quote-request"}
  BY DEF Transition, OpensQuote
<1>4. conversation'.requestStatus = "collecting-information"
  BY <1>2, <1>3, TransitionConversation, ResolvedRequest DEF Requesting
<1>5. quotes' \in [Numbers -> Quote] /\ current' \in 0 .. MaxQuotes /\ current <= current'
  BY <1>1, <1>2, Bounds DEF Quote, Requests
<1>6. QuotesAhead'
  <2>1. ASSUME NEW q \in Numbers, q > current' PROVE quotes'[q].status = "not-started"
    <3>1. q > current /\ q # current + 1 /\ q # current
      BY <1>1, <1>2, <2>1, Bounds
    <3>2. quotes'[q] = quotes[q]
      BY <1>1, <3>1
    <3>3. QED
      BY <1>2, <3>1, <3>2 DEF QuotesAhead
  <2>2. QED
    BY <2>1 DEF QuotesAhead
<1>7. current + 1 \in Numbers /\ quotes'[current + 1].status = "collecting-information"
  BY <1>1, <1>2, Bounds
<1>8. name = "start-quote" => current = 0 \/ quotes[current].status = "not-started"
  BY <1>2, <1>3 DEF Permitted, RequestFollowsQuote
<1>9. ASSUME NEW q \in 1 .. current' PROVE quotes'[q].status = "under-review" => q = current'
  <2>1. CASE q = current + 1
    BY <1>1, <2>1
  <2>2. CASE q # current + 1
    <3>1. q \in 1 .. current /\ q \in Numbers
      BY <1>1, <1>2, <2>2, Bounds
    <3>2. CASE q = current
      BY <1>1, <1>2, <1>3, <1>8, <3>1, <3>2 DEF Quote
    <3>3. CASE q # current
      BY <1>1, <1>2, <3>1, <3>3, <2>2 DEF RequestFollowsQuote
    <3>4. QED
      BY <3>2, <3>3
  <2>3. QED
    BY <2>1, <2>2
<1>10. RequestFollowsQuote'
  BY <1>1, <1>2, <1>4, <1>7, <1>9 DEF RequestFollowsQuote
<1>11. FinalKept
  BY <1>1, <1>2 DEF FinalKept, Final, QuotesAhead, Quote
<1>12. QED
  BY <1>5, <1>6, <1>10, <1>11 DEF QuotesKept
\* A request that gets another status, shown with the conversation if it is
\* the latest one.
LEMMA StatusSet ==
    ASSUME QuoteInv, NEW q \in 1 .. current, NEW s \in Requests,
           quotes' \in [Numbers -> Quote], quotes'[q].status = s,
           \A p \in Numbers \ {q} : quotes'[p] = quotes[p],
           current' = current, q # current => s # "under-review",
           conversation'.requestStatus = IF q = current THEN s ELSE conversation.requestStatus
    PROVE  QuotesKept /\ (quotes[q].status \notin Final => FinalKept)
<1>1. /\ current \in Nat /\ current \in 0 .. MaxQuotes /\ q \in Numbers
      /\ RequestFollowsQuote /\ QuotesAhead
      /\ \A p \in 1 .. current : p \in Numbers
  BY Bounds DEF QuoteInv, TypeOK
<1>2. QuotesAhead'
  BY <1>1, Bounds DEF QuotesAhead
<1>3. current # 0 /\ current \in 1 .. current
  BY <1>1
<1>4. conversation'.requestStatus = quotes'[current].status
  BY <1>1, <1>3 DEF RequestFollowsQuote
<1>5. \A p \in 1 .. current : quotes'[p].status = "under-review" => p = current
  BY <1>1 DEF RequestFollowsQuote
<1>6. RequestFollowsQuote'
  BY <1>3, <1>4, <1>5 DEF RequestFollowsQuote
<1>7. quotes[q].status \notin Final => FinalKept
  BY <1>1 DEF FinalKept
<1>8. QED
  BY <1>1, <1>2, <1>6, <1>7 DEF QuotesKept

\* The requests stay as they are, and so does what the conversation shows.
LEMMA QuotesUnchanged ==
    ASSUME QuoteInv, UNCHANGED <<quotes, current>>,
           conversation'.requestStatus = conversation.requestStatus
    PROVE  QuotesKept /\ FinalKept
  BY Bounds DEF QuoteInv, TypeOK, QuotesKept, FinalKept, RequestFollowsQuote, QuotesAhead

LEMMA MovingQuotes ==
    ASSUME QuoteInv, NEW u \in Users \cup {None}, NEW name \in TransitionNames,
           NEW target \in Departments, Transition(u, name, target), MovesQuote(name)
    PROVE  QuotesKept /\ FinalKept
<1> DEFINE to == Resolved(conversation, name, target)
           s  == to.requestStatus
<1>1. /\ name \in {"present-quote-summary", "correct-quote", "confirm-quote"}
      /\ current \in Nat /\ current > 0 /\ current' = current /\ conversation' = to
      /\ Permitted(conversation, name) /\ conversation \in Snapshot
      /\ quotes \in [Numbers -> Quote] /\ RequestFollowsQuote
  BY Bounds DEF Transition, MovesQuote, OpensQuote, QuoteInv, TypeOK
<1>2. quotes' = [quotes EXCEPT ![current] =
            [status |-> s, confirmed |-> @.confirmed \/ name = "confirm-quote"]]
  BY <1>1 DEF Transition, QuotesAfter, MovesQuote, OpensQuote
<1>3. s \in Requests
  BY <1>1, TransitionConversation DEF ConversationKept, Snapshot
<1>4. current \in Numbers /\ current \in 1 .. current
  BY <1>1, Bounds DEF QuoteInv, TypeOK
<1> HIDE DEF s
<1>5. /\ quotes' \in [Numbers -> Quote] /\ quotes'[current].status = s
      /\ \A p \in Numbers \ {current} : quotes'[p] = quotes[p]
  BY <1>1, <1>2, <1>3, <1>4 DEF Quote
<1>6. quotes[current].status = conversation.requestStatus
  BY <1>1 DEF RequestFollowsQuote
<1>7. conversation.requestStatus \in {"collecting-information", "waiting-for-customer"}
  BY <1>1 DEF Permitted, InSummary
<1>8. quotes[current].status \notin Final
  BY <1>6, <1>7 DEF Final
<1>9. conversation'.requestStatus = s
  BY <1>1 DEF s
<1>10. QED
  BY <1>1, <1>3, <1>4, <1>5, <1>8, <1>9, StatusSet

\* A transition by an attendant or by the automation, other than the
\* confirmation of a delivery by name.
LEMMA TransitionKeeps ==
    ASSUME QuoteInv, NEW u \in Users \cup {None}, NEW name \in TransitionNames,
           NEW target \in Departments, Transition(u, name, target),
           name # "proposal-delivery-confirmed"
    PROVE  ConversationKept /\ QuotesKept /\ FinalKept
<1>1. CASE OpensQuote(name)
  BY <1>1, OpeningQuotes, TransitionConversation
<1>2. CASE MovesQuote(name)
  BY <1>2, MovingQuotes, TransitionConversation
<1>3. CASE ~OpensQuote(name) /\ ~MovesQuote(name)
  <2>1. UNCHANGED <<quotes, current>>
    BY <1>3 DEF Transition, QuotesAfter
  <2>2. conversation \in Snapshot /\ name \notin Requesting
    BY <1>3 DEF QuoteInv, TypeOK, OpensQuote, MovesQuote, Requesting
  <2>3. conversation'.requestStatus = conversation.requestStatus
    BY <2>2, TransitionConversation, ResolvedRequest DEF Requesting
  <2>4. QED
    BY <2>1, <2>3, QuotesUnchanged, TransitionConversation
<1>4. QED
  BY <1>1, <1>2, <1>3
-------------------------------------------------------------------------------
(* Messages of the customer.                                               *)

LEMMA CustomerKeeps ==
    ASSUME QuoteInv, Customer
    PROVE  ConversationKept /\ QuotesKept /\ FinalKept
<1> DEFINE attended == assigned # None
<1>1. conversation \in Snapshot /\ attended \in BOOLEAN /\ Fits(conversation, attended)
  BY DEF QuoteInv, TypeOK, AttendanceFits
<1>2. CASE Reopen
  <2>1. conversation' = Resolved(conversation, "reopen-after-customer-message", "commercial")
        /\ assigned' = None /\ contextual' = FALSE /\ UNCHANGED <<quotes, current>>
    BY <1>2 DEF Reopen
  <2>2. conversation' = To(Commercial(conversation), "bot-active", "main-menu")
    BY <2>1 DEF Resolved, ClosingTransitions
  <2>3. Shape(conversation', "bot-active", "main-menu", "none")
    BY <1>1, <2>2, CommercialTyped, ToShape DEF States, Steps
  <2>4. conversation' \in Snapshot /\ Fits(conversation', FALSE)
    BY <2>3 DEF Shape, Fits, Open, Bot, NotOfTheBot
  <2>5. conversation'.requestStatus = conversation.requestStatus
    BY <1>1, <2>1, DepartmentAssumption, ResolvedRequest
    DEF Requesting, TransitionNames, WebhookTransitions
  <2>6. QED
    BY <2>1, <2>4, <2>5, QuotesUnchanged DEF ConversationKept, AttendanceFits
<1>3. CASE Resume
  <2>1. PICK name \in ResumeNames(conversation, contextual) :
           /\ Permitted(conversation, name)
           /\ conversation' = Resolved(conversation, name, conversation.department)
           /\ contextual' = (contextual /\ name = "resume-awaited-reply")
           /\ UNCHANGED <<assigned, quotes, current, documents>>
    BY <1>3 DEF Resume
  <2> HIDE DEF attended
  <2>2. contextual \in BOOLEAN
    BY DEF QuoteInv, TypeOK
  <2>3. /\ name \in TransitionNames
        /\ conversation' \in Snapshot /\ Fits(conversation', attended)
    BY <1>1, <2>1, <2>2, ResumedFits
  <2>4. name \notin Requesting /\ conversation.department \in Departments
    BY <1>1, <2>1 DEF ResumeNames, Requesting, Snapshot
  <2>5. conversation'.requestStatus = conversation.requestStatus
    BY <1>1, <2>1, <2>3, <2>4, ResolvedRequest DEF Requesting
  <2>6. QED
    BY <2>1, <2>3, <2>5, QuotesUnchanged
    DEF ConversationKept, AttendanceFits, attended, QuoteInv, TypeOK
<1>4. QED
  BY <1>2, <1>3 DEF Customer
-------------------------------------------------------------------------------
(* Proposals.                                                              *)

LEMMA CreateKeeps ==
    ASSUME QuoteInv, NEW u \in Users, CreateProposal(u)
    PROVE  ConversationKept /\ QuotesKept /\ FinalKept
<1>1. /\ current < MaxQuotes /\ current' = current + 1 /\ contextual' = FALSE
      /\ quotes' = [quotes EXCEPT ![current + 1] = [status |-> "under-review", confirmed |-> TRUE]]
      /\ conversation' = Proposed(conversation) /\ assigned' = u
      /\ current > 0 => quotes[current].status # "under-review"
  BY DEF CreateProposal, SendPending
<1>2. /\ quotes \in [Numbers -> Quote] /\ current \in Nat /\ conversation \in Snapshot
      /\ RequestFollowsQuote /\ QuotesAhead
  BY Bounds DEF QuoteInv, TypeOK
<1>3. ConversationKept
  BY <1>1, <1>2, ProposedFits, QuoteAssumption DEF ConversationKept, AttendanceFits
<1>4. quotes' \in [Numbers -> Quote] /\ current' \in 0 .. MaxQuotes /\ current <= current'
  BY <1>1, <1>2, Bounds DEF Quote, Requests
<1>5. current + 1 \in Numbers /\ quotes'[current + 1].status = "under-review"
  BY <1>1, <1>2, Bounds
<1>6. QuotesAhead'
  BY <1>1, <1>2, Bounds DEF QuotesAhead
<1>7. conversation'.requestStatus = "under-review"
  BY <1>1, <1>2 DEF Proposed, Snapshot
<1>8. ASSUME NEW q \in 1 .. current' PROVE quotes'[q].status = "under-review" => q = current'
  <2>1. CASE q = current + 1
    BY <1>1, <2>1
  <2>2. CASE q # current + 1
    <3>1. q \in 1 .. current /\ quotes'[q] = quotes[q]
      BY <1>1, <1>2, <2>2, Bounds
    <3>2. QED
      BY <1>1, <1>2, <3>1 DEF RequestFollowsQuote
  <2>3. QED
    BY <2>1, <2>2
<1>9. RequestFollowsQuote'
  BY <1>1, <1>2, <1>5, <1>7, <1>8 DEF RequestFollowsQuote
<1>10. FinalKept
  BY <1>1, <1>2, <1>5, Bounds DEF FinalKept, Final, QuotesAhead
<1>11. QED
  BY <1>3, <1>4, <1>6, <1>9, <1>10 DEF QuotesKept

\* SetStatus gives one request its status.
LEMMA SetOne ==
    ASSUME QuoteInv, NEW q \in 1 .. current, NEW s \in Requests, SetStatus(q, s)
    PROVE  /\ quotes' \in [Numbers -> Quote] /\ quotes'[q].status = s
           /\ \A p \in Numbers \ {q} : quotes'[p] = quotes[p]
<1>1. q \in Numbers /\ quotes \in [Numbers -> Quote]
  BY Bounds DEF QuoteInv, TypeOK
<1>2. QED
  BY <1>1 DEF SetStatus, Quote

LEMMA DecideKeeps ==
    ASSUME QuoteInv, NEW q \in 1 .. current, NEW decision \in Final, Decide(q, decision)
    PROVE  ConversationKept /\ QuotesKept /\ FinalKept
<1> DEFINE attended == assigned # None
<1>1. /\ decision \in Requests /\ decision # "under-review"
      /\ SetStatus(q, decision) /\ current' = current /\ assigned' = assigned
      /\ contextual' = contextual /\ quotes[q].status \notin Final
      /\ conversation' = IF q = current
                         THEN [conversation EXCEPT !.requestStatus = decision]
                         ELSE conversation
  BY DEF Decide, MayDecide, Final, Requests
<1>2. conversation \in Snapshot /\ attended \in BOOLEAN /\ Fits(conversation, attended)
  BY DEF QuoteInv, TypeOK, AttendanceFits
<1> HIDE DEF attended
<1>3. conversation' \in Snapshot /\ Fits(conversation', attended)
  BY <1>1, <1>2, RequestFits
<1>4. ConversationKept
  BY <1>1, <1>3 DEF ConversationKept, AttendanceFits, attended, QuoteInv, TypeOK
<1>5. conversation'.requestStatus = IF q = current THEN decision ELSE conversation.requestStatus
  BY <1>1, <1>2 DEF Snapshot
<1>6. QED
  BY <1>1, <1>4, <1>5, SetOne, StatusSet

LEMMA UpdateKeeps ==
    ASSUME QuoteInv, NEW u \in Users,
           NEW s \in {"under-review", "waiting-for-customer", "cancelled"}, UpdateStatus(u, s)
    PROVE  ConversationKept /\ QuotesKept /\ FinalKept
<1> DEFINE attended == assigned # None
<1>1. /\ s \in Requests /\ current > 0 /\ SetStatus(current, s) /\ current' = current
      /\ assigned' = assigned /\ contextual' = contextual /\ quotes[current].status \notin Final
      /\ conversation' = [conversation EXCEPT !.requestStatus = s]
  BY DEF UpdateStatus, Requests
<1>2. /\ conversation \in Snapshot /\ attended \in BOOLEAN /\ Fits(conversation, attended)
      /\ current \in 1 .. current
  BY <1>1, Bounds DEF QuoteInv, TypeOK, AttendanceFits
<1> HIDE DEF attended
<1>3. conversation' \in Snapshot /\ Fits(conversation', attended)
  BY <1>1, <1>2, RequestFits
<1>4. ConversationKept
  BY <1>1, <1>3 DEF ConversationKept, AttendanceFits, attended, QuoteInv, TypeOK
<1>5. conversation'.requestStatus = s
  BY <1>1, <1>2 DEF Snapshot
<1>6. QED
  BY <1>1, <1>2, <1>4, <1>5, SetOne, StatusSet

LEMMA SendKeeps ==
    ASSUME QuoteInv, NEW u \in Users, NEW b \in Batches, NEW B \in SUBSET Documents,
           NEW d \in B, Send(u, d, B, b)
    PROVE  ConversationKept /\ QuotesKept /\ FinalKept
<1>1. /\ current > 0 /\ SetStatus(current, "under-review") /\ current' = current
      /\ conversation' = Proposed(conversation) /\ assigned' = u /\ contextual' = contextual
      /\ quotes[current].status \in {"under-review", "waiting-for-customer"}
  BY DEF Send, AcceptsDocuments, SendPending
<1>2. /\ conversation \in Snapshot /\ contextual \in BOOLEAN /\ current \in 1 .. current
      /\ "under-review" \in Requests
  BY <1>1, Bounds DEF QuoteInv, TypeOK, Requests
<1>3. ConversationKept
  BY <1>1, <1>2, ProposedFits, QuoteAssumption DEF ConversationKept, AttendanceFits
<1>4. conversation'.requestStatus = "under-review"
  BY <1>1, <1>2 DEF Proposed, Snapshot
<1>5. quotes[current].status \notin Final
  BY <1>1 DEF Final
<1>6. QED
  BY <1>1, <1>2, <1>3, <1>4, <1>5, SetOne, StatusSet

\* The confirmation of a batch, by a result or by an operator.
LEMMA CompleteKeeps ==
    ASSUME QuoteInv, NEW d \in Documents, CompleteBatch(d), current' = current,
           documents[d].status # "absent",
           quotes[documents[d].quote].status = "under-review"
    PROVE  ConversationKept /\ QuotesKept /\ FinalKept
<1> DEFINE q == documents[d].quote
<1>1. q \in 1 .. current
  BY DEF QuoteInv, DocumentsAttached
<1>2. q = current
  BY <1>1 DEF QuoteInv, RequestFollowsQuote
<1>3. /\ SetStatus(q, "waiting-for-customer") /\ assigned' = None /\ contextual' = FALSE
      /\ conversation' = Resolved(conversation, "proposal-delivery-confirmed", "commercial")
      /\ conversation \in Snapshot /\ "waiting-for-customer" \in Requests
  BY DEF CompleteBatch, Confirmed, QuoteInv, TypeOK, Requests
<1>4. conversation' = [To(conversation, "waiting-for-customer", "quote-send-pending")
                        EXCEPT !.requestStatus = "waiting-for-customer"]
  BY <1>3 DEF Resolved, ClosingTransitions
<1>5. Shape(conversation', "waiting-for-customer", "quote-send-pending", "none")
  BY <1>3, <1>4, ToShape, RequestShape DEF States, Steps
<1>6. conversation' \in Snapshot /\ Fits(conversation', FALSE)
  BY <1>5 DEF Shape, Fits, Open, Bot, NotOfTheBot
<1>7. ConversationKept
  BY <1>3, <1>6 DEF ConversationKept, AttendanceFits
<1>8. conversation'.requestStatus = "waiting-for-customer"
  BY <1>3, DepartmentAssumption, ResolvedRequest
  DEF Requesting, TransitionNames, SystemTransitions
<1>9. quotes[q].status \notin Final
  BY DEF Final
<1> HIDE DEF q
<1>10. QED
  BY <1>1, <1>2, <1>3, <1>7, <1>8, <1>9, SetOne, StatusSet
-------------------------------------------------------------------------------
(* Documents.                                                              *)

\* A document that exists stays with its request, and a new one belongs to a
\* request of the conversation.
DocumentsKept ==
    /\ documents' \in [Documents -> Document]
    /\ \A d \in Documents :
          IF documents[d].status # "absent"
          THEN documents'[d].status # "absent" /\ documents'[d].quote = documents[d].quote
          ELSE documents'[d].status # "absent" => documents'[d].quote \in 1 .. current

LEMMA SettledKept ==
    ASSUME QuoteInv, NEW d \in Documents, NEW s \in DocumentStatus \ {"absent"},
           documents[d].status # "absent", documents' = Settled(d, s)
    PROVE  DocumentsKept
  BY DEF QuoteInv, TypeOK, DocumentsKept, Settled, Document, Deliveries

LEMMA DeliveryKept ==
    ASSUME QuoteInv, NEW d \in Documents, NEW v \in Deliveries,
           documents' = [documents EXCEPT ![d].delivery = v]
    PROVE  DocumentsKept
<1>1. documents \in [Documents -> Document] /\ documents[d] \in Document
  BY DEF QuoteInv, TypeOK
<1>2. documents' \in [Documents -> Document]
  BY <1>1 DEF Document
<1>3. /\ documents'[d].status = documents[d].status
      /\ documents'[d].quote = documents[d].quote
      /\ \A e \in Documents \ {d} : documents'[e] = documents[e]
  BY <1>1 DEF Document
<1>4. DocumentsAttached
  BY DEF QuoteInv
<1>5. QED
  BY <1>2, <1>3, <1>4 DEF DocumentsKept, DocumentsAttached

LEMMA SendDocuments ==
    ASSUME QuoteInv, NEW u \in Users, NEW b \in Batches, NEW B \in SUBSET Documents,
           NEW d \in B, Send(u, d, B, b)
    PROVE  DocumentsKept
<1>1. /\ documents[d].status \in {"uploaded", "failed"}
      /\ documents' = [e \in Documents |->
            IF e = d THEN [documents[e] EXCEPT !.status = "queued", !.batch = b,
                                               !.delivery = "requested"]
            ELSE IF e \in B THEN [documents[e] EXCEPT !.batch = b]
            ELSE documents[e]]
  BY DEF Send
<1>2. documents \in [Documents -> Document]
  BY DEF QuoteInv, TypeOK
<1>3. ASSUME NEW e \in Documents
      PROVE  /\ documents'[e] \in Document
             /\ documents'[e].quote = documents[e].quote
             /\ documents'[e].status = "absent" <=> documents[e].status = "absent"
  BY <1>1, <1>2 DEF Document, DocumentStatus, Deliveries
<1>4. documents' \in [Documents -> Document]
  BY <1>1, <1>3
<1>5. QED
  BY <1>3, <1>4 DEF DocumentsKept

LEMMA UploadDocuments ==
    ASSUME QuoteInv, NEW d \in Documents, Upload(d)
    PROVE  DocumentsKept
<1>1. /\ documents[d].status = "absent" /\ current > 0
      /\ documents' = [documents EXCEPT ![d] =
                          [Unused EXCEPT !.quote = current, !.status = "uploaded"]]
  BY DEF Upload, AcceptsDocuments
<1>2. documents \in [Documents -> Document] /\ current \in 0 .. MaxQuotes
      /\ current \in 1 .. current
  BY <1>1, Bounds DEF QuoteInv, TypeOK
<1>3. [Unused EXCEPT !.quote = current, !.status = "uploaded"] \in Document
      /\ [Unused EXCEPT !.quote = current, !.status = "uploaded"].quote = current
  BY <1>2 DEF Unused, Document, DocumentStatus, Deliveries
<1>4. documents' \in [Documents -> Document]
  BY <1>1, <1>2, <1>3
<1>5. ASSUME NEW e \in Documents, documents'[e].status # "absent",
             documents[e].status = "absent"
      PROVE  documents'[e].quote \in 1 .. current
  BY <1>1, <1>2, <1>3, <1>5
<1>6. ASSUME NEW e \in Documents, documents[e].status # "absent"
      PROVE  documents'[e] = documents[e]
  BY <1>1, <1>2, <1>6
<1>7. QED
  BY <1>4, <1>5, <1>6 DEF DocumentsKept

LEMMA DocumentsUnchanged == QuoteInv /\ UNCHANGED documents => DocumentsKept
  BY DEF QuoteInv, TypeOK, DocumentsKept

\* Conversation, requests and documents kept, and an operator who knows what
\* was overtaken: the invariant holds.
LEMMA KeptInv ==
    ASSUME QuoteInv, ConversationKept, QuotesKept, DocumentsKept,
           operator' \in Operator, OperatorInv',
           spent' \in [isolations : 0 .. MaxIsolations, overlaps : 0 .. MaxOverlaps]
    PROVE  QuoteInv'
<1>1. TypeOK'
  BY DEF TypeOK, ConversationKept, QuotesKept, DocumentsKept
<1>2. current \in Nat /\ current' \in Nat /\ current <= current'
  BY Bounds DEF QuoteInv, TypeOK, QuotesKept
<1>3. DocumentsAttached'
  <2>1. ASSUME NEW d \in Documents, documents'[d].status # "absent"
        PROVE  documents'[d].quote \in 1 .. current
    BY <2>1 DEF DocumentsKept, QuoteInv, DocumentsAttached
  <2>2. QED
    BY <1>2, <2>1 DEF DocumentsAttached
<1>4. QED
  BY <1>1, <1>3 DEF QuoteInv, ConversationKept, QuotesKept

\* Beside a step that wrote versions, or that left the requests alone.
LEMMA BesideInv ==
    ASSUME QuoteInv, ConversationKept, QuotesKept, DocumentsKept,
           NEW versioned \in BOOLEAN, Beside(versioned), versioned \/ quotes' = quotes
    PROVE  QuoteInv'
<1>1. /\ operator \in Operator /\ OperatorInv
      /\ spent \in [isolations : 0 .. MaxIsolations, overlaps : 0 .. MaxOverlaps]
  BY DEF QuoteInv, TypeOK
<1>2. CASE operator = Away
  <2>1. operator' = operator /\ spent' = spent
    BY <1>2 DEF Beside
  <2>2. OperatorInv'
    BY <1>2, <2>1 DEF OperatorInv, Away
  <2>3. QED
    BY <1>1, <2>1, <2>2, KeptInv
<1>3. CASE operator # Away
  <2>1. /\ operator' = [operator EXCEPT !.stale = @ \/ versioned]
        /\ spent.overlaps < MaxOverlaps
        /\ spent' = [spent EXCEPT !.overlaps = @ + 1]
    BY <1>3 DEF Beside
  <2>2. operator' \in Operator /\ operator'.document = operator.document
        /\ operator'.completes = operator.completes
        /\ operator'.stale = (operator.stale \/ versioned)
    BY <1>1, <2>1 DEF Operator
  <2>3. spent' \in [isolations : 0 .. MaxIsolations, overlaps : 0 .. MaxOverlaps]
    BY <1>1, <2>1, QuoteAssumption
  <2>4. OperatorInv'
    <3>1. SUFFICES ASSUME operator.document # None
                   PROVE  /\ documents'[operator.document].status # "absent"
                          /\ operator.completes /\ ~operator.stale /\ ~versioned =>
                                quotes'[documents'[operator.document].quote].status = "under-review"
      BY <2>2 DEF OperatorInv
    <3>2. operator.document \in Documents /\ documents[operator.document].status # "absent"
      BY <1>1, <3>1 DEF Operator, OperatorInv
    <3>3. /\ documents'[operator.document].status # "absent"
          /\ documents'[operator.document].quote = documents[operator.document].quote
      BY <3>2 DEF DocumentsKept
    <3>4. QED
      BY <1>1, <3>1, <3>3 DEF OperatorInv
  <2>5. QED
    BY <2>2, <2>3, <2>4, KeptInv
<1>4. QED
  BY <1>2, <1>3
-------------------------------------------------------------------------------
-------------------------------------------------------------------------------
(* The steps.                                                              *)

AllKept == ConversationKept /\ QuotesKept /\ FinalKept /\ DocumentsKept

\* Nothing in the repository asks for the confirmation of a delivery by name:
\* it is recorded with a result.
Unasked == "proposal-delivery-confirmed" \notin Commands

LEMMA ProposalsKeep ==
    ASSUME QuoteInv, Proposals PROVE AllKept
<1> USE DEF AllKept
<1>1. CASE \E u \in Users : CreateProposal(u)
  BY <1>1, CreateKeeps, DocumentsUnchanged DEF CreateProposal
<1>2. CASE \E q \in 1 .. current, decision \in Final : Decide(q, decision)
  BY <1>2, DecideKeeps, DocumentsUnchanged DEF Decide
<1>3. CASE \E u \in Users, s \in {"under-review", "waiting-for-customer", "cancelled"} :
              UpdateStatus(u, s)
  BY <1>3, UpdateKeeps, DocumentsUnchanged DEF UpdateStatus
<1>4. CASE \E u \in Users, b \in Batches, B \in SUBSET Documents :
              \E d \in B : Send(u, d, B, b)
  BY <1>4, SendKeeps, SendDocuments
<1>5. CASE \E d \in Documents : RecordSentLast(d)
  <2>1. PICK d \in Documents : RecordSentLast(d)
    BY <1>5
  <2>2. /\ documents[d].status = "queued" /\ documents' = Settled(d, "sent")
        /\ quotes[documents[d].quote].status = "under-review"
        /\ CompleteBatch(d) /\ current' = current
    BY <2>1 DEF RecordSentLast, Recordable
  <2>3. DocumentsKept
    BY <2>2, SettledKept DEF DocumentStatus
  <2>4. QED
    BY <2>2, <2>3, CompleteKeeps
<1>6. QED
  BY <1>1, <1>2, <1>3, <1>4, <1>5 DEF Proposals

LEMMA VersionedKeep ==
    ASSUME QuoteInv, Unasked, Automation \/ Attendant \/ Customer \/ Proposals
    PROVE  AllKept
<1>1. CASE Automation \/ Attendant
  <2>1. PICK u \in Users \cup {None}, name \in Commands, p \in Departments :
           Transition(u, name, p)
    BY <1>1 DEF Automation, Attendant
  <2>2. name \in TransitionNames /\ name # "proposal-delivery-confirmed"
    BY QuoteAssumption DEF Unasked
  <2>3. QED
    BY <2>1, <2>2, TransitionKeeps, DocumentsUnchanged DEF Transition, AllKept
<1>2. CASE Customer
  BY <1>2, CustomerKeeps, DocumentsUnchanged DEF Customer, Reopen, Resume, AllKept
<1>3. QED
  BY <1>1, <1>2, ProposalsKeep

LEMMA RowUnchanged ==
    ASSUME QuoteInv, UNCHANGED <<conversation, assigned, contextual, quotes, current>>
    PROVE  ConversationKept /\ QuotesKept /\ FinalKept
<1>1. ConversationKept
  BY DEF QuoteInv, TypeOK, ConversationKept, AttendanceFits
<1>2. QED
  BY <1>1, QuotesUnchanged

LEMMA ProgressKeeps ==
    ASSUME QuoteInv, Progress
    PROVE  AllKept /\ quotes' = quotes
<1>1. PICK d \in Documents : \/ Upload(d) \/ RecordSentOfMany(d) \/ RecordFailed(d)
                            \/ Refuse(d) \/ ReconcileNotSent(d)
  BY DEF Progress
<1>2. UNCHANGED <<conversation, assigned, contextual, quotes, current>>
  BY <1>1 DEF Upload, RecordSentOfMany, RecordFailed, Refuse, ReconcileNotSent
<1>3. DocumentsKept
  <2>1. CASE Upload(d)
    BY <2>1, UploadDocuments
  <2>2. CASE RecordSentOfMany(d) \/ RecordFailed(d)
    BY <2>2, SettledKept DEF RecordSentOfMany, RecordFailed, Recordable, DocumentStatus
  <2>3. CASE Refuse(d) \/ ReconcileNotSent(d)
    BY <2>3, DeliveryKept DEF Refuse, ReconcileNotSent, Isolated, Deliveries
  <2>4. QED
    BY <1>1, <2>1, <2>2, <2>3
<1>4. QED
  BY <1>2, <1>3, RowUnchanged DEF AllKept

LEMMA LoseResultKeeps ==
    ASSUME QuoteInv, NEW d \in Documents, LoseResult(d)
    PROVE  AllKept /\ QuoteInv'
<1>1. UNCHANGED <<conversation, assigned, contextual, quotes, current, operator>>
      /\ DocumentsKept
  BY DeliveryKept DEF LoseResult, Isolated, Deliveries
<1>2. spent' \in [isolations : 0 .. MaxIsolations, overlaps : 0 .. MaxOverlaps]
  BY QuoteAssumption DEF LoseResult, QuoteInv, TypeOK
<1>3. operator' \in Operator /\ OperatorInv'
  BY <1>1 DEF QuoteInv, TypeOK, OperatorInv, Operator, DocumentsKept
<1>4. QED
  BY <1>1, <1>2, <1>3, RowUnchanged, KeptInv DEF AllKept

LEMMA BeginReconcileKeeps ==
    ASSUME QuoteInv, NEW d \in Documents, BeginReconcileSent(d)
    PROVE  AllKept /\ QuoteInv'
<1>1. /\ UNCHANGED <<conversation, assigned, contextual, quotes, current>>
      /\ documents' = documents /\ spent' = spent /\ documents[d].status = "queued"
      /\ operator' = [document |-> d, completes |-> LastOfBatch(d), stale |-> FALSE]
  BY DEF BeginReconcileSent
<1>2. LastOfBatch(d) \in BOOLEAN
      /\ (LastOfBatch(d) => quotes[documents[d].quote].status = "under-review")
  BY DEF LastOfBatch
<1>3. operator' \in Operator
  BY <1>1, <1>2 DEF Operator
<1>4. OperatorInv'
  BY <1>1, <1>2 DEF OperatorInv
<1>5. AllKept
  BY <1>1, RowUnchanged, DocumentsUnchanged DEF AllKept
<1>6. QED
  BY <1>1, <1>3, <1>4, <1>5, KeptInv DEF AllKept, QuoteInv, TypeOK

LEMMA EndReconcileKeeps ==
    ASSUME QuoteInv, EndReconcileSent
    PROVE  AllKept /\ QuoteInv'
<1> DEFINE d == operator.document
<1>1. /\ d # None /\ operator' = Away /\ documents' = Settled(d, "sent")
      /\ current' = current /\ spent' = spent
      /\ \/ operator.completes /\ ~operator.stale /\ CompleteBatch(d)
         \/ UNCHANGED <<conversation, assigned, contextual, quotes>>
  BY DEF EndReconcileSent
<1>2. d \in Documents /\ documents[d].status # "absent"
      /\ (operator.completes /\ ~operator.stale =>
             quotes[documents[d].quote].status = "under-review")
  BY <1>1 DEF QuoteInv, TypeOK, Operator, OperatorInv
<1> HIDE DEF d
<1>3. DocumentsKept
  BY <1>1, <1>2, SettledKept DEF DocumentStatus
<1>4. ConversationKept /\ QuotesKept /\ FinalKept
  BY <1>1, <1>2, CompleteKeeps, RowUnchanged
<1>5. operator' \in Operator /\ OperatorInv'
  BY <1>1 DEF Away, Operator, OperatorInv
<1>6. QED
  BY <1>1, <1>3, <1>4, <1>5, KeptInv DEF AllKept, QuoteInv, TypeOK

LEMMA AbortReconcileKeeps ==
    ASSUME QuoteInv, AbortReconcileSent \/ UNCHANGED vars
    PROVE  AllKept /\ QuoteInv'
<1>1. /\ UNCHANGED <<conversation, assigned, contextual, quotes, current, documents, spent>>
      /\ operator' \in {operator, Away}
  BY DEF AbortReconcileSent, vars
<1>2. operator' \in Operator /\ OperatorInv'
  <2>1. CASE operator' = operator
    BY <1>1, <2>1 DEF QuoteInv, TypeOK, OperatorInv
  <2>2. CASE operator' = Away
    BY <2>2 DEF OperatorInv, Operator, Away
  <2>3. QED
    BY <1>1, <2>1, <2>2
<1>3. AllKept
  BY <1>1, RowUnchanged, DocumentsUnchanged DEF AllKept
<1>4. QED
  BY <1>1, <1>2, <1>3, KeptInv DEF AllKept, QuoteInv, TypeOK

LEMMA NextKeeps ==
    ASSUME QuoteInv, Unasked, [Next]_vars
    PROVE  AllKept /\ QuoteInv'
<1>1. CASE (Automation \/ Attendant \/ Customer \/ Proposals) /\ Beside(TRUE)
  BY <1>1, VersionedKeep, BesideInv DEF AllKept
<1>2. CASE Progress /\ Beside(FALSE)
  BY <1>2, ProgressKeeps, BesideInv DEF AllKept
<1>3. CASE \E d \in Documents : LoseResult(d) \/ BeginReconcileSent(d)
  BY <1>3, LoseResultKeeps, BeginReconcileKeeps
<1>4. CASE EndReconcileSent
  BY <1>4, EndReconcileKeeps
<1>5. CASE AbortReconcileSent \/ UNCHANGED vars
  BY <1>5, AbortReconcileKeeps
<1>6. QED
  BY <1>1, <1>2, <1>3, <1>4, <1>5 DEF Next

LEMMA Invariance == ASSUME Unasked PROVE Spec => []QuoteInv
<1>1. QuoteInv /\ [Next]_vars => QuoteInv'
  BY NextKeeps
<1>2. QED
  BY <1>1, InitInv, PTL DEF Spec
-------------------------------------------------------------------------------
\* Conversation, requests, documents and the operator keep their types, for
\* every number of attendants, documents, batches and requests.
THEOREM TypeCorrect == ASSUME Unasked PROVE Spec => []TypeOK
<1>1. QuoteInv => TypeOK
  BY DEF QuoteInv
<1>2. QED
  BY <1>1, Invariance, PTL

\* In whatever order attendants, bot, customer and deliveries act, state, step
\* and attendant fit together.
THEOREM AttendanceAlwaysFits == ASSUME Unasked PROVE Spec => []AttendanceFits
<1>1. QuoteInv => AttendanceFits
  BY DEF QuoteInv
<1>2. QED
  BY <1>1, Invariance, PTL

\* The situation shown with the conversation is always that of its latest
\* request, and no earlier one is still under review.
THEOREM RequestAlwaysFollows == ASSUME Unasked PROVE Spec => []RequestFollowsQuote
<1>1. QuoteInv => RequestFollowsQuote
  BY DEF QuoteInv
<1>2. QED
  BY <1>1, Invariance, PTL

\* Whatever is sent, delivered, reconciled or opened anew after it, a decision
\* on a request stands.
THEOREM DecisionsAreFinal == ASSUME Unasked PROVE Spec => DecisionIsFinal
<1> DEFINE Stands == \A q \in Numbers : quotes[q].status \in Final =>
                                            quotes'[q].status = quotes[q].status
<1>1. QuoteInv /\ [Next]_vars => [Stands]_vars
  BY NextKeeps DEF AllKept, FinalKept
<1>2. QED
  BY <1>1, Invariance, PTL DEF Spec, DecisionIsFinal
-------------------------------------------------------------------------------
(* Where the conversation stands, the batches of a request and what an         *)
(* operator knows: what the results of the deliveries rely on.                 *)

\* A conversation that waits for the answer to a proposal, or in which one is being
\* sent, is the commercial department's; while a document is on its way, whoever
\* attends is sending; a request still being collected was never confirmed.
StandsInv ==
    /\ conversation.flowStep = "quote-send-pending" =>
          (conversation.conversationState \in {"waiting-for-customer", "human-active"}
             => InCommercial)
    /\ conversation.conversationState = "human-active" /\ Sending # {}
          => conversation.flowStep = "quote-send-pending"
    /\ conversation.flowStep = "quote-summary-confirmation"
          /\ conversation.requestStatus = "waiting-for-customer" => ~quotes[current].confirmed
    /\ current > 0 /\ quotes[current].status = "collecting-information"
          => ~quotes[current].confirmed

\* The document is in a batch and still to be sent.
InOpenBatch(d) == documents[d].batch # None /\ documents[d].status \in Unfinished

\* Only a confirmed request has documents, and those still to be sent are of one batch.
BatchInv ==
    /\ \A d \in Documents :
          documents[d].status # "absent" => quotes[documents[d].quote].confirmed
    /\ \A d, e \in Documents :
          InOpenBatch(d) /\ InOpenBatch(e) /\ documents[d].quote = documents[e].quote
             => documents[d].batch = documents[e].batch

\* What an operator read still holds: as long as no version changed, that the
\* conversation accepts the confirmation; as long as nothing was committed beside him,
\* whether the batch is complete.
KnowsInv ==
    operator.document # None =>
        /\ operator.completes /\ ~operator.stale
              => Permitted(conversation, "proposal-delivery-confirmed")
        /\ spent.overlaps = 0 => (operator.completes <=> LastOfBatch(operator.document))

CycleInv == QuoteInv /\ StandsInv /\ BatchInv /\ AnswersAProposal /\ KnowsInv

LEMMA InitCycle == Init => CycleInv
<1> SUFFICES ASSUME Init PROVE CycleInv
  OBVIOUS
<1>1. StandsInv
  BY DEF Init, StandsInv, FirstContact
<1>2. BatchInv
  BY DEF Init, BatchInv, InOpenBatch, Unused
<1>3. AnswersAProposal
  BY DEF Init, AnswersAProposal
<1>4. KnowsInv
  BY DEF Init, KnowsInv, Away
<1>5. QED
  BY <1>1, <1>2, <1>3, <1>4, InitInv DEF CycleInv

\* Where an accepted transition can put the conversation.
LEMMA ResolvedWhere ==
    ASSUME NEW c \in Snapshot, NEW attended \in BOOLEAN, Fits(c, attended),
           NEW name \in TransitionNames, NEW target \in Departments,
           Permitted(c, name), name # "proposal-delivery-confirmed",
           NEW d, d = Resolved(c, name, target)
    PROVE  /\ d.conversationState = "waiting-for-customer"
                 => d = c \/ d.flowStep = "quote-summary-confirmation"
           /\ d.conversationState = "human-active"
                 => d = c \/ (name = "take-over" /\ d.flowStep = "human-service")
           /\ d.flowStep = "quote-summary-confirmation"
                 /\ d.requestStatus = "waiting-for-customer"
                 => \/ name = "present-quote-summary"
                    \/ c.flowStep = "quote-summary-confirmation"
                         /\ c.requestStatus = "waiting-for-customer"
<1> USE DEF Snapshot, ClosingTransitions
<1> DEFINE D == /\ d.conversationState \notin {"waiting-for-customer", "human-active"}
                /\ d.flowStep # "quote-summary-confirmation"
<1>1. CASE name = "mark-read"
  BY <1>1 DEF Resolved
<1>2. CASE name = "take-over"
  BY <1>2 DEF Resolved, To
<1>3. CASE name \in {"present-main-menu", "select-commercial", "start-department-contact",
                     "return-to-main-menu"}
  <2>1. D
    BY <1>3 DEF Resolved, To, Commercial, Permitted, Bot
  <2>2. QED
    BY <2>1
<1>4. CASE name \in {"start-quote", "new-quote-request", "correct-quote", "confirm-quote"}
  <2>1. D
    BY <1>4 DEF Resolved, To, Commercial, Collecting
  <2>2. QED
    BY <2>1
<1>5. CASE name \in {"proposal-response-received", "forward", "close", "close-after-rejection",
                     "reopen-after-customer-message", "resume-contextual-contact"}
  <2>1. D
    BY <1>5 DEF Resolved, To, Commercial, Forwarded
  <2>2. QED
    BY <2>1
<1>6. CASE name = "present-quote-summary"
  BY <1>6 DEF Resolved
<1>7. CASE name = "resume-awaited-reply"
  BY <1>7 DEF Resolved, To, Permitted
<1>8. CASE name = "return-to-bot"
  <2>1. d = To(c, "bot-active", BotFlowStep(c))
    BY <1>8 DEF Resolved
  <2>2. /\ d.conversationState = "bot-active" /\ d.flowStep = BotFlowStep(c)
        /\ d.requestStatus = c.requestStatus
    BY <2>1 DEF To
  <2>3. c.requestStatus = "waiting-for-customer" => BotFlowStep(c) = "commercial-follow-up-menu"
    BY DEF BotFlowStep, FollowUpRequests
  <2>4. QED
    BY <2>2, <2>3
<1>9. QED
  BY <1>1, <1>2, <1>3, <1>4, <1>5, <1>6, <1>7, <1>8
     DEF TransitionNames, UserTransitions, SystemTransitions, WebhookTransitions

\* A request that awaits an answer or has one.
Answered(h) == h.status \in Final \/ (h.status = "waiting-for-customer" /\ h.confirmed)

\* What every step does to the documents and the requests: a document that was sent
\* stays sent, a confirmed request stays confirmed, and only a request with a document
\* that was sent begins to await an answer.
SentStays == \A d \in Documents : documents[d].status = "sent" =>
                documents'[d].status = "sent" /\ documents'[d].quote = documents[d].quote
ConfirmedStays == \A q \in 1 .. current : quotes[q].confirmed => quotes'[q].confirmed
AnswersFollow == \A q \in 1 .. current' : Answered(quotes'[q]) =>
                    \/ q \in 1 .. current /\ Answered(quotes[q])
                    \/ \E d \in Documents :
                          documents'[d].quote = q /\ documents'[d].status = "sent"
CycleKept == SentStays /\ ConfirmedStays /\ AnswersFollow

LEMMA AnswersStay ==
    ASSUME AnswersAProposal, SentStays, AnswersFollow
    PROVE  AnswersAProposal'
<1>1. ASSUME NEW q \in 1 .. current', Answered(quotes'[q])
      PROVE  \E d \in Documents : documents'[d].quote = q /\ documents'[d].status = "sent"
  <2>1. CASE q \in 1 .. current /\ Answered(quotes[q])
    <3>1. \E d \in Documents : documents[d].quote = q /\ documents[d].status = "sent"
      BY <2>1 DEF AnswersAProposal, Answered, SentOf, Of
    <3>2. QED
      BY <3>1 DEF SentStays
  <2>2. QED
    BY <1>1, <2>1 DEF AnswersFollow
<1>2. QED
  BY <1>1 DEF AnswersAProposal, Answered, SentOf, Of

\* The batches, when no document is uploaded or gets a batch.
LEMMA BatchesStay ==
    ASSUME QuoteInv, BatchInv, ConfirmedStays,
           \A d \in Documents :
              /\ documents'[d].quote = documents[d].quote
              /\ documents'[d].batch = documents[d].batch
              /\ documents[d].status = "absent" => documents'[d].status = "absent"
              /\ documents'[d].status \in Unfinished => documents[d].status \in Unfinished
    PROVE  BatchInv'
<1>1. ASSUME NEW d \in Documents, documents'[d].status # "absent"
      PROVE  quotes'[documents'[d].quote].confirmed
  <2>1. documents[d].status # "absent" /\ documents'[d].quote = documents[d].quote
    BY <1>1
  <2>2. documents[d].quote \in 1 .. current /\ quotes[documents[d].quote].confirmed
    BY <2>1 DEF QuoteInv, DocumentsAttached, BatchInv
  <2>3. QED
    BY <2>1, <2>2 DEF ConfirmedStays
<1>2. \A d \in Documents : InOpenBatch(d)' => InOpenBatch(d)
  BY DEF InOpenBatch
<1>3. ASSUME NEW d \in Documents, NEW e \in Documents, InOpenBatch(d)', InOpenBatch(e)',
             documents'[d].quote = documents'[e].quote
      PROVE  documents'[d].batch = documents'[e].batch
  BY <1>2, <1>3 DEF BatchInv
<1>4. QED
  BY <1>1, <1>3 DEF BatchInv

\* What an accepted transition makes of the requests.
LEMMA TransitionQuotes ==
    ASSUME CycleInv, NEW u \in Users \cup {None}, NEW name \in TransitionNames,
           NEW target \in Departments, Transition(u, name, target)
    PROVE  /\ CycleKept
           /\ current' > 0 /\ quotes'[current'].status = "collecting-information"
                 => ~quotes'[current'].confirmed
           /\ name = "present-quote-summary" => ~quotes'[current'].confirmed
           /\ ~OpensQuote(name) /\ ~MovesQuote(name) => UNCHANGED <<quotes, current>>
<1>1. /\ quotes \in [Numbers -> Quote] /\ current \in Nat /\ current \in 0 .. MaxQuotes
      /\ RequestFollowsQuote /\ StandsInv /\ conversation \in Snapshot
      /\ \A q \in 1 .. current : q \in Numbers
  BY Bounds DEF CycleInv, QuoteInv, TypeOK
<1>2. /\ SentStays /\ documents' = documents /\ Permitted(conversation, name)
      /\ quotes' = QuotesAfter(name, Resolved(conversation, name, target))
      /\ current' = IF OpensQuote(name) THEN current + 1 ELSE current
  BY DEF Transition, SentStays
<1>3. CASE OpensQuote(name)
  <2>1. /\ name # "present-quote-summary" /\ current' = current + 1 /\ current < MaxQuotes
        /\ \A s \in Numbers : quotes'[s] =
              IF s = current + 1 THEN [status |-> "collecting-information", confirmed |-> FALSE]
              ELSE IF /\ s = current /\ name = "new-quote-request"
                      /\ quotes[s].status = "under-review"
                   THEN [quotes[s] EXCEPT !.status = "cancelled"]
              ELSE quotes[s]
    BY <1>2, <1>3 DEF QuotesAfter, OpensQuote, Transition
  <2>2. ASSUME NEW q \in 1 .. current
        PROVE  /\ quotes[q].confirmed => quotes'[q].confirmed
               /\ Answered(quotes'[q]) => Answered(quotes[q])
    <3>1. q \in Numbers /\ q # current + 1 /\ quotes[q] \in Quote
      BY <1>1
    <3>2. quotes'[q] = quotes[q] \/ quotes'[q] = [quotes[q] EXCEPT !.status = "cancelled"]
      BY <2>1, <3>1
    <3>3. QED
      BY <3>1, <3>2 DEF Quote, Answered, Final
  <2>3. /\ quotes'[current + 1].status = "collecting-information"
        /\ quotes'[current + 1].confirmed = FALSE
    <3>1. current + 1 \in Numbers
      BY <1>1, <2>1, Bounds
    <3>2. quotes'[current + 1] = [status |-> "collecting-information", confirmed |-> FALSE]
      BY <2>1, <3>1
    <3>3. QED
      BY <3>2
  <2>4. ASSUME NEW q \in 1 .. current', Answered(quotes'[q])
        PROVE  q \in 1 .. current /\ Answered(quotes[q])
    <3>1. q # current + 1
      BY <2>3, <2>4 DEF Answered, Final
    <3>2. q \in 1 .. current
      BY <1>1, <2>1, <3>1
    <3>3. QED
      BY <2>2, <2>4, <3>2
  <2>5. QED
    BY <1>2, <1>3, <2>1, <2>2, <2>3, <2>4 DEF CycleKept, ConfirmedStays, AnswersFollow
<1>4. CASE MovesQuote(name)
  <2>1. /\ name \in {"present-quote-summary", "correct-quote", "confirm-quote"}
        /\ ~OpensQuote(name) /\ current' = current /\ current > 0
    BY <1>2, <1>4 DEF MovesQuote, OpensQuote, Transition
  <2>2. current \in Numbers /\ current \in 1 .. current
    BY <1>1, <2>1
  <2> DEFINE s == Resolved(conversation, name, target).requestStatus
  <2>3. quotes' = [quotes EXCEPT ![current] =
            [status |-> s, confirmed |-> @.confirmed \/ name = "confirm-quote"]]
    BY <1>2, <1>4, <2>1 DEF QuotesAfter
  <2>4. s = IF name = "present-quote-summary" THEN "waiting-for-customer"
            ELSE IF name = "correct-quote" THEN "collecting-information" ELSE "under-review"
    BY <1>1, <2>1, ResolvedRequest DEF Requesting
  <2> HIDE DEF s
  <2>5. name # "confirm-quote" => ~quotes[current].confirmed
    BY <1>1, <1>2, <2>1 DEF Permitted, InSummary, StandsInv, RequestFollowsQuote
  <2>6. /\ quotes'[current].status = s
        /\ quotes'[current].confirmed <=> (quotes[current].confirmed \/ name = "confirm-quote")
        /\ \A q \in 1 .. current : q # current => quotes'[q] = quotes[q]
    BY <1>1, <2>2, <2>3
  <2>7. ~Answered(quotes'[current])
    BY <2>1, <2>4, <2>5, <2>6 DEF Answered, Final
  <2>8. CycleKept
    BY <1>2, <2>1, <2>6, <2>7 DEF CycleKept, ConfirmedStays, AnswersFollow
  <2>9. QED
    BY <1>4, <2>1, <2>4, <2>5, <2>6, <2>8
<1>5. CASE ~OpensQuote(name) /\ ~MovesQuote(name)
  <2>1. UNCHANGED <<quotes, current>> /\ name # "present-quote-summary"
    BY <1>2, <1>5 DEF QuotesAfter, MovesQuote
  <2>2. QED
    BY <1>1, <1>2, <2>1 DEF CycleKept, ConfirmedStays, AnswersFollow, StandsInv
<1>6. QED
  BY <1>3, <1>4, <1>5

\* Where the conversation stands after an accepted transition.
LEMMA TransitionStands ==
    ASSUME CycleInv, NEW u \in Users \cup {None}, NEW name \in TransitionNames,
           NEW target \in Departments, Transition(u, name, target),
           name # "proposal-delivery-confirmed"
    PROVE  StandsInv'
<1> DEFINE attended == assigned # None
<1>1. /\ conversation \in Snapshot /\ attended \in BOOLEAN /\ Fits(conversation, attended)
      /\ StandsInv /\ RequestFollowsQuote
  BY DEF CycleInv, QuoteInv, TypeOK, AttendanceFits
<1> HIDE DEF attended
<1>2. /\ conversation' = Resolved(conversation, name, target) /\ Permitted(conversation, name)
      /\ documents' = documents /\ (name \in WaitsForDelivery => Sending = {})
  BY DEF Transition
<1>3. /\ conversation'.conversationState = "waiting-for-customer"
            => conversation' = conversation
               \/ conversation'.flowStep = "quote-summary-confirmation"
      /\ conversation'.conversationState = "human-active"
            => conversation' = conversation
               \/ (name = "take-over" /\ conversation'.flowStep = "human-service")
      /\ conversation'.flowStep = "quote-summary-confirmation"
            /\ conversation'.requestStatus = "waiting-for-customer"
            => \/ name = "present-quote-summary"
               \/ conversation.flowStep = "quote-summary-confirmation"
                    /\ conversation.requestStatus = "waiting-for-customer"
  BY <1>1, <1>2, ResolvedWhere
<1>4. conversation'.flowStep = "quote-send-pending"
         /\ conversation'.conversationState \in {"waiting-for-customer", "human-active"}
         => conversation'.department = "commercial"
  BY <1>1, <1>3 DEF StandsInv, InCommercial
<1>5. Sending' = Sending
  BY <1>2 DEF Sending
<1>6. conversation'.conversationState = "human-active" /\ Sending # {}
         => conversation'.flowStep = "quote-send-pending"
  BY <1>1, <1>2, <1>3 DEF StandsInv, WaitsForDelivery
<1>7. ASSUME conversation'.flowStep = "quote-summary-confirmation",
             conversation'.requestStatus = "waiting-for-customer"
      PROVE  ~quotes'[current'].confirmed
  <2>1. CASE name = "present-quote-summary"
    BY <2>1, TransitionQuotes
  <2>2. CASE name # "present-quote-summary"
    <3>1. ~OpensQuote(name) /\ ~MovesQuote(name)
      BY <1>1, <1>2, <1>7, <2>2, ResolvedRequest DEF OpensQuote, MovesQuote, Requesting
    <3>2. UNCHANGED <<quotes, current>>
      BY <3>1, TransitionQuotes
    <3>3. QED
      BY <1>1, <1>3, <1>7, <2>2, <3>2 DEF StandsInv
  <2>3. QED
    BY <2>1, <2>2
<1>8. QED
  BY <1>4, <1>5, <1>6, <1>7, TransitionQuotes DEF StandsInv, InCommercial

LEMMA TransitionBatches ==
    ASSUME CycleInv, NEW u \in Users \cup {None}, NEW name \in TransitionNames,
           NEW target \in Departments, Transition(u, name, target)
    PROVE  BatchInv' /\ AnswersAProposal'
<1>1. documents' = documents /\ CycleKept
  BY TransitionQuotes DEF Transition
<1>2. BatchInv'
  BY <1>1, BatchesStay DEF CycleInv, CycleKept
<1>3. QED
  BY <1>1, <1>2, AnswersStay DEF CycleInv, CycleKept

\* What OnlyClosingPreventsConfirmation says of a step.
ClosingOnly ==
    \A d \in Documents :
       /\ ~Awaited(d) \/ Permitted(conversation, "proposal-delivery-confirmed")
       /\ Awaited(d)' /\ Open(conversation) /\ Open(conversation')
       => Permitted(conversation', "proposal-delivery-confirmed")

\* While a confirmation is accepted, an attendant is sending.
LEMMA AttendedSends ==
    ASSUME CycleInv, Permitted(conversation, "proposal-delivery-confirmed")
    PROVE  /\ conversation.conversationState = "human-active"
           /\ conversation.flowStep = "quote-send-pending"
           /\ conversation.requestStatus = "under-review"
  BY DEF CycleInv, QuoteInv, AttendanceFits, Fits, Permitted, Bot, NotOfTheBot

LEMMA TransitionCloses ==
    ASSUME CycleInv, NEW u \in Users \cup {None}, NEW name \in TransitionNames,
           NEW target \in Departments, Transition(u, name, target),
           name # "proposal-delivery-confirmed"
    PROVE  ClosingOnly
<1> SUFFICES ASSUME NEW d \in Documents,
                    ~Awaited(d) \/ Permitted(conversation, "proposal-delivery-confirmed"),
                    Awaited(d)', Open(conversation), Open(conversation')
             PROVE  Permitted(conversation', "proposal-delivery-confirmed")
  BY DEF ClosingOnly
<1> DEFINE q == documents[d].quote
<1>1. /\ documents' = documents /\ Permitted(conversation, name)
      /\ (name \in WaitsForDelivery => Sending = {})
      /\ quotes' = QuotesAfter(name, Resolved(conversation, name, target))
      /\ conversation' = Resolved(conversation, name, target)
      /\ MovesQuote(name) => current > 0
  BY DEF Transition
<1>2. /\ documents[d].status = "queued" /\ d \in Sending
      /\ quotes'[q].status = "under-review"
  BY <1>1 DEF Awaited, Sending
<1>3. /\ q \in 1 .. current /\ q \in Numbers /\ quotes[q].confirmed /\ current \in Nat
      /\ quotes \in [Numbers -> Quote] /\ conversation \in Snapshot
      /\ RequestFollowsQuote /\ StandsInv
      /\ (quotes[q].status = "under-review" => q = current)
  BY <1>2, Bounds DEF CycleInv, QuoteInv, TypeOK, DocumentsAttached, BatchInv,
     RequestFollowsQuote
<1> HIDE DEF q
<1>4. CASE quotes[q].status = "under-review"
  <2>1. Awaited(d)
    BY <1>2, <1>4 DEF Awaited, q
  <2>2. /\ conversation.conversationState = "human-active"
        /\ conversation.flowStep = "quote-send-pending"
        /\ conversation.requestStatus = "under-review"
    BY <2>1, AttendedSends
  <2>3. name \notin WaitsForDelivery
    BY <1>1, <1>2
  <2>4. name \in {"mark-read", "close"}
    BY <1>1, <2>2, <2>3 DEF Permitted, WaitsForDelivery, TransitionNames, UserTransitions,
       SystemTransitions, WebhookTransitions, Bot, InSummary, InFollowUp, Open
  <2>5. CASE name = "close"
    BY <1>1, <1>3, <2>5 DEF Resolved, ClosingTransitions, To, Open, Snapshot
  <2>6. CASE name = "mark-read"
    <3>1. conversation' = conversation
      BY <1>1, <2>6 DEF Resolved, ClosingTransitions
    <3>2. QED
      BY <2>1, <3>1
  <2>7. QED
    BY <2>4, <2>5, <2>6
<1>5. CASE quotes[q].status # "under-review"
  <2>1. CASE OpensQuote(name)
    <3>1. quotes'[q] \in {quotes[q], [quotes[q] EXCEPT !.status = "cancelled"]}
          \/ quotes'[q].status = "collecting-information"
      BY <1>1, <1>3, <2>1 DEF QuotesAfter
    <3>2. QED
      BY <1>2, <1>3, <1>5, <3>1 DEF Quote
  <2>2. CASE MovesQuote(name)
    <3>1. q = current /\ quotes'[q].status = Resolved(conversation, name, target).requestStatus
      BY <1>1, <1>2, <1>3, <1>5, <2>2 DEF QuotesAfter, OpensQuote, MovesQuote
    <3>2. name = "confirm-quote"
      BY <1>2, <1>3, <2>2, <3>1, ResolvedRequest DEF MovesQuote, Requesting
    <3>3. ~quotes[current].confirmed
      BY <1>1, <1>3, <3>2 DEF Permitted, InSummary, StandsInv
    <3>4. QED
      BY <1>3, <3>1, <3>3
  <2>3. CASE ~OpensQuote(name) /\ ~MovesQuote(name)
    BY <1>1, <1>2, <1>5, <2>3 DEF QuotesAfter
  <2>4. QED
    BY <2>1, <2>2, <2>3
<1>6. QED
  BY <1>4, <1>5

\* What a step has to show of the cycle, besides what an operator knows.
CycleGoal == StandsInv' /\ BatchInv' /\ AnswersAProposal' /\ ClosingOnly

LEMMA CustomerCycle ==
    ASSUME CycleInv, Customer
    PROVE  CycleGoal
<1> DEFINE attended == assigned # None
<1>1. /\ UNCHANGED <<quotes, current, documents>>
      /\ conversation \in Snapshot /\ attended \in BOOLEAN /\ Fits(conversation, attended)
      /\ contextual \in BOOLEAN /\ StandsInv /\ RequestFollowsQuote
  BY DEF Customer, Reopen, Resume, CycleInv, QuoteInv, TypeOK, AttendanceFits
<1> HIDE DEF attended
<1>2. BatchInv' /\ AnswersAProposal'
  <2>1. BatchInv'
    BY <1>1 DEF CycleInv, BatchInv, InOpenBatch
  <2>2. AnswersAProposal'
    BY <1>1 DEF CycleInv, AnswersAProposal, SentOf, Of
  <2>3. QED
    BY <2>1, <2>2
<1>3. Sending' = Sending /\ \A d \in Documents : Awaited(d)' <=> Awaited(d)
  BY <1>1 DEF Sending, Awaited
<1>4. CASE Reopen
  <2>1. conversation' = To(Commercial(conversation), "bot-active", "main-menu")
    BY <1>4 DEF Reopen, Resolved, ClosingTransitions
  <2>2. conversation'.conversationState = "bot-active" /\ conversation'.flowStep = "main-menu"
    BY <1>1, <2>1 DEF To, Commercial, Snapshot
  <2>3. StandsInv'
    BY <1>1, <2>2 DEF StandsInv
  <2>4. ClosingOnly
    BY <1>4 DEF ClosingOnly, Reopen, Closed
  <2>5. QED
    BY <1>2, <2>3, <2>4 DEF CycleGoal
<1>5. CASE Resume
  <2>1. PICK name \in ResumeNames(conversation, contextual) :
           /\ Permitted(conversation, name)
           /\ conversation' = Resolved(conversation, name, conversation.department)
    BY <1>5 DEF Resume
  <2>2. /\ name \in {"resume-awaited-reply", "proposal-response-received",
                     "resume-contextual-contact"}
        /\ name \in TransitionNames /\ conversation.department \in Departments
        /\ conversation.conversationState # "human-active"
    BY <1>1, <2>1 DEF ResumeNames, Snapshot, TransitionNames, WebhookTransitions,
       InFollowUp, Bot
  <2>3. /\ conversation'.conversationState = "waiting-for-customer"
              => conversation' = conversation
                 \/ conversation'.flowStep = "quote-summary-confirmation"
        /\ conversation'.conversationState # "human-active"
        /\ conversation'.flowStep = "quote-summary-confirmation"
              /\ conversation'.requestStatus = "waiting-for-customer"
              => conversation.flowStep = "quote-summary-confirmation"
                   /\ conversation.requestStatus = "waiting-for-customer"
    BY <1>1, <2>1, <2>2, ResolvedWhere
  <2>4. StandsInv'
    BY <1>1, <2>3 DEF StandsInv, InCommercial
  <2>5. ClosingOnly
    BY <1>3, <2>2, AttendedSends DEF ClosingOnly
  <2>6. QED
    BY <1>2, <2>4, <2>5 DEF CycleGoal
<1>6. QED
  BY <1>4, <1>5 DEF Customer

\* A proposal is created or sent: from then on an attendant is sending it.
LEMMA ProposedStands ==
    ASSUME CycleInv, InCommercial, conversation' = Proposed(conversation),
           current' \in Numbers, quotes'[current'].status = "under-review"
    PROVE  StandsInv' /\ ClosingOnly
<1>1. /\ conversation'.conversationState = "human-active"
      /\ conversation'.flowStep = "quote-send-pending"
      /\ conversation'.requestStatus = "under-review"
      /\ conversation'.department = "commercial"
  BY DEF CycleInv, QuoteInv, TypeOK, Proposed, Snapshot, InCommercial
<1>2. StandsInv'
  BY <1>1 DEF StandsInv, InCommercial
<1>3. ClosingOnly
  BY <1>1 DEF ClosingOnly, Permitted
<1>4. QED
  BY <1>2, <1>3

LEMMA CreateCycle ==
    ASSUME CycleInv, NEW u \in Users, CreateProposal(u)
    PROVE  CycleGoal
<1>1. /\ InCommercial /\ conversation' = Proposed(conversation) /\ documents' = documents
      /\ current < MaxQuotes /\ current' = current + 1
      /\ quotes' = [quotes EXCEPT ![current + 1] = [status |-> "under-review", confirmed |-> TRUE]]
  BY DEF CreateProposal, SendPending
<1>2. /\ quotes \in [Numbers -> Quote] /\ current \in Nat /\ current' \in Numbers
      /\ \A q \in 1 .. current : q \in Numbers /\ q # current'
      /\ \A q \in 1 .. current' : q = current' \/ q \in 1 .. current
  BY <1>1, Bounds DEF CycleInv, QuoteInv, TypeOK
<1>3. /\ quotes'[current'].status = "under-review"
      /\ \A q \in 1 .. current : quotes'[q] = quotes[q]
  BY <1>1, <1>2
<1>4. CycleKept
  <2>1. ~Answered(quotes'[current'])
    BY <1>3 DEF Answered, Final
  <2>2. QED
    BY <1>1, <1>2, <1>3, <2>1 DEF CycleKept, SentStays, ConfirmedStays, AnswersFollow
<1>5. BatchInv' /\ AnswersAProposal'
  BY <1>1, <1>4, BatchesStay, AnswersStay DEF CycleInv, CycleKept
<1>6. QED
  BY <1>1, <1>2, <1>3, <1>5, ProposedStands DEF CycleGoal

\* One request gets another status.
LEMMA SetKeeps ==
    ASSUME CycleInv, NEW q \in 1 .. current, NEW s \in Requests, SetStatus(q, s),
           current' = current
    PROVE  /\ \A p \in 1 .. current : quotes'[p].confirmed = quotes[p].confirmed
           /\ quotes'[q].status = s
           /\ \A p \in 1 .. current : p # q => quotes'[p] = quotes[p]
           /\ ConfirmedStays
           /\ (s \in Final \/ s = "waiting-for-customer" =>
                  \E d \in Documents : documents'[d].quote = q /\ documents'[d].status = "sent")
                 => AnswersFollow
<1>1. quotes \in [Numbers -> Quote] /\ \A p \in 1 .. current : p \in Numbers
  BY Bounds DEF CycleInv, QuoteInv, TypeOK
<1>2. /\ quotes'[q].status = s
      /\ \A p \in 1 .. current : quotes'[p].confirmed = quotes[p].confirmed
      /\ \A p \in 1 .. current : p # q => quotes'[p] = quotes[p]
  BY <1>1 DEF SetStatus, Quote
<1>3. ConfirmedStays
  BY <1>2 DEF ConfirmedStays
<1>4. ASSUME s \in Final \/ s = "waiting-for-customer" =>
                \E d \in Documents : documents'[d].quote = q /\ documents'[d].status = "sent"
      PROVE  AnswersFollow
  <2>1. ASSUME NEW p \in 1 .. current, Answered(quotes'[p])
        PROVE  \/ Answered(quotes[p])
               \/ \E d \in Documents : documents'[d].quote = p /\ documents'[d].status = "sent"
    <3>1. CASE p = q
      BY <1>2, <1>4, <2>1, <3>1 DEF Answered
    <3>2. CASE p # q
      BY <1>2, <2>1, <3>2
    <3>3. QED
      BY <3>1, <3>2
  <2>2. QED
    BY <2>1 DEF AnswersFollow
<1>5. QED
  BY <1>2, <1>3, <1>4

LEMMA DecideCycle ==
    ASSUME CycleInv, NEW q \in 1 .. current, NEW decision \in Final, Decide(q, decision)
    PROVE  CycleGoal
<1>1. /\ decision \in Requests /\ decision \notin {"under-review", "waiting-for-customer",
                                                  "collecting-information"}
      /\ SetStatus(q, decision) /\ current' = current /\ documents' = documents
      /\ SentOf(q) # {}
      /\ conversation' = IF q = current
                         THEN [conversation EXCEPT !.requestStatus = decision]
                         ELSE conversation
  BY DEF Decide, MayDecide, Final, Requests
<1>2. /\ conversation \in Snapshot /\ current \in 1 .. current /\ StandsInv
      /\ RequestFollowsQuote
      /\ \A d \in Documents : documents[d].status # "absent" => documents[d].quote \in 1 .. current
  BY Bounds DEF CycleInv, QuoteInv, TypeOK, DocumentsAttached
<1>3. /\ \A p \in 1 .. current : quotes'[p].confirmed = quotes[p].confirmed
      /\ quotes'[q].status = decision
      /\ \A p \in 1 .. current : p # q => quotes'[p] = quotes[p]
      /\ ConfirmedStays /\ AnswersFollow
  <2>1. \E d \in Documents : documents'[d].quote = q /\ documents'[d].status = "sent"
    BY <1>1 DEF SentOf, Of
  <2>2. QED
    BY <1>1, <2>1, SetKeeps
<1>4. BatchInv' /\ AnswersAProposal'
  <2>1. SentStays
    BY <1>1 DEF SentStays
  <2>2. QED
    BY <1>1, <1>3, <2>1, BatchesStay, AnswersStay DEF CycleInv
<1>5. /\ conversation'.flowStep = conversation.flowStep
      /\ conversation'.conversationState = conversation.conversationState
      /\ conversation'.department = conversation.department
      /\ conversation'.requestStatus = IF q = current THEN decision
                                       ELSE conversation.requestStatus
  BY <1>1, <1>2 DEF Snapshot
<1>6. StandsInv'
  <2>1. Sending' = Sending
    BY <1>1 DEF Sending
  <2>2. quotes'[current].status = "collecting-information" => quotes'[current] = quotes[current]
    BY <1>1, <1>2, <1>3
  <2>3. QED
    BY <1>1, <1>2, <1>3, <1>5, <2>1, <2>2 DEF StandsInv, InCommercial
<1>7. ClosingOnly
  <2> SUFFICES ASSUME NEW d \in Documents,
                      ~Awaited(d) \/ Permitted(conversation, "proposal-delivery-confirmed"),
                      Awaited(d)'
               PROVE  Permitted(conversation', "proposal-delivery-confirmed")
    BY DEF ClosingOnly
  <2>1. /\ documents[d].status = "queued" /\ documents[d].quote \in 1 .. current
        /\ quotes'[documents[d].quote].status = "under-review"
    BY <1>1, <1>2 DEF Awaited
  <2>2. documents[d].quote # q /\ quotes[documents[d].quote].status = "under-review"
    BY <1>1, <1>3, <2>1
  <2>3. Awaited(d) /\ documents[d].quote = current
    BY <1>2, <2>1, <2>2 DEF Awaited, RequestFollowsQuote
  <2>4. QED
    BY <1>1, <2>2, <2>3
<1>8. QED
  BY <1>4, <1>6, <1>7 DEF CycleGoal

LEMMA UpdateCycle ==
    ASSUME CycleInv, NEW u \in Users,
           NEW s \in {"under-review", "waiting-for-customer", "cancelled"}, UpdateStatus(u, s)
    PROVE  CycleGoal
<1>1. /\ s \in Requests /\ s \notin Final \cup {"collecting-information"}
      /\ current > 0 /\ SetStatus(current, s) /\ current' = current /\ documents' = documents
      /\ assigned = u /\ (s = "waiting-for-customer" => SentOf(current) # {})
      /\ conversation' = [conversation EXCEPT !.requestStatus = s]
  BY DEF UpdateStatus, Requests, Final
<1>2. /\ conversation \in Snapshot /\ current \in 1 .. current /\ StandsInv
      /\ RequestFollowsQuote
      /\ \A d \in Documents : documents[d].status # "absent" => documents[d].quote \in 1 .. current
  BY <1>1, Bounds DEF CycleInv, QuoteInv, TypeOK, DocumentsAttached
<1>3. /\ conversation.conversationState = "human-active"
      /\ conversation.flowStep \in {"human-service", "quote-send-pending"}
  BY <1>1, QuoteAssumption DEF CycleInv, QuoteInv, AttendanceFits, Fits
<1>4. /\ \A p \in 1 .. current : quotes'[p].confirmed = quotes[p].confirmed
      /\ quotes'[current].status = s
      /\ \A p \in 1 .. current : p # current => quotes'[p] = quotes[p]
      /\ ConfirmedStays /\ AnswersFollow
  <2>1. s = "waiting-for-customer" =>
           \E d \in Documents : documents'[d].quote = current /\ documents'[d].status = "sent"
    BY <1>1 DEF SentOf, Of
  <2>2. QED
    BY <1>1, <1>2, <2>1, SetKeeps
<1>5. BatchInv' /\ AnswersAProposal'
  <2>1. SentStays
    BY <1>1 DEF SentStays
  <2>2. QED
    BY <1>1, <1>4, <2>1, BatchesStay, AnswersStay DEF CycleInv
<1>6. /\ conversation'.flowStep = conversation.flowStep
      /\ conversation'.conversationState = conversation.conversationState
      /\ conversation'.department = conversation.department
      /\ conversation'.requestStatus = s
  BY <1>1, <1>2 DEF Snapshot
<1>7. StandsInv'
  <2>1. Sending' = Sending
    BY <1>1 DEF Sending
  <2>2. QED
    BY <1>1, <1>2, <1>3, <1>4, <1>6, <2>1 DEF StandsInv, InCommercial
<1>8. ClosingOnly
  <2> SUFFICES ASSUME NEW d \in Documents, Awaited(d)'
               PROVE  Permitted(conversation', "proposal-delivery-confirmed")
    BY DEF ClosingOnly
  <2>1. /\ documents[d].status = "queued" /\ documents[d].quote \in 1 .. current
        /\ quotes'[documents[d].quote].status = "under-review"
    BY <1>1, <1>2 DEF Awaited
  <2>2. documents[d].quote = current
    BY <1>2, <1>4, <2>1 DEF RequestFollowsQuote
  <2>3. s = "under-review" /\ d \in Sending
    BY <1>4, <2>1, <2>2 DEF Sending
  <2>4. conversation.flowStep = "quote-send-pending" /\ InCommercial
    BY <1>2, <1>3, <2>3 DEF StandsInv
  <2>5. QED
    BY <1>3, <1>6, <2>3, <2>4 DEF Permitted, InCommercial
<1>9. QED
  BY <1>5, <1>7, <1>8 DEF CycleGoal

LEMMA SendCycle ==
    ASSUME CycleInv, NEW u \in Users, NEW b \in Batches, NEW B \in SUBSET Documents,
           NEW d \in B, Send(u, d, B, b)
    PROVE  CycleGoal
<1>1. /\ InCommercial /\ current > 0 /\ current' = current
      /\ quotes[current].status \in {"under-review", "waiting-for-customer"}
      /\ conversation' = Proposed(conversation) /\ SetStatus(current, "under-review")
      /\ documents[d].status \in {"uploaded", "failed"} /\ documents[d].quote = current
      /\ Composes(B, b) /\ ~CompetingBatch(b)
      /\ documents' = [e \in Documents |->
            IF e = d THEN [documents[e] EXCEPT !.status = "queued", !.batch = b,
                                               !.delivery = "requested"]
            ELSE IF e \in B THEN [documents[e] EXCEPT !.batch = b]
            ELSE documents[e]]
  BY DEF Send, AcceptsDocuments, SendPending, Of
<1>2. /\ documents \in [Documents -> Document] /\ current \in 1 .. current
      /\ current \in Numbers /\ BatchInv
      /\ \A e \in Documents :
            documents[e].status # "absent" => documents[e].quote \in 1 .. current
  <2>1. QuoteInv /\ BatchInv
    BY DEF CycleInv
  <2>2. documents \in [Documents -> Document] /\ current \in 0 .. MaxQuotes
    BY <2>1 DEF QuoteInv, TypeOK
  <2>3. current \in Nat /\ current > 0 /\ current <= MaxQuotes
    <3>1. current > 0
      BY <1>1
    <3>2. QED
      BY <2>2, <3>1, Bounds
  <2>4. current \in 1 .. current /\ current \in Numbers
    BY <2>3, Bounds
  <2>5. QED
    BY <2>1, <2>2, <2>4 DEF QuoteInv, DocumentsAttached
<1>3. ASSUME NEW e \in Documents
      PROVE  /\ documents'[e].quote = documents[e].quote
             /\ documents'[e].batch = IF e \in B THEN b ELSE documents[e].batch
             /\ documents'[e].status = IF e = d THEN "queued" ELSE documents[e].status
             /\ e \in B => documents[e].quote = current
  BY <1>1, <1>2 DEF Document, Composes, Of
<1>4. "under-review" \in Requests /\ "under-review" \notin Final \cup {"waiting-for-customer"}
  BY DEF Requests, Final
<1>5. /\ quotes'[current].status = "under-review" /\ ConfirmedStays /\ AnswersFollow
      /\ \A p \in 1 .. current : quotes'[p].confirmed = quotes[p].confirmed
  BY <1>1, <1>2, <1>4, SetKeeps
<1>6. AnswersAProposal'
  <2>1. SentStays
    BY <1>1, <1>3 DEF SentStays
  <2>2. QED
    BY <1>5, <2>1, AnswersStay DEF CycleInv
<1>7. BatchInv'
  <2>1. ASSUME NEW e \in Documents, documents'[e].status # "absent"
        PROVE  quotes'[documents'[e].quote].confirmed
    <3>1. documents[e].status # "absent"
      BY <1>1, <1>3, <2>1
    <3>2. QED
      BY <1>2, <1>3, <1>5, <3>1 DEF BatchInv
  <2>2. ASSUME NEW e \in Documents, InOpenBatch(e)', documents[e].quote = current
        PROVE  documents'[e].batch = b
    <3>1. CASE e \in B
      BY <1>3, <3>1
    <3>2. CASE e \notin B
      BY <1>1, <1>3, <2>2, <3>2 DEF InOpenBatch, CompetingBatch, Of
    <3>3. QED
      BY <3>1, <3>2
  <2>3. ASSUME NEW e \in Documents, InOpenBatch(e)', documents[e].quote # current
        PROVE  InOpenBatch(e) /\ documents'[e].batch = documents[e].batch
    BY <1>1, <1>3, <2>3 DEF InOpenBatch
  <2>4. ASSUME NEW e \in Documents, NEW f \in Documents, InOpenBatch(e)', InOpenBatch(f)',
               documents'[e].quote = documents'[f].quote
        PROVE  documents'[e].batch = documents'[f].batch
    BY <1>2, <1>3, <2>2, <2>3, <2>4 DEF BatchInv
  <2>5. QED
    BY <2>1, <2>4 DEF BatchInv
<1>8. QED
  BY <1>1, <1>2, <1>5, <1>6, <1>7, ProposedStands DEF CycleGoal

\* The confirmation of a batch that the conversation accepts.
LEMMA CompleteCycle ==
    ASSUME CycleInv, NEW d \in Documents, CompleteBatch(d), current' = current,
           documents[d].status # "absent", documents' = Settled(d, "sent"),
           quotes[documents[d].quote].status = "under-review",
           Permitted(conversation, "proposal-delivery-confirmed")
    PROVE  CycleGoal /\ MovesOn(documents[d].quote)
<1>1. /\ documents \in [Documents -> Document] /\ current \in Nat /\ RequestFollowsQuote
      /\ conversation \in Snapshot
      /\ \A e \in Documents : documents[e].status # "absent" => documents[e].quote \in 1 .. current
  BY Bounds DEF CycleInv, QuoteInv, TypeOK, DocumentsAttached
<1>2. documents[d].quote = current /\ current \in 1 .. current
  BY <1>1 DEF RequestFollowsQuote
<1>3. /\ SetStatus(current, "waiting-for-customer") /\ "waiting-for-customer" \in Requests
      /\ conversation' = [To(conversation, "waiting-for-customer", "quote-send-pending")
                            EXCEPT !.requestStatus = "waiting-for-customer"]
  BY <1>2 DEF CompleteBatch, Confirmed, Resolved, ClosingTransitions, Requests
<1>4. /\ \A e \in Documents : /\ documents'[e].quote = documents[e].quote
                              /\ documents'[e].batch = documents[e].batch
                              /\ documents'[e].status = IF e = d THEN "sent"
                                                        ELSE documents[e].status
  BY <1>1 DEF Settled, Document
<1>5. /\ quotes'[current].status = "waiting-for-customer" /\ ConfirmedStays /\ AnswersFollow
      /\ \A p \in 1 .. current : p # current => quotes'[p] = quotes[p]
  BY <1>2, <1>3, <1>4, SetKeeps
<1>6. BatchInv' /\ AnswersAProposal'
  <2>1. SentStays
    BY <1>4 DEF SentStays
  <2>2. \A e \in Documents :
           documents'[e].status \in Unfinished => documents[e].status \in Unfinished
    BY <1>4 DEF Unfinished
  <2>3. QED
    BY <1>4, <1>5, <2>1, <2>2, BatchesStay, AnswersStay DEF CycleInv
<1>7. /\ conversation'.conversationState = "waiting-for-customer"
      /\ conversation'.flowStep = "quote-send-pending"
      /\ conversation'.department = "commercial"
  BY <1>1, <1>3 DEF To, Snapshot, Permitted
<1>8. StandsInv'
  BY <1>5, <1>7 DEF StandsInv, InCommercial
<1>9. ClosingOnly
  <2> SUFFICES ASSUME NEW e \in Documents, Awaited(e)' PROVE FALSE
    BY DEF ClosingOnly
  <2>1. documents[e].quote \in 1 .. current /\ quotes'[documents[e].quote].status = "under-review"
    BY <1>1, <1>4 DEF Awaited
  <2>2. QED
    BY <1>1, <1>5, <2>1 DEF RequestFollowsQuote
<1>10. QED
  BY <1>2, <1>5, <1>6, <1>7, <1>8, <1>9 DEF CycleGoal, MovesOn

\* A step that leaves the conversation and the requests as they are, and makes no
\* document one that is still to be sent.
LEMMA QuietCycle ==
    ASSUME CycleInv, UNCHANGED <<conversation, quotes, current>>,
           \A d \in Documents :
              /\ documents'[d].quote = documents[d].quote
              /\ documents'[d].batch = documents[d].batch
              /\ documents[d].status \in {"absent", "sent"}
                    => documents'[d].status = documents[d].status
              /\ documents'[d].status \in Unfinished => documents[d].status \in Unfinished
              /\ documents'[d].status = "queued" => documents[d].status = "queued"
    PROVE  CycleGoal
<1>1. BatchInv'
  <2>1. ConfirmedStays
    BY DEF ConfirmedStays
  <2>2. QED
    BY <2>1, BatchesStay DEF CycleInv
<1>2. AnswersAProposal'
  <2>1. SentStays /\ AnswersFollow
    BY DEF SentStays, AnswersFollow
  <2>2. QED
    BY <2>1, AnswersStay DEF CycleInv
<1>3. StandsInv'
  <2>1. Sending' \subseteq Sending
    BY DEF Sending
  <2>2. QED
    BY <2>1 DEF CycleInv, StandsInv, InCommercial
<1>4. ClosingOnly
  BY DEF ClosingOnly, Awaited
<1>5. QED
  BY <1>1, <1>2, <1>3, <1>4 DEF CycleGoal

LEMMA UploadCycle ==
    ASSUME CycleInv, NEW d \in Documents, Upload(d)
    PROVE  CycleGoal
<1>1. /\ documents[d].status = "absent" /\ quotes[current].confirmed
      /\ UNCHANGED <<conversation, quotes, current>>
      /\ documents' = [documents EXCEPT ![d] =
                          [Unused EXCEPT !.quote = current, !.status = "uploaded"]]
  BY DEF Upload, AcceptsDocuments
<1>2. documents \in [Documents -> Document]
  BY DEF CycleInv, QuoteInv, TypeOK
<1>3. /\ documents'[d].quote = current /\ documents'[d].status = "uploaded"
      /\ documents'[d].batch = None
      /\ \A e \in Documents : e # d => documents'[e] = documents[e]
  BY <1>1, <1>2 DEF Unused
<1>4. BatchInv'
  <2>1. \A e \in Documents : InOpenBatch(e)' => e # d /\ InOpenBatch(e)
    BY <1>3 DEF InOpenBatch
  <2>2. \A e \in Documents :
           documents'[e].status # "absent" => quotes'[documents'[e].quote].confirmed
    BY <1>1, <1>3 DEF CycleInv, BatchInv
  <2>3. QED
    BY <1>3, <2>1, <2>2 DEF CycleInv, BatchInv
<1>5. AnswersAProposal'
  <2>1. SentStays /\ AnswersFollow
    BY <1>1, <1>3 DEF SentStays, AnswersFollow
  <2>2. QED
    BY <2>1, AnswersStay DEF CycleInv
<1>6. Sending' = Sending /\ \A e \in Documents : Awaited(e)' => Awaited(e)
  BY <1>1, <1>3 DEF Sending, Awaited
<1>7. QED
  BY <1>1, <1>4, <1>5, <1>6 DEF CycleGoal, CycleInv, StandsInv, InCommercial, ClosingOnly
-------------------------------------------------------------------------------
(* Every step of the cycle.                                                    *)

\* What UndisturbedConfirmationCounts says of a step.
Undisturbed ==
    \A d \in Documents : spent.overlaps = 0 /\ LastConfirmation(d)
                            => MovesOn(documents[d].quote)

LEMMA NoneSent ==
    ASSUME \A d \in Documents : documents'[d].status = "sent" => documents[d].status = "sent"
    PROVE  Undisturbed
  BY DEF Undisturbed, LastConfirmation

\* d is sent and no other document is: it is the last of its batch only if the batch
\* is complete with it.
LEMMA OneSent ==
    ASSUME CycleInv, NEW d \in Documents, documents' = Settled(d, "sent"),
           spent.overlaps = 0 => ~LastOfBatch(d)
    PROVE  Undisturbed
<1>1. documents \in [Documents -> Document]
  BY DEF CycleInv, QuoteInv, TypeOK
<1>2. \A e \in Documents : e # d => documents'[e] = documents[e]
  BY <1>1 DEF Settled
<1>3. SUFFICES ASSUME NEW e \in Documents, spent.overlaps = 0, LastConfirmation(e)
               PROVE  FALSE
  BY DEF Undisturbed
<1>4. e = d
  BY <1>2, <1>3 DEF LastConfirmation
<1>5. \A f \in InBatch(documents[d].quote, documents[d].batch) \ {d} :
         documents[f].status \notin Unfinished
  BY <1>2, <1>3, <1>4 DEF LastConfirmation, InBatch, Of, Unfinished
<1>6. QED
  BY <1>3, <1>4, <1>5 DEF LastOfBatch, LastConfirmation

LEMMA ProposalsCycle ==
    ASSUME CycleInv, Proposals
    PROVE  CycleGoal /\ Undisturbed
<1>1. CASE \E u \in Users : CreateProposal(u)
  BY <1>1, CreateCycle, NoneSent DEF CreateProposal
<1>2. CASE \E q \in 1 .. current, decision \in Final : Decide(q, decision)
  BY <1>2, DecideCycle, NoneSent DEF Decide
<1>3. CASE \E u \in Users, s \in {"under-review", "waiting-for-customer", "cancelled"} :
              UpdateStatus(u, s)
  BY <1>3, UpdateCycle, NoneSent DEF UpdateStatus
<1>4. CASE \E u \in Users, b \in Batches, B \in SUBSET Documents :
              \E d \in B : Send(u, d, B, b)
  <2>1. PICK u \in Users, b \in Batches, B \in SUBSET Documents : \E d \in B : Send(u, d, B, b)
    BY <1>4
  <2>2. PICK d \in B : Send(u, d, B, b)
    BY <2>1
  <2>3. \A e \in Documents : documents'[e].status = "sent" => documents[e].status = "sent"
    BY <2>2 DEF Send, CycleInv, QuoteInv, TypeOK, Document
  <2>4. QED
    BY <2>2, <2>3, SendCycle, NoneSent
<1>5. CASE \E d \in Documents : RecordSentLast(d)
  <2>1. PICK d \in Documents : RecordSentLast(d)
    BY <1>5
  <2>2. /\ documents[d].status = "queued" /\ documents' = Settled(d, "sent")
        /\ quotes[documents[d].quote].status = "under-review"
        /\ Permitted(conversation, "proposal-delivery-confirmed")
        /\ CompleteBatch(d) /\ current' = current
    BY <2>1 DEF RecordSentLast, Recordable
  <2>3. CycleGoal /\ MovesOn(documents[d].quote)
    BY <2>2, CompleteCycle
  <2>4. \A e \in Documents : e # d => documents'[e] = documents[e]
    BY <2>2 DEF Settled, CycleInv, QuoteInv, TypeOK
  <2>5. QED
    BY <2>3, <2>4 DEF Undisturbed, LastConfirmation
<1>6. QED
  BY <1>1, <1>2, <1>3, <1>4, <1>5 DEF Proposals

LEMMA VersionedCycle ==
    ASSUME CycleInv, Unasked, Automation \/ Attendant \/ Customer \/ Proposals
    PROVE  CycleGoal /\ Undisturbed
<1>1. CASE Automation \/ Attendant
  <2>1. PICK u \in Users \cup {None}, name \in Commands, p \in Departments :
           Transition(u, name, p)
    BY <1>1 DEF Automation, Attendant
  <2>2. name \in TransitionNames /\ name # "proposal-delivery-confirmed"
    BY QuoteAssumption DEF Unasked
  <2>3. QED
    BY <2>1, <2>2, TransitionStands, TransitionBatches, TransitionCloses, NoneSent
       DEF Transition, CycleGoal
<1>2. CASE Customer
  BY <1>2, CustomerCycle, NoneSent DEF Customer, Reopen, Resume
<1>3. QED
  BY <1>1, <1>2, ProposalsCycle

LEMMA ProgressCycle ==
    ASSUME CycleInv, Progress
    PROVE  CycleGoal /\ Undisturbed /\ conversation' = conversation
<1>1. PICK d \in Documents : \/ Upload(d) \/ RecordSentOfMany(d) \/ RecordFailed(d)
                            \/ Refuse(d) \/ ReconcileNotSent(d)
  BY DEF Progress
<1>2. documents \in [Documents -> Document]
  BY DEF CycleInv, QuoteInv, TypeOK
<1>3. CASE Upload(d)
  <2>1. \A e \in Documents : documents'[e].status = "sent" => documents[e].status = "sent"
    BY <1>2, <1>3 DEF Upload, Unused
  <2>2. QED
    BY <1>3, <2>1, UploadCycle, NoneSent DEF Upload
<1>4. CASE RecordSentOfMany(d)
  <2>1. /\ documents[d].status = "queued" /\ documents' = Settled(d, "sent") /\ ~LastOfBatch(d)
        /\ UNCHANGED <<conversation, quotes, current>>
    BY <1>4 DEF RecordSentOfMany, Recordable
  <2>2. CycleGoal
    BY <1>2, <2>1, QuietCycle DEF Settled, Document, Unfinished
  <2>3. QED
    BY <2>1, <2>2, OneSent
<1>5. CASE RecordFailed(d)
  <2>1. /\ documents[d].status = "queued" /\ documents' = Settled(d, "failed")
        /\ UNCHANGED <<conversation, quotes, current>>
    BY <1>5 DEF RecordFailed, Recordable
  <2>2. CycleGoal
    BY <1>2, <2>1, QuietCycle DEF Settled, Document, Unfinished
  <2>3. Undisturbed
    BY <1>2, <2>1, NoneSent DEF Settled, Document
  <2>4. QED
    BY <2>1, <2>2, <2>3
<1>6. CASE Refuse(d) \/ ReconcileNotSent(d)
  <2>1. PICK v : documents' = [documents EXCEPT ![d].delivery = v]
    BY <1>6 DEF Refuse, ReconcileNotSent, Isolated
  <2>2. UNCHANGED <<conversation, quotes, current>>
    BY <1>6 DEF Refuse, ReconcileNotSent
  <2>3. CycleGoal /\ Undisturbed
    BY <1>2, <2>1, <2>2, QuietCycle, NoneSent DEF Document
  <2>4. QED
    BY <2>2, <2>3
<1>7. QED
  BY <1>1, <1>3, <1>4, <1>5, <1>6

\* What an operator knows, beside a step that wrote versions or left the conversation.
LEMMA BesideKnows ==
    ASSUME CycleInv, NEW versioned \in BOOLEAN, Beside(versioned),
           versioned \/ conversation' = conversation
    PROVE  KnowsInv'
<1>1. /\ operator \in Operator /\ KnowsInv
      /\ spent \in [isolations : 0 .. MaxIsolations, overlaps : 0 .. MaxOverlaps]
  BY DEF CycleInv, QuoteInv, TypeOK
<1>2. CASE operator = Away
  BY <1>2 DEF Beside, KnowsInv, Away
<1>3. CASE operator # Away
  <2>1. /\ operator' = [operator EXCEPT !.stale = @ \/ versioned]
        /\ spent' = [spent EXCEPT !.overlaps = @ + 1]
    BY <1>3 DEF Beside
  <2>2. /\ operator'.document = operator.document /\ operator'.completes = operator.completes
        /\ operator'.stale = (operator.stale \/ versioned)
    BY <1>1, <2>1 DEF Operator
  <2>3. spent'.overlaps # 0
    BY <1>1, <2>1, QuoteAssumption
  <2>4. QED
    BY <1>1, <2>2, <2>3 DEF KnowsInv
<1>4. QED
  BY <1>2, <1>3

\* The steps beside which nothing is counted.
LEMMA OperatorCycle ==
    ASSUME CycleInv,
           \/ \E d \in Documents : LoseResult(d) \/ BeginReconcileSent(d)
           \/ EndReconcileSent \/ AbortReconcileSent \/ UNCHANGED vars
    PROVE  CycleGoal /\ Undisturbed /\ KnowsInv'
<1>1. documents \in [Documents -> Document] /\ operator \in Operator /\ KnowsInv
  BY DEF CycleInv, QuoteInv, TypeOK
<1>2. CASE \E d \in Documents : LoseResult(d)
  <2>1. PICK d \in Documents : LoseResult(d)
    BY <1>2
  <2>2. /\ documents' = [documents EXCEPT ![d].delivery = "isolated"]
        /\ UNCHANGED <<conversation, quotes, current, operator>>
        /\ spent' = [spent EXCEPT !.isolations = @ + 1]
    BY <2>1 DEF LoseResult, Isolated
  <2>3. \A e \in Documents : /\ documents'[e].quote = documents[e].quote
                             /\ documents'[e].batch = documents[e].batch
                             /\ documents'[e].status = documents[e].status
    BY <1>1, <2>2 DEF Document
  <2>4. spent'.overlaps = spent.overlaps
    BY <2>2 DEF CycleInv, QuoteInv, TypeOK
  <2>5. ASSUME NEW e \in Documents
        PROVE  LastOfBatch(e)' <=> LastOfBatch(e)
    BY <2>2, <2>3 DEF LastOfBatch, InBatch, Of
  <2>6. KnowsInv'
    BY <1>1, <2>2, <2>4, <2>5 DEF KnowsInv, Operator
  <2>7. QED
    BY <2>2, <2>3, <2>6, QuietCycle, NoneSent
<1>3. CASE \E d \in Documents : BeginReconcileSent(d)
  <2>1. PICK d \in Documents : BeginReconcileSent(d)
    BY <1>3
  <2>2. /\ UNCHANGED <<conversation, quotes, current, documents, spent>>
        /\ LastOfBatch(d) => Permitted(conversation, "proposal-delivery-confirmed")
        /\ operator' = [document |-> d, completes |-> LastOfBatch(d), stale |-> FALSE]
    BY <2>1 DEF BeginReconcileSent
  <2>3. LastOfBatch(d)' <=> LastOfBatch(d)
    BY <2>2 DEF LastOfBatch, InBatch, Of
  <2>4. KnowsInv'
    BY <2>2, <2>3 DEF KnowsInv
  <2>5. QED
    BY <2>2, <2>4, QuietCycle, NoneSent
<1>4. CASE EndReconcileSent
  <2> DEFINE d == operator.document
  <2>1. /\ d # None /\ operator' = Away /\ documents' = Settled(d, "sent") /\ current' = current
        /\ \/ operator.completes /\ ~operator.stale /\ CompleteBatch(d)
           \/ ~operator.completes /\ UNCHANGED <<conversation, quotes>>
    BY <1>4 DEF EndReconcileSent
  <2>2. d \in Documents /\ documents[d].status # "absent"
    BY <1>1, <2>1 DEF Operator, CycleInv, QuoteInv, OperatorInv
  <2>3. KnowsInv'
    BY <2>1 DEF KnowsInv, Away
  <2>4. CASE operator.completes /\ ~operator.stale /\ CompleteBatch(d)
    <3>1. /\ quotes[documents[d].quote].status = "under-review"
          /\ Permitted(conversation, "proposal-delivery-confirmed")
      BY <1>1, <2>1, <2>4 DEF CycleInv, QuoteInv, OperatorInv, KnowsInv
    <3>2. CycleGoal /\ MovesOn(documents[d].quote)
      BY <2>1, <2>2, <2>4, <3>1, CompleteCycle
    <3>3. \A e \in Documents : e # d => documents'[e] = documents[e]
      BY <1>1, <2>1 DEF Settled
    <3>4. Undisturbed
      BY <3>2, <3>3 DEF Undisturbed, LastConfirmation
    <3>5. QED
      BY <2>3, <3>2, <3>4
  <2>5. CASE ~operator.completes /\ UNCHANGED <<conversation, quotes>>
    <3>1. spent.overlaps = 0 => ~LastOfBatch(d)
      BY <1>1, <2>1, <2>5 DEF KnowsInv
    <3> HIDE DEF d
    <3>2. CycleGoal
      BY <1>1, <2>1, <2>2, <2>5, QuietCycle DEF Settled, Document, Unfinished
    <3>3. QED
      BY <2>1, <2>2, <2>3, <3>1, <3>2, OneSent
  <2>6. QED
    BY <2>1, <2>4, <2>5
<1>5. CASE AbortReconcileSent \/ UNCHANGED vars
  <2>1. /\ UNCHANGED <<conversation, quotes, current, documents, spent>>
        /\ operator' \in {operator, Away}
    BY <1>5 DEF AbortReconcileSent, vars
  <2>2. \A e \in Documents : LastOfBatch(e)' <=> LastOfBatch(e)
    BY <2>1 DEF LastOfBatch, InBatch, Of
  <2>3. KnowsInv'
    BY <1>1, <2>1, <2>2 DEF KnowsInv, Away, Operator
  <2>4. QED
    BY <2>1, <2>3, QuietCycle, NoneSent
<1>6. QED
  BY <1>2, <1>3, <1>4, <1>5

LEMMA NextCycle ==
    ASSUME CycleInv, Unasked, [Next]_vars
    PROVE  CycleInv' /\ ClosingOnly /\ Undisturbed
<1>1. QuoteInv'
  BY NextKeeps DEF CycleInv
<1>2. CASE (Automation \/ Attendant \/ Customer \/ Proposals) /\ Beside(TRUE)
  BY <1>1, <1>2, VersionedCycle, BesideKnows DEF CycleGoal, CycleInv
<1>3. CASE Progress /\ Beside(FALSE)
  BY <1>1, <1>3, ProgressCycle, BesideKnows DEF CycleGoal, CycleInv
<1>4. CASE \/ \E d \in Documents : LoseResult(d) \/ BeginReconcileSent(d)
           \/ EndReconcileSent \/ AbortReconcileSent \/ UNCHANGED vars
  BY <1>1, <1>4, OperatorCycle DEF CycleGoal, CycleInv
<1>5. QED
  BY <1>2, <1>3, <1>4 DEF Next

LEMMA CycleInvariance == ASSUME Unasked PROVE Spec => []CycleInv
<1>1. CycleInv /\ [Next]_vars => CycleInv'
  BY NextCycle
<1>2. QED
  BY <1>1, InitCycle, PTL DEF Spec
-------------------------------------------------------------------------------
\* A request has one unfinished batch at most, and awaits an answer or has one only
\* when a document of it reached the customer: whatever is uploaded, sent, lost,
\* reconciled or decided in whatever order.
THEOREM ProposalsGoInOrder == ASSUME Unasked PROVE Spec => []ProposalsInOrder
<1>1. CycleInv => OneOpenBatch
  <2> SUFFICES ASSUME CycleInv, NEW q \in Numbers
               PROVE  Cardinality({documents[d].batch : d \in {e \in Of(q) :
                          documents[e].batch # None /\ documents[e].status \in Unfinished}}) <= 1
    BY DEF OneOpenBatch
  <2> DEFINE O == {e \in Of(q) : documents[e].batch # None /\ documents[e].status \in Unfinished}
             S == {documents[d].batch : d \in O}
  <2>1. \A d, e \in O : documents[d].batch = documents[e].batch
    BY DEF CycleInv, BatchInv, InOpenBatch, Of
  <2>2. S = {} \/ \E x : S = {x}
    BY <2>1
  <2> HIDE DEF S
  <2>3. CASE S = {}
    BY <2>3, FS_EmptySet DEF S
  <2>4. CASE \E x : S = {x}
    <3>1. PICK x : S = {x}
      BY <2>4
    <3>2. Cardinality(S) = 1
      BY <3>1, FS_Singleton
    <3>3. QED
      BY <3>2 DEF S
  <2>5. QED
    BY <2>2, <2>3, <2>4
<1>2. CycleInv => ProposalsInOrder
  BY <1>1 DEF ProposalsInOrder, CycleInv
<1>3. QED
  BY <1>2, CycleInvariance, PTL

\* The transition a message of the customer brings about is accepted, wherever the
\* conversation stands: the webhook is not delivered again for ever.
THEOREM InboundIsAccepted == ASSUME Unasked PROVE Spec => []InboundIsNeverRefused
<1>1. CycleInv => InboundIsNeverRefused
  <2> SUFFICES ASSUME CycleInv PROVE InboundIsNeverRefused
    OBVIOUS
  <2>1. Closed => Permitted(conversation, "reopen-after-customer-message")
    BY DEF CycleInv, QuoteInv, AttendanceFits, Fits, Closed, Permitted
  <2>2. ASSUME NEW name \in ResumeNames(conversation, contextual)
        PROVE  Permitted(conversation, name)
    BY <2>2 DEF ResumeNames, Permitted, CycleInv, StandsInv, InCommercial, FollowUpRequests
  <2>3. QED
    BY <2>1, <2>2 DEF InboundIsNeverRefused
<1>2. QED
  BY <1>1, CycleInvariance, PTL

\* Only a closing takes from a proposal that is being sent the conversation that
\* accepts its confirmation.
THEOREM OnlyClosingPrevents == ASSUME Unasked PROVE Spec => OnlyClosingPreventsConfirmation
<1>1. CycleInv /\ [Next]_vars => [ClosingOnly]_vars
  BY NextCycle
<1>2. QED
  BY <1>1, CycleInvariance, PTL DEF Spec, OnlyClosingPreventsConfirmation, ClosingOnly

\* The confirmation of the last document of a batch moves its request and the
\* conversation on, unless something was committed beside a reconciliation.
THEOREM ConfirmationCounts == ASSUME Unasked PROVE Spec => UndisturbedConfirmationCounts
<1>1. CycleInv /\ [Next]_vars => [Undisturbed]_vars
  BY NextCycle
<1>2. QED
  BY <1>1, CycleInvariance, PTL DEF Spec, UndisturbedConfirmationCounts, Undisturbed
===============================================================================
