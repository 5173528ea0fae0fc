------------------------- MODULE AttendedConversation -------------------------
(***************************************************************************)
(* The part of a conversation's row that Conversation and QuoteProposal    *)
(* both change: where the conversation is and who attends it.              *)
(***************************************************************************)
EXTENDS ConversationMatrix

CONSTANTS
    Users,         \* attendants
    None           \* nobody; no message, document or batch either

VARIABLES
    conversation,  \* the snapshot in the row
    assigned,      \* assignedToUserId
    contextual     \* contextualFollowUpAt is set

\* Whatever order attendants, bot and customer act in, and whatever
\* transactions overlap, state, step and attendant of the row fit together,
\* and the bot is never sent back to a step that is not one of its own.
AttendanceFits == Fits(conversation, assigned # None)
===============================================================================
