---------------------------- MODULE MCConversation ----------------------------
(***************************************************************************)
(* Instances of Conversation for TLC.                                      *)
(***************************************************************************)
EXTENDS Conversation, TLC

\* Attendants and messages are interchangeable (safety runs only).
Symmetry == Permutations(Users) \cup Permutations(Messages)
===============================================================================
