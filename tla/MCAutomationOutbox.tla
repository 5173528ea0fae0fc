-------------------------- MODULE MCAutomationOutbox --------------------------
(***************************************************************************)
(* Instances of AutomationOutbox for TLC.                                  *)
(***************************************************************************)
EXTENDS AutomationOutboxOrder, TLC

\* Processes and conversations are interchangeable (safety runs only).
Symmetry == Permutations(Processes) \cup Permutations(Conversations)
===============================================================================
