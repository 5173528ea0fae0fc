--------------------------- MODULE MCAutomationFlow ---------------------------
(***************************************************************************)
(* Instances of AutomationFlow for TLC.                                    *)
(***************************************************************************)
EXTENDS AutomationFlow
===============================================================================
