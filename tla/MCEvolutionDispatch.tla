------------------------- MODULE MCEvolutionDispatch -------------------------
(***************************************************************************)
(* The instance of EvolutionDispatch for TLC.  Its dispatches are          *)
(* interchangeable, but one of its properties is about liveness, so that   *)
(* no symmetry is used.                                                    *)
(***************************************************************************)
EXTENDS EvolutionDispatch, TLC
===============================================================================
