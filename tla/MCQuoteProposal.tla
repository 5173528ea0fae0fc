---------------------------- MODULE MCQuoteProposal ----------------------------
(***************************************************************************)
(* Instances of QuoteProposal for TLC.                                     *)
(***************************************************************************)
EXTENDS QuoteProposal, TLC

\* The confirmation of a delivery is left to the operations that record it:
\* nothing in the repository asks for that transition by name.
Asked          == TransitionNames \ {"proposal-delivery-confirmed"}

\* Attendants, documents and batches are interchangeable (safety runs only).
Symmetry == Permutations(Users) \cup Permutations(Documents) \cup Permutations(Batches)
===============================================================================
