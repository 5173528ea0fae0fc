------------------------------ MODULE MCIdentity ------------------------------
EXTENDS Identity, TLC

\* Requests are interchangeable: only what they carry tells them apart.
MCSymmetry == Permutations(Requests)
=============================================================================
