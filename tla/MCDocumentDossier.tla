--------------------------- MODULE MCDocumentDossier ---------------------------
EXTENDS DocumentDossier

Interchangeable ==
  Permutations(Commands) \cup Permutations(Files) \cup Permutations(Workers)
=============================================================================
