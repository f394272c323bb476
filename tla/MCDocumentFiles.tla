--------------------------- MODULE MCDocumentFiles ---------------------------
EXTENDS DocumentFiles, TLC

Symmetry == Permutations(Files) \cup Permutations(Requests)
=============================================================================
