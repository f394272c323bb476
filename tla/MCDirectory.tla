----------------------------- MODULE MCDirectory -----------------------------
EXTENDS Directory, TLC

Symmetry == Permutations(Users) \cup Permutations(Courses) \cup Permutations(Requests)
=============================================================================
