------------------------- MODULE MCDocumentApproval -------------------------
(* Finite instances of DocumentApproval.                                   *)
EXTENDS DocumentApproval, TLC

\* Request slots are interchangeable, and so are the files and the grades.
Symmetry == Permutations(Requests) \cup Permutations(Contents)
            \cup Permutations(Grades)
=============================================================================
