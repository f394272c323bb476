----------------------- MODULE MCApprovalCertificates -----------------------
(* Finite instances of ApprovalCertificates: one user, who advises the     *)
(* defenses all the approval rows are of.                                  *)
EXTENDS ApprovalCertificates, TLC

CONSTANT user

OneUser == {user}
OwnedByUser == [a \in Approvals |-> user]

Symmetry == Permutations(Requests) \cup Permutations(Approvals)
=============================================================================
