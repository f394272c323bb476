------------------------------ MODULE MCAccounts ------------------------------
(* Finite instances of Accounts.                                           *)
EXTENDS Accounts, TLC

Symmetry == Permutations(Users) \cup Permutations(Browsers) \cup Permutations(Requests)
=============================================================================
