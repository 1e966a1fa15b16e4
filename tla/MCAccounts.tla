------------------------------- MODULE MCAccounts -------------------------------
(* Accounts on a small instance: names and threads are interchangeable.       *)
EXTENDS Accounts, TLC

Symmetry == Permutations(User) \cup Permutations(Thread)
=============================================================================
