----------------------------- MODULE MCAccounts -----------------------------
(* Instances of Accounts for TLC. *)
EXTENDS Accounts, TLC

(* Users and threads are interchangeable. *)
Symmetry == Permutations(User) \cup Permutations(Thread)
=============================================================================
