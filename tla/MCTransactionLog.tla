-------------------------- MODULE MCTransactionLog --------------------------
(* Instances of TransactionLog for TLC. *)
EXTENDS TransactionLog, TLC

(* The stations are interchangeable. *)
Symmetry == Permutations(Sern)
=============================================================================
