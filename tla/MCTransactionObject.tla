------------------------- MODULE MCTransactionObject -------------------------
(* Instances of TransactionObject for TLC. *)
EXTENDS TransactionObject, TLC

CONSTANTS t1, t2, t3

AllThreads == {t1, t2, t3}
ThreadSymmetry == Permutations(AllThreads)
=============================================================================
