---------------------------- MODULE MCTransactions ----------------------------
(* Instances of Transactions for TLC. *)
EXTENDS Transactions

CONSTANTS t1, t2

TwoTxs == {t1, t2}
=============================================================================
