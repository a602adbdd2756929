----------------------------- MODULE MCReaderPool -----------------------------
(* Instances of ReaderPool for TLC. *)
EXTENDS ReaderPool, TLC

CONSTANTS t1, t2

TwoThreads == {t1, t2}
ThreadSymmetry == Permutations(TwoThreads)
=============================================================================
