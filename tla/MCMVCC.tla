------------------------------- MODULE MCMVCC -------------------------------
(* The instance of MVCC for TLC: two threads, both of which run transactions. *)
EXTENDS MVCC

CONSTANTS c1, c2

BothClients == {c1, c2}
=============================================================================
