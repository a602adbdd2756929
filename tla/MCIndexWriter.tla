---------------------------- MODULE MCIndexWriter ----------------------------
(* Instances of IndexWriter for TLC. *)
EXTENDS IndexWriter
=============================================================================
