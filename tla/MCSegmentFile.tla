---------------------------- MODULE MCSegmentFile ----------------------------
(* Instances of SegmentFile for TLC: a byte has four values. *)
EXTENDS SegmentFile

SomePayloads == {<<1>>, <<0, 3>>, <<2, 1, 0>>, <<3, 3, 3, 3, 3>>}
=============================================================================
