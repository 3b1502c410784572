------------------------------ MODULE MCBuffer ------------------------------
(* A buffer of three bytes, asked for up to one byte more than it can hold.  *)
EXTENDS Buffer, TLC
MCData == {0, 7}
MCCounts == 0..(MaxSize + 1)
=============================================================================
