------------------------------- MODULE MCRing -------------------------------
(* Instances of RingBuffer for TLC. *)
EXTENDS RingBuffer

CONSTANTS b1, b2
=============================================================================
