------------------------------- MODULE MCCage -------------------------------
(* Instances of Cage for TLC: two memory limits below RLIM_INFINITY.         *)
EXTENDS Cage
=============================================================================
