------------------------------- MODULE MCRing -------------------------------
(* FixedMpmcRing for TLC: a handful of threads around a small ring.         *)
EXTENDS FixedMpmcRing, TLC

ThreadSymmetry == Permutations(Threads)
=============================================================================
