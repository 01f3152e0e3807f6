----------------------------- MODULE MCTimeline -----------------------------
(* Reflex paces; XeLL owns the simulation marker and frame generation.        *)
EXTENDS FrameTimeline, TLC

MCOwner == [sim |-> "xell", fg |-> "xell"]
MCSymmetry == Permutations(Threads)
=============================================================================
