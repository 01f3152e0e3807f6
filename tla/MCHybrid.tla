------------------------------ MODULE MCHybrid ------------------------------
(* HybridStartup for TLC.                                                   *)
EXTENDS HybridStartup, TLC

PriorityOrder == <<"Reflex", "AntiLag2">>
ThreadSymmetry == Permutations(Threads)

\* Freeze at once, freeze after one more frame, or select per callback.
PolicySet ==
    {[startup_locked |-> TRUE, startup_observations |-> 0],
     [startup_locked |-> TRUE, startup_observations |-> 1],
     [startup_locked |-> FALSE, startup_observations |-> 1]}

\* The properties say nothing of what follows a torn session.
UntilTorn == ~torn
=============================================================================
