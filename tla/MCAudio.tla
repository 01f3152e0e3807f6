------------------------------ MODULE MCAudio ------------------------------
EXTENDS AudioTimeline, TLC

MCSymmetry == Permutations(Pollers) \cup Permutations(Addresses)

\* 48 kHz requests with the ranges shared-mode drivers report: multiples of the
\* fundamental period, one fixed-period driver, and a request off the grid.
MCRequests ==
    {[rate |-> 48000, requested |-> q, fundamental |-> f, min |-> m, max |-> 480] :
        q \in {144, 250, 480}, f \in {16, 48}, m \in {96, 144, 480}}

=============================================================================
