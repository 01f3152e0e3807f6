----------------------------- MODULE AudioModel -----------------------------
(***************************************************************************)
(* The pure parts of AudioFlex: the shared-mode period negotiation          *)
(* (audio_period_policy.h) and the endpoint queue estimate                  *)
(* (audio_queue_model.h).                                                   *)
(***************************************************************************)
EXTENDS Integers

LOCAL Lower(a, b) == IF a < b THEN a ELSE b
LOCAL Higher(a, b) == IF a > b THEN a ELSE b
Clamp(x, low, high) == Lower(Higher(x, low), high)
CeilDiv(a, b) == (a + b - 1) \div b

us_to_frames_ceil(us, rate) == CeilDiv(us * rate, 1000000)

\* The result never leaves 32 bits here: periods are far below.
align_period_up(frames, fundamental) ==
    IF fundamental = 0 THEN frames ELSE CeilDiv(frames, fundamental) * fundamental

\* What GetSharedModeEnginePeriod reported, and the period the caller asked for.
ValidRange(r) ==
    /\ r.rate # 0 /\ r.requested # 0 /\ r.fundamental # 0 /\ r.min # 0 /\ r.max # 0
    /\ r.min <= r.max /\ r.min <= r.requested /\ r.requested <= r.max

FloorByStep(r, maxReduction) == CeilDiv(r.requested * (100 - Clamp(maxReduction, 1, 90)), 100)

\* Mutant: the floor of the reduction is not aligned to the fundamental period.
choose_period_candidate_Unaligned(r, targetUs, maxReduction) ==
    LET target == Clamp(align_period_up(us_to_frames_ceil(targetUs, r.rate), r.fundamental), r.min, r.max)
    IN  IF ~ValidRange(r) \/ target >= r.requested THEN r.requested
        ELSE Clamp(Higher(target, FloorByStep(r, maxReduction)), r.min, r.requested)

\* The candidate period; the requested one where the code reports no change.
choose_period_candidate(r, targetUs, maxReduction) ==
    LET target == Clamp(align_period_up(us_to_frames_ceil(targetUs, r.rate), r.fundamental), r.min, r.max)
    IN  IF ~ValidRange(r) \/ target >= r.requested THEN r.requested
        ELSE Clamp(align_period_up(Higher(target, FloorByStep(r, maxReduction)), r.fundamental),
                   r.min, r.requested)

\* build_queue_estimate: does the observed stream s support an estimate with a
\* capacity?  How much it is trusted beyond that only grades a log line.
build_queue_estimate(s) ==
    [valid |-> s.init /\ s.flow = "render" /\ s.mode = "shared" /\ s.rate # 0 /\ s.pad # 0,
     capacity |-> s.buffer # 0]
=============================================================================
