---------------------------- MODULE ArbiterRules ----------------------------
(***************************************************************************)
(* policy::InputArbiter (input_arbiter.cpp) as operators on its state: how  *)
(* callbacks earn a frontend quality, when it goes stale, and which one a   *)
(* selection prefers.  A callback's updates are taken as one step.          *)
(***************************************************************************)
EXTENDS Integers, Sequences

CONSTANTS
    Frontends,         \* the input frontends present in this process
    AutoInput,         \* InputFrontend::Auto, "none selected"
    Priority,          \* snapshot.input.priority, a sequence of frontends
    InputMode,         \* snapshot.input.mode
    AllowFallback,     \* snapshot.general.allow_fallback
    MinimumQuality,    \* snapshot.input.minimum_quality
    StaleWindow        \* kStaleObservationWindow

ASSUME ArbiterAssumption ==
    /\ AutoInput \notin Frontends
    /\ \A i \in DOMAIN Priority : Priority[i] \in Frontends
    /\ InputMode \in Frontends \cup {AutoInput} /\ AllowFallback \in BOOLEAN
    /\ MinimumQuality \in 0 .. 100 /\ StaleWindow \in Nat

kSwitchQualityMargin == 8

EvidenceBonus ==
    [Capability |-> 2, Context |-> 8, Control |-> 14, Sleep |-> 18,
     Marker |-> 4, AsyncMarker |-> 8, FrameGen |-> 10]

\* Markers whose first observation is worth more.
AnchorMarkers == {"SimulationStart", "PresentStart", "RenderSubmitStart", "InputSample"}

AtMost100(n) == IF n > 100 THEN 100 ELSE n

NoObservations ==
    [last_frame_id |-> 0, last_observation_sequence |-> 0, marker_mask |-> {},
     evidence_mask |-> {}, quality |-> 0, seen |-> FALSE]

ResetArbiter == [sequence |-> 0, state |-> [f \in Frontends |-> NoObservations]]

\* note_evidence: a bonus the first time, nothing after that.
NoteEvidence(a, f, e) ==
    IF e \in a.state[f].evidence_mask THEN a
    ELSE [a EXCEPT !.state[f].evidence_mask = @ \cup {e},
                   !.state[f].quality = AtMost100(@ + EvidenceBonus[e])]

\* The score observe() ends with, from the state s before it (its Marker
\* evidence included): forward progress, regression and new vocabulary count.
ScoreAfter(s, m, id) ==
    LET base == IF s.seen THEN s.quality ELSE IF s.quality < 20 THEN 20 ELSE s.quality
        progress ==
            IF ~s.seen \/ id = s.last_frame_id THEN base
            ELSE IF id > s.last_frame_id THEN AtMost100(base + 4)
            ELSE IF base > 12 THEN base - 12 ELSE 0
        fresh_marker == IF m \in s.marker_mask THEN 0 ELSE IF m \in AnchorMarkers THEN 13 ELSE 8
    IN AtMost100(progress + fresh_marker)

\* observe: only a new native frame advances the shared activity sequence.
Observe(a, f, m, id) ==
    LET b == NoteEvidence(a, f, "Marker")
        s == b.state[f]
        advanced == ~s.seen \/ id # s.last_frame_id
        now == IF advanced THEN b.sequence + 1 ELSE b.sequence
    IN [sequence |-> now,
        state |-> [b.state EXCEPT ![f] =
            [@ EXCEPT !.last_frame_id = id,
                      !.last_observation_sequence = IF advanced THEN now ELSE @,
                      !.marker_mask = @ \cup {m},
                      !.quality = ScoreAfter(s, m, id),
                      !.seen = TRUE]]]

Fresh(a, f) ==
    LET age == a.sequence - a.state[f].last_observation_sequence
    IN a.state[f].seen /\ 0 <= age /\ age <= StaleWindow

\* select: the qualities that count are those of fresh, eligible candidates.
Healthy(a, eligible, f) ==
    f \in eligible /\ Fresh(a, f) /\ a.state[f].quality >= MinimumQuality

\* The element of cand with the highest score, earliest in priority order.
PreferredBy(score, cand) ==
    LET Ranked == {i \in DOMAIN Priority : Priority[i] \in cand}
        Better(i, j) == \/ score[Priority[i]] > score[Priority[j]]
                        \/ score[Priority[i]] = score[Priority[j]] /\ i < j
    IN IF Ranked = {} THEN AutoInput
       ELSE Priority[CHOOSE i \in Ranked : \A j \in Ranked \ {i} : Better(i, j)]

\* select: a forced mode first, then the best candidate, except that a
\* healthy incumbent yields only to one materially better.
Select(a, current, eligible) ==
    LET quality == [f \in Frontends |-> a.state[f].quality]
        healthy == {f \in Frontends : Healthy(a, eligible, f)}
        best == PreferredBy(quality, healthy)
        incumbent == current \in healthy /\ \E i \in DOMAIN Priority : Priority[i] = current
    IN IF InputMode \in healthy THEN InputMode
       ELSE IF InputMode # AutoInput /\ ~AllowFallback THEN AutoInput
       ELSE IF incumbent /\ (best = current \/ quality[best] < quality[current] + kSwitchQualityMargin)
            THEN current
       ELSE best
=============================================================================
