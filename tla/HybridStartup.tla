--------------------------- MODULE HybridStartup ---------------------------
(***************************************************************************)
(* How the one pacing owner of a session is chosen and frozen: the frontend *)
(* callbacks of LowLatency (observe_input, observe_sleep_input,             *)
(* hybrid_accept_marker, FrontendSetFgType) calling                         *)
(* HybridFusion::maybe_lock_startup from any thread without a lock, while   *)
(* deinit_current_tech may end the session underneath them.  A step ends    *)
(* where another thread can change what the callback has just read; arbiter *)
(* updates are atomic.                                                      *)
(* Of the thirteen semantic aspects frozen together only Pacing is kept.    *)
(***************************************************************************)
EXTENDS ArbiterRules

CONSTANTS
    Threads,                \* threads making frontend callbacks
    Markers,                \* markers the frontends emit
    SleepModes,             \* modes they report: "on", "off"
    Policies,               \* snapshot.hybrid: [startup_locked, startup_observations]
    AspectMinimumQuality,   \* snapshot.hybrid.aspect_minimum_quality
    Word,                   \* stands for 2^64: unsigned subtraction wraps
    MaxFrame,               \* bound: native frame ids
    MaxCalls,               \* bound: frontend callbacks
    MaxDeinits              \* bound: backend teardowns

ASSUME StartupAssumption ==
    /\ Policies \subseteq [startup_locked : BOOLEAN, startup_observations : Nat]
    /\ AspectMinimumQuality \in 0 .. 100
    /\ Word \in Nat /\ Word > MaxCalls
    /\ \A p \in Policies : Word > p.startup_observations
    /\ MaxFrame \in Nat /\ MaxCalls \in Nat /\ MaxDeinits \in Nat

VARIABLES
    arb,             \* input_arbiter
    sleep_mode,      \* frontend_control_state_: "none", "on" or "off"
    selected_input,
    hotpath,         \* hybrid_hotpath_locked_
    controls,        \* HybridFusion: frontends with a published Enabled field
    pacing_seen,     \* HybridFusion: pacing_seen_mask_
    start,           \* HybridFusion: startup_begin_sequence_
    lock_state,      \* HybridFusion: 0 open, 1 deciding, 2 frozen
    owner,           \* HybridFusion: Pacing owner in frozen_owner_word_
    backend,         \* active_backend_published_ is a Hybrid executor
    policy,          \* the configuration of the process
    pc, call, now, previous, desired,     \* locals of the callback in progress
    dpc, deinits,    \* deinit_current_tech; holds active_tech_mutex unless "idle"
    calls,
    drivers,         \* history: frontends granted pacing in this session
    torn             \* history: a teardown began under a callback in progress

fusion == <<controls, pacing_seen, start, lock_state, owner>>
session == <<arb, sleep_mode, selected_input, hotpath, backend>>
locals == <<call, now, previous, desired>>
teardown == <<dpc, deinits>>
vars == <<fusion, session, pc, locals, teardown, calls, drivers, torn, policy>>

\* What a callback in progress remembers; ret and eligible belong to its call
\* of maybe_lock_startup.
Call(f, op, m, n) ==
    [frontend |-> f, op |-> op, marker |-> m, frame |-> n, ret |-> "none", eligible |-> {}]
NoCall == Call(AutoInput, "none", "none", 0)

PCs == {"idle", "hot", "hot_selected", "observe", "load", "lock_now", "lock_start",
        "lock_cas", "lock_decide", "lock_publish", "resolve", "select", "commit",
        "committed", "update", "accept", "accepted"}

CallType ==
    [frontend : Frontends \cup {AutoInput}, op : {"none", "sleep", "marker", "fg"},
     marker : Markers \cup {"none", "SimulationStart"}, frame : Nat,
     ret : {"none", "resolve", "accepted"}, eligible : SUBSET Frontends]

\* The flags, and where each thread and the teardown are.
ControlOK ==
    /\ policy \in Policies
    /\ hotpath \in BOOLEAN /\ backend \in BOOLEAN /\ lock_state \in 0 .. 2
    /\ pc \in [Threads -> PCs] /\ call \in [Threads -> CallType]
    /\ \A t \in Threads : call[t].frontend = AutoInput => pc[t] = "idle"
    /\ \A t \in Threads :
        pc[t] \in {"lock_now", "lock_start", "lock_cas", "lock_decide", "lock_publish"} =>
            call[t].ret # "none"
    /\ DOMAIN desired = Threads
    /\ dpc \in {"idle", "hot", "selected", "arbiter", "fusion", "lock"}
    /\ drivers \subseteq Frontends /\ torn \in BOOLEAN

TypeOK ==
    /\ ControlOK
    /\ arb.sequence \in Nat
    /\ \A f \in Frontends : arb.state[f].quality \in 0 .. 100
    /\ sleep_mode \in [Frontends -> {"none", "on", "off"}]
    /\ selected_input \in Frontends \cup {AutoInput} /\ owner \in Frontends \cup {AutoInput}
    /\ controls \subseteq Frontends /\ pacing_seen \subseteq Frontends
    /\ start \in Nat
    /\ now \in [Threads -> Nat]
    /\ previous \in [Threads -> Frontends \cup {AutoInput}]
    /\ desired \in [Threads -> Frontends \cup {AutoInput}]

Init ==
    /\ arb = ResetArbiter
    /\ sleep_mode = [f \in Frontends |-> "none"]
    /\ selected_input = AutoInput /\ hotpath = FALSE /\ backend = FALSE
    /\ controls = {} /\ pacing_seen = {} /\ start = 0 /\ lock_state = 0 /\ owner = AutoInput
    /\ pc = [t \in Threads |-> "idle"]
    /\ call = [t \in Threads |-> NoCall]
    /\ now = [t \in Threads |-> 0]
    /\ previous = [t \in Threads |-> AutoInput] /\ desired = [t \in Threads |-> AutoInput]
    /\ dpc = "idle" /\ deinits = 0
    /\ calls = 0
    /\ drivers = {} /\ torn = FALSE
    /\ policy \in Policies

Goto(t, l) == pc' = [pc EXCEPT ![t] = l]

\* The callback returns; its locals are dead.
Return(t) ==
    /\ Goto(t, "idle")
    /\ call' = [call EXCEPT ![t] = NoCall]
    /\ now' = [now EXCEPT ![t] = 0]
    /\ previous' = [previous EXCEPT ![t] = AutoInput]
    /\ desired' = [desired EXCEPT ![t] = AutoInput]

hybrid_execution_active == policy.startup_locked /\ backend
frontend_selection_mask == {f \in Frontends : sleep_mode[f] # "off"}

----------------------------------------------------------------------------
(* Entry of the frontend callbacks *)

\* update_low_latency_tech: create the backend if none is published, under
\* active_tech_mutex.
EnsureBackend == (backend \/ dpc = "idle") /\ backend' = TRUE

\* With startup_hybrid_configured sleeps, markers and sleep modes do so first.
\* If the creation fails a sleep or a marker returns having changed nothing.
EntryBackend == IF policy.startup_locked THEN EnsureBackend ELSE UNCHANGED backend

\* store_frontend_sleep_mode: the frontend reports its requested mode.
FrontendSetSleepMode(f, mode) ==
    /\ calls < MaxCalls /\ calls' = calls + 1
    /\ \/ IF selected_input = f THEN EnsureBackend ELSE EntryBackend
       \/ ~backend /\ UNCHANGED backend     \* no backend could be created
    /\ arb' = IF hotpath THEN arb ELSE NoteEvidence(arb, f, "Control")
    /\ sleep_mode' = [sleep_mode EXCEPT ![f] = mode]
    /\ controls' = controls \cup {f}
    /\ UNCHANGED <<selected_input, hotpath, pacing_seen, start, lock_state, owner,
                   pc, locals, teardown, drivers>>

Begin(t, c, l) ==
    /\ pc[t] = "idle"
    /\ calls < MaxCalls /\ calls' = calls + 1
    /\ call' = [call EXCEPT ![t] = c]
    /\ Goto(t, l)
    /\ UNCHANGED <<selected_input, hotpath, sleep_mode, controls, start, lock_state, owner,
                   now, previous, desired, teardown, drivers>>

\* observe_sleep_input up to its call of observe_input; on the hot path only
\* the frame token is materialised.
FrontendSleep(t, f, n) ==
    /\ Begin(t, Call(f, "sleep", "SimulationStart", n),
             IF hotpath THEN "hot_selected" ELSE "hot")
    /\ EntryBackend
    /\ arb' = IF hotpath THEN arb ELSE NoteEvidence(arb, f, "Sleep")
    /\ pacing_seen' = IF ~hotpath /\ policy.startup_locked /\ lock_state # 2
                      THEN pacing_seen \cup {f} ELSE pacing_seen

FrontendSetMarker(t, f, m, n) ==
    /\ Begin(t, Call(f, "marker", m, n), "hot")
    /\ EntryBackend
    /\ UNCHANGED <<arb, pacing_seen>>

FrontendSetFgType(t, f) ==
    /\ Begin(t, Call(f, "fg", "none", 0), "accept")
    /\ arb' = IF hotpath THEN arb ELSE NoteEvidence(arb, f, "FrameGen")
    /\ UNCHANGED <<backend, pacing_seen>>

\* Call maybe_lock_startup with the frontends eligible right now.
CallLock(t, ret) ==
    /\ Goto(t, "lock_now")
    /\ call' = [call EXCEPT ![t].ret = ret, ![t].eligible = frontend_selection_mask]

----------------------------------------------------------------------------
(* observe_input *)

\* observe_input returns drives.  A driving callback goes on to
\* update_low_latency_tech; another one still offers its marker to Hybrid.
Drives(t, b) ==
    /\ drivers' = IF b THEN drivers \cup {call[t].frontend} ELSE drivers
    /\ IF b THEN Goto(t, "update") /\ UNCHANGED locals
       ELSE IF call[t].op = "marker" /\ backend /\ (hotpath \/ policy.startup_locked)
            THEN Goto(t, "accept") /\ UNCHANGED locals
            ELSE Return(t)

HotCheck(t) ==
    /\ pc[t] = "hot"
    /\ Goto(t, IF hotpath THEN "hot_selected" ELSE "observe")
    /\ UNCHANGED <<fusion, session, locals, teardown, calls, drivers>>

HotSelected(t) ==
    /\ pc[t] = "hot_selected"
    /\ Drives(t, selected_input = call[t].frontend)
    /\ UNCHANGED <<fusion, session, teardown, calls>>

ObserveMarker(t) ==
    /\ pc[t] = "observe"
    /\ arb' = Observe(arb, call[t].frontend, call[t].marker, call[t].frame)
    /\ Goto(t, "load")
    /\ UNCHANGED <<fusion, sleep_mode, selected_input, hotpath, backend, locals, teardown, calls, drivers>>

\* Mutant: until the freeze the ordinary selector provides an owner.
LoadSelected_Provisional(t) ==
    /\ pc[t] = "load"
    /\ previous' = [previous EXCEPT ![t] = selected_input]
    /\ IF hybrid_execution_active /\ lock_state = 2
       THEN CallLock(t, "resolve")
       ELSE Goto(t, "select") /\ UNCHANGED call
    /\ UNCHANGED <<fusion, session, now, desired, teardown, calls, drivers>>

\* The head of the selection loop.
LoadSelected(t) ==
    /\ pc[t] = "load"
    /\ previous' = [previous EXCEPT ![t] = selected_input]
    /\ IF hybrid_execution_active
       THEN CallLock(t, "resolve")
       ELSE Goto(t, "select") /\ UNCHANGED call
    /\ UNCHANGED <<fusion, session, now, desired, teardown, calls, drivers>>

SelectInput(t) ==
    /\ pc[t] = "select"
    /\ desired' = [desired EXCEPT ![t] = Select(arb, previous[t], frontend_selection_mask)]
    /\ Goto(t, "commit")
    /\ UNCHANGED <<fusion, session, call, now, previous, teardown, calls, drivers>>

\* resolve_pacing_source after maybe_lock_startup: locked_source(Pacing).
ResolvePacing(t) ==
    /\ pc[t] = "resolve"
    /\ desired' = [desired EXCEPT ![t] = IF lock_state = 2 THEN owner ELSE AutoInput]
    /\ Goto(t, "commit")
    /\ UNCHANGED <<fusion, session, call, now, previous, teardown, calls, drivers>>

\* Nothing to change, or the CAS on selected_input: a loser starts over.
CommitSelection(t) ==
    /\ pc[t] = "commit"
    /\ \/ /\ desired[t] = previous[t] \/ selected_input = previous[t]
          /\ selected_input' = IF desired[t] = previous[t] THEN selected_input ELSE desired[t]
          /\ Goto(t, "committed")
       \/ /\ desired[t] # previous[t] /\ selected_input # previous[t]
          /\ Goto(t, "load")
          /\ UNCHANGED selected_input
    /\ UNCHANGED <<fusion, arb, sleep_mode, hotpath, backend, locals, teardown, calls, drivers>>

\* Publish the hot-path flag once the frozen owner is committed, and return.
PublishHotpath(t) ==
    /\ pc[t] = "committed"
    /\ hotpath' = (hotpath \/ (desired[t] # AutoInput /\ lock_state = 2))
    /\ Drives(t, desired[t] = call[t].frontend)
    /\ UNCHANGED <<fusion, arb, sleep_mode, selected_input, backend, teardown, calls>>

\* The driving callback makes sure its backend exists, or gives up.
UpdateTech(t) ==
    /\ pc[t] = "update"
    /\ \/ /\ EnsureBackend
          /\ IF call[t].op = "marker" THEN Goto(t, "accept") /\ UNCHANGED locals ELSE Return(t)
       \/ ~backend /\ Return(t) /\ UNCHANGED backend
    /\ UNCHANGED <<fusion, arb, sleep_mode, selected_input, hotpath, teardown, calls, drivers>>

----------------------------------------------------------------------------
(* hybrid_accept_marker and FrontendSetFgType: the startup decision may also *)
(* be taken here.                                                            *)

AcceptMarker(t) ==
    /\ pc[t] = "accept"
    /\ IF hotpath \/ ~hybrid_execution_active
       THEN Return(t)
       ELSE CallLock(t, "accepted") /\ UNCHANGED <<now, previous, desired>>
    /\ UNCHANGED <<fusion, session, teardown, calls, drivers>>

AcceptedMarker(t) ==
    /\ pc[t] = "accepted"
    /\ hotpath' = (hotpath \/ lock_state = 2)
    /\ Return(t)
    /\ UNCHANGED <<fusion, arb, sleep_mode, selected_input, backend, teardown, calls, drivers>>

----------------------------------------------------------------------------
(* HybridFusion::maybe_lock_startup; it returns to call[t].ret *)

\* Returning false, resolve_pacing_source has no owner to offer.
LockReturn(t, locked) ==
    /\ Goto(t, IF call[t].ret = "resolve" /\ ~locked THEN "commit" ELSE call[t].ret)
    /\ now' = [now EXCEPT ![t] = 0]
    /\ desired' = [desired EXCEPT ![t] = AutoInput]

\* Already frozen, or read the observation watermark.
LockNow(t) ==
    /\ pc[t] = "lock_now"
    /\ IF lock_state = 2 \/ arb.sequence = 0
       THEN LockReturn(t, lock_state = 2)
       ELSE now' = [now EXCEPT ![t] = arb.sequence] /\ Goto(t, "lock_start") /\ UNCHANGED desired
    /\ UNCHANGED <<fusion, session, call, previous, teardown, calls, drivers>>

AnyCandidate(eligible) ==
    \E f \in eligible :
        Fresh(arb, f) /\ arb.state[f].quality >= AspectMinimumQuality

\* The first caller with a credible frontend opens the observation window.
LockStart(t) ==
    /\ pc[t] = "lock_start"
    /\ IF ~AnyCandidate(call[t].eligible)
       THEN LockReturn(t, FALSE) /\ UNCHANGED start
       ELSE /\ start' = IF start = 0 THEN now[t] ELSE start
            /\ IF (now[t] - start') % Word < policy.startup_observations
               THEN LockReturn(t, FALSE)
               ELSE Goto(t, "lock_cas") /\ UNCHANGED <<now, desired>>
    /\ UNCHANGED <<controls, pacing_seen, lock_state, owner, session, call, previous, teardown, calls, drivers>>

\* Mutant: check, then store.  A decision in progress does not stop a second.
LockCas_Store(t) ==
    /\ pc[t] = "lock_cas"
    /\ IF lock_state # 2
       THEN lock_state' = 1 /\ Goto(t, "lock_decide") /\ UNCHANGED <<now, desired>>
       ELSE LockReturn(t, lock_state = 2) /\ UNCHANGED lock_state
    /\ UNCHANGED <<controls, pacing_seen, start, owner, session, call, previous, teardown, calls, drivers>>

\* compare_exchange(0 -> 1): exactly one thread takes the decision.
LockCas(t) ==
    /\ pc[t] = "lock_cas"
    /\ IF lock_state = 0
       THEN lock_state' = 1 /\ Goto(t, "lock_decide") /\ UNCHANGED <<now, desired>>
       ELSE LockReturn(t, lock_state = 2) /\ UNCHANGED lock_state
    /\ UNCHANGED <<controls, pacing_seen, start, owner, session, call, previous, teardown, calls, drivers>>

\* candidate_score for Pacing: quality plus semantic_bias.
PacingScore ==
    [f \in Frontends |-> arb.state[f].quality + (IF f = "AntiLag2" THEN 12 ELSE 10)]

\* choose_best_source(Pacing): first among frontends seen pacing, else any.
PacingCandidates(eligible) ==
    {f \in eligible \cap controls :
        Fresh(arb, f) /\ arb.state[f].quality >= AspectMinimumQuality}
PacingOwner(eligible) ==
    LET candidates == PacingCandidates(eligible)
        seen == PreferredBy(PacingScore, candidates \cap pacing_seen)
    IN IF seen # AutoInput THEN seen ELSE PreferredBy(PacingScore, candidates)

LockDecide(t) ==
    /\ pc[t] = "lock_decide"
    /\ owner' = PacingOwner(call[t].eligible)
    /\ Goto(t, "lock_publish")
    /\ UNCHANGED <<controls, pacing_seen, start, lock_state, session, locals, teardown, calls, drivers>>

LockPublish(t) ==
    /\ pc[t] = "lock_publish"
    /\ lock_state' = 2
    /\ LockReturn(t, TRUE)
    /\ UNCHANGED <<controls, pacing_seen, start, owner, session, call, previous, teardown, calls, drivers>>

----------------------------------------------------------------------------
(* deinit_current_tech *)

DeinitWithdraw ==
    /\ dpc = "idle" /\ backend /\ deinits < MaxDeinits
    /\ torn' = (torn \/ \E t \in Threads : pc[t] # "idle")
    /\ backend' = FALSE
    /\ drivers' = {}
    /\ dpc' = "hot" /\ deinits' = deinits + 1
    /\ UNCHANGED <<fusion, arb, sleep_mode, selected_input, hotpath, pc, locals, calls>>

DeinitStep(l, next) ==
    /\ dpc = l /\ dpc' = next
    /\ UNCHANGED <<sleep_mode, backend, pc, locals, deinits, calls, drivers>>

DeinitHotpath ==
    /\ DeinitStep("hot", "selected")
    /\ hotpath' = FALSE
    /\ UNCHANGED <<fusion, arb, selected_input>>

DeinitSelected ==
    /\ DeinitStep("selected", "arbiter")
    /\ selected_input' = AutoInput
    /\ UNCHANGED <<fusion, arb, hotpath>>

DeinitArbiter ==
    /\ DeinitStep("arbiter", "fusion")
    /\ arb' = ResetArbiter
    /\ UNCHANGED <<fusion, selected_input, hotpath>>

\* HybridFusion::reset, all but its last store.
DeinitFusion ==
    /\ DeinitStep("fusion", "lock")
    /\ controls' = {} /\ pacing_seen' = {} /\ start' = 0 /\ owner' = AutoInput
    /\ UNCHANGED <<arb, selected_input, hotpath, lock_state>>

DeinitLockState ==
    /\ DeinitStep("lock", "idle")
    /\ lock_state' = 0
    /\ UNCHANGED <<controls, pacing_seen, start, owner, arb, selected_input, hotpath>>

deinit_step ==
    \/ DeinitHotpath \/ DeinitSelected
    \/ DeinitArbiter \/ DeinitFusion \/ DeinitLockState

----------------------------------------------------------------------------

observe_input(t) ==
    \/ HotCheck(t) \/ HotSelected(t) \/ ObserveMarker(t) \/ LoadSelected(t)
    \/ SelectInput(t) \/ ResolvePacing(t) \/ CommitSelection(t) \/ PublishHotpath(t)
    \/ UpdateTech(t)

maybe_lock_startup(t) ==
    LockNow(t) \/ LockStart(t) \/ LockCas(t) \/ LockDecide(t) \/ LockPublish(t)

Callback(t) ==
    \E f \in Frontends :
        \/ \E n \in 1 .. MaxFrame :
            \/ FrontendSleep(t, f, n)
            \/ \E m \in Markers : FrontendSetMarker(t, f, m, n)
        \/ FrontendSetFgType(t, f)

Step(t) ==
    \/ observe_input(t)
    \/ AcceptMarker(t) \/ AcceptedMarker(t)
    \/ maybe_lock_startup(t)

Next ==
    /\ \/ /\ \/ \E t \in Threads : Callback(t) \/ Step(t)
             \/ \E f \in Frontends, mode \in SleepModes : FrontendSetSleepMode(f, mode)
             \/ deinit_step
          /\ UNCHANGED torn
       \/ DeinitWithdraw
    /\ UNCHANGED policy

Spec == Init /\ [][Next]_vars

----------------------------------------------------------------------------
(* Correctness *)

\* The startup decision is frozen: between two teardowns the pacing owner in
\* frozen_owner_word_ never changes once lock_state_ says it is published
\* (maybe_lock_startup, raced by callbacks of several frontends).
FrozenOwner ==
    [][~torn /\ lock_state = 2 /\ lock_state' = 2 /\ dpc = "idle" => owner' = owner]_vars

\* One pacing owner per session and no provisional one: with startup_locked
\* every callback that observe_input ever allowed to drive the backend came
\* from the frozen owner, and the hot path, on which nobody arbitrates any
\* more, is only open over a frozen session.  Callbacks may race each other
\* and may start while a teardown runs; one that was already in progress when
\* deinit_current_tech began may publish a flag of the session that ended.
OnlyFrozenOwnerDrives ==
    ~torn => /\ policy.startup_locked => \A f \in drivers : lock_state = 2 /\ owner = f
             /\ hotpath => lock_state = 2

\* Without startup_locked nobody enters maybe_lock_startup.
UnlockedSession ==
    /\ lock_state = 0 /\ ~hotpath
    /\ \A t \in Threads :
        pc[t] \in {"idle", "hot", "hot_selected", "observe", "load", "select", "commit",
                   "committed", "update", "accept"}

Deciding(t) == pc[t] \in {"lock_decide", "lock_publish"}

\* With it, callbacks past their entry keep the backend of their session, and
\* whatever names an owner (a callback about to commit, selected_input, the
\* granted drivers) names the frozen one; teardown withdraws these in order.
LockedSession ==
    /\ \A t \in Threads : pc[t] \notin {"idle", "accept"} => backend /\ pc[t] # "select"
    /\ \A t \in Threads :
        pc[t] \in {"commit", "committed"} /\ desired[t] # AutoInput => lock_state = 2 /\ owner = desired[t]
    /\ selected_input # AutoInput =>
        lock_state = 2 /\ owner = selected_input /\ dpc \in {"idle", "hot", "selected"}
    /\ \A f \in drivers : lock_state = 2 /\ owner = f /\ dpc = "idle"

\* The inductive invariant of observe_input, maybe_lock_startup and
\* deinit_current_tech: one thread decides, and only under the lock word.
OneDecision ==
    /\ dpc # "idle" => ~backend
    /\ ~policy.startup_locked => UnlockedSession
    /\ ~torn =>
        /\ \A t \in Threads : Deciding(t) => lock_state = 1
        /\ \A t, u \in Threads : Deciding(t) /\ Deciding(u) => t = u
        /\ policy.startup_locked => LockedSession
        /\ hotpath => lock_state = 2 /\ dpc \in {"idle", "hot"}
=============================================================================
