--------------------------- MODULE FlexScheduler ---------------------------
(***************************************************************************)
(* VulkanFlex as the executor (ll_vulkanflex.cpp): swapchain lanes, the     *)
(* image-to-frame tickets of acquire and present, the feedback queue, the   *)
(* LatencyFleX scheduler behind its try-lock, scheduler epochs and the      *)
(* structural-stall slots.  Acquire and present come from the WSI hooks of  *)
(* a native Vulkan title, present markers from the VKD3D bridge, markers    *)
(* and Sleep from either frontend.  Frame ids keep their order; timestamps  *)
(* are left out, so a test on them may go either way.  Presents awaiting    *)
(* precise evidence are the set `filed' of a lane (the slots themselves are *)
(* PrecisionRing).  Telemetry counters are left out.                        *)
(***************************************************************************)
EXTENDS Integers, FiniteSets, FiniteSetsExt, Sequences

CONSTANTS
    Threads, Swapchains, NoSwapchain,
    Images,          \* image indices of a swapchain
    Lanes,           \* kSwapchainLanes: lane numbers
    StallSlots,      \* kStructuralStallSlots: slot numbers
    FeedbackSize,    \* capacity of feedback_
    QueueTarget,     \* queue_target_presents_
    Transports,      \* transports a run starts with: "native", "vkd3d"
    Overrides,       \* ForceReflex values set_low_latency_override is called with
    MaxFrames,       \* bound: frame ids
    MaxEpoch,        \* bound: scheduler epochs
    MaxCalls         \* bound: frontend and WSI calls

ASSUME FlexAssumption ==
    /\ NoSwapchain \notin Swapchains
    /\ Lanes \subseteq Nat \ {0} /\ StallSlots \subseteq Nat \ {0}
    /\ {FeedbackSize, QueueTarget, MaxFrames, MaxEpoch, MaxCalls} \subseteq Nat

Frames == 1 .. MaxFrames

VARIABLES
    transport,
    control, override,        \* control_word_, override_state_
    epoch, reset_requested,
    explicit_pacing, core_paced_pending,
    gate,                     \* scheduler_gate_
    frame_sequence, last_started,
    primary,                  \* primary_swapchain_
    lanes, create_gate,
    feedback,
    delay,                    \* queue_pressure_delay_ns_ is not zero
    last_completion,          \* structural_last_completion_frame_
    stalls,                   \* 0 free, -1 publishing, e evidence of epoch e
    last_bridge,              \* last_bridge_feedback_frame_
    ctx,                      \* the LatencyFleX context: its epoch, the last frame ended
    held,                     \* images the application has acquired
    owner,                    \* history: frame each held image was stamped with
    calls,
    pc, loc

clock == <<control, override, epoch, reset_requested>>
mode == <<explicit_pacing, core_paced_pending>>
sched == <<gate, frame_sequence, last_started, ctx, last_completion>>
table == <<primary, lanes, create_gate>>
queue == <<feedback, delay, last_bridge>>
app == <<held, owner, calls>>
vars == <<transport, clock, mode, sched, table, queue, stalls, app, pc, loc>>

NoLocals == [sw |-> NoSwapchain, img |-> 0, lane |-> 0, frame |-> 0, ep |-> 0,
             core |-> FALSE, own |-> 0]
FreeLane == [sw |-> NoSwapchain, ids |-> [i \in Images |-> 0],
             eps |-> [i \in Images |-> 0], filed |-> {}]

LanePCs == {"primary", "cas", "resolve", "batch", "pressure", "mode", "stamp"}
PacePCs == {"pace", "load", "consume", "begin"}
PCs == LanePCs \cup PacePCs \cup
       {"idle", "lane", "create", "driver", "complete", "publish", "marker",
        "rotate", "reset", "tail", "stall", "destroy"}

FrameIds == 0 .. MaxFrames
Samples == [frame : FrameIds, ep : Nat]
LaneType == [sw : Swapchains \cup {NoSwapchain}, ids : [Images -> FrameIds], eps : [Images -> Nat],
             filed : SUBSET Samples]
LocalsType == [sw : Swapchains \cup {NoSwapchain}, img : Images \cup {0}, lane : Nat,
               frame : FrameIds, ep : Nat, core : BOOLEAN, own : FrameIds]

TypeOK ==
    /\ control \in BOOLEAN /\ override \in {"ingame", "enable", "disable"} \cup Overrides
    /\ epoch \in Nat /\ reset_requested \in BOOLEAN
    /\ explicit_pacing \in {"none", "marker", "sleep"}
    /\ core_paced_pending \in BOOLEAN /\ gate \in BOOLEAN
    /\ frame_sequence \in FrameIds /\ last_started \in FrameIds
    /\ primary \in Swapchains \cup {NoSwapchain}
    /\ lanes \in [Lanes -> LaneType] /\ create_gate \in BOOLEAN
    /\ feedback \in Seq(Samples) /\ delay \in BOOLEAN /\ last_bridge \in FrameIds
    /\ last_completion \in FrameIds /\ ctx \in [ended : FrameIds, epoch : Nat]
    /\ stalls \in [StallSlots -> Nat \cup {-1}]
    /\ held \in [Swapchains -> SUBSET Images] /\ owner \in [Swapchains -> [Images -> FrameIds]]
    /\ calls \in Nat
    /\ pc \in [Threads -> PCs] /\ loc \in [Threads -> LocalsType]

Init ==
    /\ transport \in Transports
    /\ control = TRUE /\ override = "ingame"
    /\ epoch = 1 /\ reset_requested = FALSE
    /\ explicit_pacing = "none" /\ core_paced_pending = FALSE
    /\ gate = FALSE /\ frame_sequence = 0 /\ last_started = 0
    /\ primary = NoSwapchain
    /\ lanes = [l \in Lanes |-> FreeLane] /\ create_gate = FALSE
    /\ feedback = <<>> /\ delay = FALSE /\ last_bridge = 0
    /\ last_completion = 0
    /\ stalls = [s \in StallSlots |-> 0]
    /\ ctx = [ended |-> 0, epoch |-> 1]
    /\ held = [s \in Swapchains |-> {}]
    /\ owner = [s \in Swapchains |-> [i \in Images |-> 0]]
    /\ calls = 0
    /\ pc = [t \in Threads |-> "idle"]
    /\ loc = [t \in Threads |-> NoLocals]

enabled_from_control ==
    CASE override = "disable" -> FALSE
      [] override = "enable" -> TRUE
      [] OTHER -> control

Goto(t, l) == pc' = [pc EXCEPT ![t] = l]
Locals(t, r) == loc' = [loc EXCEPT ![t] = r]
Return(t) == Goto(t, "idle") /\ loc' = [loc EXCEPT ![t] = NoLocals]
Enter(t) ==
    /\ pc[t] = "idle" /\ calls < MaxCalls
    /\ calls' = calls + 1

Lane(t) == lanes[loc[t].lane]
SetLane(t, r) == lanes' = [lanes EXCEPT ![loc[t].lane] = r]
LanesOf(s) == {l \in Lanes : lanes[l].sw = s}

\* Vulkan has the application serialise its calls on one swapchain.  Only the
\* tail of a present, after the driver has queued the image, may overlap an
\* acquire (the comment of begin_present).
Busy(s) == \E t \in Threads : loc[t].sw = s /\ pc[t] \notin {"complete", "publish"}
InUse(s) == \E t \in Threads : loc[t].sw = s

----------------------------------------------------------------------------
(* Swapchain lanes *)

\* The driver handed out an image; a disabled backend does not look at it.
CallAcquire(t, s, i) ==
    /\ transport = "native"
    /\ Enter(t)
    /\ ~Busy(s) /\ i \notin held[s]
    /\ held' = [held EXCEPT ![s] = @ \cup {i}]
    /\ owner' = [owner EXCEPT ![s][i] = 0]
    /\ IF enabled_from_control
       THEN Goto(t, "lane") /\ Locals(t, [loc[t] EXCEPT !.sw = s, !.img = i])
       ELSE UNCHANGED <<pc, loc>>
    /\ UNCHANGED <<transport, clock, mode, sched, table, queue, stalls>>

\* Mutant: creation is not serialised.
LaneLookup_NoGate(t) ==
    /\ pc[t] = "lane"
    /\ \/ /\ LanesOf(loc[t].sw) # {}
          /\ Locals(t, [loc[t] EXCEPT !.lane = Min(LanesOf(loc[t].sw))]) /\ Goto(t, "primary")
       \/ /\ LanesOf(loc[t].sw) = {}
          /\ IF LanesOf(NoSwapchain) = {} THEN Return(t)
             ELSE Locals(t, [loc[t] EXCEPT !.lane = Min(LanesOf(NoSwapchain))]) /\ Goto(t, "create")
    /\ UNCHANGED <<transport, clock, mode, sched, table, queue, stalls, app>>

\* lane_for: find the lane, or claim the creation gate and a free lane.  A
\* creator at work, or no free lane, leaves this acquire unobserved.
LaneLookup(t) ==
    /\ pc[t] = "lane"
    /\ \/ /\ LanesOf(loc[t].sw) # {}
          /\ Locals(t, [loc[t] EXCEPT !.lane = Min(LanesOf(loc[t].sw))]) /\ Goto(t, "primary")
          /\ UNCHANGED create_gate
       \/ /\ LanesOf(loc[t].sw) = {}
          /\ IF create_gate \/ LanesOf(NoSwapchain) = {}
             THEN Return(t) /\ UNCHANGED create_gate
             ELSE /\ create_gate' = TRUE
                  /\ Locals(t, [loc[t] EXCEPT !.lane = Min(LanesOf(NoSwapchain))])
                  /\ Goto(t, "create")
    /\ UNCHANGED <<transport, clock, mode, sched, primary, lanes, queue, stalls, app>>

\* The cleared lane gets its identity last.
LaneCreate(t) ==
    /\ pc[t] = "create"
    /\ SetLane(t, [FreeLane EXCEPT !.sw = loc[t].sw])
    /\ create_gate' = FALSE
    /\ Goto(t, "primary")
    /\ UNCHANGED <<transport, clock, mode, sched, primary, queue, stalls, app, loc>>

lane_for(t) == LaneLookup(t) \/ LaneCreate(t)

----------------------------------------------------------------------------
(* on_acquire *)

PrimaryLoad(t) ==
    /\ pc[t] = "primary"
    /\ Goto(t, CASE primary = NoSwapchain -> "cas"
                 [] primary = loc[t].sw -> "resolve"
                 [] OTHER -> "mode")
    /\ Locals(t, [loc[t] EXCEPT !.core = (primary = loc[t].sw)])
    /\ UNCHANGED <<transport, clock, mode, sched, table, queue, stalls, app>>

\* Mutant: a plain store.
PrimaryCas_Store(t) ==
    /\ pc[t] = "cas"
    /\ primary' = loc[t].sw
    /\ Goto(t, "resolve")
    /\ Locals(t, [loc[t] EXCEPT !.core = TRUE])
    /\ UNCHANGED <<transport, clock, mode, sched, lanes, create_gate, queue, stalls, app>>

PrimaryCas(t) ==
    /\ pc[t] = "cas"
    /\ primary' = IF primary = NoSwapchain THEN loc[t].sw ELSE primary
    /\ Goto(t, IF primary' = loc[t].sw THEN "resolve" ELSE "mode")
    /\ Locals(t, [loc[t] EXCEPT !.core = (primary' = loc[t].sw)])
    /\ UNCHANGED <<transport, clock, mode, sched, lanes, create_gate, queue, stalls, app>>

\* completionfeedback::observe over the retired presents: one representative
\* of the active epoch, precise evidence first, then the newest frame.
Representative(done, precise) ==
    LET active == {p \in done : p.ep = epoch}
        sharp == active \cap precise
    IN  Max({p.frame : p \in (IF sharp # {} THEN sharp ELSE active)})

\* The probe retires any of the filed presents, with precise evidence or after
\* its last poll.
ResolvePrecision(t) ==
    /\ pc[t] = "resolve"
    /\ \E done \in SUBSET Lane(t).filed : \E precise \in SUBSET done :
        /\ SetLane(t, [Lane(t) EXCEPT !.filed = @ \ done])
        /\ IF \E p \in done : p.ep = epoch
           THEN /\ Locals(t, [loc[t] EXCEPT !.frame = Representative(done, precise), !.ep = epoch])
                /\ Goto(t, "batch")
           ELSE Goto(t, "pressure") /\ UNCHANGED loc
    /\ UNCHANGED <<transport, clock, mode, sched, primary, create_gate, queue, stalls, app>>

\* publish_feedback: a sample of an older epoch is dropped, and so is one that
\* finds the queue full.
Publish(frame, ep) ==
    IF ep = epoch /\ Len(feedback) < FeedbackSize
    THEN feedback' = Append(feedback, [frame |-> frame, ep |-> ep])
    ELSE UNCHANGED feedback

PublishBatch(t) ==
    /\ pc[t] = "batch"
    /\ Publish(loc[t].frame, loc[t].ep)
    /\ Goto(t, "pressure")
    /\ UNCHANGED <<transport, clock, mode, sched, table, delay, last_bridge, stalls, app, loc>>

\* update_queue_pressure: presents in flight beyond the target may, by the
\* governor's trust in its samples, delay the next frame.
UpdateQueuePressure(t) ==
    /\ pc[t] = "pressure"
    /\ delay' \in BOOLEAN
    /\ delay' => Cardinality({p \in Lane(t).filed : p.ep = epoch}) > QueueTarget
    /\ Goto(t, "mode")
    /\ UNCHANGED <<transport, clock, mode, sched, table, feedback, last_bridge, stalls, app, loc>>

\* Core pacing belongs to the primary swapchain until an explicit owner shows
\* up; everyone else stamps the last frame started.
LoadMode(t) ==
    /\ pc[t] = "mode"
    /\ IF explicit_pacing = "none" /\ loc[t].core
       THEN Goto(t, "pace") /\ Locals(t, [loc[t] EXCEPT !.frame = 0, !.ep = 0])
       ELSE Goto(t, "stamp") /\ Locals(t, [loc[t] EXCEPT !.frame = last_started, !.ep = 0, !.core = FALSE])
    /\ UNCHANGED <<transport, clock, mode, sched, table, queue, stalls, app>>

\* The image is stamped with the epoch loaded now, after pacing.
StampImage(t) ==
    /\ pc[t] = "stamp"
    /\ SetLane(t, [Lane(t) EXCEPT !.eps[loc[t].img] = epoch, !.ids[loc[t].img] = loc[t].frame])
    /\ owner' = [owner EXCEPT ![loc[t].sw][loc[t].img] = loc[t].frame]
    /\ Return(t)
    /\ UNCHANGED <<transport, clock, mode, sched, primary, create_gate, queue, stalls, held, calls>>

on_acquire(t) ==
    \/ PrimaryLoad(t) \/ PrimaryCas(t) \/ ResolvePrecision(t) \/ PublishBatch(t)
    \/ UpdateQueuePressure(t) \/ LoadMode(t) \/ StampImage(t)

----------------------------------------------------------------------------
(* pace_frame, under scheduler_gate_ *)

Paced(t) == IF loc[t].sw = NoSwapchain THEN Return(t)
            ELSE Goto(t, "stamp") /\ Locals(t, [loc[t] EXCEPT !.core = FALSE, !.ep = 0])

\* A disabled backend or a busy scheduler fails open without a frame.
PaceRefused(t) ==
    /\ pc[t] = "pace"
    /\ ~enabled_from_control \/ gate
    /\ IF loc[t].sw = NoSwapchain THEN Return(t)
       ELSE Goto(t, "stamp") /\ Locals(t, [loc[t] EXCEPT !.frame = 0, !.core = FALSE])
    /\ UNCHANGED <<transport, clock, mode, sched, table, queue, stalls, app>>

\* A pending reset drains the queue and restarts the LatencyFleX context.
PaceEnter(t) ==
    /\ pc[t] = "pace" /\ enabled_from_control /\ ~gate
    /\ gate' = TRUE
    /\ IF loc[t].frame = 0
       THEN /\ frame_sequence < MaxFrames
            /\ frame_sequence' = frame_sequence + 1
            /\ Locals(t, [loc[t] EXCEPT !.frame = frame_sequence'])
       ELSE UNCHANGED <<frame_sequence, loc>>
    /\ reset_requested' = FALSE
    /\ IF reset_requested
       THEN feedback' = <<>> /\ ctx' = [ended |-> 0, epoch |-> epoch]
       ELSE UNCHANGED <<feedback, ctx>>
    /\ Goto(t, "load")
    /\ UNCHANGED <<transport, control, override, epoch, mode, last_started, last_completion,
                   table, delay, last_bridge, stalls, app>>

PaceLoadEpoch(t) ==
    /\ pc[t] = "load"
    /\ Locals(t, [loc[t] EXCEPT !.ep = epoch])
    /\ Goto(t, "consume")
    /\ UNCHANGED <<transport, clock, mode, sched, table, queue, stalls, app>>

\* Mutant: no ordering gate.
LastEnded_Unordered(ep, late) ==
    LET last[n \in 0 .. Len(feedback)] ==
            IF n = 0 THEN last_completion
            ELSE IF feedback[n].ep = ep /\ n \notin late
                 THEN feedback[n].frame ELSE last[n - 1]
    IN  last

\* Frame of the last sample the ordering gate lets through, after the first n
\* samples; those in late fail its timestamp half.
LastEnded(ep, late) ==
    LET last[n \in 0 .. Len(feedback)] ==
            IF n = 0 THEN last_completion
            ELSE IF /\ feedback[n].ep = ep
                    /\ \/ last[n - 1] = 0
                       \/ feedback[n].frame > last[n - 1] /\ n \notin late
                 THEN feedback[n].frame ELSE last[n - 1]
    IN  last

\* consume_feedback_locked: every sample that passes is an EndFrame, and may
\* use up the stall evidence published so far.
ConsumeFeedback(t) ==
    /\ pc[t] = "consume"
    /\ \E late \in SUBSET DOMAIN feedback :
        LET last == LastEnded(loc[t].ep, late)
            ended == {last[n] : n \in DOMAIN feedback} \ {last[0], 0}
            used == \E n \in DOMAIN feedback : feedback[n].ep = loc[t].ep /\ last[n] # last[n - 1]
        IN  /\ last_completion' = last[Len(feedback)]
            /\ ctx' = [ctx EXCEPT !.ended = IF ended = {} THEN @ ELSE last[Len(feedback)]]
            /\ stalls' = [s \in StallSlots |-> IF used /\ stalls[s] > 0 THEN 0 ELSE stalls[s]]
            /\ delay' \in (IF used /\ \E s \in StallSlots : stalls[s] = loc[t].ep
                           THEN {delay, FALSE} ELSE {delay})
    /\ feedback' = <<>>
    /\ Goto(t, "begin")
    /\ UNCHANGED <<transport, clock, mode, gate, frame_sequence, last_started, table, last_bridge, app, loc>>

\* The queue delay is used up, the thread sleeps and the frame begins.
BeginFrame(t) ==
    /\ pc[t] = "begin"
    /\ delay' = FALSE
    /\ last_started' = loc[t].frame
    /\ core_paced_pending' = (core_paced_pending \/ loc[t].core)
    /\ gate' = FALSE
    /\ Paced(t)
    /\ UNCHANGED <<transport, clock, explicit_pacing, frame_sequence, ctx, last_completion, table,
                   feedback, last_bridge, stalls, app>>

pace_frame(t) ==
    PaceRefused(t) \/ PaceEnter(t) \/ PaceLoadEpoch(t) \/ ConsumeFeedback(t) \/ BeginFrame(t)

----------------------------------------------------------------------------
(* Presents *)

\* Mutant: the mapping is read, not claimed.
BeginPresent_Peek(t, s, i) ==
    /\ transport = "native"
    /\ Enter(t)
    /\ ~Busy(s) /\ i \in held[s]
    /\ IF \E l \in LanesOf(s) : lanes[l].ids[i] # 0 /\ lanes[l].eps[i] # 0
                                /\ primary \in {NoSwapchain, s}
       THEN \E l \in LanesOf(s) :
              /\ Goto(t, "driver")
              /\ Locals(t, [loc[t] EXCEPT !.sw = s, !.img = i, !.lane = l, !.frame = lanes[l].ids[i],
                                           !.ep = lanes[l].eps[i], !.own = owner[s][i]])
              /\ UNCHANGED held
       ELSE held' = [held EXCEPT ![s] = @ \ {i}] /\ UNCHANGED <<pc, loc>>
    /\ UNCHANGED <<transport, clock, mode, sched, table, queue, stalls, owner>>

\* begin_present claims the image's mapping before the driver call.
BeginPresent(t, s, i) ==
    /\ transport = "native"
    /\ Enter(t)
    /\ ~Busy(s) /\ i \in held[s]
    /\ lanes' = [l \in Lanes |->
                    IF l \in LanesOf(s) /\ lanes[l].ids[i] # 0
                    THEN [lanes[l] EXCEPT !.ids[i] = 0, !.eps[i] = 0] ELSE lanes[l]]
    /\ IF \E l \in LanesOf(s) : lanes[l].ids[i] # 0 /\ lanes[l].eps[i] # 0
                                /\ primary \in {NoSwapchain, s}
       THEN \E l \in LanesOf(s) :
              /\ Goto(t, "driver")
              /\ Locals(t, [loc[t] EXCEPT !.sw = s, !.img = i, !.lane = l, !.frame = lanes[l].ids[i],
                                           !.ep = lanes[l].eps[i], !.own = owner[s][i]])
              /\ UNCHANGED held
       ELSE held' = [held EXCEPT ![s] = @ \ {i}] /\ UNCHANGED <<pc, loc>>
    /\ UNCHANGED <<transport, clock, mode, sched, primary, create_gate, queue, stalls, owner>>

\* The driver queues the image, which may be acquired again at once.
DriverPresent(t) ==
    /\ pc[t] = "driver"
    /\ held' = [held EXCEPT ![loc[t].sw] = @ \ {loc[t].img}]
    /\ Goto(t, "complete")
    /\ UNCHANGED <<transport, clock, mode, sched, table, queue, stalls, owner, calls, loc>>

\* complete_present: a ticket of another epoch, lane identity or primary is
\* void.  Precise tiers file the present, the others publish at once.
CompletePresent(t) ==
    /\ pc[t] = "complete"
    /\ IF loc[t].ep = epoch /\ Lane(t).sw = loc[t].sw /\ primary \in {NoSwapchain, loc[t].sw}
       THEN /\ core_paced_pending' = FALSE
            /\ \/ Goto(t, "publish") /\ UNCHANGED <<lanes, loc>>
               \/ /\ SetLane(t, [Lane(t) EXCEPT !.filed = @ \cup {[frame |-> loc[t].frame, ep |-> loc[t].ep]}])
                  /\ Return(t)
       ELSE Return(t) /\ UNCHANGED <<core_paced_pending, lanes>>
    /\ UNCHANGED <<transport, clock, explicit_pacing, sched, primary, create_gate, queue, stalls, app>>

PublishFeedback(t) ==
    /\ pc[t] = "publish"
    /\ Publish(loc[t].frame, loc[t].ep)
    /\ Return(t)
    /\ UNCHANGED <<transport, clock, mode, sched, table, delay, last_bridge, stalls, app>>

\* publish_bridge_present: a present marker of the VKD3D bridge; the
\* synchronous and the out-of-band marker of one frame count once.
BridgePresent(t, f) ==
    /\ transport = "vkd3d"
    /\ Enter(t)
    /\ last_bridge' = f
    /\ IF last_bridge = f
       THEN UNCHANGED <<core_paced_pending, pc, loc>>
       ELSE /\ core_paced_pending' = FALSE
            /\ Goto(t, "publish") /\ Locals(t, [loc[t] EXCEPT !.frame = f, !.ep = epoch])
    /\ UNCHANGED <<transport, clock, explicit_pacing, sched, table, feedback, delay, stalls, held, owner>>

----------------------------------------------------------------------------
(* Explicit pacing *)

\* set_marker(SIMULATION_START): Sleep is the sole owner once seen.
SimulationStart(t, f) ==
    /\ Enter(t)
    /\ IF explicit_pacing = "sleep"
       THEN UNCHANGED <<explicit_pacing, pc, loc>>
       ELSE /\ explicit_pacing' = "marker"
            /\ Goto(t, "marker") /\ Locals(t, [loc[t] EXCEPT !.frame = f])
    /\ UNCHANGED <<transport, clock, core_paced_pending, sched, table, queue, stalls, held, owner>>

\* A frame the acquire already paced is not paced again.
MarkerPace(t) ==
    /\ pc[t] = "marker"
    /\ IF core_paced_pending THEN Return(t) ELSE Goto(t, "pace") /\ UNCHANGED loc
    /\ core_paced_pending' = FALSE
    /\ UNCHANGED <<transport, clock, explicit_pacing, sched, table, queue, stalls, app>>

\* sleep and sleep_with_frame_id (f = 0: no id).
Sleep(t, f) ==
    /\ Enter(t)
    /\ explicit_pacing' = "sleep"
    /\ core_paced_pending' = FALSE
    /\ Goto(t, "pace") /\ Locals(t, [loc[t] EXCEPT !.frame = f])
    /\ UNCHANGED <<transport, clock, sched, table, queue, stalls, held, owner>>

----------------------------------------------------------------------------
(* Control, epochs, stalls and teardown *)

SetControl(t, c, o) ==
    /\ Enter(t)
    /\ control' = c /\ override' = o
    /\ epoch + Cardinality({u \in Threads : pc[u] \in {"rotate", "reset"}}) < MaxEpoch
    /\ Goto(t, IF enabled_from_control' # enabled_from_control THEN "rotate" ELSE "idle")
    /\ UNCHANGED <<transport, epoch, reset_requested, mode, sched, table, queue, stalls, held, owner, loc>>

set_sleep_mode(t, c) == SetControl(t, c, override)
set_low_latency_override(t, o) == SetControl(t, control, o)

\* Mutant: the reset is requested before the epoch moves.
RotateEpoch_ResetFirst(t) ==
    /\ \/ pc[t] = "rotate" /\ reset_requested' = TRUE /\ Goto(t, "reset") /\ UNCHANGED epoch
       \/ /\ pc[t] = "reset" /\ epoch' = epoch + 1
          /\ Goto(t, "tail") /\ UNCHANGED reset_requested
    /\ UNCHANGED <<transport, control, override, mode, sched, table, queue, stalls, app, loc>>

\* request_new_epoch: the epoch moves first, then the reset is requested.
RotateEpoch(t) ==
    /\ \/ /\ pc[t] = "rotate" /\ epoch' = epoch + 1
          /\ Goto(t, "reset") /\ UNCHANGED reset_requested
       \/ pc[t] = "reset" /\ reset_requested' = TRUE /\ Goto(t, "tail") /\ UNCHANGED epoch
    /\ UNCHANGED <<transport, control, override, mode, sched, table, queue, stalls, app, loc>>

ClearEpochState(t) ==
    /\ pc[t] = "tail"
    /\ explicit_pacing' = "none" /\ core_paced_pending' = FALSE
    /\ delay' = FALSE
    /\ last_completion' = 0 /\ last_started' = 0
    /\ stalls' = [s \in StallSlots |-> 0]
    /\ Return(t)
    /\ UNCHANGED <<transport, clock, gate, frame_sequence, ctx, table, feedback, last_bridge, app>>

request_new_epoch(t) == RotateEpoch(t) \/ ClearEpochState(t)

\* observe_structural_stall: claim a free slot, or drop the evidence.
StallClaim(t, s) ==
    /\ transport = "native"
    /\ Enter(t)
    /\ stalls[s] = 0
    /\ stalls' = [stalls EXCEPT ![s] = -1]
    /\ Goto(t, "stall") /\ Locals(t, [loc[t] EXCEPT !.lane = s, !.ep = epoch])
    /\ UNCHANGED <<transport, clock, mode, sched, table, queue, held, owner>>

StallPublish(t) ==
    /\ pc[t] = "stall"
    /\ stalls' = [stalls EXCEPT ![loc[t].lane] = loc[t].ep]
    /\ Return(t)
    /\ UNCHANGED <<transport, clock, mode, sched, table, queue, app>>

\* on_destroy_swapchain: the identity goes first.
UnpublishLane(t, s) ==
    /\ Enter(t)
    /\ ~InUse(s) /\ LanesOf(s) # {}
    /\ held' = [held EXCEPT ![s] = {}]
    /\ lanes' = [l \in Lanes |-> IF l \in LanesOf(s) THEN [lanes[l] EXCEPT !.sw = NoSwapchain]
                                 ELSE lanes[l]]
    /\ Goto(t, "destroy") /\ Locals(t, [loc[t] EXCEPT !.sw = s, !.lane = Min(LanesOf(s))])
    /\ UNCHANGED <<transport, clock, mode, sched, primary, create_gate, queue, stalls, owner>>

\* The payload is cleared behind the retired identity, even if the lane has a
\* new tenant by now; the primary role is given up.
ClearLane(t) ==
    /\ pc[t] = "destroy"
    /\ SetLane(t, [FreeLane EXCEPT !.sw = Lane(t).sw])
    /\ IF primary = loc[t].sw
       THEN primary' = NoSwapchain /\ core_paced_pending' = FALSE /\ delay' = FALSE
       ELSE UNCHANGED <<primary, core_paced_pending, delay>>
    /\ Return(t)
    /\ UNCHANGED <<transport, clock, explicit_pacing, sched, create_gate, feedback, last_bridge, stalls, app>>

----------------------------------------------------------------------------

Call(t) ==
    \/ \E s \in Swapchains, i \in Images : CallAcquire(t, s, i) \/ BeginPresent(t, s, i)
    \/ \E f \in Frames : BridgePresent(t, f) \/ SimulationStart(t, f)
    \/ \E f \in Frames \cup {0} : Sleep(t, f)
    \/ \E c \in BOOLEAN : set_sleep_mode(t, c)
    \/ \E o \in Overrides : set_low_latency_override(t, o)
    \/ \E s \in StallSlots : StallClaim(t, s)
    \/ \E s \in Swapchains : UnpublishLane(t, s)

Step(t) ==
    \/ lane_for(t) \/ on_acquire(t) \/ pace_frame(t)
    \/ DriverPresent(t) \/ CompletePresent(t) \/ PublishFeedback(t) \/ MarkerPace(t)
    \/ request_new_epoch(t) \/ StallPublish(t) \/ ClearLane(t)

Next == \E t \in Threads : Call(t) \/ Step(t)

Spec == Init /\ [][Next]_vars

----------------------------------------------------------------------------
(* Correctness *)

\* A present completes the frame its image was acquired for: an acquire that
\* stamped nothing, or one that reuses the image while the present is still
\* inside the driver, never lends it another frame (begin_present claims the
\* mapping and on_acquire may skip stamping).
PresentOwnsItsFrame ==
    \A t \in Threads : pc[t] \in {"driver", "complete"} => loc[t].frame = loc[t].own

\* Two swapchains never pace at the same time: whoever paces for the core WSI
\* path is the one swapchain that won the primary role (on_acquire).
OneCorePacer ==
    \A t \in Threads : pc[t] \in PacePCs /\ loc[t].core => loc[t].sw = primary

\* A thread between lane_for and the end of its acquire works on the lane of
\* its own swapchain, whatever other threads create meanwhile.
LaneOwned ==
    \A t \in Threads : pc[t] \in LanePCs \cup (IF loc[t].sw = NoSwapchain THEN {} ELSE PacePCs)
        => Lane(t).sw = loc[t].sw

\* Once request_new_epoch has asked for its reset, the LatencyFleX context
\* either was restarted in the current epoch or will be before the next frame:
\* no epoch ever runs on the context of an older one.
ResetCoversEpoch ==
    (\A t \in Threads : pc[t] \notin {"rotate", "reset"})
        => reset_requested \/ ctx.epoch = epoch

\* EndFrame never moves back in frame order, whichever producers filled the
\* queue, until the context or the completion anchor is reset
\* (consume_feedback_locked).
EndMonotonic ==
    [][ctx'.ended # ctx.ended => ctx'.ended > ctx.ended \/ ctx'.ended = 0 \/ last_completion = 0]_vars

----------------------------------------------------------------------------
(* The inductive invariant behind them *)

AcquirePCs == LanePCs \cup {"lane", "create"}

\* A thread at p with locals r is inside an acquire of a swapchain.
Acquires(p, r) == p \in AcquirePCs \cup PacePCs /\ r.sw # NoSwapchain

\* What a thread's locals say at each of its steps.
LocalsFit(p, r) ==
    /\ p = "idle" => r = NoLocals
    /\ p \in AcquirePCs \cup {"driver", "complete", "destroy"} => r.sw # NoSwapchain
    /\ p \in {"marker", "rotate", "reset", "tail", "stall"} => r.sw = NoSwapchain
    /\ Acquires(p, r) => r.img \in Images /\ r.img \in held[r.sw]
    /\ p \in {"driver", "complete", "destroy", "create"} => r.lane \in Lanes
    /\ p = "driver" => r.img \in Images
    /\ p \in {"driver", "complete"} => r.frame = r.own
    /\ p = "stall" => r.lane \in StallSlots
    /\ r.core => /\ p \in {"resolve", "batch", "pressure", "mode"} \cup PacePCs
                 /\ r.sw = primary /\ primary # NoSwapchain

\* A thread that found its lane has it.
HasLane(p, r) ==
    p \in LanePCs \/ (p \in PacePCs /\ r.sw # NoSwapchain) =>
        r.lane \in Lanes /\ lanes[r.lane].sw = r.sw

\* The application's calls on one swapchain do not overlap, but for the tails of
\* presents; nothing overlaps a destruction.
Serialised ==
    \A t, u \in Threads : t # u /\ loc[t].sw = loc[u].sw /\ loc[t].sw # NoSwapchain =>
        /\ pc[t] # "destroy"
        /\ pc[t] \in {"complete", "publish"} \/ pc[u] \in {"complete", "publish"}

\* The thread with the creation gate works on a free lane for a swapchain that
\* has none.
Creating(t) ==
    pc[t] = "create" =>
        /\ create_gate /\ Lane(t).sw = NoSwapchain
        /\ \A l \in Lanes : lanes[l].sw # loc[t].sw
        /\ \A u \in Threads : pc[u] = "create" => u = t

OneLanePerSwapchain ==
    \A l, m \in Lanes : lanes[l].sw = lanes[m].sw /\ lanes[l].sw # NoSwapchain => l = m

\* A mapping in a lane is of an image that is held, and says the frame it was
\* stamped with; a present inside the driver has taken its mapping away.
TicketsTrue ==
    /\ \A l \in Lanes, i \in Images : lanes[l].sw # NoSwapchain /\ lanes[l].ids[i] # 0 =>
        i \in held[lanes[l].sw] /\ lanes[l].ids[i] = owner[lanes[l].sw][i]
    /\ \A t \in Threads, l \in Lanes :
        pc[t] = "driver" /\ lanes[l].sw = loc[t].sw => lanes[l].ids[loc[t].img] = 0

\* A context of an older epoch is due for a reset, or will be once the thread
\* that moved the epoch asks for it.
EpochCovered == reset_requested \/ ctx.epoch = epoch \/ \E t \in Threads : pc[t] = "reset"

\* The completion anchor is not behind the context.
AnchorAhead == last_completion = 0 \/ ctx.ended <= last_completion

FlexInvariant ==
    /\ \A t \in Threads : LocalsFit(pc[t], loc[t]) /\ HasLane(pc[t], loc[t]) /\ Creating(t)
    /\ Serialised /\ OneLanePerSwapchain /\ TicketsTrue
    /\ EpochCovered /\ AnchorAhead
============================================================================
