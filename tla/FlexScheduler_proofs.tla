------------------------ MODULE FlexScheduler_proofs ------------------------
(***************************************************************************)
(* Proofs about FlexScheduler for every number of threads, swapchains,     *)
(* images, lanes, frames and epochs: a present completes the frame of its  *)
(* image, one swapchain paces, an acquire keeps its lane, a reset covers   *)
(* the epoch, and EndFrame follows the order of frames.                    *)
(***************************************************************************)
EXTENDS FlexScheduler, TLAPS, WellFoundedInduction

----------------------------------------------------------------------------
(* Least and greatest numbers *)

\* A nonempty set of naturals has a least member.
LEMMA Least ==
    ASSUME NEW S \in SUBSET Nat, S # {}
    PROVE  \E x \in S : \A y \in S : x <= y
<1>1. PICK R : /\ IsWellFoundedOn(R, Nat)
               /\ \A x, y \in Nat : y < x => <<y, x>> \in R
  <2>1. \A x, y \in Nat : y < x => <<y, x>> \in OpToRel(<, Nat) BY Zenon DEF OpToRel
  <2> QED BY <2>1, NatLessThanWellFounded, Zenon
<1>2. PICK x \in S : \A y \in S : ~(<<y, x>> \in R) BY <1>1, WFMin
<1>3. \A y \in S : ~(y < x) BY <1>1, <1>2, Zenon
<1>4. \A y \in S : x <= y BY <1>3
<1> QED BY <1>4

\* Min and Max pick members.
LEMMA MinIn ==
    ASSUME NEW S \in SUBSET Nat, S # {}
    PROVE  Min(S) \in S
<1>1. \E x \in S : \A y \in S : x <= y BY Least
<1> QED BY <1>1 DEF Min

LEMMA MaxIn ==
    ASSUME NEW S \in SUBSET FrameIds, S # {}
    PROVE  Max(S) \in S
<1>1. PICK T : T = {MaxFrames - x : x \in S} OBVIOUS
<1>0. MaxFrames \in Nat /\ \A x \in S : x \in Nat /\ x <= MaxFrames
  BY FlexAssumption DEF FrameIds
<1>2. T \in SUBSET Nat /\ T # {} BY <1>0, <1>1
<1>3. PICK z \in T : \A y \in T : z <= y BY <1>2, Least
<1>4. PICK x \in S : z = MaxFrames - x BY <1>1, <1>3
<1>5. \A y \in S : x >= y
  <2> SUFFICES ASSUME NEW y \in S PROVE x >= y OBVIOUS
  <2>1. z <= MaxFrames - y BY <1>1, <1>3
  <2> QED BY <1>4, <2>1, FlexAssumption DEF FrameIds
<1> QED BY <1>5 DEF Max

----------------------------------------------------------------------------
(* Threads and lanes *)

\* Thread t moves to p with locals r.
Turn(t, p, r) == pc' = [pc EXCEPT ![t] = p] /\ loc' = [loc EXCEPT ![t] = r]

LEMMA Turned ==
    ASSUME TypeOK, NEW t \in Threads, NEW p \in PCs, NEW r \in LocalsType, Turn(t, p, r)
    PROVE  /\ pc' \in [Threads -> PCs] /\ loc' \in [Threads -> LocalsType]
           /\ pc'[t] = p /\ loc'[t] = r
           /\ \A u \in Threads : u # t => pc'[u] = pc[u] /\ loc'[u] = loc[u]
BY DEF TypeOK, Turn

\* What the types say of a thread's locals and of a lane.
LEMMA LocalParts ==
    ASSUME NEW r \in LocalsType
    PROVE  /\ r.sw \in Swapchains \cup {NoSwapchain} /\ r.img \in Images \cup {0} /\ r.lane \in Nat
           /\ r.frame \in FrameIds /\ r.ep \in Nat /\ r.core \in BOOLEAN /\ r.own \in FrameIds
BY DEF LocalsType

LEMMA LaneParts ==
    ASSUME NEW x \in LaneType
    PROVE  /\ x.sw \in Swapchains \cup {NoSwapchain} /\ x.ids \in [Images -> FrameIds]
           /\ x.eps \in [Images -> Nat] /\ x.filed \in SUBSET Samples
BY DEF LaneType

LEMMA Typed ==
    ASSUME TypeOK
    PROVE  /\ \A t \in Threads : pc[t] \in PCs /\ loc[t] \in LocalsType
           /\ \A l \in Lanes : lanes[l] \in LaneType
           /\ epoch \in Nat /\ last_completion \in FrameIds /\ ctx.ended \in FrameIds
           /\ ctx.epoch \in Nat
           /\ \A s \in Swapchains : held[s] \in SUBSET Images /\ owner[s] \in [Images -> FrameIds]
BY DEF TypeOK

\* One lane is replaced.
LEMMA OneLane ==
    ASSUME TypeOK, NEW l \in Lanes, NEW x \in LaneType, lanes' = [lanes EXCEPT ![l] = x]
    PROVE  /\ lanes' \in [Lanes -> LaneType] /\ lanes'[l] = x
           /\ \A m \in Lanes : m # l => lanes'[m] = lanes[m]
BY DEF TypeOK

\* The empty records have their types.
LEMMA Blank == NoLocals \in LocalsType /\ FreeLane \in LaneType /\ 0 \in FrameIds
<1>1. 0 \in FrameIds BY FlexAssumption DEF FrameIds
<1> QED BY <1>1 DEF NoLocals, LocalsType, FreeLane, LaneType

----------------------------------------------------------------------------
(* What swapchains, lanes and acquires are left with *)

LaneWorld ==
    /\ \A t \in Threads : LocalsFit(pc[t], loc[t]) /\ HasLane(pc[t], loc[t]) /\ Creating(t)
    /\ Serialised /\ OneLanePerSwapchain /\ TicketsTrue

\* A thread goes on, or returns, without touching identities, images or mappings
\* other than to take a mapping away.
Quiet(t, p, r) ==
    /\ Turn(t, p, r) /\ LocalsFit(p, r) /\ HasLane(p, r)
    /\ UNCHANGED <<primary, create_gate, held, owner>>
    /\ lanes' \in [Lanes -> LaneType]
    /\ \A l \in Lanes : /\ lanes'[l].sw = lanes[l].sw
                        /\ \A i \in Images : lanes'[l].ids[i] \in {0, lanes[l].ids[i]}
    /\ r.sw = loc[t].sw \/ r.sw = NoSwapchain
    /\ p \notin {"create", "driver", "destroy"}
    /\ pc[t] \in {"complete", "publish"} /\ r.sw # NoSwapchain => p \in {"complete", "publish"}

LEMMA QuietStep ==
    ASSUME TypeOK, LaneWorld, NEW t \in Threads, NEW p \in PCs, NEW r \in LocalsType, Quiet(t, p, r)
    PROVE  LaneWorld'
<1>0. /\ pc'[t] = p /\ loc'[t] = r
      /\ \A u \in Threads : u # t => pc'[u] = pc[u] /\ loc'[u] = loc[u]
  BY Turned DEF Quiet
<1>1. /\ primary' = primary /\ create_gate' = create_gate /\ held' = held /\ owner' = owner
      /\ \A l \in Lanes : lanes'[l].sw = lanes[l].sw
  BY DEF Quiet
<1>2. ASSUME NEW u \in Threads PROVE LocalsFit(pc[u], loc[u])'
  <2>1. LocalsFit(pc'[u], loc'[u]) BY <1>0 DEF Quiet, LaneWorld
  <2> QED BY <1>1, <2>1 DEF LocalsFit, Acquires
<1>3. ASSUME NEW u \in Threads PROVE HasLane(pc[u], loc[u])'
  <2>1. HasLane(pc'[u], loc'[u]) BY <1>0 DEF Quiet, LaneWorld
  <2> QED BY <1>1, <2>1 DEF HasLane
<1>4. ASSUME NEW u \in Threads, pc'[u] = "create"
      PROVE  u # t /\ pc[u] = "create" /\ loc'[u] = loc[u]
  BY <1>0, <1>4 DEF Quiet
<1>5. ASSUME NEW u \in Threads PROVE Creating(u)'
  <2> SUFFICES ASSUME pc'[u] = "create" PROVE Creating(u)' BY DEF Creating
  <2>1. u # t /\ pc[u] = "create" /\ loc'[u] = loc[u] BY <1>4
  <2>2. Creating(u) /\ LocalsFit(pc[u], loc[u]) BY DEF LaneWorld
  <2>3. loc[u].lane \in Lanes BY <2>1, <2>2 DEF LocalsFit
  <2> QED BY <1>1, <1>4, <2>1, <2>2, <2>3 DEF Creating, Lane
<1>6. Serialised'
  <2> SUFFICES ASSUME NEW u \in Threads, NEW v \in Threads, u # v, loc'[u].sw = loc'[v].sw,
                      loc'[u].sw # NoSwapchain
               PROVE  /\ pc'[u] # "destroy"
                      /\ pc'[u] \in {"complete", "publish"} \/ pc'[v] \in {"complete", "publish"}
    BY DEF Serialised
  <2>1. loc[u].sw = loc'[u].sw /\ loc[v].sw = loc'[v].sw BY <1>0 DEF Quiet
  <2>2. /\ pc[u] # "destroy"
        /\ pc[u] \in {"complete", "publish"} \/ pc[v] \in {"complete", "publish"}
    BY <2>1 DEF LaneWorld, Serialised
  <2> QED BY <1>0, <2>1, <2>2 DEF Quiet
<1>7. OneLanePerSwapchain' BY <1>1 DEF LaneWorld, OneLanePerSwapchain
<1>8. TicketsTrue'
  <2>1. ASSUME NEW l \in Lanes, NEW i \in Images, lanes'[l].sw # NoSwapchain, lanes'[l].ids[i] # 0
        PROVE  i \in held'[lanes'[l].sw] /\ lanes'[l].ids[i] = owner'[lanes'[l].sw][i]
    <3>1. lanes'[l].ids[i] = lanes[l].ids[i] BY <2>1 DEF Quiet
    <3> QED BY <1>1, <2>1, <3>1 DEF LaneWorld, TicketsTrue
  <2>2. ASSUME NEW u \in Threads, NEW l \in Lanes, pc'[u] = "driver", lanes'[l].sw = loc'[u].sw
        PROVE  lanes'[l].ids[loc'[u].img] = 0
    <3>1. u # t /\ pc[u] = "driver" /\ loc'[u] = loc[u] BY <1>0, <2>2 DEF Quiet
    <3>2. loc[u].img \in Images BY <3>1 DEF LaneWorld, LocalsFit
    <3>3. lanes[l].ids[loc[u].img] = 0 BY <1>1, <2>2, <3>1 DEF LaneWorld, TicketsTrue
    <3> QED BY <3>1, <3>2, <3>3 DEF Quiet
  <2> QED BY <2>1, <2>2 DEF TicketsTrue
<1> QED BY <1>2, <1>3, <1>5, <1>6, <1>7, <1>8 DEF LaneWorld

\* A handler that returns.
LEMMA Returned == LocalsFit("idle", NoLocals) /\ HasLane("idle", NoLocals) /\ "idle" \in PCs
BY DEF LocalsFit, HasLane, Acquires, AcquirePCs, LanePCs, PacePCs, NoLocals, PCs

\* A handler that goes on with its swapchain, image and lane.
LEMMA GoesOn ==
    ASSUME TypeOK, LaneWorld, NEW t \in Threads, pc[t] \in LanePCs \cup PacePCs,
           NEW p \in LanePCs \cup PacePCs, NEW r \in LocalsType,
           p \in LanePCs => loc[t].sw # NoSwapchain,
           r.sw = loc[t].sw, r.img = loc[t].img, r.lane = loc[t].lane,
           r.core => /\ p \in {"resolve", "batch", "pressure", "mode"} \cup PacePCs
                     /\ r.sw = primary /\ primary # NoSwapchain
    PROVE  p \in PCs /\ LocalsFit(p, r) /\ HasLane(p, r)
<1>1. LocalsFit(pc[t], loc[t]) /\ HasLane(pc[t], loc[t]) BY DEF LaneWorld
<1>2. p \in PCs BY DEF PCs
<1>3. /\ p \notin {"idle", "driver", "complete", "destroy", "create", "lane"}
      /\ p \notin {"marker", "rotate", "reset", "tail", "stall"}
  BY DEF LanePCs, PacePCs
<1>4. LocalsFit(p, r) BY <1>1, <1>3 DEF LocalsFit, Acquires, AcquirePCs
<1>5. HasLane(p, r) BY <1>1 DEF HasLane
<1> QED BY <1>2, <1>4, <1>5

\* A quiet step that leaves the lanes alone.
LEMMA QuietTurn ==
    ASSUME TypeOK, LaneWorld, NEW t \in Threads, NEW p \in PCs, NEW r \in LocalsType, Turn(t, p, r),
           LocalsFit(p, r), HasLane(p, r), UNCHANGED <<primary, create_gate, held, owner, lanes>>,
           r.sw = loc[t].sw \/ r.sw = NoSwapchain,
           p \notin {"create", "driver", "destroy"},
           pc[t] \in {"complete", "publish"} /\ r.sw # NoSwapchain => p \in {"complete", "publish"}
    PROVE  Quiet(t, p, r)
BY DEF TypeOK, Quiet

\* A quiet step on the way of an acquire or of a paced frame.
LEMMA QuietOn ==
    ASSUME TypeOK, LaneWorld, NEW t \in Threads, pc[t] \in LanePCs \cup PacePCs,
           NEW p \in LanePCs \cup PacePCs, NEW r \in LocalsType, Turn(t, p, r),
           p \in LanePCs => loc[t].sw # NoSwapchain,
           r.sw = loc[t].sw, r.img = loc[t].img, r.lane = loc[t].lane,
           r.core => /\ p \in {"resolve", "batch", "pressure", "mode"} \cup PacePCs
                     /\ r.sw = primary /\ primary # NoSwapchain,
           UNCHANGED <<primary, create_gate, held, owner, lanes>>
    PROVE  p \in PCs /\ Quiet(t, p, r)
<1>1. p \in PCs /\ LocalsFit(p, r) /\ HasLane(p, r) BY GoesOn
<1>2. p \notin {"create", "driver", "destroy"} /\ pc[t] \notin {"complete", "publish"}
  BY DEF LanePCs, PacePCs
<1> QED BY <1>1, <1>2, QuietTurn

\* A handler returns and leaves the lanes alone.
LEMMA QuietReturn ==
    ASSUME TypeOK, LaneWorld, NEW t \in Threads, Return(t),
           UNCHANGED <<primary, create_gate, held, owner, lanes>>
    PROVE  "idle" \in PCs /\ NoLocals \in LocalsType /\ Quiet(t, "idle", NoLocals)
<1>1. Turn(t, "idle", NoLocals) BY DEF Return, Goto, Turn
<1>2. NoLocals.sw = NoSwapchain BY DEF NoLocals
<1> QED BY <1>1, <1>2, Blank, Returned, QuietTurn

----------------------------------------------------------------------------
(* The steps of on_acquire and of pace_frame that only go on *)

\* Everything but the lanes and the threads.
RestOK ==
    /\ control \in BOOLEAN /\ override \in {"ingame", "enable", "disable"} \cup Overrides
    /\ epoch \in Nat /\ reset_requested \in BOOLEAN
    /\ explicit_pacing \in {"none", "marker", "sleep"}
    /\ core_paced_pending \in BOOLEAN /\ gate \in BOOLEAN
    /\ frame_sequence \in FrameIds /\ last_started \in FrameIds
    /\ primary \in Swapchains \cup {NoSwapchain} /\ create_gate \in BOOLEAN
    /\ feedback \in Seq(Samples) /\ delay \in BOOLEAN /\ last_bridge \in FrameIds
    /\ last_completion \in FrameIds /\ ctx \in [ended : FrameIds, epoch : Nat]
    /\ stalls \in [StallSlots -> Nat \cup {-1}]
    /\ held \in [Swapchains -> SUBSET Images] /\ owner \in [Swapchains -> [Images -> FrameIds]]
    /\ calls \in Nat

LEMMA Parts ==
    TypeOK <=> /\ RestOK /\ lanes \in [Lanes -> LaneType]
               /\ pc \in [Threads -> PCs] /\ loc \in [Threads -> LocalsType]
BY DEF TypeOK, RestOK

LEMMA PrimaryLoadQuiet ==
    ASSUME TypeOK, LaneWorld, NEW t \in Threads, PrimaryLoad(t)
    PROVE  \E p \in PCs, r \in LocalsType : Quiet(t, p, r)
<1>1. PICK r : r = [loc[t] EXCEPT !.core = (primary = loc[t].sw)] OBVIOUS
<1>2. PICK p : p = CASE primary = NoSwapchain -> "cas"
                     [] primary = loc[t].sw -> "resolve"
                     [] OTHER -> "mode"
  OBVIOUS
<1>3. Turn(t, p, r) /\ pc[t] = "primary" BY <1>1, <1>2 DEF PrimaryLoad, Goto, Locals, Turn
<1>4. UNCHANGED <<primary, create_gate, held, owner, lanes>> BY DEF PrimaryLoad, table, app
<1>5. loc[t] \in LocalsType BY Typed
<1>6. /\ r \in LocalsType /\ r.sw = loc[t].sw /\ r.img = loc[t].img /\ r.lane = loc[t].lane
      /\ r.core = (primary = loc[t].sw)
  BY <1>1, <1>5 DEF LocalsType
<1>7. loc[t].sw # NoSwapchain
  BY <1>3 DEF LaneWorld, LocalsFit, AcquirePCs, LanePCs
<1>8. p \in {"cas", "resolve", "mode"} /\ (primary = loc[t].sw => p = "resolve") BY <1>2, <1>7
<1>9. pc[t] \in LanePCs /\ p \in LanePCs BY <1>3, <1>8 DEF LanePCs
<1> QED BY <1>3, <1>4, <1>6, <1>7, <1>8, <1>9, QuietOn

LEMMA LoadModeQuiet ==
    ASSUME TypeOK, LaneWorld, NEW t \in Threads, LoadMode(t)
    PROVE  \E p \in PCs, r \in LocalsType : Quiet(t, p, r)
<1>1. pc[t] = "mode" /\ UNCHANGED <<primary, create_gate, held, owner, lanes>>
  BY DEF LoadMode, table, app
<1>2. loc[t] \in LocalsType /\ last_started \in FrameIds /\ 0 \in FrameIds BY Typed, Blank DEF TypeOK
<1>3. pc[t] \in LanePCs /\ loc[t].sw # NoSwapchain /\ (loc[t].core => loc[t].sw = primary)
  BY <1>1 DEF LaneWorld, LocalsFit, AcquirePCs, LanePCs
<1>4. CASE explicit_pacing = "none" /\ loc[t].core
  <2>1. PICK r : r = [loc[t] EXCEPT !.frame = 0, !.ep = 0] OBVIOUS
  <2>2. Turn(t, "pace", r) BY <1>4, <2>1 DEF LoadMode, Goto, Locals, Turn
  <2>3. /\ r \in LocalsType /\ r.sw = loc[t].sw /\ r.img = loc[t].img /\ r.lane = loc[t].lane
    BY <1>2, <2>1 DEF LocalsType
  <2>4. "pace" \in PacePCs /\ "pace" \notin LanePCs BY DEF PacePCs, LanePCs
  <2> QED BY <1>1, <1>3, <1>4, <2>2, <2>3, <2>4, QuietOn
<1>5. CASE ~(explicit_pacing = "none" /\ loc[t].core)
  <2>1. PICK r : r = [loc[t] EXCEPT !.frame = last_started, !.ep = 0, !.core = FALSE] OBVIOUS
  <2>2. Turn(t, "stamp", r) BY <1>5, <2>1 DEF LoadMode, Goto, Locals, Turn
  <2>3. /\ r \in LocalsType /\ r.sw = loc[t].sw /\ r.img = loc[t].img /\ r.lane = loc[t].lane
        /\ r.core = FALSE
    BY <1>2, <2>1 DEF LocalsType
  <2>4. "stamp" \in LanePCs BY DEF LanePCs
  <2> QED BY <1>1, <1>3, <2>2, <2>3, <2>4, QuietOn
<1> QED BY <1>4, <1>5

\* Steps that change no local but the program counter.
LEMMA PlainQuiet ==
    ASSUME TypeOK, LaneWorld, NEW t \in Threads,
           PublishBatch(t) \/ UpdateQueuePressure(t) \/ ConsumeFeedback(t)
    PROVE  \E p \in PCs, r \in LocalsType : Quiet(t, p, r)
<1>1. UNCHANGED <<primary, create_gate, held, owner, lanes>>
  BY DEF PublishBatch, UpdateQueuePressure, ConsumeFeedback, table, app
<1>2. PICK p : /\ p = CASE pc[t] = "batch" -> "pressure"
                        [] pc[t] = "pressure" -> "mode"
                        [] OTHER -> "begin"
  OBVIOUS
<1>3. Turn(t, p, loc[t]) /\ pc[t] \in {"batch", "pressure", "consume"}
  <2>1. pc' = [pc EXCEPT ![t] = p] /\ loc' = loc /\ pc[t] \in {"batch", "pressure", "consume"}
    BY <1>2 DEF PublishBatch, UpdateQueuePressure, ConsumeFeedback, Goto
  <2> QED BY <2>1 DEF Turn, TypeOK
<1>4. loc[t] \in LocalsType BY Typed
<1>5. /\ pc[t] \in LanePCs \cup PacePCs /\ p \in LanePCs \cup PacePCs
      /\ p \in {"pressure", "mode", "begin"} /\ "begin" \in PacePCs
      /\ p \in LanePCs => pc[t] \in LanePCs
  BY <1>2, <1>3 DEF LanePCs, PacePCs
<1>6. /\ p \in LanePCs => loc[t].sw # NoSwapchain
      /\ loc[t].core => loc[t].sw = primary /\ primary # NoSwapchain
  BY <1>5 DEF LaneWorld, LocalsFit, AcquirePCs
<1> QED BY <1>1, <1>3, <1>4, <1>5, <1>6, QuietOn

LEMMA PaceQuiet ==
    ASSUME TypeOK, LaneWorld, NEW t \in Threads, PaceEnter(t) \/ PaceLoadEpoch(t)
    PROVE  \E p \in PCs, r \in LocalsType : Quiet(t, p, r)
<1>1. pc[t] \in {"pace", "load"} /\ UNCHANGED <<primary, create_gate, held, owner, lanes>>
  BY DEF PaceEnter, PaceLoadEpoch, table, app
<1>2. /\ pc[t] \in PacePCs /\ "load" \in PacePCs \ LanePCs /\ "consume" \in PacePCs \ LanePCs
  BY <1>1 DEF LanePCs, PacePCs
<1>3. loc[t].core => loc[t].sw = primary /\ primary # NoSwapchain BY DEF LaneWorld, LocalsFit
<1>4. loc[t] \in LocalsType BY Typed
<1>5. CASE PaceEnter(t)
  <2>1. CASE loc[t].frame = 0
    <3>1. PICK n \in FrameIds : n = frame_sequence + 1 /\ frame_sequence' = n
      BY <1>5, <2>1, FlexAssumption DEF PaceEnter, TypeOK, FrameIds
    <3>2. PICK r : r = [loc[t] EXCEPT !.frame = n] OBVIOUS
    <3>3. Turn(t, "load", r) BY <1>5, <2>1, <3>1, <3>2 DEF PaceEnter, Goto, Locals, Turn
    <3>4. /\ r \in LocalsType /\ r.sw = loc[t].sw /\ r.img = loc[t].img /\ r.lane = loc[t].lane
          /\ r.core = loc[t].core
      BY <1>4, <3>2 DEF LocalsType
    <3> QED BY <1>1, <1>2, <1>3, <3>3, <3>4, QuietOn
  <2>2. CASE loc[t].frame # 0
    <3>1. Turn(t, "load", loc[t]) BY <1>5, <2>2 DEF PaceEnter, Goto, Turn, TypeOK
    <3> QED BY <1>1, <1>2, <1>3, <1>4, <3>1, QuietOn
  <2> QED BY <2>1, <2>2
<1>6. CASE PaceLoadEpoch(t)
  <2>1. PICK r : r = [loc[t] EXCEPT !.ep = epoch] OBVIOUS
  <2>2. Turn(t, "consume", r) BY <1>6, <2>1 DEF PaceLoadEpoch, Goto, Locals, Turn
  <2>3. /\ r \in LocalsType /\ r.sw = loc[t].sw /\ r.img = loc[t].img /\ r.lane = loc[t].lane
        /\ r.core = loc[t].core
    BY <1>4, <2>1, Typed DEF LocalsType
  <2> QED BY <1>1, <1>2, <1>3, <2>2, <2>3, QuietOn
<1> QED BY <1>5, <1>6

\* A frame was paced, or not: an acquire stamps its image, a frontend returns.
LEMMA PacedQuiet ==
    ASSUME TypeOK, LaneWorld, NEW t \in Threads, PaceRefused(t) \/ BeginFrame(t)
    PROVE  \E p \in PCs, r \in LocalsType : Quiet(t, p, r)
<1>1. pc[t] \in {"pace", "begin"} /\ UNCHANGED <<primary, create_gate, held, owner, lanes>>
  BY DEF PaceRefused, BeginFrame, table, app
<1>2. loc[t] \in LocalsType /\ 0 \in FrameIds BY Typed, Blank
<1>3. CASE loc[t].sw = NoSwapchain
  <2>1. Return(t) BY <1>3 DEF PaceRefused, BeginFrame, Paced
  <2> QED BY <1>1, <2>1, QuietReturn
<1>4. CASE loc[t].sw # NoSwapchain
  <2>1. PICK r : /\ Turn(t, "stamp", r)
                 /\ \/ r = [loc[t] EXCEPT !.frame = 0, !.core = FALSE]
                    \/ r = [loc[t] EXCEPT !.core = FALSE, !.ep = 0]
    BY <1>4 DEF PaceRefused, BeginFrame, Paced, Goto, Locals, Turn
  <2>2. /\ r \in LocalsType /\ r.sw = loc[t].sw /\ r.img = loc[t].img /\ r.lane = loc[t].lane
        /\ r.core = FALSE
    <3>1. CASE r = [loc[t] EXCEPT !.frame = 0, !.core = FALSE] BY <1>2, <3>1 DEF LocalsType
    <3>2. CASE r = [loc[t] EXCEPT !.core = FALSE, !.ep = 0] BY <1>2, <3>2 DEF LocalsType
    <3> QED BY <2>1, <3>1, <3>2
  <2>3. "stamp" \in LanePCs /\ pc[t] \in PacePCs BY <1>1 DEF LanePCs, PacePCs
  <2> QED BY <1>1, <1>4, <2>1, <2>2, <2>3, QuietOn
<1> QED BY <1>3, <1>4

\* One lane gets another payload behind the same identity.
LEMMA LaneShrinks ==
    ASSUME TypeOK, NEW l \in Lanes, NEW x \in LaneType, lanes' = [lanes EXCEPT ![l] = x],
           x.sw = lanes[l].sw, \A i \in Images : x.ids[i] \in {0, lanes[l].ids[i]}
    PROVE  /\ lanes' \in [Lanes -> LaneType]
           /\ \A m \in Lanes : /\ lanes'[m].sw = lanes[m].sw
                               /\ \A i \in Images : lanes'[m].ids[i] \in {0, lanes[m].ids[i]}
<1>1. /\ lanes' \in [Lanes -> LaneType] /\ lanes'[l] = x
      /\ \A m \in Lanes : m # l => lanes'[m] = lanes[m]
  BY OneLane
<1> QED BY <1>1

\* The representative of retired presents is one of their frames.
LEMMA RepresentativeTyped ==
    ASSUME TypeOK, NEW done \in SUBSET Samples, NEW precise \in SUBSET done,
           \E x \in done : x.ep = epoch
    PROVE  Representative(done, precise) \in FrameIds
<1>1. PICK active : active = {x \in done : x.ep = epoch} OBVIOUS
<1>2. PICK chosen : chosen = IF active \cap precise # {} THEN active \cap precise ELSE active OBVIOUS
<1>3. PICK S : S = {x.frame : x \in chosen} OBVIOUS
<1>4. Representative(done, precise) = Max(S) BY <1>1, <1>2, <1>3 DEF Representative
<1>5. chosen \in SUBSET Samples /\ chosen # {} BY <1>1, <1>2
<1>6. S \in SUBSET FrameIds /\ S # {} BY <1>3, <1>5 DEF Samples
<1> QED BY <1>4, <1>6, MaxIn

LEMMA ResolveQuiet ==
    ASSUME TypeOK, LaneWorld, NEW t \in Threads, ResolvePrecision(t)
    PROVE  \E p \in PCs, r \in LocalsType : Quiet(t, p, r)
<1>1. pc[t] = "resolve" /\ UNCHANGED <<primary, create_gate, held, owner>>
  BY DEF ResolvePrecision, app
<1>2. pc[t] \in LanePCs /\ "batch" \in LanePCs /\ "pressure" \in LanePCs BY <1>1 DEF LanePCs
<1>3. PICK l \in Lanes : l = loc[t].lane BY <1>2 DEF LaneWorld, HasLane
<1>4. PICK done, precise :
        /\ done \in SUBSET lanes[l].filed /\ precise \in SUBSET done
        /\ SetLane(t, [Lane(t) EXCEPT !.filed = @ \ done])
        /\ IF \E x \in done : x.ep = epoch
           THEN /\ Locals(t, [loc[t] EXCEPT !.frame = Representative(done, precise), !.ep = epoch])
                /\ Goto(t, "batch")
           ELSE Goto(t, "pressure") /\ UNCHANGED loc
  BY <1>3 DEF ResolvePrecision, Lane
<1>5. lanes[l] \in LaneType /\ loc[t] \in LocalsType /\ epoch \in Nat BY Typed
<1>6. PICK x : x = [lanes[l] EXCEPT !.filed = lanes[l].filed \ done] OBVIOUS
<1>7. lanes' = [lanes EXCEPT ![l] = x] BY <1>3, <1>4, <1>6 DEF SetLane, Lane
<1>8. x \in LaneType /\ x.sw = lanes[l].sw /\ x.ids = lanes[l].ids BY <1>5, <1>6 DEF LaneType
<1>9. /\ lanes' \in [Lanes -> LaneType]
      /\ \A m \in Lanes : /\ lanes'[m].sw = lanes[m].sw
                          /\ \A i \in Images : lanes'[m].ids[i] \in {0, lanes[m].ids[i]}
  BY <1>7, <1>8, LaneShrinks
<1>10. /\ loc[t].sw # NoSwapchain
       /\ loc[t].core => loc[t].sw = primary /\ primary # NoSwapchain
  BY <1>2 DEF LaneWorld, LocalsFit, AcquirePCs
<1>11. PICK p \in {"batch", "pressure"}, r \in LocalsType :
         /\ Turn(t, p, r) /\ r.sw = loc[t].sw /\ r.img = loc[t].img /\ r.lane = loc[t].lane
         /\ r.core = loc[t].core
  <2>1. CASE \E y \in done : y.ep = epoch
    <3>0. done \in SUBSET Samples /\ precise \in SUBSET done BY <1>4, <1>5, LaneParts
    <3>1. Representative(done, precise) \in FrameIds BY <2>1, <3>0, RepresentativeTyped
    <3>2. PICK r : r = [loc[t] EXCEPT !.frame = Representative(done, precise), !.ep = epoch] OBVIOUS
    <3>3. Turn(t, "batch", r) BY <1>4, <2>1, <3>2 DEF Goto, Locals, Turn
    <3>4. /\ r \in LocalsType /\ r.sw = loc[t].sw /\ r.img = loc[t].img /\ r.lane = loc[t].lane
          /\ r.core = loc[t].core
      BY <1>5, <3>1, <3>2 DEF LocalsType
    <3> QED BY <3>3, <3>4
  <2>2. CASE ~\E y \in done : y.ep = epoch
    <3>1. Turn(t, "pressure", loc[t]) BY <1>4, <2>2 DEF Goto, Turn, TypeOK
    <3> QED BY <1>5, <3>1
  <2> QED BY <2>1, <2>2
<1>12. p \in PCs /\ LocalsFit(p, r) /\ HasLane(p, r) BY <1>2, <1>10, <1>11, GoesOn
<1>13. Quiet(t, p, r) BY <1>1, <1>9, <1>11, <1>12 DEF Quiet
<1> QED BY <1>12, <1>13

LEMMA CompleteQuiet ==
    ASSUME TypeOK, LaneWorld, NEW t \in Threads, CompletePresent(t) \/ PublishFeedback(t)
    PROVE  \E p \in PCs, r \in LocalsType : Quiet(t, p, r)
<1>1. UNCHANGED <<primary, create_gate, held, owner>>
  BY DEF CompletePresent, PublishFeedback, table, app
<1>2. CASE Return(t) /\ lanes' = lanes BY <1>1, <1>2, QuietReturn, Blank
<1>3. CASE PublishFeedback(t) BY <1>2, <1>3 DEF PublishFeedback, table
<1>4. CASE CompletePresent(t)
  <2>1. pc[t] = "complete" BY <1>4 DEF CompletePresent
  <2>2. PICK l \in Lanes : l = loc[t].lane BY <2>1 DEF LaneWorld, LocalsFit
  <2>3. lanes[l] \in LaneType /\ loc[t] \in LocalsType BY Typed
  <2>4. CASE Goto(t, "publish") /\ UNCHANGED <<lanes, loc>>
    <3>1. Turn(t, "publish", loc[t]) /\ "publish" \in PCs BY <2>4 DEF Goto, Turn, TypeOK, PCs
    <3>2. LocalsFit("publish", loc[t]) /\ HasLane("publish", loc[t])
      BY <2>1 DEF LaneWorld, LocalsFit, HasLane, Acquires, AcquirePCs, LanePCs, PacePCs
    <3> QED BY <1>1, <2>1, <2>3, <2>4, <3>1, <3>2, QuietTurn
  <2>5. CASE /\ SetLane(t, [Lane(t) EXCEPT !.filed = @ \cup {[frame |-> loc[t].frame, ep |-> loc[t].ep]}])
             /\ Return(t)
    <3>1. PICK y \in Samples : y = [frame |-> loc[t].frame, ep |-> loc[t].ep]
      BY <2>3, LocalParts DEF Samples
    <3>2. PICK x : x = [lanes[l] EXCEPT !.filed = lanes[l].filed \cup {y}] OBVIOUS
    <3>3. lanes' = [lanes EXCEPT ![l] = x] BY <2>2, <2>5, <3>1, <3>2 DEF SetLane, Lane
    <3>4. x \in LaneType /\ x.sw = lanes[l].sw /\ x.ids = lanes[l].ids BY <2>3, <3>1, <3>2 DEF LaneType
    <3>5. /\ lanes' \in [Lanes -> LaneType]
          /\ \A m \in Lanes : /\ lanes'[m].sw = lanes[m].sw
                              /\ \A i \in Images : lanes'[m].ids[i] \in {0, lanes[m].ids[i]}
      BY <3>3, <3>4, LaneShrinks
    <3>6. Turn(t, "idle", NoLocals) /\ NoLocals.sw = NoSwapchain BY <2>5 DEF Return, Goto, Turn, NoLocals
    <3> QED BY <1>1, <3>5, <3>6, Returned, Blank DEF Quiet
  <2> QED BY <1>2, <1>4, <2>4, <2>5 DEF CompletePresent
<1> QED BY <1>3, <1>4

\* A frontend or a reload without a swapchain.
LEMMA PlainTurn ==
    ASSUME TypeOK, LaneWorld, NEW t \in Threads, NEW p \in PCs, NEW r \in LocalsType, Turn(t, p, r),
           p \in {"marker", "rotate", "reset", "tail", "stall", "pace", "publish"},
           r.sw = NoSwapchain, r.core = FALSE, p = "stall" => r.lane \in StallSlots,
           UNCHANGED <<primary, create_gate, held, owner, lanes>>
    PROVE  Quiet(t, p, r)
<1>1. LocalsFit(p, r) /\ HasLane(p, r)
  BY DEF LocalsFit, HasLane, Acquires, AcquirePCs, LanePCs, PacePCs
<1> QED BY <1>1, QuietTurn

LEMMA ControlQuiet ==
    ASSUME TypeOK, LaneWorld, NEW t \in Threads,
           \/ MarkerPace(t) \/ RotateEpoch(t) \/ ClearEpochState(t) \/ StallPublish(t)
    PROVE  \E p \in PCs, r \in LocalsType : Quiet(t, p, r)
<1>1. UNCHANGED <<primary, create_gate, held, owner, lanes>>
  BY DEF MarkerPace, RotateEpoch, ClearEpochState, StallPublish, table, app
<1>2. CASE Return(t) BY <1>1, <1>2, QuietReturn, Blank
<1>3. CASE ~Return(t)
  <2>1. PICK p : Turn(t, p, loc[t]) /\ p \in {"pace", "reset", "tail"} /\ pc[t] \in {"marker", "rotate", "reset"}
    <3>1. PICK p : /\ pc' = [pc EXCEPT ![t] = p] /\ loc' = loc
                   /\ p \in {"pace", "reset", "tail"} /\ pc[t] \in {"marker", "rotate", "reset"}
      BY <1>3 DEF MarkerPace, RotateEpoch, ClearEpochState, StallPublish, Goto
    <3> QED BY <3>1 DEF Turn, TypeOK
  <2>2. loc[t].sw = NoSwapchain /\ ~loc[t].core /\ loc[t] \in LocalsType
    BY <2>1, Typed DEF LaneWorld, LocalsFit, PacePCs
  <2>3. p \in PCs BY <2>1 DEF PCs, PacePCs
  <2>4. loc[t].core = FALSE BY <2>2, LocalParts
  <2> QED BY <1>1, <2>1, <2>2, <2>3, <2>4, PlainTurn
<1> QED BY <1>2, <1>3

\* Calls that bring no swapchain; some return at once.
LEMMA CallQuiet ==
    ASSUME TypeOK, LaneWorld, NEW t \in Threads,
           \/ \E f \in Frames : BridgePresent(t, f) \/ SimulationStart(t, f)
           \/ \E f \in FrameIds : Sleep(t, f)
           \/ \E c, o : SetControl(t, c, o)
           \/ \E s \in StallSlots : StallClaim(t, s)
    PROVE  \E p \in PCs, r \in LocalsType : Quiet(t, p, r)
<1>1. pc[t] = "idle" /\ UNCHANGED <<primary, create_gate, held, owner, lanes>>
  BY DEF BridgePresent, SimulationStart, Sleep, SetControl, StallClaim, Enter, table, app
<1>2. loc[t] = NoLocals BY <1>1 DEF LaneWorld, LocalsFit
<1>3. NoLocals \in LocalsType /\ NoLocals.sw = NoSwapchain /\ NoLocals.core = FALSE
  BY Blank DEF NoLocals
<1>4. CASE Turn(t, "idle", NoLocals) BY <1>1, <1>3, <1>4, Returned, QuietTurn
<1>5. CASE pc' = pc /\ loc' = loc BY <1>1, <1>2, <1>4, <1>5 DEF Turn, TypeOK
<1>6. ASSUME NEW p \in {"marker", "publish", "pace"}, NEW f \in FrameIds, NEW e \in Nat,
             pc' = [pc EXCEPT ![t] = p],
             \/ loc' = [loc EXCEPT ![t] = [loc[t] EXCEPT !.frame = f, !.ep = e]]
             \/ loc' = [loc EXCEPT ![t] = [loc[t] EXCEPT !.frame = f]]
      PROVE  \E q \in PCs, r \in LocalsType : Quiet(t, q, r)
  <2>1. p \in PCs BY DEF PCs, PacePCs
  <2>2. CASE loc' = [loc EXCEPT ![t] = [loc[t] EXCEPT !.frame = f, !.ep = e]]
    <3>1. PICK r : r = [NoLocals EXCEPT !.frame = f, !.ep = e] OBVIOUS
    <3>2. r \in LocalsType /\ r.sw = NoSwapchain /\ r.core = FALSE BY <1>3, <3>1 DEF LocalsType
    <3>3. Turn(t, p, r) BY <1>2, <1>6, <2>2, <3>1 DEF Turn
    <3> QED BY <1>1, <2>1, <3>2, <3>3, PlainTurn
  <2>3. CASE loc' = [loc EXCEPT ![t] = [loc[t] EXCEPT !.frame = f]]
    <3>1. PICK r : r = [NoLocals EXCEPT !.frame = f] OBVIOUS
    <3>2. r \in LocalsType /\ r.sw = NoSwapchain /\ r.core = FALSE BY <1>3, <3>1 DEF LocalsType
    <3>3. Turn(t, p, r) BY <1>2, <1>6, <2>3, <3>1 DEF Turn
    <3> QED BY <1>1, <2>1, <3>2, <3>3, PlainTurn
  <2> QED BY <1>6, <2>2, <2>3
<1>7. Frames \subseteq FrameIds BY FlexAssumption DEF Frames, FrameIds
<1>8. ASSUME NEW f \in Frames, BridgePresent(t, f) PROVE \E p \in PCs, r \in LocalsType : Quiet(t, p, r)
  BY <1>5, <1>6, <1>7, <1>8, Typed DEF BridgePresent, Goto, Locals
<1>9. ASSUME NEW f \in Frames, SimulationStart(t, f) PROVE \E p \in PCs, r \in LocalsType : Quiet(t, p, r)
  BY <1>5, <1>6, <1>7, <1>9, Typed DEF SimulationStart, Goto, Locals
<1>10. ASSUME NEW f \in FrameIds, Sleep(t, f) PROVE \E p \in PCs, r \in LocalsType : Quiet(t, p, r)
  BY <1>6, <1>10, Typed DEF Sleep, Goto, Locals
<1>11. ASSUME NEW c, NEW o, SetControl(t, c, o) PROVE \E p \in PCs, r \in LocalsType : Quiet(t, p, r)
  <2>1. loc' = loc /\ \E p \in {"rotate", "idle"} : pc' = [pc EXCEPT ![t] = p]
    BY <1>11 DEF SetControl, Goto
  <2>2. PICK p \in {"rotate", "idle"} : Turn(t, p, NoLocals) BY <1>2, <2>1 DEF Turn, TypeOK
  <2>3. p \in PCs BY DEF PCs
  <2> QED BY <1>1, <1>3, <1>4, <2>2, <2>3, PlainTurn
<1>12. ASSUME NEW s \in StallSlots, StallClaim(t, s) PROVE \E p \in PCs, r \in LocalsType : Quiet(t, p, r)
  <2>1. PICK r : r = [NoLocals EXCEPT !.lane = s, !.ep = epoch] OBVIOUS
  <2>2. s \in Nat /\ epoch \in Nat BY Typed, FlexAssumption
  <2>3. r \in LocalsType /\ r.sw = NoSwapchain /\ r.core = FALSE /\ r.lane = s
    BY <1>3, <2>1, <2>2 DEF LocalsType
  <2>4. Turn(t, "stall", r) BY <1>2, <1>12, <2>1 DEF StallClaim, Goto, Locals, Turn
  <2>5. "stall" \in PCs BY DEF PCs
  <2> QED BY <1>1, <2>3, <2>4, <2>5, PlainTurn
<1> QED BY <1>8, <1>9, <1>10, <1>11, <1>12

----------------------------------------------------------------------------
(* The steps that change identities, images or mappings *)

\* Threads other than t keep what they know while their swapchain keeps its lane,
\* its images and, if they pace for it, its primary role.
LEMMA OthersKeep ==
    ASSUME TypeOK, LaneWorld, NEW t \in Threads, NEW p \in PCs, NEW r \in LocalsType, Turn(t, p, r),
           NEW u \in Threads, u # t, loc[u].core => primary' = primary,
           Acquires(pc[u], loc[u]) =>
              /\ loc[u].img \in held'[loc[u].sw]
              /\ \A l \in Lanes : lanes[l].sw = loc[u].sw => lanes'[l].sw = lanes[l].sw
    PROVE  LocalsFit(pc[u], loc[u])' /\ HasLane(pc[u], loc[u])'
<1>0. pc'[u] = pc[u] /\ loc'[u] = loc[u] BY Turned
<1>1. LocalsFit(pc[u], loc[u]) /\ HasLane(pc[u], loc[u]) BY DEF LaneWorld
<1>2. LocalsFit(pc[u], loc[u])' BY <1>0, <1>1 DEF LocalsFit, Acquires
<1>3. HasLane(pc[u], loc[u])'
  <2>1. CASE Acquires(pc[u], loc[u]) BY <1>0, <1>1, <2>1 DEF HasLane
  <2>2. CASE ~Acquires(pc[u], loc[u])
    BY <1>0, <1>1, <2>2 DEF HasLane, LocalsFit, Acquires, AcquirePCs
  <2> QED BY <2>1, <2>2
<1> QED BY <1>2, <1>3

\* The creator keeps its gate while lanes only lose their identity.
LEMMA CreatorKeeps ==
    ASSUME TypeOK, LaneWorld, NEW t \in Threads, NEW p \in PCs, NEW r \in LocalsType, Turn(t, p, r),
           p # "create", create_gate' = create_gate,
           \A l \in Lanes : lanes'[l].sw = lanes[l].sw \/ lanes'[l].sw = NoSwapchain
    PROVE  \A u \in Threads : Creating(u)'
<1>0. /\ pc'[t] = p
      /\ \A u \in Threads : u # t => pc'[u] = pc[u] /\ loc'[u] = loc[u]
  BY Turned
<1>1. \A u \in Threads : pc'[u] = "create" => u # t /\ pc[u] = "create" /\ loc'[u] = loc[u] BY <1>0
<1> SUFFICES ASSUME NEW u \in Threads, pc'[u] = "create" PROVE Creating(u)' BY DEF Creating
<1>2. u # t /\ pc[u] = "create" /\ loc'[u] = loc[u] BY <1>1
<1>3. Creating(u) /\ LocalsFit(pc[u], loc[u]) BY DEF LaneWorld
<1>4. loc[u].lane \in Lanes /\ loc[u].sw # NoSwapchain BY <1>2, <1>3 DEF LocalsFit, AcquirePCs
<1> QED BY <1>1, <1>2, <1>3, <1>4 DEF Creating, Lane

\* Calls stay serialised while a thread goes on with its swapchain or leaves it ...
LEMMA SerialKeeps ==
    ASSUME TypeOK, LaneWorld, NEW t \in Threads, NEW p \in PCs, NEW r \in LocalsType, Turn(t, p, r),
           r.sw = loc[t].sw \/ r.sw = NoSwapchain, p # "destroy",
           pc[t] \in {"complete", "publish"} /\ r.sw # NoSwapchain => p \in {"complete", "publish"}
    PROVE  Serialised'
<1>0. /\ pc'[t] = p /\ loc'[t] = r
      /\ \A u \in Threads : u # t => pc'[u] = pc[u] /\ loc'[u] = loc[u]
  BY Turned
<1> SUFFICES ASSUME NEW u \in Threads, NEW v \in Threads, u # v, loc'[u].sw = loc'[v].sw,
                    loc'[u].sw # NoSwapchain
             PROVE  /\ pc'[u] # "destroy"
                    /\ pc'[u] \in {"complete", "publish"} \/ pc'[v] \in {"complete", "publish"}
  BY DEF Serialised
<1>1. loc[u].sw = loc'[u].sw /\ loc[v].sw = loc'[v].sw BY <1>0
<1>2. /\ pc[u] # "destroy"
      /\ pc[u] \in {"complete", "publish"} \/ pc[v] \in {"complete", "publish"}
  BY <1>1 DEF LaneWorld, Serialised
<1> QED BY <1>0, <1>1, <1>2

\* ... or enters one that is not busy; a destruction enters one nobody uses.
LEMMA SerialEnters ==
    ASSUME TypeOK, LaneWorld, NEW t \in Threads, NEW p \in PCs, NEW r \in LocalsType, Turn(t, p, r),
           r.sw # NoSwapchain, ~Busy(r.sw), p = "destroy" => ~InUse(r.sw)
    PROVE  Serialised'
<1>0. /\ pc'[t] = p /\ loc'[t] = r
      /\ \A u \in Threads : u # t => pc'[u] = pc[u] /\ loc'[u] = loc[u]
  BY Turned
<1>1. \A u \in Threads : loc[u].sw = r.sw => pc[u] \in {"complete", "publish"} BY DEF Busy
<1>2. p = "destroy" => \A u \in Threads : loc[u].sw # r.sw BY DEF InUse
<1> SUFFICES ASSUME NEW u \in Threads, NEW v \in Threads, u # v, loc'[u].sw = loc'[v].sw,
                    loc'[u].sw # NoSwapchain
             PROVE  /\ pc'[u] # "destroy"
                    /\ pc'[u] \in {"complete", "publish"} \/ pc'[v] \in {"complete", "publish"}
  BY DEF Serialised
<1>3. CASE u = t BY <1>0, <1>1, <1>2, <1>3
<1>4. CASE v = t BY <1>0, <1>1, <1>4
<1>5. CASE u # t /\ v # t BY <1>0, <1>5 DEF LaneWorld, Serialised
<1> QED BY <1>3, <1>4, <1>5

\* While t acquires, presents into the driver or destroys, nobody else acquires, presents
\* or destroys on that swapchain.
LEMMA Alone ==
    ASSUME LaneWorld, NEW t \in Threads, NEW u \in Threads, u # t, loc[t].sw # NoSwapchain,
           pc[t] \notin {"complete", "publish"}, loc[u].sw = loc[t].sw
    PROVE  pc[u] \in {"complete", "publish"} /\ ~Acquires(pc[u], loc[u]) /\ ~loc[u].core
<1>1. pc[u] \in {"complete", "publish"} BY DEF LaneWorld, Serialised
<1>2. ~Acquires(pc[u], loc[u]) BY <1>1 DEF Acquires, AcquirePCs, LanePCs, PacePCs
<1>3. LocalsFit(pc[u], loc[u]) BY DEF LaneWorld
<1>4. ~loc[u].core BY <1>1, <1>3 DEF LocalsFit, PacePCs
<1> QED BY <1>1, <1>2, <1>4

LEMMA AcquireStep ==
    ASSUME TypeOK, LaneWorld, NEW t \in Threads, NEW s \in Swapchains, NEW i \in Images,
           CallAcquire(t, s, i)
    PROVE  /\ LaneWorld'
           /\ \E p \in PCs, r \in LocalsType : Turn(t, p, r)
<1>1. /\ pc[t] = "idle" /\ ~Busy(s) /\ i \notin held[s]
      /\ held' = [held EXCEPT ![s] = @ \cup {i}] /\ owner' = [owner EXCEPT ![s][i] = 0]
      /\ UNCHANGED <<primary, lanes, create_gate>>
  BY DEF CallAcquire, Enter, table
<1>2. loc[t] = NoLocals BY <1>1 DEF LaneWorld, LocalsFit
<1>3. PICK p \in PCs, r \in LocalsType :
        /\ Turn(t, p, r) /\ r.core = FALSE
        /\ \/ p = "idle" /\ r = NoLocals
           \/ p = "lane" /\ r.sw = s /\ r.img = i
  <2>1. CASE enabled_from_control
    <3>1. PICK r : r = [NoLocals EXCEPT !.sw = s, !.img = i] OBVIOUS
    <3>2. r \in LocalsType /\ r.sw = s /\ r.img = i /\ r.core = FALSE
      BY <3>1, Blank DEF LocalsType, NoLocals
    <3>3. Turn(t, "lane", r) BY <1>2, <2>1, <3>1 DEF CallAcquire, Goto, Locals, Turn
    <3>4. "lane" \in PCs BY DEF PCs
    <3> QED BY <3>2, <3>3, <3>4
  <2>2. CASE ~enabled_from_control
    <3>1. pc' = pc /\ loc' = loc BY <2>2 DEF CallAcquire
    <3>2. Turn(t, "idle", NoLocals) BY <1>1, <1>2, <3>1 DEF Turn, TypeOK
    <3>3. NoLocals.core = FALSE BY DEF NoLocals
    <3> QED BY <3>2, <3>3, Returned, Blank
  <2> QED BY <2>1, <2>2
<1>4. /\ pc'[t] = p /\ loc'[t] = r
      /\ \A u \in Threads : u # t => pc'[u] = pc[u] /\ loc'[u] = loc[u]
  BY <1>3, Turned
<1>5. /\ \A z \in Swapchains : held[z] \subseteq held'[z]
      /\ i \in held'[s]
      /\ \A z \in Swapchains, j \in Images : z # s \/ j # i => owner'[z][j] = owner[z][j]
  BY <1>1 DEF TypeOK
<1>6. s # NoSwapchain BY FlexAssumption
<1>7. LocalsFit(pc[t], loc[t])' /\ HasLane(pc[t], loc[t])'
  <2>1. CASE p = "idle" /\ r = NoLocals
    BY <1>4, <2>1 DEF LocalsFit, HasLane, Acquires, AcquirePCs, LanePCs, PacePCs, NoLocals
  <2>2. CASE p = "lane" /\ r.sw = s /\ r.img = i
    BY <1>3, <1>4, <1>5, <1>6, <2>2 DEF LocalsFit, HasLane, Acquires, AcquirePCs, LanePCs, PacePCs
  <2> QED BY <1>3, <2>1, <2>2
<1>8. ASSUME NEW u \in Threads, u # t PROVE LocalsFit(pc[u], loc[u])' /\ HasLane(pc[u], loc[u])'
  <2>1. Acquires(pc[u], loc[u]) => loc[u].sw \in Swapchains /\ loc[u].img \in held[loc[u].sw]
    BY Typed, LocalParts DEF LaneWorld, LocalsFit, Acquires
  <2>2. /\ loc[u].core => primary' = primary
        /\ Acquires(pc[u], loc[u]) =>
              /\ loc[u].img \in held'[loc[u].sw]
              /\ \A l \in Lanes : lanes[l].sw = loc[u].sw => lanes'[l].sw = lanes[l].sw
    BY <1>1, <1>5, <2>1
  <2> QED BY <1>3, <1>8, <2>2, OthersKeep
<1>9. \A u \in Threads : Creating(u)' BY <1>1, <1>3, CreatorKeeps
<1>10. Serialised' 
  <2>1. CASE p = "idle" /\ r = NoLocals
    <3>1. NoLocals.sw = NoSwapchain BY DEF NoLocals
    <3> QED BY <1>3, <2>1, <3>1, SerialKeeps
  <2>2. CASE p = "lane" /\ r.sw = s BY <1>1, <1>3, <1>6, <2>2, SerialEnters
  <2> QED BY <1>3, <2>1, <2>2
<1>11. OneLanePerSwapchain' BY <1>1 DEF LaneWorld, OneLanePerSwapchain
<1>12. TicketsTrue'
  <2>1. ASSUME NEW l \in Lanes, NEW j \in Images, lanes'[l].sw # NoSwapchain, lanes'[l].ids[j] # 0
        PROVE  j \in held'[lanes'[l].sw] /\ lanes'[l].ids[j] = owner'[lanes'[l].sw][j]
    <3>1. j \in held[lanes[l].sw] /\ lanes[l].ids[j] = owner[lanes[l].sw][j]
      BY <1>1, <2>1 DEF LaneWorld, TicketsTrue
    <3>2. lanes[l].sw \in Swapchains BY <1>1, <2>1, Typed, LaneParts
    <3>3. lanes[l].sw # s \/ j # i BY <1>1, <3>1
    <3> QED BY <1>1, <1>5, <3>1, <3>2, <3>3
  <2>2. ASSUME NEW u \in Threads, NEW l \in Lanes, pc'[u] = "driver", lanes'[l].sw = loc'[u].sw
        PROVE  lanes'[l].ids[loc'[u].img] = 0
    <3>1. u # t BY <1>3, <1>4, <2>2
    <3> QED BY <1>1, <1>4, <2>2, <3>1 DEF LaneWorld, TicketsTrue
  <2> QED BY <2>1, <2>2 DEF TicketsTrue
<1> QED BY <1>3, <1>7, <1>8, <1>9, <1>10, <1>11, <1>12 DEF LaneWorld

LEMMA LookupStep ==
    ASSUME TypeOK, LaneWorld, NEW t \in Threads, LaneLookup(t)
    PROVE  LaneWorld' /\ \E p \in PCs, r \in LocalsType : Turn(t, p, r)
<1>1. pc[t] = "lane" /\ UNCHANGED <<primary, lanes, held, owner>> BY DEF LaneLookup, app
<1>2. loc[t] \in LocalsType /\ loc[t].sw # NoSwapchain /\ LocalsFit("lane", loc[t]) /\ ~loc[t].core
  BY <1>1, Typed DEF LaneWorld, LocalsFit, AcquirePCs, PacePCs
<1>3. \A z : LanesOf(z) \in SUBSET Nat /\ LanesOf(z) \subseteq Lanes BY FlexAssumption DEF LanesOf
<1>4. ASSUME NEW l \in Lanes
      PROVE  \E r \in LocalsType : /\ r = [loc[t] EXCEPT !.lane = l] /\ r.sw = loc[t].sw
                                   /\ r.img = loc[t].img /\ r.lane = l /\ ~r.core
  <2>1. l \in Nat BY FlexAssumption
  <2>2. PICK r : r = [loc[t] EXCEPT !.lane = l] OBVIOUS
  <2>3. r \in LocalsType BY <1>2, <2>1, <2>2 DEF LocalsType
  <2>4. r.sw = loc[t].sw /\ r.img = loc[t].img /\ r.lane = l /\ r.core = loc[t].core
    BY <1>2, <2>1, <2>2 DEF LocalsType
  <2> QED BY <1>2, <2>2, <2>3, <2>4
<1>5. CASE LanesOf(loc[t].sw) # {}
  <2>1. PICK l \in Lanes : l = Min(LanesOf(loc[t].sw)) /\ lanes[l].sw = loc[t].sw
    BY <1>3, <1>5, MinIn DEF LanesOf
  <2>2. PICK r \in LocalsType : /\ r = [loc[t] EXCEPT !.lane = l] /\ r.sw = loc[t].sw
                                /\ r.img = loc[t].img /\ r.lane = l /\ ~r.core
    BY <1>4
  <2>3. Turn(t, "primary", r) /\ create_gate' = create_gate
    BY <1>5, <2>1, <2>2 DEF LaneLookup, Goto, Locals, Turn
  <2>4. "primary" \in PCs BY DEF PCs, LanePCs
  <2>5. LocalsFit("primary", r) /\ HasLane("primary", r)
    BY <1>2, <2>1, <2>2 DEF LocalsFit, HasLane, Acquires, AcquirePCs, LanePCs, PacePCs
  <2>6. Quiet(t, "primary", r) BY <1>1, <2>2, <2>3, <2>4, <2>5, QuietTurn
  <2> QED BY <2>3, <2>4, <2>6, QuietStep
<1>6. CASE LanesOf(loc[t].sw) = {} /\ (create_gate \/ LanesOf(NoSwapchain) = {})
  <2>1. Return(t) /\ create_gate' = create_gate BY <1>6 DEF LaneLookup
  <2>2. Quiet(t, "idle", NoLocals) BY <1>1, <2>1, QuietReturn
  <2> QED BY <2>2, QuietStep, Returned, Blank DEF Quiet
<1>7. CASE LanesOf(loc[t].sw) = {} /\ ~create_gate /\ LanesOf(NoSwapchain) # {}
  <2>1. PICK l \in Lanes : l = Min(LanesOf(NoSwapchain)) /\ lanes[l].sw = NoSwapchain
    BY <1>3, <1>7, MinIn DEF LanesOf
  <2>2. PICK r \in LocalsType : /\ r = [loc[t] EXCEPT !.lane = l] /\ r.sw = loc[t].sw
                                /\ r.img = loc[t].img /\ r.lane = l /\ ~r.core
    BY <1>4
  <2>3. Turn(t, "create", r) /\ create_gate' = TRUE
    BY <1>7, <2>1, <2>2 DEF LaneLookup, Goto, Locals, Turn
  <2>4. "create" \in PCs BY DEF PCs
  <2>5. /\ pc'[t] = "create" /\ loc'[t] = r
        /\ \A u \in Threads : u # t => pc'[u] = pc[u] /\ loc'[u] = loc[u]
    BY <2>3, <2>4, Turned
  <2>6. LocalsFit(pc[t], loc[t])' /\ HasLane(pc[t], loc[t])'
    BY <1>1, <1>2, <2>2, <2>5 DEF LocalsFit, HasLane, Acquires, AcquirePCs, LanePCs, PacePCs
  <2>7. ASSUME NEW u \in Threads, u # t PROVE LocalsFit(pc[u], loc[u])' /\ HasLane(pc[u], loc[u])'
    <3>1. Acquires(pc[u], loc[u]) => loc[u].img \in held[loc[u].sw] BY DEF LaneWorld, LocalsFit
    <3> QED BY <1>1, <2>3, <2>4, <2>7, <3>1, OthersKeep
  <2>8. \A u \in Threads : u # t => pc'[u] # "create" BY <1>7, <2>5 DEF LaneWorld, Creating
  <2>9. \A u \in Threads : Creating(u)'
    <3>1. \A m \in Lanes : lanes[m].sw # loc[t].sw BY <1>7 DEF LanesOf
    <3>2. ASSUME NEW u \in Threads, u # t PROVE Creating(u)' BY <2>8, <3>2 DEF Creating
    <3>3. Creating(t)' BY <1>1, <2>1, <2>2, <2>3, <2>5, <2>8, <3>1 DEF Creating, Lane
    <3> QED BY <3>2, <3>3
  <2>10. Serialised' BY <1>1, <2>2, <2>3, <2>4, SerialKeeps
  <2>11. OneLanePerSwapchain' BY <1>1 DEF LaneWorld, OneLanePerSwapchain
  <2>12. TicketsTrue'
    <3>1. \A u \in Threads : pc'[u] = "driver" => u # t BY <2>5
    <3> QED BY <1>1, <2>5, <3>1 DEF LaneWorld, TicketsTrue
  <2> QED BY <2>3, <2>4, <2>6, <2>7, <2>9, <2>10, <2>11, <2>12 DEF LaneWorld
<1> QED BY <1>5, <1>6, <1>7

LEMMA CreateStep ==
    ASSUME TypeOK, LaneWorld, NEW t \in Threads, LaneCreate(t)
    PROVE  /\ LaneWorld' /\ lanes' \in [Lanes -> LaneType]
           /\ \E p \in PCs, r \in LocalsType : Turn(t, p, r)
<1>1. pc[t] = "create" /\ UNCHANGED <<primary, held, owner>> /\ create_gate' = FALSE
  BY DEF LaneCreate, app
<1>2. /\ loc[t] \in LocalsType /\ loc[t].sw # NoSwapchain /\ ~loc[t].core /\ loc[t].lane \in Lanes
      /\ loc[t].img \in Images /\ loc[t].img \in held[loc[t].sw]
  BY <1>1, Typed DEF LaneWorld, LocalsFit, Acquires, AcquirePCs, PacePCs
<1>3. PICK l \in Lanes : l = loc[t].lane BY <1>2
<1>4. /\ lanes[l].sw = NoSwapchain /\ \A m \in Lanes : lanes[m].sw # loc[t].sw
      /\ \A u \in Threads : pc[u] = "create" => u = t
  BY <1>1, <1>3 DEF LaneWorld, Creating, Lane
<1>5. PICK x : x = [FreeLane EXCEPT !.sw = loc[t].sw] OBVIOUS
<1>6. x \in LaneType /\ x.sw = loc[t].sw /\ \A i \in Images : x.ids[i] = 0
  BY <1>2, <1>5, Blank DEF LaneType, FreeLane, LocalsType
<1>7. lanes' = [lanes EXCEPT ![l] = x] BY <1>3, <1>5 DEF LaneCreate, SetLane
<1>8. /\ lanes' \in [Lanes -> LaneType] /\ lanes'[l] = x
      /\ \A m \in Lanes : m # l => lanes'[m] = lanes[m]
  BY <1>6, <1>7, OneLane
<1>9. Turn(t, "primary", loc[t]) /\ "primary" \in PCs
  BY DEF LaneCreate, Goto, Turn, TypeOK, PCs, LanePCs
<1>10. /\ pc'[t] = "primary" /\ loc'[t] = loc[t]
       /\ \A u \in Threads : u # t => pc'[u] = pc[u] /\ loc'[u] = loc[u]
  BY <1>2, <1>9, Turned
<1>11. LocalsFit(pc[t], loc[t])' /\ HasLane(pc[t], loc[t])'
  BY <1>1, <1>2, <1>3, <1>6, <1>8, <1>10
     DEF LocalsFit, HasLane, Acquires, AcquirePCs, LanePCs, PacePCs
<1>12. ASSUME NEW u \in Threads, u # t PROVE LocalsFit(pc[u], loc[u])' /\ HasLane(pc[u], loc[u])'
  <2>1. Acquires(pc[u], loc[u]) => loc[u].img \in held[loc[u].sw] /\ loc[u].sw # NoSwapchain
    BY DEF LaneWorld, LocalsFit, Acquires
  <2>2. Acquires(pc[u], loc[u]) =>
          \A m \in Lanes : lanes[m].sw = loc[u].sw => lanes'[m].sw = lanes[m].sw
    BY <1>4, <1>8, <2>1
  <2> QED BY <1>1, <1>2, <1>9, <1>12, <2>1, <2>2, OthersKeep
<1>13. \A u \in Threads : Creating(u)' BY <1>4, <1>10 DEF Creating
<1>14. Serialised' BY <1>1, <1>2, <1>9, SerialKeeps
<1>15. OneLanePerSwapchain' BY <1>4, <1>6, <1>8 DEF LaneWorld, OneLanePerSwapchain
<1>16. TicketsTrue'
  <2>1. ASSUME NEW m \in Lanes, NEW i \in Images, lanes'[m].sw # NoSwapchain, lanes'[m].ids[i] # 0
        PROVE  i \in held'[lanes'[m].sw] /\ lanes'[m].ids[i] = owner'[lanes'[m].sw][i]
    <3>1. m # l /\ lanes'[m] = lanes[m] BY <1>6, <1>8, <2>1
    <3> QED BY <1>1, <2>1, <3>1 DEF LaneWorld, TicketsTrue
  <2>2. ASSUME NEW u \in Threads, NEW m \in Lanes, pc'[u] = "driver", lanes'[m].sw = loc'[u].sw
        PROVE  lanes'[m].ids[loc'[u].img] = 0
    <3>1. u # t /\ pc[u] = "driver" /\ loc'[u] = loc[u] BY <1>10, <2>2
    <3>2. loc[u].img \in Images BY <3>1 DEF LaneWorld, LocalsFit
    <3> QED BY <1>6, <1>8, <2>2, <3>1, <3>2 DEF LaneWorld, TicketsTrue
  <2> QED BY <2>1, <2>2 DEF TicketsTrue
<1> QED BY <1>2, <1>8, <1>9, <1>11, <1>12, <1>13, <1>14, <1>15, <1>16 DEF LaneWorld

LEMMA CasStep ==
    ASSUME TypeOK, LaneWorld, NEW t \in Threads, PrimaryCas(t)
    PROVE  /\ LaneWorld' /\ primary' \in Swapchains \cup {NoSwapchain}
           /\ \E p \in PCs, r \in LocalsType : Turn(t, p, r)
<1>1. /\ pc[t] = "cas" /\ UNCHANGED <<lanes, create_gate, held, owner>>
      /\ primary' = IF primary = NoSwapchain THEN loc[t].sw ELSE primary
  BY DEF PrimaryCas, app
<1>2. /\ loc[t] \in LocalsType /\ loc[t].sw # NoSwapchain /\ loc[t].sw \in Swapchains
      /\ loc[t].lane \in Lanes /\ lanes[loc[t].lane].sw = loc[t].sw
      /\ loc[t].img \in Images /\ loc[t].img \in held[loc[t].sw]
  BY <1>1, Typed, LocalParts DEF LaneWorld, LocalsFit, HasLane, Acquires, AcquirePCs, LanePCs
<1>3. PICK r : r = [loc[t] EXCEPT !.core = (primary' = loc[t].sw)] OBVIOUS
<1>4. /\ r \in LocalsType /\ r.sw = loc[t].sw /\ r.img = loc[t].img /\ r.lane = loc[t].lane
      /\ r.core = (primary' = loc[t].sw)
  BY <1>2, <1>3 DEF LocalsType
<1>5. PICK p : p = IF primary' = loc[t].sw THEN "resolve" ELSE "mode" OBVIOUS
<1>6. Turn(t, p, r) BY <1>3, <1>5 DEF PrimaryCas, Goto, Locals, Turn
<1>7. p \in PCs /\ p \in {"resolve", "mode"} BY <1>5 DEF PCs, LanePCs
<1>8. /\ pc'[t] = p /\ loc'[t] = r
      /\ \A u \in Threads : u # t => pc'[u] = pc[u] /\ loc'[u] = loc[u]
  BY <1>4, <1>6, <1>7, Turned
<1>9. LocalsFit(pc[t], loc[t])' /\ HasLane(pc[t], loc[t])'
  BY <1>1, <1>2, <1>4, <1>7, <1>8
     DEF LocalsFit, HasLane, Acquires, AcquirePCs, LanePCs, PacePCs
<1>10. ASSUME NEW u \in Threads, u # t PROVE LocalsFit(pc[u], loc[u])' /\ HasLane(pc[u], loc[u])'
  <2>1. /\ Acquires(pc[u], loc[u]) => loc[u].img \in held[loc[u].sw]
        /\ loc[u].core => primary # NoSwapchain
    BY DEF LaneWorld, LocalsFit
  <2> QED BY <1>1, <1>4, <1>6, <1>7, <1>10, <2>1, OthersKeep
<1>11. \A u \in Threads : Creating(u)' BY <1>1, <1>4, <1>6, <1>7, CreatorKeeps
<1>12. Serialised' BY <1>1, <1>4, <1>6, <1>7, SerialKeeps
<1>13. OneLanePerSwapchain' BY <1>1 DEF LaneWorld, OneLanePerSwapchain
<1>14. TicketsTrue'
  <2>1. \A u \in Threads : pc'[u] = "driver" => u # t BY <1>7, <1>8
  <2> QED BY <1>1, <1>8, <2>1 DEF LaneWorld, TicketsTrue
<1>15. primary' \in Swapchains \cup {NoSwapchain} BY <1>1, <1>2 DEF TypeOK
<1> QED BY <1>4, <1>6, <1>7, <1>9, <1>10, <1>11, <1>12, <1>13, <1>14, <1>15 DEF LaneWorld

LEMMA StampStep ==
    ASSUME TypeOK, LaneWorld, NEW t \in Threads, StampImage(t)
    PROVE  /\ LaneWorld' /\ lanes' \in [Lanes -> LaneType]
           /\ owner' \in [Swapchains -> [Images -> FrameIds]]
           /\ \E p \in PCs, r \in LocalsType : Turn(t, p, r)
<1>1. pc[t] = "stamp" /\ UNCHANGED <<primary, create_gate, held>> /\ Return(t) BY DEF StampImage
<1>2. PICK l \in Lanes, s \in Swapchains, i \in Images, f \in FrameIds :
        /\ l = loc[t].lane /\ s = loc[t].sw /\ i = loc[t].img /\ f = loc[t].frame
        /\ lanes[l].sw = s /\ i \in held[s]
  <2>1. /\ loc[t].sw # NoSwapchain /\ loc[t].lane \in Lanes /\ lanes[loc[t].lane].sw = loc[t].sw
        /\ loc[t].img \in Images /\ loc[t].img \in held[loc[t].sw]
    BY <1>1 DEF LaneWorld, LocalsFit, HasLane, Acquires, AcquirePCs, LanePCs
  <2> QED BY <2>1, Typed, LocalParts
<1>3. s # NoSwapchain BY FlexAssumption
<1>4. PICK x : x = [lanes[l] EXCEPT !.eps[i] = epoch, !.ids[i] = f] OBVIOUS
<1>5. lanes' = [lanes EXCEPT ![l] = x] /\ owner' = [owner EXCEPT ![s][i] = f]
  BY <1>2, <1>4 DEF StampImage, SetLane, Lane
<1>6. /\ lanes[l] \in LaneType /\ epoch \in Nat
      /\ lanes[l].ids \in [Images -> FrameIds] /\ lanes[l].eps \in [Images -> Nat]
  BY Typed, LaneParts
<1>7. PICK I \in [Images -> FrameIds], E \in [Images -> Nat] :
        I = [lanes[l].ids EXCEPT ![i] = f] /\ E = [lanes[l].eps EXCEPT ![i] = epoch]
  BY <1>6
<1>8. x = [lanes[l] EXCEPT !.eps = E, !.ids = I] BY <1>4, <1>6, <1>7 DEF LaneType
<1>9. x \in LaneType /\ x.sw = s /\ x.ids = I BY <1>2, <1>6, <1>7, <1>8 DEF LaneType
<1>10. I[i] = f /\ \A j \in Images : j # i => I[j] = lanes[l].ids[j] BY <1>6, <1>7
<1>11. /\ lanes' \in [Lanes -> LaneType] /\ lanes'[l] = x
       /\ \A m \in Lanes : m # l => lanes'[m] = lanes[m]
  BY <1>5, <1>9, OneLane
<1>12. /\ owner' \in [Swapchains -> [Images -> FrameIds]] /\ owner'[s][i] = f
       /\ \A z \in Swapchains, j \in Images : z # s \/ j # i => owner'[z][j] = owner[z][j]
  BY <1>5 DEF TypeOK
<1>13. Turn(t, "idle", NoLocals) /\ NoLocals.sw = NoSwapchain BY <1>1 DEF Return, Goto, Turn, NoLocals
<1>14. /\ pc'[t] = "idle" /\ loc'[t] = NoLocals
       /\ \A u \in Threads : u # t => pc'[u] = pc[u] /\ loc'[u] = loc[u]
  BY <1>13, Turned, Returned, Blank
<1>15. \A m \in Lanes : lanes'[m].sw = lanes[m].sw BY <1>2, <1>9, <1>11
<1>16. LocalsFit(pc[t], loc[t])' /\ HasLane(pc[t], loc[t])'
  BY <1>14 DEF LocalsFit, HasLane, Acquires, AcquirePCs, LanePCs, PacePCs, NoLocals
<1>17. ASSUME NEW u \in Threads, u # t PROVE LocalsFit(pc[u], loc[u])' /\ HasLane(pc[u], loc[u])'
  <2>1. Acquires(pc[u], loc[u]) => loc[u].img \in held[loc[u].sw] BY DEF LaneWorld, LocalsFit
  <2> QED BY <1>1, <1>13, <1>15, <1>17, <2>1, OthersKeep, Returned, Blank
<1>18. \A u \in Threads : Creating(u)' BY <1>1, <1>13, <1>15, CreatorKeeps, Returned, Blank
<1>19. Serialised' BY <1>13, SerialKeeps, Returned, Blank
<1>20. OneLanePerSwapchain' BY <1>15 DEF LaneWorld, OneLanePerSwapchain
<1>21. TicketsTrue'
  <2>1. ASSUME NEW m \in Lanes, NEW j \in Images, lanes'[m].sw # NoSwapchain, lanes'[m].ids[j] # 0
        PROVE  j \in held'[lanes'[m].sw] /\ lanes'[m].ids[j] = owner'[lanes'[m].sw][j]
    <3>1. CASE m = l /\ j = i BY <1>1, <1>2, <1>9, <1>10, <1>11, <1>12, <3>1
    <3>2. CASE m # l \/ j # i
      <4>1. lanes'[m].ids[j] = lanes[m].ids[j] BY <1>9, <1>10, <1>11, <3>2
      <4>2. j \in held[lanes[m].sw] /\ lanes[m].ids[j] = owner[lanes[m].sw][j]
        BY <1>15, <2>1, <4>1 DEF LaneWorld, TicketsTrue
      <4>3. lanes[m].sw \in Swapchains BY <1>15, <2>1, Typed, LaneParts
      <4>4. lanes[m].sw # s \/ j # i BY <1>2, <1>3, <3>2 DEF LaneWorld, OneLanePerSwapchain
      <4> QED BY <1>1, <1>12, <1>15, <4>1, <4>2, <4>3, <4>4
    <3> QED BY <3>1, <3>2
  <2>2. ASSUME NEW u \in Threads, NEW m \in Lanes, pc'[u] = "driver", lanes'[m].sw = loc'[u].sw
        PROVE  lanes'[m].ids[loc'[u].img] = 0
    <3>1. u # t /\ pc[u] = "driver" /\ loc'[u] = loc[u] BY <1>14, <2>2
    <3>2. loc[u].sw # s BY <1>1, <1>2, <1>3, <3>1, Alone
    <3>3. m # l BY <1>2, <1>15, <2>2, <3>1, <3>2
    <3> QED BY <1>11, <2>2, <3>1, <3>3 DEF LaneWorld, TicketsTrue
  <2> QED BY <2>1, <2>2 DEF TicketsTrue
<1> QED BY <1>11, <1>12, <1>13, <1>16, <1>17, <1>18, <1>19, <1>20, <1>21, Returned, Blank DEF LaneWorld

LEMMA PresentStep ==
    ASSUME TypeOK, LaneWorld, NEW t \in Threads, NEW s \in Swapchains, NEW i \in Images,
           BeginPresent(t, s, i)
    PROVE  /\ LaneWorld' /\ lanes' \in [Lanes -> LaneType]
           /\ held' \in [Swapchains -> SUBSET Images]
           /\ \E p \in PCs, r \in LocalsType : Turn(t, p, r)
<1>1. /\ pc[t] = "idle" /\ ~Busy(s) /\ i \in held[s] /\ UNCHANGED <<primary, create_gate, owner>>
      /\ lanes' = [l \in Lanes |->
                    IF l \in LanesOf(s) /\ lanes[l].ids[i] # 0
                    THEN [lanes[l] EXCEPT !.ids[i] = 0, !.eps[i] = 0] ELSE lanes[l]]
  BY DEF BeginPresent, Enter
<1>2. s # NoSwapchain BY FlexAssumption
<1>3. loc[t] = NoLocals BY <1>1 DEF LaneWorld, LocalsFit
<1>4. ASSUME NEW l \in Lanes
      PROVE  /\ lanes'[l] \in LaneType /\ lanes'[l].sw = lanes[l].sw
             /\ \A j \in Images : lanes'[l].ids[j] \in {0, lanes[l].ids[j]}
             /\ lanes[l].sw = s => lanes'[l].ids[i] = 0
  <2>1. /\ lanes[l] \in LaneType
        /\ lanes[l].ids \in [Images -> FrameIds] /\ lanes[l].eps \in [Images -> Nat]
    BY Typed, LaneParts
  <2>2. CASE lanes[l].sw = s /\ lanes[l].ids[i] # 0
    <3>1. PICK I \in [Images -> FrameIds], E \in [Images -> Nat] :
            I = [lanes[l].ids EXCEPT ![i] = 0] /\ E = [lanes[l].eps EXCEPT ![i] = 0]
      BY <2>1, Blank
    <3>2. lanes'[l] = [lanes[l] EXCEPT !.ids = I, !.eps = E]
      BY <1>1, <2>1, <2>2, <3>1 DEF LanesOf, LaneType
    <3>3. lanes'[l] \in LaneType /\ lanes'[l].sw = lanes[l].sw /\ lanes'[l].ids = I
      BY <2>1, <3>1, <3>2 DEF LaneType
    <3>4. I[i] = 0 /\ \A j \in Images : j # i => I[j] = lanes[l].ids[j] BY <2>1, <3>1
    <3> QED BY <3>3, <3>4
  <2>3. CASE ~(lanes[l].sw = s /\ lanes[l].ids[i] # 0)
    <3>1. lanes'[l] = lanes[l] BY <1>1, <2>3 DEF LanesOf
    <3> QED BY <2>1, <2>3, <3>1
  <2> QED BY <2>2, <2>3
<1>5. lanes' \in [Lanes -> LaneType] BY <1>1, <1>4
<1>6. PICK p \in PCs, r \in LocalsType :
        /\ Turn(t, p, r) /\ r.core = FALSE
        /\ \/ /\ p = "driver" /\ held' = held /\ r.sw = s /\ r.img = i /\ r.lane \in Lanes
              /\ r.frame = r.own
           \/ p = "idle" /\ r = NoLocals /\ held' = [held EXCEPT ![s] = @ \ {i}]
  <2>1. CASE \E l \in LanesOf(s) : lanes[l].ids[i] # 0 /\ lanes[l].eps[i] # 0
                                   /\ primary \in {NoSwapchain, s}
    <3>1. PICK l \in LanesOf(s) :
            /\ Goto(t, "driver") /\ UNCHANGED held
            /\ Locals(t, [loc[t] EXCEPT !.sw = s, !.img = i, !.lane = l, !.frame = lanes[l].ids[i],
                                        !.ep = lanes[l].eps[i], !.own = owner[s][i]])
      BY <2>1 DEF BeginPresent
    <3>2. l \in Lanes /\ l \in Nat /\ lanes[l].sw = s BY FlexAssumption DEF LanesOf
    <3>3. PICK f \in FrameIds, e \in Nat, o \in FrameIds :
            f = lanes[l].ids[i] /\ e = lanes[l].eps[i] /\ o = owner[s][i]
      BY <3>2, Typed, LaneParts
    <3>4. f = o
      <4>1. lanes[l].ids[i] # 0 BY <1>2, <2>1, <3>2 DEF LanesOf, LaneWorld, OneLanePerSwapchain
      <4> QED BY <1>2, <3>2, <3>3, <4>1 DEF LaneWorld, TicketsTrue
    <3>5. PICK r : r = [NoLocals EXCEPT !.sw = s, !.img = i, !.lane = l, !.frame = f, !.ep = e,
                                        !.own = o]
      OBVIOUS
    <3>6. r \in LocalsType BY <3>2, <3>3, <3>5, Blank DEF LocalsType
    <3>7. /\ r.core = FALSE /\ r.sw = s /\ r.img = i /\ r.lane = l /\ r.frame = f /\ r.own = o
      BY <3>5 DEF NoLocals
    <3>8. Turn(t, "driver", r) BY <1>3, <3>1, <3>3, <3>5 DEF Turn, Goto, Locals
    <3>9. "driver" \in PCs BY DEF PCs
    <3> QED BY <3>1, <3>2, <3>4, <3>6, <3>7, <3>8, <3>9
  <2>2. CASE ~\E l \in LanesOf(s) : lanes[l].ids[i] # 0 /\ lanes[l].eps[i] # 0
                                    /\ primary \in {NoSwapchain, s}
    <3>1. held' = [held EXCEPT ![s] = @ \ {i}] /\ pc' = pc /\ loc' = loc BY <2>2 DEF BeginPresent
    <3>2. Turn(t, "idle", NoLocals) BY <1>1, <1>3, <3>1 DEF Turn, TypeOK
    <3>3. NoLocals.core = FALSE BY DEF NoLocals
    <3> QED BY <3>1, <3>2, <3>3, Returned, Blank
  <2> QED BY <2>1, <2>2
<1>7. /\ pc'[t] = p /\ loc'[t] = r
      /\ \A u \in Threads : u # t => pc'[u] = pc[u] /\ loc'[u] = loc[u]
  BY <1>6, Turned
<1>8. /\ held' \in [Swapchains -> SUBSET Images]
      /\ \A z \in Swapchains : z # s => held'[z] = held[z]
      /\ \A j \in held[s] : j # i => j \in held'[s]
      /\ p = "driver" => held' = held
  BY <1>6 DEF TypeOK
<1>9. LocalsFit(pc[t], loc[t])' /\ HasLane(pc[t], loc[t])'
  <2>1. CASE p = "idle" /\ r = NoLocals
    BY <1>7, <2>1 DEF LocalsFit, HasLane, Acquires, AcquirePCs, LanePCs, PacePCs, NoLocals
  <2>2. CASE p = "driver" /\ r.sw = s /\ r.img = i /\ r.lane \in Lanes /\ r.frame = r.own
    BY <1>2, <1>6, <1>7, <2>2 DEF LocalsFit, HasLane, Acquires, AcquirePCs, LanePCs, PacePCs
  <2> QED BY <1>6, <2>1, <2>2
<1>10. ASSUME NEW u \in Threads, u # t PROVE LocalsFit(pc[u], loc[u])' /\ HasLane(pc[u], loc[u])'
  <2>1. Acquires(pc[u], loc[u]) => /\ loc[u].img \in held[loc[u].sw] /\ loc[u].sw \in Swapchains
                                   /\ pc[u] \notin {"complete", "publish"}
    BY Typed, LocalParts DEF LaneWorld, LocalsFit, Acquires, AcquirePCs, LanePCs, PacePCs
  <2>2. Acquires(pc[u], loc[u]) => loc[u].sw # s BY <1>1, <2>1 DEF Busy
  <2> QED BY <1>1, <1>4, <1>6, <1>8, <1>10, <2>1, <2>2, OthersKeep
<1>11. \A u \in Threads : Creating(u)' BY <1>1, <1>4, <1>6, CreatorKeeps
<1>12. Serialised'
  <2>1. CASE p = "idle" /\ r = NoLocals
    <3>1. NoLocals.sw = NoSwapchain BY DEF NoLocals
    <3> QED BY <1>6, <2>1, <3>1, SerialKeeps
  <2>2. CASE p = "driver" /\ r.sw = s BY <1>1, <1>2, <1>6, <2>2, SerialEnters
  <2> QED BY <1>6, <2>1, <2>2
<1>13. OneLanePerSwapchain' BY <1>4 DEF LaneWorld, OneLanePerSwapchain
<1>14. TicketsTrue'
  <2>1. ASSUME NEW l \in Lanes, NEW j \in Images, lanes'[l].sw # NoSwapchain, lanes'[l].ids[j] # 0
        PROVE  j \in held'[lanes'[l].sw] /\ lanes'[l].ids[j] = owner'[lanes'[l].sw][j]
    <3>1. lanes'[l].ids[j] = lanes[l].ids[j] /\ lanes'[l].sw = lanes[l].sw BY <1>4, <2>1
    <3>2. j \in held[lanes[l].sw] /\ lanes[l].ids[j] = owner[lanes[l].sw][j]
      BY <2>1, <3>1 DEF LaneWorld, TicketsTrue
    <3>3. lanes[l].sw \in Swapchains BY <2>1, <3>1, Typed, LaneParts
    <3>4. lanes[l].sw # s \/ j # i BY <1>4, <2>1
    <3> QED BY <1>1, <1>8, <3>1, <3>2, <3>3, <3>4
  <2>2. ASSUME NEW u \in Threads, NEW l \in Lanes, pc'[u] = "driver", lanes'[l].sw = loc'[u].sw
        PROVE  lanes'[l].ids[loc'[u].img] = 0
    <3>1. CASE u = t BY <1>4, <1>6, <1>7, <2>2, <3>1
    <3>2. CASE u # t
      <4>1. pc[u] = "driver" /\ loc'[u] = loc[u] BY <1>7, <2>2, <3>2
      <4>2. loc[u].img \in Images BY <4>1 DEF LaneWorld, LocalsFit
      <4>3. lanes[l].ids[loc[u].img] = 0 BY <1>4, <2>2, <4>1 DEF LaneWorld, TicketsTrue
      <4> QED BY <1>4, <4>1, <4>2, <4>3
    <3> QED BY <3>1, <3>2
  <2> QED BY <2>1, <2>2 DEF TicketsTrue
<1> QED BY <1>5, <1>6, <1>8, <1>9, <1>10, <1>11, <1>12, <1>13, <1>14 DEF LaneWorld

LEMMA DriverStep ==
    ASSUME TypeOK, LaneWorld, NEW t \in Threads, DriverPresent(t)
    PROVE  /\ LaneWorld' /\ held' \in [Swapchains -> SUBSET Images]
           /\ \E p \in PCs, r \in LocalsType : Turn(t, p, r)
<1>1. pc[t] = "driver" /\ UNCHANGED <<primary, lanes, create_gate, owner>> BY DEF DriverPresent, table
<1>2. PICK s \in Swapchains, i \in Images : s = loc[t].sw /\ i = loc[t].img
  BY <1>1, Typed, LocalParts DEF LaneWorld, LocalsFit
<1>3. held' = [held EXCEPT ![s] = @ \ {i}] BY <1>2 DEF DriverPresent
<1>4. /\ held' \in [Swapchains -> SUBSET Images]
      /\ \A z \in Swapchains : z # s => held'[z] = held[z]
      /\ \A j \in held[s] : j # i => j \in held'[s]
  BY <1>3 DEF TypeOK
<1>5. s # NoSwapchain BY FlexAssumption
<1>6. Turn(t, "complete", loc[t]) /\ "complete" \in PCs /\ loc[t] \in LocalsType
  BY Typed DEF DriverPresent, Goto, Turn, TypeOK, PCs
<1>7. /\ pc'[t] = "complete" /\ loc'[t] = loc[t]
      /\ \A u \in Threads : u # t => pc'[u] = pc[u] /\ loc'[u] = loc[u]
  BY <1>6, Turned
<1>8. LocalsFit(pc[t], loc[t])' /\ HasLane(pc[t], loc[t])'
  <2>1. LocalsFit("driver", loc[t]) BY <1>1 DEF LaneWorld
  <2> QED BY <1>1, <1>7, <2>1 DEF LocalsFit, HasLane, Acquires, AcquirePCs, LanePCs, PacePCs
<1>9. ASSUME NEW u \in Threads, u # t PROVE LocalsFit(pc[u], loc[u])' /\ HasLane(pc[u], loc[u])'
  <2>1. Acquires(pc[u], loc[u]) => loc[u].img \in held[loc[u].sw] /\ loc[u].sw \in Swapchains
    BY Typed, LocalParts DEF LaneWorld, LocalsFit, Acquires
  <2>2. Acquires(pc[u], loc[u]) => loc[u].sw # s BY <1>1, <1>2, <1>5, <1>9, Alone
  <2> QED BY <1>1, <1>4, <1>6, <1>9, <2>1, <2>2, OthersKeep
<1>10. \A u \in Threads : Creating(u)' BY <1>1, <1>6, CreatorKeeps
<1>11. Serialised' BY <1>1, <1>6, SerialKeeps
<1>12. OneLanePerSwapchain' BY <1>1 DEF LaneWorld, OneLanePerSwapchain
<1>13. TicketsTrue'
  <2>1. ASSUME NEW l \in Lanes, NEW j \in Images, lanes'[l].sw # NoSwapchain, lanes'[l].ids[j] # 0
        PROVE  j \in held'[lanes'[l].sw] /\ lanes'[l].ids[j] = owner'[lanes'[l].sw][j]
    <3>1. j \in held[lanes[l].sw] /\ lanes[l].ids[j] = owner[lanes[l].sw][j]
      BY <1>1, <2>1 DEF LaneWorld, TicketsTrue
    <3>2. lanes[l].sw \in Swapchains BY <1>1, <2>1, Typed, LaneParts
    <3>3. lanes[l].sw # s \/ j # i BY <1>1, <1>2, <2>1 DEF LaneWorld, TicketsTrue
    <3> QED BY <1>1, <1>4, <3>1, <3>2, <3>3
  <2>2. ASSUME NEW u \in Threads, NEW l \in Lanes, pc'[u] = "driver", lanes'[l].sw = loc'[u].sw
        PROVE  lanes'[l].ids[loc'[u].img] = 0
    <3>1. u # t BY <1>7, <2>2
    <3> QED BY <1>1, <1>7, <2>2, <3>1 DEF LaneWorld, TicketsTrue
  <2> QED BY <2>1, <2>2 DEF TicketsTrue
<1> QED BY <1>4, <1>6, <1>8, <1>9, <1>10, <1>11, <1>12, <1>13 DEF LaneWorld

LEMMA UnpublishStep ==
    ASSUME TypeOK, LaneWorld, NEW t \in Threads, NEW s \in Swapchains, UnpublishLane(t, s)
    PROVE  /\ LaneWorld' /\ lanes' \in [Lanes -> LaneType]
           /\ held' \in [Swapchains -> SUBSET Images]
           /\ \E p \in PCs, r \in LocalsType : Turn(t, p, r)
<1>1. /\ pc[t] = "idle" /\ ~InUse(s) /\ LanesOf(s) # {} /\ UNCHANGED <<primary, create_gate, owner>>
      /\ held' = [held EXCEPT ![s] = {}]
      /\ lanes' = [l \in Lanes |-> IF l \in LanesOf(s) THEN [lanes[l] EXCEPT !.sw = NoSwapchain]
                                   ELSE lanes[l]]
  BY DEF UnpublishLane, Enter
<1>2. s # NoSwapchain /\ ~Busy(s) /\ \A u \in Threads : loc[u].sw # s
  BY <1>1, FlexAssumption DEF Busy, InUse
<1>3. loc[t] = NoLocals BY <1>1 DEF LaneWorld, LocalsFit
<1>4. ASSUME NEW l \in Lanes
      PROVE  /\ lanes'[l] \in LaneType /\ lanes'[l].ids = lanes[l].ids
             /\ lanes'[l].sw = IF lanes[l].sw = s THEN NoSwapchain ELSE lanes[l].sw
  <2>1. lanes[l] \in LaneType BY Typed
  <2>2. CASE lanes[l].sw = s
    <3>1. lanes'[l] = [lanes[l] EXCEPT !.sw = NoSwapchain] BY <1>1, <2>2 DEF LanesOf
    <3> QED BY <2>1, <2>2, <3>1 DEF LaneType
  <2>3. CASE lanes[l].sw # s
    <3>1. lanes'[l] = lanes[l] BY <1>1, <2>3 DEF LanesOf
    <3> QED BY <2>1, <2>3, <3>1
  <2> QED BY <2>2, <2>3
<1>5. lanes' \in [Lanes -> LaneType] BY <1>1, <1>4
<1>6. /\ held' \in [Swapchains -> SUBSET Images]
      /\ \A z \in Swapchains : z # s => held'[z] = held[z]
  BY <1>1 DEF TypeOK
<1>7. PICK k \in Lanes : k = Min(LanesOf(s)) /\ k \in Nat
  <2>1. LanesOf(s) \in SUBSET Nat /\ LanesOf(s) \subseteq Lanes BY FlexAssumption DEF LanesOf
  <2> QED BY <1>1, <2>1, MinIn
<1>8. PICK r : r = [NoLocals EXCEPT !.sw = s, !.lane = k] OBVIOUS
<1>9. r \in LocalsType /\ r.sw = s /\ r.lane = k /\ r.core = FALSE
  BY <1>7, <1>8, Blank DEF LocalsType, NoLocals
<1>10. Turn(t, "destroy", r) /\ "destroy" \in PCs
  BY <1>3, <1>7, <1>8 DEF UnpublishLane, Goto, Locals, Turn, PCs
<1>11. /\ pc'[t] = "destroy" /\ loc'[t] = r
       /\ \A u \in Threads : u # t => pc'[u] = pc[u] /\ loc'[u] = loc[u]
  BY <1>9, <1>10, Turned
<1>12. LocalsFit(pc[t], loc[t])' /\ HasLane(pc[t], loc[t])'
  BY <1>2, <1>7, <1>9, <1>11 DEF LocalsFit, HasLane, Acquires, AcquirePCs, LanePCs, PacePCs
<1>13. ASSUME NEW u \in Threads, u # t PROVE LocalsFit(pc[u], loc[u])' /\ HasLane(pc[u], loc[u])'
  <2>1. Acquires(pc[u], loc[u]) => loc[u].img \in held[loc[u].sw] /\ loc[u].sw \in Swapchains
    BY Typed, LocalParts DEF LaneWorld, LocalsFit, Acquires
  <2> QED BY <1>1, <1>2, <1>4, <1>6, <1>9, <1>10, <1>13, <2>1, OthersKeep
<1>14. \A u \in Threads : Creating(u)' BY <1>1, <1>4, <1>9, <1>10, CreatorKeeps
<1>15. Serialised' BY <1>1, <1>2, <1>9, <1>10, SerialEnters
<1>16. OneLanePerSwapchain' BY <1>4 DEF LaneWorld, OneLanePerSwapchain
<1>17. TicketsTrue'
  <2>1. ASSUME NEW l \in Lanes, NEW j \in Images, lanes'[l].sw # NoSwapchain, lanes'[l].ids[j] # 0
        PROVE  j \in held'[lanes'[l].sw] /\ lanes'[l].ids[j] = owner'[lanes'[l].sw][j]
    <3>1. lanes[l].sw # s /\ lanes'[l].sw = lanes[l].sw BY <1>4, <2>1
    <3>2. lanes[l].sw \in Swapchains BY <2>1, <3>1, Typed, LaneParts
    <3> QED BY <1>1, <1>4, <1>6, <2>1, <3>1, <3>2 DEF LaneWorld, TicketsTrue
  <2>2. ASSUME NEW u \in Threads, NEW l \in Lanes, pc'[u] = "driver", lanes'[l].sw = loc'[u].sw
        PROVE  lanes'[l].ids[loc'[u].img] = 0
    <3>1. u # t /\ pc[u] = "driver" /\ loc'[u] = loc[u] BY <1>11, <2>2
    <3>2. loc[u].sw # NoSwapchain BY <3>1 DEF LaneWorld, LocalsFit
    <3>3. lanes[l].sw = loc[u].sw BY <1>4, <2>2, <3>1, <3>2
    <3> QED BY <1>4, <3>1, <3>3 DEF LaneWorld, TicketsTrue
  <2> QED BY <2>1, <2>2 DEF TicketsTrue
<1> QED BY <1>5, <1>6, <1>9, <1>10, <1>12, <1>13, <1>14, <1>15, <1>16, <1>17 DEF LaneWorld

LEMMA ClearStep ==
    ASSUME TypeOK, LaneWorld, NEW t \in Threads, ClearLane(t)
    PROVE  /\ LaneWorld' /\ lanes' \in [Lanes -> LaneType]
           /\ primary' \in Swapchains \cup {NoSwapchain}
           /\ \E p \in PCs, r \in LocalsType : Turn(t, p, r)
<1>1. /\ pc[t] = "destroy" /\ UNCHANGED <<create_gate, held, owner>> /\ Return(t)
      /\ primary' = IF primary = loc[t].sw THEN NoSwapchain ELSE primary
  BY DEF ClearLane, app
<1>2. loc[t].lane \in Lanes /\ loc[t].sw # NoSwapchain BY <1>1 DEF LaneWorld, LocalsFit
<1>3. PICK l \in Lanes : l = loc[t].lane BY <1>2
<1>4. PICK x : x = [FreeLane EXCEPT !.sw = lanes[l].sw] OBVIOUS
<1>5. lanes[l].sw \in Swapchains \cup {NoSwapchain} BY Typed, LaneParts
<1>6. x \in LaneType /\ x.sw = lanes[l].sw /\ \A i \in Images : x.ids[i] = 0
  BY <1>4, <1>5, Blank DEF LaneType, FreeLane
<1>7. lanes' = [lanes EXCEPT ![l] = x] BY <1>3, <1>4 DEF ClearLane, SetLane, Lane
<1>8. /\ lanes' \in [Lanes -> LaneType]
      /\ \A m \in Lanes : /\ lanes'[m].sw = lanes[m].sw
                          /\ \A i \in Images : lanes'[m].ids[i] \in {0, lanes[m].ids[i]}
  BY <1>6, <1>7, LaneShrinks
<1>9. Turn(t, "idle", NoLocals) /\ NoLocals.sw = NoSwapchain BY <1>1 DEF Return, Goto, Turn, NoLocals
<1>10. /\ pc'[t] = "idle" /\ loc'[t] = NoLocals
       /\ \A u \in Threads : u # t => pc'[u] = pc[u] /\ loc'[u] = loc[u]
  BY <1>9, Turned, Returned, Blank
<1>11. LocalsFit(pc[t], loc[t])' /\ HasLane(pc[t], loc[t])'
  BY <1>10 DEF LocalsFit, HasLane, Acquires, AcquirePCs, LanePCs, PacePCs, NoLocals
<1>12. ASSUME NEW u \in Threads, u # t PROVE LocalsFit(pc[u], loc[u])' /\ HasLane(pc[u], loc[u])'
  <2>1. /\ Acquires(pc[u], loc[u]) => loc[u].img \in held[loc[u].sw]
        /\ loc[u].core => loc[u].sw = primary
    BY DEF LaneWorld, LocalsFit
  <2>2. loc[u].core => primary' = primary BY <1>1, <1>2, <1>12, <2>1, Alone
  <2> QED BY <1>1, <1>8, <1>9, <1>12, <2>1, <2>2, OthersKeep, Returned, Blank
<1>13. \A u \in Threads : Creating(u)' BY <1>1, <1>8, <1>9, CreatorKeeps, Returned, Blank
<1>14. Serialised' BY <1>9, SerialKeeps, Returned, Blank
<1>15. OneLanePerSwapchain' BY <1>8 DEF LaneWorld, OneLanePerSwapchain
<1>16. TicketsTrue'
  <2>1. ASSUME NEW m \in Lanes, NEW j \in Images, lanes'[m].sw # NoSwapchain, lanes'[m].ids[j] # 0
        PROVE  j \in held'[lanes'[m].sw] /\ lanes'[m].ids[j] = owner'[lanes'[m].sw][j]
    <3>1. lanes'[m].ids[j] = lanes[m].ids[j] /\ lanes'[m].sw = lanes[m].sw BY <1>8, <2>1
    <3> QED BY <1>1, <2>1, <3>1 DEF LaneWorld, TicketsTrue
  <2>2. ASSUME NEW u \in Threads, NEW m \in Lanes, pc'[u] = "driver", lanes'[m].sw = loc'[u].sw
        PROVE  lanes'[m].ids[loc'[u].img] = 0
    <3>1. u # t /\ pc[u] = "driver" /\ loc'[u] = loc[u] BY <1>10, <2>2
    <3>2. loc[u].img \in Images BY <3>1 DEF LaneWorld, LocalsFit
    <3>3. lanes[m].ids[loc[u].img] = 0 BY <1>8, <2>2, <3>1 DEF LaneWorld, TicketsTrue
    <3> QED BY <1>8, <3>1, <3>2, <3>3
  <2> QED BY <2>1, <2>2 DEF TicketsTrue
<1>17. primary' \in Swapchains \cup {NoSwapchain} BY <1>1 DEF TypeOK
<1> QED BY <1>8, <1>9, <1>11, <1>12, <1>13, <1>14, <1>15, <1>16, <1>17, Returned, Blank DEF LaneWorld

----------------------------------------------------------------------------
(* The samples the ordering gate lets through *)

\* What the gate does with sample n when the last frame let through is v.
Gate(ep, late, n, v) ==
    IF /\ feedback[n].ep = ep
       /\ \/ v = 0
          \/ feedback[n].frame > v /\ n \notin late
    THEN feedback[n].frame ELSE v

\* There is a function that follows the gate from sample to sample.
LEMMA GateRuns ==
    ASSUME TypeOK, NEW ep, NEW late
    PROVE  \E g \in [0 .. Len(feedback) -> FrameIds] :
              /\ g[0] = last_completion
              /\ \A m \in 1 .. Len(feedback) : g[m] = Gate(ep, late, m, g[m - 1])
<1>0. PICK N \in Nat : N = Len(feedback) BY DEF TypeOK
<1>a. \A n \in 1 .. N : feedback[n] \in Samples BY <1>0 DEF TypeOK
<1>b. \A n \in 1 .. N, v \in FrameIds : Gate(ep, late, n, v) \in FrameIds
  BY <1>a DEF Gate, Samples
<1>1. PICK S : S = {n \in 0 .. N : ~\E g \in [0 .. n -> FrameIds] :
                                       g[0] = last_completion /\ \A m \in 1 .. n : g[m] = Gate(ep, late, m, g[m - 1])}
  OBVIOUS
<1>2. S = {}
  <2> SUFFICES ASSUME S # {} PROVE FALSE OBVIOUS
  <2>1. S \in SUBSET Nat BY <1>1
  <2>2. PICK n \in S : \A y \in S : n <= y BY <2>1, Least
  <2>3. n \in 0 .. N BY <1>1
  <2>4. n # 0
    <3> SUFFICES ASSUME n = 0 PROVE FALSE OBVIOUS
    <3>1. PICK g : g = [m \in 0 .. 0 |-> last_completion] OBVIOUS
    <3>2. g \in [0 .. 0 -> FrameIds] /\ g[0] = last_completion BY <3>1 DEF TypeOK
    <3>3. \A m \in 1 .. 0 : g[m] = Gate(ep, late, m, g[m - 1]) OBVIOUS
    <3> QED BY <1>1, <2>2, <3>2, <3>3
  <2>5. n - 1 \in 0 .. N /\ n - 1 \notin S BY <2>2, <2>3, <2>4
  <2>6. PICK g \in [0 .. n - 1 -> FrameIds] : g[0] = last_completion /\ \A m \in 1 .. n - 1 : g[m] = Gate(ep, late, m, g[m - 1])
    BY <1>1, <2>5
  <2>7. PICK h : h = [m \in 0 .. n |-> IF m = n THEN Gate(ep, late, n, g[n - 1]) ELSE g[m]] OBVIOUS
  <2>8. n \in 1 .. N /\ n - 1 \in 0 .. n - 1 BY <2>3, <2>4
  <2>9. Gate(ep, late, n, g[n - 1]) \in FrameIds BY <1>b, <2>6, <2>8
  <2>10. h \in [0 .. n -> FrameIds] BY <2>3, <2>6, <2>7, <2>9
  <2>11. h[0] = last_completion /\ h[n] = Gate(ep, late, n, g[n - 1]) /\ \A m \in 0 .. n - 1 : h[m] = g[m]
    BY <2>3, <2>4, <2>6, <2>7
  <2>12. \A m \in 1 .. n : h[m] = Gate(ep, late, m, h[m - 1])
    <3> SUFFICES ASSUME NEW m \in 1 .. n PROVE h[m] = Gate(ep, late, m, h[m - 1]) OBVIOUS
    <3>1. m - 1 \in 0 .. n - 1 BY <2>3
    <3>2. h[m - 1] = g[m - 1] BY <2>11, <3>1
    <3>3. CASE m = n BY <2>11, <3>2, <3>3
    <3>4. CASE m # n
      <4>1. m \in 1 .. n - 1 /\ m \in 0 .. n - 1 BY <2>3, <3>4
      <4> QED BY <2>6, <2>11, <3>2, <4>1
    <3> QED BY <3>3, <3>4
  <2> QED BY <1>1, <2>2, <2>10, <2>11, <2>12
<1>3. N \in 0 .. N /\ N \notin S BY <1>0, <1>2
<1> QED BY <1>0, <1>1, <1>3

\* LastEnded obeys its recursive definition.
LEMMA LastEndedUnfolds ==
    ASSUME TypeOK, NEW ep, NEW late
    PROVE  \E g \in [0 .. Len(feedback) -> FrameIds] :
              /\ LastEnded(ep, late) = g
              /\ g[0] = last_completion
              /\ \A n \in 1 .. Len(feedback) : g[n] = Gate(ep, late, n, g[n - 1])
<1>1. PICK N \in Nat : N = Len(feedback) BY DEF TypeOK
<1>2. PICK g \in [0 .. N -> FrameIds] :
        g[0] = last_completion /\ \A m \in 1 .. N : g[m] = Gate(ep, late, m, g[m - 1])
  <2>1. PICK g \in [0 .. Len(feedback) -> FrameIds] :
              /\ g[0] = last_completion
              /\ \A m \in 1 .. Len(feedback) : g[m] = Gate(ep, late, m, g[m - 1])
    BY GateRuns, ZenonT(40)
  <2> QED BY <1>1, <2>1
<1>3. ASSUME NEW h, h = [n \in 0 .. Len(feedback) |->
                           IF n = 0 THEN last_completion
                           ELSE IF /\ feedback[n].ep = ep
                                   /\ \/ h[n - 1] = 0
                                      \/ feedback[n].frame > h[n - 1] /\ n \notin late
                                THEN feedback[n].frame ELSE h[n - 1]]
      PROVE  h = g
  <2>1. h[0] = last_completion BY <1>1, <1>3
  <2>2. \A n \in 1 .. N : h[n] = Gate(ep, late, n, h[n - 1]) BY <1>1, <1>3, SMTT(30) DEF Gate
  <2>3. PICK S : S = {n \in 0 .. N : h[n] # g[n]} OBVIOUS
  <2>4. S = {}
    <3> SUFFICES ASSUME S # {} PROVE FALSE OBVIOUS
    <3>1. S \in SUBSET Nat BY <2>3
    <3>2. PICK n \in S : \A y \in S : n <= y BY <3>1, Least
    <3>3. n \in 1 .. N BY <1>2, <2>1, <2>3
    <3>4. n - 1 \in 0 .. N /\ n - 1 \notin S BY <3>2, <3>3
    <3>5. h[n - 1] = g[n - 1] BY <2>3, <3>4
    <3> QED BY <1>2, <2>2, <2>3, <3>3, <3>5
  <2>5. \A n \in 0 .. N : h[n] = g[n] BY <2>3, <2>4
  <2>6. DOMAIN h = 0 .. N /\ h = [n \in 0 .. N |-> h[n]] BY <1>1, <1>3
  <2> QED BY <2>5, <2>6
<1>4. g = [n \in 0 .. Len(feedback) |->
              IF n = 0 THEN last_completion
              ELSE IF /\ feedback[n].ep = ep
                      /\ \/ g[n - 1] = 0
                         \/ feedback[n].frame > g[n - 1] /\ n \notin late
                   THEN feedback[n].frame ELSE g[n - 1]]
  BY <1>1, <1>2 DEF Gate
<1>5. LastEnded(ep, late) = g BY <1>3, <1>4, Zenon DEF LastEnded
<1> QED BY <1>1, <1>2, <1>5

\* Behind an anchor the gate never lets an earlier frame through.
LEMMA GateOrdered ==
    ASSUME TypeOK, NEW ep, NEW late, last_completion # 0,
           NEW g \in [0 .. Len(feedback) -> FrameIds], g[0] = last_completion,
           \A n \in 1 .. Len(feedback) : g[n] = Gate(ep, late, n, g[n - 1])
    PROVE  \A n \in 0 .. Len(feedback) : g[n] >= last_completion
<1>0. PICK N \in Nat : N = Len(feedback) BY DEF TypeOK
<1>1. \A n \in 1 .. N : feedback[n] \in Samples BY <1>0 DEF TypeOK
<1>2. last_completion \in Nat /\ last_completion > 0 BY FlexAssumption DEF TypeOK, FrameIds
<1>3. \A n \in 0 .. N : g[n] \in Nat BY <1>0, FlexAssumption DEF FrameIds
<1>4. \A n \in 1 .. N : feedback[n].frame \in Nat BY <1>1, FlexAssumption DEF Samples, FrameIds
<1>5. PICK S : S = {n \in 0 .. N : g[n] < last_completion} OBVIOUS
<1>6. S = {}
  <2> SUFFICES ASSUME S # {} PROVE FALSE OBVIOUS
  <2>1. S \in SUBSET Nat BY <1>5
  <2>2. PICK n \in S : \A y \in S : n <= y BY <2>1, Least
  <2>3. n \in 1 .. N BY <1>2, <1>5
  <2>4. n - 1 \in 0 .. N /\ n - 1 \notin S BY <2>2, <2>3
  <2>5. g[n - 1] >= last_completion BY <1>2, <1>3, <1>5, <2>4
  <2>6. g[n] = g[n - 1] \/ g[n] > g[n - 1]
    <3>1. g[n] = Gate(ep, late, n, g[n - 1]) BY <1>0, <2>3
    <3>2. g[n - 1] # 0 /\ g[n - 1] \in Nat BY <1>2, <1>3, <2>4, <2>5
    <3> QED BY <1>4, <2>3, <3>1, <3>2 DEF Gate
  <2>7. g[n] < last_completion /\ n \in 0 .. N BY <1>5
  <2> QED BY <1>2, <1>3, <2>4, <2>5, <2>6, <2>7
<1> QED BY <1>0, <1>2, <1>3, <1>5, <1>6

\* consume_feedback_locked leaves an anchor that is not behind the context, and moves the
\* context back only when there was no anchor.
LEMMA ConsumeStep ==
    ASSUME TypeOK, AnchorAhead, NEW t \in Threads, ConsumeFeedback(t)
    PROVE  /\ last_completion' \in FrameIds /\ ctx' \in [ended : FrameIds, epoch : Nat]
           /\ ctx'.epoch = ctx.epoch /\ stalls' \in [StallSlots -> Nat \cup {-1}]
           /\ delay' \in BOOLEAN /\ feedback' = <<>>
           /\ AnchorAhead'
           /\ ctx'.ended # ctx.ended => ctx'.ended > ctx.ended \/ last_completion = 0
<1>0. PICK ep : ep = loc[t].ep OBVIOUS
<1>1. PICK late \in SUBSET DOMAIN feedback :
        LET last == LastEnded(loc[t].ep, late)
            ended == {last[n] : n \in DOMAIN feedback} \ {last[0], 0}
            used == \E n \in DOMAIN feedback : feedback[n].ep = loc[t].ep /\ last[n] # last[n - 1]
        IN  /\ last_completion' = last[Len(feedback)]
            /\ ctx' = [ctx EXCEPT !.ended = IF ended = {} THEN @ ELSE last[Len(feedback)]]
            /\ stalls' = [s \in StallSlots |-> IF used /\ stalls[s] > 0 THEN 0 ELSE stalls[s]]
            /\ delay' \in (IF used /\ \E s \in StallSlots : stalls[s] = loc[t].ep
                           THEN {delay, FALSE} ELSE {delay})
  BY DEF ConsumeFeedback
<1>2. PICK g \in [0 .. Len(feedback) -> FrameIds] :
        /\ LastEnded(ep, late) = g
        /\ g[0] = last_completion
        /\ \A n \in 1 .. Len(feedback) : g[n] = Gate(ep, late, n, g[n - 1])
  BY LastEndedUnfolds
<1>3. PICK N \in Nat : N = Len(feedback) /\ DOMAIN feedback = 1 .. N BY DEF TypeOK
<1>4. g[N] \in FrameIds /\ last_completion' = g[N] BY <1>0, <1>1, <1>2, <1>3
<1>5. PICK e : /\ ctx' = [ctx EXCEPT !.ended = e]
               /\ \/ e = g[N]
                  \/ e = ctx.ended /\ \A n \in 1 .. N : g[n] \in {last_completion, 0}
  <2>1. PICK E : E = {g[n] : n \in 1 .. N} \ {last_completion, 0} OBVIOUS
  <2>2. ctx' = [ctx EXCEPT !.ended = IF E = {} THEN @ ELSE g[N]] BY <1>0, <1>1, <1>2, <1>3, <2>1
  <2>3. CASE E = {}
    <3>1. \A n \in 1 .. N : g[n] \in {last_completion, 0} BY <2>1, <2>3
    <3> QED BY <2>2, <2>3, <3>1
  <2>4. CASE E # {} BY <2>2, <2>4
  <2> QED BY <2>3, <2>4
<1>6. ctx \in [ended : FrameIds, epoch : Nat] /\ last_completion \in FrameIds BY DEF TypeOK
<1>7. e \in FrameIds BY <1>4, <1>5, <1>6
<1>8. ctx' \in [ended : FrameIds, epoch : Nat] /\ ctx'.ended = e /\ ctx'.epoch = ctx.epoch
  BY <1>5, <1>6, <1>7
<1>9. stalls' \in [StallSlots -> Nat \cup {-1}]
  <2>1. PICK b : stalls' = [s \in StallSlots |-> IF b /\ stalls[s] > 0 THEN 0 ELSE stalls[s]] BY <1>1
  <2> QED BY <2>1 DEF TypeOK
<1>10. delay' \in BOOLEAN
  <2>1. delay' = delay \/ delay' = FALSE BY <1>1
  <2> QED BY <2>1 DEF TypeOK
<1>11. \A x \in FrameIds : x \in Nat BY FlexAssumption DEF FrameIds
<1>12. AnchorAhead'
  <2>1. CASE e = g[N] BY <1>4, <1>8, <1>11, <2>1 DEF AnchorAhead
  <2>2. CASE e = ctx.ended /\ \A n \in 1 .. N : g[n] \in {last_completion, 0}
    <3>1. g[N] \in {last_completion, 0}
      <4>1. CASE N = 0 BY <1>2, <4>1
      <4>2. CASE N # 0
        <5>1. N \in 1 .. N BY <1>3, <4>2
        <5> QED BY <2>2, <5>1
      <4> QED BY <4>1, <4>2
    <3> QED BY <1>4, <1>8, <2>2, <3>1 DEF AnchorAhead
  <2> QED BY <1>5, <2>1, <2>2
<1>13. ASSUME ctx'.ended # ctx.ended, last_completion # 0 PROVE ctx'.ended > ctx.ended
  <2>1. e = g[N] BY <1>5, <1>8, <1>13
  <2>2. \A n \in 0 .. Len(feedback) : g[n] >= last_completion BY <1>2, <1>13, GateOrdered
  <2>3. g[N] >= last_completion BY <1>3, <2>2
  <2>4. ctx.ended <= last_completion BY <1>13 DEF AnchorAhead
  <2>5. g[N] \in Nat /\ ctx.ended \in Nat /\ last_completion \in Nat BY <1>4, <1>6, <1>11
  <2> QED BY <1>8, <1>13, <2>1, <2>3, <2>4, <2>5
<1>14. feedback' = <<>> BY DEF ConsumeFeedback
<1> QED BY <1>4, <1>8, <1>9, <1>10, <1>12, <1>13, <1>14

----------------------------------------------------------------------------
(* Types *)

\* What the calls leave in the scheduler's own words.
LEMMA CallRest ==
    ASSUME TypeOK, LaneWorld, NEW t \in Threads, Call(t)
    PROVE  RestOK'
<1>0. RestOK /\ calls \in Nat /\ calls + 1 \in Nat BY Parts DEF RestOK
<1>1. Frames \subseteq FrameIds /\ Frames \cup {0} \subseteq FrameIds
  BY FlexAssumption DEF Frames, FrameIds
<1>2. ASSUME NEW s \in Swapchains, NEW i \in Images, CallAcquire(t, s, i) PROVE RestOK'
  <2>1. held' \in [Swapchains -> SUBSET Images] BY <1>2 DEF CallAcquire, TypeOK
  <2>2. owner' \in [Swapchains -> [Images -> FrameIds]] BY <1>2, Blank DEF CallAcquire, TypeOK
  <2> QED BY <1>0, <1>2, <2>1, <2>2 DEF CallAcquire, Enter, RestOK, clock, mode, sched, table, queue
<1>3. ASSUME NEW s \in Swapchains, NEW i \in Images, BeginPresent(t, s, i) PROVE RestOK'
  <2>1. held' \in [Swapchains -> SUBSET Images] BY <1>3, PresentStep
  <2> QED BY <1>0, <1>3, <2>1, ZenonT(40) DEF BeginPresent, Enter, RestOK, clock, mode, sched, queue
<1>4. ASSUME NEW f \in Frames, BridgePresent(t, f) PROVE RestOK'
  BY <1>0, <1>1, <1>4, ZenonT(40) DEF BridgePresent, Enter, RestOK, clock, sched, table
<1>5. ASSUME NEW f \in Frames, SimulationStart(t, f) PROVE RestOK'
  BY <1>0, <1>5 DEF SimulationStart, Enter, RestOK, clock, sched, table, queue
<1>6. ASSUME NEW f \in FrameIds, Sleep(t, f) PROVE RestOK'
  BY <1>0, <1>6 DEF Sleep, Enter, RestOK, clock, sched, table, queue
<1>7. ASSUME NEW c \in BOOLEAN, NEW o \in {"ingame", "enable", "disable"} \cup Overrides,
             SetControl(t, c, o)
      PROVE  RestOK'
  BY <1>0, <1>7 DEF SetControl, Enter, RestOK, mode, sched, table, queue
<1>8. ASSUME NEW s \in StallSlots, StallClaim(t, s) PROVE RestOK'
  BY <1>0, <1>8 DEF StallClaim, Enter, RestOK, clock, mode, sched, table, queue
<1>9. ASSUME NEW s \in Swapchains, UnpublishLane(t, s) PROVE RestOK'
  <2>1. held' \in [Swapchains -> SUBSET Images] BY <1>9, UnpublishStep
  <2> QED BY <1>0, <1>9, <2>1 DEF UnpublishLane, Enter, RestOK, clock, mode, sched, queue
<1>10. control \in BOOLEAN /\ override \in {"ingame", "enable", "disable"} \cup Overrides
  BY DEF TypeOK
<1>11. (\E c \in BOOLEAN : set_sleep_mode(t, c)) => RestOK' BY <1>7, <1>10 DEF set_sleep_mode
<1>12. (\E o \in Overrides : set_low_latency_override(t, o)) => RestOK'
  BY <1>7, <1>10 DEF set_low_latency_override
<1>13. (\E f \in Frames \cup {0} : Sleep(t, f)) => RestOK' BY <1>1, <1>6
<1> QED BY <1>2, <1>3, <1>4, <1>5, <1>8, <1>9, <1>11, <1>12, <1>13 DEF Call

\* What a published sample does to the queue.
LEMMA Published ==
    ASSUME TypeOK, NEW f \in FrameIds, NEW e \in Nat, Publish(f, e)
    PROVE  feedback' \in Seq(Samples)
<1>1. PICK x : x = [frame |-> f, ep |-> e] OBVIOUS
<1>2. x \in Samples BY <1>1 DEF Samples
<1>3. feedback' = Append(feedback, x) \/ feedback' = feedback BY <1>1 DEF Publish
<1>4. feedback \in Seq(Samples) BY DEF TypeOK
<1> QED BY <1>2, <1>3, <1>4

\* ... and what the steps of a handler leave there.
LEMMA StepRest ==
    ASSUME TypeOK, LaneWorld, AnchorAhead, NEW t \in Threads, Step(t)
    PROVE  RestOK'
<1>0. RestOK /\ loc[t] \in LocalsType BY Parts, Typed
<1>1. /\ loc[t].frame \in FrameIds /\ loc[t].ep \in Nat /\ loc[t].core \in BOOLEAN /\ 0 \in FrameIds
      /\ <<>> \in Seq(Samples)
  BY <1>0, LocalParts, Blank
<1>2. CASE LaneLookup(t)
  BY <1>0, <1>2, ZenonT(40) DEF LaneLookup, RestOK, clock, mode, sched, queue, app
<1>3. CASE LaneCreate(t)
  BY <1>0, <1>3 DEF LaneCreate, RestOK, clock, mode, sched, queue, app
<1>4. CASE PrimaryLoad(t) \/ LoadMode(t) \/ PaceLoadEpoch(t) \/ PaceRefused(t)
  BY <1>0, <1>4 DEF PrimaryLoad, LoadMode, PaceLoadEpoch, PaceRefused, RestOK, clock, mode, sched, table,
                    queue, app
<1>5. CASE PrimaryCas(t)
  <2>1. primary' \in Swapchains \cup {NoSwapchain} BY <1>0, <1>5, LocalParts DEF PrimaryCas, RestOK
  <2> QED BY <1>0, <1>5, <2>1 DEF PrimaryCas, RestOK, clock, mode, sched, queue, app
<1>6. CASE ResolvePrecision(t)
  BY <1>0, <1>6 DEF ResolvePrecision, RestOK, clock, mode, sched, queue, app
<1>7. CASE PublishBatch(t) \/ PublishFeedback(t)
  <2>1. feedback' \in Seq(Samples) BY <1>1, <1>7, Published DEF PublishBatch, PublishFeedback
  <2> QED BY <1>0, <1>7, <2>1 DEF PublishBatch, PublishFeedback, RestOK, clock, mode, sched, table, app
<1>8. CASE UpdateQueuePressure(t)
  <2>1. delay' \in BOOLEAN BY <1>8 DEF UpdateQueuePressure
  <2> QED BY <1>0, <1>8, <2>1 DEF UpdateQueuePressure, RestOK, clock, mode, sched, table, app
<1>9. CASE StampImage(t)
  <2>1. owner' \in [Swapchains -> [Images -> FrameIds]] BY <1>9, StampStep
  <2> QED BY <1>0, <1>9, <2>1 DEF StampImage, RestOK, clock, mode, sched, queue
<1>10. CASE PaceEnter(t)
  <2>1. frame_sequence' \in FrameIds
    BY <1>0, <1>10, FlexAssumption, SMTT(30) DEF PaceEnter, RestOK, FrameIds
  <2>2. feedback' \in Seq(Samples) /\ ctx' \in [ended : FrameIds, epoch : Nat]
    <3>1. CASE reset_requested
      <4>1. feedback' = <<>> /\ ctx' = [ended |-> 0, epoch |-> epoch] BY <1>10, <3>1 DEF PaceEnter
      <4> QED BY <1>0, <1>1, <4>1 DEF RestOK
    <3>2. CASE ~reset_requested
      <4>1. feedback' = feedback /\ ctx' = ctx BY <1>10, <3>2 DEF PaceEnter
      <4> QED BY <1>0, <4>1 DEF RestOK
    <3> QED BY <3>1, <3>2
  <2> QED BY <1>0, <1>10, <2>1, <2>2 DEF PaceEnter, RestOK, mode, table, app
<1>11. CASE ConsumeFeedback(t)
  <2>1. /\ last_completion' \in FrameIds /\ ctx' \in [ended : FrameIds, epoch : Nat]
        /\ stalls' \in [StallSlots -> Nat \cup {-1}] /\ delay' \in BOOLEAN /\ feedback' = <<>>
    BY <1>11, ConsumeStep
  <2> QED BY <1>0, <1>1, <1>11, <2>1 DEF ConsumeFeedback, RestOK, clock, mode, table, app
<1>12. CASE BeginFrame(t)
  <2>1. core_paced_pending' \in BOOLEAN BY <1>12, Zenon DEF BeginFrame
  <2> QED BY <1>0, <1>1, <1>12, <2>1 DEF BeginFrame, RestOK, clock, table, app
<1>13. CASE DriverPresent(t)
  <2>1. held' \in [Swapchains -> SUBSET Images] BY <1>13, DriverStep
  <2> QED BY <1>0, <1>13, <2>1 DEF DriverPresent, RestOK, clock, mode, sched, table, queue
<1>14. CASE CompletePresent(t)
  BY <1>0, <1>14, ZenonT(40) DEF CompletePresent, RestOK, clock, sched, queue, app
<1>15. CASE MarkerPace(t)
  BY <1>0, <1>15 DEF MarkerPace, RestOK, clock, sched, table, queue, app
<1>16. CASE RotateEpoch(t)
  <2>1. epoch' \in Nat /\ reset_requested' \in BOOLEAN
    <3>1. CASE pc[t] = "rotate" /\ epoch' = epoch + 1 /\ reset_requested' = reset_requested
      BY <1>0, <3>1 DEF RestOK
    <3>2. CASE reset_requested' = TRUE /\ epoch' = epoch BY <1>0, <3>2 DEF RestOK
    <3> QED BY <1>16, <3>1, <3>2 DEF RotateEpoch
  <2> QED BY <1>0, <1>16, <2>1 DEF RotateEpoch, RestOK, mode, sched, table, queue, app
<1>17. CASE ClearEpochState(t)
  BY <1>0, <1>1, <1>17 DEF ClearEpochState, RestOK, clock, table, app
<1>18. CASE StallPublish(t)
  BY <1>0, <1>1, <1>18, ZenonT(40) DEF StallPublish, RestOK, clock, mode, sched, table, queue, app
<1>19. CASE ClearLane(t)
  BY <1>0, <1>19, ZenonT(40) DEF ClearLane, RestOK, clock, sched, app
<1> QED BY <1>2, <1>3, <1>4, <1>5, <1>6, <1>7, <1>8, <1>9, <1>10, <1>11, <1>12, <1>13, <1>14, <1>15,
           <1>16, <1>17, <1>18, <1>19
        DEF Step, lane_for, on_acquire, pace_frame, request_new_epoch

----------------------------------------------------------------------------
(* Every step *)

LEMMA Moves ==
    ASSUME TypeOK, LaneWorld, NEW t \in Threads, Call(t) \/ Step(t)
    PROVE  /\ LaneWorld' /\ lanes' \in [Lanes -> LaneType]
           /\ \E p \in PCs, r \in LocalsType : Turn(t, p, r)
<1>1. CASE \E p \in PCs, r \in LocalsType : Quiet(t, p, r) BY <1>1, QuietStep DEF Quiet
<1>2. CASE lanes' = lanes /\ LaneWorld' /\ \E p \in PCs, r \in LocalsType : Turn(t, p, r)
  BY <1>2 DEF TypeOK
<1>3. CASE Call(t)
  <2>0. Frames \cup {0} \subseteq FrameIds BY FlexAssumption DEF Frames, FrameIds
  <2>1. ASSUME NEW s \in Swapchains, NEW i \in Images, CallAcquire(t, s, i)
        PROVE  lanes' = lanes /\ LaneWorld' /\ \E p \in PCs, r \in LocalsType : Turn(t, p, r)
    BY <2>1, AcquireStep DEF CallAcquire, table
  <2>2. ASSUME NEW s \in Swapchains, NEW i \in Images, BeginPresent(t, s, i)
        PROVE  /\ LaneWorld' /\ lanes' \in [Lanes -> LaneType]
               /\ \E p \in PCs, r \in LocalsType : Turn(t, p, r)
    BY <2>2, PresentStep
  <2>3. ASSUME NEW s \in Swapchains, UnpublishLane(t, s)
        PROVE  /\ LaneWorld' /\ lanes' \in [Lanes -> LaneType]
               /\ \E p \in PCs, r \in LocalsType : Turn(t, p, r)
    BY <2>3, UnpublishStep
  <2>4. CASE \/ \E f \in Frames : BridgePresent(t, f) \/ SimulationStart(t, f)
             \/ \E f \in FrameIds : Sleep(t, f)
             \/ \E c, o : SetControl(t, c, o)
             \/ \E s \in StallSlots : StallClaim(t, s)
    BY <1>1, <2>4, CallQuiet
  <2>5. (\E f \in Frames \cup {0} : Sleep(t, f)) => \E f \in FrameIds : Sleep(t, f) BY <2>0
  <2>6. /\ (\E c \in BOOLEAN : set_sleep_mode(t, c)) => \E c, o : SetControl(t, c, o)
        /\ (\E o \in Overrides : set_low_latency_override(t, o)) => \E c, o : SetControl(t, c, o)
    BY Zenon DEF set_sleep_mode, set_low_latency_override
  <2> QED BY <1>2, <1>3, <2>1, <2>2, <2>3, <2>4, <2>5, <2>6 DEF Call
<1>4. CASE lane_for(t)
  <2>1. CASE LaneLookup(t) BY <1>2, <2>1, LookupStep DEF LaneLookup
  <2>2. CASE LaneCreate(t) BY <2>2, CreateStep
  <2> QED BY <1>4, <2>1, <2>2 DEF lane_for
<1>5. CASE on_acquire(t)
  <2>1. CASE PrimaryLoad(t) BY <1>1, <2>1, PrimaryLoadQuiet
  <2>2. CASE PrimaryCas(t) BY <1>2, <2>2, CasStep DEF PrimaryCas
  <2>3. CASE ResolvePrecision(t) BY <1>1, <2>3, ResolveQuiet
  <2>4. CASE PublishBatch(t) \/ UpdateQueuePressure(t) BY <1>1, <2>4, PlainQuiet
  <2>5. CASE LoadMode(t) BY <1>1, <2>5, LoadModeQuiet
  <2>6. CASE StampImage(t) BY <2>6, StampStep
  <2> QED BY <1>5, <2>1, <2>2, <2>3, <2>4, <2>5, <2>6 DEF on_acquire
<1>6. CASE pace_frame(t)
  <2>1. CASE PaceEnter(t) \/ PaceLoadEpoch(t) BY <1>1, <2>1, PaceQuiet
  <2>2. CASE PaceRefused(t) \/ BeginFrame(t) BY <1>1, <2>2, PacedQuiet
  <2>3. CASE ConsumeFeedback(t) BY <1>1, <2>3, PlainQuiet
  <2> QED BY <1>6, <2>1, <2>2, <2>3 DEF pace_frame
<1>7. CASE DriverPresent(t) BY <1>2, <1>7, DriverStep DEF DriverPresent, table
<1>8. CASE CompletePresent(t) \/ PublishFeedback(t) BY <1>1, <1>8, CompleteQuiet
<1>9. CASE MarkerPace(t) \/ request_new_epoch(t) \/ StallPublish(t)
  BY <1>1, <1>9, ControlQuiet DEF request_new_epoch
<1>10. CASE ClearLane(t) BY <1>10, ClearStep
<1> QED BY <1>3, <1>4, <1>5, <1>6, <1>7, <1>8, <1>9, <1>10 DEF Step

LEMMA StepTyped ==
    ASSUME TypeOK, LaneWorld, AnchorAhead, NEW t \in Threads, Call(t) \/ Step(t)
    PROVE  TypeOK'
<1>1. RestOK' BY CallRest, StepRest
<1>2. lanes' \in [Lanes -> LaneType] /\ \E p \in PCs, r \in LocalsType : Turn(t, p, r) BY Moves
<1>3. pc' \in [Threads -> PCs] /\ loc' \in [Threads -> LocalsType] BY <1>2, Turned
<1> QED BY <1>1, <1>2, <1>3 DEF TypeOK, RestOK

\* Epoch, context and completion anchor move only in request_new_epoch and pace_frame.
LEMMA SchedulerKept ==
    ASSUME NEW t \in Threads, Call(t) \/ Step(t),
           ~RotateEpoch(t), ~PaceEnter(t), ~ConsumeFeedback(t), ~ClearEpochState(t)
    PROVE  pc[t] # "reset" /\ UNCHANGED <<epoch, reset_requested, ctx, last_completion>>
<1>1. CASE Call(t)
  <2>1. ASSUME NEW s, NEW i, CallAcquire(t, s, i) \/ BeginPresent(t, s, i) \/ UnpublishLane(t, s)
        PROVE  pc[t] # "reset" /\ UNCHANGED <<epoch, reset_requested, ctx, last_completion>>
    BY <2>1 DEF CallAcquire, BeginPresent, UnpublishLane, Enter, clock, sched
  <2>2. ASSUME NEW f, BridgePresent(t, f) \/ SimulationStart(t, f) \/ Sleep(t, f) \/ StallClaim(t, f)
        PROVE  pc[t] # "reset" /\ UNCHANGED <<epoch, reset_requested, ctx, last_completion>>
    BY <2>2 DEF BridgePresent, SimulationStart, Sleep, StallClaim, Enter, clock, sched
  <2>3. ASSUME NEW c, NEW o, SetControl(t, c, o)
        PROVE  pc[t] # "reset" /\ UNCHANGED <<epoch, reset_requested, ctx, last_completion>>
    BY <2>3 DEF SetControl, Enter, sched
  <2>4. /\ (\E c \in BOOLEAN : set_sleep_mode(t, c)) => \E c, o : SetControl(t, c, o)
        /\ (\E o \in Overrides : set_low_latency_override(t, o)) => \E c, o : SetControl(t, c, o)
    BY Zenon DEF set_sleep_mode, set_low_latency_override
  <2> QED BY <1>1, <2>1, <2>2, <2>3, <2>4 DEF Call
<1>2. CASE lane_for(t) BY <1>2 DEF lane_for, LaneLookup, LaneCreate, clock, sched
<1>3. CASE on_acquire(t)
  BY <1>3 DEF on_acquire, PrimaryLoad, PrimaryCas, ResolvePrecision, PublishBatch, UpdateQueuePressure,
              LoadMode, StampImage, clock, sched
<1>4. CASE PaceRefused(t) \/ PaceLoadEpoch(t) BY <1>4 DEF PaceRefused, PaceLoadEpoch, clock, sched
<1>5. CASE BeginFrame(t) BY <1>5 DEF BeginFrame, clock
<1>6. CASE DriverPresent(t) \/ CompletePresent(t) \/ PublishFeedback(t) \/ MarkerPace(t)
  BY <1>6 DEF DriverPresent, CompletePresent, PublishFeedback, MarkerPace, clock, sched
<1>7. CASE StallPublish(t) \/ ClearLane(t) BY <1>7 DEF StallPublish, ClearLane, clock, sched
<1> QED BY <1>1, <1>2, <1>3, <1>4, <1>5, <1>6, <1>7 DEF Step, pace_frame, request_new_epoch

\* The epoch moves and the context restarts only where request_new_epoch and pace_frame say.
LEMMA EpochStep ==
    ASSUME TypeOK, LaneWorld, AnchorAhead, EpochCovered, NEW t \in Threads, Call(t) \/ Step(t)
    PROVE  EpochCovered'
<1>1. PICK p \in PCs, r \in LocalsType : Turn(t, p, r) BY Moves
<1>2. /\ pc'[t] = p
      /\ \A u \in Threads : u # t => pc'[u] = pc[u]
  BY <1>1, Turned
<1>3. CASE RotateEpoch(t)
  <2>1. CASE pc' = [pc EXCEPT ![t] = "reset"]
    <3>1. pc'[t] = "reset" BY <2>1 DEF TypeOK
    <3> QED BY <3>1 DEF EpochCovered
  <2>2. CASE reset_requested' = TRUE BY <2>2 DEF EpochCovered
  <2> QED BY <1>3, <2>1, <2>2 DEF RotateEpoch, Goto
<1>4. CASE PaceEnter(t)
  <2>1. epoch' = epoch /\ pc[t] = "pace" BY <1>4 DEF PaceEnter
  <2>2. CASE reset_requested
    <3>1. ctx' = [ended |-> 0, epoch |-> epoch] BY <1>4, <2>2 DEF PaceEnter
    <3>2. ctx'.epoch = epoch BY <3>1
    <3> QED BY <2>1, <3>2 DEF EpochCovered
  <2>3. CASE ~reset_requested
    <3>1. ctx' = ctx BY <1>4, <2>3 DEF PaceEnter
    <3>2. CASE ctx.epoch = epoch BY <2>1, <3>1, <3>2 DEF EpochCovered
    <3>3. CASE \E u \in Threads : pc[u] = "reset"
      <4>1. PICK u \in Threads : pc[u] = "reset" BY <3>3
      <4>2. pc'[u] = "reset" BY <1>2, <2>1, <4>1
      <4> QED BY <4>2 DEF EpochCovered
    <3> QED BY <2>3, <3>2, <3>3 DEF EpochCovered
  <2> QED BY <2>2, <2>3
<1>5. CASE ~RotateEpoch(t) /\ ~PaceEnter(t)
  <2>1. pc[t] # "reset" /\ UNCHANGED <<epoch, reset_requested>> /\ ctx'.epoch = ctx.epoch
    <3>1. CASE ConsumeFeedback(t) BY <3>1, ConsumeStep DEF ConsumeFeedback, clock
    <3>2. CASE ClearEpochState(t) BY <3>2 DEF ClearEpochState, clock
    <3> QED BY <1>5, <3>1, <3>2, SchedulerKept
  <2> QED BY <1>2, <2>1 DEF EpochCovered
<1> QED BY <1>3, <1>4, <1>5

\* The anchor stays ahead of the context, and EndFrame moves forward.
LEMMA EndStep ==
    ASSUME TypeOK, AnchorAhead, NEW t \in Threads, Call(t) \/ Step(t)
    PROVE  /\ AnchorAhead'
           /\ ctx'.ended # ctx.ended => ctx'.ended > ctx.ended \/ ctx'.ended = 0 \/ last_completion = 0
<1>0. last_completion \in Nat /\ ctx.ended \in Nat BY Typed, FlexAssumption DEF FrameIds
<1>1. CASE RotateEpoch(t)
  <2>1. UNCHANGED <<ctx, last_completion>> BY <1>1 DEF RotateEpoch, sched
  <2> QED BY <2>1 DEF AnchorAhead
<1>2. CASE PaceEnter(t)
  <2>1. last_completion' = last_completion BY <1>2 DEF PaceEnter
  <2>2. ctx'.ended = ctx.ended \/ ctx'.ended = 0
    <3>1. ctx' = ctx \/ ctx' = [ended |-> 0, epoch |-> epoch] BY <1>2 DEF PaceEnter
    <3> QED BY <3>1
  <2> QED BY <1>0, <2>1, <2>2 DEF AnchorAhead
<1>3. CASE ConsumeFeedback(t) BY <1>3, ConsumeStep
<1>4. CASE ClearEpochState(t)
  <2>1. last_completion' = 0 /\ ctx' = ctx BY <1>4 DEF ClearEpochState
  <2> QED BY <2>1 DEF AnchorAhead
<1>5. CASE ~RotateEpoch(t) /\ ~PaceEnter(t) /\ ~ConsumeFeedback(t) /\ ~ClearEpochState(t)
  <2>1. UNCHANGED <<ctx, last_completion>> BY <1>5, SchedulerKept
  <2> QED BY <2>1 DEF AnchorAhead
<1> QED BY <1>1, <1>2, <1>3, <1>4, <1>5

----------------------------------------------------------------------------
(* The theorems *)

LEMMA Start == Init => TypeOK /\ FlexInvariant
<1> SUFFICES ASSUME Init PROVE TypeOK /\ FlexInvariant OBVIOUS
<1>1. TypeOK
  <2>1. RestOK
    <3>1. ctx \in [ended : FrameIds, epoch : Nat] BY Blank DEF Init
    <3>2. feedback \in Seq(Samples) /\ stalls \in [StallSlots -> Nat \cup {-1}] BY DEF Init
    <3>3. held \in [Swapchains -> SUBSET Images] /\ owner \in [Swapchains -> [Images -> FrameIds]]
      BY Blank DEF Init
    <3>4. control \in BOOLEAN /\ reset_requested \in BOOLEAN /\ core_paced_pending \in BOOLEAN
          /\ gate \in BOOLEAN /\ create_gate \in BOOLEAN /\ delay \in BOOLEAN
      BY Zenon DEF Init
    <3>5. /\ frame_sequence \in FrameIds /\ last_started \in FrameIds /\ last_bridge \in FrameIds
          /\ last_completion \in FrameIds /\ epoch \in Nat /\ calls \in Nat
      BY Blank DEF Init
    <3>6. /\ override \in {"ingame", "enable", "disable"} \cup Overrides
          /\ explicit_pacing \in {"none", "marker", "sleep"}
          /\ primary \in Swapchains \cup {NoSwapchain}
      BY DEF Init
    <3> QED BY <3>1, <3>2, <3>3, <3>4, <3>5, <3>6 DEF RestOK
  <2>2. lanes \in [Lanes -> LaneType] /\ loc \in [Threads -> LocalsType] BY Blank DEF Init
  <2>3. pc \in [Threads -> PCs] BY Returned DEF Init
  <2> QED BY <2>1, <2>2, <2>3, Parts
<1>2. /\ \A t \in Threads : pc[t] = "idle" /\ loc[t] = NoLocals
      /\ \A l \in Lanes : lanes[l] = FreeLane
  BY DEF Init
<1>3. NoLocals.sw = NoSwapchain /\ FreeLane.sw = NoSwapchain BY DEF NoLocals, FreeLane
<1>4. \A t \in Threads : LocalsFit(pc[t], loc[t]) /\ HasLane(pc[t], loc[t]) BY <1>2, Returned
<1>5. \A t \in Threads : Creating(t) BY <1>2 DEF Creating
<1>6. Serialised BY <1>2, <1>3 DEF Serialised
<1>7. OneLanePerSwapchain BY <1>2, <1>3 DEF OneLanePerSwapchain
<1>8. TicketsTrue BY <1>2, <1>3 DEF TicketsTrue
<1>9. EpochCovered /\ AnchorAhead BY DEF Init, EpochCovered, AnchorAhead
<1> QED BY <1>1, <1>4, <1>5, <1>6, <1>7, <1>8, <1>9 DEF FlexInvariant

\* One step keeps types and invariant.
LEMMA Kept ==
    ASSUME TypeOK, FlexInvariant, [Next]_vars
    PROVE  TypeOK' /\ FlexInvariant'
<1>0. LaneWorld /\ EpochCovered /\ AnchorAhead BY DEF FlexInvariant, LaneWorld
<1>1. CASE Next
  <2>1. PICK t \in Threads : Call(t) \/ Step(t) BY <1>1 DEF Next
  <2>2. TypeOK' BY <1>0, <2>1, StepTyped
  <2>3. LaneWorld' BY <1>0, <2>1, Moves
  <2>4. EpochCovered' BY <1>0, <2>1, EpochStep
  <2>5. AnchorAhead' BY <1>0, <2>1, EndStep
  <2> QED BY <2>2, <2>3, <2>4, <2>5 DEF FlexInvariant, LaneWorld
<1>2. CASE UNCHANGED vars
  BY <1>2 DEF vars, clock, mode, sched, table, queue, app, TypeOK, FlexInvariant, LocalsFit, HasLane, Creating,
              Acquires, Lane, Serialised, OneLanePerSwapchain, TicketsTrue, EpochCovered, AnchorAhead
<1> QED BY <1>1, <1>2

\* The scheduler keeps its types and FlexInvariant, for every number of threads, swapchains,
\* images, lanes, stall slots, frames and epochs (lane_for, on_acquire, pace_frame,
\* begin_present, complete_present, request_new_epoch and on_destroy_swapchain).
THEOREM FlexInv == Spec => [](TypeOK /\ FlexInvariant)
<1>1. Init => TypeOK /\ FlexInvariant BY Start
<1>2. (TypeOK /\ FlexInvariant) /\ [Next]_vars => (TypeOK /\ FlexInvariant)' BY Kept
<1> QED BY <1>1, <1>2, PTL DEF Spec

\* A present completes the frame its image was acquired for (begin_present claims the
\* mapping, on_acquire may skip stamping).
THEOREM FlexPresentOwnsItsFrame == Spec => []PresentOwnsItsFrame
<1>1. FlexInvariant => PresentOwnsItsFrame BY DEF FlexInvariant, LocalsFit, PresentOwnsItsFrame
<1> QED BY <1>1, FlexInv, PTL

\* Whoever paces for the core WSI path is the swapchain with the primary role (on_acquire).
THEOREM FlexOneCorePacer == Spec => []OneCorePacer
<1>1. FlexInvariant => OneCorePacer BY DEF FlexInvariant, LocalsFit, OneCorePacer
<1> QED BY <1>1, FlexInv, PTL

\* From lane_for to the end of the acquire a thread works on the lane of its own swapchain.
THEOREM FlexLaneOwned == Spec => []LaneOwned
<1>1. FlexInvariant => LaneOwned BY DEF FlexInvariant, HasLane, LaneOwned, Lane
<1> QED BY <1>1, FlexInv, PTL

\* No epoch runs on the LatencyFleX context of an older one (request_new_epoch, pace_frame).
THEOREM FlexResetCoversEpoch == Spec => []ResetCoversEpoch
<1>1. FlexInvariant => ResetCoversEpoch BY DEF FlexInvariant, EpochCovered, ResetCoversEpoch
<1> QED BY <1>1, FlexInv, PTL

\* EndFrame never moves back in frame order until the context or the completion anchor is
\* reset, whatever the queue held (consume_feedback_locked).
THEOREM FlexEndMonotonic == Spec => EndMonotonic
<1>1. TypeOK /\ FlexInvariant /\ [Next]_vars =>
        [ctx'.ended # ctx.ended => ctx'.ended > ctx.ended \/ ctx'.ended = 0 \/ last_completion = 0]_vars
  <2> SUFFICES ASSUME TypeOK, FlexInvariant, Next
               PROVE  ctx'.ended # ctx.ended => ctx'.ended > ctx.ended \/ ctx'.ended = 0 \/ last_completion = 0
    OBVIOUS
  <2>1. PICK t \in Threads : Call(t) \/ Step(t) BY DEF Next
  <2>2. AnchorAhead BY DEF FlexInvariant
  <2> QED BY <2>1, <2>2, EndStep
<1> QED BY <1>1, FlexInv, PTL DEF Spec, EndMonotonic
=============================================================================
