-------------------------- MODULE BackendLifecycle --------------------------
(***************************************************************************)
(* The one execution backend of LowLatency: how callbacks create it, switch *)
(* it when the API, the device or the routing policy changes, and tear it   *)
(* down, while other callbacks run without a lock on six published words    *)
(* (low_latency_d3d.cpp, low_latency_vk.cpp, low_latency.cpp).              *)
(*                                                                          *)
(* A callback is a thread that walks through its shared accesses.  What is  *)
(* guarded by active_tech_mutex is one step when only guarded state is      *)
(* touched, and several when published words change inside.  Which frontend *)
(* may drive is the subject of HybridStartup; here a callback drives or not.*)
(* A backend object is a record of a pool: a slot is reused when the object *)
(* is gone and no thread holds a pointer to it.                             *)
(***************************************************************************)
EXTENDS OutputPolicy, FiniteSets

CONSTANTS
    Threads,     \* application threads that call in
    Ids,         \* pool of backend objects
    D3DDevice,   \* the game's D3D12 device
    VkDevice,    \* the game's (or the translation layer's) Vulkan device
    Policies,    \* routing signature -> policy snapshot; 0 is "no signature"
    Facts,       \* the machines considered
    Grace,       \* 50 in the code: updates an Anti-Lag 2 context survives a switch
    MaxReloads,  \* bound: edits of the configuration file
    MaxCalls     \* bound: callbacks entered in a behaviour

NoTech == 0
NoDev == "null"
Signatures == DOMAIN Policies

ASSUME BackendAssumptions ==
    /\ Ids \subseteq Nat \ {0} /\ Grace \in Nat \ {0} /\ MaxReloads \in Nat /\ MaxCalls \in Nat
    /\ NoDev \notin {D3DDevice, VkDevice} /\ 0 \notin Signatures

VARIABLES
    facts, config, reloads, calls,            \* machine, active policy, counters
    transport, confirmed,               \* TransportTruth
    mutex,                                    \* holder of active_tech_mutex
    current, active,                          \* currently_active_tech and its route
    backend_p, api_p, tech_p, d3d_p, vk_p, sig_p, \* the published words
    observer,                                 \* transport_observer_published_
    delay_deinit, pending,                    \* the Anti-Lag 2 grace period
    forced,                                   \* an external context was supplied
    fg, applied_fg,                           \* fg_ and applied_fg_state_
    pool,                                     \* backend objects
    leaked,                                   \* history: an object was overwritten
    th                                        \* per thread: program counter, locals

guarded == <<current, active>>
published == <<backend_p, api_p, tech_p, d3d_p, vk_p, sig_p>>
world == <<facts, config, reloads, calls, transport, confirmed>>
rest == <<observer, delay_deinit, pending, forced, fg, applied_fg, pool, leaked>>
vars == <<world, mutex, guarded, published, rest, th>>

\* The locals a callback keeps between its steps.
Idle == [pc |-> "idle", op |-> "none", dev |-> NoDev, sig |-> 0, startup |-> FALSE,
         delay |-> 0, tech |-> NoTech, fg |-> "off"]
NoRoute == [backend |-> "Auto", api |-> "D3D12", dev |-> NoDev, sig |-> 0]
Empty == [state |-> "gone", kind |-> "Auto", fg |-> "off", ctx |-> FALSE]

Ops == {"frontend", "acquire", "present", "context", "force", "cadence"}
\* detect_d3d_api: a null device is taken for D3D12.
ApiOf(d) == CASE d = VkDevice -> "Vulkan" [] d = NoDev -> "D3D12" [] OTHER -> facts.d3d_api
Live == {i \in Ids : pool[i].state = "live"}
Held == {th[t].tech : t \in Threads}

TypeOK ==
    /\ facts \in Facts /\ config \in Signatures /\ reloads \in 0..MaxReloads /\ calls \in 0..MaxCalls
    /\ transport \in Transports /\ confirmed \subseteq {"vkd3d", "dxvk"}
    /\ mutex \in Threads \cup {"free"}
    /\ current \in Ids \cup {NoTech} /\ tech_p \in Ids \cup {NoTech}
    /\ active.backend \in Backends \cup {"Auto"} /\ active.sig \in Signatures \cup {0}
    /\ backend_p \in Backends \cup {"Auto"} /\ api_p \in Apis
    /\ d3d_p \in {D3DDevice, NoDev} /\ vk_p \in {VkDevice, NoDev}
    /\ sig_p \in Signatures \cup {0} /\ pending \in Signatures \cup {0}
    /\ delay_deinit \in 0..Grace
    /\ observer \in BOOLEAN /\ forced \in BOOLEAN /\ fg \in {"on", "off"}
    /\ applied_fg \in {"none", "on", "off"}
    /\ \A i \in Ids : pool[i].state \in {"live", "lost", "gone"}

Init ==
    /\ facts \in Facts /\ config = 1 /\ reloads = 0 /\ calls = 0
    /\ transport = facts.transport /\ confirmed = {}
    /\ mutex = "free" /\ current = NoTech /\ active = NoRoute
    /\ backend_p = "Auto" /\ api_p = "D3D12" /\ tech_p = NoTech
    /\ d3d_p = NoDev /\ vk_p = NoDev /\ sig_p = 0
    /\ observer = FALSE /\ delay_deinit = 0 /\ pending = 0 /\ forced = FALSE
    /\ fg = "off" /\ applied_fg = "none"
    /\ pool = [i \in Ids |-> Empty] /\ leaked = FALSE
    /\ th = [t \in Threads |-> Idle]

----------------------------------------------------------------------------
(* Thread plumbing.                                                         *)

At(t, pc) == th[t].pc = pc
Goto(t, pc) == th' = [th EXCEPT ![t].pc = pc]
Return(t) == th' = [th EXCEPT ![t] = Idle]

Snapshot == Policies[config]
\* startup_hybrid_configured / startup_vulkan_hybrid_configured
HybridConfigured(d) ==
    /\ Snapshot.startup_locked
    /\ CASE ApiOf(d) = "Vulkan" ->
              /\ Snapshot.vulkanflex /\ Snapshot.vulkan_fusion
              /\ Snapshot.output["Vulkan"] \in {"Auto", "VulkanFlex"}
              /\ native_execution_access(transport, TRUE) # "blocked"
         [] ApiOf(d) = "D3D12" ->
              \/ Snapshot.xell_fusion
              \/ Snapshot.vulkanflex /\ Snapshot.vkd3d_bridge /\ Snapshot.vulkan_fusion
         [] ApiOf(d) = "D3D11" ->
              /\ Snapshot.vulkanflex /\ Snapshot.dxvk_bridge
              /\ Snapshot.dxvk_execution # "disabled" /\ Snapshot.vulkan_fusion

\* vulkan_frontend_shadowed_by_translation
Shadowed ==
    /\ backend_p # "Auto"
    /\ \/ api_p = "D3D12" /\ "vkd3d" \in confirmed
       \/ api_p = "D3D11" /\ "dxvk" \in confirmed

----------------------------------------------------------------------------
(* The environment.                                                         *)

\* The configuration monitor publishes a new immutable snapshot.
publish_snapshot(s) ==
    /\ reloads < MaxReloads /\ s # config
    /\ config' = s /\ reloads' = reloads + 1
    /\ UNCHANGED <<facts, calls, transport, confirmed, mutex, guarded, published, rest, th>>

----------------------------------------------------------------------------
(* Entry of a callback.                                                     *)

\* Frontend* and VulkanFrontend*: a shadowed Vulkan frontend is ignored; before a backend
\* exists a Hybrid configuration creates it; otherwise only the driving frontend goes on.
\* A core-WSI acquire updates the route at once; the other callbacks never do.
FirstStep(op, d) ==
    CASE op = "frontend" -> IF d = VkDevice /\ Shadowed THEN "idle"
                            ELSE IF backend_p = "Auto" /\ HybridConfigured(d) THEN "update"
                            ELSE "drive"
      [] op = "acquire" -> IF Shadowed \/ ~Snapshot.vulkanflex THEN "idle" ELSE "update"
      [] OTHER -> op

Call(t, op, d) ==
    /\ At(t, "idle") /\ calls < MaxCalls /\ calls' = calls + 1
    /\ op = "frontend" => d # NoDev
    /\ op \in {"acquire", "present"} => d = VkDevice
    /\ op \in {"context", "force", "cadence"} => d = NoDev
    /\ LET pc == FirstStep(op, d) IN
       th' = [th EXCEPT ![t] = IF pc = "idle" THEN Idle ELSE
                [Idle EXCEPT !.op = op, !.dev = d, !.sig = config, !.pc = pc,
                             !.startup = (op = "frontend" /\ pc = "update")]]
    /\ UNCHANGED <<facts, config, reloads, transport, confirmed, mutex, guarded,
                   published, rest>>

\* observe_input / input_can_drive answered: the owner updates the route first, another
\* frontend of a Hybrid session may still report a marker, any other callback ends.
Drive(t) ==
    /\ At(t, "drive")
    /\ \/ th' = [th EXCEPT ![t].pc = "update", ![t].startup = FALSE]
       \/ th[t].op = "frontend" /\ tech_p # NoTech /\ Goto(t, "fg_load")
       \/ Return(t)
    /\ UNCHANGED <<world, mutex, guarded, published, rest>>

----------------------------------------------------------------------------
(* update_low_latency_tech: the lock-free fast path.                        *)

\* Where a successful update leads: back to the frontend's own test, to the controls, or
\* to the check of the published backend.
Updated(t) == IF th[t].startup THEN "drive"
              ELSE IF th[t].op = "frontend" THEN "fg_load" ELSE "acquired"

\* The Vulkan variant first yields to a confirmed translation route.  The commit marker is
\* loaded before the other words.
UpdateLoadBackend(t) ==
    /\ At(t, "update")
    /\ IF th[t].dev = VkDevice /\ Shadowed THEN Goto(t, Updated(t))
       ELSE IF th[t].dev = VkDevice /\ native_execution_access(transport, TRUE) = "blocked"
       THEN Return(t)
       ELSE th' = [th EXCEPT ![t].pc = IF backend_p = "Auto" THEN "inspect" ELSE "load_route"]
    /\ UNCHANGED <<world, mutex, guarded, published, rest>>

UpdateFastPath(t) ==
    /\ At(t, "load_route")
    /\ LET l == th[t]
           fast == /\ api_p = ApiOf(l.dev)
                   /\ ~Policies[l.sig].runtime_switching \/ sig_p = l.sig
                   /\ CASE l.dev = VkDevice -> vk_p = l.dev
                        [] l.dev = NoDev -> TRUE
                        [] OTHER -> d3d_p = l.dev
       IN  Goto(t, IF fast THEN Updated(t) ELSE "inspect")
    /\ UNCHANGED <<world, mutex, guarded, published, rest>>

----------------------------------------------------------------------------
(* update_low_latency_tech: the slow path.                                  *)

\* The first critical section and the decision that follows it.
UpdateInspect(t) ==
    /\ At(t, "inspect") /\ mutex = "free"
    /\ LET l == th[t]
           same == /\ current # NoTech /\ active.api = ApiOf(l.dev)
                   /\ l.dev = NoDev \/ active.dev \in {NoDev, l.dev}
           route_changed == active.sig # l.sig /\ Policies[l.sig].runtime_switching
       IN  \/ /\ current = NoTech /\ Goto(t, "create")
           \/ /\ current # NoTech /\ ~same /\ Goto(t, "deinit")
           \/ /\ same /\ ~route_changed /\ Goto(t, "adopt")
           \/ /\ same /\ route_changed
              /\ Goto(t, IF active.api # "Vulkan" /\ active.backend = "AntiLag2"
                         THEN "grace" ELSE "deinit")
    /\ UNCHANGED <<world, mutex, guarded, published, rest>>

\* The route is right: a backend created without a device adopts the caller's.  The
\* Vulkan path stores its device without the mutex.
UpdateAdopt(t) ==
    /\ At(t, "adopt")
    /\ LET d == th[t].dev IN
       CASE d = VkDevice -> vk_p' = VkDevice /\ UNCHANGED <<active, d3d_p>>
         [] d = D3DDevice /\ active.dev = NoDev ->
              /\ mutex = "free"
              /\ active' = [active EXCEPT !.dev = d] /\ d3d_p' = d /\ UNCHANGED vk_p
         [] OTHER -> UNCHANGED <<active, d3d_p, vk_p>>
    /\ Goto(t, Updated(t))
    /\ UNCHANGED <<world, mutex, current, backend_p, api_p, tech_p, sig_p, rest>>

\* pending_routing_signature and delay_deinit are plain fields touched without a lock.
GraceLoad(t) ==
    /\ At(t, "grace")
    /\ IF pending # th[t].sig
       THEN /\ pending' = th[t].sig /\ delay_deinit' = Grace /\ Goto(t, Updated(t))
       ELSE /\ th' = [th EXCEPT ![t].delay = delay_deinit,
                        ![t].pc = IF delay_deinit > 0 THEN "grace_store" ELSE "deinit"]
            /\ UNCHANGED <<pending, delay_deinit>>
    /\ UNCHANGED <<world, mutex, guarded, published, observer, forced, fg, applied_fg,
                   pool, leaked>>

GraceStore(t) ==
    /\ At(t, "grace_store")
    /\ delay_deinit' = th[t].delay - 1
    /\ th' = [th EXCEPT ![t].delay = 0,
                        ![t].pc = IF th[t].delay - 1 > 0 THEN Updated(t) ELSE "deinit"]
    /\ UNCHANGED <<world, mutex, guarded, published, observer, pending, forced, fg,
                   applied_fg, pool, leaked>>

----------------------------------------------------------------------------
(* deinit_current_tech, with the mutex held throughout.                     *)

AfterDeinit(t) == IF th[t].op = "force" THEN "forced" ELSE "create"

\* Mutant: the commit marker outlives the words behind it.
DeinitBegin_KeepsMarker(t) ==
    /\ At(t, "deinit") /\ mutex = "free"
    /\ observer' = FALSE
    /\ IF current = NoTech
       THEN /\ UNCHANGED <<mutex, backend_p>>
            /\ IF th[t].op = "force" THEN Goto(t, "forced") ELSE Return(t)
       ELSE mutex' = t /\ UNCHANGED backend_p /\ Goto(t, "withdraw")
    /\ UNCHANGED <<world, guarded, api_p, tech_p, d3d_p, vk_p, sig_p, delay_deinit, pending,
                   forced, fg, applied_fg, pool, leaked>>

\* Mutant: the observer survives its executor.
DeinitBegin_KeepsObserver(t) ==
    /\ At(t, "deinit") /\ mutex = "free"
    /\ UNCHANGED observer
    /\ IF current = NoTech
       THEN /\ UNCHANGED <<mutex, backend_p>>
            /\ IF th[t].op = "force" THEN Goto(t, "forced") ELSE Return(t)
       ELSE mutex' = t /\ backend_p' = "Auto" /\ Goto(t, "withdraw")
    /\ UNCHANGED <<world, guarded, api_p, tech_p, d3d_p, vk_p, sig_p, delay_deinit, pending,
                   forced, fg, applied_fg, pool, leaked>>

\* The observer goes first, then the commit marker.
DeinitBegin(t) ==
    /\ At(t, "deinit") /\ mutex = "free"
    /\ observer' = FALSE
    /\ IF current = NoTech
       THEN /\ UNCHANGED <<mutex, backend_p>>
            /\ IF th[t].op = "force" THEN Goto(t, "forced") ELSE Return(t)
       ELSE mutex' = t /\ backend_p' = "Auto" /\ Goto(t, "withdraw")
    /\ UNCHANGED <<world, guarded, api_p, tech_p, d3d_p, vk_p, sig_p, delay_deinit, pending,
                   forced, fg, applied_fg, pool, leaked>>

\* Mutant: the published pointer is not withdrawn.
Withdraw_KeepsTech(t) ==
    /\ At(t, "withdraw")
    /\ d3d_p' = NoDev /\ vk_p' = NoDev /\ sig_p' = 0 /\ Goto(t, "destroy")
    /\ UNCHANGED <<world, mutex, guarded, backend_p, tech_p, api_p, rest>>

Withdraw(t) ==
    /\ At(t, "withdraw")
    /\ tech_p' = NoTech /\ d3d_p' = NoDev /\ vk_p' = NoDev /\ sig_p' = 0
    /\ Goto(t, "destroy")
    /\ UNCHANGED <<world, mutex, guarded, backend_p, api_p, rest>>

\* Mutant: the applied state of the old backend is remembered.
Destroy_KeepsApplied(t) ==
    /\ At(t, "destroy")
    /\ pool' = [pool EXCEPT ![current] = Empty] /\ current' = NoTech
    /\ active' = [active EXCEPT !.backend = "Auto", !.dev = NoDev, !.sig = 0]
    /\ pending' = 0 /\ fg' = "off" /\ mutex' = "free" /\ Goto(t, AfterDeinit(t))
    /\ UNCHANGED <<world, published, observer, delay_deinit, forced, leaked, applied_fg>>

\* deinit() and delete, then the controls are forgotten; active_api and delay_deinit keep
\* their values.
Destroy(t) ==
    /\ At(t, "destroy")
    /\ pool' = [pool EXCEPT ![current] = Empty] /\ current' = NoTech
    /\ active' = [active EXCEPT !.backend = "Auto", !.dev = NoDev, !.sig = 0]
    /\ pending' = 0 /\ applied_fg' = "none" /\ fg' = "off"
    /\ mutex' = "free" /\ Goto(t, AfterDeinit(t))
    /\ UNCHANGED <<world, published, observer, delay_deinit, forced, leaked>>

----------------------------------------------------------------------------
(* Creation, with the mutex held throughout.                                *)

\* What the probes of the caller's API recognise at this moment.
Recognized(l) ==
    IF l.dev = VkDevice
    THEN detect_vulkan(Policies[l.sig], facts, native_execution_access(transport, TRUE))
    ELSE IF ApiOf(l.dev) = "D3D11" THEN detect_d3d11(Policies[l.sig], facts)
    ELSE detect_d3d12(Policies[l.sig], facts, l.dev = NoDev)

\* The translation layer the probe of a D3D device gives direct proof of.
Confirms(d) ==
    IF d # D3DDevice THEN {}
    ELSE IF ApiOf(d) = "D3D11" THEN (IF facts.dxvk_device THEN {"dxvk"} ELSE {})
    ELSE IF facts.vkd3d_interop /\ facts.vkd3d_device THEN {"vkd3d"} ELSE {}

Candidates(l) == build_backend_candidates(Policies[l.sig], ApiOf(l.dev), Recognized(l))

\* The candidates that can be the first whose init succeeds: any up to LatencyFlex, whose
\* init needs nothing from the machine.  XeLL and VulkanFlex need a D3D device.
InitMaySucceed(l, k) ==
    LET c == Candidates(l) IN
    /\ \E i \in 1..Len(c) : c[i] = k /\ \A j \in 1..(i-1) : c[j] # "LatencyFlex"
    /\ l.dev = NoDev => k \notin {"XeLL", "VulkanFlex", "AmdAntiLagVk"}
InitMayFail(l) == "LatencyFlex" \notin ToSet(Candidates(l))

\* A new object replaces whatever currently_active_tech holds.
Replace(id, kind, ctx) ==
    /\ pool' = [pool EXCEPT ![id] = [Empty EXCEPT !.state = "live", !.kind = kind, !.ctx = ctx],
                            ![IF current = NoTech THEN id ELSE current].state =
                                IF current = NoTech THEN "live" ELSE "lost"]
    /\ leaked' = (leaked \/ current # NoTech)
    /\ current' = id

\* Everything but the commit marker.
PublishRoute(t, id) ==
    /\ tech_p' = id /\ api_p' = ApiOf(th[t].dev) /\ sig_p' = th[t].sig
    /\ d3d_p' = (IF th[t].dev = VkDevice THEN NoDev ELSE th[t].dev)
    /\ vk_p' = (IF th[t].dev = VkDevice THEN VkDevice ELSE NoDev)

Create(t) ==
    /\ At(t, "create") /\ mutex = "free"
    /\ LET l == th[t]
           ctx == forced /\ l.dev # VkDevice
           proof == IF ctx THEN {} ELSE Confirms(l.dev)
       IN  /\ transport' = IF proof = {} THEN transport
                           ELSE confirm_transport(transport, CHOOSE p \in proof : TRUE)
           /\ confirmed' = confirmed \cup proof
           /\ \/ /\ ctx \/ InitMayFail(l)
                 /\ Return(t)
                 /\ UNCHANGED <<mutex, current, active, pool, leaked, tech_p, api_p, sig_p,
                                d3d_p, vk_p>>
              \/ \E id \in Ids \ Held, kind \in Backends :
                    /\ pool[id].state = "gone"
                    /\ IF ctx THEN kind = "XeLL" ELSE InitMaySucceed(l, kind)
                    /\ Replace(id, kind, ctx)
                    /\ active' = [backend |-> kind, api |-> ApiOf(l.dev),
                                  dev |-> l.dev, sig |-> l.sig]
                    /\ PublishRoute(t, id)
                    /\ mutex' = t /\ Goto(t, "publish_backend")
    /\ UNCHANGED <<facts, config, reloads, calls, backend_p, observer, delay_deinit, pending,
                   forced, fg, applied_fg>>

\* The commit marker goes last; the grace period ends, except for a forced context, which
\* leaves delay_deinit alone; a D3D executor other than VulkanFlex gets an observer.
PublishBackend(t) ==
    /\ At(t, "publish_backend")
    /\ LET l == th[t] IN
       /\ backend_p' = active.backend /\ pending' = 0
       /\ delay_deinit' = IF forced /\ l.dev # VkDevice THEN delay_deinit ELSE 0
       /\ IF l.dev = VkDevice \/ forced THEN UNCHANGED observer
          ELSE \E attached \in BOOLEAN :
                 /\ attached => /\ l.dev # NoDev /\ Policies[l.sig].vulkanflex
                                /\ active.backend \notin {"VulkanFlex", "AmdAntiLagVk"}
                 /\ observer' = attached
       /\ mutex' = "free"
       /\ IF l.op = "force" THEN Return(t) ELSE Goto(t, Updated(t))
    /\ UNCHANGED <<world, guarded, api_p, tech_p, d3d_p, vk_p, sig_p, forced, fg, applied_fg,
                   pool, leaked>>

----------------------------------------------------------------------------
(* After the update: controls, then the virtual call.                       *)

\* VulkanFlexOnAcquire goes on only when the published backend is VulkanFlex.
OnAcquire(t) ==
    /\ At(t, "acquired")
    /\ IF backend_p = "VulkanFlex" THEN Goto(t, "load_tech") ELSE Return(t)
    /\ UNCHANGED <<world, mutex, guarded, published, rest>>

\* SetAsyncFrameMarker: the cadence router changed its mind about fg_ (either way).
SetAsyncFrameMarker(t) ==
    /\ At(t, "cadence")
    /\ fg' = (IF fg = "on" THEN "off" ELSE "on") /\ Goto(t, "fg_load")
    /\ UNCHANGED <<world, mutex, guarded, published, observer, delay_deinit, pending,
                   forced, applied_fg, pool, leaked>>

\* update_effective_fg_state; update_enabled_override and the plain path of
\* apply_frontend_sleep_mode have the same shape on words of their own.
FgLoad(t) ==
    /\ At(t, "fg_load")
    /\ th' = [th EXCEPT ![t].fg = fg, ![t].pc = IF applied_fg = fg THEN "load_tech" ELSE "fg_apply"]
    /\ UNCHANGED <<world, mutex, guarded, published, rest>>

FgApply(t) ==
    /\ At(t, "fg_apply") /\ mutex = "free"
    /\ IF current = NoTech \/ applied_fg = th[t].fg
       THEN UNCHANGED <<pool, applied_fg>>
       ELSE /\ pool' = [pool EXCEPT ![current].fg = th[t].fg]
            /\ applied_fg' = th[t].fg
    /\ Goto(t, "load_tech")
    /\ UNCHANGED <<world, mutex, guarded, published, observer, delay_deinit, pending,
                   forced, fg, leaked>>

LoadTech(t) ==
    /\ At(t, "load_tech")
    /\ IF tech_p = NoTech THEN Return(t)
       ELSE th' = [th EXCEPT ![t].pc = "in_backend", ![t].tech = tech_p, ![t].fg = "off"]
    /\ UNCHANGED <<world, mutex, guarded, published, rest>>

\* The virtual call on the pointer that was loaded.
BackendCall(t) ==
    /\ At(t, "in_backend") /\ Return(t)
    /\ UNCHANGED <<world, mutex, guarded, published, rest>>

\* VulkanFlexBeginPresent, CompletePresent, OnDestroySwapchain, OnStructuralStall: the
\* published route must be VulkanFlex on this very device.
PresentCheck(t) ==
    /\ At(t, "present")
    /\ IF api_p = "Vulkan" /\ vk_p = th[t].dev /\ backend_p = "VulkanFlex"
       THEN Goto(t, "load_tech") ELSE Return(t)
    /\ UNCHANGED <<world, mutex, guarded, published, rest>>

\* get_low_latency_context: asking during a grace period cuts it short.
get_low_latency_context(t) ==
    /\ At(t, "context") /\ mutex = "free"
    /\ delay_deinit' = IF current # NoTech /\ delay_deinit > 0 THEN 1 ELSE delay_deinit
    /\ Return(t)
    /\ UNCHANGED <<world, mutex, guarded, published, observer, pending, forced, fg,
                   applied_fg, pool, leaked>>

\* set_low_latency_context: remember the context, tear down, then create from it or wait.
set_low_latency_context(t) ==
    /\ At(t, "force")
    /\ forced' = ~forced /\ Goto(t, "deinit")
    /\ UNCHANGED <<world, mutex, guarded, published, observer, delay_deinit, pending, fg,
                   applied_fg, pool, leaked>>

ForcedNext(t) ==
    /\ At(t, "forced")
    /\ IF forced THEN Goto(t, "create") ELSE Return(t)
    /\ UNCHANGED <<world, mutex, guarded, published, rest>>

----------------------------------------------------------------------------
update_low_latency_tech(t) ==
    \/ UpdateLoadBackend(t) \/ UpdateFastPath(t) \/ UpdateInspect(t) \/ UpdateAdopt(t)
    \/ GraceLoad(t) \/ GraceStore(t) \/ Create(t) \/ PublishBackend(t)

deinit_current_tech(t) == DeinitBegin(t) \/ Withdraw(t) \/ Destroy(t)

Step(t) ==
    \/ Drive(t) \/ update_low_latency_tech(t) \/ deinit_current_tech(t)
    \/ OnAcquire(t) \/ SetAsyncFrameMarker(t) \/ FgLoad(t) \/ FgApply(t) \/ LoadTech(t)
    \/ BackendCall(t) \/ PresentCheck(t) \/ get_low_latency_context(t)
    \/ set_low_latency_context(t) \/ ForcedNext(t)

Next ==
    \/ \E s \in Signatures : publish_snapshot(s)
    \/ \E t \in Threads, op \in Ops, d \in {D3DDevice, VkDevice, NoDev} : Call(t, op, d)
    \/ \E t \in Threads : Step(t)

Spec == Init /\ [][Next]_vars

----------------------------------------------------------------------------
(* Properties.                                                              *)

\* When no thread is inside the critical sections, the six words that lock-free callbacks
\* read describe the backend the mutex guards: the same object, kind and signature, and
\* nothing at all when there is no backend.  A torn-down object is never left published
\* (deinit_current_tech withdraws before it deletes, the creation commits last).
PublishedRoute ==
    mutex = "free" =>
        /\ tech_p = current /\ sig_p = active.sig
        /\ backend_p = (IF current = NoTech THEN "Auto" ELSE pool[current].kind)
        /\ current # NoTech => pool[current].state = "live" /\ api_p = active.api

\* A thread that finds the commit marker of a finished route finds the rest of the route
\* too, at every moment of a switch: the marker is withdrawn first and written last.
CommitMarker ==
    ~leaked /\ backend_p # "Auto" =>
        /\ tech_p # NoTech /\ pool[tech_p].state = "live" /\ pool[tech_p].kind = backend_p
        /\ sig_p # 0

\* The frame-generation state recorded as applied is the one the current backend was
\* given: a teardown forgets it, so that the next backend is told again.
ControlsApplied ==
    ~leaked /\ mutex = "free" /\ current # NoTech /\ applied_fg # "none" =>
        pool[current].fg = applied_fg

\* A translation observer runs only behind an executor that is not VulkanFlex itself.
ObserverBehindExecutor ==
    ~leaked /\ mutex = "free" /\ observer => active.backend \notin {"VulkanFlex", "AmdAntiLagVk"}

\* The routing policy is obeyed by whatever runs: an explicit output without fallback
\* admits no other backend on that API, and a backend switched off by the policy in force
\* when the route was made is not running.
PolicyObeyed ==
    current # NoTech /\ ~pool[current].ctx =>
        LET s == Policies[active.sig] IN
        /\ s.output[active.api] # "Auto" /\ ~s.allow_fallback =>
              active.backend = s.output[active.api]
        /\ active.backend = "VulkanFlex" => s.vulkanflex
        /\ backend_supported(active.api, active.backend)

\* low_latency.cpp:588: "Withdraw the published route before destroying the backend so
\* fast paths cannot treat a backend undergoing teardown as stable."  Violated: a callback
\* that loaded the pointer before the withdrawal is still inside the backend after delete.
NoCallAfterDelete ==
    \A t \in Threads : At(t, "in_backend") => pool[th[t].tech].state # "gone"

=============================================================================
