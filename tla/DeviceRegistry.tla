--------------------------- MODULE DeviceRegistry ---------------------------
(***************************************************************************)
(* vulkan_device_registry.cpp and the Vulkan hooks that keep it.           *)
(*                                                                         *)
(* Three fixed tables of atomic slots (devices, queues, swapchains) are    *)
(* written under g_writer_mutex and read without it: a mutation makes      *)
(* g_generation odd, stores its fields one at a time and makes it even     *)
(* again; a reader takes an even generation, scans, reads the fields one   *)
(* at a time and throws the result away when the generation moved.         *)
(* Device and queue lookups are cached per thread for as long as the       *)
(* generation stays the same.                                              *)
(*                                                                         *)
(* A row is [id, a, b]:  device    a = dispatch table   b = semaphore      *)
(*                       queue     a = device           b = its dispatch   *)
(*                       swapchain a = device           b = create flags   *)
(* The dispatch table stands for the function pointers, flags and          *)
(* capabilities of one incarnation of the device and is a fresh number.    *)
(* The driver's own truth (which handles are live, who owns them) is kept  *)
(* beside the registry, and handles come back after they are destroyed.    *)
(* The application keeps Vulkan's rule that an object is destroyed by      *)
(* nobody while somebody uses it.                                          *)
(***************************************************************************)
EXTENDS LowLatency2, Sequences

CONSTANTS Threads, Devices, Queues, Swapchains, None,
          DeviceSlots, QueueSlots, SwapchainSlots,  \* kMaxTracked*, shrunk
          Platforms, Policies,                      \* what CreateDevice may meet
          MaxCalls,                                 \* bound on handlers entered, creations aside
          MaxObjects                                \* bound on fresh dispatch tables and semaphores

VARIABLES
    mem,        \* g_devices, g_queues, g_swapchains
    gen,        \* g_generation
    lock,       \* holder of g_writer_mutex
    tls,        \* g_tls_device and g_tls_queue of each thread
    th,         \* what each thread is doing
    live,       \* driver: dispatch of the live incarnation of each device handle
    owner,      \* driver: device a live queue or swapchain handle belongs to
    sems,       \* driver: device of each semaphore ever created, or "destroyed"
    passes,     \* per dispatch table: is VK_NV_low_latency2 passed through to the driver
    calls,      \* handlers entered so far, creations aside
    created     \* verdicts on the last hkvkCreateDevice

\* A null handle is no handle, and handles of different kinds are never mixed up.
ASSUME RegistryAssumption ==
    /\ DeviceSlots \in Nat /\ QueueSlots \in Nat /\ SwapchainSlots \in Nat
    /\ None \notin Threads \cup Devices \cup Queues \cup Swapchains \cup Nat
    /\ Devices \cap (Queues \cup Swapchains) = {} /\ Queues \cap Swapchains = {}
    /\ "destroyed" \notin Devices
    /\ Platforms \subseteq [api12 : BOOLEAN, exts : SUBSET Extensions, antilag : BOOLEAN]

vars == <<mem, gen, lock, tls, th, live, owner, sems, passes, calls, created>>

Empty    == [id |-> None, a |-> None, b |-> None]
NoEntry  == [key |-> None, g |-> 0, a |-> None, b |-> None,
             notify |-> None, resolved |-> FALSE]
Idle     == [pc |-> "idle", op |-> "none", dev |-> None, tab |-> "dev", key |-> None,
             g |-> 0, i |-> 0, a |-> None, b |-> None, flags |-> None,
             todo |-> <<>>, then |-> "idle", sem |-> None, candidates |-> {}]
Fresh    == [refused |-> FALSE, unsupported |-> {}, unbacked |-> {}]
Slots    == [dev |-> 1..DeviceSlots, queue |-> 1..QueueSlots, chain |-> 1..SwapchainSlots]

Init ==
    /\ mem = [tab \in {"dev", "queue", "chain"} |-> [i \in Slots[tab] |-> Empty]]
    /\ gen = 2 /\ lock = None
    /\ tls = [t \in Threads |-> [dev |-> NoEntry, queue |-> NoEntry]]
    /\ th = [t \in Threads |-> Idle]
    /\ live = [d \in Devices |-> None]
    /\ owner = [h \in Queues \cup Swapchains |-> None]
    /\ sems = <<>> /\ passes = <<>> /\ calls = 0 /\ created = Fresh

-----------------------------------------------------------------------------
\* An application asks for extensions it was shown, and with the NV extension
\* for those it depends on.
Requests(platform, visible) ==
    {r \in [exts : SUBSET visible, features : {{}, {"id", "id2"}}, group : BOOLEAN,
            antilag : {"absent", "on", "off"}] :
        /\ "nv" \in r.exts => prerequisites_supported([platform EXCEPT !.exts = r.exts])
        /\ r.antilag # "absent" => "antilag" \in r.exts}

\* One vkCreateDevice and what can be said of it.  refused: the application was
\* shown what it asked for and is turned away for another reason than a group.
Creation(p, s, r, procs) ==
    LET refusal == Refusal(p, s, r)
        handed  == HandedToDriver(p, s, r)
        state   == DeviceState(p, s, r, procs)
        enabled == state.features \cup (IF state.antilag THEN {"antilag"} ELSE {})
                       \cup (IF state.nv = "native" THEN {"nv"} ELSE {})
    IN  [ok       |-> refusal = "none",
         native   |-> state.nv = "native",
         verdicts |-> [refused     |-> refusal \notin {"none", "device_group"},
                       unsupported |-> IF refusal = "none" THEN handed \ p.exts ELSE {},
                       unbacked    |-> IF refusal = "none" THEN enabled \ handed ELSE {}]]

Creations ==
    UNION {{Creation(p, s, r, procs) : r \in Requests(p, enumerate_policy_extensions(p, s)),
                                       procs \in BOOLEAN} : p \in Platforms, s \in Policies}

-----------------------------------------------------------------------------
\* Lookups: find_*_slot_writer.
SlotOf(tab, key) == {i \in Slots[tab] : mem[tab][i].id = key}
\* The slots that belong to a device, one after the other.
RowsOf(tab, dev) ==
    LET rows == {i \in Slots[tab] : mem[tab][i].a = dev}
    IN  CHOOSE f \in [1..Cardinality(rows) -> rows] : \A i \in rows : \E n \in DOMAIN f : f[n] = i
\* The slot a registration writes: the handle's own, or else the first free one.
Target(tab, key) ==
    LET own  == SlotOf(tab, key)
        free == SlotOf(tab, None)
    IN  IF own # {} THEN own ELSE {i \in free : \A j \in free : i <= j}

Store(tab, i, field, value) == [tab |-> tab, i |-> i, field |-> field, value |-> value]

\* publish_device_slot, and the same order in register_queue and
\* register_swapchain: the identity goes away first and comes back last.
Publish(tab, i, key, a, b) ==
    <<Store(tab, i, "id", None), Store(tab, i, "a", a), Store(tab, i, "b", b),
      Store(tab, i, "id", key)>>
\* clear_device_slot and the bodies of the erase_* loops.
Clear(tab, i) ==
    <<Store(tab, i, "id", None), Store(tab, i, "a", None), Store(tab, i, "b", None)>>

RefreshQueues(dev, dispatch) ==
    LET rows == RowsOf("queue", dev)
    IN  [n \in 1 .. Len(rows) |-> Store("queue", rows[n], "b", dispatch)]

\* A mutant: the rows of a device stay behind when it goes.
EraseRows_Nothing(tab, dev) == <<>>

EraseRows(tab, dev) ==
    LET rows == RowsOf(tab, dev)
    IN  [n \in 1 .. 3 * Len(rows) |->
            Store(tab, rows[(n + 2) \div 3], <<"id", "a", "b">>[((n - 1) % 3) + 1], None)]

-----------------------------------------------------------------------------
\* The mutations.  Each takes the mutex and, unless it returns early, leaves a
\* list of stores and where to go once the generation is even again.
NoMutation(then) == [todo |-> <<>>, then |-> then, sem |-> None]

register_device(me) ==
    IF Target("dev", me.dev) = {} THEN NoMutation("idle")
    ELSE LET i == CHOOSE i \in Target("dev", me.dev) : TRUE
         IN  [todo |-> Publish("dev", i, me.dev, live[me.dev], None)
                          \o RefreshQueues(me.dev, live[me.dev]),
              then |-> "idle", sem |-> None]

unregister_device(me) ==
    IF SlotOf("dev", me.dev) = {} THEN NoMutation("driver_destroy")
    ELSE LET i == CHOOSE i \in SlotOf("dev", me.dev) : TRUE
         IN  [todo |-> Clear("dev", i) \o EraseRows("queue", me.dev) \o EraseRows("chain", me.dev),
              then |-> "destroy_sem", sem |-> mem.dev[i].b]

register_queue(me) ==
    IF SlotOf("dev", me.dev) = {} \/ Target("queue", me.key) = {} THEN NoMutation("idle")
    ELSE LET d == CHOOSE i \in SlotOf("dev", me.dev) : TRUE
             i == CHOOSE i \in Target("queue", me.key) : TRUE
         IN  [todo |-> Publish("queue", i, me.key, me.dev, mem.dev[d].a), then |-> "idle", sem |-> None]

register_swapchain(me) ==
    IF Target("chain", me.key) = {} THEN NoMutation("idle")
    ELSE LET i == CHOOSE i \in Target("chain", me.key) : TRUE
         IN  [todo |-> Publish("chain", i, me.key, me.dev, me.flags), then |-> "idle", sem |-> None]

unregister_swapchain(me) ==
    IF SlotOf("chain", me.key) = {} THEN NoMutation("driver_destroy")
    ELSE LET i == CHOOSE i \in SlotOf("chain", me.key) : TRUE
         IN  [todo |-> Clear("chain", i), then |-> "driver_destroy", sem |-> None]

\* A mutant: installed without looking whether another thread was first.
ensure_low_latency_semaphore_Blind(me) ==
    LET i == CHOOSE i \in SlotOf("dev", me.dev) : TRUE
    IN  [todo |-> <<Store("dev", i, "b", me.sem)>>, then |-> "idle", sem |-> None]

\* ensure_low_latency_semaphore after the driver made a semaphore: the first
\* one is installed, a later one is surplus.
ensure_low_latency_semaphore(me) ==
    IF SlotOf("dev", me.dev) = {} THEN [NoMutation("destroy_sem") EXCEPT !.sem = me.sem]
    ELSE LET i == CHOOSE i \in SlotOf("dev", me.dev) : TRUE
         IN  IF mem.dev[i].b = None
             THEN [todo |-> <<Store("dev", i, "b", me.sem)>>, then |-> "idle", sem |-> None]
             ELSE [NoMutation("destroy_sem") EXCEPT !.sem = me.sem]

\* A mutant: the withdrawn semaphore stays in the row.
destroy_low_latency_semaphore_Keeps(me) ==
    LET found == {i \in SlotOf("dev", me.dev) : mem.dev[i].b # None}
    IN  IF found = {} THEN NoMutation("idle")
        ELSE [NoMutation("destroy_sem") EXCEPT !.sem = mem.dev[CHOOSE i \in found : TRUE].b]

destroy_low_latency_semaphore(me) ==
    LET found == {i \in SlotOf("dev", me.dev) : mem.dev[i].b # None}
    IN  IF found = {} THEN NoMutation("idle")
        ELSE LET i == CHOOSE i \in found : TRUE
             IN  [todo |-> <<Store("dev", i, "b", None)>>, then |-> "destroy_sem", sem |-> mem.dev[i].b]

Mutation(me) ==
    CASE me.op = "create_device"     -> register_device(me)
      [] me.op = "destroy_device"    -> unregister_device(me)
      [] me.op = "get_queue"         -> register_queue(me)
      [] me.op = "create_swapchain"  -> register_swapchain(me)
      [] me.op = "destroy_swapchain" -> unregister_swapchain(me)
      [] me.op = "init_ll"           -> ensure_low_latency_semaphore(me)
      [] me.op = "destroy_ll"        -> destroy_low_latency_semaphore(me)

\* Leaving a handler forgets its locals.
Goto(me, pc) == IF pc = "idle" THEN Idle ELSE [me EXCEPT !.pc = pc]

\* MutationScope() under the mutex.
MutationBegin(t) ==
    /\ th[t].pc = "lock" /\ lock = None
    /\ LET m == Mutation(th[t])
       IN  IF m.todo = <<>>
           THEN /\ th' = [th EXCEPT ![t] = Goto([@ EXCEPT !.sem = m.sem], m.then)]
                /\ UNCHANGED <<lock, gen>>
           ELSE /\ gen' = gen + 1 /\ lock' = t
                /\ th' = [th EXCEPT ![t] = [@ EXCEPT !.pc = "store", !.todo = m.todo,
                                                     !.then = m.then, !.sem = m.sem]]
    /\ UNCHANGED <<mem, tls, live, owner, sems, passes, calls, created>>

MutationStore(t) ==
    /\ th[t].pc = "store" /\ th[t].todo # <<>>
    /\ LET s == Head(th[t].todo)
       IN  mem' = [mem EXCEPT ![s.tab][s.i][s.field] = s.value]
    /\ th' = [th EXCEPT ![t].todo = Tail(@)]
    /\ UNCHANGED <<gen, lock, tls, live, owner, sems, passes, calls, created>>

\* ~MutationScope(), then the mutex is released.
MutationEnd(t) ==
    /\ th[t].pc = "store" /\ th[t].todo = <<>>
    /\ gen' = gen + 1 /\ lock' = None
    /\ th' = [th EXCEPT ![t] = Goto(@, @.then)]
    /\ UNCHANGED <<mem, tls, live, owner, sems, passes, calls, created>>

-----------------------------------------------------------------------------
\* Lock-free lookups: cached_device_state, cached_queue_state and
\* get_swapchain_state (which has no cache).
Lookup(me, tab, key) == [me EXCEPT !.pc = "gen", !.tab = tab, !.key = key]

Entry(t) == IF th[t].tab = "chain" THEN NoEntry ELSE tls[t][th[t].tab]

\* A mutant: an entry is believed whatever generation it is of.
CacheHit_AnyGeneration(t) == Entry(t).key = th[t].key

CacheHit(t) == Entry(t).key = th[t].key /\ Entry(t).g = gen

\* stable_generation, then the thread's cache.
ReadGeneration(t) ==
    /\ th[t].pc = "gen" /\ gen % 2 = 0
    /\ LET e == Entry(t)
       IN  IF CacheHit(t)
           THEN th' = [th EXCEPT ![t] = [@ EXCEPT !.pc = "got", !.a = e.a, !.b = e.b]]
           ELSE th' = [th EXCEPT ![t] = [@ EXCEPT !.pc = "scan", !.g = gen, !.i = 1]]
    /\ UNCHANGED <<mem, gen, lock, tls, live, owner, sems, passes, calls, created>>

\* The generation is looked at again before a result is believed.
StillValid(me, found) ==
    gen = me.g /\ (found => mem[me.tab][me.i].id = me.key)

\* The end of snapshot_device, snapshot_queue or the swapchain loop.
Conclude(t, found, a, b) ==
    LET me == th[t]
        e  == [key |-> me.key, g |-> me.g, a |-> a, b |-> b, resolved |-> found,
               notify |-> IF found /\ me.tab = "queue" /\ passes[b] THEN b ELSE None]
    IN  IF StillValid(me, found)
        THEN /\ th' = [th EXCEPT ![t] = [@ EXCEPT !.pc = "got", !.a = a, !.b = b]]
             /\ tls' = IF me.tab = "chain" THEN tls ELSE [tls EXCEPT ![t][me.tab] = e]
        ELSE th' = [th EXCEPT ![t].pc = "gen"] /\ UNCHANGED tls

Scan(t) ==
    /\ th[t].pc = "scan"
    /\ IF th[t].i \notin Slots[th[t].tab]
       THEN Conclude(t, FALSE, None, None)
       ELSE /\ th' = [th EXCEPT ![t] = IF mem[@.tab][@.i].id = @.key
                                       THEN [@ EXCEPT !.pc = "read_a"] ELSE [@ EXCEPT !.i = th[t].i + 1]]
            /\ UNCHANGED tls
    /\ UNCHANGED <<mem, gen, lock, live, owner, sems, passes, calls, created>>

ReadField(t, from, to) ==
    /\ th[t].pc = from
    /\ th' = [th EXCEPT ![t] = IF from = "read_a"
                               THEN [@ EXCEPT !.pc = to, !.a = mem[th[t].tab][th[t].i].a]
                               ELSE [@ EXCEPT !.pc = to, !.b = mem[th[t].tab][th[t].i].b]]
    /\ UNCHANGED <<mem, gen, lock, tls, live, owner, sems, passes, calls, created>>

Validate(t) ==
    /\ th[t].pc = "check"
    /\ Conclude(t, TRUE, th[t].a, th[t].b)
    /\ UNCHANGED <<mem, gen, lock, live, owner, sems, passes, calls, created>>

-----------------------------------------------------------------------------
\* The handlers.  dev is the device a handler uses: nobody destroys it, and no
\* handler starts on a handle that is not live.
Using(d) == {t \in Threads : th[t].pc # "idle" /\ th[t].dev = d}
Begin(t, op, d) == [Idle EXCEPT !.op = op, !.dev = d]
Enter(t) == th[t].pc = "idle" /\ calls < MaxCalls /\ calls' = calls + 1

CreateDevice(t) ==
    /\ th[t].pc = "idle" /\ Len(passes) < MaxObjects
    /\ \E d \in {x \in Devices : live[x] = None /\ Using(x) = {}}, c \in Creations :
          /\ created' = c.verdicts
          /\ IF c.ok
             THEN /\ live' = [live EXCEPT ![d] = Len(passes) + 1]
                  /\ passes' = Append(passes, c.native)
                  /\ th' = [th EXCEPT ![t] = [Begin(t, "create_device", d) EXCEPT !.pc = "lock"]]
             ELSE UNCHANGED <<live, passes, th>>
    /\ UNCHANGED <<mem, gen, lock, tls, owner, sems, calls>>

\* hkvkDestroyDevice: the registry lets go first, the driver destroys last.
DestroyDevice(t, d) ==
    /\ Enter(t) /\ live[d] # None /\ Using(d) = {}
    /\ th' = [th EXCEPT ![t] = [Begin(t, "destroy_device", d) EXCEPT !.pc = "lock"]]
    /\ UNCHANGED <<mem, gen, lock, tls, live, owner, sems, passes, created>>

\* Handlers that begin with a device lookup: hkvkGetDeviceQueue(2), the
\* swapchain hooks, hkvkGetDeviceProcAddr, the latency hooks and the NvAPI
\* calls.  They need a device whose creation has returned.
DeviceCall(t, op, d) ==
    /\ Enter(t) /\ live[d] # None
    /\ \A u \in Using(d) : th[u].op \notin {"create_device", "destroy_device"}
    /\ op = "sleep" => \A u \in Using(d) : th[u].op # "destroy_ll"
    /\ th' = [th EXCEPT ![t] = Lookup(Begin(t, op, d), "dev", d)]
    /\ UNCHANGED <<mem, gen, lock, tls, live, owner, sems, passes, created>>

\* Handlers that begin with a queue lookup: hkvkQueuePresentKHR and
\* hkvkQueueNotifyOutOfBandNV; and the swapchain lookup of a precision profile.
HandleCall(t, op, tab, h) ==
    /\ Enter(t) /\ owner[h] # None
    /\ \A u \in Using(owner[h]) :
          /\ th[u].op # "destroy_device"
          /\ th[u].op \in {"create_swapchain", "destroy_swapchain"} => th[u].key # h
    /\ th' = [th EXCEPT ![t] = Lookup(Begin(t, op, owner[h]), tab, h)]
    /\ UNCHANGED <<mem, gen, lock, tls, live, owner, sems, passes, created>>

\* NvAPI_Vulkan_DestroyLowLatencyDevice, which a caller does not issue while it
\* still sleeps on the semaphore.
DestroyLowLatencyDevice(t, d) ==
    /\ Enter(t) /\ live[d] # None
    /\ \A u \in Using(d) : th[u].op \notin {"create_device", "destroy_device", "sleep"}
    /\ th' = [th EXCEPT ![t] = [Begin(t, "destroy_ll", d) EXCEPT !.pc = "lock"]]
    /\ UNCHANGED <<mem, gen, lock, tls, live, owner, sems, passes, created>>

\* A queue obtained through an entry point that is not hooked.
UnhookedGetQueue(d, q) ==
    /\ live[d] # None /\ owner[q] = None
    /\ \A u \in Using(d) : th[u].op \notin {"create_device", "destroy_device"}
    /\ owner' = [owner EXCEPT ![q] = d]
    /\ UNCHANGED <<mem, gen, lock, tls, th, live, sems, passes, calls, created>>

\* hkvkGetDeviceQueue after its lookup: the driver names the queue, which is
\* then registered.
GotForQueue(t) ==
    /\ th[t].pc = "got" /\ th[t].op = "get_queue"
    /\ \E q \in {x \in Queues : owner[x] \in {None, th[t].dev}} :
          /\ owner' = [owner EXCEPT ![q] = th[t].dev]
          /\ th' = [th EXCEPT ![t] = [@ EXCEPT !.pc = "lock", !.key = q]]
    /\ UNCHANGED <<mem, gen, lock, tls, live, sems, passes, calls, created>>

\* hkvkCreateSwapchainKHR after its lookup.
GotForCreateSwapchain(t) ==
    /\ th[t].pc = "got" /\ th[t].op = "create_swapchain"
    /\ \E s \in {x \in Swapchains : owner[x] = None} :
          /\ owner' = [owner EXCEPT ![s] = th[t].dev]
          /\ th' = [th EXCEPT ![t] = [@ EXCEPT !.pc = "lock", !.key = s, !.flags = live[th[t].dev]]]
    /\ UNCHANGED <<mem, gen, lock, tls, live, sems, passes, calls, created>>

\* hkvkDestroySwapchainKHR after its lookup.
GotForDestroySwapchain(t) ==
    /\ th[t].pc = "got" /\ th[t].op = "destroy_swapchain"
    /\ \E s \in {x \in Swapchains : owner[x] = th[t].dev} :
          /\ \A u \in Threads \ {t} : th[u].key # s
          /\ th' = [th EXCEPT ![t] = [@ EXCEPT !.pc = "lock", !.key = s]]
    /\ UNCHANGED <<mem, gen, lock, tls, live, owner, sems, passes, calls, created>>

\* NvAPI_Vulkan_InitLowLatencyDevice checks that the device is registered, and
\* ensure_low_latency_semaphore looks it up again.
GotForInit(t) ==
    /\ th[t].pc = "got" /\ th[t].op \in {"init", "init_ll"}
    /\ CASE th[t].a = None -> th' = [th EXCEPT ![t] = Idle] /\ UNCHANGED sems
         [] th[t].a # None /\ th[t].op = "init" ->
               th' = [th EXCEPT ![t] = [@ EXCEPT !.pc = "gen", !.op = "init_ll"]] /\ UNCHANGED sems
         [] th[t].a # None /\ th[t].op = "init_ll" /\ th[t].b # None ->
               th' = [th EXCEPT ![t] = Idle] /\ UNCHANGED sems
         [] OTHER ->
               /\ Len(sems) < MaxObjects
               /\ sems' = Append(sems, th[t].dev)
               /\ th' = [th EXCEPT ![t] = [@ EXCEPT !.pc = "lock", !.sem = Len(sems) + 1]]
    /\ UNCHANGED <<mem, gen, lock, tls, live, owner, passes, calls, created>>

\* NvAPI_Vulkan_Sleep: signal_low_latency_semaphore with the cached handle.
GotForSleep(t) ==
    /\ th[t].pc = "got" /\ th[t].op = "sleep"
    /\ th' = [th EXCEPT ![t] = IF @.a = None \/ @.b = None THEN Idle ELSE [@ EXCEPT !.pc = "signal"]]
    /\ UNCHANGED <<mem, gen, lock, tls, live, owner, sems, passes, calls, created>>

\* The call through the dispatch pointer, and the end of a handler that only
\* needed the lookup.
Use(t) ==
    /\ \/ th[t].pc = "signal"
       \/ th[t].pc = "got" /\ th[t].op \in {"call", "present", "chain_state"}
       \/ th[t].pc = "got" /\ th[t].op = "notify" /\ tls[t].queue.resolved
    /\ th' = [th EXCEPT ![t] = Idle]
    /\ UNCHANGED <<mem, gen, lock, tls, live, owner, sems, passes, calls, created>>

\* get_native_queue_notify for a queue nobody registered: all device slots are
\* looked at under one generation.
FallbackScan(t) ==
    /\ th[t].pc = "got" /\ th[t].op = "notify" /\ ~tls[t].queue.resolved
    /\ gen % 2 = 0
    /\ th' = [th EXCEPT ![t] = [@ EXCEPT !.pc = "fallback", !.g = gen,
                 !.candidates = {mem.dev[i].a : i \in {j \in Slots["dev"] :
                             /\ mem.dev[j].id # None /\ mem.dev[j].a # None
                             /\ passes[mem.dev[j].a]}}]]
    /\ UNCHANGED <<mem, gen, lock, tls, live, owner, sems, passes, calls, created>>

\* ... and the unresolved cache entry is given that generation.
FallbackAdopt(t) ==
    /\ th[t].pc = "fallback"
    /\ IF gen # th[t].g
       THEN th' = [th EXCEPT ![t].pc = "got"] /\ UNCHANGED tls
       ELSE /\ tls' = [tls EXCEPT ![t].queue = [@ EXCEPT !.g = gen, !.resolved = TRUE,
                          !.notify = IF Cardinality(th[t].candidates) = 1
                                     THEN CHOOSE x \in th[t].candidates : TRUE ELSE None]]
            /\ th' = [th EXCEPT ![t] = Idle]
    /\ UNCHANGED <<mem, gen, lock, live, owner, sems, passes, calls, created>>

\* The driver destroys a surplus or withdrawn semaphore ...
DestroySemaphore(t) ==
    /\ th[t].pc = "destroy_sem"
    /\ sems' = IF th[t].sem = None THEN sems ELSE [sems EXCEPT ![th[t].sem] = "destroyed"]
    /\ th' = [th EXCEPT ![t] = IF @.op = "destroy_device"
                               THEN [@ EXCEPT !.pc = "driver_destroy", !.sem = None] ELSE Idle]
    /\ UNCHANGED <<mem, gen, lock, tls, live, owner, passes, calls, created>>

\* ... and the object itself.
DriverDestroy(t) ==
    /\ th[t].pc = "driver_destroy"
    /\ LET d == th[t].dev
       IN  IF th[t].op = "destroy_device"
           THEN /\ live' = [live EXCEPT ![d] = None]
                /\ owner' = [h \in DOMAIN owner |-> IF owner[h] = d THEN None ELSE owner[h]]
           ELSE owner' = [owner EXCEPT ![th[t].key] = None] /\ UNCHANGED live
    /\ th' = [th EXCEPT ![t] = Idle]
    /\ UNCHANGED <<mem, gen, lock, tls, sems, passes, calls, created>>

Next ==
    \/ \E t \in Threads :
          \/ CreateDevice(t) \/ MutationBegin(t) \/ MutationStore(t) \/ MutationEnd(t)
          \/ ReadGeneration(t) \/ Scan(t) \/ Validate(t)
          \/ ReadField(t, "read_a", "read_b") \/ ReadField(t, "read_b", "check")
          \/ GotForQueue(t) \/ GotForCreateSwapchain(t) \/ GotForDestroySwapchain(t)
          \/ GotForInit(t) \/ GotForSleep(t) \/ Use(t)
          \/ FallbackScan(t) \/ FallbackAdopt(t)
          \/ DestroySemaphore(t) \/ DriverDestroy(t)
          \/ \E d \in Devices :
                \/ DestroyDevice(t, d) \/ DestroyLowLatencyDevice(t, d)
                \/ \E op \in {"get_queue", "create_swapchain", "destroy_swapchain",
                              "call", "init", "sleep"} : DeviceCall(t, op, d)
          \/ \E q \in Queues : \E op \in {"present", "notify"} : HandleCall(t, op, "queue", q)
          \/ \E s \in Swapchains : HandleCall(t, "chain_state", "chain", s)
    \/ \E d \in Devices, q \in Queues : UnhookedGetQueue(d, q)

Spec == Init /\ [][Next]_vars

-----------------------------------------------------------------------------
Tabs   == {"dev", "queue", "chain"}
Fields == {"id", "a", "b"}
PCs    == {"idle", "lock", "store", "gen", "scan", "read_a", "read_b", "check", "got", "signal",
           "fallback", "destroy_sem", "driver_destroy"}
Ops    == {"none", "create_device", "destroy_device", "get_queue", "create_swapchain",
           "destroy_swapchain", "call", "init", "init_ll", "sleep", "destroy_ll",
           "present", "notify", "chain_state"}
\* What an atomic field of a slot holds.
Words      == Devices \cup Queues \cup Swapchains \cup Nat \cup {None}
RowType    == [id : Words, a : Words, b : Words]
StoreType  == [tab : Tabs, i : Nat, field : Fields, value : Words]
EntryType  == [key : Words, g : Nat, a : Words, b : Words, notify : Words, resolved : BOOLEAN]
ThreadType == [pc : PCs, op : Ops, dev : Devices \cup {None}, tab : Tabs, key : Words,
               g : Nat, i : Nat, a : Words, b : Words, flags : Words,
               todo : Seq(StoreType), then : {"idle", "destroy_sem", "driver_destroy"},
               sem : Words, candidates : SUBSET Words]

TypeOK ==
    /\ DOMAIN mem = Tabs /\ \A tab \in Tabs : mem[tab] \in [Slots[tab] -> RowType]
    /\ gen \in Nat /\ lock \in Threads \cup {None}
    /\ tls \in [Threads -> [dev : EntryType, queue : EntryType]]
    /\ th \in [Threads -> ThreadType]
    /\ live \in [Devices -> Nat \cup {None}]
    /\ owner \in [Queues \cup Swapchains -> Devices \cup {None}]
    /\ sems \in Seq(Devices \cup {"destroyed"}) /\ passes \in Seq(BOOLEAN)

\* What a lookup hands to a hook is the truth of this moment or nothing: the
\* function pointers of the live incarnation of the device (never those of a
\* destroyed device whose handle came back), the device a queue really
\* belongs to together with that device's pointers, the flags a swapchain was
\* really made with.  Torn reads and stale per-thread caches would break it.
DispatchIsOwners ==
    \A t \in Threads : th[t].pc = "got" /\ th[t].a # None =>
        CASE th[t].tab = "dev"   -> th[t].a = live[th[t].key]
          [] th[t].tab = "queue" -> th[t].a = owner[th[t].key] /\ th[t].b = live[th[t].a]
          [] th[t].tab = "chain" -> th[t].a = owner[th[t].key] /\ th[t].b = live[th[t].a]

\* The semaphore that a sleep signals is alive and belongs to its device, even
\* when another thread replaced the semaphore after this thread cached it.
SignalsLive ==
    \A t \in Threads : th[t].pc = "signal" => sems[th[t].b] = th[t].dev

\* No semaphore leaks: one that was created and not destroyed is installed in
\* the row of its device, or a handler still holds it and will install or
\* destroy it.
SemaphoreOwned ==
    \A s \in DOMAIN sems : sems[s] # "destroyed" =>
        \/ \E i \in Slots["dev"] : mem.dev[i].id = sems[s] /\ mem.dev[i].b = s
        \/ \E t \in Threads : th[t].sem = s
        \/ \E t \in Threads : \E n \in DOMAIN th[t].todo :
               th[t].todo[n].tab = "dev" /\ th[t].todo[n].field = "b" /\ th[t].todo[n].value = s

\* Between mutations every queue row belongs to a registered device and
\* carries the pointers of that device's row.
NoOrphanQueue ==
    gen % 2 = 0 =>
        \A i \in Slots["queue"] : mem.queue[i].id # None =>
            \E j \in Slots["dev"] : /\ mem.dev[j].id = mem.queue[i].a
                                    /\ mem.dev[j].a = mem.queue[i].b

\* An application that asks only for what enumeration showed it, together with
\* the dependencies of the extension, is not refused by hkvkCreateDevice
\* (device groups aside): enumeration and creation judge the same platform.
AdvertisedWorks == ~created.refused

\* Whatever the application asked for, hkvkCreateDevice never hands the driver
\* an extension it lacks, and records nothing as enabled that the driver was
\* not asked for.
DriverContract == created.unsupported = {} /\ created.unbacked = {}

=============================================================================
