--------------------------- MODULE AudioTimeline ---------------------------
(***************************************************************************)
(* AudioFlex: the WASAPI observer (audio_hooks.cpp, audio_timeline.cpp).    *)
(* COM objects are known by their addresses alone, and no table forgets an  *)
(* address, while Windows hands the addresses of released objects out       *)
(* again.  A stream is initialized once, by one control thread; any number  *)
(* of threads then poll GetCurrentPadding while it is started and stopped.  *)
(*                                                                          *)
(* Objects carry an id that the code does not have: the values in a client  *)
(* slot are the ids of the stream they were read from, 0 when unset, so a   *)
(* value that outlives its stream shows.  Probes of hash tables are one     *)
(* step; statistics, formats and hook attachment are left out.              *)
(***************************************************************************)
EXTENDS AudioModel, Sequences, FiniteSets

CONSTANTS
    Addresses,                \* addresses of audio client interfaces
    Pollers,                  \* application threads in GetCurrentPadding
    ClientSlots,              \* kClientSlots, 32 in the code
    Interval,                 \* clock_probe_interval_ms
    Requests,                 \* period requests with the range the engine reports
    TargetUs, MaxReduction,   \* period_target_us, period_max_reduction_percent
    Policies,                 \* adaptive_period settings
    MaxStreams, MaxLive,      \* bounds: clients activated, clients at one time
    MaxTime,                  \* bound: clock
    MaxDiscoveries            \* bound: endpoints handed to the application

ASSUME AudioAssumptions ==
    /\ ClientSlots \in Nat \ {0} /\ MaxLive \in Nat \ {0}
    /\ Interval \in Nat \ {0} /\ MaxReduction \in 10..90
    /\ Policies \subseteq {"disabled", "auto", "enabled"}
    /\ MaxStreams \in Nat /\ MaxTime \in Nat /\ MaxDiscoveries \in Nat

VARIABLES
    now,          \* get_timestamp
    endpoint,     \* the endpoint at the one address endpoints are handed out at
    collection,   \* likewise the endpoint collection
    found,        \* discoveries so far
    flows,        \* g_endpoint_flows and g_collection_flows
    alias,        \* g_client_aliases
    clients,      \* clients_
    clock,        \* clocks_: the client bound to the one address clocks are handed out at
    obj,          \* the streams: their addresses and what the application did
    started,      \* is the stream started, as the engine sees it?
    poll,         \* threads in hkAudioGetCurrentPadding
    probes, logs, \* history: times of the runtime clock probes; logs per stream
    offer         \* the period negotiation under way

discovery == <<endpoint, collection, found, flows>>
history == <<probes, logs>>
vars == <<now, discovery, alias, clients, clock, obj, started, poll, history, offer>>

Streams == 1..MaxStreams
NoAddress == "none"
NoObject == [flow |-> "none", known |-> FALSE]
Unborn == [stage |-> "unborn", prim |-> NoAddress, third |-> NoAddress, flow |-> "unknown", known |-> FALSE,
           clock |-> FALSE]
NoClient == [used |-> FALSE, flow |-> "unknown", mode |-> "unknown", init |-> FALSE, rate |-> 0,
             buffer |-> 0, pad |-> 0, freq |-> 0, clk |-> 0, next |-> 0,
             flags |-> {}]
Away == [pc |-> "away", n |-> 0, at |-> 0, load |-> 0, flags |-> {}]
NoOffer == [policy |-> "disabled", range |-> [rate |-> 0, requested |-> 0, fundamental |-> 0,
            min |-> 0, max |-> 0], effective |-> 0]

Init ==
    /\ now = 1 /\ endpoint = NoObject /\ collection = NoObject /\ found = 0
    /\ flows = [o \in {"endpoint", "collection"} |-> "unset"]
    /\ alias = [a \in Addresses |-> NoAddress]
    /\ clients = [a \in Addresses |-> NoClient]
    /\ clock = NoAddress
    /\ obj = [n \in Streams |-> Unborn] /\ started = [n \in Streams |-> FALSE]
    /\ poll = [p \in Pollers |-> Away]
    /\ probes = [n \in Streams |-> <<>>] /\ logs = [n \in Streams |-> 0]
    /\ offer = NoOffer

-----------------------------------------------------------------------------
(* Discovery: which way does an endpoint's audio flow?                      *)

\* publish_flow: an address keeps its entry for ever; "unknown" changes nothing.
publish_flow(o, flow) ==
    IF flows[o] = "unset" \/ flow # "unknown" THEN [flows EXCEPT ![o] = flow] ELSE flows

lookup_flow(o) == IF flows[o] = "unset" THEN "unknown" ELSE flows[o]

\* hkEnumAudioEndpoints; "all" is a flow the observer does not know.
hkEnumAudioEndpoints ==
    /\ found < MaxDiscoveries /\ found' = found + 1
    /\ \E flow \in {"render", "capture", "all"} :
        /\ collection' = [flow |-> flow, known |-> flow # "all"]
        /\ flows' = publish_flow("collection", IF flow = "all" THEN "unknown" ELSE flow)
    /\ UNCHANGED <<now, endpoint, alias, clients, clock, obj, started, poll, history, offer>>

\* hkCollectionItem: the endpoint inherits the flow published for its collection.
hkCollectionItem ==
    /\ found < MaxDiscoveries /\ found' = found + 1
    /\ collection.flow # "none"
    /\ \E flow \in {"render", "capture"} :
        /\ collection.flow \in {flow, "all"}
        /\ endpoint' = [flow |-> flow, known |-> collection.known]
    /\ flows' = publish_flow("endpoint", lookup_flow("collection"))
    /\ UNCHANGED <<now, collection, alias, clients, clock, obj, started, poll, history, offer>>

\* hkGetDefaultAudioEndpoint knows the flow; hkGetDevice does not.
hkGetDefaultAudioEndpoint ==
    /\ found < MaxDiscoveries /\ found' = found + 1
    /\ \E flow \in {"render", "capture"} :
        /\ endpoint' = [flow |-> flow, known |-> TRUE]
        /\ flows' = publish_flow("endpoint", flow)
    /\ UNCHANGED <<now, collection, alias, clients, clock, obj, started, poll, history, offer>>

hkGetDevice ==
    /\ found < MaxDiscoveries /\ found' = found + 1
    /\ \E flow \in {"render", "capture"} : endpoint' = [flow |-> flow, known |-> FALSE]
    /\ flows' = publish_flow("endpoint", "unknown")
    /\ UNCHANGED <<now, collection, alias, clients, clock, obj, started, poll, history, offer>>

-----------------------------------------------------------------------------
(* The client table.                                                        *)

Live == {n \in Streams : obj[n].stage \in {"activated", "negotiated", "initialized"}}
InUse == UNION {{obj[n].prim, obj[n].third} : n \in Live}
Full == Cardinality({a \in Addresses : clients[a].used}) >= ClientSlots

\* publish_alias and canonical_client.
publish_alias(tab, a, canonical) == [tab EXCEPT ![a] = canonical]
canonical_client(a) == IF alias[a] = NoAddress THEN a ELSE alias[a]

\* find_or_claim: a slot already there only learns a known flow.
find_or_claim_KeepsFlow(a, flow) ==
    IF clients[a].used \/ Full THEN clients
    ELSE [clients EXCEPT ![a] = [NoClient EXCEPT !.used = TRUE, !.flow = flow]]
find_or_claim(a, flow) ==
    IF clients[a].used
    THEN IF flow = "unknown" THEN clients ELSE [clients EXCEPT ![a].flow = flow]
    ELSE IF Full THEN clients
    ELSE [clients EXCEPT ![a] = [NoClient EXCEPT !.used = TRUE, !.flow = flow]]

\* hkDeviceActivate and observe_audio_client.  The IAudioClient3 interface may
\* have an address of its own.
hkDeviceActivate(n, a, b) ==
    /\ obj[n].stage = "unborn" /\ \A m \in 1..(n - 1) : obj[m].stage # "unborn"
    /\ Cardinality(Live) < MaxLive /\ endpoint.flow # "none" /\ {a, b} \cap InUse = {}
    /\ obj' = [obj EXCEPT ![n] = [stage |-> "activated", prim |-> a, third |-> b,
                                  flow |-> endpoint.flow, known |-> endpoint.known, clock |-> FALSE]]
    /\ alias' = publish_alias(publish_alias(alias, a, a), b, a)
    /\ clients' = find_or_claim(a, lookup_flow("endpoint"))
    /\ UNCHANGED <<now, discovery, clock, started, poll, history, offer>>

\* The application drops the stream, its clock first, with no call under way.
Release(n) ==
    /\ obj[n].stage \in {"activated", "initialized"} /\ ~started[n] /\ \A p \in Pollers : poll[p].n # n
    /\ obj' = [obj EXCEPT ![n] = [Unborn EXCEPT !.stage = "released"]]
    /\ probes' = [probes EXCEPT ![n] = <<>>] /\ logs' = [logs EXCEPT ![n] = 0]
    /\ UNCHANGED <<now, discovery, alias, clients, clock, started, poll, offer>>

-----------------------------------------------------------------------------
(* Initialization.                                                          *)

\* on_initialize: everything an earlier stream left in the slot is wiped.
Wiped_KeepsFrequency(c, n, mode) ==
    [NoClient EXCEPT !.used = TRUE, !.flow = c.flow, !.mode = mode, !.init = TRUE, !.rate = n, !.freq = c.freq]
Wiped(c, n, mode) ==
    [NoClient EXCEPT !.used = TRUE, !.flow = c.flow, !.mode = mode, !.init = TRUE, !.rate = n]

\* probe_clock_once: a frequency already known is not asked for again.
probe_clock_once(c, n) == [c EXCEPT !.freq = IF @ = 0 THEN n ELSE @, !.clk = n]

\* probe_audio_client_after_initialize: buffer, padding and, if the client has
\* one, the clock are read at once.
ActiveProbe(c, n, timed) ==
    LET d == [c EXCEPT !.buffer = n, !.pad = n] IN IF timed THEN probe_clock_once(d, n) ELSE d

\* The slot after a successful Initialize through the interface at address i.
Initialized(n, i, mode) ==
    LET a == canonical_client(i)
        tab == find_or_claim(a, clients[a].flow)
    IN  /\ obj' = [obj EXCEPT ![n].stage = "initialized"]
        /\ \E probe, timed \in BOOLEAN :
            LET c == Wiped(tab[a], n, mode)
            IN  clients' = IF tab[a].used
                           THEN [tab EXCEPT ![a] = IF probe THEN ActiveProbe(c, n, timed) ELSE c]
                           ELSE tab

\* hkAudioInitialize
hkAudioInitialize(n) ==
    /\ obj[n].stage = "activated"
    /\ \E mode \in {"shared", "exclusive"} : Initialized(n, obj[n].prim, mode)
    /\ UNCHANGED <<now, discovery, alias, clock, started, poll, history, offer>>

\* The period handed to the engine.
EffectivePeriod(policy, r) ==
    IF policy = "enabled" THEN choose_period_candidate(r, TargetUs, MaxReduction) ELSE r.requested

\* hkAudioInitializeSharedAudioStream: choose the period, then call the engine;
\* its failure is the application's to handle, and leaves nothing behind.
NegotiatePeriod(n) ==
    /\ obj[n].stage = "activated" /\ obj' = [obj EXCEPT ![n].stage = "negotiated"]
    /\ \E policy \in Policies, r \in Requests :
        offer' = [policy |-> policy, range |-> r, effective |-> EffectivePeriod(policy, r)]
    /\ UNCHANGED <<now, discovery, alias, clients, clock, started, poll, history>>

InitializeShared(n) ==
    /\ obj[n].stage = "negotiated" /\ offer' = NoOffer
    /\ \/ Initialized(n, obj[n].third, "shared")
       \/ /\ obj' = [obj EXCEPT ![n].stage = "activated"] /\ UNCHANGED clients
    /\ UNCHANGED <<now, discovery, alias, clock, started, poll, history>>

-----------------------------------------------------------------------------
(* The running stream.                                                      *)

\* The slot of stream n, if it has one.
Slot(n) == canonical_client(obj[n].prim)
Tracked(n) == clients[Slot(n)].used

\* hkAudioStart, hkAudioStop
hkAudioStart(n) ==
    /\ obj[n].stage = "initialized" /\ ~started[n] /\ started' = [started EXCEPT ![n] = TRUE]
    /\ clients' = IF Tracked(n) THEN [clients EXCEPT ![Slot(n)].flags = @ \cup {"running"}] ELSE clients
    /\ UNCHANGED <<now, discovery, alias, clock, obj, poll, history, offer>>

hkAudioStop(n) ==
    /\ started[n] /\ started' = [started EXCEPT ![n] = FALSE]
    /\ clients' = IF Tracked(n) THEN [clients EXCEPT ![Slot(n)].flags = @ \ {"running"}] ELSE clients
    /\ UNCHANGED <<now, discovery, alias, clock, obj, poll, history, offer>>

\* hkAudioGetBufferSize (latency and period queries store alike).
hkAudioGetBufferSize(n) ==
    /\ obj[n].stage = "initialized" /\ Tracked(n)
    /\ clients' = [clients EXCEPT ![Slot(n)].buffer = n]
    /\ UNCHANGED <<now, discovery, alias, clock, obj, started, poll, history, offer>>

\* hkAudioGetService for IAudioClock and observe_clock.
hkAudioGetService(n) ==
    /\ obj[n].stage = "initialized" /\ ~obj[n].clock
    /\ obj' = [obj EXCEPT ![n].clock = TRUE] /\ clock' = Slot(n)
    /\ UNCHANGED <<now, discovery, alias, clients, started, poll, history, offer>>

\* hkAudioClockGetFrequency and hkAudioClockGetPosition, on the application's clock.
hkAudioClock(n) ==
    /\ obj[n].stage = "initialized" /\ obj[n].clock /\ clients[clock].used
    /\ clients' = [clients EXCEPT ![clock].freq = n, ![clock].clk = n]
    /\ UNCHANGED <<now, discovery, alias, clock, obj, started, poll, history, offer>>

\* hkAudioGetCurrentPadding: the timestamp is taken once, then on_padding.
GetCurrentPadding(p, n) ==
    /\ poll[p].pc = "away" /\ obj[n].stage = "initialized"
    /\ poll' = [poll EXCEPT ![p] = [Away EXCEPT !.pc = "load", !.n = n, !.at = now]]
    /\ clients' = IF Tracked(n) THEN [clients EXCEPT ![Slot(n)].pad = n] ELSE clients
    /\ UNCHANGED <<now, discovery, alias, clock, obj, started, history, offer>>

\* should_probe_clock: load next_clock_probe, then compare-and-swap it.
ProbeLoad(p) ==
    LET n == poll[p].n
        c == clients[Slot(n)]
        due == Tracked(n) /\ (c.next = 0 \/ poll[p].at >= c.next)
    IN  /\ poll[p].pc = "load"
        /\ poll' = [poll EXCEPT ![p].pc = IF due THEN "cas" ELSE "model", ![p].load = c.next]
        /\ UNCHANGED <<now, discovery, alias, clients, clock, obj, started, history, offer>>

\* Mutant: a store instead of the CAS.
ProbeWins_Blind(p) == TRUE
ProbeWins(p) == clients[Slot(poll[p].n)].next = poll[p].load

\* The winner probes the clock (probe_clock_once).
ProbeCas(p) ==
    LET n == poll[p].n
    IN  /\ poll[p].pc = "cas" /\ poll' = [poll EXCEPT ![p].pc = "model"]
        /\ IF ProbeWins(p)
           THEN /\ clients' = [clients EXCEPT ![Slot(n)] = [probe_clock_once(@, n) EXCEPT !.next = poll[p].at + Interval]]
                /\ probes' = [probes EXCEPT ![n] = Append(@, poll[p].at)]
           ELSE UNCHANGED <<clients, probes>>
        /\ UNCHANGED <<now, discovery, alias, clock, obj, started, logs, offer>>

\* maybe_log_queue_model: quit when logged or without a usable estimate.
LoadModel(p) ==
    LET n == poll[p].n
        c == clients[Slot(n)]
        e == build_queue_estimate(c)
    IN  /\ poll[p].pc = "model"
        /\ poll' = [poll EXCEPT ![p] =
               IF Tracked(n) /\ "logged" \notin c.flags /\ e.valid /\ e.capacity
               THEN [@ EXCEPT !.pc = "mark", !.flags = c.flags] ELSE Away]
        /\ UNCHANGED <<now, discovery, alias, clients, clock, obj, started, history, offer>>

\* mark_queue_model_logged: a failed compare-and-swap reloads the flags.
MarkWins_Blind(p) == TRUE
MarkWins(p) == clients[Slot(poll[p].n)].flags = poll[p].flags

MarkLogged(p) ==
    LET n == poll[p].n
        seen == clients[Slot(n)].flags
    IN  /\ poll[p].pc = "mark"
        /\ IF MarkWins(p)
           THEN /\ clients' = [clients EXCEPT ![Slot(n)].flags = poll[p].flags \cup {"logged"}]
                /\ logs' = [logs EXCEPT ![n] = @ + 1]
                /\ poll' = [poll EXCEPT ![p] = Away]
           ELSE /\ poll' = [poll EXCEPT ![p] = IF "logged" \in seen THEN Away ELSE [@ EXCEPT !.flags = seen]]
                /\ UNCHANGED <<clients, logs>>
        /\ UNCHANGED <<now, discovery, alias, clock, obj, started, probes, offer>>

Tick ==
    /\ now < MaxTime /\ now' = now + 1
    /\ UNCHANGED <<discovery, alias, clients, clock, obj, started, poll, history, offer>>

-----------------------------------------------------------------------------
Next ==
    \/ hkEnumAudioEndpoints \/ hkCollectionItem \/ hkGetDefaultAudioEndpoint \/ hkGetDevice \/ Tick
    \/ \E n \in Streams :
        \/ \E a, b \in Addresses : hkDeviceActivate(n, a, b)
        \/ Release(n) \/ hkAudioInitialize(n) \/ NegotiatePeriod(n) \/ InitializeShared(n)
        \/ hkAudioStart(n) \/ hkAudioStop(n)
        \/ hkAudioGetBufferSize(n) \/ hkAudioGetService(n) \/ hkAudioClock(n)
        \/ \E p \in Pollers : GetCurrentPadding(p, n)
    \/ \E p \in Pollers : ProbeLoad(p) \/ ProbeCas(p) \/ LoadModel(p) \/ MarkLogged(p)

Spec == Init /\ [][Next]_vars

-----------------------------------------------------------------------------
\* A stream whose endpoint was found with a known flow is never filed under
\* the other one, whatever its addresses were used for before (publish_flow,
\* find_or_claim, publish_alias).
FlowTrue ==
    \A n \in Live : obj[n].known /\ Tracked(n) =>
        clients[Slot(n)].flow \in {"unknown", obj[n].flow}

\* Both interfaces of a client lead to one slot, its own, and once the stream
\* is initialized every value in it was read from that stream: nothing of an
\* earlier owner of the address survives on_initialize, and no other client's
\* samples are filed there.
OneStreamPerSlot ==
    \A n \in Live :
        /\ canonical_client(obj[n].third) = Slot(n) /\ Slot(n) = obj[n].prim
        /\ obj[n].stage = "initialized" /\ Tracked(n) =>
            LET c == clients[Slot(n)] IN {c.rate, c.buffer, c.pad, c.freq, c.clk} \subseteq {0, n}

\* Two threads polling one stream never probe its clock twice within the
\* configured interval (should_probe_clock).
ProbesSpaced ==
    \A n \in Streams : \A i, j \in 1..Len(probes[n]) :
        i < j => probes[n][j] >= probes[n][i] + Interval

\* The queue model is logged once per stream, and marking it logged never
\* undoes a start or a stop of another thread (mark_queue_model_logged).
LoggedOnceFlagsKept ==
    \A n \in Streams :
        /\ logs[n] <= 1
        /\ obj[n].stage = "initialized" /\ Tracked(n) =>
            started[n] = ("running" \in clients[Slot(n)].flags)

\* The period handed to the engine is the requested one or, only when the
\* policy is enabled, a shorter one that the engine accepts and that the
\* configured reduction allows (hkAudioInitializeSharedAudioStream).
PeriodNegotiable ==
    LET r == offer.range
    IN  offer.effective # r.requested =>
            /\ offer.policy = "enabled" /\ offer.effective < r.requested
            /\ r.min <= offer.effective /\ offer.effective % r.fundamental = 0
            /\ offer.effective * 100 >= r.requested * (100 - MaxReduction)
=============================================================================
