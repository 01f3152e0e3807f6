----------------------------- MODULE XrTimeline -----------------------------
(***************************************************************************)
(* XRFlex: the OpenXR observer (openxr_hooks.cpp, openxr_timeline.cpp and   *)
(* the OpenXROn* callbacks of low_latency.cpp).  Every hook calls the       *)
(* runtime first and records afterwards, so what the table sees trails what *)
(* the runtime did.  The runtime is modelled by the OpenXR rules the code   *)
(* relies on: xrWaitFrame of one session is serialized and returns only     *)
(* after the previous frame was begun; xrBeginFrame/xrEndFrame of one       *)
(* session are serialized; a session is destroyed only when neither side is *)
(* inside a call; a destroyed handle may be handed out again at once.       *)
(*                                                                          *)
(* Both hash tables probe from one start slot; a thread-local cache entry   *)
(* is used only after its key matched, so it answers like the probe.        *)
(* Timestamps and statistics are left out; the converted display time is    *)
(* kept only while its hook runs.                                           *)
(***************************************************************************)
EXTENDS Integers, Sequences, FiniteSets

CONSTANTS
    Handles,          \* XrSession values the runtime hands out
    Slots,            \* kSessionSlots and kClockBindingSlots, 16 in the code
    Frames,           \* kFramesPerSession, 16 in the code
    MaxSessions,      \* bound: xrCreateSession calls
    MaxWaits,         \* bound: xrWaitFrame calls
    MaxRender,        \* bound: canonical graphics frames
    MaxResets,        \* bound: timeline resets of HybridFusion
    MaxReloads        \* bound: configuration reloads

NoHandle == "none"

ASSUME XrAssumptions ==
    /\ NoHandle \notin Handles
    /\ Slots \in Nat \ {0} /\ Frames \in Nat \ {0, 1, 2} /\ MaxSessions \in Nat
    /\ MaxWaits \in Nat /\ MaxRender \in Nat /\ MaxResets \in Nat /\ MaxReloads \in Nat

VARIABLES
    rt,        \* the runtime's sessions, by handle
    made,      \* sessions created, xrWaitFrame calls returned
    canon,     \* latest_canonical_frame() of HybridFusion; seq 0: none
    opened,    \* history: canonical frames in the order they were opened
    hooks,     \* "off", "on" or "gone": detours not yet, now, no longer attached
    timeline,  \* openxr.timeline of the current policy snapshot
    reloads,
    bindings,  \* g_clock_bindings
    table,     \* sessions_
    waiter,    \* per handle: the thread in xrWaitFrame
    renderer,  \* per handle: the thread in xrBeginFrame or xrEndFrame
    tail       \* the thread in xrDestroySession, after the runtime's call

runtime == <<rt, made>>
graphics == <<canon, opened>>
config == <<hooks, timeline, reloads>>
vars == <<runtime, graphics, config, bindings, table, waiter, renderer, tail>>

Dead == [id |-> 0, waits |-> 0, begins |-> 0, open |-> FALSE, missed |-> FALSE]
NoFrame == [seq |-> 0, id |-> 0, wait |-> 0, should |-> FALSE, mark |-> 0, markEpoch |-> 0,
            pos |-> 0, begin |-> 0, end |-> 0, discarded |-> FALSE,
            render |-> [epoch |-> 0, seq |-> 0]]
NoSession == [key |-> NoHandle, id |-> 0, first |-> 0, next |-> 0, nextBegin |-> 0, active |-> 0,
              latest |-> 0, frames |-> [k \in 0..(Frames - 1) |-> NoFrame]]
NoClock == [key |-> NoHandle, convert |-> 0]
Idle == [pc |-> "idle", should |-> FALSE, clock |-> 0, k |-> 0, discarded |-> FALSE]

Init ==
    /\ rt = [h \in Handles |-> Dead] /\ made = [sessions |-> 0, waits |-> 0]
    /\ canon = [epoch |-> 1, seq |-> 1] /\ opened = <<canon>>  \* graphics runs already
    /\ hooks = "off" /\ timeline = TRUE /\ reloads = 0
    /\ bindings = [i \in 1..Slots |-> NoClock]
    /\ table = [i \in 1..Slots |-> NoSession]
    /\ waiter = [h \in Handles |-> Idle] /\ renderer = [h \in Handles |-> Idle]
    /\ tail = [pc |-> "idle", h |-> NoHandle]

-----------------------------------------------------------------------------
(* The tables.                                                              *)

\* The slot a probe for key h stops at, 0 if there is none.
SlotOf(tab, h) ==
    LET hits == {i \in 1..Slots : tab[i].key = h}
    IN  IF hits = {} THEN 0 ELSE CHOOSE i \in hits : \A j \in hits : i <= j

\* find_clock_binding
find_clock_binding(h) == SlotOf(bindings, h)

\* clock_dispatch_for and xr_time_to_host_ns: the session whose converter is
\* used, 0 if none is bound (a conversion that fails ends the same way).
xr_time_to_host_ns(h) ==
    LET i == find_clock_binding(h) IN IF i = 0 THEN 0 ELSE bindings[i].convert

\* publish_clock_binding: replace the entry of the same handle, else claim one.
publish_clock_binding_Trusts(h, convert) ==
    LET i == IF SlotOf(bindings, h) # 0 THEN 0 ELSE SlotOf(bindings, NoHandle)
    IN  bindings' = IF i = 0 THEN bindings
                    ELSE [bindings EXCEPT ![i] = [key |-> h, convert |-> convert]]
publish_clock_binding(h, convert) ==
    LET i == IF SlotOf(bindings, h) # 0 THEN SlotOf(bindings, h) ELSE SlotOf(bindings, NoHandle)
    IN  bindings' = IF i = 0 THEN bindings
                    ELSE [bindings EXCEPT ![i] = [key |-> h, convert |-> convert]]

\* find and find_or_claim.  A claimed slot starts from scratch; id and first
\* record, for the properties, the session and the wait it was claimed by.
find(h) == SlotOf(table, h)

ClaimedFor(i, h) == [NoSession EXCEPT !.key = h, !.id = rt[h].id, !.first = waiter[h].k]

find_or_claim(h) == IF find(h) # 0 THEN find(h) ELSE SlotOf(table, NoHandle)

\* frame_for: the ring entry of a sequence number, if it still holds it.
Holds(s, seq) == seq # 0 /\ s.frames[seq % Frames].seq = seq

-----------------------------------------------------------------------------
(* Hook installation, configuration and the canonical graphics timeline.    *)

\* OpenXRHooks::initialize: from DllMain or from the LoadLibrary hook.
initialize ==
    /\ hooks = "off" /\ hooks' = "on"
    /\ UNCHANGED <<runtime, graphics, timeline, reloads, bindings, table, waiter, renderer, tail>>

\* OpenXRHooks::shutdown: hooks under way are not waited for.  Calls made
\* afterwards touch nothing here and are left out (Loaded).
Loaded == hooks # "gone"

shutdown ==
    /\ hooks = "on" /\ hooks' = "gone"
    /\ bindings' = [i \in 1..Slots |-> NoClock]
    /\ UNCHANGED <<runtime, graphics, timeline, reloads, table, waiter, renderer, tail>>

\* update_config, from the thread that watches the ini file.
update_config ==
    /\ reloads < MaxReloads /\ reloads' = reloads + 1 /\ timeline' = ~timeline
    /\ UNCHANGED <<runtime, graphics, hooks, bindings, table, waiter, renderer, tail>>

\* HybridFusion opens a canonical frame, or starts a new epoch.
OpenCanonical ==
    /\ Len(opened) < MaxRender
    /\ canon' = [canon EXCEPT !.seq = @ + 1] /\ opened' = Append(opened, canon')
    /\ UNCHANGED <<runtime, config, bindings, table, waiter, renderer, tail>>

ResetCanonical ==
    /\ canon.epoch <= MaxResets
    /\ canon' = [epoch |-> canon.epoch + 1, seq |-> 0]
    /\ UNCHANGED <<runtime, opened, config, bindings, table, waiter, renderer, tail>>

-----------------------------------------------------------------------------
(* Session lifetime.                                                        *)

\* hkxrCreateSession; the instance may lack the conversion function.
hkxrCreateSession(h) ==
    /\ Loaded /\ rt[h].id = 0 /\ made.sessions < MaxSessions /\ made' = [made EXCEPT !.sessions = @ + 1]
    /\ rt' = [rt EXCEPT ![h] = [Dead EXCEPT !.id = made'.sessions]]
    /\ IF hooks = "on"
       THEN \E convert \in {0, made'.sessions} : publish_clock_binding(h, convert)
       ELSE UNCHANGED bindings
    /\ UNCHANGED <<graphics, config, table, waiter, renderer, tail>>

\* hkxrDestroySession: the runtime's call, then the two tables, in this order.
DestroyReturn(h) ==
    /\ Loaded /\ rt[h].id # 0 /\ waiter[h].pc = "idle" /\ renderer[h].pc = "idle" /\ tail.pc = "idle"
    /\ rt' = [rt EXCEPT ![h] = Dead]
    /\ tail' = IF hooks = "on" THEN [pc |-> "clock", h |-> h] ELSE tail
    /\ UNCHANGED <<made, graphics, config, bindings, table, waiter, renderer>>

clear_clock_binding ==
    /\ tail.pc = "clock" /\ tail' = [tail EXCEPT !.pc = "timeline"]
    /\ bindings' = LET i == find_clock_binding(tail.h)
                   IN  IF i = 0 THEN bindings ELSE [bindings EXCEPT ![i] = NoClock]
    /\ UNCHANGED <<runtime, graphics, config, table, waiter, renderer>>

\* ready, epoch, active and latest go; the frames stay until the next claim.
on_destroy_session ==
    /\ tail.pc = "timeline" /\ tail' = [pc |-> "idle", h |-> NoHandle]
    /\ table' = LET i == find(tail.h)
                IN  IF i = 0 THEN table
                    ELSE [table EXCEPT ![i].key = NoHandle, ![i].active = 0, ![i].latest = 0]
    /\ UNCHANGED <<runtime, graphics, config, bindings, waiter, renderer>>

-----------------------------------------------------------------------------
(* The frame loop.                                                          *)

\* Is a call recorded?  The hook asks the snapshot after the runtime returned.
Observed == hooks = "on" /\ timeline

\* A call of session h that left no record.
Missed(h) == [rt EXCEPT ![h].missed = TRUE]

\* xrWaitFrame returns and its prediction is converted.
WaitReturn(h) ==
    /\ Loaded /\ rt[h].id # 0 /\ waiter[h].pc = "idle"
    /\ made.waits < MaxWaits /\ made' = [made EXCEPT !.waits = @ + 1]
    /\ rt[h].waits = rt[h].begins
    /\ rt' = [rt EXCEPT ![h].waits = @ + 1, ![h].missed = @ \/ ~Observed]
    /\ IF Observed
       THEN \E should \in BOOLEAN :
                waiter' = [waiter EXCEPT ![h] =
                    [Idle EXCEPT !.pc = "record", !.should = should, !.k = rt[h].waits + 1,
                                 !.clock = xr_time_to_host_ns(h)]]
       ELSE UNCHANGED waiter
    /\ UNCHANGED <<graphics, config, bindings, table, renderer, tail>>

\* The entry on_wait publishes.
WaitFrame(h, seq) ==
    [NoFrame EXCEPT !.seq = seq, !.id = rt[h].id, !.wait = waiter[h].k, !.should = waiter[h].should,
                    !.mark = canon.seq, !.markEpoch = IF canon.seq = 0 THEN 0 ELSE canon.epoch,
                    !.pos = Len(opened)]

\* OpenXROnWaitFrame: take the watermark, then on_wait.
on_wait(h) ==
    LET i == find_or_claim(h)
        s == IF find(h) = 0 THEN ClaimedFor(i, h) ELSE table[i]
        seq == s.next + 1
    IN  /\ waiter[h].pc = "record" /\ waiter' = [waiter EXCEPT ![h] = Idle]
        /\ IF i = 0 THEN /\ rt' = Missed(h) /\ UNCHANGED table
           ELSE /\ table' = [table EXCEPT ![i] =
                       [s EXCEPT !.next = seq, !.latest = seq,
                                 !.frames[seq % Frames] = WaitFrame(h, seq)]]
                /\ UNCHANGED rt
        /\ UNCHANGED <<made, graphics, config, bindings, renderer, tail>>

\* xrBeginFrame returns; XR_FRAME_DISCARDED when the last frame was never ended.
BeginReturn(h) ==
    /\ Loaded /\ rt[h].id # 0 /\ renderer[h].pc = "idle" /\ waiter[h].pc = "idle"
    /\ rt[h].begins < rt[h].waits
    /\ rt' = [rt EXCEPT ![h].begins = @ + 1, ![h].open = TRUE, ![h].missed = @ \/ ~Observed]
    /\ renderer' = IF Observed
                   THEN [renderer EXCEPT ![h] = [Idle EXCEPT !.pc = "begin", !.k = rt[h].begins + 1,
                                                             !.discarded = rt[h].open]]
                   ELSE renderer
    /\ UNCHANGED <<made, graphics, config, bindings, table, waiter, tail>>

\* on_begin: discard the frame still active, then take the next one in order.
Discard(s) ==
    [s EXCEPT !.active = 0,
              !.frames = IF Holds(s, s.active) THEN [@ EXCEPT ![s.active % Frames].discarded = TRUE] ELSE @]

\* Mutant: a begin takes the newest wait.
NextBegin_Latest(s) == s.latest
NextBegin(s) == s.nextBegin + 1

Begun(s, h) ==
    LET seq == NextBegin(s)
        t == [s EXCEPT !.nextBegin = seq]
    IN  IF Holds(s, seq)
        THEN [t EXCEPT !.frames[seq % Frames].begin = renderer[h].k, !.active = seq]
        ELSE t

on_begin(h) ==
    LET i == find(h)
        s == IF renderer[h].discarded THEN Discard(table[i]) ELSE table[i]
    IN  /\ renderer[h].pc = "begin" /\ renderer' = [renderer EXCEPT ![h] = Idle]
        /\ IF i = 0 THEN /\ rt' = Missed(h) /\ UNCHANGED table
           ELSE /\ table' = [table EXCEPT ![i] = Begun(s, h)] /\ UNCHANGED rt
        /\ UNCHANGED <<made, graphics, config, bindings, waiter, tail>>

\* xrEndFrame returns.
EndReturn(h) ==
    /\ Loaded /\ rt[h].id # 0 /\ renderer[h].pc = "idle" /\ rt[h].open
    /\ rt' = [rt EXCEPT ![h].open = FALSE, ![h].missed = @ \/ ~Observed]
    /\ renderer' = IF Observed
                   THEN [renderer EXCEPT ![h] = [Idle EXCEPT !.pc = "end", !.k = rt[h].begins,
                                                             !.clock = xr_time_to_host_ns(h)]]
                   ELSE renderer
    /\ UNCHANGED <<made, graphics, config, bindings, table, waiter, tail>>

\* The graphics frame on_end attaches to the entry f.
Correlated(f) ==
    /\ f.should /\ canon.seq > f.mark
    /\ f.mark = 0 \/ f.markEpoch = 0 \/ canon.epoch = f.markEpoch

\* Mutant: the newest graphics frame at xrEndFrame.
Correlate_Newest(f) == IF Correlated(f) THEN canon ELSE f.render
Correlate(f) ==
    IF Correlated(f)
    THEN [epoch |-> canon.epoch, seq |-> IF f.mark # 0 THEN f.mark + 1 ELSE canon.seq]
    ELSE f.render

\* OpenXROnEndFrame: read the latest canonical frame, then on_end.
on_end(h) ==
    LET i == find(h)
        s == table[i]
        f == s.frames[s.active % Frames]
        g == [f EXCEPT !.end = renderer[h].k, !.render = Correlate(f)]
    IN  /\ renderer[h].pc = "end" /\ renderer' = [renderer EXCEPT ![h] = Idle]
        /\ IF i = 0 THEN /\ rt' = Missed(h) /\ UNCHANGED table
           ELSE /\ table' = [table EXCEPT ![i] =
                       IF Holds(s, s.active)
                       THEN [s EXCEPT !.active = 0, !.frames[s.active % Frames] = g]
                       ELSE [s EXCEPT !.active = 0]]
                /\ UNCHANGED rt
        /\ UNCHANGED <<made, graphics, config, bindings, waiter, tail>>

-----------------------------------------------------------------------------
Next ==
    \/ initialize \/ shutdown \/ update_config \/ OpenCanonical \/ ResetCanonical
    \/ clear_clock_binding \/ on_destroy_session
    \/ \E h \in Handles :
        \/ hkxrCreateSession(h) \/ DestroyReturn(h)
        \/ WaitReturn(h) \/ on_wait(h) \/ BeginReturn(h) \/ on_begin(h) \/ EndReturn(h) \/ on_end(h)

Spec == Init /\ [][Next]_vars

-----------------------------------------------------------------------------
(* The published entries of the sessions the runtime still has.             *)
Entries(i) == {k \in 0..(Frames - 1) : table[i].frames[k].seq # 0}

\* The slot of a live session, claimed by its first wait and still its own,
\* when the session has lost no call.
WholeFor(s, h) ==
    s.key = h /\ s.id = rt[h].id /\ s.first = 1 /\ rt[h].id # 0 /\ ~rt[h].missed

Whole(i) == \E h \in Handles : WholeFor(table[i], h)

\* on_begin and on_end find their frame by counting: as long as every call of
\* the session was recorded in the slot its first wait claimed, begin k and end k land on
\* the entry of wait k, however far the wait thread is ahead and whichever
\* frames the runtime discarded.
BeginPairsWait ==
    \A i \in 1..Slots : Whole(i) =>
        \A k \in Entries(i) :
            LET f == table[i].frames[k]
            IN  f.begin \in {0, f.wait} /\ f.end \in {0, f.wait} /\ (f.end # 0 => f.begin # 0 /\ ~f.discarded)

\* The graphics frame attached to an XR frame was opened after that frame's
\* xrWaitFrame returned, is the first one so opened when a watermark was
\* known, and is never attached where shouldRender was false (on_end).
RendersAfterWait(f) ==
    f.render.seq # 0 =>
        /\ f.should
        /\ \E n \in (f.pos + 1)..Len(opened) : opened[n] = f.render
        /\ f.mark # 0 => opened[f.pos + 1] = f.render

FirstFrameAfterWait ==
    \A i \in 1..Slots : \A k \in Entries(i) : RendersAfterWait(table[i].frames[k])

\* A display time is converted with the function of the session it belongs
\* to, also when the runtime hands a destroyed handle out again before
\* hkxrDestroySession has cleared the old binding (xr_time_to_host_ns).
ConvertedByOwner ==
    \A h \in Handles : {waiter[h].clock, renderer[h].clock} \subseteq {0, rt[h].id}
-----------------------------------------------------------------------------
(* The inductive invariant behind the three properties.                     *)

Keys == Handles \cup {NoHandle}
Canonical == [epoch : Nat, seq : Nat]
Frame == [seq : Nat, id : Nat, wait : Nat, should : BOOLEAN, mark : Nat, markEpoch : Nat,
          pos : Nat, begin : Nat, end : Nat, discarded : BOOLEAN, render : Canonical]
Session == [key : Keys, id : Nat, first : Nat, next : Nat, nextBegin : Nat, active : Nat,
            latest : Nat, frames : [0..(Frames - 1) -> Frame]]
Caller == [pc : {"idle", "record", "begin", "end"}, should : BOOLEAN, clock : Nat, k : Nat,
           discarded : BOOLEAN]

\* Every variable has its type.
TypeOK ==
    /\ rt \in [Handles -> [id : Nat, waits : Nat, begins : Nat, open : BOOLEAN, missed : BOOLEAN]]
    /\ made \in [sessions : Nat, waits : Nat]
    /\ canon \in Canonical /\ opened \in Seq(Canonical)
    /\ hooks \in {"off", "on", "gone"} /\ timeline \in BOOLEAN /\ reloads \in Nat
    /\ bindings \in [1..Slots -> [key : Keys, convert : Nat]]
    /\ table \in [1..Slots -> Session]
    /\ waiter \in [Handles -> Caller] /\ renderer \in [Handles -> Caller]
    /\ tail \in [pc : {"idle", "clock", "timeline"}, h : Keys]

\* A probe for a handle has one slot to find.
OneSlotPerKey(tab) ==
    \A i, j \in 1..Slots : tab[i].key = tab[j].key /\ tab[i].key # NoHandle => i = j

\* Calls of a session are in the order the runtime demands: a wait is one ahead
\* of the begins until it is begun, and a call under way knows its number.
CallOrdered(h) ==
    /\ rt[h].id <= made.sessions
    /\ rt[h].id = 0 => waiter[h].pc = "idle" /\ renderer[h].pc = "idle"
    /\ rt[h].waits \in {rt[h].begins, rt[h].begins + 1}
    /\ rt[h].open => rt[h].begins # 0
    /\ waiter[h].pc \in {"idle", "record"} /\ renderer[h].pc # "record"
    /\ waiter[h].pc = "record" => waiter[h].k = rt[h].waits /\ rt[h].waits = rt[h].begins + 1
    /\ renderer[h].pc # "idle" => renderer[h].k = rt[h].begins /\ rt[h].begins # 0

CallsOrdered == \A h \in Handles : CallOrdered(h)

\* A binding belongs to the live session of its handle, and only attached hooks
\* have bindings.
BindingsOwned ==
    /\ OneSlotPerKey(bindings)
    /\ hooks # "on" => \A i \in 1..Slots : bindings[i].key = NoHandle
    /\ \A i \in 1..Slots, h \in Handles :
        bindings[i].key = h /\ rt[h].id # 0 => bindings[i].convert \in {0, rt[h].id}

\* A clock in use is the one that was bound when its call returned.
ClockOwned(h) ==
    /\ waiter[h].clock \in {0, rt[h].id} /\ renderer[h].clock \in {0, rt[h].id}
    /\ waiter[h].pc = "idle" => waiter[h].clock = 0
    /\ renderer[h].pc = "idle" => renderer[h].clock = 0

ClocksBound == BindingsOwned /\ \A h \in Handles : ClockOwned(h)

\* What the history of opened frames holds beyond the watermark of entry f.
MarkKnown(f) ==
    /\ f.pos <= Len(opened) /\ f.markEpoch <= canon.epoch /\ (f.mark # 0 => f.markEpoch # 0)
    /\ f.mark = 0 /\ canon.seq # 0 => f.pos < Len(opened)
    /\ f.mark # 0 /\ f.markEpoch = canon.epoch =>
        /\ canon.seq >= f.mark
        /\ canon.seq = f.mark => f.pos = Len(opened)
        /\ canon.seq > f.mark =>
            f.pos < Len(opened) /\ opened[f.pos + 1] = [epoch |-> f.markEpoch, seq |-> f.mark + 1]

CanonOpened ==
    canon.epoch # 0 /\ (canon.seq # 0 => Len(opened) # 0 /\ opened[Len(opened)] = canon)

MarksKnown ==
    CanonOpened /\ \A i \in 1..Slots : \A k \in Entries(i) : MarkKnown(table[i].frames[k])

\* The entry f in place k of a slot s that recorded every call.
EntryCounted(s, k, f) ==
    /\ f.seq % Frames = k /\ f.seq <= s.next /\ f.wait = f.seq
    /\ f.begin \in {0, f.seq} /\ f.end \in {0, f.seq}
    /\ f.end # 0 => f.begin # 0 /\ ~f.discarded
    /\ f.seq > s.nextBegin => f.begin = 0 /\ f.end = 0 /\ ~f.discarded
    /\ f.seq = s.active => f.begin # 0 /\ f.end = 0 /\ ~f.discarded

\* A slot that recorded every call: the frame begun last is the active one, the
\* last two waits are held and every entry is counted.
SlotKept(s) ==
    /\ s.active \in {0, s.nextBegin}
    /\ \A q \in 1..s.next : q + 1 >= s.next => s.frames[q % Frames].seq = q
    /\ \A k \in 0..(Frames - 1) : s.frames[k].seq # 0 => EntryCounted(s, k, s.frames[k])

\* It counts as the runtime does, apart from the calls still under way.
SlotCounts(s, h) ==
    /\ s.next + (IF waiter[h].pc = "record" THEN 1 ELSE 0) = rt[h].waits
    /\ s.nextBegin + (IF renderer[h].pc = "begin" THEN 1 ELSE 0) = rt[h].begins
    /\ SlotKept(s)

CallsCounted ==
    /\ OneSlotPerKey(table)
    /\ \A i \in 1..Slots : table[i].id <= made.sessions
    /\ \A i \in 1..Slots, h \in Handles : WholeFor(table[i], h) => SlotCounts(table[i], h)

XrInvariant ==
    CallsOrdered /\ ClocksBound /\ MarksKnown /\ CallsCounted /\ FirstFrameAfterWait
=============================================================================
