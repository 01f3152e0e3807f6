--------------------------- MODULE FrameTimeline ---------------------------
(***************************************************************************)
(* The canonical frame timeline of HybridFusion (hybrid_fusion.cpp): once   *)
(* the owners are frozen, the pacing source's native frame ids become       *)
(* monotonic tokens, markers of other frontends are attached to the token   *)
(* they belong to, and every frame-generation callback gets a presentation  *)
(* token.  Callbacks run concurrently, without locks, on rings of slots     *)
(* whose publication word is written last; reset() wipes them.              *)
(*                                                                          *)
(* A FrameState* is a slot number.  A lookup reads a publication word, the  *)
(* payload and the word again, which is one step here.                      *)
(***************************************************************************)
EXTENDS Integers, FiniteSets

CONSTANTS
    Threads,
    Sources, Pacing,  \* frontends; the one frozen as owner of the pacing aspect
    Markers,          \* marker kinds
    Owner,            \* frozen_owner_word_: marker kind or "fg" -> frontend
    Slots,            \* kFrameSlots, 64 in the code
    PSlots,           \* kPresentationSlots, 128 in the code
    Lagging,          \* may a callback outlive the recycling of its slot, or a reset?
    OutOfOrder,       \* may a frontend first mention a frame after a later one?
    MaxId, MaxResets, \* bounds: native frame ids; backend teardowns
    MaxPresents       \* bound: presentations

ASSUME TimelineAssumptions ==
    /\ Pacing \in Sources /\ Slots \in Nat \ {0, 1, 2} /\ PSlots \in Nat \ {0}
    /\ Owner \in [Markers \cup {"fg"} -> Sources] /\ "fg" \notin Markers
    /\ MaxId \in Nat /\ MaxResets \in Nat /\ MaxPresents \in Nat
    /\ Lagging \in BOOLEAN /\ OutOfOrder \in BOOLEAN

Busy == -1     \* kBusyFrame
NoSlot == -1   \* a null FrameState*

VARIABLES
    lock,                      \* lock_state_ = 2
    frames, bindings, lastTok, \* frames_, source_bindings_, last_source_token_
    epoch, next, latest, gate, \* timeline_epoch_, next_/latest_token_sequence_, its gate
    pres, pnext, pgate,        \* presentations_, next_presentation_sequence_, its gate
    resets, newest,            \* teardowns so far; newest native id of each source
    issued, accepted, shown,   \* history: tokens, accepted markers, presentations
    th

ring == <<frames, bindings, lastTok, next, latest>>
present == <<pres, pnext>>
history == <<issued, accepted, shown>>
vars == <<lock, ring, epoch, gate, present, pgate, resets, newest, history, th>>

NoFrame == [seq |-> 0, epoch |-> 0, ids |-> [s \in Sources |-> 0], mask |-> {}, count |-> 0]
NoBinding == [native |-> 0, epoch |-> 0, seq |-> 0]
NoPresentation == [seq |-> 0, epoch |-> 0, render |-> 0, gen |-> 0]
Idle == [pc |-> "idle", op |-> "none", src |-> Pacing, id |-> 0, mk |-> "none",
         slot |-> NoSlot, seq |-> 0, epoch |-> 0, last |-> 0]

PCs == {"idle", "establish", "publish", "bind_own", "latest", "bind_load", "bind_cas",
        "bind_publish", "mark", "token", "presentation", "ppublish"}
Ring == 0..(Slots-1)

FrameType == [seq : Nat \cup {Busy}, epoch : Nat, ids : [Sources -> Nat],
              mask : SUBSET (Markers \cup {"none", "fg"}), count : Nat]
CallbackType == [pc : PCs, op : {"none", "pace", "marker", "fg"}, src : Sources, id : Nat,
                 mk : Markers \cup {"none", "fg"}, slot : Ring \cup {NoSlot},
                 seq : Nat, epoch : Nat, last : Nat]

TypeOK ==
    /\ lock \in BOOLEAN /\ gate \in BOOLEAN /\ pgate \in BOOLEAN
    /\ epoch \in Nat \ {0} /\ next \in Nat /\ latest \in Nat /\ pnext \in Nat /\ resets \in Nat
    /\ frames \in [Ring -> FrameType]
    /\ bindings \in [Sources -> [Ring -> [native : Nat, epoch : Nat, seq : Nat]]]
    /\ lastTok \in [Sources -> Nat] /\ newest \in [Sources -> Nat]
    /\ pres \in [0..(PSlots-1) -> [seq : Nat, epoch : Nat, render : Nat, gen : Nat]]
    /\ th \in [Threads -> CallbackType]
    /\ issued \subseteq [epoch : Nat, seq : Nat, id : Nat]
    /\ accepted \subseteq [epoch : Nat, seq : Nat, src : Sources, id : Nat,
                           mk : Markers \cup {"none", "fg"}, n : Nat]
    /\ shown \subseteq [seq : Nat, epoch : Nat, render : Nat, gen : Nat]

Init ==
    /\ lock = TRUE /\ epoch = 1 /\ next = 0 /\ latest = 0 /\ gate = FALSE /\ pgate = FALSE
    /\ frames = [k \in Ring |-> NoFrame]
    /\ bindings = [s \in Sources |-> [k \in Ring |-> NoBinding]]
    /\ lastTok = [s \in Sources |-> 0]
    /\ pres = [k \in 0..(PSlots-1) |-> NoPresentation] /\ pnext = 0
    /\ resets = 0 /\ newest = [s \in Sources |-> 0]
    /\ issued = {} /\ accepted = {} /\ shown = {}
    /\ th = [t \in Threads |-> Idle]

At(t, pc) == th[t].pc = pc
Goto(t, pc) == th' = [th EXCEPT ![t].pc = pc]
Return(t) == th' = [th EXCEPT ![t] = Idle]

----------------------------------------------------------------------------
(* Lookups.                                                                 *)

\* frame_for_token
FrameForToken(e, seq) ==
    IF e # 0 /\ seq > 0 /\ frames[seq % Slots].seq = seq /\ frames[seq % Slots].epoch = e
    THEN seq % Slots ELSE NoSlot

\* lookup_source_frame
LookupSource(src, id) ==
    LET b == bindings[src][id % Slots]
    IN  IF b.native = id THEN FrameForToken(b.epoch, b.seq) ELSE NoSlot

\* publish_source_binding: the slot's current token becomes the frame of a native id.
PublishBinding(src, id, slot) ==
    LET f == frames[slot] IN
    IF f.epoch = 0 \/ f.seq \in {0, Busy} THEN UNCHANGED <<bindings, lastTok>>
    ELSE /\ bindings' = [bindings EXCEPT ![src][id % Slots] =
                            [native |-> id, epoch |-> f.epoch, seq |-> f.seq]]
         /\ lastTok' = [lastTok EXCEPT ![src] = IF @ < f.seq THEN f.seq ELSE @]

----------------------------------------------------------------------------
(* A callback enters.                                                       *)

\* A callback, of this frontend, is under way and has not found and bound its frame yet.
Seeking(t) == th[t].pc # "idle" /\ (th[t].slot = NoSlot \/ th[t].pc = "bind_publish")
Searching(src) == \E u \in Threads : Seeking(u) /\ th[u].src = src

\* The native ids a frontend may mention.  In order means that a frame is first mentioned
\* when the callbacks about earlier frames have found theirs, and that a frontend other
\* than the pacing source has one such callback at a time.
Ids(src) ==
    {i \in 1..MaxId :
        /\ newest[src] - i < Slots /\ i <= newest[src] + (IF src = Pacing THEN 1 ELSE 2)
        /\ \/ OutOfOrder
           \/ i = newest[src] /\ (src = Pacing \/ ~Searching(src))
           \/ i > newest[src] /\ ~Searching(src)}

\* What a callback l does with the frame it has, or with none.
WithFrame(l, slot) ==
    [l EXCEPT !.slot = slot, !.seq = 0, !.epoch = 0, !.last = 0,
              !.pc = IF slot = NoSlot THEN "bind_load"
                     ELSE IF l.op = "fg" THEN "presentation" ELSE "mark"]

\* Only the frozen owner of the aspect goes on; it looks up the frame it does not have.
OwnerOnly(l, slot) ==
    IF Owner[l.mk] # l.src THEN Idle
    ELSE WithFrame(l, IF slot # NoSlot THEN slot ELSE LookupSource(l.src, l.id))

\* canonicalize_pacing_observation, canonicalize_marker_locked and
\* canonicalize_fg_presentation_locked up to the frame they look for.  The pacing source
\* anchors a token even when another frontend owns the marker.
Call(t, op, src, id, mk) ==
    /\ At(t, "idle") /\ lock /\ id \in Ids(src)
    /\ op = "pace" => src = Pacing /\ mk = "none"
    /\ op = "marker" => mk \in Markers
    /\ op = "fg" => mk = "fg"
    /\ newest' = [newest EXCEPT ![src] = IF @ < id THEN id ELSE @]
    /\ LET l == [Idle EXCEPT !.op = op, !.src = src, !.id = id, !.mk = mk, !.pc = "establish"]
       IN  th' = [th EXCEPT ![t] = IF op # "fg" /\ src = Pacing THEN l ELSE OwnerOnly(l, NoSlot)]
    /\ UNCHANGED <<lock, ring, epoch, gate, present, pgate, resets, history>>

----------------------------------------------------------------------------
(* establish_canonical_frame                                                *)

\* A pacing observation ends with its token, a marker goes on to the ownership test.
Established(t, slot) ==
    th' = [th EXCEPT ![t] = IF @.op = "pace" THEN Idle ELSE OwnerOnly(@, slot)]

\* Mutant: no publish gate.
EstablishOpen_NoGate(t) ==
    /\ At(t, "establish")
    /\ LET slot == LookupSource(Pacing, th[t].id) IN
       IF slot # NoSlot THEN Established(t, slot) /\ UNCHANGED <<gate, next, frames>>
       ELSE /\ Lagging \/ \A u \in Threads : th[u].slot # (next + 1) % Slots
            /\ gate' = TRUE /\ next' = next + 1
            /\ frames' = [frames EXCEPT ![(next + 1) % Slots].seq = Busy]
            /\ th' = [th EXCEPT ![t].pc = "publish", ![t].seq = next + 1, ![t].epoch = epoch]
    /\ UNCHANGED <<lock, bindings, lastTok, latest, epoch, present, pgate, resets, newest, history>>

\* A known id keeps its token; under contention the loser looks once more and gives up;
\* the winner takes the next sequence number and marks the slot busy.
EstablishOpen(t) ==
    /\ At(t, "establish")
    /\ LET slot == LookupSource(Pacing, th[t].id) IN
       IF slot # NoSlot \/ gate THEN Established(t, slot) /\ UNCHANGED <<gate, next, frames>>
       ELSE /\ Lagging \/ \A u \in Threads : th[u].slot # (next + 1) % Slots
            /\ gate' = TRUE /\ next' = next + 1
            /\ frames' = [frames EXCEPT ![(next + 1) % Slots].seq = Busy]
            /\ th' = [th EXCEPT ![t].pc = "publish", ![t].seq = next + 1, ![t].epoch = epoch]
    /\ UNCHANGED <<lock, bindings, lastTok, latest, epoch, present, pgate, resets, newest, history>>

\* The recycled slot's payload is rewritten, then its sequence published.
EstablishPublish_KeepsMask(t) ==
    /\ At(t, "publish")
    /\ LET k == th[t].seq % Slots IN
       frames' = [frames EXCEPT ![k].seq = th[t].seq, ![k].epoch = th[t].epoch,
                                ![k].ids = [NoFrame.ids EXCEPT ![Pacing] = th[t].id]]
    /\ issued' = issued \cup {[epoch |-> th[t].epoch, seq |-> th[t].seq, id |-> th[t].id]}
    /\ Goto(t, "bind_own")
    /\ UNCHANGED <<lock, bindings, lastTok, next, latest, epoch, gate, present, pgate,
                   resets, newest, accepted, shown>>

EstablishPublish(t) ==
    /\ At(t, "publish")
    /\ frames' = [frames EXCEPT ![th[t].seq % Slots] =
                    [NoFrame EXCEPT !.seq = th[t].seq, !.epoch = th[t].epoch,
                                    !.ids[Pacing] = th[t].id]]
    /\ issued' = issued \cup {[epoch |-> th[t].epoch, seq |-> th[t].seq, id |-> th[t].id]}
    /\ Goto(t, "bind_own")
    /\ UNCHANGED <<lock, bindings, lastTok, next, latest, epoch, gate, present, pgate,
                   resets, newest, accepted, shown>>

EstablishBind(t) ==
    /\ At(t, "bind_own")
    /\ PublishBinding(Pacing, th[t].id, th[t].seq % Slots)
    /\ Goto(t, "latest")
    /\ UNCHANGED <<lock, frames, next, latest, epoch, gate, present, pgate, resets, newest,
                   history>>

EstablishLatest(t) ==
    /\ At(t, "latest")
    /\ latest' = th[t].seq /\ gate' = FALSE
    /\ Established(t, th[t].seq % Slots)
    /\ UNCHANGED <<lock, frames, bindings, lastTok, next, epoch, present, pgate, resets,
                   newest, history>>

----------------------------------------------------------------------------
(* bind_source_to_latest                                                    *)

BindLoad(t) ==
    /\ At(t, "bind_load")
    /\ LET l == th[t] IN
       IF latest = 0 \/ latest <= lastTok[l.src] THEN Return(t)
       ELSE th' = [th EXCEPT ![t].pc = "bind_cas", ![t].epoch = epoch,
                             ![t].seq = latest, ![t].last = lastTok[l.src]]
    /\ UNCHANGED <<lock, ring, epoch, gate, present, pgate, resets, newest, history>>

\* The token a native id belongs to: the latest, or, when the pacing source is several
\* tokens ahead, the one the source's own id delta points at; 0 when that is ambiguous.
BindTarget_AlwaysLatest(l) == l.seq

BindTarget(l) ==
    LET gap == l.seq - l.last
        prev == FrameForToken(l.epoch, l.last)
        native == frames[prev].ids[l.src]
    IN  IF l.last = 0 \/ gap <= 1 \/ gap >= Slots THEN l.seq
        ELSE IF prev = NoSlot THEN 0
        ELSE IF native = 0 \/ l.id <= native \/ l.id - native > gap THEN 0
        ELSE l.last + (l.id - native)

BindCas(t) ==
    /\ At(t, "bind_cas")
    /\ LET l == th[t]
           slot == FrameForToken(l.epoch, BindTarget(l))
       IN  IF slot = NoSlot \/ frames[slot].ids[l.src] \notin {0, l.id}
           THEN Return(t) /\ UNCHANGED frames
           ELSE /\ frames' = [frames EXCEPT ![slot].ids[l.src] = l.id]
                /\ th' = [th EXCEPT ![t].slot = slot, ![t].pc = "bind_publish"]
    /\ UNCHANGED <<lock, bindings, lastTok, next, latest, epoch, gate, present, pgate,
                   resets, newest, history>>

BindPublish(t) ==
    /\ At(t, "bind_publish")
    /\ PublishBinding(th[t].src, th[t].id, th[t].slot)
    /\ th' = [th EXCEPT ![t] = WithFrame(@, @.slot)]
    /\ UNCHANGED <<lock, frames, next, latest, epoch, gate, present, pgate, resets, newest,
                   history>>

----------------------------------------------------------------------------
(* What the callback returns.                                               *)

\* marker_mask.fetch_or: a marker already reported for the frame is dropped.
Mark_Unconditional(t) ==
    /\ At(t, "mark")
    /\ frames' = [frames EXCEPT ![th[t].slot].mask = @ \cup {th[t].mk}] /\ Goto(t, "token")
    /\ UNCHANGED <<lock, bindings, lastTok, next, latest, epoch, gate, present, pgate,
                   resets, newest, history>>

Mark(t) ==
    /\ At(t, "mark")
    /\ LET l == th[t] IN
       IF l.mk \in frames[l.slot].mask THEN Return(t) /\ UNCHANGED frames
       ELSE /\ frames' = [frames EXCEPT ![l.slot].mask = @ \cup {l.mk}] /\ Goto(t, "token")
    /\ UNCHANGED <<lock, bindings, lastTok, next, latest, epoch, gate, present, pgate,
                   resets, newest, history>>

\* token_from_frame: whatever the slot holds now, unless it is empty or busy.
Token(t) ==
    /\ At(t, "token")
    /\ LET l == th[t]
           f == frames[l.slot]
       IN  accepted' = IF f.seq \in {0, Busy} THEN accepted
                       ELSE accepted \cup {[epoch |-> f.epoch, seq |-> f.seq, src |-> l.src,
                                            id |-> l.id, mk |-> l.mk, n |->
                              Cardinality({a \in accepted : a.epoch = f.epoch
                                              /\ a.seq = f.seq /\ a.mk = l.mk})]}
    /\ Return(t)
    /\ UNCHANGED <<lock, ring, epoch, gate, present, pgate, resets, newest, issued, shown>>

\* canonicalize_fg_presentation_locked after the frame is known: the gate, then the
\* render token's identity, the next presentation number and the next generation.
Presentation(t) ==
    /\ At(t, "presentation") /\ pnext < MaxPresents
    /\ LET k == th[t].slot
           f == frames[k]
       IN  IF pgate \/ f.epoch = 0 \/ f.seq \in {0, Busy}
           THEN Return(t) /\ UNCHANGED <<pgate, pnext, frames>>
           ELSE /\ pgate' = TRUE /\ pnext' = pnext + 1
                /\ frames' = [frames EXCEPT ![k].count = @ + 1]
                /\ th' = [th EXCEPT ![t].pc = "ppublish", ![t].seq = f.seq,
                                    ![t].epoch = f.epoch, ![t].last = f.count + 1]
    /\ UNCHANGED <<lock, bindings, lastTok, next, latest, epoch, gate, pres, resets, newest,
                   history>>

PresentationPublish(t) ==
    /\ At(t, "ppublish")
    /\ LET p == [seq |-> pnext, epoch |-> th[t].epoch, render |-> th[t].seq,
                 gen |-> th[t].last]
       IN  /\ pres' = [pres EXCEPT ![pnext % PSlots] = p]
           /\ shown' = shown \cup {p}
    /\ pgate' = FALSE /\ Return(t)
    /\ UNCHANGED <<lock, ring, epoch, gate, pnext, resets, newest, issued, accepted>>

----------------------------------------------------------------------------
(* reset(), called by deinit_current_tech, and the next startup freeze.     *)

Wipe ==
    /\ lock /\ resets < MaxResets /\ resets' = resets + 1
    /\ Lagging \/ \A t \in Threads : At(t, "idle")
    /\ frames' = [k \in Ring |-> NoFrame]
    /\ bindings' = [s \in Sources |-> [k \in Ring |-> NoBinding]]
    /\ lastTok' = [s \in Sources |-> 0]
    /\ next' = 0 /\ latest' = 0 /\ pnext' = 0
    /\ pres' = [k \in 0..(PSlots-1) |-> NoPresentation]
    /\ epoch' = epoch + 1 /\ gate' = FALSE /\ pgate' = FALSE /\ lock' = FALSE
    /\ IF Lagging THEN UNCHANGED history ELSE issued' = {} /\ accepted' = {} /\ shown' = {}
    /\ UNCHANGED <<newest, th>>

Freeze ==
    /\ ~lock /\ lock' = TRUE
    /\ UNCHANGED <<ring, epoch, gate, present, pgate, resets, newest, history, th>>

----------------------------------------------------------------------------
Step(t) ==
    \/ EstablishOpen(t) \/ EstablishPublish(t)
    \/ EstablishBind(t) \/ EstablishLatest(t)
    \/ BindLoad(t) \/ BindCas(t) \/ BindPublish(t) \/ Mark(t) \/ Token(t)
    \/ Presentation(t) \/ PresentationPublish(t)

Next ==
    \/ \E t \in Threads, op \in {"pace", "marker", "fg"}, s \in Sources, i \in 1..MaxId,
          mk \in Markers \cup {"none", "fg"} : Call(t, op, s, i, mk)
    \/ \E t \in Threads : Step(t)
    \/ Wipe \/ Freeze

Spec == Init /\ [][Next]_vars

----------------------------------------------------------------------------
(* Properties.                                                              *)

\* Repeated observations of one native frame resolve to one token, and a sequence number
\* names one frame: within an epoch, native pacing ids and tokens are in bijection.
OneTokenPerFrame ==
    \A a, b \in issued : a.epoch = b.epoch => (a.seq = b.seq <=> a.id = b.id)

\* The executor receives each marker of a render frame at most once.
MarkerOnce == \A a \in accepted : a.n = 0

\* A marker lands on a token that exists, and the markers of one frontend keep their
\* order: an earlier native frame is never attached to a later token, and one frame is
\* attached to one token unless a whole ring of frames lies between two mentions of it.
MarkersInOrder ==
    /\ \A a \in accepted : \E f \in issued : a.epoch = f.epoch /\ a.seq = f.seq
    /\ \A a, b \in accepted :
          a.src = b.src /\ a.epoch = b.epoch =>
              /\ a.id < b.id => a.seq < b.seq
              /\ a.id = b.id /\ a.seq < b.seq => b.seq - a.seq >= Slots

\* The presentations of one render frame are numbered 1, 2, ... without gap or repetition,
\* whatever mixture of callbacks produced them.
GenerationsContiguous ==
    \A p \in shown :
        /\ \E f \in issued : p.epoch = f.epoch /\ p.render = f.seq
        /\ \A q \in shown : p.epoch = q.epoch /\ p.render = q.render /\ p.gen = q.gen => p = q
        /\ p.gen > 1 => \E q \in shown : q.epoch = p.epoch /\ q.render = p.render
                                           /\ q.gen = p.gen - 1
----------------------------------------------------------------------------
(* Why they hold when callbacks are prompt and in order: the invariant of    *)
(* the callbacks' steps.                                                     *)

Prompt == ~Lagging /\ ~OutOfOrder

\* Where a callback is says whether it has its frame; one that has not is about the
\* newest frame of its frontend, alone unless it belongs to the pacing source.
CallbackPhase ==
    \A t \in Threads :
        /\ th[t].slot = NoSlot <=> th[t].pc \in {"idle", "establish", "publish", "bind_own",
                                                 "latest", "bind_load", "bind_cas"}
        /\ th[t].pc \in {"establish", "publish", "bind_own", "latest"} => th[t].src = Pacing
        /\ th[t].pc \in {"bind_cas", "bind_publish"} => th[t].src # Pacing
        /\ th[t].pc # "idle" => th[t].id \in 1..newest[th[t].src]
        /\ Seeking(t) => th[t].id = newest[th[t].src]
        /\ \A u \in Threads :
              Seeking(t) /\ Seeking(u) /\ th[t].src = th[u].src /\ th[t].src # Pacing => t = u

\* The callback inside the publish gate of establish_canonical_frame.
Holder(t) == th[t].pc \in {"publish", "bind_own", "latest"}
NewToken(t) == [epoch |-> epoch, seq |-> next, id |-> th[t].id]
NewBinding(t) == [native |-> th[t].id, epoch |-> epoch, seq |-> next]

GateHolder ==
    /\ next - 1 <= latest /\ latest <= next
    /\ ~gate => latest = next
    /\ \A t \in Threads : Holder(t) =>
        /\ gate /\ next > 0 /\ latest = next - 1 /\ th[t].seq = next /\ th[t].epoch = epoch
        /\ \A u \in Threads : Holder(u) => t = u
        /\ th[t].pc = "publish" =>
              /\ frames[next % Slots].seq = Busy
              /\ \A a \in issued : a.seq < next /\ a.id < newest[Pacing]
        /\ th[t].pc # "publish" =>
              NewToken(t) \in issued /\ frames[next % Slots].seq = next
        /\ th[t].pc = "latest" =>
              lastTok[Pacing] >= next /\ bindings[Pacing][th[t].id % Slots] = NewBinding(t)

\* Tokens follow the native frames of the pacing source: never more tokens than frames
\* since one of them, and the newest one is found again as long as it is the newest.
TokensIssued ==
    /\ latest <= lastTok[Pacing]
    /\ \A s \in Sources : lastTok[s] # 0 => \E a \in issued : a.seq = lastTok[s]
    /\ \A a \in issued :
        /\ a.epoch = epoch /\ a.seq \in 1..next /\ a.id \in 1..newest[Pacing]
        /\ next - a.seq <= newest[Pacing] - a.id
        /\ next - a.seq < Slots => frames[a.seq % Slots].seq = a.seq
        /\ ~gate /\ a.id = newest[Pacing] =>
              bindings[Pacing][a.id % Slots] = [native |-> a.id, epoch |-> epoch, seq |-> next]
        /\ \A b \in issued : a.seq < b.seq <=> a.id < b.id
    /\ (\A t \in Threads : ~Holder(t)) /\ (\A a \in issued : a.id # newest[Pacing]) =>
        \A a \in issued : next - a.seq < newest[Pacing] - a.id
    /\ \A k \in Ring : frames[k].seq > 0 =>
        frames[k].epoch = epoch /\ frames[k].seq % Slots = k
        /\ \E a \in issued : a.seq = frames[k].seq

\* A callback's frame is not recycled under it.
FramesHeld == \A t \in Threads : th[t].slot # NoSlot => frames[th[t].slot].seq > 0

\* marker_mask says which markers were handed out, or are about to be.
MarkersMasked ==
    /\ \A a \in accepted :
        /\ a.epoch = epoch /\ a.n = 0 /\ \E f \in issued : f.seq = a.seq
        /\ \A k \in Ring : frames[k].seq = a.seq => a.mk \in frames[k].mask
    /\ \A t \in Threads : th[t].pc = "token" =>
        /\ th[t].mk \in frames[th[t].slot].mask
        /\ \A a \in accepted : ~(a.seq = frames[th[t].slot].seq /\ a.mk = th[t].mk)
        /\ \A u \in Threads :
              th[u].pc = "token" /\ th[u].slot = th[t].slot /\ th[u].mk = th[t].mk => t = u

\* The presentation count of a frame: all of them are shown, but for the one in the gate.
GenerationsCounted ==
    /\ \A p \in shown :
        /\ p.epoch = epoch /\ p.gen > 0 /\ \E f \in issued : f.seq = p.render
        /\ \A k \in Ring : frames[k].seq = p.render => p.gen <= frames[k].count
    /\ \A k \in Ring : frames[k].seq > 0 =>
        \A g \in 1..frames[k].count :
            \/ \E p \in shown : p.render = frames[k].seq /\ p.gen = g
            \/ \E t \in Threads : th[t].pc = "ppublish" /\ th[t].slot = k /\ th[t].last = g
    /\ \A t \in Threads : th[t].pc = "ppublish" =>
        /\ pgate /\ th[t].epoch = epoch /\ th[t].seq = frames[th[t].slot].seq
        /\ th[t].last = frames[th[t].slot].count /\ th[t].last > 0
        /\ \A p \in shown : ~(p.render = th[t].seq /\ p.gen = th[t].last)
        /\ \A u \in Threads : th[u].pc = "ppublish" => t = u

\* Which native frame of a frontend is attached to which token: by a marker handed out,
\* by a callback that has its frame, or by a binding.
Attached(s) ==
    {[id |-> a.id, seq |-> a.seq] : a \in {b \in accepted : b.src = s}}
    \cup {[id |-> th[t].id, seq |-> frames[th[t].slot].seq] : t \in {u \in Threads :
            th[u].src = s /\ th[u].slot # NoSlot /\ th[u].pc # "bind_publish"}}
    \cup {[id |-> bindings[s][k].native, seq |-> bindings[s][k].seq] :
            k \in {j \in Ring : bindings[s][j].seq # 0}}

\* The newest frame of the frontend is attached already.
Again(s) == \E x \in Attached(s) : x.id = newest[s]

InOrder(x, y) ==
    /\ x.id < y.id => x.seq < y.seq
    /\ x.id = y.id /\ x.seq < y.seq => y.seq - x.seq >= Slots

\* A frontend binds its newest frame beyond everything it has bound; binding the same
\* frame again means that its token was recycled.
SourceInOrder(s) ==
    /\ \A x \in Attached(s) :
          /\ x.id \in 1..newest[s] /\ x.seq \in 1..lastTok[s]
          /\ \A y \in Attached(s) : InOrder(x, y)
    /\ Again(s) => bindings[s][newest[s] % Slots] =
                       [native |-> newest[s], epoch |-> epoch, seq |-> lastTok[s]]

BindsBeyond(t) ==
    LET l == th[t]
        last == lastTok[l.src]
    IN  /\ l.src # Pacing /\ l.pc \in {"bind_load", "bind_cas"} /\ Again(l.src) =>
              frames[last % Slots].seq # last
        /\ l.pc = "bind_cas" =>
              l.last = last /\ l.seq > last /\ (Again(l.src) => l.seq - last >= Slots - 1)
        /\ l.pc = "bind_publish" =>
              /\ frames[l.slot].seq > last
              /\ Again(l.src) => frames[l.slot].seq - last >= Slots

AttachedInOrder ==
    /\ \A x \in Attached(Pacing) : \E a \in issued : a.id = x.id /\ a.seq = x.seq
    /\ \A s \in Sources \ {Pacing} : SourceInOrder(s)
    /\ \A t \in Threads : BindsBeyond(t)

TimelineInvariant ==
    /\ CallbackPhase /\ GateHolder /\ TokensIssued /\ FramesHeld
    /\ MarkersMasked /\ GenerationsCounted /\ GenerationsContiguous /\ AttachedInOrder
=============================================================================
