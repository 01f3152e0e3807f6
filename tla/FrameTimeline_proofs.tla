----------------------- MODULE FrameTimeline_proofs -----------------------
(***************************************************************************)
(* Proofs about FrameTimeline for every number of threads, frontends,       *)
(* markers, frames and slots, when callbacks are prompt and in order: one   *)
(* token per native frame, each marker once and in order, and contiguous    *)
(* generations.                                                             *)
(***************************************************************************)
EXTENDS FrameTimeline, FiniteSetTheorems, TLAPS

----------------------------------------------------------------------------
(* Arithmetic of the rings *)

\* Division with remainder.
LEMMA DivMod ==
    \A S \in Nat \ {0}, n \in Nat :
        n = S * (n \div S) + (n % S) /\ n \div S \in Nat /\ n % S \in Nat
OBVIOUS

\* A positive multiple is at least the factor.
LEMMA Multiple == \A S \in Nat \ {0}, d \in Int : S * d > 0 => S * d >= S
OBVIOUS

\* Multiplication distributes over a difference.
LEMMA Distribute == \A S, a, b \in Int : S * (a - b) = S * a - S * b
OBVIOUS

\* Two sequence numbers less than a ring apart have different slots.
LEMMA DistinctSlots ==
    ASSUME NEW m \in Nat, NEW n \in Nat, m < n, n - m < Slots
    PROVE  m % Slots # n % Slots
<1> SUFFICES ASSUME m % Slots = n % Slots PROVE FALSE
  OBVIOUS
<1>0. Slots \in Nat \ {0} BY TimelineAssumptions
<1> DEFINE a == n \div Slots
           b == m \div Slots
           r == n % Slots
<1>1. n = Slots * a + r /\ a \in Nat /\ r \in Nat BY <1>0, DivMod, Zenon
<1>2. m = Slots * b + r /\ b \in Nat BY <1>0, DivMod, Zenon
<1> HIDE DEF a, b, r
<1>3. Slots * (a - b) = Slots * a - Slots * b BY <1>0, <1>1, <1>2, Distribute
<1>4. Slots * (a - b) = n - m BY <1>0, <1>1, <1>2, <1>3
<1>5. a - b \in Int BY <1>1, <1>2
<1>6. Slots * (a - b) >= Slots BY <1>0, <1>4, <1>5, Multiple
<1> QED BY <1>0, <1>4, <1>6

\* A sequence number or a native id reduced by the ring size indexes the ring.
LEMMA InRing ==
    /\ \A n \in Nat : n % Slots \in Ring
    /\ \A n \in Nat : n % PSlots \in 0..(PSlots-1)
    /\ NoSlot \notin Ring
BY TimelineAssumptions DEF Ring, NoSlot

----------------------------------------------------------------------------
(* What the parts of the callbacks do *)

\* The fields of the callbacks, slots and bindings, one by one.
LEMMA Types ==
    ASSUME TypeOK
    PROVE  /\ \A z \in Threads :
                /\ th[z].pc \in PCs /\ th[z].src \in Sources /\ th[z].id \in Nat
                /\ th[z].slot \in Ring \cup {NoSlot}
                /\ th[z].seq \in Nat /\ th[z].epoch \in Nat /\ th[z].last \in Nat
           /\ \A k \in Ring :
                /\ frames[k].seq \in Nat \cup {Busy} /\ frames[k].seq \in Int
                /\ frames[k].epoch \in Nat /\ frames[k].count \in Nat
           /\ \A s \in Sources, k \in Ring :
                /\ bindings[s][k].native \in Nat /\ bindings[s][k].epoch \in Nat
                /\ bindings[s][k].seq \in Nat
           /\ \A s \in Sources : lastTok[s] \in Nat /\ newest[s] \in Nat
           /\ epoch \in Nat \ {0} /\ next \in Nat /\ latest \in Nat /\ pnext \in Nat
           /\ \A a \in issued : a.epoch \in Nat /\ a.seq \in Nat /\ a.id \in Nat
           /\ \A a \in accepted : a.epoch \in Nat /\ a.seq \in Nat /\ a.id \in Nat
           /\ \A p \in shown : p.epoch \in Nat /\ p.render \in Nat /\ p.gen \in Nat
<1>1. \A k \in Ring : frames[k].seq \in Nat \cup {Busy} BY DEF TypeOK, FrameType
<1>2. \A k \in Ring : frames[k].seq \in Int BY <1>1 DEF Busy
<1> QED BY <1>1, <1>2, SMTT(30) DEF TypeOK, FrameType, CallbackType

\* lookup_source_frame finds a slot that holds the token the binding names.
LEMMA Lookup ==
    ASSUME TypeOK, NEW s \in Sources, NEW i \in Nat
    PROVE  LET b == bindings[s][i % Slots]
               k == LookupSource(s, i)
           IN  /\ k # NoSlot =>
                    /\ k \in Ring /\ k = b.seq % Slots
                    /\ b.native = i /\ b.seq > 0 /\ frames[k].seq = b.seq
               /\ b.native = i /\ b.seq > 0 /\ b.epoch # 0 /\ b.epoch = frames[b.seq % Slots].epoch
                  /\ frames[b.seq % Slots].seq = b.seq => k = b.seq % Slots
BY Types, InRing DEF LookupSource, FrameForToken

\* A binding to a frame that is still in the ring is found.
LEMMA LookupHit ==
    ASSUME TypeOK, NEW s \in Sources, NEW i \in Nat, NEW e \in Nat \ {0}, NEW n \in Nat \ {0},
           bindings[s][i % Slots] = [native |-> i, epoch |-> e, seq |-> n],
           frames[n % Slots].epoch = e, frames[n % Slots].seq = n
    PROVE  LookupSource(s, i) = n % Slots
<1>1. PICK b : b = bindings[s][i % Slots] OBVIOUS
<1>2. b.native = i /\ b.epoch = e /\ b.seq = n BY <1>1
<1> QED BY <1>1, <1>2, Lookup

\* How a callback of frontend s about frame i goes on: it is over, or it has
\* the frame in slot k and uses it, or it has none and binds one.
GoesOn(t, s, i, k) ==
    \/ th'[t].pc = "idle" /\ th'[t].slot = NoSlot
    \/ /\ th'[t].src = s /\ th'[t].id = i /\ th'[t].slot = k
       /\ th'[t].pc \in IF k = NoSlot THEN {"bind_load"} ELSE {"mark", "presentation"}

\* What the parts of a callback leave in its locals is well typed.
LEMMA LocalTypes ==
    /\ Idle \in CallbackType
    /\ \A l \in CallbackType, k \in Ring \cup {NoSlot} : WithFrame(l, k) \in CallbackType
<1>1. Idle \in CallbackType BY TimelineAssumptions DEF Idle, CallbackType, PCs
<1>2. ASSUME NEW l \in CallbackType, NEW k \in Ring \cup {NoSlot}
      PROVE  WithFrame(l, k) \in CallbackType
  BY DEF WithFrame, CallbackType, PCs
<1> QED BY <1>1, <1>2

\* WithFrame keeps frontend and frame of the callback.
LEMMA WithFrameGoesOn ==
    ASSUME NEW t \in Threads, NEW l \in CallbackType, NEW k \in Ring \cup {NoSlot},
           th'[t] = WithFrame(l, k)
    PROVE  th'[t] \in CallbackType /\ GoesOn(t, l.src, l.id, k)
<1>1. th'[t] \in CallbackType BY LocalTypes
<1> QED BY <1>1 DEF WithFrame, GoesOn, CallbackType

\* The ownership test and the lookup after it.
LEMMA OwnerGoesOn ==
    ASSUME TypeOK, NEW t \in Threads, NEW l \in CallbackType, NEW k \in Ring \cup {NoSlot},
           th'[t] = OwnerOnly(l, k)
    PROVE  /\ th'[t] \in CallbackType
           /\ GoesOn(t, l.src, l.id, IF k # NoSlot THEN k ELSE LookupSource(l.src, l.id))
<1>1. l.src \in Sources /\ l.id \in Nat BY DEF CallbackType
<1>2. PICK j \in Ring \cup {NoSlot} : j = IF k # NoSlot THEN k ELSE LookupSource(l.src, l.id)
  BY <1>1, Lookup
<1>3. CASE Owner[l.mk] # l.src
  BY <1>3, LocalTypes DEF OwnerOnly, GoesOn, Idle
<1>4. CASE Owner[l.mk] = l.src
  <2>1. th'[t] = WithFrame(l, j) BY <1>2, <1>4 DEF OwnerOnly
  <2> QED BY <1>2, <2>1, WithFrameGoesOn
<1> QED BY <1>3, <1>4

\* The same at the end of establish_canonical_frame.
LEMMA EstablishedGoesOn ==
    ASSUME TypeOK, NEW t \in Threads, NEW k \in Ring \cup {NoSlot}, Established(t, k)
    PROVE  /\ th' \in [Threads -> CallbackType]
           /\ \A z \in Threads \ {t} : th'[z] = th[z]
           /\ GoesOn(t, th[t].src, th[t].id,
                     IF k # NoSlot THEN k ELSE LookupSource(th[t].src, th[t].id))
<1>1. th[t] \in CallbackType BY DEF TypeOK
<1>2. th'[t] = IF th[t].op = "pace" THEN Idle ELSE OwnerOnly(th[t], k)
  BY DEF Established, TypeOK
<1>3. CASE th[t].op = "pace"
  <2>1. th' = [th EXCEPT ![t] = Idle] BY <1>3 DEF Established
  <2>2. th'[t] = Idle BY <1>2, <1>3
  <2> QED BY <2>1, <2>2, LocalTypes DEF GoesOn, Idle, TypeOK
<1>4. CASE th[t].op # "pace"
  <2>1. th'[t] \in CallbackType /\ GoesOn(t, th[t].src, th[t].id,
            IF k # NoSlot THEN k ELSE LookupSource(th[t].src, th[t].id))
    BY <1>1, <1>2, <1>4, OwnerGoesOn
  <2> QED BY <1>1, <2>1 DEF Established, TypeOK
<1> QED BY <1>3, <1>4

\* A frontend's callback as it enters, in a program whose callbacks are in order.
LEMMA CallGoesOn ==
    ASSUME TypeOK, Prompt, NEW t \in Threads, NEW op \in {"pace", "marker", "fg"},
           NEW s \in Sources, NEW i \in 1..MaxId, NEW mk \in Markers \cup {"none", "fg"},
           Call(t, op, s, i, mk)
    PROVE  /\ th' \in [Threads -> CallbackType]
           /\ th[t].pc = "idle"
           /\ \A z \in Threads \ {t} : th'[z] = th[z]
           /\ \/ i = newest[s] /\ (s = Pacing \/ ~Searching(s))
              \/ i > newest[s] /\ ~Searching(s)
           /\ s = Pacing => i <= newest[s] + 1
           /\ i \in Nat /\ i > 0
           /\ newest' = [newest EXCEPT ![s] = i] /\ newest' \in [Sources -> Nat]
           /\ \/ /\ s = Pacing /\ th'[t].src = s /\ th'[t].id = i
                 /\ th'[t].pc = "establish" /\ th'[t].slot = NoSlot
              \/ GoesOn(t, s, i, LookupSource(s, i))
           /\ UNCHANGED <<lock, ring, epoch, gate, present, pgate, resets, history>>
<1>0. i \in Nat /\ i > 0 BY TimelineAssumptions
<1>1. i \in Ids(s) BY DEF Call
<1>2. /\ \/ i = newest[s] /\ (s = Pacing \/ ~Searching(s))
         \/ i > newest[s] /\ ~Searching(s)
      /\ s = Pacing => i <= newest[s] + 1
  BY <1>1 DEF Ids, Prompt
<1>3. newest' = [newest EXCEPT ![s] = i] /\ newest' \in [Sources -> Nat]
  BY <1>0, <1>2, Types DEF Call, TypeOK
<1> DEFINE l == [Idle EXCEPT !.op = op, !.src = s, !.id = i, !.mk = mk, !.pc = "establish"]
<1>4. l \in CallbackType /\ l.src = s /\ l.id = i /\ l.pc = "establish" /\ l.slot = NoSlot
  BY <1>0, LocalTypes DEF CallbackType, PCs, Idle
<1>5. th' = [th EXCEPT ![t] = IF op # "fg" /\ s = Pacing THEN l ELSE OwnerOnly(l, NoSlot)]
  BY DEF Call
<1> HIDE DEF l
<1>6. CASE op # "fg" /\ s = Pacing
  <2>1. th' = [th EXCEPT ![t] = l] BY <1>5, <1>6
  <2> QED BY <1>0, <1>2, <1>3, <1>4, <1>6, <2>1, ZenonT(40) DEF Call, At, TypeOK
<1>7. CASE ~(op # "fg" /\ s = Pacing)
  <2>1. th' = [th EXCEPT ![t] = OwnerOnly(l, NoSlot)] BY <1>5, <1>7
  <2>2. th'[t] = OwnerOnly(l, NoSlot) BY <2>1 DEF TypeOK
  <2>3. th'[t] \in CallbackType /\ GoesOn(t, s, i, LookupSource(s, i))
    BY <1>4, <2>2, OwnerGoesOn
  <2> QED BY <1>0, <1>2, <1>3, <2>1, <2>3 DEF Call, At, TypeOK
<1> QED BY <1>6, <1>7

\* The other callbacks do not move.
Others(t) == \A z \in Threads \ {t} : th'[z] = th[z]

\* A callback that returns.
LEMMA Returns ==
    ASSUME TypeOK, NEW t \in Threads, Return(t)
    PROVE  /\ th' \in [Threads -> CallbackType] /\ Others(t)
           /\ th'[t].pc = "idle" /\ th'[t].slot = NoSlot
<1>1. th'[t] = Idle BY DEF Return, TypeOK
<1>2. th' \in [Threads -> CallbackType] BY LocalTypes DEF Return, TypeOK
<1> QED BY <1>1, <1>2 DEF Return, Others, Idle, TypeOK

\* A callback that only moves on.
LEMMA Moves ==
    ASSUME TypeOK, NEW t \in Threads, NEW l \in PCs, Goto(t, l)
    PROVE  /\ th' \in [Threads -> CallbackType] /\ Others(t)
           /\ th'[t] = [th[t] EXCEPT !.pc = l]
           /\ th'[t].pc = l /\ th'[t].slot = th[t].slot /\ th'[t].src = th[t].src
           /\ th'[t].id = th[t].id /\ th'[t].mk = th[t].mk /\ th'[t].seq = th[t].seq
           /\ th'[t].epoch = th[t].epoch /\ th'[t].last = th[t].last
<1>1. th[t] \in CallbackType BY DEF TypeOK
<1>2. th'[t] = [th[t] EXCEPT !.pc = l] BY DEF Goto, TypeOK
<1>3. th'[t] \in CallbackType BY <1>1, <1>2 DEF CallbackType
<1>4. th' \in [Threads -> CallbackType] /\ Others(t)
  BY <1>3 DEF Goto, TypeOK, Others
<1> QED BY <1>1, <1>2, <1>4 DEF CallbackType

----------------------------------------------------------------------------
(* What each step does, and that it keeps the types *)

\* The first half of establish_canonical_frame.
LEMMA EstablishOpenEffect ==
    ASSUME TypeOK, Prompt, CallbackPhase, NEW t \in Threads, EstablishOpen(t)
    PROVE  /\ TypeOK' /\ Others(t) /\ th[t].pc = "establish" /\ th[t].src = Pacing
           /\ \/ /\ LookupSource(Pacing, th[t].id) # NoSlot \/ gate
                 /\ GoesOn(t, Pacing, th[t].id, LookupSource(Pacing, th[t].id))
                 /\ UNCHANGED <<frames, next, gate>>
              \/ /\ LookupSource(Pacing, th[t].id) = NoSlot /\ ~gate
                 /\ \A u \in Threads : th[u].slot # (next + 1) % Slots
                 /\ gate' = TRUE /\ next' = next + 1
                 /\ \A k \in Ring :
                      /\ frames'[k].seq = IF k = (next + 1) % Slots THEN Busy ELSE frames[k].seq
                      /\ frames'[k].epoch = frames[k].epoch /\ frames'[k].mask = frames[k].mask
                      /\ frames'[k].count = frames[k].count
                 /\ th'[t].pc = "publish" /\ th'[t].seq = next + 1 /\ th'[t].epoch = epoch
                 /\ th'[t].src = th[t].src /\ th'[t].id = th[t].id /\ th'[t].slot = th[t].slot
           /\ UNCHANGED <<lock, bindings, lastTok, latest, epoch, present, pgate, resets,
                          newest, history>>
<1> DEFINE k0 == LookupSource(Pacing, th[t].id)
<1>1. th[t].pc = "establish" /\ th[t].src = Pacing BY DEF EstablishOpen, At, CallbackPhase
<1>2. Pacing \in Sources /\ th[t].id \in Nat BY Types, TimelineAssumptions
<1>3. k0 \in Ring \cup {NoSlot} BY <1>2, Lookup
<1>4. UNCHANGED <<lock, bindings, lastTok, latest, epoch, present, pgate, resets, newest, history>>
  BY DEF EstablishOpen
<1>5. CASE k0 # NoSlot \/ gate
  <2>1. Established(t, k0) /\ UNCHANGED <<gate, next, frames>>
    BY <1>5, Zenon DEF EstablishOpen
  <2>2. /\ th' \in [Threads -> CallbackType] /\ Others(t)
        /\ GoesOn(t, Pacing, th[t].id, k0)
    BY <1>1, <1>3, <2>1, EstablishedGoesOn DEF Others
  <2>3. TypeOK' BY <1>4, <2>1, <2>2 DEF TypeOK, present, history
  <2> QED BY <1>1, <1>4, <1>5, <2>1, <2>2, <2>3
<1>6. CASE ~(k0 # NoSlot \/ gate)
  <2>1. /\ \A u \in Threads : th[u].slot # (next + 1) % Slots
        /\ gate' = TRUE /\ next' = next + 1
        /\ frames' = [frames EXCEPT ![(next + 1) % Slots].seq = Busy]
        /\ th' = [th EXCEPT ![t].pc = "publish", ![t].seq = next + 1, ![t].epoch = epoch]
    BY <1>6, Zenon DEF EstablishOpen, Prompt
  <2>2. (next + 1) % Slots \in Ring /\ next + 1 \in Nat /\ epoch \in Nat BY InRing DEF TypeOK
  <2>3. \A k \in Ring :
          /\ frames'[k].seq = IF k = (next + 1) % Slots THEN Busy ELSE frames[k].seq
          /\ frames'[k].epoch = frames[k].epoch /\ frames'[k].mask = frames[k].mask
          /\ frames'[k].count = frames[k].count
    BY <2>1, <2>2 DEF TypeOK, FrameType
  <2>4. frames' \in [Ring -> FrameType] BY <2>1, <2>2, ZenonT(40) DEF TypeOK, FrameType
  <2>5. /\ th'[t].pc = "publish" /\ th'[t].seq = next + 1 /\ th'[t].epoch = epoch
        /\ th'[t].src = th[t].src /\ th'[t].id = th[t].id /\ th'[t].slot = th[t].slot
        /\ Others(t)
    BY <2>1 DEF TypeOK, CallbackType, Others
  <2>6. th' \in [Threads -> CallbackType]
    <3>1. th[t] \in CallbackType BY DEF TypeOK
    <3>2. th'[t] = [th[t] EXCEPT !.pc = "publish", !.seq = next + 1, !.epoch = epoch]
      BY <2>1, <3>1 DEF TypeOK, CallbackType
    <3>3. th'[t] \in CallbackType BY <2>2, <3>1, <3>2 DEF CallbackType, PCs
    <3> QED BY <2>1, <3>3 DEF TypeOK
  <2>7. TypeOK' BY <1>4, <2>1, <2>2, <2>4, <2>6 DEF TypeOK, present, history
  <2> QED BY <1>1, <1>4, <1>6, <2>1, <2>3, <2>5, <2>7
<1> QED BY <1>5, <1>6

\* The recycled slot is rewritten and its sequence published.
LEMMA EstablishPublishEffect ==
    ASSUME TypeOK, CallbackPhase, GateHolder, NEW t \in Threads, EstablishPublish(t)
    PROVE  /\ TypeOK' /\ Others(t) /\ th[t].pc = "publish" /\ th[t].src = Pacing
           /\ issued' = issued \cup {NewToken(t)}
           /\ \A k \in Ring :
                IF k = next % Slots
                THEN frames'[k].seq = next /\ frames'[k].epoch = epoch
                     /\ frames'[k].mask = {} /\ frames'[k].count = 0
                ELSE frames'[k] = frames[k]
           /\ th'[t] = [th[t] EXCEPT !.pc = "bind_own"]
           /\ th'[t].pc = "bind_own" /\ th'[t].seq = next /\ th'[t].epoch = epoch
           /\ th'[t].src = th[t].src /\ th'[t].id = th[t].id /\ th'[t].slot = th[t].slot
           /\ UNCHANGED <<lock, bindings, lastTok, next, latest, epoch, gate, present, pgate,
                          resets, newest, accepted, shown>>
<1>1. th[t].pc = "publish" /\ Goto(t, "bind_own") /\ "bind_own" \in PCs
  BY DEF EstablishPublish, At, PCs
<1>2. th[t].src = Pacing /\ th[t].seq = next /\ th[t].epoch = epoch
  BY <1>1 DEF CallbackPhase, GateHolder, Holder
<1>3. UNCHANGED <<lock, bindings, lastTok, next, latest, epoch, gate, present, pgate,
                  resets, newest, accepted, shown>>
  BY DEF EstablishPublish
<1>4. next % Slots \in Ring /\ next \in Nat /\ epoch \in Nat /\ th[t].id \in Nat /\ Pacing \in Sources
  BY InRing, Types, TimelineAssumptions
<1> DEFINE f == [NoFrame EXCEPT !.seq = next, !.epoch = epoch, !.ids[Pacing] = th[t].id]
<1>5. f \in FrameType /\ f.seq = next /\ f.epoch = epoch /\ f.mask = {} /\ f.count = 0
  BY <1>4 DEF FrameType, NoFrame
<1>6. frames' = [frames EXCEPT ![next % Slots] = f]
  BY <1>2 DEF EstablishPublish
<1>7. issued' = issued \cup {NewToken(t)} BY <1>2 DEF EstablishPublish, NewToken
<1> HIDE DEF f
<1>8. /\ frames' \in [Ring -> FrameType]
      /\ \A k \in Ring : frames'[k] = IF k = next % Slots THEN f ELSE frames[k]
  BY <1>4, <1>5, <1>6 DEF TypeOK
<1>9. NewToken(t) \in [epoch : Nat, seq : Nat, id : Nat] BY <1>4 DEF NewToken
<1>10. TypeOK' BY <1>1, <1>3, <1>7, <1>8, <1>9, Moves DEF TypeOK, present
<1> QED BY <1>1, <1>2, <1>3, <1>5, <1>7, <1>8, <1>10, Moves

\* publish_source_binding of a slot that holds a token.
LEMMA PublishBindingEffect ==
    ASSUME TypeOK, TokensIssued, NEW s \in Sources, NEW i \in Nat, NEW k \in Ring,
           frames[k].seq > 0, PublishBinding(s, i, k)
    PROVE  /\ bindings' \in [Sources -> [Ring -> [native : Nat, epoch : Nat, seq : Nat]]]
           /\ lastTok' \in [Sources -> Nat]
           /\ \A r \in Sources, j \in Ring : bindings'[r][j] =
                IF r = s /\ j = i % Slots
                THEN [native |-> i, epoch |-> epoch, seq |-> frames[k].seq] ELSE bindings[r][j]
           /\ \A r \in Sources \ {s} : bindings'[r] = bindings[r] /\ lastTok'[r] = lastTok[r]
           /\ lastTok'[s] = IF lastTok[s] < frames[k].seq THEN frames[k].seq ELSE lastTok[s]
<1> DEFINE b == [native |-> i, epoch |-> epoch, seq |-> frames[k].seq]
<1>1. frames[k].epoch = epoch /\ frames[k].seq \notin {0, Busy} /\ frames[k].seq \in Nat /\ epoch # 0
  BY Types DEF TokensIssued, Busy
<1>2. /\ bindings' = [bindings EXCEPT ![s][i % Slots] = b]
      /\ lastTok' = [lastTok EXCEPT ![s] = IF @ < frames[k].seq THEN frames[k].seq ELSE @]
  BY <1>1 DEF PublishBinding
<1>3. b \in [native : Nat, epoch : Nat, seq : Nat] /\ i % Slots \in Ring
  BY <1>1, InRing, Types
<1> HIDE DEF b
<1>4. /\ bindings' \in [Sources -> [Ring -> [native : Nat, epoch : Nat, seq : Nat]]]
      /\ \A r \in Sources, j \in Ring : bindings'[r][j] =
            IF r = s /\ j = i % Slots THEN b ELSE bindings[r][j]
      /\ \A r \in Sources \ {s} : bindings'[r] = bindings[r]
  BY <1>2, <1>3 DEF TypeOK
<1>5. /\ lastTok' \in [Sources -> Nat]
      /\ lastTok'[s] = IF lastTok[s] < frames[k].seq THEN frames[k].seq ELSE lastTok[s]
      /\ \A r \in Sources \ {s} : lastTok'[r] = lastTok[r]
  BY <1>1, <1>2 DEF TypeOK
<1> QED BY <1>4, <1>5 DEF b

\* The new token is bound to its native frame.
LEMMA EstablishBindEffect ==
    ASSUME TypeOK, CallbackPhase, GateHolder, TokensIssued, NEW t \in Threads, EstablishBind(t)
    PROVE  /\ TypeOK' /\ Others(t) /\ th[t].pc = "bind_own" /\ th[t].src = Pacing
           /\ \A r \in Sources, j \in Ring : bindings'[r][j] =
                IF r = Pacing /\ j = th[t].id % Slots THEN NewBinding(t) ELSE bindings[r][j]
           /\ \A r \in Sources \ {Pacing} : bindings'[r] = bindings[r] /\ lastTok'[r] = lastTok[r]
           /\ lastTok'[Pacing] = IF lastTok[Pacing] < next THEN next ELSE lastTok[Pacing]
           /\ th'[t].pc = "latest" /\ th'[t].seq = next /\ th'[t].epoch = epoch
           /\ th'[t].src = th[t].src /\ th'[t].id = th[t].id /\ th'[t].slot = th[t].slot
           /\ UNCHANGED <<lock, frames, next, latest, epoch, gate, present, pgate, resets,
                          newest, history>>
<1>1. th[t].pc = "bind_own" /\ Goto(t, "latest") /\ "latest" \in PCs
  BY DEF EstablishBind, At, PCs
<1>2. /\ th[t].src = Pacing /\ th[t].seq = next /\ th[t].epoch = epoch
      /\ frames[next % Slots].seq = next /\ next > 0
  BY <1>1 DEF CallbackPhase, GateHolder, Holder
<1>3. UNCHANGED <<lock, frames, next, latest, epoch, gate, present, pgate, resets, newest, history>>
  BY DEF EstablishBind
<1>4. PublishBinding(Pacing, th[t].id, next % Slots) BY <1>2 DEF EstablishBind
<1>5. next % Slots \in Ring /\ th[t].id \in Nat /\ Pacing \in Sources
  BY InRing, Types, TimelineAssumptions
<1>6. /\ bindings' \in [Sources -> [Ring -> [native : Nat, epoch : Nat, seq : Nat]]]
      /\ lastTok' \in [Sources -> Nat]
      /\ \A r \in Sources, j \in Ring : bindings'[r][j] =
            IF r = Pacing /\ j = th[t].id % Slots
            THEN [native |-> th[t].id, epoch |-> epoch, seq |-> next] ELSE bindings[r][j]
      /\ \A r \in Sources \ {Pacing} : bindings'[r] = bindings[r] /\ lastTok'[r] = lastTok[r]
      /\ lastTok'[Pacing] = IF lastTok[Pacing] < next THEN next ELSE lastTok[Pacing]
  BY <1>2, <1>4, <1>5, PublishBindingEffect
<1>7. TypeOK' BY <1>1, <1>3, <1>6, Moves DEF TypeOK, present, history
<1> QED BY <1>1, <1>2, <1>3, <1>6, <1>7, Moves DEF NewBinding

\* The latest token is published and the gate opens.
LEMMA EstablishLatestEffect ==
    ASSUME TypeOK, CallbackPhase, GateHolder, NEW t \in Threads, EstablishLatest(t)
    PROVE  /\ TypeOK' /\ Others(t) /\ th[t].pc = "latest" /\ th[t].src = Pacing
           /\ latest' = next /\ gate' = FALSE
           /\ GoesOn(t, Pacing, th[t].id, next % Slots)
           /\ UNCHANGED <<lock, frames, bindings, lastTok, next, epoch, present, pgate, resets,
                          newest, history>>
<1>1. th[t].pc = "latest" /\ Established(t, th[t].seq % Slots) /\ gate' = FALSE /\ latest' = th[t].seq
  BY DEF EstablishLatest, At
<1>2. th[t].src = Pacing /\ th[t].seq = next
  BY <1>1 DEF CallbackPhase, GateHolder, Holder
<1>3. UNCHANGED <<lock, frames, bindings, lastTok, next, epoch, present, pgate, resets, newest, history>>
  BY DEF EstablishLatest
<1>4. next % Slots \in Ring /\ next % Slots # NoSlot /\ next \in Nat BY InRing, Types
<1>5. th' \in [Threads -> CallbackType] /\ Others(t) /\ GoesOn(t, Pacing, th[t].id, next % Slots)
  BY <1>1, <1>2, <1>4, EstablishedGoesOn DEF Others
<1>6. TypeOK' BY <1>1, <1>2, <1>3, <1>4, <1>5 DEF TypeOK, present, history
<1> QED BY <1>1, <1>2, <1>3, <1>5, <1>6

\* bind_source_to_latest reads the newest token.
LEMMA BindLoadEffect ==
    ASSUME TypeOK, NEW t \in Threads, BindLoad(t)
    PROVE  /\ TypeOK' /\ Others(t) /\ th[t].pc = "bind_load"
           /\ \/ th'[t].pc = "idle" /\ th'[t].slot = NoSlot
              \/ /\ latest > lastTok[th[t].src]
                 /\ th'[t].pc = "bind_cas" /\ th'[t].seq = latest /\ th'[t].last = lastTok[th[t].src]
                 /\ th'[t].src = th[t].src /\ th'[t].id = th[t].id /\ th'[t].slot = th[t].slot
           /\ UNCHANGED <<lock, ring, epoch, gate, present, pgate, resets, newest, history>>
<1>1. UNCHANGED <<lock, ring, epoch, gate, present, pgate, resets, newest, history>> /\ th[t].pc = "bind_load"
  BY DEF BindLoad, At
<1>2. CASE Return(t)
  <2>1. TypeOK' BY <1>1, <1>2, Returns DEF TypeOK, ring, present, history
  <2> QED BY <1>1, <1>2, <2>1, Returns
<1>3. CASE ~Return(t)
  <2>1. /\ ~(latest = 0 \/ latest <= lastTok[th[t].src])
        /\ th' = [th EXCEPT ![t].pc = "bind_cas", ![t].epoch = epoch,
                            ![t].seq = latest, ![t].last = lastTok[th[t].src]]
    BY <1>3 DEF BindLoad
  <2>2. th[t] \in CallbackType /\ latest \in Nat /\ lastTok[th[t].src] \in Nat /\ epoch \in Nat
    BY Types DEF TypeOK
  <2>3. th'[t] = [th[t] EXCEPT !.pc = "bind_cas", !.epoch = epoch,
                               !.seq = latest, !.last = lastTok[th[t].src]]
    BY <2>1, <2>2 DEF TypeOK, CallbackType
  <2>4. th'[t] \in CallbackType BY <2>2, <2>3 DEF CallbackType, PCs
  <2>5. th' \in [Threads -> CallbackType] /\ Others(t) BY <2>1, <2>4 DEF TypeOK, Others
  <2>6. TypeOK' BY <1>1, <2>5 DEF TypeOK, ring, present, history
  <2>7. latest > lastTok[th[t].src] BY <2>1, <2>2
  <2> QED BY <1>1, <2>2, <2>3, <2>5, <2>6, <2>7 DEF CallbackType
<1> QED BY <1>2, <1>3

\* The token a callback binds exists, is beyond the frontend's last one, and
\* is the newest when the last one is recycled.
LEMMA BindTargets ==
    ASSUME TypeOK, TokensIssued, NEW t \in Threads,
           th[t].seq > th[t].last, FrameForToken(th[t].epoch, BindTarget(th[t])) # NoSlot
    PROVE  LET k == FrameForToken(th[t].epoch, BindTarget(th[t]))
           IN  /\ k \in Ring /\ frames[k].seq > th[t].last
               /\ th[t].last # 0 /\ frames[th[t].last % Slots].seq # th[t].last
                  /\ th[t].seq - th[t].last > 1 => frames[k].seq = th[t].seq /\ frames[k].seq - th[t].last >= Slots
<1> DEFINE l == th[t]
           g == BindTarget(l)
<1>1. l.seq \in Nat /\ l.last \in Nat /\ l.id \in Nat /\ l.src \in Sources /\ Slots \in Nat
  BY Types, TimelineAssumptions
<1>2. g \in Int /\ (g > l.last \/ g = 0)
  <2>1. ASSUME NEW k \in Ring PROVE frames[k].ids[l.src] \in Nat
    BY <1>1 DEF TypeOK, FrameType
  <2>2. l.last % Slots \in Ring BY <1>1, InRing
  <2>3. PICK prev : prev = FrameForToken(l.epoch, l.last) OBVIOUS
  <2>4. prev \in {NoSlot, l.last % Slots} BY <2>3 DEF FrameForToken
  <2>5. CASE l.last = 0 \/ l.seq - l.last <= 1 \/ l.seq - l.last >= Slots
    <3>1. g = l.seq BY <2>5, Zenon DEF BindTarget
    <3> QED BY <1>1, <3>1
  <2>6. CASE ~(l.last = 0 \/ l.seq - l.last <= 1 \/ l.seq - l.last >= Slots)
    <3>1. CASE prev = NoSlot
      <4>1. g = 0 BY <2>3, <2>6, <3>1, Zenon DEF BindTarget
      <4> QED BY <4>1
    <3>2. CASE prev # NoSlot
      <4>1. PICK n \in Nat : n = frames[prev].ids[l.src] BY <2>1, <2>2, <2>4, <3>2
      <4>2. g = IF n = 0 \/ l.id <= n \/ l.id - n > l.seq - l.last THEN 0 ELSE l.last + (l.id - n)
        BY <2>3, <2>6, <3>2, <4>1, Zenon DEF BindTarget
      <4> HIDE DEF l, g
      <4> QED BY <1>1, <4>2
    <3> QED BY <3>1, <3>2
  <2> QED BY <2>5, <2>6
<1>3. g > l.last \/ g = 0 BY <1>2
<1>4. g > 0 /\ FrameForToken(l.epoch, g) = g % Slots /\ frames[g % Slots].seq = g
  BY <1>2 DEF FrameForToken
<1>5. g % Slots \in Ring BY <1>2, <1>4, InRing
<1>6. l.last # 0 /\ frames[l.last % Slots].seq # l.last /\ l.seq - l.last > 1 =>
          g = l.seq /\ l.seq - l.last >= Slots
  <2> SUFFICES ASSUME l.last # 0, frames[l.last % Slots].seq # l.last, l.seq - l.last > 1
               PROVE  g = l.seq /\ l.seq - l.last >= Slots
    OBVIOUS
  <2>1. FrameForToken(l.epoch, l.last) = NoSlot BY DEF FrameForToken
  <2>2. CASE l.seq - l.last >= Slots BY <1>1, <2>2 DEF BindTarget
  <2>3. CASE ~(l.seq - l.last >= Slots)
    <3>1. g = 0 BY <1>1, <2>1, <2>3 DEF BindTarget
    <3> QED BY <1>4, <3>1
  <2> QED BY <2>2, <2>3
<1> QED BY <1>1, <1>3, <1>4, <1>5, <1>6

\* bind_source_to_latest takes its slot: of the frame only ids changes.
LEMMA BindCasEffect ==
    ASSUME TypeOK, TokensIssued, AttachedInOrder, NEW t \in Threads, BindCas(t)
    PROVE  /\ TypeOK' /\ Others(t) /\ th[t].pc = "bind_cas"
           /\ \A k \in Ring :
                /\ frames'[k].seq = frames[k].seq /\ frames'[k].epoch = frames[k].epoch
                /\ frames'[k].mask = frames[k].mask /\ frames'[k].count = frames[k].count
           /\ \/ th'[t].pc = "idle" /\ th'[t].slot = NoSlot
              \/ /\ th'[t].pc = "bind_publish" /\ th'[t].slot \in Ring
                 /\ th'[t].src = th[t].src /\ th'[t].id = th[t].id
                 /\ frames[th'[t].slot].seq > th[t].last
                 /\ th[t].last # 0 /\ frames[th[t].last % Slots].seq # th[t].last
                    /\ th[t].seq - th[t].last > 1 =>
                       frames[th'[t].slot].seq - th[t].last >= Slots
           /\ UNCHANGED <<lock, bindings, lastTok, next, latest, epoch, gate, present, pgate,
                          resets, newest, history>>
<1> DEFINE k0 == FrameForToken(th[t].epoch, BindTarget(th[t]))
<1>1. /\ UNCHANGED <<lock, bindings, lastTok, next, latest, epoch, gate, present, pgate,
                     resets, newest, history>>
      /\ th[t].pc = "bind_cas"
  BY DEF BindCas, At
<1>2. CASE Return(t) /\ UNCHANGED frames
  <2>1. TypeOK' BY <1>1, <1>2, Returns DEF TypeOK, present, history
  <2> QED BY <1>1, <1>2, <2>1, Returns
<1>3. CASE ~(Return(t) /\ UNCHANGED frames)
  <2>1. /\ k0 # NoSlot
        /\ frames' = [frames EXCEPT ![k0].ids[th[t].src] = th[t].id]
        /\ th' = [th EXCEPT ![t].slot = k0, ![t].pc = "bind_publish"]
    BY <1>3 DEF BindCas
  <2>2. th[t].seq > th[t].last BY <1>1 DEF AttachedInOrder, BindsBeyond
  <2>3. /\ k0 \in Ring /\ frames[k0].seq > th[t].last
        /\ th[t].last # 0 /\ frames[th[t].last % Slots].seq # th[t].last
           /\ th[t].seq - th[t].last > 1 => frames[k0].seq - th[t].last >= Slots
    BY <2>1, <2>2, BindTargets
  <2> HIDE DEF k0
  <2>4. th[t] \in CallbackType /\ th[t].src \in Sources /\ th[t].id \in Nat BY Types DEF TypeOK
  <2>5. th'[t] = [th[t] EXCEPT !.slot = k0, !.pc = "bind_publish"]
    BY <2>1, <2>4 DEF TypeOK, CallbackType
  <2>6. th'[t] \in CallbackType BY <2>3, <2>4, <2>5 DEF CallbackType, PCs
  <2>7. th' \in [Threads -> CallbackType] /\ Others(t) BY <2>1, <2>6 DEF TypeOK, Others
  <2>8. /\ frames' \in [Ring -> FrameType]
        /\ \A k \in Ring :
             /\ frames'[k].seq = frames[k].seq /\ frames'[k].epoch = frames[k].epoch
             /\ frames'[k].mask = frames[k].mask /\ frames'[k].count = frames[k].count
    BY <2>1, <2>3, <2>4, ZenonT(40) DEF TypeOK, FrameType
  <2>9. TypeOK' BY <1>1, <2>7, <2>8 DEF TypeOK, present, history
  <2> QED BY <1>1, <2>3, <2>4, <2>5, <2>7, <2>8, <2>9 DEF CallbackType
<1> QED BY <1>2, <1>3

\* ... and binds its native frame to it.
LEMMA BindPublishEffect ==
    ASSUME TypeOK, CallbackPhase, TokensIssued, FramesHeld, NEW t \in Threads, BindPublish(t)
    PROVE  /\ TypeOK' /\ Others(t) /\ th[t].pc = "bind_publish" /\ th[t].slot \in Ring
           /\ th[t].src # Pacing
           /\ GoesOn(t, th[t].src, th[t].id, th[t].slot)
           /\ \A r \in Sources, j \in Ring : bindings'[r][j] =
                IF r = th[t].src /\ j = th[t].id % Slots
                THEN [native |-> th[t].id, epoch |-> epoch, seq |-> frames[th[t].slot].seq]
                ELSE bindings[r][j]
           /\ \A r \in Sources \ {th[t].src} : bindings'[r] = bindings[r] /\ lastTok'[r] = lastTok[r]
           /\ lastTok'[th[t].src] =
                IF lastTok[th[t].src] < frames[th[t].slot].seq
                THEN frames[th[t].slot].seq ELSE lastTok[th[t].src]
           /\ UNCHANGED <<lock, frames, next, latest, epoch, gate, present, pgate, resets,
                          newest, history>>
<1>1. /\ th[t].pc = "bind_publish" /\ th' = [th EXCEPT ![t] = WithFrame(th[t], th[t].slot)]
      /\ PublishBinding(th[t].src, th[t].id, th[t].slot)
      /\ UNCHANGED <<lock, frames, next, latest, epoch, gate, present, pgate, resets, newest, history>>
  BY DEF BindPublish, At
<1>2. /\ th[t].slot \in Ring /\ th[t].slot # NoSlot /\ th[t].src # Pacing
      /\ th[t].src \in Sources /\ th[t].id \in Nat /\ th[t] \in CallbackType
  BY <1>1, Types DEF CallbackPhase, TypeOK
<1>3. frames[th[t].slot].seq > 0 BY <1>2 DEF FramesHeld
<1>4. th'[t] = WithFrame(th[t], th[t].slot) BY <1>1 DEF TypeOK
<1>5. th'[t] \in CallbackType /\ GoesOn(t, th[t].src, th[t].id, th[t].slot)
  BY <1>2, <1>4, WithFrameGoesOn
<1>6. th' \in [Threads -> CallbackType] /\ Others(t) BY <1>1, <1>5 DEF TypeOK, Others
<1>7. /\ bindings' \in [Sources -> [Ring -> [native : Nat, epoch : Nat, seq : Nat]]]
      /\ lastTok' \in [Sources -> Nat]
      /\ \A r \in Sources, j \in Ring : bindings'[r][j] =
            IF r = th[t].src /\ j = th[t].id % Slots
            THEN [native |-> th[t].id, epoch |-> epoch, seq |-> frames[th[t].slot].seq]
            ELSE bindings[r][j]
      /\ \A r \in Sources \ {th[t].src} : bindings'[r] = bindings[r] /\ lastTok'[r] = lastTok[r]
      /\ lastTok'[th[t].src] =
            IF lastTok[th[t].src] < frames[th[t].slot].seq
            THEN frames[th[t].slot].seq ELSE lastTok[th[t].src]
  BY <1>1, <1>2, <1>3, PublishBindingEffect
<1>8. TypeOK' BY <1>1, <1>6, <1>7 DEF TypeOK, present, history
<1> QED BY <1>1, <1>2, <1>5, <1>6, <1>7, <1>8

\* marker_mask.fetch_or.
LEMMA MarkEffect ==
    ASSUME TypeOK, CallbackPhase, NEW t \in Threads, Mark(t)
    PROVE  /\ TypeOK' /\ Others(t) /\ th[t].pc = "mark" /\ th[t].slot \in Ring
           /\ \A k \in Ring :
                /\ frames'[k].seq = frames[k].seq /\ frames'[k].epoch = frames[k].epoch
                /\ frames'[k].count = frames[k].count
           /\ \/ th'[t].pc = "idle" /\ th'[t].slot = NoSlot /\ UNCHANGED frames
              \/ /\ th[t].mk \notin frames[th[t].slot].mask
                 /\ \A k \in Ring : frames'[k].mask =
                      IF k = th[t].slot THEN frames[k].mask \cup {th[t].mk} ELSE frames[k].mask
                 /\ th'[t].pc = "token" /\ th'[t].slot = th[t].slot /\ th'[t].src = th[t].src
                 /\ th'[t].id = th[t].id /\ th'[t].mk = th[t].mk
           /\ UNCHANGED <<lock, bindings, lastTok, next, latest, epoch, gate, present, pgate,
                          resets, newest, history>>
<1>1. /\ th[t].pc = "mark"
      /\ UNCHANGED <<lock, bindings, lastTok, next, latest, epoch, gate, present, pgate,
                     resets, newest, history>>
  BY DEF Mark, At
<1>2. th[t].slot \in Ring /\ th[t].mk \in Markers \cup {"none", "fg"}
  BY <1>1, Types DEF CallbackPhase, TypeOK, CallbackType
<1>3. CASE Return(t) /\ UNCHANGED frames
  <2>1. TypeOK' BY <1>1, <1>3, Returns DEF TypeOK, present, history
  <2> QED BY <1>1, <1>2, <1>3, <2>1, Returns
<1>4. CASE ~(Return(t) /\ UNCHANGED frames)
  <2>1. /\ th[t].mk \notin frames[th[t].slot].mask /\ Goto(t, "token") /\ "token" \in PCs
        /\ frames' = [frames EXCEPT ![th[t].slot].mask = @ \cup {th[t].mk}]
    BY <1>4 DEF Mark, PCs
  <2>2. /\ frames' \in [Ring -> FrameType]
        /\ \A k \in Ring :
             /\ frames'[k].seq = frames[k].seq /\ frames'[k].epoch = frames[k].epoch
             /\ frames'[k].count = frames[k].count
             /\ frames'[k].mask =
                  IF k = th[t].slot THEN frames[k].mask \cup {th[t].mk} ELSE frames[k].mask
    <3> DEFINE f == [frames[th[t].slot] EXCEPT !.mask = @ \cup {th[t].mk}]
    <3>1. frames[th[t].slot] \in FrameType BY <1>2 DEF TypeOK
    <3>2. frames[th[t].slot].mask \cup {th[t].mk} \in SUBSET (Markers \cup {"none", "fg"})
      BY <1>2, <3>1 DEF FrameType
    <3>3. /\ f \in FrameType /\ f.mask = frames[th[t].slot].mask \cup {th[t].mk}
          /\ f.seq = frames[th[t].slot].seq /\ f.epoch = frames[th[t].slot].epoch
          /\ f.count = frames[th[t].slot].count
      BY <3>1, <3>2 DEF FrameType
    <3>4. frames' = [frames EXCEPT ![th[t].slot] = f] BY <2>1
    <3> HIDE DEF f
    <3> QED BY <1>2, <3>3, <3>4 DEF TypeOK
  <2>3. TypeOK' BY <1>1, <2>1, <2>2, Moves DEF TypeOK, present, history
  <2> QED BY <1>1, <1>2, <2>1, <2>2, <2>3, Moves
<1> QED BY <1>3, <1>4

\* token_from_frame hands the marker out, the first of its kind for the token.
LEMMA TokenEffect ==
    ASSUME TypeOK, CallbackPhase, TokensIssued, FramesHeld, MarkersMasked,
           NEW t \in Threads, Token(t)
    PROVE  /\ TypeOK' /\ Others(t) /\ th[t].pc = "token" /\ th[t].slot \in Ring
           /\ th'[t].pc = "idle" /\ th'[t].slot = NoSlot
           /\ accepted' = accepted \cup {[epoch |-> epoch, seq |-> frames[th[t].slot].seq,
                src |-> th[t].src, id |-> th[t].id, mk |-> th[t].mk, n |-> 0]}
           /\ UNCHANGED <<lock, ring, epoch, gate, present, pgate, resets, newest, issued, shown>>
<1> DEFINE f == frames[th[t].slot]
           same == {a \in accepted : a.epoch = f.epoch /\ a.seq = f.seq /\ a.mk = th[t].mk}
           new == [epoch |-> epoch, seq |-> f.seq, src |-> th[t].src, id |-> th[t].id,
                   mk |-> th[t].mk, n |-> 0]
<1>1. /\ th[t].pc = "token" /\ Return(t)
      /\ UNCHANGED <<lock, ring, epoch, gate, present, pgate, resets, newest, issued, shown>>
      /\ accepted' = IF f.seq \in {0, Busy} THEN accepted
                     ELSE accepted \cup {[epoch |-> f.epoch, seq |-> f.seq, src |-> th[t].src,
                            id |-> th[t].id, mk |-> th[t].mk, n |-> Cardinality(same)]}
  BY DEF Token, At
<1>2. th[t].slot \in Ring /\ th[t].slot # NoSlot BY <1>1, Types DEF CallbackPhase
<1>3. f.seq > 0 /\ f.seq \in Nat /\ f.epoch = epoch
  BY <1>2, Types DEF FramesHeld, TokensIssued, Busy
<1>4. same = {} BY <1>1 DEF MarkersMasked
<1>5. Cardinality(same) = 0 BY <1>4, FS_EmptySet
<1>6. accepted' = accepted \cup {new} BY <1>1, <1>3, <1>5 DEF Busy
<1>7. new \in [epoch : Nat, seq : Nat, src : Sources, id : Nat,
               mk : Markers \cup {"none", "fg"}, n : Nat]
  BY <1>3, Types DEF TypeOK, CallbackType
<1> HIDE DEF new, f
<1>8. TypeOK' BY <1>1, <1>6, <1>7, Returns DEF TypeOK, ring, present
<1> QED BY <1>1, <1>2, <1>6, <1>8, Returns DEF new, f

\* canonicalize_fg_presentation_locked enters its gate and counts.
LEMMA PresentationEffect ==
    ASSUME TypeOK, CallbackPhase, TokensIssued, FramesHeld, NEW t \in Threads, Presentation(t)
    PROVE  /\ TypeOK' /\ Others(t) /\ th[t].pc = "presentation" /\ th[t].slot \in Ring
           /\ \A k \in Ring :
                /\ frames'[k].seq = frames[k].seq /\ frames'[k].epoch = frames[k].epoch
                /\ frames'[k].mask = frames[k].mask
           /\ \/ th'[t].pc = "idle" /\ th'[t].slot = NoSlot /\ UNCHANGED <<frames, pgate>>
              \/ /\ ~pgate /\ pgate' = TRUE
                 /\ \A k \in Ring : frames'[k].count =
                      IF k = th[t].slot THEN frames[k].count + 1 ELSE frames[k].count
                 /\ th'[t].pc = "ppublish" /\ th'[t].slot = th[t].slot /\ th'[t].src = th[t].src
                 /\ th'[t].id = th[t].id /\ th'[t].seq = frames[th[t].slot].seq
                 /\ th'[t].epoch = epoch /\ th'[t].last = frames[th[t].slot].count + 1
           /\ UNCHANGED <<lock, bindings, lastTok, next, latest, epoch, gate, resets, newest, history>>
<1> DEFINE k0 == th[t].slot
           f == frames[k0]
<1>1. /\ th[t].pc = "presentation"
      /\ UNCHANGED <<lock, bindings, lastTok, next, latest, epoch, gate, pres, resets, newest, history>>
  BY DEF Presentation, At
<1>2. k0 \in Ring /\ k0 # NoSlot BY <1>1, Types DEF CallbackPhase
<1>3. f.seq > 0 /\ f.seq \in Nat /\ f.epoch = epoch /\ f.count \in Nat /\ epoch \in Nat
      /\ f.count + 1 \in Nat
  BY <1>2, Types DEF FramesHeld, TokensIssued, Busy
<1>4. CASE Return(t) /\ UNCHANGED <<pgate, pnext, frames>>
  <2>1. TypeOK' BY <1>1, <1>4, Returns DEF TypeOK, history
  <2> QED BY <1>1, <1>2, <1>4, <2>1, Returns
<1>5. CASE ~(Return(t) /\ UNCHANGED <<pgate, pnext, frames>>)
  <2>1. /\ ~pgate /\ pgate' = TRUE /\ pnext' = pnext + 1
        /\ frames' = [frames EXCEPT ![k0].count = @ + 1]
        /\ th' = [th EXCEPT ![t].pc = "ppublish", ![t].seq = f.seq,
                            ![t].epoch = f.epoch, ![t].last = f.count + 1]
    BY <1>5, Zenon DEF Presentation
  <2>2. /\ frames' \in [Ring -> FrameType]
        /\ \A k \in Ring :
             /\ frames'[k].seq = frames[k].seq /\ frames'[k].epoch = frames[k].epoch
             /\ frames'[k].mask = frames[k].mask
             /\ frames'[k].count = IF k = k0 THEN frames[k].count + 1 ELSE frames[k].count
    <3> DEFINE h == [f EXCEPT !.count = @ + 1]
    <3>1. f \in FrameType BY <1>2 DEF TypeOK
    <3>2. /\ h \in FrameType /\ h.count = f.count + 1 /\ h.seq = f.seq
          /\ h.epoch = f.epoch /\ h.mask = f.mask
      BY <1>3, <3>1 DEF FrameType
    <3>3. frames' = [frames EXCEPT ![k0] = h] BY <2>1
    <3> HIDE DEF h
    <3> QED BY <1>2, <3>2, <3>3 DEF TypeOK
  <2>3. th[t] \in CallbackType BY DEF TypeOK
  <2>4. th'[t] = [th[t] EXCEPT !.pc = "ppublish", !.seq = f.seq, !.epoch = f.epoch, !.last = f.count + 1]
    BY <2>1, <2>3 DEF TypeOK, CallbackType
  <2>5. th'[t] \in CallbackType BY <1>3, <2>3, <2>4 DEF CallbackType, PCs
  <2>6. th' \in [Threads -> CallbackType] /\ Others(t) BY <2>1, <2>5 DEF TypeOK, Others
  <2>7. TypeOK'
    <3>1. pnext' \in Nat BY <2>1, Types
    <3>2. pgate' \in BOOLEAN BY <2>1
    <3> QED BY <1>1, <2>2, <2>6, <3>1, <3>2 DEF TypeOK, history
  <2> QED BY <1>1, <1>2, <1>3, <2>1, <2>2, <2>3, <2>4, <2>6, <2>7 DEF CallbackType
<1> QED BY <1>4, <1>5

\* ... and publishes the presentation.
LEMMA PresentationPublishEffect ==
    ASSUME TypeOK, NEW t \in Threads, PresentationPublish(t)
    PROVE  /\ TypeOK' /\ Others(t) /\ th[t].pc = "ppublish"
           /\ th'[t].pc = "idle" /\ th'[t].slot = NoSlot /\ pgate' = FALSE
           /\ shown' = shown \cup {[seq |-> pnext, epoch |-> th[t].epoch,
                                    render |-> th[t].seq, gen |-> th[t].last]}
           /\ UNCHANGED <<lock, ring, epoch, gate, resets, newest, issued, accepted>>
<1> DEFINE p == [seq |-> pnext, epoch |-> th[t].epoch, render |-> th[t].seq, gen |-> th[t].last]
<1>1. /\ th[t].pc = "ppublish" /\ Return(t) /\ pgate' = FALSE
      /\ pres' = [pres EXCEPT ![pnext % PSlots] = p] /\ shown' = shown \cup {p}
      /\ UNCHANGED <<lock, ring, epoch, gate, pnext, resets, newest, issued, accepted>>
  BY DEF PresentationPublish, At
<1>2. p \in [seq : Nat, epoch : Nat, render : Nat, gen : Nat] /\ pnext % PSlots \in 0..(PSlots-1)
  BY Types, InRing
<1> HIDE DEF p
<1>3. pres' \in [0..(PSlots-1) -> [seq : Nat, epoch : Nat, render : Nat, gen : Nat]]
  BY <1>1, <1>2 DEF TypeOK
<1>4. TypeOK' BY <1>1, <1>2, <1>3, Returns DEF TypeOK, ring
<1> QED BY <1>1, <1>4, Returns DEF p

\* reset(): everything of the epoch goes, and no callback is under way.
LEMMA WipeEffect ==
    ASSUME TypeOK, Prompt, Wipe
    PROVE  /\ TypeOK' /\ UNCHANGED <<newest, th>>
           /\ \A t \in Threads : th[t].pc = "idle"
           /\ \A k \in Ring : frames'[k].seq = 0
           /\ \A s \in Sources : lastTok'[s] = 0
           /\ \A s \in Sources, k \in Ring : bindings'[s][k].seq = 0
           /\ next' = 0 /\ latest' = 0 /\ gate' = FALSE /\ pgate' = FALSE
           /\ issued' = {} /\ accepted' = {} /\ shown' = {}
<1>1. NoFrame \in FrameType /\ NoFrame.seq = 0 BY DEF NoFrame, FrameType
<1>2. NoBinding \in [native : Nat, epoch : Nat, seq : Nat] /\ NoBinding.seq = 0 BY DEF NoBinding
<1>3. NoPresentation \in [seq : Nat, epoch : Nat, render : Nat, gen : Nat] BY DEF NoPresentation
<1>4. /\ issued' = {} /\ accepted' = {} /\ shown' = {} /\ \A t \in Threads : th[t].pc = "idle"
  BY Zenon DEF Wipe, Prompt, At
<1>5. /\ frames' \in [Ring -> FrameType] /\ \A k \in Ring : frames'[k].seq = 0
      /\ bindings' \in [Sources -> [Ring -> [native : Nat, epoch : Nat, seq : Nat]]]
      /\ \A s \in Sources, k \in Ring : bindings'[s][k].seq = 0
      /\ pres' \in [0..(PSlots-1) -> [seq : Nat, epoch : Nat, render : Nat, gen : Nat]]
      /\ lastTok' \in [Sources -> Nat] /\ \A s \in Sources : lastTok'[s] = 0
  BY <1>1, <1>2, <1>3 DEF Wipe
<1>6. /\ UNCHANGED <<newest, th>> /\ next' = 0 /\ latest' = 0 /\ pnext' = 0
      /\ gate' = FALSE /\ pgate' = FALSE /\ lock' = FALSE
      /\ epoch' = epoch + 1 /\ resets' = resets + 1
  BY DEF Wipe
<1>7. TypeOK'
  <2>1. epoch' \in Nat \ {0} /\ resets' \in Nat BY <1>6 DEF TypeOK
  <2>2. lock' \in BOOLEAN /\ gate' \in BOOLEAN /\ pgate' \in BOOLEAN BY <1>6
  <2>3. next' \in Nat /\ latest' \in Nat /\ pnext' \in Nat BY <1>6
  <2> QED BY <1>4, <1>5, <1>6, <2>1, <2>2, <2>3 DEF TypeOK
<1> QED BY <1>4, <1>5, <1>6, <1>7

----------------------------------------------------------------------------
(* Where callbacks are *)

\* A callback that moves on about the same frame, or ends.
LEMMA PhaseMove ==
    ASSUME TypeOK, CallbackPhase, NEW t \in Threads, Others(t), UNCHANGED newest,
           th[t].pc # "idle",
           \/ th'[t].pc = "idle" /\ th'[t].slot = NoSlot
           \/ /\ th'[t].src = th[t].src /\ th'[t].id = th[t].id /\ th'[t].pc # "idle"
              /\ Seeking(t) \/ (th'[t].slot # NoSlot /\ th'[t].pc # "bind_publish")
              /\ th'[t].slot = NoSlot <=> th'[t].pc \in {"idle", "establish", "publish",
                                              "bind_own", "latest", "bind_load", "bind_cas"}
              /\ th'[t].pc \in {"establish", "publish", "bind_own", "latest"} => th[t].src = Pacing
              /\ th'[t].pc \in {"bind_cas", "bind_publish"} => th[t].src # Pacing
    PROVE  CallbackPhase'
<1>1. \A z \in Threads : Seeking(z)' => Seeking(z) /\ th'[z].src = th[z].src /\ th'[z].id = th[z].id
  BY DEF Others, Seeking
<1>2. ASSUME NEW z \in Threads
      PROVE  /\ th'[z].slot = NoSlot <=> th'[z].pc \in {"idle", "establish", "publish",
                                              "bind_own", "latest", "bind_load", "bind_cas"}
             /\ th'[z].pc \in {"establish", "publish", "bind_own", "latest"} => th'[z].src = Pacing
             /\ th'[z].pc \in {"bind_cas", "bind_publish"} => th'[z].src # Pacing
             /\ th'[z].pc # "idle" => th'[z].id \in 1..newest'[th'[z].src]
  <2>1. CASE z = t BY <2>1 DEF CallbackPhase
  <2>2. CASE z # t BY <2>2 DEF CallbackPhase, Others
  <2> QED BY <2>1, <2>2
<1>3. ASSUME NEW z \in Threads, Seeking(z)'
      PROVE  /\ th'[z].id = newest'[th'[z].src]
             /\ \A u \in Threads : Seeking(u)' /\ th'[z].src = th'[u].src /\ th'[z].src # Pacing => z = u
  BY <1>1, <1>3 DEF CallbackPhase
<1> QED BY <1>2, <1>3 DEF CallbackPhase

\* GoesOn is such a move for a callback that was seeking.
LEMMA PhaseGoesOn ==
    ASSUME TypeOK, CallbackPhase, NEW t \in Threads, Others(t), UNCHANGED newest, Seeking(t),
           NEW k \in Ring \cup {NoSlot}, GoesOn(t, th[t].src, th[t].id, k)
    PROVE  CallbackPhase'
<1>1. th[t].pc # "idle" BY DEF Seeking
<1> QED BY <1>1, PhaseMove, InRing DEF GoesOn

\* A callback that enters.
LEMMA PhaseCall ==
    ASSUME TypeOK, Prompt, CallbackPhase, NEW t \in Threads, NEW op \in {"pace", "marker", "fg"},
           NEW s \in Sources, NEW i \in 1..MaxId, NEW mk \in Markers \cup {"none", "fg"},
           Call(t, op, s, i, mk)
    PROVE  CallbackPhase'
<1>0. s \in Sources /\ i \in Nat /\ i > 0 BY CallGoesOn
<1>1. PICK k \in Ring \cup {NoSlot} : k = LookupSource(s, i) BY <1>0, Lookup
<1>2. /\ th[t].pc = "idle" /\ Others(t) /\ NoSlot \notin Ring
      /\ \A r \in Sources : newest'[r] = IF r = s THEN i ELSE newest[r]
      /\ newest[s] <= i /\ newest[s] \in Nat
      /\ (i > newest[s] \/ s # Pacing) => ~Searching(s)
  BY CallGoesOn, Types, InRing DEF Others
<1>3. \/ th'[t].pc = "idle" /\ th'[t].slot = NoSlot
      \/ /\ th'[t].src = s /\ th'[t].id = i /\ th'[t].pc # "idle"
         /\ th'[t].slot = NoSlot <=> th'[t].pc \in {"idle", "establish", "publish",
                                         "bind_own", "latest", "bind_load", "bind_cas"}
         /\ th'[t].pc \in {"establish", "publish", "bind_own", "latest"} => s = Pacing
         /\ th'[t].pc \notin {"bind_cas", "bind_publish"}
  BY <1>1, <1>2, CallGoesOn DEF GoesOn
<1>4. ASSUME NEW z \in Threads
      PROVE  /\ th'[z].slot = NoSlot <=> th'[z].pc \in {"idle", "establish", "publish",
                                              "bind_own", "latest", "bind_load", "bind_cas"}
             /\ th'[z].pc \in {"establish", "publish", "bind_own", "latest"} => th'[z].src = Pacing
             /\ th'[z].pc \in {"bind_cas", "bind_publish"} => th'[z].src # Pacing
             /\ th'[z].pc # "idle" => th'[z].id \in 1..newest'[th'[z].src]
  <2>1. CASE z = t BY <1>0, <1>2, <1>3, <2>1 DEF CallbackPhase
  <2>2. CASE z # t
    <3>1. th'[z] = th[z] /\ th[z].src \in Sources /\ th[z].id \in Nat BY <1>2, <2>2, Types DEF Others
    <3> QED BY <1>0, <1>2, <3>1 DEF CallbackPhase
  <2> QED BY <2>1, <2>2
<1>5. ASSUME NEW z \in Threads, Seeking(z)', z # t
      PROVE  /\ Seeking(z) /\ th'[z] = th[z] /\ th[z].src \in Sources
             /\ th'[z].id = newest'[th'[z].src]
  <2>1. Seeking(z) /\ th'[z] = th[z] /\ th[z].src \in Sources
    BY <1>2, <1>5, Types DEF Seeking, Others
  <2>2. th[z].src = s => i = newest[s] BY <1>2, <2>1 DEF Searching
  <2> QED BY <1>2, <2>1, <2>2 DEF CallbackPhase
<1>6. ASSUME Seeking(t)' PROVE th'[t].src = s /\ th'[t].id = newest'[th'[t].src]
  BY <1>2, <1>3, <1>6 DEF Seeking
<1>7. ASSUME NEW z \in Threads, NEW u \in Threads, Seeking(z)', Seeking(u)',
             th'[z].src = th'[u].src, th'[z].src # Pacing
      PROVE  z = u
  BY <1>2, <1>5, <1>6, <1>7 DEF CallbackPhase, Searching
<1> QED BY <1>4, <1>5, <1>6, <1>7 DEF CallbackPhase

\* Every step keeps types and phases.
LEMMA PhaseStep ==
    ASSUME TypeOK, Prompt, TimelineInvariant, [Next]_vars
    PROVE  TypeOK' /\ CallbackPhase'
<1> USE DEF TimelineInvariant
<1>1. ASSUME NEW t \in Threads, NEW op \in {"pace", "marker", "fg"}, NEW s \in Sources,
             NEW i \in 1..MaxId, NEW mk \in Markers \cup {"none", "fg"}, Call(t, op, s, i, mk)
      PROVE  TypeOK' /\ CallbackPhase'
  BY <1>1, PhaseCall, CallGoesOn, ZenonT(40) DEF TypeOK, ring, present, history
<1>2. ASSUME NEW t \in Threads, EstablishOpen(t) PROVE TypeOK' /\ CallbackPhase'
  <2>1. th[t].pc # "idle" /\ Seeking(t) /\ th[t].slot = NoSlot
    BY <1>2, EstablishOpenEffect DEF CallbackPhase, Seeking
  <2>2. LookupSource(Pacing, th[t].id) \in Ring \cup {NoSlot} BY Types, Lookup, TimelineAssumptions
  <2> QED BY <1>2, <2>1, <2>2, EstablishOpenEffect, PhaseGoesOn, PhaseMove
<1>3. ASSUME NEW t \in Threads, EstablishPublish(t) \/ EstablishBind(t) PROVE TypeOK' /\ CallbackPhase'
  <2>1. th[t].pc # "idle" /\ Seeking(t) /\ th[t].slot = NoSlot
    BY <1>3, EstablishPublishEffect, EstablishBindEffect DEF CallbackPhase, Seeking
  <2> QED BY <1>3, <2>1, EstablishPublishEffect, EstablishBindEffect, PhaseMove
<1>4. ASSUME NEW t \in Threads, EstablishLatest(t) PROVE TypeOK' /\ CallbackPhase'
  <2>1. th[t].pc # "idle" /\ Seeking(t) /\ th[t].slot = NoSlot
    BY <1>4, EstablishLatestEffect DEF CallbackPhase, Seeking
  <2>2. next % Slots \in Ring BY Types, InRing
  <2> QED BY <1>4, <2>1, <2>2, EstablishLatestEffect, PhaseGoesOn
<1>5. ASSUME NEW t \in Threads, BindLoad(t) PROVE TypeOK' /\ CallbackPhase'
  <2>1. th[t].pc # "idle" /\ Seeking(t) /\ th[t].slot = NoSlot
    BY <1>5, BindLoadEffect DEF CallbackPhase, Seeking
  <2>2. latest > lastTok[th[t].src] => th[t].src # Pacing BY Types DEF TokensIssued
  <2> QED BY <1>5, <2>1, <2>2, BindLoadEffect, PhaseMove
<1>6. ASSUME NEW t \in Threads, BindCas(t) PROVE TypeOK' /\ CallbackPhase'
  <2>1. th[t].pc # "idle" /\ Seeking(t) /\ th[t].src # Pacing
    BY <1>6, BindCasEffect DEF CallbackPhase, Seeking
  <2> QED BY <1>6, <2>1, BindCasEffect, PhaseMove, InRing
<1>7. ASSUME NEW t \in Threads, BindPublish(t) PROVE TypeOK' /\ CallbackPhase'
  <2>1. th[t].pc # "idle" /\ Seeking(t) BY <1>7, BindPublishEffect DEF Seeking
  <2> QED BY <1>7, <2>1, BindPublishEffect, PhaseGoesOn
<1>8. ASSUME NEW t \in Threads, Mark(t) PROVE TypeOK' /\ CallbackPhase'
  BY <1>8, MarkEffect, PhaseMove, InRing DEF CallbackPhase
<1>9. ASSUME NEW t \in Threads, Token(t) PROVE TypeOK' /\ CallbackPhase'
  BY <1>9, TokenEffect, PhaseMove
<1>10. ASSUME NEW t \in Threads, Presentation(t) PROVE TypeOK' /\ CallbackPhase'
  <2>1. th[t].pc # "idle" /\ th[t].slot # NoSlot BY <1>10, PresentationEffect, InRing
  <2>2. /\ TypeOK' /\ Others(t) /\ UNCHANGED newest
        /\ \/ th'[t].pc = "idle" /\ th'[t].slot = NoSlot
           \/ /\ th'[t].pc = "ppublish" /\ th'[t].slot = th[t].slot
              /\ th'[t].src = th[t].src /\ th'[t].id = th[t].id
    BY <1>10, PresentationEffect
  <2> QED BY <2>1, <2>2, PhaseMove
<1>11. ASSUME NEW t \in Threads, PresentationPublish(t) PROVE TypeOK' /\ CallbackPhase'
  BY <1>11, PresentationPublishEffect, PhaseMove
<1>12. CASE Wipe
  BY <1>12, WipeEffect DEF CallbackPhase, Seeking
<1>13. CASE Freeze \/ UNCHANGED vars
  <2>1. UNCHANGED <<ring, epoch, gate, present, pgate, resets, newest, history, th>>
        /\ lock' \in BOOLEAN
    BY <1>13 DEF Freeze, vars, TypeOK
  <2>2. TypeOK' BY <2>1 DEF TypeOK, ring, present, history
  <2> QED BY <2>1, <2>2 DEF CallbackPhase, Seeking
<1> QED BY <1>1, <1>2, <1>3, <1>4, <1>5, <1>6, <1>7, <1>8, <1>9, <1>10, <1>11, <1>12, <1>13
        DEF Next, Step

----------------------------------------------------------------------------
(* The publish gate and the tokens *)

\* A step that leaves tokens and gate alone.
Quiet(t) ==
    /\ Others(t) /\ ~Holder(t) /\ ~Holder(t)'
    /\ \A k \in Ring : frames'[k].seq = frames[k].seq /\ frames'[k].epoch = frames[k].epoch
    /\ lastTok'[Pacing] = lastTok[Pacing]
    /\ \A k \in Ring : bindings'[Pacing][k] = bindings[Pacing][k]
    /\ \A s \in Sources : lastTok'[s] = lastTok[s] \/ \E a \in issued : a.seq = lastTok'[s]
    /\ UNCHANGED <<latest, next, gate, issued, epoch>>
    /\ \/ newest'[Pacing] = newest[Pacing]
       \/ newest'[Pacing] = newest[Pacing] + 1 /\ \A z \in Threads : ~Holder(z)

\* It keeps the gate's holder ...
LEMMA GateQuiet ==
    ASSUME TypeOK, GateHolder, NEW t \in Threads, Quiet(t)
    PROVE  GateHolder'
<1>1. \A z \in Threads : Holder(z)' => Holder(z) /\ th'[z] = th[z] /\ newest'[Pacing] = newest[Pacing]
  BY DEF Quiet, Others, Holder
<1>2. next % Slots \in Ring /\ \A z \in Threads : th[z].id % Slots \in Ring
  BY Types, InRing
<1>3. /\ next' = next /\ latest' = latest /\ gate' = gate /\ issued' = issued /\ epoch' = epoch
      /\ lastTok'[Pacing] = lastTok[Pacing]
      /\ frames'[next % Slots].seq = frames[next % Slots].seq
      /\ \A z \in Threads : bindings'[Pacing][th[z].id % Slots] = bindings[Pacing][th[z].id % Slots]
  BY <1>2 DEF Quiet
<1>4. ASSUME NEW z \in Threads, Holder(z)'
      PROVE  NewToken(z)' = NewToken(z) /\ NewBinding(z)' = NewBinding(z)
  BY <1>1, <1>3, <1>4 DEF NewToken, NewBinding
<1> QED BY <1>1, <1>3, <1>4 DEF GateHolder

\* ... and the tokens.
LEMMA TokensQuiet ==
    ASSUME TypeOK, TypeOK', GateHolder, TokensIssued, NEW t \in Threads, Quiet(t)
    PROVE  TokensIssued'
<1>1. /\ next' = next /\ latest' = latest /\ gate' = gate /\ issued' = issued /\ epoch' = epoch
      /\ lastTok'[Pacing] = lastTok[Pacing]
      /\ newest[Pacing] \in Nat /\ newest'[Pacing] \in Nat /\ next \in Nat
      /\ \A a \in issued : a.seq \in Nat /\ a.id \in Nat /\ a.seq % Slots \in Ring /\ a.id % Slots \in Ring
  BY Types, InRing, TimelineAssumptions DEF Quiet, TypeOK
<1>2. (\A s \in Sources : lastTok[s] # 0 => \E a \in issued : a.seq = lastTok[s])'
  BY <1>1 DEF Quiet, TokensIssued
<1>3. ASSUME NEW a \in issued
      PROVE  /\ a.epoch = epoch' /\ a.seq \in 1..next' /\ a.id \in 1..newest'[Pacing]
             /\ next' - a.seq <= newest'[Pacing] - a.id
             /\ next' - a.seq < Slots => frames'[a.seq % Slots].seq = a.seq
             /\ ~gate' /\ a.id = newest'[Pacing] => bindings'[Pacing][a.id % Slots] =
                    [native |-> a.id, epoch |-> epoch', seq |-> next']
             /\ \A b \in issued : a.seq < b.seq <=> a.id < b.id
  BY <1>1 DEF Quiet, TokensIssued
<1>4. ASSUME \A z \in Threads : ~Holder(z)', \A a \in issued : a.id # newest'[Pacing],
             NEW a \in issued
      PROVE  next - a.seq < newest'[Pacing] - a.id
  <2>1. CASE newest'[Pacing] = newest[Pacing] + 1
    <3>1. next - a.seq <= newest[Pacing] - a.id BY DEF TokensIssued
    <3> QED BY <1>1, <2>1, <3>1
  <2>2. CASE newest'[Pacing] = newest[Pacing]
    <3>1. \A z \in Threads \ {t} : ~Holder(z) BY <1>4 DEF Quiet, Others, Holder
    <3> QED BY <1>1, <1>4, <2>2, <3>1 DEF TokensIssued, Quiet
  <2> QED BY <2>1, <2>2 DEF Quiet
<1>5. (\A k \in Ring : frames[k].seq > 0 =>
          frames[k].epoch = epoch /\ frames[k].seq % Slots = k
          /\ \E a \in issued : a.seq = frames[k].seq)'
  BY <1>1 DEF Quiet, TokensIssued
<1>6. (latest <= lastTok[Pacing])' BY <1>1 DEF TokensIssued
<1> QED BY <1>1, <1>2, <1>3, <1>4, <1>5, <1>6 DEF TokensIssued

\* A callback that enters is such a step: a new frame of the pacing source is
\* first mentioned when nobody is inside the gate.
LEMMA QuietCall ==
    ASSUME TypeOK, Prompt, CallbackPhase, NEW t \in Threads, NEW op \in {"pace", "marker", "fg"},
           NEW s \in Sources, NEW i \in 1..MaxId, NEW mk \in Markers \cup {"none", "fg"},
           Call(t, op, s, i, mk)
    PROVE  Quiet(t)
<1>1. /\ Others(t) /\ th[t].pc = "idle"
      /\ UNCHANGED <<frames, lastTok, bindings, latest, next, gate, issued, epoch>>
  BY CallGoesOn DEF Others, ring, history
<1>2. ~Holder(t) /\ ~Holder(t)' BY <1>1, CallGoesOn DEF Holder, GoesOn
<1>3. ASSUME ~Searching(Pacing), NEW z \in Threads PROVE ~Holder(z)
  BY <1>3 DEF Holder, Searching, Seeking, CallbackPhase
<1>4. \/ newest'[Pacing] = newest[Pacing]
      \/ newest'[Pacing] = newest[Pacing] + 1 /\ \A z \in Threads : ~Holder(z)
  <2>0. newest' = [newest EXCEPT ![s] = i] /\ i \in Nat BY CallGoesOn
  <2>1. newest[Pacing] \in Nat /\ Pacing \in Sources /\ newest \in [Sources -> Nat]
    BY Types, TimelineAssumptions DEF TypeOK
  <2>2. CASE s # Pacing BY <2>0, <2>1, <2>2
  <2>3. CASE s = Pacing
    <3>1. newest'[Pacing] = i BY <2>0, <2>1, <2>3
    <3>2. i = newest[Pacing] \/ (i = newest[Pacing] + 1 /\ ~Searching(Pacing))
      BY <2>1, <2>3, <3>1, CallGoesOn
    <3> QED BY <1>3, <3>1, <3>2
  <2> QED BY <2>2, <2>3
<1> QED BY <1>1, <1>2, <1>4 DEF Quiet

\* So is every step but those inside the gate.
LEMMA QuietStep ==
    ASSUME TypeOK, Prompt, TimelineInvariant, NEW t \in Threads,
           \/ EstablishOpen(t) /\ next' = next
           \/ BindLoad(t) \/ BindCas(t) \/ BindPublish(t) \/ Mark(t) \/ Token(t)
           \/ Presentation(t) \/ PresentationPublish(t)
    PROVE  Quiet(t)
<1> USE DEF TimelineInvariant
<1>0. next \in Nat /\ Pacing \in Sources BY Types, TimelineAssumptions
<1>1. CASE EstablishOpen(t) /\ next' = next
  <2>1. /\ Others(t) /\ th[t].pc = "establish"
        /\ GoesOn(t, Pacing, th[t].id, LookupSource(Pacing, th[t].id))
        /\ UNCHANGED <<frames, next, gate>>
        /\ UNCHANGED <<lock, bindings, lastTok, latest, epoch, present, pgate, resets, newest, history>>
    <3>1. next' # next + 1 BY <1>0, <1>1
    <3> QED BY <1>1, <3>1, EstablishOpenEffect
  <2> QED BY <2>1 DEF Quiet, GoesOn, Holder, history
<1>2. CASE BindLoad(t)
  BY <1>2, BindLoadEffect DEF Quiet, Holder, ring, history
<1>3. CASE BindCas(t)
  BY <1>3, BindCasEffect DEF Quiet, Holder, history
<1>4. CASE BindPublish(t)
  <2>1. /\ Others(t) /\ th[t].pc = "bind_publish" /\ th[t].slot \in Ring /\ th[t].src # Pacing
        /\ GoesOn(t, th[t].src, th[t].id, th[t].slot)
        /\ \A j \in Ring : bindings'[Pacing][j] = bindings[Pacing][j]
        /\ \A r \in Sources \ {th[t].src} : lastTok'[r] = lastTok[r]
        /\ lastTok'[th[t].src] \in {lastTok[th[t].src], frames[th[t].slot].seq}
        /\ UNCHANGED <<frames, next, latest, epoch, gate, newest, issued>>
    BY <1>0, <1>4, BindPublishEffect DEF history
  <2>2. \E a \in issued : a.seq = frames[th[t].slot].seq
    BY <2>1, InRing DEF TokensIssued, FramesHeld
  <2>3. \A s \in Sources : lastTok'[s] = lastTok[s] \/ \E a \in issued : a.seq = lastTok'[s]
    BY <2>1, <2>2
  <2> QED BY <1>0, <2>1, <2>3 DEF Quiet, GoesOn, Holder
<1>5. CASE Mark(t)
  BY <1>5, MarkEffect DEF Quiet, Holder, history
<1>6. CASE Token(t)
  BY <1>6, TokenEffect DEF Quiet, Holder, ring
<1>7. CASE Presentation(t)
  BY <1>7, PresentationEffect DEF Quiet, Holder, history
<1>8. CASE PresentationPublish(t)
  BY <1>8, PresentationPublishEffect DEF Quiet, Holder, ring
<1> QED BY <1>1, <1>2, <1>3, <1>4, <1>5, <1>6, <1>7, <1>8

\* The bounds of a token, one by one.
LEMMA TokenBounds ==
    ASSUME TypeOK, TokensIssued, NEW a \in issued
    PROVE  /\ a.seq \in Nat /\ a.seq > 0 /\ a.seq <= next /\ a.epoch = epoch
           /\ a.id \in Nat /\ a.id > 0 /\ a.id <= newest[Pacing] /\ newest[Pacing] \in Nat
           /\ next - a.seq <= newest[Pacing] - a.id
           /\ a.seq % Slots \in Ring /\ a.id % Slots \in Ring
<1>1. a.seq \in Nat /\ a.id \in Nat /\ newest[Pacing] \in Nat /\ next \in Nat
  BY Types, TimelineAssumptions
<1>2. /\ a.epoch = epoch /\ a.seq \in 1..next /\ a.id \in 1..newest[Pacing]
      /\ next - a.seq <= newest[Pacing] - a.id
  BY DEF TokensIssued
<1> QED BY <1>1, <1>2, InRing

\* The winner of the gate has a frame without token: a token of the newest
\* frame would have been found.
LEMMA GateOpen ==
    ASSUME TypeOK, TypeOK', Prompt, TimelineInvariant, NEW t \in Threads,
           EstablishOpen(t), next' # next
    PROVE  GateHolder' /\ TokensIssued'
<1> USE DEF TimelineInvariant
<1>0. /\ next \in Nat /\ latest \in Nat /\ epoch \in Nat \ {0} /\ Pacing \in Sources
      /\ newest[Pacing] \in Nat /\ th[t].id \in Nat
      /\ \A a \in issued : a.seq \in Nat /\ a.id \in Nat /\ a.seq % Slots \in Ring /\ a.id % Slots \in Ring
      /\ (next + 1) % Slots \in Ring /\ next % Slots \in Ring
  <2>1. next + 1 \in Nat BY Types
  <2> QED BY <2>1, Types, TimelineAssumptions, InRing
<1>1. /\ Others(t) /\ th[t].pc = "establish" /\ th[t].src = Pacing
      /\ LookupSource(Pacing, th[t].id) = NoSlot /\ ~gate /\ gate' = TRUE /\ next' = next + 1
      /\ \A k \in Ring :
            /\ frames'[k].seq = IF k = (next + 1) % Slots THEN Busy ELSE frames[k].seq
            /\ frames'[k].epoch = frames[k].epoch
      /\ th'[t].pc = "publish" /\ th'[t].seq = next + 1 /\ th'[t].epoch = epoch
      /\ th'[t].id = th[t].id
      /\ UNCHANGED <<bindings, lastTok, latest, epoch, newest, issued>>
  BY EstablishOpenEffect DEF history
<1>2. \A z \in Threads : ~Holder(z) BY <1>1 DEF GateHolder
<1>3. \A z \in Threads : Holder(z)' <=> z = t BY <1>1, <1>2 DEF Holder, Others
<1>4. th[t].id = newest[Pacing] BY <1>1 DEF CallbackPhase, Seeking
<1>5. ASSUME NEW a \in issued PROVE a.id < newest[Pacing]
  <2>1. SUFFICES ASSUME a.id = newest[Pacing] PROVE FALSE
    BY TokenBounds
  <2>2. bindings[Pacing][a.id % Slots] = [native |-> a.id, epoch |-> epoch, seq |-> next]
    BY <1>1, <2>1 DEF TokensIssued
  <2>3. a.seq <= next /\ a.seq > 0 /\ next - a.seq <= newest[Pacing] - a.id BY TokenBounds
  <2>4. a.seq = next BY <1>0, <2>1, <2>3
  <2>5. frames[next % Slots].seq = next
    <3>1. next - a.seq < Slots BY <1>0, <2>4, TimelineAssumptions
    <3> QED BY <2>4, <3>1 DEF TokensIssued
  <2>6. frames[next % Slots].epoch = epoch /\ next > 0 BY <1>0, <2>3, <2>4, <2>5 DEF TokensIssued
  <2>7. LookupSource(Pacing, th[t].id) = next % Slots
    <3>1. /\ next \in Nat \ {0} /\ epoch \in Nat \ {0} /\ th[t].id \in Nat /\ Pacing \in Sources
          /\ frames[next % Slots].epoch = epoch /\ frames[next % Slots].seq = next
          /\ bindings[Pacing][th[t].id % Slots] = [native |-> th[t].id, epoch |-> epoch, seq |-> next]
      BY <1>0, <1>4, <2>1, <2>2, <2>5, <2>6, Types, TimelineAssumptions
    <3> QED BY <3>1, LookupHit
  <2> QED BY <1>0, <1>1, <2>7, InRing
<1>6. ASSUME NEW a \in issued
      PROVE  /\ a.seq < next + 1 /\ next + 1 - a.seq <= newest[Pacing] - a.id
  <2>1. a.seq <= next BY TokenBounds
  <2>2. \A b \in issued : b.id # newest[Pacing] BY <1>0, <1>5
  <2>3. next - a.seq < newest[Pacing] - a.id BY <1>2, <2>2 DEF TokensIssued
  <2> QED BY <1>0, <2>1, <2>3
<1>7. GateHolder'
  <2>1. latest = next BY <1>1 DEF GateHolder
  <2>2. (next - 1 <= latest /\ latest <= next /\ (~gate => latest = next))'
    BY <1>0, <1>1, <2>1
  <2>3. ASSUME NEW z \in Threads, Holder(z)'
        PROVE  /\ gate' /\ next' > 0 /\ latest' = next' - 1 /\ th'[z].seq = next'
               /\ th'[z].epoch = epoch' /\ th'[z].pc = "publish"
               /\ frames'[next' % Slots].seq = Busy
               /\ \A a \in issued' : a.seq < next' /\ a.id < newest'[Pacing]
    BY <1>0, <1>1, <1>3, <1>5, <1>6, <2>1, <2>3
  <2> QED BY <1>3, <2>2, <2>3 DEF GateHolder
<1>8. TokensIssued'
  <2>1. ASSUME NEW a \in issued
        PROVE  /\ a.epoch = epoch' /\ a.seq \in 1..next' /\ a.id \in 1..newest'[Pacing]
               /\ next' - a.seq <= newest'[Pacing] - a.id
               /\ next' - a.seq < Slots => frames'[a.seq % Slots].seq = a.seq
               /\ \A b \in issued : a.seq < b.seq <=> a.id < b.id
    <3>1. a.epoch = epoch /\ a.seq \in 1..next /\ a.id \in 1..newest[Pacing]
          /\ \A b \in issued : a.seq < b.seq <=> a.id < b.id
      BY DEF TokensIssued
    <3>2. ASSUME next + 1 - a.seq < Slots PROVE frames'[a.seq % Slots].seq = a.seq
      <4>1. a.seq % Slots # (next + 1) % Slots BY <1>0, <1>6, <3>2, DistinctSlots
      <4>2. next - a.seq < Slots BY <1>0, <3>2, TimelineAssumptions
      <4> QED BY <1>0, <1>1, <4>1, <4>2 DEF TokensIssued
    <3> QED BY <1>0, <1>1, <1>6, <3>1, <3>2
  <2>2. ASSUME NEW k \in Ring, frames'[k].seq > 0
        PROVE  frames'[k].epoch = epoch' /\ frames'[k].seq % Slots = k
               /\ \E a \in issued' : a.seq = frames'[k].seq
    <3>1. frames'[k].seq = frames[k].seq BY <1>1, <2>2 DEF Busy
    <3> QED BY <1>1, <2>2, <3>1 DEF TokensIssued
  <2>3. /\ latest' <= lastTok'[Pacing]
        /\ \A s \in Sources : lastTok'[s] # 0 => \E a \in issued' : a.seq = lastTok'[s]
    BY <1>1 DEF TokensIssued
  <2> QED BY <1>1, <1>3, <2>1, <2>2, <2>3 DEF TokensIssued
<1> QED BY <1>7, <1>8

\* The token is published ...
LEMMA GatePublish ==
    ASSUME TypeOK, TypeOK', Prompt, TimelineInvariant, NEW t \in Threads, EstablishPublish(t)
    PROVE  GateHolder' /\ TokensIssued'
<1> USE DEF TimelineInvariant
<1>0. /\ next \in Nat /\ latest \in Nat /\ epoch \in Nat \ {0} /\ Pacing \in Sources
      /\ newest[Pacing] \in Nat /\ th[t].id \in Nat /\ next % Slots \in Ring
  BY Types, TimelineAssumptions, InRing
<1>1. /\ Others(t) /\ th[t].pc = "publish" /\ th[t].src = Pacing
      /\ issued' = issued \cup {NewToken(t)}
      /\ \A k \in Ring :
            IF k = next % Slots THEN frames'[k].seq = next /\ frames'[k].epoch = epoch
            ELSE frames'[k] = frames[k]
      /\ th'[t].pc = "bind_own" /\ th'[t].seq = next /\ th'[t].epoch = epoch
      /\ th'[t].id = th[t].id
      /\ UNCHANGED <<bindings, lastTok, next, latest, epoch, gate, newest>>
  BY EstablishPublishEffect
<1>2. \A z \in Threads : Holder(z) <=> z = t BY <1>1 DEF GateHolder, Holder
<1>3. \A z \in Threads : Holder(z)' <=> z = t BY <1>1, <1>2 DEF Holder, Others
<1>4. th[t].id = newest[Pacing] /\ th[t].id > 0 BY <1>0, <1>1 DEF CallbackPhase, Seeking
<1>5. /\ gate /\ next > 0 /\ latest = next - 1
      /\ \A a \in issued : a.seq < next /\ a.id < newest[Pacing]
  BY <1>1, <1>2 DEF GateHolder
<1>6. GateHolder'
  <2>1. NewToken(t)' = NewToken(t) BY <1>1 DEF NewToken
  <2>2. (next - 1 <= latest /\ latest <= next /\ (~gate => latest = next))'
    BY <1>0, <1>1, <1>5
  <2>3. ASSUME NEW z \in Threads, Holder(z)'
        PROVE  /\ gate' /\ next' > 0 /\ latest' = next' - 1 /\ th'[z].seq = next'
               /\ th'[z].epoch = epoch' /\ th'[z].pc = "bind_own"
               /\ NewToken(z)' \in issued' /\ frames'[next' % Slots].seq = next'
    BY <1>0, <1>1, <1>3, <1>5, <2>1, <2>3
  <2> QED BY <1>3, <2>2, <2>3 DEF GateHolder
<1>7. TokensIssued'
  <2>1. ASSUME NEW a \in issued
        PROVE  /\ a.epoch = epoch /\ a.seq \in 1..next /\ a.id \in 1..newest[Pacing]
               /\ next - a.seq <= newest[Pacing] - a.id
               /\ next - a.seq < Slots => frames'[a.seq % Slots].seq = a.seq
    <3>1. ASSUME next - a.seq < Slots PROVE frames'[a.seq % Slots].seq = a.seq
      <4>1. a.seq % Slots # next % Slots BY <1>0, <1>5, <3>1, TokenBounds, DistinctSlots
      <4>2. frames[a.seq % Slots].seq = a.seq BY <3>1 DEF TokensIssued
      <4> QED BY <1>1, <4>1, <4>2, TokenBounds
    <3> QED BY <3>1 DEF TokensIssued
  <2>2. PICK n : n = NewToken(t) OBVIOUS
  <2>3. n.epoch = epoch /\ n.seq = next /\ n.id = newest[Pacing] BY <1>4, <2>2 DEF NewToken
  <2>4. ASSUME NEW a \in issued'
        PROVE  /\ a.epoch = epoch /\ a.seq \in 1..next /\ a.id \in 1..newest[Pacing]
               /\ next - a.seq <= newest[Pacing] - a.id
               /\ next - a.seq < Slots => frames'[a.seq % Slots].seq = a.seq
    <3>1. CASE a \in issued BY <2>1, <3>1
    <3>2. CASE a = n BY <1>0, <1>1, <1>4, <1>5, <2>3, <3>2
    <3> QED BY <1>1, <2>2, <3>1, <3>2
  <2>5. ASSUME NEW a \in issued', NEW b \in issued' PROVE a.seq < b.seq <=> a.id < b.id
    <3>1. \A x \in issued' : x \in issued \/ x = n BY <1>1, <2>2
    <3>2. \A x \in issued : x.seq < n.seq /\ x.id < n.id /\ x.seq \in Nat /\ x.id \in Nat
      BY <1>5, <2>3, TokenBounds
    <3>3. CASE a \in issued /\ b \in issued BY <3>3 DEF TokensIssued
    <3> QED BY <1>0, <2>3, <3>1, <3>2, <3>3
  <2>6. ASSUME NEW k \in Ring, frames'[k].seq > 0
        PROVE  frames'[k].epoch = epoch /\ frames'[k].seq % Slots = k
               /\ \E a \in issued' : a.seq = frames'[k].seq
    <3>1. CASE k = next % Slots BY <1>0, <1>1, <2>2, <2>3, <3>1
    <3>2. CASE k # next % Slots BY <1>1, <2>6, <3>2 DEF TokensIssued
    <3> QED BY <3>1, <3>2
  <2>7. /\ latest' <= lastTok'[Pacing]
        /\ \A s \in Sources : lastTok'[s] # 0 => \E a \in issued' : a.seq = lastTok'[s]
    BY <1>1 DEF TokensIssued
  <2> QED BY <1>1, <1>3, <1>5, <2>4, <2>5, <2>6, <2>7 DEF TokensIssued
<1> QED BY <1>6, <1>7

\* ... bound to the native frame ...
LEMMA GateBind ==
    ASSUME TypeOK, TypeOK', Prompt, TimelineInvariant, NEW t \in Threads, EstablishBind(t)
    PROVE  GateHolder' /\ TokensIssued'
<1> USE DEF TimelineInvariant
<1>0. /\ next \in Nat /\ latest \in Nat /\ epoch \in Nat \ {0} /\ Pacing \in Sources
      /\ newest[Pacing] \in Nat /\ th[t].id \in Nat /\ th[t].id % Slots \in Ring
      /\ lastTok[Pacing] \in Nat
  BY Types, TimelineAssumptions, InRing
<1>1. /\ Others(t) /\ th[t].pc = "bind_own" /\ th[t].src = Pacing
      /\ \A r \in Sources, j \in Ring : bindings'[r][j] =
            IF r = Pacing /\ j = th[t].id % Slots THEN NewBinding(t) ELSE bindings[r][j]
      /\ \A r \in Sources \ {Pacing} : lastTok'[r] = lastTok[r]
      /\ lastTok'[Pacing] = IF lastTok[Pacing] < next THEN next ELSE lastTok[Pacing]
      /\ th'[t].pc = "latest" /\ th'[t].seq = next /\ th'[t].epoch = epoch
      /\ th'[t].id = th[t].id
      /\ UNCHANGED <<frames, next, latest, epoch, gate, newest, issued>>
  BY EstablishBindEffect DEF history
<1>2. \A z \in Threads : Holder(z) <=> z = t BY <1>1 DEF GateHolder, Holder
<1>3. \A z \in Threads : Holder(z)' <=> z = t BY <1>1, <1>2 DEF Holder, Others
<1>4. /\ gate /\ next > 0 /\ latest = next - 1
      /\ NewToken(t) \in issued /\ frames[next % Slots].seq = next
  BY <1>1, <1>2 DEF GateHolder
<1>5. GateHolder'
  <2>1. NewToken(t)' = NewToken(t) /\ NewBinding(t)' = NewBinding(t)
    BY <1>1 DEF NewToken, NewBinding
  <2>2. (next - 1 <= latest /\ latest <= next /\ (~gate => latest = next))'
    BY <1>0, <1>1, <1>4
  <2>3. ASSUME NEW z \in Threads, Holder(z)'
        PROVE  /\ gate' /\ next' > 0 /\ latest' = next' - 1 /\ th'[z].seq = next'
               /\ th'[z].epoch = epoch' /\ th'[z].pc = "latest"
               /\ NewToken(z)' \in issued' /\ frames'[next' % Slots].seq = next'
               /\ lastTok'[Pacing] >= next'
               /\ bindings'[Pacing][th'[z].id % Slots] = NewBinding(z)'
    BY <1>0, <1>1, <1>3, <1>4, <2>1, <2>3
  <2> QED BY <1>3, <2>2, <2>3 DEF GateHolder
<1>6. TokensIssued'
  <2>1. latest' <= lastTok'[Pacing] BY <1>0, <1>1, <1>4
  <2>2. \E a \in issued : a.seq = next BY <1>4 DEF NewToken
  <2>3. ASSUME NEW s \in Sources, lastTok'[s] # 0 PROVE \E a \in issued : a.seq = lastTok'[s]
    BY <1>0, <1>1, <2>2, <2>3 DEF TokensIssued
  <2> QED BY <1>1, <1>3, <1>4, <2>1, <2>3 DEF TokensIssued
<1> QED BY <1>5, <1>6

\* ... and becomes the latest.
LEMMA GateLatest ==
    ASSUME TypeOK, TypeOK', Prompt, TimelineInvariant, NEW t \in Threads, EstablishLatest(t)
    PROVE  GateHolder' /\ TokensIssued'
<1> USE DEF TimelineInvariant
<1>0. /\ next \in Nat /\ latest \in Nat /\ epoch \in Nat \ {0} /\ Pacing \in Sources
      /\ newest[Pacing] \in Nat /\ th[t].id \in Nat /\ lastTok[Pacing] \in Nat
  BY Types, TimelineAssumptions, InRing
<1>1. /\ Others(t) /\ th[t].pc = "latest" /\ th[t].src = Pacing
      /\ latest' = next /\ gate' = FALSE /\ GoesOn(t, Pacing, th[t].id, next % Slots)
      /\ UNCHANGED <<frames, bindings, lastTok, next, epoch, newest, issued>>
  BY EstablishLatestEffect DEF history
<1>2. \A z \in Threads : Holder(z) <=> z = t BY <1>1 DEF GateHolder, Holder
<1>3. \A z \in Threads : ~Holder(z)' BY <1>1, <1>2 DEF Holder, Others, GoesOn
<1>4. th[t].id = newest[Pacing] BY <1>0, <1>1 DEF CallbackPhase, Seeking
<1>5. /\ NewToken(t) \in issued /\ lastTok[Pacing] >= next
      /\ bindings[Pacing][th[t].id % Slots] = NewBinding(t)
  BY <1>1, <1>2 DEF GateHolder
<1>6. GateHolder' BY <1>0, <1>1, <1>3 DEF GateHolder
<1>7. TokensIssued'
  <2>1. \E a \in issued : a.id = newest[Pacing] BY <1>4, <1>5 DEF NewToken
  <2>2. \A a \in issued : a.id = newest[Pacing] =>
           bindings[Pacing][a.id % Slots] = [native |-> a.id, epoch |-> epoch, seq |-> next]
    BY <1>4, <1>5 DEF NewBinding
  <2>3. latest' <= lastTok'[Pacing] BY <1>0, <1>1, <1>5
  <2> QED BY <1>1, <2>1, <2>2, <2>3 DEF TokensIssued
<1> QED BY <1>6, <1>7

\* Every step keeps the gate and the tokens.
LEMMA GateStep ==
    ASSUME TypeOK, Prompt, TimelineInvariant, [Next]_vars
    PROVE  GateHolder' /\ TokensIssued'
<1>0. TypeOK' BY PhaseStep
<1>1. CallbackPhase /\ GateHolder /\ TokensIssued BY DEF TimelineInvariant
<1>2. ASSUME NEW t \in Threads, Quiet(t) PROVE GateHolder' /\ TokensIssued'
  BY <1>0, <1>1, <1>2, GateQuiet, TokensQuiet
<1>3. ASSUME NEW t \in Threads, NEW op \in {"pace", "marker", "fg"}, NEW s \in Sources,
             NEW i \in 1..MaxId, NEW mk \in Markers \cup {"none", "fg"}, Call(t, op, s, i, mk)
      PROVE  GateHolder' /\ TokensIssued'
  BY <1>1, <1>2, <1>3, QuietCall
<1>4. ASSUME NEW t \in Threads, Step(t) PROVE GateHolder' /\ TokensIssued'
  BY <1>0, <1>2, <1>4, QuietStep, GateOpen, GatePublish, GateBind, GateLatest DEF Step
<1>5. CASE Wipe
  <2>1. \A z \in Threads : ~Holder(z)' BY <1>5, WipeEffect DEF Holder
  <2>2. /\ next' = 0 /\ latest' = 0 /\ issued' = {} /\ \A k \in Ring : frames'[k].seq = 0
        /\ \A s \in Sources : lastTok'[s] = 0
    BY <1>5, WipeEffect
  <2>3. GateHolder' BY <2>1, <2>2 DEF GateHolder
  <2>4. TokensIssued' BY <2>1, <2>2, TimelineAssumptions DEF TokensIssued
  <2> QED BY <2>3, <2>4
<1>6. CASE Freeze \/ UNCHANGED vars
  <2>1. UNCHANGED <<frames, bindings, lastTok, next, latest, epoch, gate, newest, issued, th>>
    BY <1>6 DEF Freeze, vars, ring, history
  <2>2. GateHolder' BY <1>1, <2>1 DEF GateHolder, Holder, NewToken, NewBinding
  <2>3. TokensIssued' BY <1>1, <2>1 DEF TokensIssued, Holder
  <2> QED BY <2>2, <2>3
<1> QED BY <1>3, <1>4, <1>5, <1>6 DEF Next

----------------------------------------------------------------------------
(* Frames held by callbacks *)

\* A slot whose sequence, mask and count a step leaves alone, and one that it
\* recycles: no callback has it and its new sequence belongs to no token yet.
Kept(k) ==
    /\ frames'[k].seq = frames[k].seq /\ frames'[k].mask = frames[k].mask
    /\ frames'[k].count = frames[k].count
Recycled(k) ==
    /\ \A u \in Threads : th[u].slot # k
    /\ \A a \in issued : a.seq # frames'[k].seq
    /\ frames'[k].seq <= 0 \/ frames'[k].count = 0

\* Steps keep or recycle every slot, but for the mask and the count they set.
LEMMA FramesStep ==
    ASSUME TypeOK, Prompt, TimelineInvariant, NEW t \in Threads, Step(t)
    PROVE  /\ Others(t) /\ epoch' = epoch /\ issued \subseteq issued'
           /\ ~Mark(t) /\ ~Presentation(t) => \A k \in Ring : Kept(k) \/ Recycled(k)
           /\ Mark(t) \/ Presentation(t) => \A k \in Ring : frames'[k].seq = frames[k].seq
<1> USE DEF TimelineInvariant
<1>1. CASE EstablishOpen(t)
  <2>1. /\ Others(t) /\ epoch' = epoch /\ issued' = issued /\ next \in Nat
    BY <1>1, EstablishOpenEffect, Types DEF history
  <2>2. CASE UNCHANGED frames BY <1>1, <2>1, <2>2 DEF Kept
  <2>3. CASE /\ \A u \in Threads : th[u].slot # (next + 1) % Slots
             /\ \A k \in Ring :
                  /\ frames'[k].seq = IF k = (next + 1) % Slots THEN Busy ELSE frames[k].seq
                  /\ frames'[k].mask = frames[k].mask /\ frames'[k].count = frames[k].count
    <3>1. \A a \in issued : a.seq # Busy BY TokenBounds DEF Busy
    <3>2. ASSUME NEW k \in Ring PROVE Kept(k) \/ Recycled(k)
      BY <2>3, <3>1 DEF Kept, Recycled, Busy
    <3>3. ASSUME Mark(t) \/ Presentation(t) PROVE FALSE
      BY <1>1, <3>3 DEF EstablishOpen, Mark, Presentation, At
    <3> QED BY <2>1, <3>2, <3>3
  <2> QED BY <1>1, <2>2, <2>3, EstablishOpenEffect
<1>2. CASE EstablishPublish(t)
  <2>1. /\ Others(t) /\ epoch' = epoch /\ issued \subseteq issued' /\ th[t].pc = "publish"
        /\ \A k \in Ring : IF k = next % Slots THEN frames'[k].seq = next /\ frames'[k].count = 0
                                               ELSE frames'[k] = frames[k]
    BY <1>2, EstablishPublishEffect
  <2>2. /\ frames[next % Slots].seq = Busy
        /\ \A a \in issued : a.seq < next
    BY <2>1 DEF GateHolder, Holder
  <2>3. \A u \in Threads : th[u].slot # next % Slots
    BY <2>2, InRing, Types DEF FramesHeld, Busy
  <2>4. \A a \in issued : a.seq # next BY <2>2, TokenBounds, Types
  <2>5. ASSUME NEW k \in Ring PROVE Kept(k) \/ Recycled(k)
    BY <2>1, <2>3, <2>4 DEF Kept, Recycled
  <2>6. ASSUME Mark(t) \/ Presentation(t) PROVE FALSE
    BY <2>1, <2>6 DEF Mark, Presentation, At
  <2> QED BY <2>1, <2>5, <2>6
<1>3. CASE Mark(t) BY <1>3, MarkEffect DEF history
<1>4. CASE Presentation(t) BY <1>4, PresentationEffect DEF history
<1>5. CASE EstablishBind(t) BY <1>5, EstablishBindEffect DEF Kept, history
<1>6. CASE EstablishLatest(t) BY <1>6, EstablishLatestEffect DEF Kept, history
<1>7. CASE BindLoad(t) BY <1>7, BindLoadEffect DEF Kept, ring, history
<1>8. CASE BindCas(t) BY <1>8, BindCasEffect DEF Kept, history
<1>9. CASE BindPublish(t) BY <1>9, BindPublishEffect DEF Kept, history
<1>10. CASE Token(t) BY <1>10, TokenEffect DEF Kept, ring
<1>11. CASE PresentationPublish(t) BY <1>11, PresentationPublishEffect DEF Kept, ring
<1> QED BY <1>1, <1>2, <1>3, <1>4, <1>5, <1>6, <1>7, <1>8, <1>9, <1>10, <1>11 DEF Step

\* The frame a callback has keeps its sequence number.
LEMMA HeldKept ==
    ASSUME TypeOK, Prompt, TimelineInvariant, NEW t \in Threads, Step(t),
           NEW z \in Threads, th[z].slot # NoSlot
    PROVE  th[z].slot \in Ring /\ frames'[th[z].slot].seq = frames[th[z].slot].seq
<1>1. th[z].slot \in Ring BY Types
<1> QED BY <1>1, FramesStep DEF Kept, Recycled

\* A slot found by a lookup, by the gate's holder or by a binding holds a token.
LEMMA HeldNew ==
    ASSUME TypeOK, Prompt, TimelineInvariant, NEW t \in Threads, Step(t), th'[t].slot # NoSlot
    PROVE  th'[t].slot \in Ring /\ frames[th'[t].slot].seq > 0
           /\ frames'[th'[t].slot].seq = frames[th'[t].slot].seq
<1> USE DEF TimelineInvariant
<1>0. next \in Nat /\ Pacing \in Sources /\ th[t].id \in Nat /\ th[t].last \in Nat /\ th[t].slot \in Ring \cup {NoSlot}
  BY Types, TimelineAssumptions
<1>1. CASE EstablishOpen(t)
  <2>1. th[t].slot = NoSlot BY <1>1, EstablishOpenEffect DEF CallbackPhase
  <2>2. UNCHANGED frames /\ th'[t].slot = LookupSource(Pacing, th[t].id)
    BY <1>1, <2>1, EstablishOpenEffect DEF GoesOn
  <2> QED BY <1>0, <2>2, Lookup
<1>2. CASE EstablishLatest(t)
  <2>1. th'[t].slot = next % Slots /\ UNCHANGED frames /\ th[t].pc = "latest"
    BY <1>2, EstablishLatestEffect DEF GoesOn
  <2>2. frames[next % Slots].seq = next /\ next > 0 BY <2>1 DEF GateHolder, Holder
  <2> QED BY <1>0, <2>1, <2>2, InRing
<1>3. CASE BindCas(t)
  <2>1. /\ th'[t].slot \in Ring /\ frames[th'[t].slot].seq > th[t].last
        /\ \A k \in Ring : frames'[k].seq = frames[k].seq
    BY <1>3, BindCasEffect
  <2>2. frames[th'[t].slot].seq \in Int BY <2>1, Types
  <2> QED BY <1>0, <2>1, <2>2
<1>4. CASE th'[t].slot = th[t].slot
  BY <1>4, HeldKept DEF FramesHeld
<1>5. ASSUME EstablishPublish(t) \/ EstablishBind(t) \/ BindLoad(t) PROVE th'[t].slot = th[t].slot
  BY <1>5, EstablishPublishEffect, EstablishBindEffect, BindLoadEffect
<1>6. ASSUME BindPublish(t) PROVE th'[t].slot = th[t].slot
  BY <1>6, BindPublishEffect DEF GoesOn
<1>7. ASSUME Mark(t) \/ Token(t) \/ Presentation(t) \/ PresentationPublish(t)
      PROVE  th'[t].slot = th[t].slot
  BY <1>7, MarkEffect, TokenEffect, PresentationEffect, PresentationPublishEffect
<1> QED BY <1>1, <1>2, <1>3, <1>4, <1>5, <1>6, <1>7 DEF Step

\* A callback that enters has the frame it finds.
LEMMA HeldCall ==
    ASSUME TypeOK, Prompt, NEW t \in Threads, NEW op \in {"pace", "marker", "fg"},
           NEW s \in Sources, NEW i \in 1..MaxId, NEW mk \in Markers \cup {"none", "fg"},
           Call(t, op, s, i, mk), th'[t].slot # NoSlot
    PROVE  /\ th'[t].slot \in Ring /\ frames[th'[t].slot].seq > 0
           /\ th'[t].src = s /\ th'[t].id = i /\ bindings[s][i % Slots].native = i
           /\ bindings[s][i % Slots].seq = frames[th'[t].slot].seq /\ i % Slots \in Ring
<1>1. i \in Nat BY CallGoesOn
<1>2. th'[t].slot = LookupSource(s, i) /\ th'[t].src = s /\ th'[t].id = i BY CallGoesOn DEF GoesOn
<1> QED BY <1>1, <1>2, Lookup, InRing

\* Every step keeps the frames of the callbacks.
LEMMA HeldStep ==
    ASSUME TypeOK, Prompt, TimelineInvariant, [Next]_vars
    PROVE  FramesHeld'
<1>1. ASSUME NEW t \in Threads, NEW op \in {"pace", "marker", "fg"}, NEW s \in Sources,
             NEW i \in 1..MaxId, NEW mk \in Markers \cup {"none", "fg"}, Call(t, op, s, i, mk)
      PROVE  FramesHeld'
  <2>1. UNCHANGED frames /\ \A z \in Threads \ {t} : th'[z] = th[z] BY <1>1, CallGoesOn DEF ring
  <2>2. th'[t].slot # NoSlot => frames[th'[t].slot].seq > 0 BY <1>1, HeldCall
  <2> QED BY <2>1, <2>2 DEF FramesHeld, TimelineInvariant
<1>2. ASSUME NEW t \in Threads, Step(t) PROVE FramesHeld'
  <2>1. th'[t].slot # NoSlot => frames'[th'[t].slot].seq > 0 BY <1>2, HeldNew
  <2>2. ASSUME NEW z \in Threads, th'[z].slot # NoSlot, z # t PROVE frames'[th'[z].slot].seq > 0
    BY <1>2, <2>2, HeldKept, FramesStep DEF Others, FramesHeld, TimelineInvariant
  <2> QED BY <2>1, <2>2 DEF FramesHeld
<1>3. CASE Wipe
  <2>1. \A z \in Threads : th'[z] = th[z] /\ th[z].pc = "idle" BY <1>3, WipeEffect
  <2> QED BY <2>1 DEF FramesHeld, CallbackPhase, TimelineInvariant
<1>4. CASE Freeze \/ UNCHANGED vars
  <2>1. UNCHANGED <<frames, th>> BY <1>4 DEF Freeze, vars, ring
  <2> QED BY <2>1 DEF FramesHeld, TimelineInvariant
<1> QED BY <1>1, <1>2, <1>3, <1>4 DEF Next

----------------------------------------------------------------------------
(* Markers *)

\* A step that marks nothing and hands no marker out.
LEMMA MaskQuiet ==
    ASSUME TypeOK, CallbackPhase, MarkersMasked, NEW t \in Threads, Others(t), th'[t].pc # "token",
           epoch' = epoch, issued \subseteq issued', accepted' = accepted,
           \A k \in Ring : \/ frames'[k].seq = frames[k].seq /\ frames'[k].mask = frames[k].mask
                           \/ Recycled(k)
    PROVE  MarkersMasked'
<1>1. ASSUME NEW a \in accepted
      PROVE  /\ a.epoch = epoch' /\ a.n = 0 /\ \E f \in issued' : f.seq = a.seq
             /\ \A k \in Ring : frames'[k].seq = a.seq => a.mk \in frames'[k].mask
  <2>1. PICK f \in issued : f.seq = a.seq BY DEF MarkersMasked
  <2>2. ASSUME NEW k \in Ring, frames'[k].seq = a.seq PROVE a.mk \in frames'[k].mask
    <3>1. ~Recycled(k) BY <2>1, <2>2 DEF Recycled
    <3> QED BY <2>2, <3>1 DEF MarkersMasked
  <2> QED BY <2>1, <2>2 DEF MarkersMasked
<1>2. ASSUME NEW z \in Threads, th'[z].pc = "token"
      PROVE  z # t /\ th'[z] = th[z] /\ th[z].slot \in Ring 
             /\ frames'[th[z].slot].seq = frames[th[z].slot].seq
             /\ frames'[th[z].slot].mask = frames[th[z].slot].mask
  <2>1. z # t /\ th'[z] = th[z] BY <1>2 DEF Others
  <2>2. th[z].slot \in Ring BY <1>2, <2>1, Types DEF CallbackPhase
  <2> QED BY <2>1, <2>2 DEF Recycled
<1> QED BY <1>1, <1>2 DEF MarkersMasked

\* marker_mask.fetch_or.
LEMMA MaskMark ==
    ASSUME TypeOK, Prompt, TimelineInvariant, NEW t \in Threads, Mark(t)
    PROVE  MarkersMasked'
<1> USE DEF TimelineInvariant
<1>1. /\ Others(t) /\ th[t].pc = "mark" /\ th[t].slot \in Ring
      /\ \A k \in Ring : frames'[k].seq = frames[k].seq /\ frames'[k].count = frames[k].count
      /\ UNCHANGED <<epoch, issued, accepted>>
  BY MarkEffect DEF history
<1>2. CASE th'[t].pc = "idle" /\ UNCHANGED frames BY <1>1, <1>2, MaskQuiet DEF Kept
<1>3. CASE /\ th[t].mk \notin frames[th[t].slot].mask
           /\ \A k \in Ring : frames'[k].mask =
                IF k = th[t].slot THEN frames[k].mask \cup {th[t].mk} ELSE frames[k].mask
           /\ th'[t].pc = "token" /\ th'[t].slot = th[t].slot /\ th'[t].mk = th[t].mk
  <2>1. \A k \in Ring : frames[k].mask \subseteq frames'[k].mask BY <1>3
  <2>2. \A a \in accepted : ~(a.seq = frames[th[t].slot].seq /\ a.mk = th[t].mk)
    BY <1>1, <1>3 DEF MarkersMasked
  <2>3. ASSUME NEW u \in Threads, u # t, th'[u].pc = "token"
        PROVE  /\ th'[u] = th[u] /\ th[u].pc = "token" /\ th[u].slot \in Ring
               /\ ~(th[u].slot = th[t].slot /\ th[u].mk = th[t].mk)
    <3>1. th'[u] = th[u] /\ th[u].pc = "token" BY <1>1, <2>3 DEF Others
    <3>2. th[u].slot \in Ring BY <3>1, Types DEF CallbackPhase
    <3> QED BY <1>3, <3>1, <3>2 DEF MarkersMasked
  <2>4. ASSUME NEW a \in accepted
        PROVE  /\ a.epoch = epoch' /\ a.n = 0 /\ \E f \in issued' : f.seq = a.seq
               /\ \A k \in Ring : frames'[k].seq = a.seq => a.mk \in frames'[k].mask
    BY <1>1, <2>1 DEF MarkersMasked
  <2>5. ASSUME NEW z \in Threads, th'[z].pc = "token"
        PROVE  /\ th'[z].mk \in frames'[th'[z].slot].mask
               /\ \A a \in accepted : ~(a.seq = frames'[th'[z].slot].seq /\ a.mk = th'[z].mk)
               /\ \A u \in Threads :
                    th'[u].pc = "token" /\ th'[u].slot = th'[z].slot /\ th'[u].mk = th'[z].mk => z = u
    <3>1. CASE z = t
      <4>1. \A u \in Threads \ {t} :
               ~(th'[u].pc = "token" /\ th'[u].slot = th[t].slot /\ th'[u].mk = th[t].mk)
        BY <2>3
      <4>2. th'[z].mk \in frames'[th'[z].slot].mask BY <1>1, <1>3, <3>1
      <4>3. frames'[th'[z].slot].seq = frames[th[t].slot].seq BY <1>1, <1>3, <3>1
      <4> QED BY <1>3, <2>2, <3>1, <4>1, <4>2, <4>3
    <3>2. CASE z # t
      <4>1. /\ th'[z] = th[z] /\ th[z].pc = "token" /\ th[z].slot \in Ring
            /\ ~(th[z].slot = th[t].slot /\ th[z].mk = th[t].mk)
        BY <2>3, <2>5, <3>2
      <4>2. th[z].mk \in frames'[th[z].slot].mask BY <2>1, <4>1 DEF MarkersMasked
      <4>3. \A a \in accepted : ~(a.seq = frames'[th[z].slot].seq /\ a.mk = th[z].mk)
        BY <1>1, <4>1 DEF MarkersMasked
      <4>4. ASSUME NEW u \in Threads, th'[u].pc = "token", th'[u].slot = th[z].slot, th'[u].mk = th[z].mk
            PROVE  z = u
        <5>1. u # t BY <1>3, <4>1, <4>4
        <5> QED BY <2>3, <4>1, <4>4, <5>1 DEF MarkersMasked
      <4> QED BY <4>1, <4>2, <4>3, <4>4
    <3> QED BY <3>1, <3>2
  <2> QED BY <1>1, <2>4, <2>5 DEF MarkersMasked
<1> QED BY <1>1, <1>2, <1>3, MarkEffect

\* Two slots never hold the same sequence number.
LEMMA SlotOfSeq ==
    ASSUME TokensIssued, NEW j \in Ring, NEW k \in Ring, frames[j].seq > 0, frames[j].seq = frames[k].seq
    PROVE  j = k
BY DEF TokensIssued

\* The marker is handed out.
LEMMA MaskToken ==
    ASSUME TypeOK, Prompt, TimelineInvariant, NEW t \in Threads, Token(t)
    PROVE  MarkersMasked'
<1> USE DEF TimelineInvariant
<1>0. PICK n : n = [epoch |-> epoch, seq |-> frames[th[t].slot].seq,
                    src |-> th[t].src, id |-> th[t].id, mk |-> th[t].mk, n |-> 0] OBVIOUS
<1>1. /\ Others(t) /\ th[t].pc = "token" /\ th[t].slot \in Ring /\ th'[t].pc = "idle"
      /\ accepted' = accepted \cup {n} /\ UNCHANGED <<frames, epoch, issued>>
  BY <1>0, TokenEffect DEF ring
<1>2. /\ n.epoch = epoch /\ n.seq = frames[th[t].slot].seq /\ n.mk = th[t].mk /\ n.n = 0 BY <1>0
<1>3. frames[th[t].slot].seq > 0 BY <1>1, InRing DEF FramesHeld
<1>4. \E f \in issued : f.seq = n.seq BY <1>1, <1>2, <1>3 DEF TokensIssued
<1>5. ASSUME NEW k \in Ring, frames[k].seq = n.seq PROVE n.mk \in frames[k].mask
  BY <1>1, <1>2, <1>3, <1>5, SlotOfSeq DEF MarkersMasked
<1>6. ASSUME NEW a \in accepted'
      PROVE  /\ a.epoch = epoch' /\ a.n = 0 /\ \E f \in issued' : f.seq = a.seq
             /\ \A k \in Ring : frames'[k].seq = a.seq => a.mk \in frames'[k].mask
  <2>1. CASE a = n BY <1>1, <1>2, <1>4, <1>5, <2>1
  <2>2. CASE a \in accepted BY <1>1, <2>2 DEF MarkersMasked
  <2> QED BY <1>1, <2>1, <2>2
<1>7. ASSUME NEW z \in Threads, th'[z].pc = "token"
      PROVE  z # t /\ th'[z] = th[z] /\ ~(n.seq = frames[th[z].slot].seq /\ n.mk = th[z].mk)
  <2>1. z # t /\ th'[z] = th[z] BY <1>1, <1>7 DEF Others
  <2>2. th[z].slot \in Ring BY <1>7, <2>1, Types DEF CallbackPhase
  <2>3. ~(th[z].slot = th[t].slot /\ th[z].mk = th[t].mk)
    BY <1>1, <1>7, <2>1 DEF MarkersMasked
  <2> QED BY <1>1, <1>2, <1>3, <2>1, <2>2, <2>3, SlotOfSeq
<1> QED BY <1>1, <1>6, <1>7 DEF MarkersMasked

\* Every step keeps the masks.
LEMMA MaskStep ==
    ASSUME TypeOK, Prompt, TimelineInvariant, [Next]_vars
    PROVE  MarkersMasked'
<1>0. CallbackPhase /\ GateHolder /\ TokensIssued /\ FramesHeld /\ MarkersMasked /\ AttachedInOrder
  BY DEF TimelineInvariant
<1>1. ASSUME NEW t \in Threads, NEW op \in {"pace", "marker", "fg"}, NEW s \in Sources,
             NEW i \in 1..MaxId, NEW mk \in Markers \cup {"none", "fg"}, Call(t, op, s, i, mk)
      PROVE  MarkersMasked'
  <2>1. Others(t) /\ UNCHANGED <<frames, epoch, issued, accepted>> /\ th'[t].pc # "token"
    BY <1>1, CallGoesOn DEF Others, ring, history, GoesOn
  <2> QED BY <1>0, <2>1, MaskQuiet DEF Kept
<1>2. ASSUME NEW t \in Threads, Step(t), ~Mark(t), ~Token(t) PROVE MarkersMasked'
  <2>1. Others(t) /\ epoch' = epoch /\ issued \subseteq issued' BY <1>2, FramesStep
  <2>2. accepted' = accepted /\ th'[t].pc # "token"
    <3>1. CASE EstablishOpen(t) BY <1>0, <3>1, EstablishOpenEffect DEF GoesOn, history
    <3>2. CASE EstablishPublish(t) BY <1>0, <3>2, EstablishPublishEffect
    <3>3. CASE EstablishBind(t) BY <1>0, <3>3, EstablishBindEffect DEF history
    <3>4. CASE EstablishLatest(t) BY <1>0, <3>4, EstablishLatestEffect DEF GoesOn, history
    <3>5. CASE BindLoad(t) BY <1>0, <3>5, BindLoadEffect DEF history
    <3>6. CASE BindCas(t) BY <1>0, <3>6, BindCasEffect DEF history
    <3>7. CASE BindPublish(t) BY <1>0, <3>7, BindPublishEffect DEF GoesOn, history
    <3>8. CASE Presentation(t) BY <1>0, <3>8, PresentationEffect DEF history
    <3>9. CASE PresentationPublish(t) BY <1>0, <3>9, PresentationPublishEffect
    <3> QED BY <1>2, <3>1, <3>2, <3>3, <3>4, <3>5, <3>6, <3>7, <3>8, <3>9 DEF Step
  <2>3. CASE ~Presentation(t) BY <1>0, <1>2, <2>1, <2>2, <2>3, FramesStep, MaskQuiet DEF Kept
  <2>4. CASE Presentation(t)
    <3>1. \A k \in Ring : frames'[k].seq = frames[k].seq /\ frames'[k].mask = frames[k].mask
      BY <1>0, <2>4, PresentationEffect
    <3> QED BY <1>0, <2>1, <2>2, <3>1, MaskQuiet
  <2> QED BY <2>3, <2>4
<1>3. ASSUME NEW t \in Threads, Mark(t) \/ Token(t) PROVE MarkersMasked'
  BY <1>3, MaskMark, MaskToken
<1>4. CASE Wipe
  <2>1. accepted' = {} /\ \A z \in Threads : th'[z].pc = "idle" BY <1>4, WipeEffect
  <2> QED BY <2>1 DEF MarkersMasked
<1>5. CASE Freeze \/ UNCHANGED vars
  <2>1. UNCHANGED <<frames, th, epoch, issued, accepted>> BY <1>5 DEF Freeze, vars, ring, history
  <2> QED BY <1>0, <2>1 DEF MarkersMasked
<1> QED BY <1>1, <1>2, <1>3, <1>4, <1>5 DEF Next

----------------------------------------------------------------------------
(* Generations *)

\* A step outside the presentation gate.
LEMMA CountQuiet ==
    ASSUME TypeOK, TypeOK', CallbackPhase, GenerationsCounted, GenerationsContiguous,
           NEW t \in Threads, Others(t), th[t].pc # "ppublish", th'[t].pc # "ppublish",
           epoch' = epoch, issued \subseteq issued', shown' = shown, pgate' = pgate,
           \A k \in Ring : \/ frames'[k].seq = frames[k].seq /\ frames'[k].count = frames[k].count
                           \/ Recycled(k)
    PROVE  GenerationsCounted' /\ GenerationsContiguous'
<1>1. ASSUME NEW p \in shown
      PROVE  /\ p.epoch = epoch' /\ p.gen > 0 /\ \E f \in issued' : f.seq = p.render
             /\ \A k \in Ring : frames'[k].seq = p.render => p.gen <= frames'[k].count
  <2>1. PICK f \in issued : f.seq = p.render BY DEF GenerationsCounted
  <2>2. ASSUME NEW k \in Ring, frames'[k].seq = p.render PROVE p.gen <= frames'[k].count
    <3>1. ~Recycled(k) BY <2>1, <2>2 DEF Recycled
    <3> QED BY <2>2, <3>1 DEF GenerationsCounted
  <2> QED BY <2>1, <2>2 DEF GenerationsCounted
<1>2. \A z \in Threads : th'[z].pc = "ppublish" <=> th[z].pc = "ppublish" BY DEF Others
<1>3. ASSUME NEW z \in Threads, th[z].pc = "ppublish"
      PROVE  /\ th'[z] = th[z] /\ th[z].slot \in Ring
             /\ frames'[th[z].slot].seq = frames[th[z].slot].seq
             /\ frames'[th[z].slot].count = frames[th[z].slot].count
  <2>1. th'[z] = th[z] BY <1>3 DEF Others
  <2>2. th[z].slot \in Ring BY <1>3, Types DEF CallbackPhase
  <2> QED BY <2>1, <2>2 DEF Recycled
<1>4. ASSUME NEW k \in Ring, frames'[k].seq > 0, NEW g \in 1..frames'[k].count
      PROVE  \/ \E p \in shown : p.render = frames'[k].seq /\ p.gen = g
             \/ \E z \in Threads : th'[z].pc = "ppublish" /\ th'[z].slot = k /\ th'[z].last = g
  <2>1. frames'[k].count \in Nat /\ frames'[k].seq \in Int BY Types, SMTT(30) DEF TypeOK, FrameType, Busy
  <2>2. ~Recycled(k) BY <1>4, <2>1 DEF Recycled
  <2>3. frames'[k].seq = frames[k].seq /\ frames'[k].count = frames[k].count BY <2>2
  <2>4. \/ \E p \in shown : p.render = frames[k].seq /\ p.gen = g
        \/ \E z \in Threads : th[z].pc = "ppublish" /\ th[z].slot = k /\ th[z].last = g
    BY <1>4, <2>3 DEF GenerationsCounted
  <2> QED BY <1>2, <1>3, <2>3, <2>4
<1>5. GenerationsCounted' BY <1>1, <1>2, <1>3, <1>4 DEF GenerationsCounted
<1>6. GenerationsContiguous'
  <2>1. ASSUME NEW p \in shown PROVE \E f \in issued' : p.epoch = f.epoch /\ p.render = f.seq
    BY DEF GenerationsContiguous
  <2> QED BY <2>1 DEF GenerationsContiguous
<1> QED BY <1>5, <1>6

\* The gate is taken and the count raised.
LEMMA CountPresentation ==
    ASSUME TypeOK, TypeOK', Prompt, TimelineInvariant, NEW t \in Threads, Presentation(t)
    PROVE  GenerationsCounted' /\ GenerationsContiguous'
<1> USE DEF TimelineInvariant
<1>1. /\ Others(t) /\ th[t].pc = "presentation" /\ th[t].slot \in Ring
      /\ \A k \in Ring : frames'[k].seq = frames[k].seq
      /\ UNCHANGED <<epoch, issued, shown>>
  BY PresentationEffect DEF history
<1>2. CASE th'[t].pc = "idle" /\ UNCHANGED <<frames, pgate>> BY <1>1, <1>2, CountQuiet
<1>3. CASE /\ ~pgate /\ pgate' = TRUE
           /\ \A k \in Ring : frames'[k].count =
                IF k = th[t].slot THEN frames[k].count + 1 ELSE frames[k].count
           /\ th'[t].pc = "ppublish" /\ th'[t].slot = th[t].slot
           /\ th'[t].seq = frames[th[t].slot].seq
           /\ th'[t].epoch = epoch /\ th'[t].last = frames[th[t].slot].count + 1
  <2>1. \A z \in Threads : th[z].pc # "ppublish" BY <1>3 DEF GenerationsCounted
  <2>2. \A z \in Threads : th'[z].pc = "ppublish" <=> z = t BY <1>1, <1>3, <2>1 DEF Others
  <2>3. \A k \in Ring : frames[k].count \in Nat BY Types
  <2>4. ASSUME NEW p \in shown
        PROVE  /\ p.epoch = epoch' /\ p.gen > 0 /\ \E f \in issued' : f.seq = p.render
               /\ \A k \in Ring : frames'[k].seq = p.render =>
                      p.gen <= frames[k].count /\ p.gen <= frames'[k].count
    <3>1. p.gen \in Nat BY Types
    <3>2. \A k \in Ring : frames[k].seq = p.render => p.gen <= frames[k].count BY DEF GenerationsCounted
    <3>3. p.epoch = epoch /\ p.gen > 0 /\ \E f \in issued : f.seq = p.render BY DEF GenerationsCounted
    <3> QED BY <1>1, <1>3, <2>3, <3>1, <3>2, <3>3
  <2>5. ASSUME NEW k \in Ring, frames'[k].seq > 0, NEW g \in 1..frames'[k].count
        PROVE  \/ \E p \in shown : p.render = frames'[k].seq /\ p.gen = g
               \/ \E z \in Threads : th'[z].pc = "ppublish" /\ th'[z].slot = k /\ th'[z].last = g
    <3>1. CASE g \in 1..frames[k].count BY <1>1, <2>1, <2>5, <3>1 DEF GenerationsCounted
    <3>2. CASE g \notin 1..frames[k].count
      <4>1. k = th[t].slot /\ g = frames[k].count + 1 BY <1>3, <2>3, <2>5, <3>2
      <4> QED BY <1>3, <4>1
    <3> QED BY <3>1, <3>2
  <2>6. /\ th'[t].last = frames'[th'[t].slot].count /\ th'[t].last > 0
        /\ th'[t].seq = frames'[th'[t].slot].seq
    BY <1>1, <1>3, <2>3
  <2>7. ASSUME NEW p \in shown PROVE ~(p.render = th'[t].seq /\ p.gen = th'[t].last)
    <3>1. p.gen \in Nat BY Types
    <3> QED BY <1>1, <1>3, <2>3, <2>4, <3>1
  <2>8. GenerationsCounted' BY <1>1, <1>3, <2>2, <2>4, <2>5, <2>6, <2>7 DEF GenerationsCounted
  <2>9. GenerationsContiguous' BY <1>1 DEF GenerationsContiguous
  <2> QED BY <2>8, <2>9
<1> QED BY <1>1, <1>2, <1>3, PresentationEffect

\* The presentation is published and the gate left.
LEMMA CountPublish ==
    ASSUME TypeOK, TypeOK', Prompt, TimelineInvariant, NEW t \in Threads, PresentationPublish(t)
    PROVE  GenerationsCounted' /\ GenerationsContiguous'
<1> USE DEF TimelineInvariant
<1>0. PICK n : n = [seq |-> pnext, epoch |-> th[t].epoch, render |-> th[t].seq, gen |-> th[t].last]
  OBVIOUS
<1>1. /\ Others(t) /\ th[t].pc = "ppublish" /\ th'[t].pc = "idle"
      /\ shown' = shown \cup {n} /\ UNCHANGED <<frames, epoch, issued>>
  BY <1>0, PresentationPublishEffect DEF ring
<1>2. /\ th[t].epoch = epoch /\ th[t].seq = frames[th[t].slot].seq
      /\ th[t].last = frames[th[t].slot].count /\ th[t].last > 0
      /\ \A p \in shown : ~(p.render = th[t].seq /\ p.gen = th[t].last)
      /\ \A u \in Threads : th[u].pc = "ppublish" <=> u = t
  BY <1>1 DEF GenerationsCounted
<1>3. n.epoch = epoch /\ n.render = frames[th[t].slot].seq /\ n.gen = frames[th[t].slot].count
      /\ n.gen > 0
  BY <1>0, <1>2
<1>4. th[t].slot \in Ring /\ th[t].slot # NoSlot BY <1>1, Types DEF CallbackPhase
<1>5. frames[th[t].slot].seq > 0 /\ frames[th[t].slot].count \in Nat
  BY <1>4, Types DEF FramesHeld
<1>6. PICK f \in issued : f.seq = n.render BY <1>3, <1>4, <1>5 DEF TokensIssued
<1>7. f.epoch = epoch BY TokenBounds
<1>8. \A z \in Threads : th'[z].pc # "ppublish" BY <1>1, <1>2 DEF Others
<1>9. GenerationsCounted'
  <2>1. ASSUME NEW p \in shown'
        PROVE  /\ p.epoch = epoch /\ p.gen > 0 /\ \E h \in issued : h.seq = p.render
               /\ \A k \in Ring : frames[k].seq = p.render => p.gen <= frames[k].count
    <3>1. CASE p \in shown BY <3>1 DEF GenerationsCounted
    <3>2. CASE p = n
      <4>1. \A k \in Ring : frames[k].seq = n.render => k = th[t].slot
        BY <1>3, <1>4, <1>5, SlotOfSeq
      <4> QED BY <1>3, <1>5, <1>6, <3>2, <4>1
    <3> QED BY <1>1, <3>1, <3>2
  <2>2. ASSUME NEW k \in Ring, frames[k].seq > 0, NEW g \in 1..frames[k].count
        PROVE  \E p \in shown' : p.render = frames[k].seq /\ p.gen = g
    <3>1. CASE \E p \in shown : p.render = frames[k].seq /\ p.gen = g BY <1>1, <3>1
    <3>2. CASE \E z \in Threads : th[z].pc = "ppublish" /\ th[z].slot = k /\ th[z].last = g
      <4>1. th[t].slot = k /\ th[t].last = g BY <1>2, <3>2
      <4> QED BY <1>1, <1>2, <1>3, <4>1
    <3> QED BY <2>2, <3>1, <3>2 DEF GenerationsCounted
  <2> QED BY <1>1, <1>8, <2>1, <2>2 DEF GenerationsCounted
<1>10. GenerationsContiguous'
  <2>1. ASSUME NEW p \in shown' PROVE \E h \in issued : p.epoch = h.epoch /\ p.render = h.seq
    <3>1. CASE p \in shown BY <3>1 DEF GenerationsContiguous
    <3>2. CASE p = n BY <1>3, <1>6, <1>7, <3>2
    <3> QED BY <1>1, <3>1, <3>2
  <2>2. \A q \in shown : ~(q.render = n.render /\ q.gen = n.gen) BY <1>2, <1>3
  <2>3. ASSUME NEW p \in shown', NEW q \in shown', p.epoch = q.epoch, p.render = q.render, p.gen = q.gen
        PROVE  p = q
    <3>1. (p \in shown \/ p = n) /\ (q \in shown \/ q = n) BY <1>1
    <3> QED BY <2>2, <2>3, <3>1 DEF GenerationsContiguous
  <2>4. ASSUME NEW p \in shown', p.gen > 1
        PROVE  \E q \in shown' : q.epoch = p.epoch /\ q.render = p.render /\ q.gen = p.gen - 1
    <3>1. CASE p \in shown BY <1>1, <2>4, <3>1 DEF GenerationsContiguous
    <3>2. CASE p = n
      <4>1. n.gen - 1 \in 1..frames[th[t].slot].count /\ n.gen \in Nat BY <1>3, <1>5, <2>4, <3>2
      <4>2. \/ \E q \in shown : q.render = n.render /\ q.gen = n.gen - 1
            \/ th[t].last = n.gen - 1
        BY <1>2, <1>3, <1>4, <1>5, <4>1 DEF GenerationsCounted
      <4>3. PICK q \in shown : q.render = n.render /\ q.gen = n.gen - 1
        BY <1>2, <1>3, <4>1, <4>2
      <4>4. q.epoch = epoch BY DEF GenerationsCounted
      <4> QED BY <1>1, <1>3, <3>2, <4>3, <4>4
    <3> QED BY <1>1, <3>1, <3>2
  <2> QED BY <1>1, <2>1, <2>3, <2>4 DEF GenerationsContiguous
<1> QED BY <1>9, <1>10

\* Every step keeps the counts.
LEMMA CountStep ==
    ASSUME TypeOK, Prompt, TimelineInvariant, [Next]_vars
    PROVE  GenerationsCounted' /\ GenerationsContiguous'
<1>0. /\ CallbackPhase /\ GateHolder /\ TokensIssued /\ FramesHeld /\ MarkersMasked
      /\ GenerationsCounted /\ GenerationsContiguous /\ AttachedInOrder /\ TypeOK'
  BY PhaseStep DEF TimelineInvariant
<1>1. ASSUME NEW t \in Threads, NEW op \in {"pace", "marker", "fg"}, NEW s \in Sources,
             NEW i \in 1..MaxId, NEW mk \in Markers \cup {"none", "fg"}, Call(t, op, s, i, mk)
      PROVE  GenerationsCounted' /\ GenerationsContiguous'
  <2>1. /\ Others(t) /\ UNCHANGED <<frames, epoch, issued, shown, pgate>>
        /\ th[t].pc # "ppublish" /\ th'[t].pc # "ppublish"
    BY <1>1, CallGoesOn DEF Others, ring, history, GoesOn
  <2> QED BY <1>0, <2>1, CountQuiet
<1>2. ASSUME NEW t \in Threads, Step(t), ~Presentation(t), ~PresentationPublish(t)
      PROVE  GenerationsCounted' /\ GenerationsContiguous'
  <2>1. Others(t) /\ epoch' = epoch /\ issued \subseteq issued' BY <1>2, FramesStep
  <2>2. UNCHANGED <<shown, pgate>> /\ th[t].pc # "ppublish" /\ th'[t].pc # "ppublish"
    <3>1. CASE EstablishOpen(t) BY <1>0, <3>1, EstablishOpenEffect DEF GoesOn, history
    <3>2. CASE EstablishPublish(t) BY <1>0, <3>2, EstablishPublishEffect
    <3>3. CASE EstablishBind(t) BY <1>0, <3>3, EstablishBindEffect DEF history
    <3>4. CASE EstablishLatest(t) BY <1>0, <3>4, EstablishLatestEffect DEF GoesOn, history
    <3>5. CASE BindLoad(t) BY <1>0, <3>5, BindLoadEffect DEF history
    <3>6. CASE BindCas(t) BY <1>0, <3>6, BindCasEffect DEF history
    <3>7. CASE BindPublish(t) BY <1>0, <3>7, BindPublishEffect DEF GoesOn, history
    <3>8. CASE Mark(t) BY <1>0, <3>8, MarkEffect DEF history
    <3>9. CASE Token(t) BY <1>0, <3>9, TokenEffect
    <3> QED BY <1>2, <3>1, <3>2, <3>3, <3>4, <3>5, <3>6, <3>7, <3>8, <3>9 DEF Step
  <2>3. CASE ~Mark(t) BY <1>0, <1>2, <2>1, <2>2, <2>3, FramesStep, CountQuiet DEF Kept
  <2>4. CASE Mark(t)
    <3>1. \A k \in Ring : frames'[k].seq = frames[k].seq /\ frames'[k].count = frames[k].count
      BY <1>0, <2>4, MarkEffect
    <3> QED BY <1>0, <2>1, <2>2, <3>1, CountQuiet
  <2> QED BY <2>3, <2>4
<1>3. ASSUME NEW t \in Threads, Presentation(t) \/ PresentationPublish(t)
      PROVE  GenerationsCounted' /\ GenerationsContiguous'
  BY <1>0, <1>3, CountPresentation, CountPublish
<1>4. CASE Wipe
  <2>1. /\ shown' = {} /\ \A z \in Threads : th'[z].pc = "idle"
        /\ \A k \in Ring : frames'[k].seq = 0
    BY <1>4, WipeEffect
  <2> QED BY <2>1 DEF GenerationsCounted, GenerationsContiguous
<1>5. CASE Freeze \/ UNCHANGED vars
  <2>1. UNCHANGED <<frames, th, epoch, issued, shown, pgate>> BY <1>5 DEF Freeze, vars, ring, history
  <2> QED BY <1>0, <2>1 DEF GenerationsCounted, GenerationsContiguous
<1> QED BY <1>1, <1>2, <1>3, <1>4, <1>5 DEF Next

----------------------------------------------------------------------------
(* What is attached to what *)

\* The three ways a native frame is attached to a token.
LEMMA AttachedWays ==
    ASSUME NEW s \in Sources
    PROVE  /\ \A a \in accepted : a.src = s => [id |-> a.id, seq |-> a.seq] \in Attached(s)
           /\ \A z \in Threads : th[z].src = s /\ th[z].slot # NoSlot /\ th[z].pc # "bind_publish" =>
                [id |-> th[z].id, seq |-> frames[th[z].slot].seq] \in Attached(s)
           /\ \A k \in Ring : bindings[s][k].seq # 0 =>
                [id |-> bindings[s][k].native, seq |-> bindings[s][k].seq] \in Attached(s)
BY DEF Attached

\* What a step attaches: the markers it hands out, the frame its callback has
\* then, and the bindings it writes.
LEMMA AttachedNew ==
    ASSUME NEW t \in Threads, Others(t), NEW s \in Sources, NEW N,
           \A z \in Threads : th[z].slot # NoSlot => frames'[th[z].slot].seq = frames[th[z].slot].seq,
           \A a \in accepted' : a.src = s =>
                a \in accepted \/ [id |-> a.id, seq |-> a.seq] \in Attached(s) \cup N,
           th'[t].src = s /\ th'[t].slot # NoSlot /\ th'[t].pc # "bind_publish" =>
                [id |-> th'[t].id, seq |-> frames'[th'[t].slot].seq] \in Attached(s) \cup N,
           \A k \in Ring : \/ bindings'[s][k] = bindings[s][k]
                           \/ [id |-> bindings'[s][k].native, seq |-> bindings'[s][k].seq]
                                    \in Attached(s) \cup N
    PROVE  Attached(s)' \subseteq Attached(s) \cup N
<1> SUFFICES ASSUME NEW x \in Attached(s)' PROVE x \in Attached(s) \cup N
  OBVIOUS
<1>1. CASE \E a \in accepted' : a.src = s /\ x = [id |-> a.id, seq |-> a.seq]
  BY <1>1, AttachedWays
<1>2. CASE \E z \in Threads : /\ th'[z].src = s /\ th'[z].slot # NoSlot /\ th'[z].pc # "bind_publish"
                              /\ x = [id |-> th'[z].id, seq |-> frames'[th'[z].slot].seq]
  <2>1. PICK z \in Threads : /\ th'[z].src = s /\ th'[z].slot # NoSlot /\ th'[z].pc # "bind_publish"
                             /\ x = [id |-> th'[z].id, seq |-> frames'[th'[z].slot].seq]
    BY <1>2
  <2>2. CASE z = t BY <2>1, <2>2
  <2>3. CASE z # t
    <3>1. th'[z] = th[z] BY <2>3 DEF Others
    <3> QED BY <2>1, <3>1, AttachedWays
  <2> QED BY <2>2, <2>3
<1>3. CASE \E k \in Ring : /\ bindings'[s][k].seq # 0
                           /\ x = [id |-> bindings'[s][k].native, seq |-> bindings'[s][k].seq]
  BY <1>3, AttachedWays
<1> QED BY <1>1, <1>2, <1>3 DEF Attached

\* Most steps attach nothing: a callback that has found its frame has found a
\* binding, and a marker belongs to a callback that has its frame.
LEMMA AttachedKept ==
    ASSUME TypeOK, Prompt, TimelineInvariant, NEW t \in Threads, Step(t), NEW s \in Sources
    PROVE  /\ ~(BindPublish(t) /\ s = th[t].src) /\ ~(EstablishBind(t) /\ s = Pacing) =>
                Attached(s)' \subseteq Attached(s)
           /\ EstablishBind(t) =>
                Attached(Pacing)' \subseteq Attached(Pacing) \cup {[id |-> th[t].id, seq |-> next]}
           /\ BindPublish(t) /\ s = th[t].src =>
                Attached(s)' \subseteq Attached(s) \cup
                    {[id |-> th[t].id, seq |-> frames[th[t].slot].seq]}
<1> USE DEF TimelineInvariant
<1>0. /\ Others(t)
      /\ \A z \in Threads : th[z].slot # NoSlot =>
            th[z].slot \in Ring /\ frames'[th[z].slot].seq = frames[th[z].slot].seq
      /\ Pacing \in Sources /\ th[t].id \in Nat /\ th[t].id % Slots \in Ring /\ next \in Nat
  BY FramesStep, HeldKept, Types, TimelineAssumptions, InRing
<1>1. ASSUME Mark(t) \/ Presentation(t) \/ BindLoad(t) \/ BindCas(t) \/ PresentationPublish(t)
             \/ EstablishPublish(t)
      PROVE  Attached(s)' \subseteq Attached(s)
  <2>1. UNCHANGED <<accepted, bindings>>
    BY <1>1, MarkEffect, PresentationEffect, BindLoadEffect, BindCasEffect,
       PresentationPublishEffect, EstablishPublishEffect DEF ring, history
  <2>2. ASSUME th'[t].slot # NoSlot, th'[t].pc # "bind_publish"
        PROVE  /\ th'[t].slot = th[t].slot /\ th'[t].src = th[t].src /\ th'[t].id = th[t].id
               /\ th[t].pc # "bind_publish"
    BY <1>1, <2>2, MarkEffect, PresentationEffect, BindLoadEffect, BindCasEffect,
       PresentationPublishEffect, EstablishPublishEffect, ZenonT(40)
  <2>3. th'[t].src = s /\ th'[t].slot # NoSlot /\ th'[t].pc # "bind_publish" =>
            [id |-> th'[t].id, seq |-> frames'[th'[t].slot].seq] \in Attached(s)
    BY <1>0, <2>2, AttachedWays
  <2> QED BY <1>0, <2>1, <2>3, AttachedNew
<1>2. ASSUME Token(t) PROVE Attached(s)' \subseteq Attached(s)
  <2>1. /\ UNCHANGED bindings /\ th'[t].slot = NoSlot /\ th[t].pc = "token" /\ th[t].slot \in Ring
        /\ accepted' = accepted \cup {[epoch |-> epoch, seq |-> frames[th[t].slot].seq,
                src |-> th[t].src, id |-> th[t].id, mk |-> th[t].mk, n |-> 0]}
    BY <1>2, TokenEffect DEF ring
  <2>2. \A a \in accepted' : a.src = s =>
            a \in accepted \/ [id |-> a.id, seq |-> a.seq] \in Attached(s)
    <3>1. th[t].src = s => [id |-> th[t].id, seq |-> frames[th[t].slot].seq] \in Attached(s)
      BY <2>1, AttachedWays, InRing
    <3> QED BY <2>1, <3>1
  <2> QED BY <1>0, <2>1, <2>2, AttachedNew
<1>3. ASSUME EstablishOpen(t) PROVE Attached(s)' \subseteq Attached(s)
  <2>1. UNCHANGED <<accepted, bindings>> BY <1>3, EstablishOpenEffect DEF history
  <2>2. ASSUME th'[t].slot # NoSlot
        PROVE  th'[t].slot = LookupSource(Pacing, th[t].id) /\ th'[t].src = Pacing /\ th'[t].id = th[t].id
               /\ UNCHANGED frames
    <3>1. th[t].slot = NoSlot BY <1>3, EstablishOpenEffect DEF CallbackPhase
    <3> QED BY <1>3, <2>2, <3>1, EstablishOpenEffect DEF GoesOn
  <2>3. ASSUME th'[t].slot # NoSlot, th'[t].src = s
        PROVE  [id |-> th'[t].id, seq |-> frames'[th'[t].slot].seq] \in Attached(s)
    <3>1. LET b == bindings[Pacing][th[t].id % Slots]
          IN  b.native = th[t].id /\ b.seq > 0 /\ frames[th'[t].slot].seq = b.seq
      BY <1>0, <2>2, <2>3, Lookup
    <3>2. PICK b : b = bindings[Pacing][th[t].id % Slots] OBVIOUS
    <3>3. th[t].id % Slots \in Ring /\ Pacing \in Sources BY <1>0, <2>2, <2>3, InRing, Types
    <3>4. b.seq # 0 BY <3>1, <3>2
    <3>5. [id |-> b.native, seq |-> b.seq] \in Attached(Pacing)
      BY <3>2, <3>3, <3>4, AttachedWays, Zenon
    <3>6. th'[t].id = b.native /\ frames'[th'[t].slot].seq = b.seq /\ s = Pacing
      BY <2>2, <2>3, <3>1, <3>2, Zenon
    <3> QED BY <3>5, <3>6, Zenon
  <2> QED BY <1>0, <2>1, <2>3, AttachedNew
<1>4. ASSUME EstablishLatest(t) PROVE Attached(s)' \subseteq Attached(s)
  <2>1. UNCHANGED <<accepted, bindings, frames>> /\ th[t].pc = "latest"
        /\ GoesOn(t, Pacing, th[t].id, next % Slots)
    BY <1>4, EstablishLatestEffect DEF history
  <2>2. /\ frames[next % Slots].seq = next /\ next > 0
        /\ bindings[Pacing][th[t].id % Slots] = NewBinding(t)
    BY <2>1 DEF GateHolder, Holder
  <2>3. ASSUME th'[t].slot # NoSlot, th'[t].src = s
        PROVE  [id |-> th'[t].id, seq |-> frames'[th'[t].slot].seq] \in Attached(s)
    <3>1. s = Pacing /\ th'[t].id = th[t].id /\ th'[t].slot = next % Slots BY <2>1, <2>3 DEF GoesOn
    <3>2. LET b == bindings[Pacing][th[t].id % Slots] IN b.native = th[t].id /\ b.seq = next
      BY <2>2 DEF NewBinding
    <3> QED BY <1>0, <2>1, <2>2, <3>1, <3>2, AttachedWays
  <2> QED BY <1>0, <2>1, <2>3, AttachedNew
<1>5. ASSUME EstablishBind(t)
      PROVE  /\ s # Pacing => Attached(s)' \subseteq Attached(s)
             /\ Attached(Pacing)' \subseteq Attached(Pacing) \cup {[id |-> th[t].id, seq |-> next]}
  <2>1. /\ UNCHANGED accepted /\ th[t].pc = "bind_own" /\ th'[t].slot = th[t].slot
        /\ \A r \in Sources, j \in Ring : bindings'[r][j] =
              IF r = Pacing /\ j = th[t].id % Slots THEN NewBinding(t) ELSE bindings[r][j]
    BY <1>5, EstablishBindEffect DEF history
  <2>2. th'[t].slot = NoSlot BY <2>1 DEF CallbackPhase
  <2>3. PICK N : N = {[id |-> th[t].id, seq |-> next]} OBVIOUS
  <2>4. Attached(Pacing)' \subseteq Attached(Pacing) \cup N
    <3>1. \A k \in Ring : \/ bindings'[Pacing][k] = bindings[Pacing][k]
                          \/ [id |-> bindings'[Pacing][k].native, seq |-> bindings'[Pacing][k].seq] \in N
      BY <1>0, <2>1, <2>3 DEF NewBinding
    <3> QED BY <1>0, <2>1, <2>2, <3>1, AttachedNew
  <2>5. ASSUME s # Pacing PROVE Attached(s)' \subseteq Attached(s)
    <3>1. \A k \in Ring : bindings'[s][k] = bindings[s][k] BY <2>1, <2>5
    <3> QED BY <1>0, <2>1, <2>2, <3>1, AttachedNew, ZenonT(40)
  <2> QED BY <2>3, <2>4, <2>5
<1>6. ASSUME BindPublish(t)
      PROVE  /\ s # th[t].src => Attached(s)' \subseteq Attached(s)
             /\ s = th[t].src => Attached(s)' \subseteq Attached(s) \cup
                    {[id |-> th[t].id, seq |-> frames[th[t].slot].seq]}
  <2>1. /\ UNCHANGED <<accepted, frames>> /\ th[t].slot \in Ring
        /\ GoesOn(t, th[t].src, th[t].id, th[t].slot)
        /\ \A r \in Sources, j \in Ring : bindings'[r][j] =
              IF r = th[t].src /\ j = th[t].id % Slots
              THEN [native |-> th[t].id, epoch |-> epoch, seq |-> frames[th[t].slot].seq]
              ELSE bindings[r][j]
    BY <1>6, BindPublishEffect DEF history
  <2>2. ASSUME th'[t].slot # NoSlot
        PROVE  /\ th'[t].src = th[t].src
               /\ [id |-> th'[t].id, seq |-> frames'[th'[t].slot].seq] =
                     [id |-> th[t].id, seq |-> frames[th[t].slot].seq]
    BY <2>1, <2>2 DEF GoesOn
  <2>3. ASSUME s # th[t].src PROVE Attached(s)' \subseteq Attached(s)
    <3>1. \A k \in Ring : bindings'[s][k] = bindings[s][k] BY <2>1, <2>3
    <3> QED BY <1>0, <2>1, <2>2, <2>3, <3>1, AttachedNew
  <2>4. ASSUME s = th[t].src
        PROVE  Attached(s)' \subseteq Attached(s) \cup
                    {[id |-> th[t].id, seq |-> frames[th[t].slot].seq]}
    <3>0. PICK N : N = {[id |-> th[t].id, seq |-> frames[th[t].slot].seq]} OBVIOUS
    <3>1. \A k \in Ring : \/ bindings'[s][k] = bindings[s][k]
                          \/ [id |-> bindings'[s][k].native, seq |-> bindings'[s][k].seq] \in N
      BY <1>0, <2>1, <2>4, <3>0
    <3>2. th'[t].slot # NoSlot => [id |-> th'[t].id, seq |-> frames'[th'[t].slot].seq] \in N
      BY <2>2, <3>0
    <3>3. Attached(s)' \subseteq Attached(s) \cup N BY <1>0, <2>1, <3>1, <3>2, AttachedNew
    <3> QED BY <3>0, <3>3
  <2> QED BY <2>3, <2>4
<1>7. ASSUME EstablishBind(t), BindPublish(t) PROVE FALSE
  BY <1>7 DEF EstablishBind, BindPublish, At
<1> QED BY <1>1, <1>2, <1>3, <1>4, <1>5, <1>6, <1>7 DEF Step

\* A frontend for which a step attaches nothing stays in order.
LEMMA SourceKept ==
    ASSUME TypeOK, NEW s \in Sources, SourceInOrder(s), Attached(s)' \subseteq Attached(s),
           newest'[s] = newest[s], lastTok'[s] = lastTok[s], epoch' = epoch,
           \A k \in Ring : bindings'[s][k] = bindings[s][k]
    PROVE  SourceInOrder(s)' /\ (Again(s)' => Again(s))
<1>1. newest[s] % Slots \in Ring BY Types, InRing
<1>2. Again(s)' => Again(s) BY DEF Again
<1> QED BY <1>1, <1>2 DEF SourceInOrder

\* A callback that binds a frame, while another one moves.
LEMMA BindsKept ==
    ASSUME TypeOK, TokensIssued, CallbackPhase, AttachedInOrder, NEW z \in Threads, th'[z] = th[z],
           th[z].src # Pacing => /\ Again(th[z].src)' => Again(th[z].src)
                                 /\ lastTok'[th[z].src] = lastTok[th[z].src],
           \A k \in Ring : frames'[k].seq = frames[k].seq \/ Recycled(k)
    PROVE  BindsBeyond(z)'
<1> DEFINE last == lastTok[th[z].src]
<1>0. BindsBeyond(z) /\ th[z].src \in Sources /\ last \in Nat BY Types DEF AttachedInOrder
<1>1. CASE th[z].src = Pacing
  BY <1>1 DEF BindsBeyond, CallbackPhase
<1>2. CASE th[z].src # Pacing
  <2>1. ASSUME Again(th[z].src), frames[last % Slots].seq # last
        PROVE  frames'[last % Slots].seq # last
    <3>1. last > 0
      <4>1. PICK x \in Attached(th[z].src) : x.seq \in 1..last
        BY <1>0, <1>2, <2>1 DEF Again, AttachedInOrder, SourceInOrder
      <4> QED BY <1>0, <4>1
    <3>2. \E a \in issued : a.seq = last BY <1>0, <3>1 DEF TokensIssued
    <3>3. last % Slots \in Ring BY <1>0, InRing
    <3> QED BY <2>1, <3>2, <3>3 DEF Recycled
  <2>2. ASSUME th[z].pc = "bind_publish" PROVE frames'[th[z].slot].seq = frames[th[z].slot].seq
    <3>1. th[z].slot \in Ring BY <2>2, Types DEF CallbackPhase
    <3> QED BY <3>1 DEF Recycled
  <2> QED BY <1>0, <1>2, <2>1, <2>2 DEF BindsBeyond
<1> QED BY <1>1, <1>2

\* A callback that does not bind any more, or never will.
LEMMA BindsNot ==
    ASSUME NEW t \in Threads, th'[t].pc \notin {"bind_cas", "bind_publish"},
           th'[t].pc = "bind_load" => th'[t].src = Pacing
    PROVE  BindsBeyond(t)'
BY DEF BindsBeyond

\* A new callback finds the frame its frontend has bound, unless that was recycled.
LEMMA OrderCall ==
    ASSUME TypeOK, TypeOK', Prompt, TimelineInvariant, NEW t \in Threads,
           NEW op \in {"pace", "marker", "fg"}, NEW s \in Sources, NEW i \in 1..MaxId,
           NEW mk \in Markers \cup {"none", "fg"}, Call(t, op, s, i, mk)
    PROVE  AttachedInOrder'
<1> USE DEF TimelineInvariant
<1>1. /\ Others(t) /\ th[t].pc = "idle" /\ i \in Nat /\ i > 0 /\ Pacing \in Sources
      /\ UNCHANGED <<frames, bindings, lastTok, epoch, issued, accepted>>
      /\ \/ i = newest[s] /\ (s = Pacing \/ ~Searching(s))
         \/ i > newest[s] /\ ~Searching(s)
  BY CallGoesOn, TimelineAssumptions DEF Others, ring, history
<1>2. \A r \in Sources : newest'[r] = (IF r = s THEN i ELSE newest[r]) /\ newest[r] \in Nat
                         /\ lastTok[r] \in Nat
  <2>1. newest' = [newest EXCEPT ![s] = i] BY CallGoesOn
  <2>2. newest \in [Sources -> Nat] /\ lastTok \in [Sources -> Nat] BY DEF TypeOK
  <2> QED BY <2>1, <2>2
<1>3. \A r \in Sources : Attached(r)' \subseteq Attached(r)
  <2>1. ASSUME NEW r \in Sources, th'[t].src = r, th'[t].slot # NoSlot
        PROVE  [id |-> th'[t].id, seq |-> frames'[th'[t].slot].seq] \in Attached(r)
    BY <1>1, <2>1, HeldCall, AttachedWays, Types
  <2> QED BY <1>1, <2>1, AttachedNew
<1>4. ASSUME NEW x \in Attached(Pacing)' PROVE \E a \in issued' : a.id = x.id /\ a.seq = x.seq
  BY <1>1, <1>3 DEF AttachedInOrder
<1>5. ASSUME NEW r \in Sources \ {Pacing} PROVE SourceInOrder(r)' /\ (Again(r)' => Again(r) /\ newest'[r] = newest[r])
  <2>1. SourceInOrder(r) BY DEF AttachedInOrder
  <2>2. CASE newest'[r] = newest[r] BY <1>1, <1>3, <2>1, <2>2, SourceKept
  <2>3. CASE newest'[r] # newest[r]
    <3>1. newest'[r] = i /\ i > newest[r] BY <1>1, <1>2, <2>3
    <3>2. \A x \in Attached(r)' : x \in Attached(r) /\ x.id \in 1..newest[r] /\ x.id # i
      BY <1>1, <1>2, <1>3, <2>1, <3>1 DEF SourceInOrder
    <3>3. ~Again(r)' BY <3>1, <3>2 DEF Again
    <3>4. \A x \in Attached(r)' : x.id \in 1..newest'[r] BY <1>1, <1>2, <3>1, <3>2
    <3> QED BY <1>1, <2>1, <3>2, <3>3, <3>4 DEF SourceInOrder
  <2> QED BY <2>2, <2>3
<1>6. ASSUME NEW z \in Threads, z # t PROVE BindsBeyond(z)'
  <2>1. th'[z] = th[z] /\ th[z].src \in Sources BY <1>1, <1>6, Types DEF Others
  <2> QED BY <1>1, <1>5, <2>1, BindsKept
<1>7. BindsBeyond(t)'
  <2>1. th'[t].pc \notin {"bind_cas", "bind_publish"} BY CallGoesOn DEF GoesOn
  <2>2. CASE th'[t].pc = "bind_load" => th'[t].src = Pacing BY <2>1, <2>2, BindsNot
  <2>3. CASE th'[t].pc = "bind_load" /\ th'[t].src # Pacing
    <3>1. th'[t].src = s /\ s # Pacing /\ LookupSource(s, i) = NoSlot
      BY <2>3, CallGoesOn DEF GoesOn
    <3>2. ASSUME Again(s)' PROVE frames[lastTok[s] % Slots].seq # lastTok[s]
      <4>1. Again(s) /\ i = newest[s] BY <1>2, <1>5, <3>1, <3>2
      <4>2. bindings[s][i % Slots] = [native |-> i, epoch |-> epoch, seq |-> lastTok[s]]
        BY <3>1, <4>1 DEF AttachedInOrder, SourceInOrder
      <4>3. PICK x \in Attached(s) : x.seq \in 1..lastTok[s]
        BY <3>1, <4>1 DEF AttachedInOrder, SourceInOrder, Again
      <4>4. lastTok[s] > 0 BY <1>2, <4>3
      <4>5. ASSUME frames[lastTok[s] % Slots].seq = lastTok[s] PROVE FALSE
        <5>1. lastTok[s] % Slots \in Ring /\ epoch \in Nat \ {0} BY <1>2, InRing, Types
        <5>2. frames[lastTok[s] % Slots].epoch = epoch BY <4>4, <4>5, <5>1 DEF TokensIssued
        <5>3. LookupSource(s, i) = lastTok[s] % Slots
          <6>1. s \in Sources /\ i \in Nat /\ lastTok[s] \in Nat \ {0} BY <1>2, <3>1, <4>4
          <6> QED BY <4>2, <4>5, <5>1, <5>2, <6>1, LookupHit
        <5> QED BY <3>1, <5>1, <5>3, InRing
      <4> QED BY <4>5
    <3> QED BY <1>1, <2>3, <3>1, <3>2 DEF BindsBeyond
  <2> QED BY <2>2, <2>3
<1> QED BY <1>4, <1>5, <1>6, <1>7 DEF AttachedInOrder

\* The steps of a callback that is not about to bind to a token of another source.
LEMMA OrderQuiet ==
    ASSUME TypeOK, TypeOK', Prompt, TimelineInvariant, NEW t \in Threads, Step(t),
           ~BindPublish(t), BindsBeyond(t)'
    PROVE  AttachedInOrder'
<1> USE DEF TimelineInvariant
<1>1. /\ Others(t) /\ epoch' = epoch /\ issued \subseteq issued'
      /\ \A k \in Ring : frames'[k].seq = frames[k].seq \/ Recycled(k)
  BY FramesStep DEF Kept
<1>2. /\ UNCHANGED newest
      /\ \A r \in Sources \ {Pacing} : lastTok'[r] = lastTok[r] /\ bindings'[r] = bindings[r]
  <2>1. CASE EstablishOpen(t) BY <2>1, EstablishOpenEffect
  <2>2. CASE EstablishPublish(t) BY <2>2, EstablishPublishEffect
  <2>3. CASE EstablishBind(t) BY <2>3, EstablishBindEffect
  <2>4. CASE EstablishLatest(t) BY <2>4, EstablishLatestEffect
  <2>5. CASE BindLoad(t) BY <2>5, BindLoadEffect DEF ring
  <2>6. CASE BindCas(t) BY <2>6, BindCasEffect
  <2>7. CASE Mark(t) BY <2>7, MarkEffect
  <2>8. CASE Token(t) BY <2>8, TokenEffect DEF ring
  <2>9. CASE Presentation(t) BY <2>9, PresentationEffect
  <2>10. CASE PresentationPublish(t) BY <2>10, PresentationPublishEffect DEF ring
  <2> QED BY <2>1, <2>2, <2>3, <2>4, <2>5, <2>6, <2>7, <2>8, <2>9, <2>10 DEF Step
<1>3. ASSUME NEW x \in Attached(Pacing)' PROVE \E a \in issued' : a.id = x.id /\ a.seq = x.seq
  <2>0. Pacing \in Sources BY TimelineAssumptions
  <2>1. CASE x \in Attached(Pacing) BY <1>1, <2>1 DEF AttachedInOrder
  <2>2. CASE x \notin Attached(Pacing)
    <3>1. EstablishBind(t) BY <2>0, <2>2, AttachedKept
    <3>2. x = [id |-> th[t].id, seq |-> next] BY <2>0, <2>2, <3>1, AttachedKept
    <3>3. NewToken(t) \in issued
      BY <3>1, EstablishBindEffect DEF GateHolder, Holder
    <3> QED BY <1>1, <3>2, <3>3 DEF NewToken
  <2> QED BY <2>1, <2>2
<1>4. ASSUME NEW r \in Sources \ {Pacing} PROVE SourceInOrder(r)' /\ (Again(r)' => Again(r))
  <2>1. Attached(r)' \subseteq Attached(r) BY AttachedKept
  <2> QED BY <1>1, <1>2, <2>1, SourceKept DEF AttachedInOrder
<1>5. ASSUME NEW z \in Threads, z # t PROVE BindsBeyond(z)'
  <2>1. th'[z] = th[z] /\ th[z].src \in Sources BY <1>1, <1>5, Types DEF Others
  <2> QED BY <1>1, <1>2, <1>4, <2>1, BindsKept
<1> QED BY <1>3, <1>4, <1>5 DEF AttachedInOrder

\* When the newest frame is attached to a recycled token, a whole ring of tokens
\* lies between that one and the latest.
LEMMA OrderLoad ==
    ASSUME TypeOK, TypeOK', Prompt, TimelineInvariant, NEW t \in Threads, BindLoad(t)
    PROVE  AttachedInOrder'
<1> USE DEF TimelineInvariant
<1>0. Step(t) /\ ~BindPublish(t) BY DEF Step, BindLoad, BindPublish, At
<1>1. SUFFICES BindsBeyond(t)' BY <1>0, OrderQuiet
<1>2. /\ th[t].pc = "bind_load" /\ UNCHANGED <<frames, lastTok, newest>> BY BindLoadEffect DEF ring
<1>3. CASE th'[t].pc = "idle" BY <1>3, BindsNot
<1>4. CASE /\ latest > lastTok[th[t].src]
           /\ th'[t].pc = "bind_cas" /\ th'[t].seq = latest /\ th'[t].last = lastTok[th[t].src]
           /\ th'[t].src = th[t].src
  <2> DEFINE s == th[t].src
             last == lastTok[s]
  <2>1. /\ s \in Sources /\ last \in Nat /\ latest \in Nat /\ next \in Nat /\ Slots \in Nat
        /\ lastTok[Pacing] \in Nat
    BY Types, TimelineAssumptions
  <2>2. s # Pacing BY <1>4, <2>1 DEF TokensIssued
  <2>3. ASSUME NEW r \in Sources, r = s PROVE Again(r)' => Again(r)
    <3>1. Attached(r)' \subseteq Attached(r)
      BY <1>0, <2>2, <2>3, AttachedKept DEF BindLoad, EstablishBind, At
    <3> QED BY <1>2, <3>1 DEF Again
  <2>4. ASSUME Again(s) PROVE frames[last % Slots].seq # last /\ latest - last >= Slots - 1
    <3>1. frames[last % Slots].seq # last BY <1>2, <2>2, <2>4 DEF AttachedInOrder, BindsBeyond
    <3>2. PICK x \in Attached(s) : x.seq \in 1..last
      BY <2>1, <2>2, <2>4 DEF AttachedInOrder, SourceInOrder, Again
    <3>3. PICK a \in issued : a.seq = last BY <2>1, <3>2 DEF TokensIssued
    <3>4. ~(next - last < Slots) BY <3>1, <3>3 DEF TokensIssued
    <3>5. next - 1 <= latest BY DEF GateHolder
    <3> QED BY <2>1, <3>1, <3>4, <3>5
  <2> QED BY <1>2, <1>4, <2>1, <2>2, <2>3, <2>4 DEF BindsBeyond
<1> QED BY <1>3, <1>4, BindLoadEffect

\* The target of a binding lies beyond the last one.
LEMMA OrderCas ==
    ASSUME TypeOK, TypeOK', Prompt, TimelineInvariant, NEW t \in Threads, BindCas(t)
    PROVE  AttachedInOrder'
<1> USE DEF TimelineInvariant
<1>0. Step(t) /\ ~BindPublish(t) BY DEF Step, BindCas, BindPublish, At
<1>1. SUFFICES BindsBeyond(t)' BY <1>0, OrderQuiet
<1>2. /\ th[t].pc = "bind_cas" /\ UNCHANGED <<lastTok, newest>>
      /\ \A k \in Ring : frames'[k].seq = frames[k].seq
  BY BindCasEffect
<1>3. CASE th'[t].pc = "idle" BY <1>3, BindsNot
<1>4. CASE /\ th'[t].pc = "bind_publish" /\ th'[t].slot \in Ring /\ th'[t].src = th[t].src
           /\ frames[th'[t].slot].seq > th[t].last
           /\ th[t].last # 0 /\ frames[th[t].last % Slots].seq # th[t].last
              /\ th[t].seq - th[t].last > 1 => frames[th'[t].slot].seq - th[t].last >= Slots
  <2> DEFINE s == th[t].src
             last == lastTok[s]
  <2>1. /\ s \in Sources /\ last \in Nat /\ th[t].seq \in Nat
        /\ Slots \in Nat /\ Slots - 1 > 1
    BY Types, TimelineAssumptions
  <2>2. s # Pacing BY <1>2 DEF CallbackPhase
  <2>3. ASSUME NEW r \in Sources, r = s PROVE Again(r)' => Again(r)
    <3>1. Attached(r)' \subseteq Attached(r)
      BY <1>0, <2>2, <2>3, AttachedKept DEF BindCas, EstablishBind, At
    <3> QED BY <1>2, <3>1 DEF Again
  <2>4. th[t].last = last BY <1>2 DEF AttachedInOrder, BindsBeyond
  <2>5. ASSUME Again(s) PROVE frames[th'[t].slot].seq - last >= Slots
    <3>1. frames[last % Slots].seq # last /\ th[t].seq - last >= Slots - 1
      BY <1>2, <2>2, <2>5 DEF AttachedInOrder, BindsBeyond
    <3>2. PICK x \in Attached(s) : x.seq \in 1..last
      BY <2>1, <2>2, <2>5 DEF AttachedInOrder, SourceInOrder, Again
    <3>3. last # 0 BY <2>1, <3>2
    <3>4. th[t].seq - last > 1 BY <2>1, <3>1
    <3> QED BY <1>4, <2>4, <3>1, <3>3, <3>4
  <2> QED BY <1>2, <1>4, <2>1, <2>3, <2>4, <2>5 DEF BindsBeyond
<1> QED BY <1>3, <1>4, BindCasEffect

\* The binding is published.
LEMMA OrderPublish ==
    ASSUME TypeOK, TypeOK', Prompt, TimelineInvariant, NEW t \in Threads, BindPublish(t)
    PROVE  AttachedInOrder'
<1> USE DEF TimelineInvariant
<1>0. PICK s \in Sources, i \in Nat, q \in Int, n \in [id : Nat, seq : Int] :
         /\ s = th[t].src /\ i = th[t].id /\ q = frames[th[t].slot].seq
         /\ n = [id |-> th[t].id, seq |-> frames[th[t].slot].seq]
  <2>1. th[t].slot \in Ring BY BindPublishEffect
  <2> QED BY <2>1, Types
<1>1. /\ Others(t) /\ th[t].pc = "bind_publish" /\ th[t].slot \in Ring /\ s # Pacing
      /\ GoesOn(t, th[t].src, th[t].id, th[t].slot)
      /\ \A k \in Ring : bindings'[s][k] =
            IF k = i % Slots THEN [native |-> i, epoch |-> epoch, seq |-> q] ELSE bindings[s][k]
      /\ \A r \in Sources \ {s} : bindings'[r] = bindings[r] /\ lastTok'[r] = lastTok[r]
      /\ lastTok'[s] = IF lastTok[s] < q THEN q ELSE lastTok[s]
      /\ UNCHANGED <<frames, epoch, newest, issued>>
  BY <1>0, BindPublishEffect DEF history
<1>2. /\ lastTok[s] \in Nat /\ newest[s] \in Nat /\ i % Slots \in Ring /\ n.id = i /\ n.seq = q
      /\ Slots \in Nat /\ Pacing \in Sources
  BY <1>0, Types, InRing, TimelineAssumptions
<1>3. i = newest[s] /\ i > 0 BY <1>0, <1>1, <1>2 DEF CallbackPhase, Seeking
<1>4. q > lastTok[s] /\ (Again(s) => q - lastTok[s] >= Slots)
  BY <1>0, <1>1 DEF AttachedInOrder, BindsBeyond
<1>5. lastTok'[s] = q BY <1>1, <1>4
<1>6. /\ Step(t) /\ ~EstablishBind(t) BY <1>1 DEF Step, EstablishBind, At
<1>7. Attached(s)' \subseteq Attached(s) \cup {n} BY <1>0, <1>6, AttachedKept
<1>8. ASSUME NEW x \in Attached(s)
      PROVE  x.id \in 1..newest[s] /\ x.seq \in 1..lastTok[s] /\ InOrder(x, n) /\ InOrder(n, x)
  <2>1. x.id \in 1..newest[s] /\ x.seq \in 1..lastTok[s]
    BY <1>1 DEF AttachedInOrder, SourceInOrder
  <2>2. x.id = i => Again(s) BY <1>3 DEF Again
  <2> QED BY <1>2, <1>3, <1>4, <2>1, <2>2 DEF InOrder
<1>9. SourceInOrder(s)'
  <2>1. ASSUME NEW x \in Attached(s)' PROVE x.id \in 1..newest'[s] /\ x.seq \in 1..lastTok'[s]
    BY <1>1, <1>2, <1>3, <1>4, <1>5, <1>7, <1>8
  <2>2. ASSUME NEW x \in Attached(s)', NEW y \in Attached(s)' PROVE InOrder(x, y)
    <3>1. (x \in Attached(s) \/ x = n) /\ (y \in Attached(s) \/ y = n) BY <1>7
    <3>2. InOrder(n, n) BY <1>2 DEF InOrder
    <3>3. x \in Attached(s) /\ y \in Attached(s) => InOrder(x, y)
      BY <1>1 DEF AttachedInOrder, SourceInOrder
    <3> QED BY <1>8, <3>1, <3>2, <3>3
  <2>3. bindings'[s][newest'[s] % Slots] =
            [native |-> newest'[s], epoch |-> epoch', seq |-> lastTok'[s]]
    BY <1>1, <1>2, <1>3, <1>5
  <2>4. \A x, y : InOrder(x, y)' <=> InOrder(x, y) BY DEF InOrder
  <2> QED BY <2>1, <2>2, <2>3, <2>4 DEF SourceInOrder
<1>10. ASSUME NEW r \in Sources \ {s} PROVE Attached(r)' \subseteq Attached(r)
  BY <1>0, <1>6, AttachedKept
<1>11. ASSUME NEW r \in Sources \ {s, Pacing} PROVE SourceInOrder(r)' /\ (Again(r)' => Again(r))
  BY <1>1, <1>10, SourceKept DEF AttachedInOrder
<1>12. ASSUME NEW x \in Attached(Pacing)' PROVE \E a \in issued' : a.id = x.id /\ a.seq = x.seq
  BY <1>1, <1>2, <1>10 DEF AttachedInOrder
<1>13. ASSUME NEW z \in Threads PROVE BindsBeyond(z)'
  <2>1. CASE z = t
    <3>1. th'[t].pc \notin {"bind_cas", "bind_publish", "bind_load"} BY <1>1, InRing DEF GoesOn
    <3> QED BY <2>1, <3>1, BindsNot
  <2>2. CASE z # t
    <3>1. th'[z] = th[z] /\ th[z].src \in Sources BY <1>1, <2>2, Types DEF Others
    <3>2. CASE th[z].src = s
      <4>1. ~Seeking(z) /\ Seeking(t) BY <1>0, <1>1, <2>2, <3>2 DEF CallbackPhase, Seeking
      <4>2. th[z].pc \notin {"bind_cas", "bind_publish", "bind_load"}
        BY <4>1 DEF Seeking, CallbackPhase
      <4> QED BY <3>1, <4>2, BindsNot
    <3>3. CASE th[z].src # s BY <1>1, <1>11, <3>1, <3>3, BindsKept
    <3> QED BY <3>2, <3>3
  <2> QED BY <2>1, <2>2
<1> QED BY <1>9, <1>11, <1>12, <1>13 DEF AttachedInOrder

\* Every step keeps what is attached in order.
LEMMA OrderStep ==
    ASSUME TypeOK, Prompt, TimelineInvariant, [Next]_vars
    PROVE  AttachedInOrder'
<1> USE DEF TimelineInvariant
<1>0. TypeOK' BY PhaseStep
<1>1. ASSUME NEW t \in Threads, NEW op \in {"pace", "marker", "fg"}, NEW s \in Sources,
             NEW i \in 1..MaxId, NEW mk \in Markers \cup {"none", "fg"}, Call(t, op, s, i, mk)
      PROVE  AttachedInOrder'
  BY <1>0, <1>1, OrderCall
<1>2. ASSUME NEW t \in Threads, BindLoad(t) \/ BindCas(t) \/ BindPublish(t) PROVE AttachedInOrder'
  BY <1>0, <1>2, OrderLoad, OrderCas, OrderPublish
<1>3. ASSUME NEW t \in Threads, Step(t), ~BindLoad(t), ~BindCas(t), ~BindPublish(t)
      PROVE  AttachedInOrder'
  <2>1. CASE EstablishOpen(t)
    <3>1. th'[t].pc \notin {"bind_cas", "bind_publish"} /\ (th'[t].pc = "bind_load" => th'[t].src = Pacing)
      BY <2>1, EstablishOpenEffect DEF GoesOn
    <3> QED BY <1>0, <1>3, <3>1, OrderQuiet, BindsNot
  <2>2. CASE EstablishPublish(t)
    BY <1>0, <1>3, <2>2, EstablishPublishEffect, OrderQuiet, BindsNot
  <2>3. CASE EstablishBind(t)
    BY <1>0, <1>3, <2>3, EstablishBindEffect, OrderQuiet, BindsNot
  <2>4. CASE EstablishLatest(t)
    <3>1. th'[t].pc \notin {"bind_cas", "bind_publish"} /\ (th'[t].pc = "bind_load" => th'[t].src = Pacing)
      BY <2>4, EstablishLatestEffect DEF GoesOn
    <3> QED BY <1>0, <1>3, <3>1, OrderQuiet, BindsNot
  <2>5. CASE Mark(t) BY <1>0, <1>3, <2>5, MarkEffect, OrderQuiet, BindsNot
  <2>6. CASE Token(t) BY <1>0, <1>3, <2>6, TokenEffect, OrderQuiet, BindsNot
  <2>7. CASE Presentation(t) BY <1>0, <1>3, <2>7, PresentationEffect, OrderQuiet, BindsNot
  <2>8. CASE PresentationPublish(t) BY <1>0, <1>3, <2>8, PresentationPublishEffect, OrderQuiet, BindsNot
  <2> QED BY <1>3, <2>1, <2>2, <2>3, <2>4, <2>5, <2>6, <2>7, <2>8 DEF Step
<1>4. CASE Wipe
  <2>1. /\ \A z \in Threads : th'[z].pc = "idle" /\ th'[z].slot = NoSlot
        /\ accepted' = {} /\ \A r \in Sources, k \in Ring : bindings'[r][k].seq = 0
    BY <1>4, WipeEffect DEF CallbackPhase
  <2>2. \A r \in Sources : Attached(r)' = {} BY <2>1 DEF Attached
  <2>3. \A r \in Sources : SourceInOrder(r)' BY <2>2 DEF SourceInOrder, Again
  <2>4. \A z \in Threads : BindsBeyond(z)' BY <2>1, BindsNot
  <2> QED BY <2>2, <2>3, <2>4, TimelineAssumptions DEF AttachedInOrder
<1>5. CASE Freeze \/ UNCHANGED vars
  <2>1. UNCHANGED <<frames, bindings, lastTok, newest, epoch, issued, accepted, th>>
    BY <1>5 DEF Freeze, vars, ring, history
  <2>2. \A r \in Sources : Attached(r)' = Attached(r) BY <2>1 DEF Attached
  <2>3. \A r \in Sources : Again(r)' <=> Again(r) BY <2>1, <2>2 DEF Again
  <2>4. \A r \in Sources \ {Pacing} : SourceInOrder(r)'
    BY <2>1, <2>2, <2>3 DEF AttachedInOrder, SourceInOrder
  <2>5. \A z \in Threads : BindsBeyond(z)'
    BY <2>1, <2>3, Types DEF AttachedInOrder, BindsBeyond
  <2> QED BY <2>1, <2>2, <2>4, <2>5, TimelineAssumptions DEF AttachedInOrder
<1> QED BY <1>1, <1>2, <1>3, <1>4, <1>5 DEF Next

----------------------------------------------------------------------------
(* The invariant and what follows from it *)

\* The invariant holds initially ...
LEMMA TimelineInit ==
    ASSUME Init
    PROVE  TypeOK /\ TimelineInvariant
<1>0. Pacing \in Sources BY TimelineAssumptions
<1>1. /\ NoFrame \in FrameType /\ NoFrame.seq = 0 BY DEF NoFrame, FrameType
<1>2. /\ NoBinding \in [native : Nat, epoch : Nat, seq : Nat] /\ NoBinding.seq = 0 BY DEF NoBinding
<1>3. /\ NoPresentation \in [seq : Nat, epoch : Nat, render : Nat, gen : Nat] BY DEF NoPresentation
<1>4. TypeOK
  <2>1. th \in [Threads -> CallbackType] BY LocalTypes DEF Init
  <2>2. lock \in BOOLEAN /\ gate \in BOOLEAN /\ pgate \in BOOLEAN BY Zenon DEF Init
  <2>3. /\ frames \in [Ring -> FrameType]
        /\ bindings \in [Sources -> [Ring -> [native : Nat, epoch : Nat, seq : Nat]]]
        /\ pres \in [0..(PSlots-1) -> [seq : Nat, epoch : Nat, render : Nat, gen : Nat]]
    BY <1>1, <1>2, <1>3 DEF Init
  <2>4. /\ epoch \in Nat \ {0} /\ next \in Nat /\ latest \in Nat /\ pnext \in Nat /\ resets \in Nat
        /\ lastTok \in [Sources -> Nat] /\ newest \in [Sources -> Nat]
        /\ issued = {} /\ accepted = {} /\ shown = {}
    BY DEF Init
  <2> QED BY <2>1, <2>2, <2>3, <2>4 DEF TypeOK
<1>5. /\ \A t \in Threads : th[t].pc = "idle" /\ th[t].slot = NoSlot
      /\ \A k \in Ring : frames[k].seq = 0
      /\ \A s \in Sources, k \in Ring : bindings[s][k].seq = 0
      /\ \A s \in Sources : lastTok[s] = 0 /\ newest[s] = 0
      /\ issued = {} /\ accepted = {} /\ shown = {} /\ next = 0 /\ latest = 0
  BY <1>1, <1>2 DEF Init, Idle
<1>6. CallbackPhase BY <1>5 DEF CallbackPhase, Seeking
<1>7. GateHolder BY <1>5 DEF GateHolder, Holder
<1>8. TokensIssued BY <1>0, <1>5 DEF TokensIssued
<1>9. FramesHeld /\ MarkersMasked BY <1>5 DEF FramesHeld, MarkersMasked
<1>10. GenerationsCounted /\ GenerationsContiguous BY <1>5 DEF GenerationsCounted, GenerationsContiguous
<1>11. AttachedInOrder
  <2>1. \A r \in Sources : Attached(r) = {} BY <1>5 DEF Attached
  <2>2. \A r \in Sources : SourceInOrder(r) BY <2>1 DEF SourceInOrder, Again
  <2>3. \A z \in Threads : BindsBeyond(z) BY <1>5 DEF BindsBeyond
  <2> QED BY <1>0, <2>1, <2>2, <2>3 DEF AttachedInOrder
<1> QED BY <1>4, <1>6, <1>7, <1>8, <1>9, <1>10, <1>11 DEF TimelineInvariant

\* The inductive invariant of the timeline, for every number of threads, frontends,
\* slots and frames, when no callback outlives its slot and frontends mention their
\* frames in order.
THEOREM TimelineInv ==
    ASSUME Prompt
    PROVE  Spec => [](TypeOK /\ TimelineInvariant)
<1>1. Init => TypeOK /\ TimelineInvariant BY TimelineInit
<1>2. TypeOK /\ TimelineInvariant /\ [Next]_vars => TypeOK' /\ TimelineInvariant'
  <2> SUFFICES ASSUME TypeOK, TimelineInvariant, [Next]_vars PROVE TypeOK' /\ TimelineInvariant'
    OBVIOUS
  <2> QED BY PhaseStep, GateStep, HeldStep, MaskStep, CountStep, OrderStep DEF TimelineInvariant
<1> QED BY <1>1, <1>2, PTL DEF Spec

\* Within an epoch, native pacing ids and tokens are in bijection
\* (establish_canonical_frame).
THEOREM TimelineOneToken ==
    ASSUME Prompt
    PROVE  Spec => []OneTokenPerFrame
<1>1. TypeOK /\ TimelineInvariant => OneTokenPerFrame
  <2> SUFFICES ASSUME TypeOK, TimelineInvariant, NEW a \in issued, NEW b \in issued
               PROVE  a.seq = b.seq <=> a.id = b.id
    BY DEF OneTokenPerFrame
  <2>1. (a.seq < b.seq <=> a.id < b.id) /\ (b.seq < a.seq <=> b.id < a.id)
    BY DEF TimelineInvariant, TokensIssued
  <2>2. a.seq \in Nat /\ a.id \in Nat /\ b.seq \in Nat /\ b.id \in Nat BY Types
  <2> QED BY <2>1, <2>2
<1> QED BY <1>1, TimelineInv, PTL

\* Each marker of a render frame is handed to the executor at most once
\* (canonicalize_marker_locked).
THEOREM TimelineMarkerOnce ==
    ASSUME Prompt
    PROVE  Spec => []MarkerOnce
<1>1. TypeOK /\ TimelineInvariant => MarkerOnce
  BY DEF TimelineInvariant, MarkersMasked, MarkerOnce
<1> QED BY <1>1, TimelineInv, PTL

\* Markers land on issued tokens, in the order of their native frames
\* (bind_source_to_latest).
THEOREM TimelineMarkersInOrder ==
    ASSUME Prompt
    PROVE  Spec => []MarkersInOrder
<1>1. TypeOK /\ TimelineInvariant => MarkersInOrder
  <2> SUFFICES ASSUME TypeOK, TimelineInvariant PROVE MarkersInOrder
    OBVIOUS
  <2> USE DEF TimelineInvariant
  <2>1. ASSUME NEW a \in accepted PROVE \E f \in issued : a.epoch = f.epoch /\ a.seq = f.seq
    BY TokenBounds DEF MarkersMasked
  <2>2. ASSUME NEW a \in accepted, NEW b \in accepted, a.src = b.src
        PROVE  /\ a.id < b.id => a.seq < b.seq
               /\ a.id = b.id /\ a.seq < b.seq => b.seq - a.seq >= Slots
    <3>0. a.src \in Sources /\ a.id \in Nat /\ b.id \in Nat /\ a.seq \in Nat /\ b.seq \in Nat
      BY DEF TypeOK
    <3>1. PICK x, y : x = [id |-> a.id, seq |-> a.seq] /\ y = [id |-> b.id, seq |-> b.seq] OBVIOUS
    <3>2. x.id = a.id /\ x.seq = a.seq /\ y.id = b.id /\ y.seq = b.seq BY <3>1
    <3>3. x \in Attached(a.src) /\ y \in Attached(a.src) BY <2>2, <3>0, <3>1, AttachedWays
    <3>4. CASE a.src = Pacing
      <4>1. PICK f \in issued : f.id = x.id /\ f.seq = x.seq BY <3>3, <3>4 DEF AttachedInOrder
      <4>2. PICK g \in issued : g.id = y.id /\ g.seq = y.seq BY <3>3, <3>4 DEF AttachedInOrder
      <4>3. (f.seq < g.seq <=> f.id < g.id) BY DEF TokensIssued
      <4> QED BY <3>0, <3>2, <4>1, <4>2, <4>3
    <3>5. CASE a.src # Pacing
      <4>1. InOrder(x, y) BY <3>0, <3>3, <3>5 DEF AttachedInOrder, SourceInOrder
      <4> QED BY <3>2, <4>1 DEF InOrder
    <3> QED BY <3>4, <3>5
  <2> QED BY <2>1, <2>2 DEF MarkersInOrder
<1> QED BY <1>1, TimelineInv, PTL

\* The presentations of a render frame are numbered without gap or repetition
\* (canonicalize_fg_presentation_locked).
THEOREM TimelineGenerations ==
    ASSUME Prompt
    PROVE  Spec => []GenerationsContiguous
<1>1. TypeOK /\ TimelineInvariant => GenerationsContiguous BY DEF TimelineInvariant
<1> QED BY <1>1, TimelineInv, PTL

=============================================================================
