------------------------- MODULE XrTimeline_proofs -------------------------
(***************************************************************************)
(* Proofs about XrTimeline for every number of sessions, slots, waits and   *)
(* graphics frames: begins and ends pair with their waits, an XR frame gets *)
(* the first graphics frame opened after its wait, and a display time is    *)
(* converted by the session it belongs to.                                  *)
(***************************************************************************)
EXTENDS XrTimeline, TLAPS, WellFoundedInduction

----------------------------------------------------------------------------
(* The tables *)

\* A nonempty set of slots has a first one.
LEMMA FirstSlot ==
    ASSUME NEW T \in SUBSET (1..Slots), T # {}
    PROVE  \E i \in T : \A j \in T : i <= j
<1>1. T \subseteq Nat BY XrAssumptions
<1>2. PICK R : /\ IsWellFoundedOn(R, Nat)
               /\ \A i, j \in Nat : j < i => <<j, i>> \in R
  <2>1. \A i, j \in Nat : j < i => <<j, i>> \in OpToRel(<, Nat) BY Zenon DEF OpToRel
  <2> QED BY <2>1, NatLessThanWellFounded, Zenon
<1>3. PICK i \in T : \A j \in T : ~(<<j, i>> \in R) BY <1>1, <1>2, WFMin
<1>4. \A j \in T : ~(j < i) BY <1>1, <1>2, <1>3, Zenon
<1>5. \A j \in T : i \in Nat /\ j \in Nat BY <1>1
<1>6. \A j \in T : i <= j BY <1>4, <1>5
<1> QED BY <1>6

\* A probe stops at a slot with its key, or nowhere when there is none.
LEMMA Probe ==
    ASSUME NEW tab, NEW h
    PROVE  \/ /\ SlotOf(tab, h) \in 1..Slots /\ SlotOf(tab, h) # 0
              /\ tab[SlotOf(tab, h)].key = h
           \/ SlotOf(tab, h) = 0 /\ \A i \in 1..Slots : tab[i].key # h
<1>1. PICK hits : hits = {i \in 1..Slots : tab[i].key = h} OBVIOUS
<1>2. CASE hits = {}
  BY <1>1, <1>2 DEF SlotOf
<1>3. CASE hits # {}
  <2>1. SlotOf(tab, h) = CHOOSE i \in hits : \A j \in hits : i <= j BY <1>1, <1>3 DEF SlotOf
  <2>2. \E i \in hits : \A j \in hits : i <= j BY <1>1, <1>3, FirstSlot
  <2>3. SlotOf(tab, h) \in hits BY <2>1, <2>2
  <2> QED BY <1>1, <2>3, XrAssumptions
<1> QED BY <1>2, <1>3

----------------------------------------------------------------------------
(* Type correctness *)

Places == 0..(Frames - 1)
Live == [id : Nat, waits : Nat, begins : Nat, open : BOOLEAN, missed : BOOLEAN]

\* A sequence number has a place in the ring of frames.
LEMMA Place == \A q \in Nat : q % Frames \in Places
BY XrAssumptions DEF Places

\* The empty records have their types.
LEMMA Blank ==
    /\ NoFrame \in Frame /\ NoSession \in Session /\ Idle \in Caller /\ Dead \in Live
    /\ NoClock \in [key : Keys, convert : Nat]
<1>1. NoFrame \in Frame BY DEF NoFrame, Frame, Canonical
<1>2. [k \in 0..(Frames - 1) |-> NoFrame] \in [0..(Frames - 1) -> Frame] BY <1>1
<1>3. NoSession \in Session BY <1>2 DEF NoSession, Session, Keys
<1> QED BY <1>1, <1>3 DEF Idle, Caller, Dead, Live, NoClock, Keys

\* What the types say of the parts.
LEMMA Types ==
    ASSUME TypeOK
    PROVE  /\ \A h \in Handles :
                /\ rt[h] \in Live /\ waiter[h] \in Caller /\ renderer[h] \in Caller
                /\ rt[h].id \in Nat /\ rt[h].waits \in Nat /\ rt[h].begins \in Nat
                /\ waiter[h].k \in Nat /\ renderer[h].k \in Nat
                /\ waiter[h].clock \in Nat /\ renderer[h].clock \in Nat
                /\ waiter[h].should \in BOOLEAN
           /\ canon \in Canonical /\ canon.epoch \in Nat /\ canon.seq \in Nat
           /\ opened \in Seq(Canonical) /\ Len(opened) \in Nat
           /\ made.sessions \in Nat /\ made.waits \in Nat
           /\ \A i \in 1..Slots : table[i] \in Session
           /\ \A i \in 1..Slots : bindings[i].key \in Keys /\ bindings[i].convert \in Nat
<1>1. \A h \in Handles : rt[h] \in Live /\ waiter[h] \in Caller /\ renderer[h] \in Caller
  BY DEF TypeOK, Live
<1>2. canon \in Canonical /\ opened \in Seq(Canonical) BY DEF TypeOK
<1>3. \A h \in Handles : /\ rt[h].id \in Nat /\ rt[h].waits \in Nat /\ rt[h].begins \in Nat
                          /\ waiter[h].k \in Nat /\ renderer[h].k \in Nat
                          /\ waiter[h].clock \in Nat /\ renderer[h].clock \in Nat
  BY <1>1 DEF Live, Caller
<1>4. \A h \in Handles : waiter[h].should \in BOOLEAN BY <1>1 DEF Caller
<1>5. canon.epoch \in Nat /\ canon.seq \in Nat /\ Len(opened) \in Nat BY <1>2 DEF Canonical
<1>6. made.sessions \in Nat /\ made.waits \in Nat BY DEF TypeOK
<1>7. \A i \in 1..Slots : table[i] \in Session BY DEF TypeOK
<1>8. \A i \in 1..Slots : bindings[i] \in [key : Keys, convert : Nat] BY DEF TypeOK
<1>9. \A i \in 1..Slots : bindings[i].key \in Keys /\ bindings[i].convert \in Nat BY <1>8
<1> QED BY <1>1, <1>2, <1>3, <1>4, <1>5, <1>6, <1>7, <1>9

\* What the type of a session says of its parts.
LEMMA SessionParts ==
    ASSUME NEW s \in Session
    PROVE  /\ s.key \in Keys /\ s.id \in Nat /\ s.first \in Nat /\ s.next \in Nat
           /\ s.nextBegin \in Nat /\ s.active \in Nat /\ s.latest \in Nat
           /\ s.frames \in [Places -> Frame]
           /\ \A k \in Places :
                /\ s.frames[k] \in Frame
                /\ s.frames[k].seq \in Nat /\ s.frames[k].wait \in Nat
                /\ s.frames[k].mark \in Nat /\ s.frames[k].markEpoch \in Nat
                /\ s.frames[k].pos \in Nat /\ s.frames[k].begin \in Nat /\ s.frames[k].end \in Nat
                /\ s.frames[k].render \in Canonical
<1>1. s.frames \in [Places -> Frame] BY DEF Session, Places
<1>2. \A k \in Places : s.frames[k] \in Frame BY <1>1
<1> QED BY <1>1, <1>2 DEF Session, Frame

----------------------------------------------------------------------------
(* What the handlers of the frame loop do to a session slot *)

\* The record on_wait leaves in the slot that held s.
Waited(s, h) ==
    [s EXCEPT !.next = s.next + 1, !.latest = s.next + 1,
              !.frames[(s.next + 1) % Frames] = WaitFrame(h, s.next + 1)]

\* The entry of a wait, and the slot afterwards.
LEMMA WaitedSession ==
    ASSUME TypeOK, NEW h \in Handles, NEW s \in Session, NEW r, r = Waited(s, h)
    PROVE  /\ r \in Session /\ r.key = s.key /\ r.id = s.id /\ r.first = s.first
           /\ r.next = s.next + 1 /\ r.nextBegin = s.nextBegin /\ r.active = s.active
           /\ \A k \in Places : r.frames[k] = IF k = (s.next + 1) % Frames
                                              THEN WaitFrame(h, s.next + 1) ELSE s.frames[k]
<1>1. PICK q \in Nat : q = s.next + 1 /\ q % Frames \in Places BY SessionParts, Place
<1>0. PICK w : w = WaitFrame(h, q) OBVIOUS
<1>2. w \in Frame
  <2>1. PICK e \in Nat : e = IF canon.seq = 0 THEN 0 ELSE canon.epoch BY Types
  <2>2. w = [NoFrame EXCEPT !.seq = q, !.id = rt[h].id, !.wait = waiter[h].k,
                            !.should = waiter[h].should, !.mark = canon.seq, !.markEpoch = e,
                            !.pos = Len(opened)]
    BY <1>0, <2>1 DEF WaitFrame
  <2>3. /\ rt[h].id \in Nat /\ waiter[h].k \in Nat /\ canon.seq \in Nat /\ Len(opened) \in Nat
        /\ waiter[h].should \in BOOLEAN
    BY Types
  <2>4. NoFrame \in Frame BY Blank
  <2> QED BY <2>2, <2>3, <2>4 DEF Frame
<1>3. s.frames \in [Places -> Frame] BY SessionParts
<1>4. PICK F \in [Places -> Frame] : F = [s.frames EXCEPT ![q % Frames] = w] BY <1>1, <1>2, <1>3
<1>5. r = [s EXCEPT !.next = q, !.latest = q, !.frames = F]
  BY <1>0, <1>1, <1>4 DEF Waited
<1>6. \A k \in Places : F[k] = IF k = q % Frames THEN w ELSE s.frames[k] BY <1>1, <1>3, <1>4
<1>7. /\ r \in Session /\ r.key = s.key /\ r.id = s.id /\ r.first = s.first
      /\ r.next = q /\ r.nextBegin = s.nextBegin /\ r.active = s.active /\ r.frames = F
  BY <1>1, <1>4, <1>5 DEF Session, Places
<1> QED BY <1>0, <1>1, <1>6, <1>7

\* A slot claimed for h.
LEMMA Claimed ==
    ASSUME TypeOK, NEW h \in Handles, NEW i, NEW r, r = ClaimedFor(i, h)
    PROVE  /\ r \in Session /\ r.key = h /\ r.id = rt[h].id /\ r.first = waiter[h].k
           /\ r.next = 0 /\ r.nextBegin = 0 /\ r.active = 0
           /\ \A k \in Places : r.frames[k] = NoFrame
<1>1. r = [NoSession EXCEPT !.key = h, !.id = rt[h].id, !.first = waiter[h].k] BY DEF ClaimedFor
<1>2. h \in Keys /\ rt[h].id \in Nat /\ waiter[h].k \in Nat BY Types DEF Keys
<1>3. NoSession \in Session BY Blank
<1>4. r \in Session BY <1>1, <1>2, <1>3 DEF Session
<1> QED BY <1>1, <1>4 DEF NoSession, Places

\* on_wait records in the slot of the handle, in one claimed for it, or not at all.
LEMMA WaitEffect ==
    ASSUME TypeOK, NEW h \in Handles, on_wait(h)
    PROVE  /\ waiter[h].pc = "record" /\ waiter' = [waiter EXCEPT ![h] = Idle]
           /\ UNCHANGED <<made, graphics, config, bindings, renderer, tail>>
           /\ \/ rt' = Missed(h) /\ table' = table
              \/ /\ rt' = rt
                 /\ \E i \in 1..Slots, s \in Session :
                     /\ \/ table[i].key = h /\ s = table[i]
                        \/ /\ table[i].key = NoHandle /\ s = ClaimedFor(i, h)
                           /\ \A j \in 1..Slots : table[j].key # h
                     /\ table' = [table EXCEPT ![i] = Waited(s, h)]
<1>1. PICK i, s : /\ i = find_or_claim(h)
                  /\ s = IF find(h) = 0 THEN ClaimedFor(i, h) ELSE table[i]
  OBVIOUS
<1>2. CASE i = 0
  BY <1>1, <1>2 DEF on_wait
<1>3. CASE i # 0
  <2>1. rt' = rt /\ table' = [table EXCEPT ![i] = Waited(s, h)]
    BY <1>1, <1>3 DEF on_wait, Waited
  <2>2. CASE find(h) = 0
    <3>1. i = SlotOf(table, NoHandle) BY <1>1, <2>2 DEF find_or_claim
    <3>2. i \in 1..Slots /\ table[i].key = NoHandle BY <1>3, <3>1, Probe
    <3>3. \A j \in 1..Slots : table[j].key # h BY <2>2, Probe DEF find
    <3>4. s \in Session BY <1>1, <2>2, Claimed
    <3> QED BY <1>1, <2>1, <2>2, <3>2, <3>3, <3>4 DEF on_wait
  <2>3. CASE find(h) # 0
    <3>1. i \in 1..Slots /\ table[i].key = h BY <1>1, <2>3, Probe DEF find_or_claim, find
    <3>2. s \in Session BY <1>1, <2>3, <3>1, Types
    <3> QED BY <1>1, <2>1, <2>3, <3>1, <3>2 DEF on_wait
  <2> QED BY <2>2, <2>3
<1> QED BY <1>2, <1>3

\* The slot after the frame still active was discarded.
LEMMA DiscardedSession ==
    ASSUME NEW s \in Session, NEW r, r = Discard(s)
    PROVE  /\ r \in Session /\ r.key = s.key /\ r.id = s.id /\ r.first = s.first
           /\ r.next = s.next /\ r.nextBegin = s.nextBegin /\ r.active = 0
           /\ \A k \in Places :
                r.frames[k] = IF Holds(s, s.active) /\ k = s.active % Frames
                              THEN [s.frames[k] EXCEPT !.discarded = TRUE] ELSE s.frames[k]
<1>1. PICK p \in Places : p = s.active % Frames BY SessionParts, Place
<1>2. s.frames \in [Places -> Frame] /\ s.frames[p] \in Frame BY SessionParts
<1>3. [s.frames[p] EXCEPT !.discarded = TRUE] \in Frame BY <1>2 DEF Frame
<1>4. PICK F \in [Places -> Frame] :
        F = IF Holds(s, s.active) THEN [s.frames EXCEPT ![p].discarded = TRUE] ELSE s.frames
  <2>1. [s.frames EXCEPT ![p].discarded = TRUE] \in [Places -> Frame] BY <1>2, <1>3
  <2> QED BY <1>2, <2>1
<1>5. r = [s EXCEPT !.active = 0, !.frames = F] BY <1>1, <1>4 DEF Discard
<1>6. /\ r \in Session /\ r.key = s.key /\ r.id = s.id /\ r.first = s.first
      /\ r.next = s.next /\ r.nextBegin = s.nextBegin /\ r.active = 0 /\ r.frames = F
  <2>1. PICK z \in Nat : z = 0 OBVIOUS
  <2>2. F \in [Places -> Frame] BY <1>4
  <2>3. r = [s EXCEPT !.active = z, !.frames = F] BY <1>5, <2>1
  <2>4. r \in Session BY <2>1, <2>2, <2>3 DEF Session, Places
  <2> QED BY <2>1, <2>3, <2>4 DEF Session
<1>7. \A k \in Places : F[k] = IF Holds(s, s.active) /\ k = p
                               THEN [s.frames[k] EXCEPT !.discarded = TRUE] ELSE s.frames[k]
  BY <1>2, <1>4
<1> QED BY <1>1, <1>6, <1>7

\* The slot after its next frame was begun.
LEMMA BegunSession ==
    ASSUME TypeOK, NEW h \in Handles, NEW s \in Session, NEW r, r = Begun(s, h)
    PROVE  /\ r \in Session /\ r.key = s.key /\ r.id = s.id /\ r.first = s.first
           /\ r.next = s.next /\ r.nextBegin = s.nextBegin + 1
           /\ r.active = IF Holds(s, s.nextBegin + 1) THEN s.nextBegin + 1 ELSE s.active
           /\ \A k \in Places :
                r.frames[k] = IF Holds(s, s.nextBegin + 1) /\ k = (s.nextBegin + 1) % Frames
                              THEN [s.frames[k] EXCEPT !.begin = renderer[h].k] ELSE s.frames[k]
<1>1. PICK q \in Nat : q = s.nextBegin + 1 BY SessionParts
<1>2. PICK p \in Places : p = q % Frames BY Place
<1>3. s.frames \in [Places -> Frame] /\ s.frames[p] \in Frame /\ s.active \in Nat
  BY SessionParts
<1>4. [s.frames[p] EXCEPT !.begin = renderer[h].k] \in Frame BY <1>3, Types DEF Frame
<1>5. PICK F \in [Places -> Frame] :
        F = IF Holds(s, q) THEN [s.frames EXCEPT ![p].begin = renderer[h].k] ELSE s.frames
  <2>1. [s.frames EXCEPT ![p].begin = renderer[h].k] \in [Places -> Frame] BY <1>3, <1>4
  <2> QED BY <1>3, <2>1
<1>6. PICK a \in Nat : a = IF Holds(s, q) THEN q ELSE s.active BY <1>1, <1>3
<1>7. r = [s EXCEPT !.nextBegin = q, !.active = a, !.frames = F]
  <2>1. NextBegin(s) = q BY <1>1 DEF NextBegin
  <2>2. CASE Holds(s, q)
    BY <1>2, <1>5, <1>6, <2>1, <2>2 DEF Begun, Session
  <2>3. CASE ~Holds(s, q)
    BY <1>5, <1>6, <2>1, <2>3 DEF Begun, Session
  <2> QED BY <2>2, <2>3
<1>8. /\ r \in Session /\ r.key = s.key /\ r.id = s.id /\ r.first = s.first
      /\ r.next = s.next /\ r.nextBegin = q /\ r.active = a /\ r.frames = F
  BY <1>1, <1>5, <1>6, <1>7 DEF Session, Places
<1>9. \A k \in Places : F[k] = IF Holds(s, q) /\ k = p
                               THEN [s.frames[k] EXCEPT !.begin = renderer[h].k] ELSE s.frames[k]
  BY <1>3, <1>5
<1> QED BY <1>1, <1>2, <1>6, <1>8, <1>9

\* The record on_end leaves in the slot that held s.
Ended(s, h) ==
    LET f == s.frames[s.active % Frames]
    IN  IF Holds(s, s.active)
        THEN [s EXCEPT !.active = 0,
                       !.frames[s.active % Frames] = [f EXCEPT !.end = renderer[h].k,
                                                               !.render = Correlate(f)]]
        ELSE [s EXCEPT !.active = 0]

\* The slot after its active frame was ended.
LEMMA EndedSession ==
    ASSUME TypeOK, NEW h \in Handles, NEW s \in Session, NEW r, r = Ended(s, h)
    PROVE  /\ r \in Session /\ r.key = s.key /\ r.id = s.id /\ r.first = s.first
           /\ r.next = s.next /\ r.nextBegin = s.nextBegin /\ r.active = 0
           /\ \A k \in Places :
                r.frames[k] = IF Holds(s, s.active) /\ k = s.active % Frames
                              THEN [s.frames[k] EXCEPT !.end = renderer[h].k,
                                                       !.render = Correlate(s.frames[k])]
                              ELSE s.frames[k]
<1>1. PICK p \in Places : p = s.active % Frames BY SessionParts, Place
<1>2. s.frames \in [Places -> Frame] /\ s.frames[p] \in Frame BY SessionParts
<1>3. Correlate(s.frames[p]) \in Canonical
  <2>1. s.frames[p].mark \in Nat /\ s.frames[p].render \in Canonical BY SessionParts
  <2>2. canon.epoch \in Nat /\ canon.seq \in Nat BY Types
  <2> QED BY <2>1, <2>2 DEF Correlate, Canonical
<1>4. PICK g \in Frame : g = [s.frames[p] EXCEPT !.end = renderer[h].k,
                                                 !.render = Correlate(s.frames[p])]
  BY <1>2, <1>3, Types DEF Frame
<1>5. PICK F \in [Places -> Frame] :
        F = IF Holds(s, s.active) THEN [s.frames EXCEPT ![p] = g] ELSE s.frames
  BY <1>2, <1>4
<1>6. r = [s EXCEPT !.active = 0, !.frames = F]
  BY <1>1, <1>4, <1>5 DEF Ended, Session
<1>7. /\ r \in Session /\ r.key = s.key /\ r.id = s.id /\ r.first = s.first
      /\ r.next = s.next /\ r.nextBegin = s.nextBegin /\ r.active = 0 /\ r.frames = F
  <2>1. PICK z \in Nat : z = 0 OBVIOUS
  <2>2. F \in [Places -> Frame] BY <1>5
  <2>3. r = [s EXCEPT !.active = z, !.frames = F] BY <1>6, <2>1
  <2>4. r \in Session BY <2>1, <2>2, <2>3 DEF Session, Places
  <2> QED BY <2>1, <2>3, <2>4 DEF Session
<1>8. \A k \in Places : F[k] = IF Holds(s, s.active) /\ k = p THEN g ELSE s.frames[k]
  BY <1>2, <1>5
<1> QED BY <1>1, <1>4, <1>7, <1>8

\* on_begin counts in the slot of the handle, or not at all.
LEMMA BeginEffect ==
    ASSUME TypeOK, NEW h \in Handles, on_begin(h)
    PROVE  /\ renderer[h].pc = "begin" /\ renderer' = [renderer EXCEPT ![h] = Idle]
           /\ UNCHANGED <<made, graphics, config, bindings, waiter, tail>>
           /\ \/ rt' = Missed(h) /\ table' = table
              \/ /\ rt' = rt
                 /\ \E i \in 1..Slots, s \in Session :
                     /\ table[i].key = h
                     /\ s = (IF renderer[h].discarded THEN Discard(table[i]) ELSE table[i])
                     /\ table' = [table EXCEPT ![i] = Begun(s, h)]
<1>1. PICK i : i = find(h) OBVIOUS
<1>2. CASE i = 0 BY <1>1, <1>2 DEF on_begin
<1>3. CASE i # 0
  <2>1. i \in 1..Slots /\ table[i].key = h BY <1>1, <1>3, Probe DEF find
  <2>2. table[i] \in Session BY <2>1, Types
  <2>3. PICK s \in Session : s = IF renderer[h].discarded THEN Discard(table[i]) ELSE table[i]
    BY <2>2, DiscardedSession
  <2> QED BY <1>1, <1>3, <2>1, <2>3 DEF on_begin
<1> QED BY <1>2, <1>3

\* on_end closes the active frame of the slot of the handle, or does nothing.
LEMMA EndEffect ==
    ASSUME TypeOK, NEW h \in Handles, on_end(h)
    PROVE  /\ renderer[h].pc = "end" /\ renderer' = [renderer EXCEPT ![h] = Idle]
           /\ UNCHANGED <<made, graphics, config, bindings, waiter, tail>>
           /\ \/ rt' = Missed(h) /\ table' = table
              \/ /\ rt' = rt
                 /\ \E i \in 1..Slots :
                     table[i].key = h /\ table' = [table EXCEPT ![i] = Ended(table[i], h)]
<1>1. PICK i : i = find(h) OBVIOUS
<1>2. CASE i = 0 BY <1>1, <1>2 DEF on_end
<1>3. CASE i # 0
  <2>1. i \in 1..Slots /\ table[i].key = h BY <1>1, <1>3, Probe DEF find
  <2>2. rt' = rt /\ table' = [table EXCEPT ![i] = Ended(table[i], h)]
    BY <1>1, <1>3 DEF on_end, Ended
  <2> QED BY <2>1, <2>2 DEF on_end
<1> QED BY <1>2, <1>3

\* The record on_destroy_session leaves in the slot that held s.
Forgotten(s) == [s EXCEPT !.key = NoHandle, !.active = 0, !.latest = 0]

\* It keeps the frames and the identity, but not the key.
LEMMA ForgottenSession ==
    ASSUME NEW s \in Session, NEW r, r = Forgotten(s)
    PROVE  /\ r \in Session /\ r.key = NoHandle /\ r.id = s.id /\ r.frames = s.frames
<1>1. NoHandle \in Keys BY DEF Keys
<1> QED BY <1>1 DEF Forgotten, Session

\* on_destroy_session forgets the slot of the handle, if there is one.
LEMMA DestroyEffect ==
    ASSUME TypeOK, on_destroy_session
    PROVE  /\ tail' = [pc |-> "idle", h |-> NoHandle]
           /\ UNCHANGED <<runtime, graphics, config, bindings, waiter, renderer>>
           /\ \/ table' = table
              \/ \E i \in 1..Slots : table' = [table EXCEPT ![i] = Forgotten(table[i])]
<1>1. PICK i : i = find(tail.h) OBVIOUS
<1>2. CASE i = 0 BY <1>1, <1>2 DEF on_destroy_session
<1>3. CASE i # 0
  <2>1. i \in 1..Slots BY <1>1, <1>3, Probe DEF find
  <2>2. table[i] \in Session /\ table \in [1..Slots -> Session] BY <2>1, Types DEF TypeOK
  <2>3. table' = [table EXCEPT ![i].key = NoHandle, ![i].active = 0, ![i].latest = 0]
    BY <1>1, <1>3 DEF on_destroy_session
  <2>4. table' = [table EXCEPT ![i] = Forgotten(table[i])]
    BY <2>1, <2>2, <2>3 DEF Forgotten
  <2> QED BY <2>1, <2>4 DEF on_destroy_session
<1> QED BY <1>2, <1>3

\* A step of the frame loop or of a destruction changes one slot at most.
LEMMA OneSlotTyped ==
    ASSUME TypeOK, NEW i \in 1..Slots, NEW r \in Session, table' = [table EXCEPT ![i] = r]
    PROVE  /\ table' \in [1..Slots -> Session] /\ table'[i] = r
           /\ \A j \in 1..Slots : j # i => table'[j] = table[j]
BY DEF TypeOK

\* A call without a record marks its session and changes nothing else.
LEMMA MissedTyped ==
    ASSUME TypeOK, NEW h \in Handles
    PROVE  /\ Missed(h) \in [Handles -> Live]
           /\ Missed(h)[h].id = rt[h].id /\ Missed(h)[h].waits = rt[h].waits
           /\ Missed(h)[h].begins = rt[h].begins /\ Missed(h)[h].open = rt[h].open
           /\ Missed(h)[h].missed = TRUE
           /\ \A g \in Handles : g # h => Missed(h)[g] = rt[g]
<1>1. rt \in [Handles -> Live] BY DEF TypeOK, Live
<1> QED BY <1>1 DEF Missed, Live

----------------------------------------------------------------------------
(* The clock bindings *)

Binding == [key : Keys, convert : Nat]

\* publish_clock_binding writes the one slot of the handle, or finds no room.
LEMMA PublishEffect ==
    ASSUME TypeOK, NEW h \in Handles, NEW c \in Nat, publish_clock_binding(h, c)
    PROVE  /\ bindings' \in [1..Slots -> Binding]
           /\ \/ bindings' = bindings /\ \A j \in 1..Slots : bindings[j].key # h
              \/ \E i \in 1..Slots :
                    /\ \A j \in 1..Slots : j # i => bindings'[j] = bindings[j]
                    /\ bindings'[i].key = h /\ bindings'[i].convert = c
                    /\ bindings[i].key = h \/ \A j \in 1..Slots : bindings[j].key # h
<1>0. bindings \in [1..Slots -> Binding] BY DEF TypeOK, Binding
<1>1. PICK i : i = IF SlotOf(bindings, h) # 0 THEN SlotOf(bindings, h)
                   ELSE SlotOf(bindings, NoHandle)
  OBVIOUS
<1>2. bindings' = IF i = 0 THEN bindings
                  ELSE [bindings EXCEPT ![i] = [key |-> h, convert |-> c]]
  BY <1>1 DEF publish_clock_binding
<1>3. i = 0 => \A j \in 1..Slots : bindings[j].key # h BY <1>1, Probe
<1>4. CASE i = 0 BY <1>0, <1>2, <1>3, <1>4
<1>5. CASE i # 0
  <2>1. i \in 1..Slots BY <1>1, <1>5, Probe
  <2>2. bindings[i].key = h \/ \A j \in 1..Slots : bindings[j].key # h BY <1>1, <1>5, Probe
  <2>3. PICK b \in Binding : b = [key |-> h, convert |-> c] BY DEF Binding, Keys
  <2>4. bindings' = [bindings EXCEPT ![i] = b] BY <1>2, <1>5, <2>3
  <2>5. /\ bindings' \in [1..Slots -> Binding] /\ bindings'[i] = b
        /\ \A j \in 1..Slots : j # i => bindings'[j] = bindings[j]
    BY <1>0, <2>1, <2>4
  <2>6. bindings'[i].key = h /\ bindings'[i].convert = c BY <2>3, <2>5
  <2> QED BY <2>1, <2>2, <2>5, <2>6
<1> QED BY <1>4, <1>5

\* clear_clock_binding empties one slot at most.
LEMMA ClearEffect ==
    ASSUME TypeOK, clear_clock_binding
    PROVE  /\ bindings' \in [1..Slots -> Binding]
           /\ tail' = [tail EXCEPT !.pc = "timeline"]
           /\ UNCHANGED <<runtime, graphics, config, table, waiter, renderer>>
           /\ \A j \in 1..Slots : bindings'[j] = bindings[j] \/ bindings'[j] = NoClock
<1>0. bindings \in [1..Slots -> Binding] BY DEF TypeOK, Binding
<1>1. PICK i : i = SlotOf(bindings, tail.h) OBVIOUS
<1>2. bindings' = IF i = 0 THEN bindings ELSE [bindings EXCEPT ![i] = NoClock]
  BY <1>1 DEF clear_clock_binding, find_clock_binding
<1>3. i # 0 => i \in 1..Slots BY <1>1, Probe
<1>4. NoClock \in Binding BY Blank DEF Binding
<1>5. bindings' \in [1..Slots -> Binding] BY <1>0, <1>2, <1>3, <1>4
<1>6. \A j \in 1..Slots : bindings'[j] = bindings[j] \/ bindings'[j] = NoClock
  BY <1>0, <1>2, <1>3
<1> QED BY <1>5, <1>6 DEF clear_clock_binding

\* xr_time_to_host_ns uses a converter bound to the handle, or none.
LEMMA Converter ==
    ASSUME TypeOK, NEW h \in Handles
    PROVE  /\ xr_time_to_host_ns(h) \in Nat
           /\ xr_time_to_host_ns(h) # 0 =>
                \E i \in 1..Slots : /\ bindings[i].key = h
                                    /\ bindings[i].convert = xr_time_to_host_ns(h)
<1>1. PICK i : i = SlotOf(bindings, h) OBVIOUS
<1>2. xr_time_to_host_ns(h) = IF i = 0 THEN 0 ELSE bindings[i].convert
  BY <1>1 DEF xr_time_to_host_ns, find_clock_binding
<1>3. i # 0 => i \in 1..Slots /\ bindings[i].key = h BY <1>1, Probe
<1>4. i # 0 => bindings[i].convert \in Nat BY <1>3, Types
<1> QED BY <1>2, <1>3, <1>4

----------------------------------------------------------------------------
(* Type correctness of the steps *)

\* The types hold at the start.
LEMMA InitType == Init => TypeOK
<1> SUFFICES ASSUME Init PROVE TypeOK OBVIOUS
<1>1. canon \in Canonical /\ opened \in Seq(Canonical)
  <2>1. canon \in Canonical BY DEF Init, Canonical
  <2> QED BY <2>1 DEF Init
<1>2. table \in [1..Slots -> Session] BY Blank DEF Init
<1>3. /\ waiter \in [Handles -> Caller] /\ renderer \in [Handles -> Caller]
      /\ rt \in [Handles -> Live] /\ bindings \in [1..Slots -> [key : Keys, convert : Nat]]
  BY Blank DEF Init
<1>4. made \in [sessions : Nat, waits : Nat] /\ tail \in [pc : {"idle", "clock", "timeline"}, h : Keys]
  BY DEF Init, Keys
<1> QED BY <1>1, <1>2, <1>3, <1>4 DEF Init, TypeOK, Live

\* A call that returned from the runtime, recorded or lost.
LEMMA CallTyped ==
    ASSUME TypeOK, NEW h \in Handles, NEW w \in Nat, NEW b \in Nat, NEW o \in BOOLEAN,
           rt' = [rt EXCEPT ![h].waits = w, ![h].begins = b, ![h].open = o,
                            ![h].missed = @ \/ ~Observed]
    PROVE  /\ rt' \in [Handles -> Live] /\ \A g \in Handles : g # h => rt'[g] = rt[g]
           /\ rt'[h].id = rt[h].id /\ rt'[h].waits = w /\ rt'[h].begins = b /\ rt'[h].open = o
           /\ ~rt'[h].missed => Observed /\ ~rt[h].missed
<1>1. rt \in [Handles -> Live] /\ rt[h] \in Live BY Types DEF TypeOK, Live
<1>2. PICK m \in BOOLEAN : m = (rt[h].missed \/ ~Observed)
  <2>1. (rt[h].missed \/ ~Observed) \in BOOLEAN BY Zenon
  <2> QED BY <2>1
<1>3. rt' = [rt EXCEPT ![h] = [@ EXCEPT !.waits = w, !.begins = b, !.open = o, !.missed = m]]
  BY <1>1, <1>2
<1>4. PICK r \in Live :
        r = [rt[h] EXCEPT !.waits = w, !.begins = b, !.open = o, !.missed = m]
  BY <1>1, <1>2 DEF Live
<1>5. rt' = [rt EXCEPT ![h] = r] BY <1>1, <1>3, <1>4
<1>6. rt' \in [Handles -> Live] /\ rt'[h] = r /\ \A g \in Handles : g # h => rt'[g] = rt[g]
  <2>1. PICK L : L = Live OBVIOUS
  <2>2. rt \in [Handles -> L] /\ r \in L BY <1>1, <1>4, <2>1
  <2>3. rt' \in [Handles -> L] BY <1>5, <2>2
  <2>4. rt'[h] = r /\ \A g \in Handles : g # h => rt'[g] = rt[g] BY <1>5, <2>2
  <2> QED BY <2>1, <2>3, <2>4, Zenon
<1>7. r.id = rt[h].id /\ r.waits = w /\ r.begins = b /\ r.open = o /\ r.missed = m
  BY <1>1, <1>4 DEF Live
<1> QED BY <1>2, <1>6, <1>7

\* xrWaitFrame returned.
LEMMA WaitReturnEffect ==
    ASSUME TypeOK, NEW h \in Handles, WaitReturn(h)
    PROVE  /\ rt[h].id # 0 /\ waiter[h].pc = "idle" /\ rt[h].waits = rt[h].begins
           /\ UNCHANGED <<graphics, config, bindings, table, renderer, tail>>
           /\ made' = [made EXCEPT !.waits = @ + 1]
           /\ rt' \in [Handles -> Live] /\ \A g \in Handles : g # h => rt'[g] = rt[g]
           /\ rt'[h].id = rt[h].id /\ rt'[h].waits = rt[h].waits + 1
           /\ rt'[h].begins = rt[h].begins /\ rt'[h].open = rt[h].open
           /\ ~rt'[h].missed => Observed /\ ~rt[h].missed
           /\ waiter' \in [Handles -> Caller] /\ \A g \in Handles : g # h => waiter'[g] = waiter[g]
           /\ \/ ~Observed /\ waiter'[h] = waiter[h]
              \/ /\ Observed /\ waiter'[h].pc = "record" /\ waiter'[h].k = rt[h].waits + 1
                 /\ waiter'[h].clock = xr_time_to_host_ns(h)
<1>1. /\ rt[h].id # 0 /\ waiter[h].pc = "idle" /\ rt[h].waits = rt[h].begins
      /\ UNCHANGED <<graphics, config, bindings, table, renderer, tail>>
      /\ made' = [made EXCEPT !.waits = @ + 1]
  BY DEF WaitReturn
<1>2. rt \in [Handles -> Live] /\ rt[h] \in Live BY Types DEF TypeOK, Live
<1>3. PICK w \in Nat, b \in Nat : w = rt[h].waits + 1 /\ b = rt[h].begins BY <1>2 DEF Live
<1>4. rt' = [rt EXCEPT ![h].waits = @ + 1, ![h].missed = @ \/ ~Observed] BY DEF WaitReturn
<1>5. /\ rt' \in [Handles -> Live] /\ \A g \in Handles : g # h => rt'[g] = rt[g]
      /\ rt'[h].id = rt[h].id /\ rt'[h].waits = w /\ rt'[h].begins = b
      /\ rt'[h].open = rt[h].open
      /\ ~rt'[h].missed => Observed /\ ~rt[h].missed
  <2>1. CASE rt[h].open = TRUE
    <3>1. rt' = [rt EXCEPT ![h].waits = w, ![h].begins = b, ![h].open = TRUE,
                           ![h].missed = @ \/ ~Observed]
      BY <1>2, <1>3, <1>4, <2>1 DEF Live
    <3> QED BY <2>1, <3>1, CallTyped
  <2>2. CASE rt[h].open = FALSE
    <3>1. rt' = [rt EXCEPT ![h].waits = w, ![h].begins = b, ![h].open = FALSE,
                           ![h].missed = @ \/ ~Observed]
      BY <1>2, <1>3, <1>4, <2>2 DEF Live
    <3>2. /\ rt' \in [Handles -> Live] /\ \A g \in Handles : g # h => rt'[g] = rt[g]
          /\ rt'[h].id = rt[h].id /\ rt'[h].waits = w /\ rt'[h].begins = b /\ rt'[h].open = FALSE
          /\ ~rt'[h].missed => Observed /\ ~rt[h].missed
      BY <3>1, CallTyped
    <3> QED BY <2>2, <3>2
  <2>3. rt[h].open \in BOOLEAN BY <1>2 DEF Live
  <2> QED BY <2>1, <2>2, <2>3
<1>6. waiter \in [Handles -> Caller] BY DEF TypeOK
<1>7. CASE Observed
  <2>1. PICK should \in BOOLEAN :
           waiter' = [waiter EXCEPT ![h] =
                    [Idle EXCEPT !.pc = "record", !.should = should, !.k = rt[h].waits + 1,
                                 !.clock = xr_time_to_host_ns(h)]]
    BY <1>7 DEF WaitReturn
  <2>2. xr_time_to_host_ns(h) \in Nat BY Converter
  <2>3. PICK c \in Caller : c = [Idle EXCEPT !.pc = "record", !.should = should,
                                             !.k = rt[h].waits + 1, !.clock = xr_time_to_host_ns(h)]
    BY <1>3, <2>2, Blank DEF Caller
  <2>4. c.pc = "record" /\ c.k = rt[h].waits + 1 /\ c.clock = xr_time_to_host_ns(h)
    BY <2>3 DEF Idle
  <2>5. /\ waiter' \in [Handles -> Caller] /\ \A g \in Handles : g # h => waiter'[g] = waiter[g]
        /\ waiter'[h] = c
    BY <1>6, <2>1, <2>3
  <2> QED BY <1>1, <1>3, <1>5, <1>7, <2>4, <2>5
<1>8. CASE ~Observed
  <2>1. waiter' = waiter BY <1>8 DEF WaitReturn
  <2> QED BY <1>1, <1>3, <1>5, <1>6, <1>8, <2>1
<1> QED BY <1>7, <1>8

\* xrBeginFrame returned.
LEMMA BeginReturnEffect ==
    ASSUME TypeOK, NEW h \in Handles, BeginReturn(h)
    PROVE  /\ rt[h].id # 0 /\ waiter[h].pc = "idle" /\ renderer[h].pc = "idle"
           /\ rt[h].begins < rt[h].waits
           /\ UNCHANGED <<made, graphics, config, bindings, table, waiter, tail>>
           /\ rt' \in [Handles -> Live] /\ \A g \in Handles : g # h => rt'[g] = rt[g]
           /\ rt'[h].id = rt[h].id /\ rt'[h].waits = rt[h].waits
           /\ rt'[h].begins = rt[h].begins + 1
           /\ ~rt'[h].missed => Observed /\ ~rt[h].missed
           /\ renderer' \in [Handles -> Caller]
           /\ \A g \in Handles : g # h => renderer'[g] = renderer[g]
           /\ \/ ~Observed /\ renderer'[h] = renderer[h]
              \/ /\ Observed /\ renderer'[h].pc = "begin" /\ renderer'[h].k = rt[h].begins + 1
                 /\ renderer'[h].clock = 0
<1>1. /\ rt[h].id # 0 /\ waiter[h].pc = "idle" /\ renderer[h].pc = "idle"
      /\ rt[h].begins < rt[h].waits
      /\ UNCHANGED <<made, graphics, config, bindings, table, waiter, tail>>
  BY DEF BeginReturn
<1>2. rt \in [Handles -> Live] /\ rt[h] \in Live BY Types DEF TypeOK, Live
<1>3. PICK w \in Nat, b \in Nat :
        w = rt[h].waits /\ b = rt[h].begins + 1
  BY <1>2 DEF Live
<1>4. rt' = [rt EXCEPT ![h].waits = w, ![h].begins = b, ![h].open = TRUE, ![h].missed = @ \/ ~Observed]
  <2>1. rt' = [rt EXCEPT ![h].begins = @ + 1, ![h].open = TRUE, ![h].missed = @ \/ ~Observed]
    BY DEF BeginReturn
  <2> QED BY <1>2, <1>3, <2>1 DEF Live
<1>5. /\ rt' \in [Handles -> Live] /\ \A g \in Handles : g # h => rt'[g] = rt[g]
      /\ rt'[h].id = rt[h].id /\ rt'[h].waits = w /\ rt'[h].begins = b
      /\ ~rt'[h].missed => Observed /\ ~rt[h].missed
  BY <1>4, CallTyped
<1>6. renderer \in [Handles -> Caller] BY DEF TypeOK
<1>7. CASE Observed
  <2>1. renderer' = [renderer EXCEPT ![h] = [Idle EXCEPT !.pc = "begin", !.k = rt[h].begins + 1,
                                                         !.discarded = rt[h].open]]
    BY <1>7 DEF BeginReturn
  <2>2. rt[h].open \in BOOLEAN BY <1>2 DEF Live
  <2>3. PICK c \in Caller : c = [Idle EXCEPT !.pc = "begin", !.k = rt[h].begins + 1,
                                             !.discarded = rt[h].open]
    BY <1>3, <2>2, Blank DEF Caller
  <2>4. c.pc = "begin" /\ c.k = rt[h].begins + 1 /\ c.clock = 0 BY <2>3 DEF Idle
  <2>5. /\ renderer' \in [Handles -> Caller] /\ renderer'[h] = c
        /\ \A g \in Handles : g # h => renderer'[g] = renderer[g]
    BY <1>6, <2>1, <2>3
  <2> QED BY <1>1, <1>3, <1>5, <1>7, <2>4, <2>5
<1>8. CASE ~Observed
  <2>1. renderer' = renderer BY <1>8 DEF BeginReturn
  <2> QED BY <1>1, <1>3, <1>5, <1>6, <1>8, <2>1
<1> QED BY <1>7, <1>8

\* xrEndFrame returned.
LEMMA EndReturnEffect ==
    ASSUME TypeOK, NEW h \in Handles, EndReturn(h)
    PROVE  /\ rt[h].id # 0 /\ renderer[h].pc = "idle" /\ rt[h].open
           /\ UNCHANGED <<made, graphics, config, bindings, table, waiter, tail>>
           /\ rt' \in [Handles -> Live] /\ \A g \in Handles : g # h => rt'[g] = rt[g]
           /\ rt'[h].id = rt[h].id /\ rt'[h].waits = rt[h].waits
           /\ rt'[h].begins = rt[h].begins /\ ~rt'[h].open
           /\ ~rt'[h].missed => Observed /\ ~rt[h].missed
           /\ renderer' \in [Handles -> Caller]
           /\ \A g \in Handles : g # h => renderer'[g] = renderer[g]
           /\ \/ ~Observed /\ renderer'[h] = renderer[h]
              \/ /\ Observed /\ renderer'[h].pc = "end" /\ renderer'[h].k = rt[h].begins
                 /\ renderer'[h].clock = xr_time_to_host_ns(h)
<1>1. /\ rt[h].id # 0 /\ renderer[h].pc = "idle" /\ rt[h].open
      /\ UNCHANGED <<made, graphics, config, bindings, table, waiter, tail>>
  BY DEF EndReturn
<1>2. rt \in [Handles -> Live] /\ rt[h] \in Live BY Types DEF TypeOK, Live
<1>3. PICK w \in Nat, b \in Nat :
        w = rt[h].waits /\ b = rt[h].begins
  BY <1>2 DEF Live
<1>4. rt' = [rt EXCEPT ![h].waits = w, ![h].begins = b, ![h].open = FALSE, ![h].missed = @ \/ ~Observed]
  <2>1. rt' = [rt EXCEPT ![h].open = FALSE, ![h].missed = @ \/ ~Observed] BY DEF EndReturn
  <2> QED BY <1>2, <1>3, <2>1 DEF Live
<1>5. /\ rt' \in [Handles -> Live] /\ \A g \in Handles : g # h => rt'[g] = rt[g]
      /\ rt'[h].id = rt[h].id /\ rt'[h].waits = w /\ rt'[h].begins = b /\ rt'[h].open = FALSE
      /\ ~rt'[h].missed => Observed /\ ~rt[h].missed
  BY <1>4, CallTyped
<1>6. renderer \in [Handles -> Caller] BY DEF TypeOK
<1>7. CASE Observed
  <2>1. renderer' = [renderer EXCEPT ![h] = [Idle EXCEPT !.pc = "end", !.k = rt[h].begins,
                                                         !.clock = xr_time_to_host_ns(h)]]
    BY <1>7 DEF EndReturn
  <2>2. xr_time_to_host_ns(h) \in Nat BY Converter
  <2>3. PICK c \in Caller : c = [Idle EXCEPT !.pc = "end", !.k = rt[h].begins,
                                             !.clock = xr_time_to_host_ns(h)]
    BY <1>3, <2>2, Blank DEF Caller
  <2>4. c.pc = "end" /\ c.k = rt[h].begins /\ c.clock = xr_time_to_host_ns(h)
    BY <2>3 DEF Idle
  <2>5. /\ renderer' \in [Handles -> Caller] /\ renderer'[h] = c
        /\ \A g \in Handles : g # h => renderer'[g] = renderer[g]
    BY <1>6, <2>1, <2>3
  <2> QED BY <1>1, <1>3, <1>5, <1>7, <2>4, <2>5
<1>8. CASE ~Observed
  <2>1. renderer' = renderer BY <1>8 DEF EndReturn
  <2> QED BY <1>1, <1>3, <1>5, <1>6, <1>8, <2>1
<1> QED BY <1>7, <1>8

\* A session was created: a fresh identity for a dead handle, and its clock
\* binding when the hooks are attached.
LEMMA CreateEffect ==
    ASSUME TypeOK, NEW h \in Handles, hkxrCreateSession(h)
    PROVE  /\ rt[h].id = 0
           /\ UNCHANGED <<graphics, config, table, waiter, renderer, tail>>
           /\ made' \in [sessions : Nat, waits : Nat] /\ made'.sessions = made.sessions + 1
           /\ rt' \in [Handles -> Live] /\ \A g \in Handles : g # h => rt'[g] = rt[g]
           /\ rt'[h].id = made.sessions + 1 /\ rt'[h].waits = 0 /\ rt'[h].begins = 0
           /\ ~rt'[h].open
           /\ \/ hooks # "on" /\ bindings' = bindings
              \/ hooks = "on" /\ \E c \in {0, made.sessions + 1} : publish_clock_binding(h, c)
<1>1. rt[h].id = 0 /\ UNCHANGED <<graphics, config, table, waiter, renderer, tail>>
  BY DEF hkxrCreateSession
<1>2. PICK n \in Nat : n = made.sessions + 1 BY Types
<1>3. made' \in [sessions : Nat, waits : Nat] /\ made'.sessions = n
  <2>1. made \in [sessions : Nat, waits : Nat] /\ made' = [made EXCEPT !.sessions = @ + 1]
    BY DEF hkxrCreateSession, TypeOK
  <2> QED BY <1>2, <2>1
<1>4. PICK r \in Live : r = [Dead EXCEPT !.id = n] BY <1>2, Blank DEF Live
<1>5. r.id = n /\ r.waits = 0 /\ r.begins = 0 /\ r.open = FALSE BY <1>4 DEF Dead
<1>6. rt \in [Handles -> Live] /\ rt' = [rt EXCEPT ![h] = r]
  BY <1>3, <1>4 DEF hkxrCreateSession, TypeOK, Live
<1>7. rt' \in [Handles -> Live] /\ rt'[h] = r /\ \A g \in Handles : g # h => rt'[g] = rt[g]
  BY <1>6
<1>8. \/ hooks # "on" /\ bindings' = bindings
      \/ hooks = "on" /\ \E c \in {0, n} : publish_clock_binding(h, c)
  BY <1>3 DEF hkxrCreateSession
<1> QED BY <1>1, <1>2, <1>3, <1>5, <1>7, <1>8

\* A session was destroyed while no call of it was under way.
LEMMA DestroyReturnEffect ==
    ASSUME TypeOK, NEW h \in Handles, DestroyReturn(h)
    PROVE  /\ waiter[h].pc = "idle" /\ renderer[h].pc = "idle"
           /\ UNCHANGED <<made, graphics, config, bindings, table, waiter, renderer>>
           /\ tail' \in [pc : {"idle", "clock", "timeline"}, h : Keys]
           /\ rt' \in [Handles -> Live] /\ \A g \in Handles : g # h => rt'[g] = rt[g]
           /\ rt'[h].id = 0 /\ rt'[h].waits = 0 /\ rt'[h].begins = 0 /\ ~rt'[h].open
<1>1. /\ waiter[h].pc = "idle" /\ renderer[h].pc = "idle"
      /\ UNCHANGED <<made, graphics, config, bindings, table, waiter, renderer>>
  BY DEF DestroyReturn
<1>2. tail' \in [pc : {"idle", "clock", "timeline"}, h : Keys]
  BY DEF DestroyReturn, TypeOK, Keys
<1>3. rt \in [Handles -> Live] /\ rt' = [rt EXCEPT ![h] = Dead] BY DEF DestroyReturn, TypeOK, Live
<1>4. rt' \in [Handles -> Live] /\ rt'[h] = Dead /\ \A g \in Handles : g # h => rt'[g] = rt[g]
  BY <1>3, Blank
<1> QED BY <1>1, <1>2, <1>4 DEF Dead

\* Steps that touch neither a session nor its calls.
Aside == initialize \/ shutdown \/ update_config \/ OpenCanonical \/ ResetCanonical

\* What they do to the canonical frames and to the bindings.
LEMMA AsideEffect ==
    ASSUME TypeOK, Aside
    PROVE  /\ UNCHANGED <<runtime, table, waiter, renderer, tail>>
           /\ hooks' \in {"off", "on", "gone"} /\ timeline' \in BOOLEAN /\ reloads' \in Nat
           /\ canon' \in Canonical /\ opened' \in Seq(Canonical)
           /\ \/ graphics' = graphics
              \/ /\ canon'.epoch = canon.epoch /\ canon'.seq = canon.seq + 1
                 /\ Len(opened') = Len(opened) + 1 /\ opened'[Len(opened) + 1] = canon'
                 /\ \A n \in 1..Len(opened) : opened'[n] = opened[n]
              \/ canon'.epoch = canon.epoch + 1 /\ canon'.seq = 0 /\ opened' = opened
           /\ \/ bindings' = bindings /\ (hooks' = hooks \/ (hooks = "off" /\ hooks' = "on"))
              \/ bindings' = [i \in 1..Slots |-> NoClock] /\ hooks' = "gone"
<1>1. CASE initialize BY <1>1 DEF initialize, TypeOK, graphics, runtime
<1>2. CASE shutdown BY <1>2 DEF shutdown, TypeOK, graphics, runtime
<1>3. CASE update_config BY <1>3 DEF update_config, TypeOK, graphics, runtime
<1>4. CASE OpenCanonical
  <2>1. canon \in Canonical /\ opened \in Seq(Canonical) /\ canon' = [canon EXCEPT !.seq = @ + 1]
        /\ opened' = Append(opened, canon')
    BY <1>4 DEF OpenCanonical, TypeOK
  <2>0. PICK q \in Nat : q = canon.seq + 1 BY Types
  <2>3. PICK c : c = canon' OBVIOUS
  <2>2. c \in Canonical /\ c.epoch = canon.epoch /\ c.seq = canon.seq + 1
    <3>1. c = [canon EXCEPT !.seq = q] BY <2>0, <2>1, <2>3
    <3> QED BY <2>0, <2>1, <3>1 DEF Canonical
  <2>4. opened' = Append(opened, c) BY <2>1, <2>3
  <2>5. /\ opened' \in Seq(Canonical) /\ Len(opened') = Len(opened) + 1
        /\ opened'[Len(opened) + 1] = c /\ \A n \in 1..Len(opened) : opened'[n] = opened[n]
    BY <2>1, <2>2, <2>4
  <2> QED BY <1>4, <2>2, <2>3, <2>5 DEF OpenCanonical, TypeOK, config
<1>5. CASE ResetCanonical
  <2>1. PICK e \in Nat, z \in Nat : e = canon.epoch + 1 /\ z = 0 BY Types
  <2>2. canon' = [epoch |-> e, seq |-> z] BY <1>5, <2>1 DEF ResetCanonical
  <2>3. canon' \in Canonical /\ canon'.epoch = canon.epoch + 1 /\ canon'.seq = 0
    BY <2>1, <2>2 DEF Canonical
  <2> QED BY <1>5, <2>3 DEF ResetCanonical, TypeOK, config
<1> QED BY <1>1, <1>2, <1>3, <1>4, <1>5 DEF Aside

\* The steps of one session.
Loop(h) ==
    \/ hkxrCreateSession(h) \/ DestroyReturn(h)
    \/ WaitReturn(h) \/ on_wait(h) \/ BeginReturn(h) \/ on_begin(h) \/ EndReturn(h) \/ on_end(h)

\* The types of the tables and of the callers after one step of the frame loop.
LEMMA LoopType ==
    ASSUME TypeOK, NEW h \in Handles, Loop(h)
    PROVE  TypeOK'
<1>0. /\ waiter \in [Handles -> Caller] /\ renderer \in [Handles -> Caller] /\ Idle \in Caller
      /\ rt \in [Handles -> Live] /\ table \in [1..Slots -> Session]
      /\ made \in [sessions : Nat, waits : Nat] /\ bindings \in [1..Slots -> Binding]
  BY Blank DEF TypeOK, Live, Binding
<1>1. CASE hkxrCreateSession(h)
  <2>1. bindings' \in [1..Slots -> Binding]
    <3>1. CASE bindings' = bindings BY <1>0, <3>1
    <3>2. CASE \E c \in {0, made.sessions + 1} : publish_clock_binding(h, c)
      BY <3>2, PublishEffect, Types
    <3> QED BY <1>1, <3>1, <3>2, CreateEffect
  <2> QED BY <1>1, <2>1, CreateEffect DEF TypeOK, Live, Binding, graphics, config
<1>2. CASE DestroyReturn(h)
  BY <1>2, DestroyReturnEffect DEF TypeOK, Live, graphics, config
<1>3. CASE WaitReturn(h)
  <2>1. made' \in [sessions : Nat, waits : Nat] BY <1>0, <1>3, WaitReturnEffect
  <2> QED BY <1>3, <2>1, WaitReturnEffect DEF TypeOK, Live, graphics, config
<1>4. CASE on_wait(h)
  <2>1. waiter' \in [Handles -> Caller] BY <1>0, <1>4, WaitEffect
  <2>2. rt' \in [Handles -> Live] /\ table' \in [1..Slots -> Session]
    <3>1. CASE rt' = Missed(h) /\ table' = table BY <1>0, <3>1, MissedTyped
    <3>2. CASE /\ rt' = rt
               /\ \E i \in 1..Slots, s \in Session : table' = [table EXCEPT ![i] = Waited(s, h)]
      <4>1. PICK i \in 1..Slots, s \in Session : table' = [table EXCEPT ![i] = Waited(s, h)]
        BY <3>2
      <4>2. PICK r \in Session : r = Waited(s, h) BY WaitedSession
      <4>3. table' = [table EXCEPT ![i] = r] BY <4>1, <4>2
      <4> QED BY <1>0, <3>2, <4>3
    <3>3. \/ rt' = Missed(h) /\ table' = table
          \/ /\ rt' = rt
             /\ \E i \in 1..Slots, s \in Session : table' = [table EXCEPT ![i] = Waited(s, h)]
      BY <1>4, WaitEffect
    <3> QED BY <3>1, <3>2, <3>3
  <2> QED BY <1>4, <2>1, <2>2, WaitEffect, SMTT(30) DEF TypeOK, Live, graphics, config
<1>5. CASE BeginReturn(h)
  BY <1>5, BeginReturnEffect DEF TypeOK, Live, graphics, config
<1>6. CASE on_begin(h)
  <2>1. renderer' \in [Handles -> Caller] BY <1>0, <1>6, BeginEffect
  <2>2. rt' \in [Handles -> Live] /\ table' \in [1..Slots -> Session]
    <3>1. CASE rt' = Missed(h) /\ table' = table BY <1>0, <3>1, MissedTyped
    <3>2. CASE /\ rt' = rt
               /\ \E i \in 1..Slots, s \in Session : table' = [table EXCEPT ![i] = Begun(s, h)]
      <4>1. PICK i \in 1..Slots, s \in Session : table' = [table EXCEPT ![i] = Begun(s, h)]
        BY <3>2
      <4>2. PICK r \in Session : r = Begun(s, h) BY BegunSession
      <4>3. table' = [table EXCEPT ![i] = r] BY <4>1, <4>2
      <4> QED BY <1>0, <3>2, <4>3
    <3>3. \/ rt' = Missed(h) /\ table' = table
          \/ /\ rt' = rt
             /\ \E i \in 1..Slots, s \in Session : table' = [table EXCEPT ![i] = Begun(s, h)]
      BY <1>6, BeginEffect
    <3> QED BY <3>1, <3>2, <3>3
  <2> QED BY <1>6, <2>1, <2>2, BeginEffect, SMTT(30) DEF TypeOK, Live, graphics, config
<1>7. CASE EndReturn(h)
  BY <1>7, EndReturnEffect DEF TypeOK, Live, graphics, config
<1>8. CASE on_end(h)
  <2>1. renderer' \in [Handles -> Caller] BY <1>0, <1>8, EndEffect
  <2>2. rt' \in [Handles -> Live] /\ table' \in [1..Slots -> Session]
    <3>1. CASE rt' = Missed(h) /\ table' = table BY <1>0, <3>1, MissedTyped
    <3>2. CASE rt' = rt /\ \E i \in 1..Slots : table' = [table EXCEPT ![i] = Ended(table[i], h)]
      <4>1. PICK i \in 1..Slots : table' = [table EXCEPT ![i] = Ended(table[i], h)] BY <3>2
      <4>2. table[i] \in Session BY Types
      <4>3. PICK r \in Session : r = Ended(table[i], h) BY <4>2, EndedSession
      <4>4. table' = [table EXCEPT ![i] = r] BY <4>1, <4>3
      <4> QED BY <1>0, <3>2, <4>4
    <3>3. \/ rt' = Missed(h) /\ table' = table
          \/ rt' = rt /\ \E i \in 1..Slots : table' = [table EXCEPT ![i] = Ended(table[i], h)]
      BY <1>8, EndEffect
    <3> QED BY <3>1, <3>2, <3>3
  <2> QED BY <1>8, <2>1, <2>2, EndEffect, SMTT(30) DEF TypeOK, Live, graphics, config
<1> QED BY <1>1, <1>2, <1>3, <1>4, <1>5, <1>6, <1>7, <1>8 DEF Loop

\* Every step keeps the types.
LEMMA StepType ==
    ASSUME TypeOK, [Next]_vars
    PROVE  TypeOK'
<1>1. CASE Aside
  <2>1. bindings' \in [1..Slots -> Binding] BY <1>1, AsideEffect, Blank DEF TypeOK, Binding
  <2> QED BY <1>1, <2>1, AsideEffect DEF TypeOK, Binding, runtime
<1>2. CASE clear_clock_binding
  <2>1. tail' \in [pc : {"idle", "clock", "timeline"}, h : Keys] BY <1>2, ClearEffect DEF TypeOK
  <2> QED BY <1>2, <2>1, ClearEffect DEF TypeOK, Binding, runtime, graphics, config
<1>3. CASE on_destroy_session
  <2>1. table' \in [1..Slots -> Session]
    BY <1>3, DestroyEffect, ForgottenSession, OneSlotTyped, Types DEF TypeOK
  <2>2. tail' \in [pc : {"idle", "clock", "timeline"}, h : Keys]
    BY <1>3, DestroyEffect DEF Keys
  <2> QED BY <1>3, <2>1, <2>2, DestroyEffect DEF TypeOK, runtime, graphics, config
<1>4. CASE \E h \in Handles : Loop(h) BY <1>4, LoopType
<1>5. CASE UNCHANGED vars
  BY <1>5 DEF vars, runtime, graphics, config, TypeOK
<1> QED BY <1>1, <1>2, <1>3, <1>4, <1>5 DEF Next, Aside, Loop

----------------------------------------------------------------------------
(* The order of a session's calls *)

\* A step of one session leaves the others' calls alone.
LEMMA Elsewhere ==
    ASSUME TypeOK, NEW h \in Handles, Loop(h), NEW g \in Handles, g # h
    PROVE  /\ rt'[g] = rt[g] /\ waiter'[g] = waiter[g] /\ renderer'[g] = renderer[g]
           /\ made'.sessions \in {made.sessions, made.sessions + 1}
<1>0. waiter \in [Handles -> Caller] /\ renderer \in [Handles -> Caller] BY DEF TypeOK
<1>1. CASE hkxrCreateSession(h) BY <1>1, CreateEffect
<1>2. CASE DestroyReturn(h) BY <1>2, DestroyReturnEffect
<1>3. CASE WaitReturn(h)
  <2>1. made'.sessions = made.sessions BY <1>3, WaitReturnEffect DEF TypeOK
  <2> QED BY <1>3, <2>1, WaitReturnEffect
<1>4. CASE on_wait(h)
  <2>1. waiter'[g] = waiter[g] BY <1>0, <1>4, WaitEffect
  <2>2. rt'[g] = rt[g] BY <1>4, WaitEffect, MissedTyped, ZenonT(40)
  <2> QED BY <1>4, <2>1, <2>2, WaitEffect
<1>5. CASE BeginReturn(h) BY <1>5, BeginReturnEffect
<1>6. CASE on_begin(h)
  <2>1. renderer'[g] = renderer[g] BY <1>0, <1>6, BeginEffect
  <2>2. rt'[g] = rt[g] BY <1>6, BeginEffect, MissedTyped, ZenonT(40)
  <2> QED BY <1>6, <2>1, <2>2, BeginEffect
<1>7. CASE EndReturn(h) BY <1>7, EndReturnEffect
<1>8. CASE on_end(h)
  <2>1. renderer'[g] = renderer[g] BY <1>0, <1>8, EndEffect
  <2>2. rt'[g] = rt[g] BY <1>8, EndEffect, MissedTyped, ZenonT(40)
  <2> QED BY <1>8, <2>1, <2>2, EndEffect
<1> QED BY <1>1, <1>2, <1>3, <1>4, <1>5, <1>6, <1>7, <1>8 DEF Loop

\* Every step keeps the order of the calls.
LEMMA OrderStep ==
    ASSUME TypeOK, TypeOK', CallsOrdered, [Next]_vars
    PROVE  CallsOrdered'
<1> SUFFICES ASSUME NEW g \in Handles PROVE CallOrdered(g)' BY DEF CallsOrdered
<1>0. CallOrdered(g) BY DEF CallsOrdered
<1>00. /\ rt[g].id \in Nat /\ rt[g].waits \in Nat /\ rt[g].begins \in Nat
       /\ made.sessions \in Nat /\ waiter[g].k \in Nat /\ renderer[g].k \in Nat
  BY Types
<1>1. ASSUME rt'[g] = rt[g], waiter'[g] = waiter[g], renderer'[g] = renderer[g],
             made'.sessions \in {made.sessions, made.sessions + 1}
      PROVE  CallOrdered(g)'
  BY <1>0, <1>00, <1>1 DEF CallOrdered
<1>2. CASE UNCHANGED <<runtime, waiter, renderer>> BY <1>1, <1>2 DEF runtime
<1>3. ASSUME NEW h \in Handles, Loop(h), g # h
      PROVE  CallOrdered(g)'
  BY <1>1, <1>3, Elsewhere
<1>4. CASE Loop(g)
  <2>0. waiter \in [Handles -> Caller] /\ renderer \in [Handles -> Caller] BY DEF TypeOK
  <2>00. Idle.pc = "idle" BY DEF Idle
  <2>1. CASE hkxrCreateSession(g)
    <3>1. /\ rt[g].id = 0 /\ waiter' = waiter /\ renderer' = renderer
          /\ made'.sessions = made.sessions + 1 /\ rt'[g].id = made.sessions + 1
          /\ rt'[g].waits = 0 /\ rt'[g].begins = 0 /\ ~rt'[g].open
      BY <2>1, CreateEffect
    <3> QED BY <1>0, <1>00, <3>1 DEF CallOrdered
  <2>2. CASE DestroyReturn(g)
    <3>1. /\ waiter' = waiter /\ renderer' = renderer /\ made' = made /\ waiter[g].pc = "idle"
          /\ renderer[g].pc = "idle" /\ rt'[g].id = 0
          /\ rt'[g].waits = 0 /\ rt'[g].begins = 0 /\ ~rt'[g].open
      BY <2>2, DestroyReturnEffect
    <3> QED BY <1>0, <1>00, <3>1 DEF CallOrdered
  <2>3. CASE WaitReturn(g)
    <3>1. made'.sessions = made.sessions BY <2>3, WaitReturnEffect DEF TypeOK
    <3>2. /\ rt[g].id # 0 /\ waiter[g].pc = "idle" /\ rt[g].waits = rt[g].begins
          /\ renderer' = renderer /\ rt'[g].id = rt[g].id /\ rt'[g].waits = rt[g].waits + 1
          /\ rt'[g].begins = rt[g].begins /\ rt'[g].open = rt[g].open
          /\ \/ waiter'[g] = waiter[g]
             \/ waiter'[g].pc = "record" /\ waiter'[g].k = rt[g].waits + 1
      BY <2>3, WaitReturnEffect
    <3> QED BY <1>0, <1>00, <3>1, <3>2 DEF CallOrdered
  <2>4. CASE on_wait(g)
    <3>1. waiter'[g] = Idle BY <2>0, <2>4, WaitEffect
    <3>2. renderer' = renderer /\ made' = made BY <2>4, WaitEffect
    <3>3. /\ rt'[g].id = rt[g].id /\ rt'[g].waits = rt[g].waits /\ rt'[g].begins = rt[g].begins
          /\ rt'[g].open = rt[g].open
      BY <2>4, WaitEffect, MissedTyped
    <3> QED BY <1>0, <2>00, <3>1, <3>2, <3>3 DEF CallOrdered
  <2>5. CASE BeginReturn(g)
    <3>1. /\ rt[g].id # 0 /\ waiter[g].pc = "idle" /\ renderer[g].pc = "idle"
          /\ rt[g].begins < rt[g].waits /\ made' = made /\ waiter' = waiter
          /\ rt'[g].id = rt[g].id /\ rt'[g].waits = rt[g].waits /\ rt'[g].begins = rt[g].begins + 1
          /\ \/ renderer'[g] = renderer[g]
             \/ renderer'[g].pc = "begin" /\ renderer'[g].k = rt[g].begins + 1
      BY <2>5, BeginReturnEffect
    <3> QED BY <1>0, <1>00, <3>1 DEF CallOrdered
  <2>6. CASE on_begin(g)
    <3>1. renderer'[g] = Idle BY <2>0, <2>6, BeginEffect
    <3>2. waiter' = waiter /\ made' = made BY <2>6, BeginEffect
    <3>3. /\ rt'[g].id = rt[g].id /\ rt'[g].waits = rt[g].waits /\ rt'[g].begins = rt[g].begins
          /\ rt'[g].open = rt[g].open
      BY <2>6, BeginEffect, MissedTyped
    <3> QED BY <1>0, <2>00, <3>1, <3>2, <3>3 DEF CallOrdered
  <2>7. CASE EndReturn(g)
    <3>1. /\ rt[g].id # 0 /\ renderer[g].pc = "idle" /\ rt[g].open /\ made' = made
          /\ waiter' = waiter /\ rt'[g].id = rt[g].id /\ rt'[g].waits = rt[g].waits
          /\ rt'[g].begins = rt[g].begins /\ ~rt'[g].open
          /\ \/ renderer'[g] = renderer[g]
             \/ renderer'[g].pc = "end" /\ renderer'[g].k = rt[g].begins
      BY <2>7, EndReturnEffect
    <3> QED BY <1>0, <1>00, <3>1 DEF CallOrdered
  <2>8. CASE on_end(g)
    <3>1. renderer'[g] = Idle BY <2>0, <2>8, EndEffect
    <3>2. waiter' = waiter /\ made' = made BY <2>8, EndEffect
    <3>3. /\ rt'[g].id = rt[g].id /\ rt'[g].waits = rt[g].waits /\ rt'[g].begins = rt[g].begins
          /\ rt'[g].open = rt[g].open
      BY <2>8, EndEffect, MissedTyped
    <3> QED BY <1>0, <2>00, <3>1, <3>2, <3>3 DEF CallOrdered
  <2> QED BY <1>4, <2>1, <2>2, <2>3, <2>4, <2>5, <2>6, <2>7, <2>8 DEF Loop
<1>5. CASE Aside BY <1>2, <1>5, AsideEffect
<1>6. CASE clear_clock_binding BY <1>2, <1>6, ClearEffect
<1>7. CASE on_destroy_session BY <1>2, <1>7, DestroyEffect
<1>8. CASE UNCHANGED vars BY <1>2, <1>8 DEF vars
<1> QED BY <1>3, <1>4, <1>5, <1>6, <1>7, <1>8 DEF Next, Aside, Loop

----------------------------------------------------------------------------
(* Clock bindings and the clocks in use *)

\* The bindings stay with their sessions when they only lose entries and the
\* live sessions stay the same.
LEMMA BindingsShrink ==
    ASSUME TypeOK, BindingsOwned,
           \A i \in 1..Slots : bindings'[i] = bindings[i] \/ bindings'[i] = NoClock,
           hooks' # "on" => hooks' = hooks \/ \A i \in 1..Slots : bindings'[i] = NoClock,
           \A h \in Handles : rt'[h].id \in {0, rt[h].id}
    PROVE  BindingsOwned'
<1>1. NoClock.key = NoHandle /\ NoHandle \notin Handles BY XrAssumptions DEF NoClock
<1>2. OneSlotPerKey(bindings)' BY <1>1 DEF BindingsOwned, OneSlotPerKey
<1>3. (hooks # "on" => \A i \in 1..Slots : bindings[i].key = NoHandle)' BY <1>1 DEF BindingsOwned
<1>4. ASSUME NEW i \in 1..Slots, NEW h \in Handles, bindings'[i].key = h, rt'[h].id # 0
      PROVE  bindings'[i].convert \in {0, rt'[h].id}
  BY <1>1, <1>4 DEF BindingsOwned
<1> QED BY <1>2, <1>3, <1>4 DEF BindingsOwned

\* Every step keeps the bindings with their sessions.
LEMMA BindingsStep ==
    ASSUME TypeOK, TypeOK', CallsOrdered, BindingsOwned, [Next]_vars
    PROVE  BindingsOwned'
<1>1. CASE Aside
  <2>1. \A i \in 1..Slots : bindings'[i] = bindings[i] \/ bindings'[i] = NoClock
    BY <1>1, AsideEffect
  <2>2. hooks' # "on" => hooks' = hooks \/ \A i \in 1..Slots : bindings'[i] = NoClock
    BY <1>1, AsideEffect
  <2> QED BY <1>1, <2>1, <2>2, AsideEffect, BindingsShrink DEF runtime
<1>2. CASE clear_clock_binding BY <1>2, ClearEffect, BindingsShrink DEF runtime, config
<1>3. CASE on_destroy_session BY <1>3, DestroyEffect, BindingsShrink DEF runtime, config
<1>4. CASE UNCHANGED vars BY <1>4, BindingsShrink DEF vars, runtime, config
<1>5. ASSUME NEW h \in Handles, Loop(h) PROVE BindingsOwned'
  <2>0. \A g \in Handles : g # h => rt'[g] = rt[g] BY <1>5, Elsewhere
  <2>1. CASE hkxrCreateSession(h)
    <3>0. hooks' = hooks /\ rt'[h].id = made.sessions + 1 BY <2>1, CreateEffect DEF config
    <3>1. CASE bindings' = bindings /\ \A j \in 1..Slots : bindings[j].key # h
      BY <2>0, <3>0, <3>1 DEF BindingsOwned, OneSlotPerKey
    <3>2. CASE \E c \in {0, made.sessions + 1} : hooks = "on" /\ publish_clock_binding(h, c)
      <4>1. PICK c \in {0, made.sessions + 1} : hooks = "on" /\ publish_clock_binding(h, c)
        BY <3>2
      <4>2. c \in Nat BY Types
      <4>3. CASE bindings' = bindings /\ \A j \in 1..Slots : bindings[j].key # h BY <3>1, <4>3
      <4>4. CASE \E i \in 1..Slots :
                    /\ \A j \in 1..Slots : j # i => bindings'[j] = bindings[j]
                    /\ bindings'[i].key = h /\ bindings'[i].convert = c
                    /\ bindings[i].key = h \/ \A j \in 1..Slots : bindings[j].key # h
        <5>1. PICK i \in 1..Slots :
                    /\ \A j \in 1..Slots : j # i => bindings'[j] = bindings[j]
                    /\ bindings'[i].key = h /\ bindings'[i].convert = c
                    /\ bindings[i].key = h \/ \A j \in 1..Slots : bindings[j].key # h
          BY <4>4
        <5>2. h # NoHandle BY XrAssumptions
        <5>3. \A j \in 1..Slots : j # i => bindings[j].key # h
          BY <5>1, <5>2 DEF BindingsOwned, OneSlotPerKey
        <5>4. OneSlotPerKey(bindings)'
          BY <5>1, <5>3 DEF BindingsOwned, OneSlotPerKey
        <5>5. ASSUME NEW j \in 1..Slots, NEW g \in Handles, bindings'[j].key = g, rt'[g].id # 0
              PROVE  bindings'[j].convert \in {0, rt'[g].id}
          <6>1. CASE j = i BY <3>0, <4>1, <5>1, <5>5, <6>1
          <6>2. CASE j # i
            <7>1. g # h /\ bindings[j].key = g BY <5>1, <5>3, <5>5, <6>2
            <7> QED BY <2>0, <5>1, <5>5, <6>2, <7>1 DEF BindingsOwned
          <6> QED BY <6>1, <6>2
        <5> QED BY <3>0, <4>1, <5>4, <5>5 DEF BindingsOwned
      <4> QED BY <4>1, <4>2, <4>3, <4>4, PublishEffect
    <3>3. CASE hooks # "on" /\ bindings' = bindings
      <4>1. \A j \in 1..Slots : bindings[j].key # h BY <3>3, XrAssumptions DEF BindingsOwned
      <4> QED BY <3>1, <3>3, <4>1
    <3> QED BY <2>1, <3>2, <3>3, CreateEffect
  <2>2. CASE ~hkxrCreateSession(h)
    <3>1. rt'[h].id \in {0, rt[h].id}
      BY <1>5, <2>2, DestroyReturnEffect, WaitReturnEffect, WaitEffect, BeginReturnEffect,
         BeginEffect, EndReturnEffect, EndEffect, MissedTyped, ZenonT(40) DEF Loop
    <3>2. bindings' = bindings /\ hooks' = hooks
      BY <1>5, <2>2, DestroyReturnEffect, WaitReturnEffect, WaitEffect, BeginReturnEffect,
         BeginEffect, EndReturnEffect, EndEffect DEF Loop, config
    <3> QED BY <2>0, <3>1, <3>2, BindingsShrink
  <2> QED BY <2>1, <2>2
<1> QED BY <1>1, <1>2, <1>3, <1>4, <1>5 DEF Next, Aside, Loop

\* A converter that is bound belongs to the live session of its handle.
LEMMA ConverterOwned ==
    ASSUME TypeOK, BindingsOwned, NEW h \in Handles, rt[h].id # 0
    PROVE  xr_time_to_host_ns(h) \in {0, rt[h].id}
BY Converter DEF BindingsOwned

\* Every step keeps the clocks in use with their sessions.
LEMMA ClockStep ==
    ASSUME TypeOK, TypeOK', CallsOrdered, ClocksBound, [Next]_vars, NEW g \in Handles
    PROVE  ClockOwned(g)'
<1>0. ClockOwned(g) /\ CallOrdered(g) /\ BindingsOwned BY DEF ClocksBound, CallsOrdered
<1>1. ASSUME rt'[g].id = rt[g].id, waiter'[g] = waiter[g], renderer'[g] = renderer[g]
      PROVE  ClockOwned(g)'
  BY <1>0, <1>1 DEF ClockOwned
<1>2. CASE UNCHANGED <<runtime, waiter, renderer>> BY <1>1, <1>2 DEF runtime
<1>3. ASSUME NEW h \in Handles, Loop(h), g # h PROVE ClockOwned(g)' BY <1>1, <1>3, Elsewhere
<1>4. CASE Loop(g)
  <2>0. waiter \in [Handles -> Caller] /\ renderer \in [Handles -> Caller] BY DEF TypeOK
  <2>00. Idle.pc = "idle" /\ Idle.clock = 0 BY DEF Idle
  <2>1. CASE hkxrCreateSession(g)
    <3>1. rt[g].id = 0 /\ waiter' = waiter /\ renderer' = renderer BY <2>1, CreateEffect
    <3>2. waiter[g].clock = 0 /\ renderer[g].clock = 0 BY <1>0, <3>1 DEF CallOrdered, ClockOwned
    <3> QED BY <3>1, <3>2 DEF ClockOwned
  <2>2. CASE DestroyReturn(g)
    <3>1. /\ waiter' = waiter /\ renderer' = renderer
          /\ waiter[g].pc = "idle" /\ renderer[g].pc = "idle"
      BY <2>2, DestroyReturnEffect
    <3> QED BY <1>0, <3>1 DEF ClockOwned
  <2>3. CASE WaitReturn(g)
    <3>1. /\ rt[g].id # 0 /\ renderer' = renderer /\ rt'[g].id = rt[g].id
          /\ \/ waiter'[g] = waiter[g]
             \/ waiter'[g].pc = "record" /\ waiter'[g].clock = xr_time_to_host_ns(g)
      BY <2>3, WaitReturnEffect
    <3> QED BY <1>0, <3>1, ConverterOwned DEF ClockOwned
  <2>4. CASE on_wait(g)
    <3>1. waiter'[g] = Idle BY <2>0, <2>4, WaitEffect
    <3>2. renderer' = renderer /\ rt'[g].id = rt[g].id BY <2>4, WaitEffect, MissedTyped
    <3> QED BY <1>0, <2>00, <3>1, <3>2 DEF ClockOwned
  <2>5. CASE BeginReturn(g)
    <3>1. /\ waiter' = waiter /\ rt'[g].id = rt[g].id
          /\ \/ renderer'[g] = renderer[g]
             \/ renderer'[g].pc = "begin" /\ renderer'[g].clock = 0
      BY <2>5, BeginReturnEffect
    <3> QED BY <1>0, <3>1 DEF ClockOwned
  <2>6. CASE on_begin(g)
    <3>1. renderer'[g] = Idle BY <2>0, <2>6, BeginEffect
    <3>2. waiter' = waiter /\ rt'[g].id = rt[g].id BY <2>6, BeginEffect, MissedTyped
    <3> QED BY <1>0, <2>00, <3>1, <3>2 DEF ClockOwned
  <2>7. CASE EndReturn(g)
    <3>1. /\ rt[g].id # 0 /\ waiter' = waiter /\ rt'[g].id = rt[g].id
          /\ \/ renderer'[g] = renderer[g]
             \/ renderer'[g].pc = "end" /\ renderer'[g].clock = xr_time_to_host_ns(g)
      BY <2>7, EndReturnEffect
    <3> QED BY <1>0, <3>1, ConverterOwned DEF ClockOwned
  <2>8. CASE on_end(g)
    <3>1. renderer'[g] = Idle BY <2>0, <2>8, EndEffect
    <3>2. waiter' = waiter /\ rt'[g].id = rt[g].id BY <2>8, EndEffect, MissedTyped
    <3> QED BY <1>0, <2>00, <3>1, <3>2 DEF ClockOwned
  <2> QED BY <1>4, <2>1, <2>2, <2>3, <2>4, <2>5, <2>6, <2>7, <2>8 DEF Loop
<1>5. CASE Aside BY <1>2, <1>5, AsideEffect
<1>6. CASE clear_clock_binding BY <1>2, <1>6, ClearEffect
<1>7. CASE on_destroy_session BY <1>2, <1>7, DestroyEffect
<1>8. CASE UNCHANGED vars BY <1>2, <1>8 DEF vars
<1> QED BY <1>3, <1>4, <1>5, <1>6, <1>7, <1>8 DEF Next, Aside, Loop

----------------------------------------------------------------------------
(* Watermarks and the graphics frames attached to XR frames *)

\* What is known of the entry f of an XR frame.
EntryKnown(f) == MarkKnown(f) /\ RendersAfterWait(f)

\* What the type of an entry says of its parts.
LEMMA FrameParts ==
    ASSUME NEW f \in Frame
    PROVE  /\ f.seq \in Nat /\ f.wait \in Nat /\ f.mark \in Nat /\ f.markEpoch \in Nat /\ f.pos \in Nat
           /\ f.begin \in Nat /\ f.end \in Nat /\ f.render \in Canonical
           /\ f.should \in BOOLEAN /\ f.discarded \in BOOLEAN
BY DEF Frame

\* Opening a graphics frame, or a new epoch, keeps what is known of an entry.
LEMMA GraphicsStep ==
    ASSUME TypeOK, Aside, CanonOpened, NEW f \in Frame, EntryKnown(f)
    PROVE  CanonOpened' /\ EntryKnown(f)'
<1>1. /\ canon.epoch \in Nat /\ canon.seq \in Nat /\ Len(opened) \in Nat
      /\ f.mark \in Nat /\ f.markEpoch \in Nat /\ f.pos \in Nat
  BY Types, FrameParts
<1>2. CASE graphics' = graphics
  BY <1>2 DEF graphics, CanonOpened, EntryKnown, MarkKnown, RendersAfterWait
<1>3. CASE /\ canon'.epoch = canon.epoch /\ canon'.seq = canon.seq + 1
           /\ Len(opened') = Len(opened) + 1 /\ opened'[Len(opened) + 1] = canon'
           /\ \A n \in 1..Len(opened) : opened'[n] = opened[n]
  <2>0. canon' = [epoch |-> canon.epoch, seq |-> canon.seq + 1]
    <3>1. canon' \in Canonical BY AsideEffect
    <3> QED BY <1>3, <3>1 DEF Canonical
  <2>1. CanonOpened' BY <1>1, <1>3 DEF CanonOpened
  <2>2. MarkKnown(f)'
    <3>1. f.pos <= Len(opened) /\ f.markEpoch <= canon.epoch /\ (f.mark # 0 => f.markEpoch # 0)
      BY DEF EntryKnown, MarkKnown
    <3>2. f.pos < Len(opened') BY <1>1, <1>3, <3>1
    <3>3. ASSUME f.mark # 0, f.markEpoch = canon.epoch
          PROVE  canon'.seq > f.mark /\ opened'[f.pos + 1] = [epoch |-> f.markEpoch, seq |-> f.mark + 1]
      <4>1. CASE canon.seq = f.mark
        <5>1. f.pos = Len(opened) BY <3>3, <4>1 DEF EntryKnown, MarkKnown
        <5>2. opened'[f.pos + 1] = canon' BY <1>3, <5>1
        <5> QED BY <1>1, <1>3, <2>0, <3>3, <4>1, <5>2
      <4>2. CASE canon.seq > f.mark
        <5>1. /\ f.pos < Len(opened)
              /\ opened[f.pos + 1] = [epoch |-> f.markEpoch, seq |-> f.mark + 1]
          BY <3>3, <4>2 DEF EntryKnown, MarkKnown
        <5>2. f.pos + 1 \in 1..Len(opened) BY <1>1, <5>1
        <5> QED BY <1>1, <1>3, <4>2, <5>1, <5>2
      <4>3. canon.seq >= f.mark BY <3>3 DEF EntryKnown, MarkKnown
      <4> QED BY <1>1, <4>1, <4>2, <4>3
    <3>4. canon'.seq \in Nat /\ Len(opened') \in Nat BY <1>1, <1>3
    <3>5. f.mark # 0 /\ f.markEpoch = canon'.epoch =>
            /\ canon'.seq > f.mark /\ ~(canon'.seq = f.mark) /\ canon'.seq >= f.mark
            /\ opened'[f.pos + 1] = [epoch |-> f.markEpoch, seq |-> f.mark + 1]
      BY <1>1, <1>3, <3>3, <3>4
    <3>6. f.pos <= Len(opened') /\ f.markEpoch <= canon'.epoch BY <1>1, <1>3, <3>1
    <3> QED BY <3>1, <3>2, <3>5, <3>6 DEF MarkKnown
  <2>3. RendersAfterWait(f)'
    <3> SUFFICES ASSUME f.render.seq # 0 PROVE RendersAfterWait(f)' BY DEF RendersAfterWait
    <3>1. PICK n \in (f.pos + 1)..Len(opened) : opened[n] = f.render
      BY DEF EntryKnown, RendersAfterWait
    <3>2. n \in 1..Len(opened) /\ n \in (f.pos + 1)..Len(opened') BY <1>1, <1>3, <3>1
    <3>3. opened'[n] = f.render BY <1>3, <3>1, <3>2
    <3>4. f.pos + 1 \in 1..Len(opened) BY <1>1, <3>1
    <3>5. f.mark # 0 => opened'[f.pos + 1] = f.render
      BY <1>3, <3>4 DEF EntryKnown, RendersAfterWait
    <3> QED BY <3>2, <3>3, <3>5 DEF EntryKnown, RendersAfterWait
  <2> QED BY <2>1, <2>2, <2>3 DEF EntryKnown
<1>4. CASE canon'.epoch = canon.epoch + 1 /\ canon'.seq = 0 /\ opened' = opened
  BY <1>1, <1>4 DEF CanonOpened, EntryKnown, MarkKnown, RendersAfterWait
<1> QED BY <1>2, <1>3, <1>4, AsideEffect

\* The entry of a fresh wait.
LEMMA WaitKnown ==
    ASSUME TypeOK, CanonOpened, NEW h \in Handles, NEW q \in Nat
    PROVE  EntryKnown(WaitFrame(h, q))
<1>1. PICK w : w = WaitFrame(h, q) OBVIOUS
<1>2. /\ w.mark = canon.seq /\ w.pos = Len(opened) /\ w.render.seq = 0
      /\ w.markEpoch = IF canon.seq = 0 THEN 0 ELSE canon.epoch
  BY <1>1 DEF WaitFrame, NoFrame
<1>3. canon.epoch \in Nat /\ canon.seq \in Nat /\ Len(opened) \in Nat BY Types
<1> QED BY <1>1, <1>2, <1>3 DEF EntryKnown, MarkKnown, RendersAfterWait, CanonOpened

\* The entry on_end closes.
LEMMA EndKnown ==
    ASSUME TypeOK, CanonOpened, NEW f \in Frame, EntryKnown(f), NEW n \in Nat
    PROVE  EntryKnown([f EXCEPT !.end = n, !.render = Correlate(f)])
<1>1. PICK g : g = [f EXCEPT !.end = n, !.render = Correlate(f)] OBVIOUS
<1>2. /\ g.mark = f.mark /\ g.markEpoch = f.markEpoch /\ g.pos = f.pos /\ g.should = f.should
      /\ g.render = Correlate(f)
  BY <1>1 DEF Frame
<1>3. MarkKnown(g) BY <1>2 DEF EntryKnown, MarkKnown
<1>4. /\ canon \in Canonical /\ canon.epoch \in Nat /\ canon.seq \in Nat /\ Len(opened) \in Nat
      /\ f.mark \in Nat /\ f.markEpoch \in Nat /\ f.pos \in Nat
  BY Types, FrameParts
<1>5. CASE ~Correlated(f)
  <2>1. g.render = f.render BY <1>2, <1>5 DEF Correlate
  <2> QED BY <1>1, <1>2, <1>3, <2>1 DEF EntryKnown, RendersAfterWait
<1>6. CASE Correlated(f) /\ f.mark # 0
  <2>1. f.should /\ canon.seq > f.mark /\ canon.epoch = f.markEpoch
    BY <1>6 DEF Correlated, EntryKnown, MarkKnown
  <2>2. f.pos < Len(opened) /\ opened[f.pos + 1] = [epoch |-> f.markEpoch, seq |-> f.mark + 1]
    BY <1>6, <2>1 DEF EntryKnown, MarkKnown
  <2>3. g.render = opened[f.pos + 1] BY <1>2, <1>6, <2>1, <2>2 DEF Correlate
  <2>4. f.pos + 1 \in (f.pos + 1)..Len(opened) BY <1>4, <2>2
  <2> QED BY <1>1, <1>2, <1>3, <2>1, <2>3, <2>4 DEF EntryKnown, RendersAfterWait
<1>7. CASE Correlated(f) /\ f.mark = 0
  <2>1. f.should /\ canon.seq > 0 BY <1>7 DEF Correlated
  <2>2. f.pos < Len(opened) /\ opened[Len(opened)] = canon
    BY <1>4, <1>7, <2>1 DEF EntryKnown, MarkKnown, CanonOpened
  <2>3. canon = [epoch |-> canon.epoch, seq |-> canon.seq] BY <1>4 DEF Canonical
  <2>4. g.render = canon BY <1>2, <1>7, <2>3 DEF Correlate
  <2>5. Len(opened) \in (f.pos + 1)..Len(opened) BY <1>4, <2>2
  <2> QED BY <1>1, <1>2, <1>3, <1>7, <2>1, <2>2, <2>4, <2>5 DEF EntryKnown, RendersAfterWait
<1> QED BY <1>1, <1>3, <1>5, <1>6, <1>7 DEF EntryKnown

\* The entries of a session record.
Known(s) == \A k \in Places : s.frames[k].seq # 0 => EntryKnown(s.frames[k])

\* The two properties of the table, slot by slot.
LEMMA KnownSlots ==
    MarksKnown /\ FirstFrameAfterWait <=> CanonOpened /\ \A i \in 1..Slots : Known(table[i])
BY DEF MarksKnown, FirstFrameAfterWait, Known, EntryKnown, Entries, Places

\* A change of one slot, with the graphics timeline at rest.
LEMMA KnownSlot ==
    ASSUME TypeOK, CanonOpened, \A j \in 1..Slots : Known(table[j]), graphics' = graphics,
           NEW i \in 1..Slots, NEW r \in Session, table' = [table EXCEPT ![i] = r], Known(r)
    PROVE  (CanonOpened /\ \A j \in 1..Slots : Known(table[j]))'
<1>1. table'[i] = r /\ \A j \in 1..Slots : j # i => table'[j] = table[j] BY OneSlotTyped
<1>2. opened' = opened /\ canon' = canon BY DEF graphics
<1>3. CanonOpened' BY <1>2 DEF CanonOpened
<1>4. ASSUME NEW s \in Session, Known(s) PROVE Known(s)'
  BY <1>2, <1>4 DEF Known, EntryKnown, MarkKnown, RendersAfterWait
<1>5. ASSUME NEW j \in 1..Slots PROVE Known(table[j])'
  <2>1. PICK s \in Session : s = table'[j] /\ Known(s)
    <3>1. table[j] \in Session BY Types
    <3> QED BY <1>1, <3>1
  <2>2. Known(s)' BY <1>4, <2>1
  <2> QED BY <2>1, <2>2
<1> QED BY <1>3, <1>5

\* No change of the table, with the graphics timeline at rest.
LEMMA KnownIdle ==
    ASSUME MarksKnown, FirstFrameAfterWait, UNCHANGED <<graphics, table>>
    PROVE  MarksKnown' /\ FirstFrameAfterWait'
BY ZenonT(40) DEF MarksKnown, FirstFrameAfterWait, graphics, CanonOpened, MarkKnown, RendersAfterWait, Entries

\* Every step keeps what is known of the entries.
LEMMA MarksStep ==
    ASSUME TypeOK, TypeOK', MarksKnown, FirstFrameAfterWait, [Next]_vars
    PROVE  MarksKnown' /\ FirstFrameAfterWait'
<1>0. CanonOpened /\ \A i \in 1..Slots : Known(table[i]) BY KnownSlots
<1>1. CASE UNCHANGED <<graphics, table>> BY <1>1, KnownIdle
<1>2. CASE Aside
  <2>1. table' = table BY <1>2, AsideEffect
  <2>2. CanonOpened'
    <3>1. CASE graphics' = graphics BY <1>0, <3>1 DEF graphics, CanonOpened
    <3>2. canon.seq \in Nat /\ canon.epoch \in Nat /\ Len(opened) \in Nat BY Types
    <3> QED BY <1>0, <1>2, <3>1, <3>2, AsideEffect DEF CanonOpened
  <2>3. ASSUME NEW i \in 1..Slots PROVE Known(table[i])'
    <3>1. ASSUME NEW k \in Places, table'[i].frames[k].seq # 0
          PROVE  EntryKnown(table[i].frames[k])'
      <4>1. PICK f \in Frame : f = table[i].frames[k] /\ f = table'[i].frames[k] /\ EntryKnown(f)
        BY <1>0, <2>1, <3>1, Types, SessionParts DEF Known
      <4>2. EntryKnown(f)' BY <1>0, <1>2, <4>1, GraphicsStep
      <4> QED BY <4>1, <4>2
    <3> QED BY <3>1 DEF Known
  <2>4. (CanonOpened /\ \A i \in 1..Slots : Known(table[i]))' BY <2>2, <2>3
  <2> QED BY <2>4 DEF MarksKnown, FirstFrameAfterWait, Known, EntryKnown, Entries, Places
<1>3. CASE \E i \in 1..Slots, r \in Session :
              graphics' = graphics /\ table' = [table EXCEPT ![i] = r] /\ Known(r)
  <2>1. (CanonOpened /\ \A i \in 1..Slots : Known(table[i]))' BY <1>0, <1>3, KnownSlot
  <2> QED BY <2>1 DEF MarksKnown, FirstFrameAfterWait, Known, EntryKnown, Entries, Places
<1>4. CASE on_destroy_session
  <2>1. CASE \E i \in 1..Slots : table' = [table EXCEPT ![i] = Forgotten(table[i])]
    <3>1. PICK i \in 1..Slots : table' = [table EXCEPT ![i] = Forgotten(table[i])] BY <2>1
    <3>2. table[i] \in Session BY Types
    <3>3. PICK r \in Session : r = Forgotten(table[i]) /\ r.frames = table[i].frames
      BY <3>2, ForgottenSession
    <3>4. Known(r) BY <1>0, <3>3 DEF Known
    <3> QED BY <1>3, <1>4, <3>1, <3>3, <3>4, DestroyEffect
  <2> QED BY <1>1, <1>4, <2>1, DestroyEffect
<1>5. ASSUME NEW h \in Handles, on_wait(h) PROVE MarksKnown' /\ FirstFrameAfterWait'
  <2>0. graphics' = graphics BY <1>5, WaitEffect
  <2>1. CASE table' = table BY <1>1, <2>0, <2>1
  <2>2. ASSUME NEW i \in 1..Slots, NEW s \in Session, Known(s),
               table' = [table EXCEPT ![i] = Waited(s, h)]
        PROVE  MarksKnown' /\ FirstFrameAfterWait'
    <3>1. PICK r : r = Waited(s, h) OBVIOUS
    <3>2. r \in Session /\ \A k \in Places : r.frames[k] = IF k = (s.next + 1) % Frames
                                              THEN WaitFrame(h, s.next + 1) ELSE s.frames[k]
      BY <3>1, WaitedSession
    <3>3. s.next + 1 \in Nat BY SessionParts
    <3>4. EntryKnown(WaitFrame(h, s.next + 1)) BY <1>0, <3>3, WaitKnown
    <3>5. Known(r) BY <2>2, <3>2, <3>4 DEF Known
    <3> QED BY <1>3, <2>0, <2>2, <3>1, <3>2, <3>5
  <2>3. ASSUME NEW i, NEW s \in Session, s = ClaimedFor(i, h) PROVE Known(s)
    <3>1. \A k \in Places : s.frames[k] = NoFrame BY <2>3, Claimed
    <3>2. NoFrame.seq = 0 BY DEF NoFrame
    <3> QED BY <3>1, <3>2 DEF Known
  <2> QED BY <1>0, <1>5, <2>1, <2>2, <2>3, WaitEffect
<1>6. ASSUME NEW h \in Handles, on_begin(h) PROVE MarksKnown' /\ FirstFrameAfterWait'
  <2>0. graphics' = graphics BY <1>6, BeginEffect
  <2>1. CASE table' = table BY <1>1, <2>0, <2>1
  <2>2. ASSUME NEW s \in Session, Known(s) PROVE Known(Discard(s))
    <3>1. PICK r : r = Discard(s) OBVIOUS
    <3>2. ASSUME NEW k \in Places, r.frames[k].seq # 0 PROVE EntryKnown(r.frames[k])
      <4>1. PICK f \in Frame : f = s.frames[k] BY SessionParts
      <4>2. r.frames[k] = f \/ r.frames[k] = [f EXCEPT !.discarded = TRUE]
        BY <3>1, <4>1, DiscardedSession
      <4>3. /\ r.frames[k].seq = f.seq /\ r.frames[k].mark = f.mark /\ r.frames[k].pos = f.pos
            /\ r.frames[k].markEpoch = f.markEpoch /\ r.frames[k].should = f.should
            /\ r.frames[k].render = f.render
        BY <4>2 DEF Frame
      <4>4. EntryKnown(f) BY <2>2, <3>2, <4>1, <4>3 DEF Known
      <4> QED BY <4>3, <4>4 DEF EntryKnown, MarkKnown, RendersAfterWait
    <3> QED BY <3>1, <3>2 DEF Known
  <2>3. ASSUME NEW i \in 1..Slots, NEW s \in Session, Known(s),
               table' = [table EXCEPT ![i] = Begun(s, h)]
        PROVE  MarksKnown' /\ FirstFrameAfterWait'
    <3>1. PICK r : r = Begun(s, h) OBVIOUS
    <3>2. r \in Session BY <3>1, BegunSession
    <3>3. ASSUME NEW k \in Places, r.frames[k].seq # 0 PROVE EntryKnown(r.frames[k])
      <4>1. PICK f \in Frame : f = s.frames[k] BY SessionParts
      <4>2. r.frames[k] = f \/ r.frames[k] = [f EXCEPT !.begin = renderer[h].k]
        BY <3>1, <4>1, BegunSession
      <4>3. /\ r.frames[k].seq = f.seq /\ r.frames[k].mark = f.mark /\ r.frames[k].pos = f.pos
            /\ r.frames[k].markEpoch = f.markEpoch /\ r.frames[k].should = f.should
            /\ r.frames[k].render = f.render
        BY <4>2 DEF Frame
      <4>4. EntryKnown(f) BY <2>3, <3>3, <4>1, <4>3 DEF Known
      <4> QED BY <4>3, <4>4 DEF EntryKnown, MarkKnown, RendersAfterWait
    <3>4. Known(r) BY <3>3 DEF Known
    <3> QED BY <1>3, <2>0, <2>3, <3>1, <3>2, <3>4
  <2> QED BY <1>0, <1>6, <2>1, <2>2, <2>3, BeginEffect, Types
<1>7. ASSUME NEW h \in Handles, on_end(h) PROVE MarksKnown' /\ FirstFrameAfterWait'
  <2>0. graphics' = graphics BY <1>7, EndEffect
  <2>1. CASE table' = table BY <1>1, <2>0, <2>1
  <2>2. ASSUME NEW i \in 1..Slots, table' = [table EXCEPT ![i] = Ended(table[i], h)]
        PROVE  MarksKnown' /\ FirstFrameAfterWait'
    <3>1. PICK s \in Session : s = table[i] /\ Known(s) BY <1>0, Types
    <3>2. PICK r : r = Ended(s, h) OBVIOUS
    <3>3. r \in Session BY <3>2, EndedSession
    <3>4. ASSUME NEW k \in Places, r.frames[k].seq # 0 PROVE EntryKnown(r.frames[k])
      <4>1. PICK f \in Frame : f = s.frames[k] BY SessionParts
      <4>2. \/ r.frames[k] = f
            \/ r.frames[k] = [f EXCEPT !.end = renderer[h].k, !.render = Correlate(f)]
        <5>1. \/ r.frames[k] = s.frames[k]
              \/ r.frames[k] = [s.frames[k] EXCEPT !.end = renderer[h].k,
                                                   !.render = Correlate(s.frames[k])]
          <6>1. r.frames[k] = IF Holds(s, s.active) /\ k = s.active % Frames
                              THEN [s.frames[k] EXCEPT !.end = renderer[h].k,
                                                       !.render = Correlate(s.frames[k])]
                              ELSE s.frames[k]
            BY <3>2, EndedSession
          <6> QED BY <6>1, Zenon
        <5> QED BY <4>1, <5>1, Zenon
      <4>3. r.frames[k].seq = f.seq BY <4>2 DEF Frame
      <4>4. EntryKnown(f) BY <3>1, <3>4, <4>1, <4>3 DEF Known
      <4>5. renderer[h].k \in Nat BY Types
      <4> QED BY <1>0, <4>2, <4>4, <4>5, EndKnown
    <3>5. Known(r) BY <3>4 DEF Known
    <3> QED BY <1>3, <2>0, <2>2, <3>1, <3>2, <3>3, <3>5
  <2> QED BY <1>7, <2>1, <2>2, EndEffect
<1>8. ASSUME NEW h \in Handles, Loop(h), ~on_wait(h), ~on_begin(h), ~on_end(h)
      PROVE  UNCHANGED <<graphics, table>>
  BY <1>8, CreateEffect, DestroyReturnEffect, WaitReturnEffect, BeginReturnEffect,
     EndReturnEffect DEF Loop
<1>9. CASE clear_clock_binding BY <1>1, <1>9, ClearEffect
<1>10. CASE UNCHANGED vars BY <1>1, <1>10 DEF vars
<1> QED BY <1>1, <1>2, <1>4, <1>5, <1>6, <1>7, <1>8, <1>9, <1>10 DEF Next, Aside, Loop

----------------------------------------------------------------------------
(* Counting calls *)

\* What a slot's new contents keep, the slot keeps.
LEMMA SlotKeptNext ==
    ASSUME NEW j, NEW s, s = table'[j], SlotKept(s)
    PROVE  SlotKept(table[j])'
<1>1. table'[j].active \in {0, table'[j].nextBegin} BY Zenon DEF SlotKept
<1>2. \A q \in 1..table'[j].next : q + 1 >= table'[j].next => table'[j].frames[q % Frames].seq = q
  BY Zenon DEF SlotKept
<1>3. ASSUME NEW k \in 0..(Frames - 1), table'[j].frames[k].seq # 0
      PROVE  EntryCounted(table[j], k, table[j].frames[k])'
  <2>1. EntryCounted(s, k, s.frames[k]) BY <1>3, Zenon DEF SlotKept
  <2> QED BY <2>1, Zenon DEF EntryCounted
<1> QED BY <1>1, <1>2, <1>3, Zenon DEF SlotKept

\* The slot and the loop of a session that did not move count as before.
LEMMA CountsKept ==
    ASSUME NEW j, NEW g, table'[j] = table[j], rt'[g] = rt[g], waiter'[g] = waiter[g],
           renderer'[g] = renderer[g], SlotCounts(table[j], g)
    PROVE  SlotCounts(table[j], g)'
<1>1. SlotKept(table[j])'
  <2>1. PICK s : s = table[j] /\ s = table'[j] OBVIOUS
  <2>2. SlotKept(s) BY <2>1, Zenon DEF SlotCounts
  <2> QED BY <2>1, <2>2, SlotKeptNext
<1>2. table'[j].next + (IF waiter'[g].pc = "record" THEN 1 ELSE 0) = rt'[g].waits
  BY Zenon DEF SlotCounts
<1>3. table'[j].nextBegin + (IF renderer'[g].pc = "begin" THEN 1 ELSE 0) = rt'[g].begins
  BY Zenon DEF SlotCounts
<1> QED BY <1>1, <1>2, <1>3, Zenon DEF SlotCounts

\* A step of session h that leaves the table alone.
LEMMA CountCall ==
    ASSUME TypeOK, CallsCounted, NEW h \in Handles, table' = table,
           made'.sessions \in {made.sessions, made.sessions + 1},
           \A g \in Handles :
              g # h => rt'[g] = rt[g] /\ waiter'[g] = waiter[g] /\ renderer'[g] = renderer[g],
           \A i \in 1..Slots : WholeFor(table[i], h)' => SlotCounts(table[i], h)'
    PROVE  CallsCounted'
<1>1. OneSlotPerKey(table)' BY DEF CallsCounted, OneSlotPerKey
<1>2. \A i \in 1..Slots : table'[i].id <= made'.sessions
  BY Types, SessionParts DEF CallsCounted
<1>3. ASSUME NEW i \in 1..Slots, NEW g \in Handles, WholeFor(table[i], g)'
      PROVE  SlotCounts(table[i], g)'
  <2>1. CASE g = h BY <1>3, <2>1
  <2>2. CASE g # h
    <3>1. WholeFor(table[i], g) BY <1>3, <2>2 DEF WholeFor
    <3>2. SlotCounts(table[i], g) BY <3>1 DEF CallsCounted
    <3>3. table'[i] = table[i] OBVIOUS
    <3> QED BY <2>2, <3>2, <3>3, CountsKept
  <2> QED BY <2>1, <2>2
<1> QED BY <1>1, <1>2, <1>3 DEF CallsCounted

\* A step of session h that changes its slot, or one it claims.
LEMMA CountSlot ==
    ASSUME TypeOK, CallsCounted, NEW h \in Handles, made' = made,
           NEW i \in 1..Slots, NEW r \in Session, table' = [table EXCEPT ![i] = r],
           r.key = h, r.id <= made.sessions,
           table[i].key = h \/ \A j \in 1..Slots : table[j].key # h,
           \A g \in Handles :
              g # h => rt'[g] = rt[g] /\ waiter'[g] = waiter[g] /\ renderer'[g] = renderer[g],
           WholeFor(r, h)' => SlotCounts(r, h)'
    PROVE  CallsCounted'
<1>0. table'[i] = r /\ \A j \in 1..Slots : j # i => table'[j] = table[j] BY OneSlotTyped
<1>1. \A j \in 1..Slots : j # i => table[j].key # h
  BY XrAssumptions DEF CallsCounted, OneSlotPerKey
<1>2. OneSlotPerKey(table)' BY <1>0, <1>1 DEF CallsCounted, OneSlotPerKey
<1>3. \A j \in 1..Slots : table'[j].id <= made'.sessions BY <1>0 DEF CallsCounted
<1>4. ASSUME NEW j \in 1..Slots, NEW g \in Handles, WholeFor(table[j], g)'
      PROVE  SlotCounts(table[j], g)'
  <2>1. CASE j = i
    <3>1. g = h BY <1>0, <1>4, <2>1 DEF WholeFor
    <3>2. WholeFor(r, h)' BY <1>0, <1>4, <2>1, <3>1, Zenon DEF WholeFor
    <3>3. SlotCounts(r, h)' BY <3>2
    <3>4. table'[j] = r BY <1>0, <2>1
    <3>5. SlotKept(r) BY <3>3, Zenon DEF SlotCounts, SlotKept, EntryCounted
    <3>6. SlotKept(table[j])' BY <3>4, <3>5, SlotKeptNext
    <3> QED BY <3>1, <3>3, <3>4, <3>6, Zenon DEF SlotCounts
  <2>2. CASE j # i
    <3>1. table'[j] = table[j] /\ g # h BY <1>0, <1>1, <1>4, <2>2 DEF WholeFor
    <3>2. WholeFor(table[j], g) BY <1>4, <3>1 DEF WholeFor
    <3>3. SlotCounts(table[j], g) BY <3>2 DEF CallsCounted
    <3> QED BY <3>1, <3>3, CountsKept
  <2> QED BY <2>1, <2>2
<1> QED BY <1>2, <1>3, <1>4 DEF CallsCounted

\* A call that returned and is to be recorded, and one that left no record.
LEMMA CountReturn ==
    ASSUME TypeOK, TypeOK', CallsOrdered, CallsCounted, NEW h \in Handles,
           \/ hkxrCreateSession(h) \/ DestroyReturn(h) \/ WaitReturn(h) \/ BeginReturn(h)
           \/ EndReturn(h)
    PROVE  CallsCounted'
<1>0. /\ \A g \in Handles :
            g # h => rt'[g] = rt[g] /\ waiter'[g] = waiter[g] /\ renderer'[g] = renderer[g]
      /\ table' = table
  BY Elsewhere, CreateEffect, DestroyReturnEffect, WaitReturnEffect, BeginReturnEffect,
     EndReturnEffect DEF Loop
<1>1. CallOrdered(h) BY DEF CallsOrdered
<1>2. rt[h].waits \in Nat /\ rt[h].begins \in Nat /\ rt[h].id \in Nat /\ made.sessions \in Nat BY Types
<1>3. ASSUME NEW i \in 1..Slots
      PROVE  table[i].next \in Nat /\ table[i].nextBegin \in Nat /\ table[i].id \in Nat
  BY Types, SessionParts
<1>4. CASE hkxrCreateSession(h)
  <2>1. rt'[h].id = made.sessions + 1 /\ made'.sessions = made.sessions + 1 BY <1>4, CreateEffect
  <2>2. \A i \in 1..Slots : ~WholeFor(table[i], h)'
    BY <1>0, <1>2, <1>3, <2>1 DEF WholeFor, CallsCounted
  <2> QED BY <1>0, <2>1, <2>2, CountCall
<1>5. CASE DestroyReturn(h)
  <2>1. rt'[h].id = 0 /\ made' = made BY <1>5, DestroyReturnEffect
  <2>2. \A i \in 1..Slots : ~WholeFor(table[i], h)' BY <1>0, <2>1 DEF WholeFor
  <2> QED BY <1>0, <2>1, <2>2, CountCall
<1>6. CASE WaitReturn(h)
  <2>1. made'.sessions = made.sessions BY <1>6, WaitReturnEffect DEF TypeOK
  <2>2. ASSUME NEW i \in 1..Slots, WholeFor(table[i], h)' PROVE SlotCounts(table[i], h)'
    <3>1. /\ rt'[h].id = rt[h].id /\ ~rt'[h].missed /\ ~rt[h].missed /\ Observed
      BY <2>2, <1>6, WaitReturnEffect DEF WholeFor
    <3>2. WholeFor(table[i], h) BY <1>0, <2>2, <3>1 DEF WholeFor
    <3>3. SlotCounts(table[i], h) BY <3>2 DEF CallsCounted
    <3>4. /\ waiter[h].pc = "idle" /\ waiter'[h].pc = "record" /\ renderer' = renderer
          /\ rt'[h].waits = rt[h].waits + 1 /\ rt'[h].begins = rt[h].begins
      BY <1>6, <3>1, WaitReturnEffect
    <3>5. /\ table[i].next = rt[h].waits /\ SlotKept(table[i])
          /\ table[i].nextBegin + (IF renderer[h].pc = "begin" THEN 1 ELSE 0) = rt[h].begins
      BY <1>2, <1>3, <3>3, <3>4 DEF SlotCounts
    <3>6. SlotKept(table[i])' BY <1>0, <3>5
    <3> QED BY <1>0, <1>2, <1>3, <3>4, <3>5, <3>6 DEF SlotCounts
  <2> QED BY <1>0, <2>1, <2>2, CountCall
<1>7. CASE BeginReturn(h)
  <2>1. made' = made BY <1>7, BeginReturnEffect
  <2>2. ASSUME NEW i \in 1..Slots, WholeFor(table[i], h)' PROVE SlotCounts(table[i], h)'
    <3>1. /\ rt'[h].id = rt[h].id /\ ~rt'[h].missed /\ ~rt[h].missed /\ Observed
      BY <2>2, <1>7, BeginReturnEffect DEF WholeFor
    <3>2. WholeFor(table[i], h) BY <1>0, <2>2, <3>1 DEF WholeFor
    <3>3. SlotCounts(table[i], h) BY <3>2 DEF CallsCounted
    <3>4. /\ renderer[h].pc = "idle" /\ renderer'[h].pc = "begin" /\ waiter' = waiter
          /\ rt'[h].waits = rt[h].waits /\ rt'[h].begins = rt[h].begins + 1
      BY <1>7, <3>1, BeginReturnEffect
    <3>5. /\ table[i].nextBegin = rt[h].begins /\ SlotKept(table[i])
          /\ table[i].next + (IF waiter[h].pc = "record" THEN 1 ELSE 0) = rt[h].waits
      BY <1>2, <1>3, <3>3, <3>4 DEF SlotCounts
    <3>6. SlotKept(table[i])' BY <1>0, <3>5
    <3> QED BY <1>0, <1>2, <1>3, <3>4, <3>5, <3>6 DEF SlotCounts
  <2> QED BY <1>0, <2>1, <2>2, CountCall
<1>8. CASE EndReturn(h)
  <2>1. made' = made BY <1>8, EndReturnEffect
  <2>2. ASSUME NEW i \in 1..Slots, WholeFor(table[i], h)' PROVE SlotCounts(table[i], h)'
    <3>1. /\ rt'[h].id = rt[h].id /\ ~rt'[h].missed /\ ~rt[h].missed /\ Observed
      BY <2>2, <1>8, EndReturnEffect DEF WholeFor
    <3>2. WholeFor(table[i], h) BY <1>0, <2>2, <3>1 DEF WholeFor
    <3>3. SlotCounts(table[i], h) BY <3>2 DEF CallsCounted
    <3>4. /\ renderer[h].pc = "idle" /\ renderer'[h].pc = "end" /\ waiter' = waiter
          /\ rt'[h].waits = rt[h].waits /\ rt'[h].begins = rt[h].begins
      BY <1>8, <3>1, EndReturnEffect
    <3> QED BY <1>0, <3>3, <3>4 DEF SlotCounts, SlotKept, EntryCounted
  <2> QED BY <1>0, <2>1, <2>2, CountCall
<1> QED BY <1>4, <1>5, <1>6, <1>7, <1>8

\* Neighbouring sequence numbers have different places in the ring.
LEMMA Apart == \A n \in Nat : n % Frames # (n + 1) % Frames
<1> SUFFICES ASSUME NEW n \in Nat, n % Frames = (n + 1) % Frames PROVE FALSE OBVIOUS
<1>1. PICK a \in Nat, b \in Nat, c \in Nat : n = Frames * a + c /\ n + 1 = Frames * b + c
  <2>1. \A m \in Nat : /\ m \div Frames \in Nat /\ m % Frames \in Nat
                       /\ m = (Frames * (m \div Frames)) + (m % Frames)
    BY XrAssumptions
  <2> QED BY <2>1
<1>2. Frames * b = Frames * a + 1 /\ Frames \in Nat /\ Frames >= 3 BY <1>1, XrAssumptions
<1>3. CASE b <= a
  <2>1. Frames * b <= Frames * a BY <1>1, <1>2, <1>3
  <2> QED BY <1>1, <1>2, <2>1
<1>4. CASE b >= a + 1
  <2>1. Frames * b >= Frames * (a + 1) BY <1>1, <1>2, <1>4
  <2>2. Frames * (a + 1) = Frames * a + Frames BY <1>1, <1>2
  <2> QED BY <1>1, <1>2, <2>1, <2>2
<1> QED BY <1>1, <1>3, <1>4

\* A wait recorded in turn keeps the slot.
LEMMA KeptWaited ==
    ASSUME TypeOK, NEW h \in Handles, NEW s \in Session, SlotKept(s), s.nextBegin <= s.next,
           waiter[h].k = s.next + 1, NEW r, r = Waited(s, h)
    PROVE  SlotKept(r)
<1>1. PICK q \in Nat : q = s.next + 1 BY SessionParts
<1>2. /\ s.next \in Nat /\ s.nextBegin \in Nat /\ s.active \in Nat
      /\ \A k \in Places : s.frames[k].seq \in Nat
  BY SessionParts
<1>3. /\ r.next = q /\ r.nextBegin = s.nextBegin /\ r.active = s.active
      /\ \A k \in Places : r.frames[k] = IF k = q % Frames THEN WaitFrame(h, q) ELSE s.frames[k]
  BY <1>1, WaitedSession
<1>4. PICK w : w = WaitFrame(h, q) OBVIOUS
<1>5. /\ w.seq = q /\ w.wait = q /\ w.begin = 0 /\ w.end = 0 /\ w.discarded = FALSE
  BY <1>1, <1>4 DEF WaitFrame, NoFrame
<1>6. ASSUME NEW p \in 1..r.next, p + 1 >= r.next PROVE r.frames[p % Frames].seq = p
  <2>1. p \in Nat /\ p % Frames \in Places BY <1>1, <1>3, Place
  <2>2. CASE p = q BY <1>3, <1>4, <1>5, <2>1, <2>2
  <2>3. CASE p # q
    <3>1. p = s.next /\ p \in 1..s.next BY <1>1, <1>2, <1>3, <1>6, <2>3
    <3>2. p % Frames # q % Frames BY <1>1, <2>1, <3>1, Apart
    <3>3. s.frames[p % Frames].seq = p BY <1>2, <3>1 DEF SlotKept
    <3> QED BY <1>3, <2>1, <3>2, <3>3
  <2> QED BY <2>2, <2>3
<1>7. ASSUME NEW k \in Places, r.frames[k].seq # 0 PROVE EntryCounted(r, k, r.frames[k])
  <2>1. CASE k = q % Frames
    <3>1. r.frames[k] = w BY <1>3, <1>4, <2>1
    <3>2. q > s.nextBegin /\ q # s.active BY <1>1, <1>2 DEF SlotKept
    <3>3. EntryCounted(r, k, w) BY <1>1, <1>3, <1>5, <2>1, <3>2 DEF EntryCounted
    <3> QED BY <3>1, <3>3
  <2>2. CASE k # q % Frames
    <3>1. r.frames[k] = s.frames[k] BY <1>3, <2>2
    <3>2. EntryCounted(s, k, s.frames[k]) BY <1>7, <3>1 DEF SlotKept, Places
    <3>3. EntryCounted(r, k, s.frames[k]) BY <1>1, <1>2, <1>3, <3>2 DEF EntryCounted
    <3> QED BY <3>1, <3>3
  <2> QED BY <2>1, <2>2
<1>8. r.active \in {0, r.nextBegin} BY <1>3 DEF SlotKept
<1> QED BY <1>6, <1>7, <1>8 DEF SlotKept, Places

\* So does a discarded frame.
LEMMA KeptDiscard ==
    ASSUME NEW s \in Session, SlotKept(s), NEW r, r = Discard(s)
    PROVE  SlotKept(r)
<1>1. /\ r.next = s.next /\ r.nextBegin = s.nextBegin /\ r.active = 0
      /\ \A k \in Places :
           r.frames[k] = IF Holds(s, s.active) /\ k = s.active % Frames
                         THEN [s.frames[k] EXCEPT !.discarded = TRUE] ELSE s.frames[k]
  BY DiscardedSession
<1>2. /\ s.next \in Nat /\ s.nextBegin \in Nat /\ s.active \in Nat
      /\ \A k \in Places : s.frames[k] \in Frame /\ s.frames[k].seq \in Nat
  BY SessionParts
<1>3. ASSUME NEW k \in Places
      PROVE  \/ r.frames[k] = s.frames[k]
             \/ /\ r.frames[k] = [s.frames[k] EXCEPT !.discarded = TRUE]
                /\ s.frames[k].seq = s.active /\ s.active # 0
  BY <1>1 DEF Holds
<1>4. \A k \in Places : r.frames[k].seq = s.frames[k].seq BY <1>2, <1>3 DEF Frame
<1>5. ASSUME NEW p \in 1..r.next, p + 1 >= r.next PROVE r.frames[p % Frames].seq = p
  <2>1. p \in Nat /\ p % Frames \in Places BY <1>1, <1>2, Place
  <2> QED BY <1>1, <1>4, <1>5, <2>1 DEF SlotKept
<1>6. ASSUME NEW k \in Places, r.frames[k].seq # 0 PROVE EntryCounted(r, k, r.frames[k])
  <2>1. EntryCounted(s, k, s.frames[k]) BY <1>4, <1>6 DEF SlotKept, Places
  <2>2. PICK f \in Frame : f = s.frames[k] /\ f.seq # 0 BY <1>2, <1>4, <1>6
  <2>3. CASE r.frames[k] = f
    <3>1. EntryCounted(r, k, f) BY <1>1, <1>2, <2>1, <2>2 DEF EntryCounted
    <3> QED BY <2>3, <3>1
  <2>4. CASE r.frames[k] = [f EXCEPT !.discarded = TRUE] /\ f.seq = s.active
    <3>1. PICK g \in Frame : g = r.frames[k] BY <2>4 DEF Frame
    <3>2. /\ g.seq = f.seq /\ g.wait = f.wait /\ g.begin = f.begin /\ g.end = f.end
          /\ g.discarded = TRUE
      BY <2>4, <3>1 DEF Frame
    <3>3. f.end = 0 /\ ~(f.seq > s.nextBegin) BY <1>2, <2>1, <2>2, <2>4 DEF EntryCounted, SlotKept
    <3>4. EntryCounted(r, k, g) BY <1>1, <2>1, <2>2, <3>2, <3>3 DEF EntryCounted
    <3> QED BY <3>1, <3>4
  <2> QED BY <1>3, <2>2, <2>3, <2>4
<1>7. r.active \in {0, r.nextBegin} BY <1>1
<1> QED BY <1>5, <1>6, <1>7 DEF SlotKept, Places

\* So does a begin that takes the next frame in order, which the ring still holds.
LEMMA KeptBegun ==
    ASSUME TypeOK, NEW h \in Handles, NEW s \in Session, SlotKept(s),
           renderer[h].k = s.nextBegin + 1, s.next \in {s.nextBegin + 1, s.nextBegin + 2},
           NEW r, r = Begun(s, h)
    PROVE  SlotKept(r)
<1>1. PICK q \in Nat : q = s.nextBegin + 1 BY SessionParts
<1>2. /\ s.next \in Nat /\ s.nextBegin \in Nat /\ s.active \in Nat
      /\ \A k \in Places : s.frames[k] \in Frame /\ s.frames[k].seq \in Nat
  BY SessionParts
<1>3. PICK p \in Places : p = q % Frames BY Place
<1>4. s.frames[p].seq = q BY <1>1, <1>2, <1>3 DEF SlotKept
<1>5. Holds(s, q) BY <1>1, <1>2, <1>3, <1>4 DEF Holds
<1>6. /\ r.next = s.next /\ r.nextBegin = q /\ r.active = q
      /\ \A k \in Places : r.frames[k] = IF k = p THEN [s.frames[k] EXCEPT !.begin = q] ELSE s.frames[k]
  BY <1>1, <1>3, <1>5, BegunSession
<1>7. \A k \in Places : r.frames[k].seq = s.frames[k].seq BY <1>2, <1>6 DEF Frame
<1>8. ASSUME NEW n \in 1..r.next, n + 1 >= r.next PROVE r.frames[n % Frames].seq = n
  <2>1. n \in Nat /\ n % Frames \in Places BY <1>2, <1>6, Place
  <2> QED BY <1>6, <1>7, <1>8, <2>1 DEF SlotKept
<1>9. ASSUME NEW k \in Places, r.frames[k].seq # 0 PROVE EntryCounted(r, k, r.frames[k])
  <2>1. EntryCounted(s, k, s.frames[k]) BY <1>7, <1>9 DEF SlotKept, Places
  <2>2. PICK f \in Frame : f = s.frames[k] /\ f.seq # 0 BY <1>2, <1>7, <1>9
  <2>3. CASE k # p
    <3>1. f.seq # q BY <1>3, <2>1, <2>2, <2>3 DEF EntryCounted
    <3>2. EntryCounted(r, k, f) BY <1>1, <1>2, <1>6, <2>1, <2>2, <3>1 DEF EntryCounted
    <3> QED BY <1>6, <2>2, <2>3, <3>2
  <2>4. CASE k = p
    <3>1. PICK g \in Frame : g = r.frames[k] /\ g = [f EXCEPT !.begin = q]
      BY <1>1, <1>6, <2>2, <2>4 DEF Frame
    <3>2. /\ g.seq = f.seq /\ g.wait = f.wait /\ g.begin = q /\ g.end = f.end
          /\ g.discarded = f.discarded
      BY <3>1 DEF Frame
    <3>3. f.seq = q /\ q > s.nextBegin /\ q # 0 BY <1>1, <1>2, <1>4, <2>2, <2>4
    <3>4. f.end = 0 /\ ~f.discarded BY <2>1, <2>2, <3>3 DEF EntryCounted
    <3>5. EntryCounted(r, k, g) BY <1>6, <2>1, <2>2, <3>2, <3>3, <3>4 DEF EntryCounted
    <3> QED BY <3>1, <3>5
  <2> QED BY <2>3, <2>4
<1>10. r.active \in {0, r.nextBegin} BY <1>6
<1> QED BY <1>8, <1>9, <1>10 DEF SlotKept, Places

\* And so does an end of the frame begun last.
LEMMA KeptEnded ==
    ASSUME TypeOK, NEW h \in Handles, NEW s \in Session, SlotKept(s),
           renderer[h].k = s.nextBegin, NEW r, r = Ended(s, h)
    PROVE  SlotKept(r)
<1>1. /\ r.next = s.next /\ r.nextBegin = s.nextBegin /\ r.active = 0
      /\ \A k \in Places :
           r.frames[k] = IF Holds(s, s.active) /\ k = s.active % Frames
                         THEN [s.frames[k] EXCEPT !.end = renderer[h].k,
                                                  !.render = Correlate(s.frames[k])]
                         ELSE s.frames[k]
  BY EndedSession, ZenonT(40)
<1>2. /\ s.next \in Nat /\ s.nextBegin \in Nat /\ s.active \in Nat
      /\ \A k \in Places : s.frames[k] \in Frame /\ s.frames[k].seq \in Nat
  BY SessionParts
<1>3. ASSUME NEW k \in Places
      PROVE  \/ r.frames[k] = s.frames[k]
             \/ /\ s.frames[k].seq = s.active /\ s.active # 0
                /\ r.frames[k] = [s.frames[k] EXCEPT !.end = renderer[h].k,
                                                     !.render = Correlate(s.frames[k])]
  BY <1>1, Zenon DEF Holds
<1>4. ASSUME NEW k \in Places
      PROVE  /\ r.frames[k].seq = s.frames[k].seq /\ r.frames[k].wait = s.frames[k].wait
             /\ r.frames[k].begin = s.frames[k].begin
             /\ r.frames[k].discarded = s.frames[k].discarded
             /\ \/ r.frames[k].end = s.frames[k].end
                \/ /\ r.frames[k].end = s.nextBegin
                   /\ s.frames[k].seq = s.active /\ s.active # 0
  <2>1. PICK f \in Frame : f = s.frames[k] BY <1>2
  <2>2. CASE r.frames[k] = f BY <2>1, <2>2
  <2>3. CASE f.seq = s.active /\ s.active # 0
             /\ r.frames[k] = [f EXCEPT !.end = renderer[h].k, !.render = Correlate(f)]
    BY <2>1, <2>3 DEF Frame
  <2> QED BY <1>3, <2>1, <2>2, <2>3, Zenon
<1>5. ASSUME NEW p \in 1..r.next, p + 1 >= r.next PROVE r.frames[p % Frames].seq = p
  <2>1. r.next = s.next /\ s.next \in Nat BY <1>1, <1>2
  <2>2. p \in Nat BY <2>1
  <2>3. p % Frames \in Places BY <2>2, Place
  <2> QED BY <1>4, <1>5, <2>1, <2>3 DEF SlotKept
<1>6. ASSUME NEW k \in Places, r.frames[k].seq # 0 PROVE EntryCounted(r, k, r.frames[k])
  <2>1. EntryCounted(s, k, s.frames[k]) BY <1>4, <1>6 DEF SlotKept, Places
  <2>2. s.frames[k].seq # 0 /\ s.frames[k].seq \in Nat BY <1>2, <1>4, <1>6
  <2>3. CASE r.frames[k].end = s.frames[k].end
    BY <1>1, <1>2, <1>4, <2>1, <2>2, <2>3 DEF EntryCounted
  <2>4. CASE r.frames[k].end = s.nextBegin /\ s.frames[k].seq = s.active /\ s.active # 0
    <3>1. s.active = s.nextBegin BY <2>4 DEF SlotKept
    <3>2. s.frames[k].begin # 0 /\ ~s.frames[k].discarded BY <2>1, <2>4 DEF EntryCounted
    <3> QED BY <1>1, <1>2, <1>4, <2>1, <2>2, <2>4, <3>1, <3>2, ZenonT(40) DEF EntryCounted
  <2> QED BY <1>4, <2>3, <2>4
<1>7. r.active \in {0, r.nextBegin} BY <1>1
<1> QED BY <1>5, <1>6, <1>7 DEF SlotKept, Places

\* on_wait, on_begin and on_end record in turn, or leave a session that missed a call.
LEMMA CountRecord ==
    ASSUME TypeOK, TypeOK', CallsOrdered, CallsCounted, NEW h \in Handles,
           on_wait(h) \/ on_begin(h) \/ on_end(h)
    PROVE  CallsCounted'
<1>0. /\ \A g \in Handles :
            g # h => rt'[g] = rt[g] /\ waiter'[g] = waiter[g] /\ renderer'[g] = renderer[g]
      /\ made' = made
  BY Elsewhere, WaitEffect, BeginEffect, EndEffect DEF Loop
<1>1. CallOrdered(h) BY DEF CallsOrdered
<1>2. rt[h].waits \in Nat /\ rt[h].begins \in Nat /\ rt[h].id \in Nat /\ made.sessions \in Nat BY Types
<1>3. \A i \in 1..Slots : table[i] \in Session /\ table[i].id <= made.sessions
  BY Types DEF CallsCounted
<1>4. CASE rt' = Missed(h) /\ table' = table
  <2>1. rt'[h].missed BY <1>4, MissedTyped
  <2>2. \A i \in 1..Slots : ~WholeFor(table[i], h)' BY <2>1 DEF WholeFor
  <2> QED BY <1>0, <1>4, <2>2, CountCall
<1>5. ASSUME on_wait(h), rt' = rt PROVE CallsCounted'
  <2>1. CASE rt' = Missed(h) /\ table' = table BY <1>4, <2>1
  <2>2. ASSUME NEW i \in 1..Slots, NEW s \in Session,
               \/ table[i].key = h /\ s = table[i]
               \/ /\ table[i].key = NoHandle /\ s = ClaimedFor(i, h)
                  /\ \A j \in 1..Slots : table[j].key # h,
               table' = [table EXCEPT ![i] = Waited(s, h)]
        PROVE  CallsCounted'
    <3>1. PICK r : r = Waited(s, h) OBVIOUS
    <3>2. /\ r \in Session /\ r.key = s.key /\ r.id = s.id /\ r.first = s.first
          /\ r.next = s.next + 1 /\ r.nextBegin = s.nextBegin
      BY <3>1, WaitedSession
    <3>3. s.key = h /\ s.id <= made.sessions
      BY <1>1, <1>3, <2>2, Claimed DEF CallOrdered
    <3>4. /\ waiter[h].pc = "record" /\ waiter'[h].pc = "idle" /\ renderer' = renderer
          /\ waiter[h].k = rt[h].waits /\ rt[h].waits = rt[h].begins + 1
      BY <1>1, <1>5, WaitEffect DEF TypeOK, CallOrdered, Idle
    <3>5. ASSUME WholeFor(r, h)' PROVE SlotCounts(r, h)'
      <4>1. WholeFor(s, h) BY <1>5, <3>2, <3>5 DEF WholeFor
      <4>2. /\ s.next + 1 = rt[h].waits /\ SlotKept(s)
            /\ s.nextBegin + (IF renderer[h].pc = "begin" THEN 1 ELSE 0) = rt[h].begins
        <5>1. CASE s = table[i]
          <6>1. SlotCounts(s, h) BY <4>1, <5>1 DEF CallsCounted
          <6> QED BY <3>4, <6>1 DEF SlotCounts
        <5>2. CASE s = ClaimedFor(i, h)
          <6>1. /\ s.first = waiter[h].k /\ s.next = 0 /\ s.nextBegin = 0 /\ s.active = 0
                /\ \A k \in Places : s.frames[k] = NoFrame
            BY <5>2, Claimed
          <6>2. rt[h].waits = 1 /\ rt[h].begins = 0 BY <1>2, <3>4, <4>1, <6>1 DEF WholeFor
          <6>3. renderer[h].pc = "idle" BY <1>1, <6>2 DEF CallOrdered
          <6>4. SlotKept(s) BY <6>1 DEF SlotKept, Places, NoFrame
          <6> QED BY <6>1, <6>2, <6>3, <6>4
        <5> QED BY <2>2, <5>1, <5>2
      <4>3. s.next \in Nat /\ s.nextBegin \in Nat BY SessionParts
      <4>4. s.nextBegin <= s.next BY <1>2, <3>4, <4>2, <4>3
      <4>5. SlotKept(r) BY <3>1, <3>4, <4>2, <4>4, KeptWaited
      <4> QED BY <1>5, <3>2, <3>4, <4>2, <4>3, <4>5 DEF SlotCounts
    <3> QED BY <1>0, <2>2, <3>1, <3>2, <3>3, <3>5, CountSlot
  <2> QED BY <1>5, <2>1, <2>2, WaitEffect
<1>6. ASSUME on_begin(h), rt' = rt PROVE CallsCounted'
  <2>1. CASE rt' = Missed(h) /\ table' = table BY <1>4, <2>1
  <2>2. ASSUME NEW i \in 1..Slots, NEW s \in Session, table[i].key = h,
               s = (IF renderer[h].discarded THEN Discard(table[i]) ELSE table[i]),
               table' = [table EXCEPT ![i] = Begun(s, h)]
        PROVE  CallsCounted'
    <3>1. PICK r : r = Begun(s, h) OBVIOUS
    <3>2. /\ r \in Session /\ r.key = s.key /\ r.id = s.id /\ r.first = s.first
          /\ r.next = s.next /\ r.nextBegin = s.nextBegin + 1
      BY <3>1, BegunSession
    <3>3. PICK t \in Session : t = table[i] /\ t.id <= made.sessions BY <1>3
    <3>4. s = t \/ s = Discard(t) BY <2>2, <3>3
    <3>5. /\ s.key = h /\ s.id = t.id /\ s.first = t.first /\ s.next = t.next
          /\ s.nextBegin = t.nextBegin
      BY <2>2, <3>3, <3>4, DiscardedSession
    <3>6. /\ renderer[h].pc = "begin" /\ renderer'[h].pc = "idle" /\ waiter' = waiter
          /\ renderer[h].k = rt[h].begins
      BY <1>1, <1>6, BeginEffect, SMTT(30) DEF TypeOK, CallOrdered, Idle
    <3>7. ASSUME WholeFor(r, h)' PROVE SlotCounts(r, h)'
      <4>1. WholeFor(t, h) BY <1>6, <3>2, <3>3, <3>5, <3>7, <2>2 DEF WholeFor
      <4>2. SlotCounts(t, h) BY <3>3, <4>1 DEF CallsCounted
      <4>3. SlotKept(s) BY <3>4, <4>2, KeptDiscard DEF SlotCounts
      <4>4. s.next \in Nat /\ s.nextBegin \in Nat BY SessionParts
      <4>5. s.nextBegin + 1 = rt[h].begins BY <3>5, <3>6, <4>2 DEF SlotCounts
      <4>6. s.next + (IF waiter[h].pc = "record" THEN 1 ELSE 0) = rt[h].waits
        BY <3>5, <4>2 DEF SlotCounts
      <4>7. s.next \in {s.nextBegin + 1, s.nextBegin + 2}
        BY <1>1, <1>2, <4>4, <4>5, <4>6 DEF CallOrdered
      <4>8. SlotKept(r) BY <3>1, <3>6, <4>3, <4>5, <4>7, KeptBegun
      <4> QED BY <1>6, <3>2, <3>6, <4>4, <4>5, <4>6, <4>8 DEF SlotCounts
    <3>8. r \in Session /\ r.key = h /\ r.id <= made.sessions BY <3>2, <3>3, <3>5
    <3>9. table' = [table EXCEPT ![i] = r] /\ table[i].key = h BY <2>2, <3>1
    <3> QED BY <1>0, <3>7, <3>8, <3>9, CountSlot
  <2> QED BY <1>6, <2>1, <2>2, BeginEffect
<1>7. ASSUME on_end(h), rt' = rt PROVE CallsCounted'
  <2>1. CASE rt' = Missed(h) /\ table' = table BY <1>4, <2>1
  <2>2. ASSUME NEW i \in 1..Slots, table[i].key = h, table' = [table EXCEPT ![i] = Ended(table[i], h)]
        PROVE  CallsCounted'
    <3>1. PICK s \in Session : s = table[i] /\ s.id <= made.sessions BY <1>3
    <3>2. PICK r : r = Ended(s, h) OBVIOUS
    <3>3. /\ r \in Session /\ r.key = s.key /\ r.id = s.id /\ r.first = s.first
          /\ r.next = s.next /\ r.nextBegin = s.nextBegin
      BY <3>2, EndedSession, ZenonT(40)
    <3>4. /\ renderer[h].pc = "end" /\ renderer'[h].pc = "idle" /\ waiter' = waiter
          /\ renderer[h].k = rt[h].begins
      BY <1>1, <1>7, EndEffect, SMTT(30) DEF TypeOK, CallOrdered, Idle
    <3>5. ASSUME WholeFor(r, h)' PROVE SlotCounts(r, h)'
      <4>1. WholeFor(s, h) BY <1>7, <3>3, <3>5 DEF WholeFor
      <4>2. SlotCounts(s, h) BY <3>1, <4>1 DEF CallsCounted
      <4>3. s.nextBegin = rt[h].begins
        <5>1. s.nextBegin \in Nat BY SessionParts
        <5> QED BY <3>4, <4>2, <5>1 DEF SlotCounts
      <4>4. SlotKept(r) BY <3>2, <3>4, <4>2, <4>3, KeptEnded DEF SlotCounts
      <4> QED BY <1>7, <3>3, <3>4, <4>2, <4>4 DEF SlotCounts
    <3> QED BY <1>0, <2>2, <3>1, <3>2, <3>3, <3>5, CountSlot
  <2> QED BY <1>7, <2>1, <2>2, EndEffect
<1> QED BY <1>4, <1>5, <1>6, <1>7, WaitEffect, BeginEffect, EndEffect

\* Every step keeps the count.
LEMMA CountStep ==
    ASSUME TypeOK, TypeOK', CallsOrdered, CallsCounted, [Next]_vars
    PROVE  CallsCounted'
<1>1. CASE UNCHANGED <<runtime, table, waiter, renderer>>
  <2>1. rt' = rt /\ made' = made /\ table' = table /\ waiter' = waiter /\ renderer' = renderer
    BY <1>1, Zenon DEF runtime
  <2>2. OneSlotPerKey(table)' BY <2>1, Zenon DEF CallsCounted, OneSlotPerKey
  <2>3. \A j \in 1..Slots : table'[j].id <= made'.sessions BY <2>1, Zenon DEF CallsCounted
  <2>4. ASSUME NEW j \in 1..Slots, NEW g \in Handles, WholeFor(table[j], g)'
        PROVE  SlotCounts(table[j], g)'
    <3>1. WholeFor(table[j], g) BY <2>1, <2>4, Zenon DEF WholeFor
    <3>2. SlotCounts(table[j], g) BY <3>1, Zenon DEF CallsCounted
    <3>3. /\ table'[j] = table[j] /\ rt'[g] = rt[g] /\ waiter'[g] = waiter[g]
          /\ renderer'[g] = renderer[g]
      BY <2>1, Zenon
    <3> QED BY <3>2, <3>3, CountsKept
  <2> QED BY <2>2, <2>3, <2>4 DEF CallsCounted
<1>2. CASE on_destroy_session
  <2>1. CASE table' = table BY <1>1, <1>2, <2>1, DestroyEffect
  <2>2. ASSUME NEW i \in 1..Slots, table' = [table EXCEPT ![i] = Forgotten(table[i])]
        PROVE  CallsCounted'
    <3>1. PICK r : r = Forgotten(table[i]) OBVIOUS
    <3>2. r \in Session /\ r.key = NoHandle /\ r.id = table[i].id BY <3>1, Types, ForgottenSession
    <3>3. table'[i] = r /\ \A j \in 1..Slots : j # i => table'[j] = table[j]
      BY <2>2, <3>1, <3>2, OneSlotTyped
    <3>4. made' = made /\ rt' = rt /\ waiter' = waiter /\ renderer' = renderer
      BY <1>2, DestroyEffect DEF runtime
    <3>5. OneSlotPerKey(table)' BY <3>2, <3>3 DEF CallsCounted, OneSlotPerKey
    <3>6. \A j \in 1..Slots : table'[j].id <= made'.sessions BY <3>2, <3>3, <3>4 DEF CallsCounted
    <3>7. ASSUME NEW j \in 1..Slots, NEW g \in Handles, WholeFor(table[j], g)'
          PROVE  SlotCounts(table[j], g)'
      <4>1. j # i BY <3>2, <3>3, <3>7, XrAssumptions DEF WholeFor
      <4>2. table'[j] = table[j] BY <3>3, <4>1
      <4>3. WholeFor(table[j], g) BY <3>4, <3>7, <4>2 DEF WholeFor
      <4>4. SlotCounts(table[j], g) BY <4>3 DEF CallsCounted
      <4>5. rt'[g] = rt[g] /\ waiter'[g] = waiter[g] /\ renderer'[g] = renderer[g] BY <3>4, Zenon
      <4> QED BY <4>2, <4>4, <4>5, CountsKept
    <3> QED BY <3>5, <3>6, <3>7 DEF CallsCounted
  <2> QED BY <1>2, <2>1, <2>2, DestroyEffect
<1>3. CASE Aside BY <1>1, <1>3, AsideEffect
<1>4. CASE clear_clock_binding BY <1>1, <1>4, ClearEffect
<1>5. CASE UNCHANGED vars BY <1>1, <1>5 DEF vars
<1>6. ASSUME NEW h \in Handles, Loop(h) PROVE CallsCounted'
  BY <1>6, CountReturn, CountRecord DEF Loop
<1> QED BY <1>2, <1>3, <1>4, <1>5, <1>6 DEF Next, Aside, Loop

----------------------------------------------------------------------------
(* The theorems *)

\* The invariant holds of the initial state.
LEMMA InitInvariant == Init => XrInvariant
<1> SUFFICES ASSUME Init PROVE XrInvariant OBVIOUS
<1>0. TypeOK BY InitType
<1>1. CallsOrdered BY DEF Init, CallsOrdered, CallOrdered, Dead, Idle
<1>2. /\ \A i \in 1..Slots : bindings[i].key = NoHandle
      /\ \A i \in 1..Slots : table[i] = NoSession
  BY DEF Init, NoClock
<1>3. ClocksBound
  <2>1. BindingsOwned BY <1>2, XrAssumptions DEF BindingsOwned, OneSlotPerKey
  <2>2. \A h \in Handles : ClockOwned(h) BY DEF Init, ClockOwned, Idle
  <2> QED BY <2>1, <2>2 DEF ClocksBound
<1>4. \A i \in 1..Slots : Entries(i) = {}
  <2>1. NoFrame.seq = 0 BY DEF NoFrame
  <2>2. \A k \in 0..(Frames - 1) : NoSession.frames[k] = NoFrame BY DEF NoSession
  <2> QED BY <1>2, <2>1, <2>2 DEF Entries
<1>5. CanonOpened
  <2>1. canon = [epoch |-> 1, seq |-> 1] /\ opened = <<canon>> BY DEF Init
  <2>2. Len(opened) = 1 /\ opened[1] = canon BY <2>1
  <2> QED BY <2>1, <2>2 DEF CanonOpened
<1>6. MarksKnown /\ FirstFrameAfterWait BY <1>4, <1>5 DEF MarksKnown, FirstFrameAfterWait
<1>7. CallsCounted
  BY <1>2, XrAssumptions DEF Init, CallsCounted, OneSlotPerKey, WholeFor, NoSession
<1> QED BY <1>1, <1>3, <1>6, <1>7 DEF XrInvariant

\* Every step keeps the invariant.
LEMMA StepInvariant ==
    ASSUME TypeOK, XrInvariant, [Next]_vars
    PROVE  TypeOK' /\ XrInvariant'
<1>1. TypeOK' BY StepType
<1>2. CallsOrdered' BY <1>1, OrderStep DEF XrInvariant
<1>3. ClocksBound'
  <2>1. BindingsOwned' BY <1>1, BindingsStep DEF XrInvariant, ClocksBound
  <2>2. \A g \in Handles : ClockOwned(g)' BY <1>1, ClockStep DEF XrInvariant
  <2> QED BY <2>1, <2>2 DEF ClocksBound
<1>4. MarksKnown' /\ FirstFrameAfterWait' BY <1>1, MarksStep DEF XrInvariant
<1>5. CallsCounted' BY <1>1, CountStep DEF XrInvariant
<1> QED BY <1>1, <1>2, <1>3, <1>4, <1>5 DEF XrInvariant

\* Whatever the interleaving of waits, begins, ends, destroyed sessions, reloads
\* and graphics frames, the table counts with the runtime, the bindings belong to
\* the live sessions and the watermarks agree with the frames opened.
THEOREM XrInv == Spec => [](TypeOK /\ XrInvariant)
<1>1. Init => TypeOK /\ XrInvariant BY InitType, InitInvariant
<1>2. (TypeOK /\ XrInvariant) /\ [Next]_vars => (TypeOK /\ XrInvariant)' BY StepInvariant
<1> QED BY <1>1, <1>2, PTL DEF Spec

\* on_begin and on_end reach the entry of their own wait in every session that
\* missed no call, however many frames were discarded or reused (frame_for).
THEOREM XrBeginPairsWait == Spec => []BeginPairsWait
<1>1. TypeOK /\ XrInvariant => BeginPairsWait
  <2> SUFFICES ASSUME TypeOK, XrInvariant, NEW i \in 1..Slots, Whole(i), NEW k \in Entries(i)
               PROVE  LET f == table[i].frames[k]
                      IN  /\ f.begin \in {0, f.wait} /\ f.end \in {0, f.wait}
                          /\ f.end # 0 => f.begin # 0 /\ ~f.discarded
    BY DEF BeginPairsWait
  <2>1. PICK h \in Handles : WholeFor(table[i], h) BY DEF Whole
  <2>2. SlotKept(table[i]) BY <2>1 DEF XrInvariant, CallsCounted, SlotCounts
  <2>3. EntryCounted(table[i], k, table[i].frames[k]) BY <2>2 DEF SlotKept, Entries
  <2> QED BY <2>3 DEF EntryCounted
<1> QED BY <1>1, XrInv, PTL

\* on_end attaches to an XR frame the first canonical frame opened after its
\* xrWaitFrame, across resets of the canonical timeline too.
THEOREM XrFirstFrame == Spec => []FirstFrameAfterWait
<1>1. TypeOK /\ XrInvariant => FirstFrameAfterWait BY DEF XrInvariant
<1> QED BY <1>1, XrInv, PTL

\* xr_time_to_host_ns never uses the clock of a session that was destroyed, though
\* its binding may outlive it until hkxrDestroySession clears it.
THEOREM XrConvertedByOwner == Spec => []ConvertedByOwner
<1>1. TypeOK /\ XrInvariant => ConvertedByOwner
  BY DEF XrInvariant, ClocksBound, ClockOwned, ConvertedByOwner
<1> QED BY <1>1, XrInv, PTL

=============================================================================
