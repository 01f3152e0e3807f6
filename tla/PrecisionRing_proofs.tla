----------------------- MODULE PrecisionRing_proofs -----------------------
(***************************************************************************)
(* Proofs about PrecisionRing for every number of slots, presents and       *)
(* threads: each present is in one place until it is retired, and it is     *)
(* retired once.                                                            *)
(***************************************************************************)
EXTENDS PrecisionRing, TLAPS

----------------------------------------------------------------------------
(* Type correctness *)

\* A slot index reduced by the table size indexes the table.
LEMMA SlotMod == \A i, j \in Nat : (i + j) % Slots \in SlotIndex
BY PrecisionAssumption DEF SlotIndex

\* The slot a producer probes, and the one a poller visits, exist.
LEMMA ProbedSlots ==
    ASSUME TypeOK
    PROVE  /\ \A x \in Producers : Candidate(x) \in SlotIndex
           /\ \A y \in Pollers : Visited(y) \in SlotIndex
<1>1. \A x \in Producers : origin[x] \in Nat /\ probe[x] \in Nat
  BY PrecisionAssumption DEF TypeOK, SlotIndex
<1>2. \A y \in Pollers : aorigin[y] \in Nat /\ visited[y] \in Nat
  BY PrecisionAssumption DEF TypeOK, SlotIndex
<1> QED BY <1>1, <1>2, SlotMod DEF Candidate, Visited

\* Every step of a producer keeps the types.
LEMMA ProducerType ==
    ASSUME TypeOK, PayloadFiled, NEW x \in Producers,
           (\E s \in SlotIndex : QueueCall(x, s)) \/ queue_precision_feedback(x)
    PROVE  TypeOK'
<1> USE PrecisionAssumption DEF table, producer, poller, ProducerPCs, PGoto, PReturn
<1>0. Candidate(x) \in SlotIndex BY ProbedSlots
<1>00. 0 \in SlotIndex BY DEF SlotIndex
<1>1. CASE \E s \in SlotIndex : QueueCall(x, s)
  BY <1>1 DEF TypeOK, QueueCall
<1>2. CASE ClaimFree(x)
  BY <1>0, <1>2 DEF TypeOK, ClaimFree, Claim
<1>3. CASE ClaimOccupied(x)
  <2>1. CASE probe[x] = Slots
    <3>1. present[x] \in Presents
      BY <1>3 DEF TypeOK, ClaimOccupied, PayloadFiled, Presents
    <3> QED BY <1>00, <1>3, <2>1, <3>1 DEF TypeOK, ClaimOccupied, Retire
  <2>2. CASE probe[x] # Slots
    BY <1>0, <1>3, <2>2 DEF TypeOK, ClaimOccupied, Claim
  <2> QED BY <2>1, <2>2
<1>4. CASE CountPending(x) BY <1>4 DEF TypeOK, CountPending
<1>5. CASE Displace(x)
  <2>1. frame_id[slot[x]] \in Presents
    BY <1>5 DEF TypeOK, Displace, PayloadFiled, Presents
  <2> QED BY <1>5, <2>1 DEF TypeOK, Displace, Retire
<1>6. CASE WritePayload(x) BY <1>6 DEF TypeOK, WritePayload
<1>7. CASE PublishPresent(x)
  <2>1. present[x] \in Presents
    BY <1>7 DEF TypeOK, PublishPresent, PayloadFiled, Presents
  <2> QED BY <1>00, <1>7, <2>1 DEF TypeOK, PublishPresent
<1> QED BY <1>1, <1>2, <1>3, <1>4, <1>5, <1>6, <1>7 DEF queue_precision_feedback

\* Every step of a poller keeps the types.
LEMMA PollerType ==
    ASSUME TypeOK, PayloadFiled, NEW y \in Pollers,
           ResolveCall(y) \/ resolve_precision_feedback(y)
    PROVE  TypeOK'
<1> USE PrecisionAssumption DEF table, producer, poller, PollerPCs, AGoto, ClearSlot
<1>0. Visited(y) \in SlotIndex BY ProbedSlots
<1>00. 0 \in SlotIndex BY DEF SlotIndex
<1>000. \A s \in SlotIndex : Published(s) => present_id[s] \in 0 .. MaxPresents
  BY DEF Published, Presents
<1>1. CASE ResolveCall(y) BY <1>1 DEF TypeOK, ResolveCall
<1>2. CASE \E s \in SlotIndex : TimingReport(y, s)
  BY <1>2, <1>000 DEF TypeOK, TimingReport
<1>3. CASE StartProbe(y) BY <1>3 DEF TypeOK, StartProbe
<1>4. CASE VisitSlot(y)
  <2>1. CASE visited[y] < Slots /\ probes[y] < ProbeBudget /\ Published(Visited(y))
    <3>1. present_id[Visited(y)] \in 0 .. MaxPresents BY <1>0, <1>000, <2>1
    <3> HIDE DEF Visited
    <3> QED BY <1>0, <1>4, <2>1, <3>1 DEF TypeOK, VisitSlot
  <2>2. CASE visited[y] < Slots /\ probes[y] < ProbeBudget /\ ~Published(Visited(y))
    BY <1>0, <1>4, <2>2 DEF TypeOK, VisitSlot
  <2>3. CASE ~(visited[y] < Slots /\ probes[y] < ProbeBudget)
    BY <1>0, <1>00, <1>4, <2>3 DEF TypeOK, VisitSlot
  <2> QED BY <2>1, <2>2, <2>3
<1>5. CASE QueryDriver(y) BY <1>00, <1>5 DEF TypeOK, QueryDriver
<1>6. CASE ClaimSample(y) BY <1>00, <1>6 DEF TypeOK, ClaimSample
<1>7. CASE ReadSample(y)
  <2>1. aid[y] \in Presents
    BY <1>7 DEF TypeOK, ReadSample, PayloadFiled, Presents
  <2> QED BY <1>7, <2>1 DEF TypeOK, ReadSample, Retire
<1>8. CASE UncountPending(y) BY <1>00, <1>8 DEF TypeOK, UncountPending
<1> QED BY <1>1, <1>2, <1>3, <1>4, <1>5, <1>6, <1>7, <1>8 DEF resolve_precision_feedback

----------------------------------------------------------------------------
(* The inductive invariant *)

\* The accounting after a step that retires p0, which waited and no longer does.
LEMMA OneRetires ==
    ASSUME TypeOK, PresentPlaces, NEW p0 \in Presents, Waiting(p0),
           presented' = presented,
           \A p \in Presents : retired'[p] = IF p = p0 THEN retired[p] + 1 ELSE retired[p],
           \A p \in Presents : Waiting(p)' <=> Waiting(p) /\ p # p0
    PROVE  /\ WaitingUnretired' /\ RetiredExactlyOnce'
           /\ \A p \in Presents : p > presented' => retired'[p] = 0
<1>1. p0 <= presented /\ retired[p0] = 0
  BY DEF PresentPlaces, WaitingUnretired
<1>2. presented \in 0 .. MaxPresents /\ MaxPresents \in Nat
  BY PrecisionAssumption DEF TypeOK
<1>3. \A p \in 1 .. presented : p \in Presents BY <1>2 DEF Presents
<1>4. p0 \in Int BY DEF Presents
<1>5. WaitingUnretired' BY DEF PresentPlaces, WaitingUnretired
<1>6. RetiredExactlyOnce' BY <1>1, <1>3 DEF PresentPlaces, RetiredExactlyOnce
<1>7. \A p \in Presents : p > presented' => retired'[p] = 0
  BY <1>1, <1>2, <1>4 DEF PresentPlaces, Presents
<1> QED BY <1>5, <1>6, <1>7

\* The accounting after a step that at most moves presents.
LEMMA NoneRetires ==
    ASSUME TypeOK, PresentPlaces, UNCHANGED <<presented, retired>>,
           \A p \in Presents : Waiting(p)' <=> Waiting(p)
    PROVE  /\ WaitingUnretired' /\ RetiredExactlyOnce'
           /\ \A p \in Presents : p > presented' => retired'[p] = 0
<1>1. \A p \in 1 .. presented : p \in Presents
  BY PrecisionAssumption DEF TypeOK, Presents
<1> QED BY <1>1 DEF PresentPlaces, WaitingUnretired, RetiredExactlyOnce

\* A step that moves no present keeps the invariant: ids, payloads and counts
\* stay, and no thread comes to own, displace or hold anything it did not.
LEMMA NothingMoves ==
    ASSUME TypeOK, PresentPlaces,
           UNCHANGED <<present_id, frame_id, presented, present, retired>>,
           \A x \in Producers :
              /\ Owns(x)' <=> Owns(x)
              /\ Owns(x) => slot'[x] = slot[x]
              /\ (ppc'[x] = "idle" <=> ppc[x] = "idle")
              /\ ppc'[x] = "displace" <=> ppc[x] = "displace"
              /\ ppc'[x] = "publish" => ppc[x] = "publish",
           \A y \in Pollers :
              /\ apc'[y] \in {"query", "claim", "read"} => aid'[y] # 0
              /\ apc'[y] = "read" <=> apc[y] = "read"
              /\ apc[y] = "read" => aid'[y] = aid[y]
    PROVE  PresentPlaces'
<1>1. SlotOwned' BY DEF PresentPlaces, SlotOwned
<1>2. PayloadFiled' BY DEF PresentPlaces, PayloadFiled, Published, Owns
<1>3. \A p : /\ \A s : InSlot(s, p)' <=> InSlot(s, p)
             /\ \A x : Filing(x, p)' <=> Filing(x, p)
             /\ \A x \in Producers : Displacing(x, p)' <=> Displacing(x, p)
             /\ \A y \in Pollers : Claimed(y, p)' <=> Claimed(y, p)
  BY DEF InSlot, Filing, Displacing, Claimed, Owns
<1>4. OnePlace' BY <1>3 DEF PresentPlaces, OnePlace
<1>5. \A p : Waiting(p)' <=> Waiting(p) BY <1>3 DEF Waiting
<1> QED BY <1>1, <1>2, <1>4, <1>5, NoneRetires DEF PresentPlaces

\* A new present starts with the producer that files it.
LEMMA QueueCallPlaces ==
    ASSUME TypeOK, PresentPlaces, NEW x \in Producers, NEW s0 \in SlotIndex, QueueCall(x, s0)
    PROVE  PresentPlaces'
<1> USE PrecisionAssumption DEF table, poller
<1>1. /\ presented \in Nat /\ presented' = presented + 1 /\ presented' \in Presents
      /\ ppc[x] = "idle" /\ present[x] = 0
      /\ \A z \in Producers : present'[z] = IF z = x THEN presented' ELSE present[z]
      /\ \A z \in Producers : ppc'[z] = IF z = x THEN "claim" ELSE ppc[z]
      /\ UNCHANGED <<present_id, frame_id, slot, apc, aid, retired>>
  BY DEF TypeOK, QueueCall, PGoto, Presents, PresentPlaces, PayloadFiled
<1>2. SlotOwned' BY <1>1 DEF PresentPlaces, SlotOwned, Owns
<1>3. PayloadFiled' BY <1>1 DEF PresentPlaces, PayloadFiled, Published
<1>4. \A p \in Presents :
        /\ \A s \in SlotIndex : InSlot(s, p)' <=> InSlot(s, p)
        /\ \A z \in Producers : Filing(z, p)' <=> Filing(z, p) \/ (z = x /\ p = presented')
        /\ \A z \in Producers : Displacing(z, p)' <=> Displacing(z, p)
        /\ \A y \in Pollers : Claimed(y, p)' <=> Claimed(y, p)
  BY <1>1 DEF InSlot, Filing, Displacing, Claimed, Presents
<1>5. \A p \in Presents : Waiting(p)' <=> Waiting(p) \/ p = presented'
  BY <1>4 DEF Waiting
<1>6. ~Waiting(presented') /\ retired[presented'] = 0
  BY <1>1 DEF PresentPlaces, WaitingUnretired
<1>7. OnePlace' BY <1>4, <1>6 DEF PresentPlaces, OnePlace, Waiting
<1>8. WaitingUnretired'
  BY <1>1, <1>5, <1>6 DEF PresentPlaces, WaitingUnretired, Presents
<1>9. RetiredExactlyOnce' /\ \A p \in Presents : p > presented' => retired'[p] = 0
  BY <1>1, <1>5, <1>6 DEF PresentPlaces, RetiredExactlyOnce, Presents
<1> QED BY <1>2, <1>3, <1>7, <1>8, <1>9 DEF PresentPlaces

\* A claimed free slot holds no present.
LEMMA ClaimFreePlaces ==
    ASSUME TypeOK, PresentPlaces, NEW x \in Producers, ClaimFree(x)
    PROVE  PresentPlaces'
<1> USE PrecisionAssumption DEF poller
<1>0. Candidate(x) \in SlotIndex BY ProbedSlots
<1>1. CASE probe[x] # Slots /\ present_id[Candidate(x)] = 0 /\ Claim(x, "count")
  <2>1. /\ ppc[x] = "claim"
        /\ \A s \in SlotIndex :
             present_id'[s] = IF s = Candidate(x) THEN Publishing ELSE present_id[s]
        /\ \A z \in Producers : slot'[z] = IF z = x THEN Candidate(x) ELSE slot[z]
        /\ \A z \in Producers : ppc'[z] = IF z = x THEN "count" ELSE ppc[z]
        /\ UNCHANGED <<frame_id, present, presented, apc, aid, retired>>
    BY <1>1 DEF TypeOK, ClaimFree, Claim, PGoto
  <2>2. SlotOwned'
    <3>1. \A z \in Producers : Owns(z) => slot[z] \in SlotIndex /\ slot[z] # Candidate(x)
      BY <1>1 DEF TypeOK, PresentPlaces, SlotOwned
    <3>2. \A z \in Producers : Owns(z)' <=> Owns(z) \/ z = x
      BY <2>1 DEF Owns
    <3> QED BY <1>0, <2>1, <3>1, <3>2 DEF PresentPlaces, SlotOwned
  <2>3. PayloadFiled'
    BY <1>0, <1>1, <2>1 DEF PresentPlaces, PayloadFiled, Published, Presents
  <2>4. \A p \in Presents :
          /\ \A s \in SlotIndex : InSlot(s, p)' <=> InSlot(s, p)
          /\ \A z \in Producers : Filing(z, p)' <=> Filing(z, p)
          /\ \A z \in Producers : Displacing(z, p)' <=> Displacing(z, p)
          /\ \A y \in Pollers : Claimed(y, p)' <=> Claimed(y, p)
    BY <1>1, <2>1 DEF InSlot, Filing, Displacing, Claimed, Presents
  <2>5. \A p \in Presents : Waiting(p)' <=> Waiting(p)
    BY <2>4 DEF Waiting
  <2>6. OnePlace' BY <2>4 DEF PresentPlaces, OnePlace
  <2> QED BY <2>1, <2>2, <2>3, <2>5, <2>6, NoneRetires DEF PresentPlaces
<1>2. CASE ~(probe[x] # Slots /\ present_id[Candidate(x)] = 0 /\ Claim(x, "count"))
  <2>1. /\ ppc[x] = "claim" /\ ppc'[x] \in {"claim", "evict"}
        /\ \A z \in Producers : z # x => ppc'[z] = ppc[z]
        /\ UNCHANGED <<present_id, frame_id, presented, present, retired, slot, apc, aid>>
    BY <1>2 DEF TypeOK, ClaimFree, PGoto
  <2>2. \A y \in Pollers : apc[y] \in {"query", "claim", "read"} => aid[y] # 0
    BY DEF PresentPlaces, PayloadFiled
  <2> QED BY <2>1, <2>2, NothingMoves DEF Owns
<1> QED BY <1>1, <1>2

\* Eviction moves the victim from its slot to the evicting producer; with no
\* victim left the producer retires its own present.
LEMMA ClaimOccupiedPlaces ==
    ASSUME TypeOK, PresentPlaces, NEW x \in Producers, ClaimOccupied(x)
    PROVE  PresentPlaces'
<1> USE PrecisionAssumption DEF poller
<1>0. Candidate(x) \in SlotIndex BY ProbedSlots
<1>1. CASE probe[x] = Slots
  <2>0. PICK p0 \in Presents : p0 = present[x]
    BY <1>1 DEF TypeOK, ClaimOccupied, Presents, PresentPlaces, PayloadFiled
  <2>1. /\ ppc[x] = "evict"
        /\ \A z \in Producers : present'[z] = IF z = x THEN 0 ELSE present[z]
        /\ \A z \in Producers : ppc'[z] = IF z = x THEN "idle" ELSE ppc[z]
        /\ \A z \in Producers : z # x => slot'[z] = slot[z]
        /\ \A p \in Presents : retired'[p] = IF p = p0 THEN retired[p] + 1 ELSE retired[p]
        /\ UNCHANGED <<present_id, frame_id, presented, apc, aid>>
    BY <1>1, <2>0 DEF TypeOK, ClaimOccupied, PGoto, PReturn, Retire
  <2>2. SlotOwned' BY <2>1 DEF PresentPlaces, SlotOwned, Owns
  <2>3. PayloadFiled' BY <2>1 DEF PresentPlaces, PayloadFiled, Published
  <2>4. \A p \in Presents :
          /\ \A s \in SlotIndex : InSlot(s, p)' <=> InSlot(s, p)
          /\ \A z \in Producers : Filing(z, p)' <=> Filing(z, p) /\ z # x
          /\ \A z \in Producers : Displacing(z, p)' <=> Displacing(z, p)
          /\ \A y \in Pollers : Claimed(y, p)' <=> Claimed(y, p)
    BY <2>1 DEF InSlot, Filing, Displacing, Claimed, Presents
  <2>5. \A p \in Presents : Filing(x, p) <=> p = p0
    BY <2>0 DEF Filing
  <2>6. OnePlace' BY <2>4 DEF PresentPlaces, OnePlace
  <2>7. \A p \in Presents : Waiting(p)' <=> Waiting(p) /\ p # p0
    <3>1. ~Waiting(p0)' BY <2>1, <2>4, <2>5 DEF PresentPlaces, OnePlace, Waiting
    <3> QED BY <2>4, <2>5, <3>1 DEF Waiting
  <2>8. Waiting(p0) BY <2>5 DEF Waiting
  <2> QED BY <2>1, <2>2, <2>3, <2>6, <2>7, <2>8, OneRetires DEF PresentPlaces
<1>2. CASE probe[x] # Slots /\ Published(Candidate(x)) /\ Claim(x, "displace")
  <2> DEFINE s0 == Candidate(x)
             p0 == present_id[s0]
  <2>1. /\ ppc[x] = "evict" /\ p0 \in Presents /\ s0 \in SlotIndex /\ frame_id[s0] = p0
        /\ \A s \in SlotIndex : present_id'[s] = IF s = s0 THEN Publishing ELSE present_id[s]
        /\ \A z \in Producers : slot'[z] = IF z = x THEN s0 ELSE slot[z]
        /\ \A z \in Producers : ppc'[z] = IF z = x THEN "displace" ELSE ppc[z]
        /\ UNCHANGED <<frame_id, present, presented, apc, aid, retired>>
    BY <1>0, <1>2 DEF TypeOK, ClaimOccupied, Claim, PGoto, Published, PresentPlaces, PayloadFiled
  <2>2. \A p \in Presents, s \in SlotIndex : InSlot(s, p) /\ s = s0 <=> p = p0 /\ s = s0
    BY DEF InSlot
  <2>3. p0 # Publishing /\ p0 # 0 /\ Publishing \notin Presents
    BY <2>1 DEF Presents
  <2> HIDE DEF p0, s0
  <2>4. SlotOwned'
    <3>1. \A z \in Producers : Owns(z) => slot[z] \in SlotIndex /\ slot[z] # s0
      BY <2>1, <2>3 DEF TypeOK, PresentPlaces, SlotOwned, p0
    <3>2. \A z \in Producers : Owns(z)' <=> Owns(z) \/ z = x
      BY <2>1 DEF Owns
    <3> QED BY <2>1, <3>1, <3>2 DEF PresentPlaces, SlotOwned
  <2>5. PayloadFiled'
    BY <2>1, <2>3 DEF PresentPlaces, PayloadFiled, Published
  <2>6. \A p \in Presents :
          /\ \A s \in SlotIndex : InSlot(s, p)' <=> InSlot(s, p) /\ s # s0
          /\ \A z \in Producers : Filing(z, p)' <=> Filing(z, p)
          /\ \A z \in Producers : Displacing(z, p)' <=> Displacing(z, p) \/ (z = x /\ p = p0)
          /\ \A y \in Pollers : Claimed(y, p)' <=> Claimed(y, p)
    BY <2>1, <2>3 DEF InSlot, Filing, Displacing, Claimed
  <2>7. InSlot(s0, p0) BY DEF InSlot, p0
  <2>8. \A p \in Presents : p # p0 => ~InSlot(s0, p) BY DEF InSlot, p0
  <2>9. OnePlace'
    BY <2>1, <2>6, <2>7, <2>8 DEF PresentPlaces, OnePlace
  <2>10. \A p \in Presents : Waiting(p)' <=> Waiting(p)
    BY <2>1, <2>6, <2>7, <2>8 DEF Waiting
  <2> QED BY <2>1, <2>4, <2>5, <2>9, <2>10, NoneRetires DEF PresentPlaces
<1>3. CASE /\ probe[x] # Slots
           /\ ~(Published(Candidate(x)) /\ Claim(x, "displace"))
  <2>1. /\ UNCHANGED <<present_id, frame_id, presented, present, retired, slot, ppc, apc, aid>>
    BY <1>3 DEF TypeOK, ClaimOccupied, PGoto
  <2>2. \A y \in Pollers : apc[y] \in {"query", "claim", "read"} => aid[y] # 0
    BY DEF PresentPlaces, PayloadFiled
  <2> QED BY <2>1, <2>2, NothingMoves DEF Owns
<1> QED BY <1>1, <1>2, <1>3

\* The displaced present is retired by the producer that evicted it.
LEMMA DisplacePlaces ==
    ASSUME TypeOK, PresentPlaces, NEW x \in Producers, Displace(x)
    PROVE  PresentPlaces'
<1> USE PrecisionAssumption DEF poller, table
<1>0. PICK p0 \in Presents : p0 = frame_id[slot[x]]
  BY DEF TypeOK, Displace, Presents, PresentPlaces, PayloadFiled
<1>1. /\ ppc[x] = "displace"
      /\ \A z \in Producers : ppc'[z] = IF z = x THEN "payload" ELSE ppc[z]
      /\ \A p \in Presents : retired'[p] = IF p = p0 THEN retired[p] + 1 ELSE retired[p]
      /\ UNCHANGED <<present_id, frame_id, present, slot, presented, apc, aid>>
  BY <1>0 DEF TypeOK, Displace, PGoto, Retire
<1>2. \A p \in Presents : Displacing(x, p) <=> p = p0
  BY <1>0, <1>1 DEF Displacing
<1>3. SlotOwned' BY <1>1 DEF PresentPlaces, SlotOwned, Owns
<1>4. PayloadFiled' BY <1>1 DEF PresentPlaces, PayloadFiled, Published
<1>5. \A p \in Presents :
        /\ \A s \in SlotIndex : InSlot(s, p)' <=> InSlot(s, p)
        /\ \A z \in Producers : Filing(z, p)' <=> Filing(z, p)
        /\ \A z \in Producers : Displacing(z, p)' <=> Displacing(z, p) /\ z # x
        /\ \A y \in Pollers : Claimed(y, p)' <=> Claimed(y, p)
  BY <1>1 DEF InSlot, Filing, Displacing, Claimed
<1>6. OnePlace' BY <1>5 DEF PresentPlaces, OnePlace
<1>7. \A p \in Presents : Waiting(p)' <=> Waiting(p) /\ p # p0
  <2>1. ~Waiting(p0)' BY <1>1, <1>2, <1>5 DEF PresentPlaces, OnePlace, Waiting
  <2> QED BY <1>2, <1>5, <2>1 DEF Waiting
<1>8. Waiting(p0) BY <1>2 DEF Waiting
<1> QED BY <1>1, <1>3, <1>4, <1>6, <1>7, <1>8, OneRetires DEF PresentPlaces

\* The payload is written into a slot nobody else owns, so no other present's
\* payload changes.
LEMMA WritePayloadPlaces ==
    ASSUME TypeOK, PresentPlaces, NEW x \in Producers, WritePayload(x)
    PROVE  PresentPlaces'
<1> USE PrecisionAssumption DEF poller
<1>1. /\ ppc[x] = "payload"
      /\ \A z \in Producers : ppc'[z] = IF z = x THEN "publish" ELSE ppc[z]
      /\ \A s \in SlotIndex : frame_id'[s] = IF s = slot[x] THEN present[x] ELSE frame_id[s]
      /\ UNCHANGED <<present_id, present, slot, presented, apc, aid, retired>>
  BY DEF TypeOK, WritePayload, PGoto
<1>2. \A z \in Producers : slot[z] \in SlotIndex BY DEF TypeOK
<1>3. \A z \in Producers : Owns(z) /\ z # x => slot[z] # slot[x]
  BY <1>1 DEF PresentPlaces, SlotOwned, Owns
<1>4. present_id[slot[x]] = Publishing BY <1>1 DEF PresentPlaces, SlotOwned, Owns
<1>5. SlotOwned' BY <1>1 DEF PresentPlaces, SlotOwned, Owns
<1>6. PayloadFiled'
  <2>1. \A s \in SlotIndex : Published(s)' => frame_id'[s] = present_id'[s]
    BY <1>1, <1>4 DEF PresentPlaces, PayloadFiled, Published, Presents
  <2>2. \A z \in Producers :
          /\ ppc'[z] = "idle" <=> present'[z] = 0
          /\ ppc'[z] = "displace" => frame_id'[slot'[z]] # 0
          /\ ppc'[z] = "publish" => frame_id'[slot'[z]] = present'[z]
    BY <1>1, <1>2, <1>3 DEF PresentPlaces, PayloadFiled, Owns
  <2> QED BY <1>1, <2>1, <2>2 DEF PresentPlaces, PayloadFiled
<1>7. \A p \in Presents :
        /\ \A s \in SlotIndex : InSlot(s, p)' <=> InSlot(s, p)
        /\ \A z \in Producers : Filing(z, p)' <=> Filing(z, p)
        /\ \A z \in Producers : Displacing(z, p)' <=> Displacing(z, p)
        /\ \A y \in Pollers : Claimed(y, p)' <=> Claimed(y, p)
  BY <1>1, <1>2, <1>3 DEF InSlot, Filing, Displacing, Claimed, Owns
<1>8. OnePlace' BY <1>7 DEF PresentPlaces, OnePlace
<1>9. \A p \in Presents : Waiting(p)' <=> Waiting(p) BY <1>7 DEF Waiting
<1> QED BY <1>1, <1>5, <1>6, <1>8, <1>9, NoneRetires DEF PresentPlaces

\* Publication moves the present from its producer to the slot.
LEMMA PublishPresentPlaces ==
    ASSUME TypeOK, PresentPlaces, NEW x \in Producers, PublishPresent(x)
    PROVE  PresentPlaces'
<1> USE PrecisionAssumption DEF poller
<1>0. PICK p0 \in Presents, s0 \in SlotIndex : p0 = present[x] /\ s0 = slot[x]
  BY DEF TypeOK, PublishPresent, PresentPlaces, PayloadFiled, Presents
<1>1. /\ ppc[x] = "publish" /\ frame_id[s0] = p0 /\ present_id[s0] = Publishing
      /\ \A s \in SlotIndex : present_id'[s] = IF s = s0 THEN p0 ELSE present_id[s]
      /\ \A z \in Producers : ppc'[z] = IF z = x THEN "idle" ELSE ppc[z]
      /\ \A z \in Producers : present'[z] = IF z = x THEN 0 ELSE present[z]
      /\ \A z \in Producers : z # x => slot'[z] = slot[z]
      /\ UNCHANGED <<frame_id, presented, apc, aid, retired>>
  BY <1>0 DEF TypeOK, PublishPresent, PGoto, PReturn, PresentPlaces, PayloadFiled, SlotOwned, Owns
<1>2. \A z \in Producers : Owns(z) => slot[z] \in SlotIndex /\ (z # x => slot[z] # s0)
  BY <1>0, <1>1 DEF TypeOK, PresentPlaces, SlotOwned, Owns
<1>3. SlotOwned' BY <1>1, <1>2 DEF PresentPlaces, SlotOwned, Owns
<1>4. PayloadFiled' BY <1>1, <1>2 DEF PresentPlaces, PayloadFiled, Published, Owns
<1>5. \A p \in Presents :
        /\ \A s \in SlotIndex : InSlot(s, p)' <=> InSlot(s, p) \/ (s = s0 /\ p = p0)
        /\ \A z \in Producers : Filing(z, p)' <=> Filing(z, p) /\ z # x
        /\ \A z \in Producers : Displacing(z, p)' <=> Displacing(z, p)
        /\ \A y \in Pollers : Claimed(y, p)' <=> Claimed(y, p)
  BY <1>1 DEF InSlot, Filing, Displacing, Claimed, Presents
<1>6. \A p \in Presents : Filing(x, p) <=> p = p0 BY <1>0 DEF Filing
<1>7. OnePlace' BY <1>5, <1>6 DEF PresentPlaces, OnePlace
<1>8. \A p \in Presents : Waiting(p)' <=> Waiting(p) BY <1>5, <1>6 DEF Waiting
<1> QED BY <1>1, <1>3, <1>4, <1>7, <1>8, NoneRetires DEF PresentPlaces

\* The compare-exchange moves the present from its slot to the poller.
LEMMA ClaimSamplePlaces ==
    ASSUME TypeOK, PresentPlaces, NEW y \in Pollers, ClaimSample(y)
    PROVE  PresentPlaces'
<1> USE PrecisionAssumption DEF producer
<1>1. CASE present_id[aslot[y]] = aid[y]
  <2>0. PICK p0 \in Presents, s0 \in SlotIndex : p0 = aid[y] /\ s0 = aslot[y]
    BY DEF TypeOK, ClaimSample, PresentPlaces, PayloadFiled, Presents
  <2>1. /\ apc[y] = "claim" /\ present_id[s0] = p0
        /\ \A s \in SlotIndex : present_id'[s] = IF s = s0 THEN 0 ELSE present_id[s]
        /\ \A z \in Pollers : apc'[z] = IF z = y THEN "read" ELSE apc[z]
        /\ UNCHANGED <<frame_id, presented, present, ppc, slot, aid, retired>>
    BY <1>1, <2>0 DEF TypeOK, ClaimSample, AGoto
  <2>2. p0 # 0 /\ p0 # Publishing BY DEF Presents
  <2>3. SlotOwned'
    <3>1. \A z \in Producers : Owns(z) => slot[z] \in SlotIndex /\ slot[z] # s0
      BY <2>1, <2>2 DEF TypeOK, PresentPlaces, SlotOwned
    <3> QED BY <2>1, <3>1 DEF PresentPlaces, SlotOwned, Owns
  <2>4. PayloadFiled' BY <2>1 DEF PresentPlaces, PayloadFiled, Published, Presents
  <2>5. \A p \in Presents :
          /\ \A s \in SlotIndex : InSlot(s, p)' <=> InSlot(s, p) /\ s # s0
          /\ \A z \in Producers : Filing(z, p)' <=> Filing(z, p)
          /\ \A z \in Producers : Displacing(z, p)' <=> Displacing(z, p)
          /\ \A z \in Pollers : Claimed(z, p)' <=> Claimed(z, p) \/ (z = y /\ p = p0)
    BY <2>0, <2>1 DEF InSlot, Filing, Displacing, Claimed, Presents
  <2>6. \A p \in Presents : InSlot(s0, p) <=> p = p0 BY <2>1 DEF InSlot
  <2>7. OnePlace' BY <2>5, <2>6 DEF PresentPlaces, OnePlace
  <2>8. \A p \in Presents : Waiting(p)' <=> Waiting(p) BY <2>5, <2>6 DEF Waiting
  <2> QED BY <2>1, <2>3, <2>4, <2>7, <2>8, NoneRetires DEF PresentPlaces
<1>2. CASE present_id[aslot[y]] # aid[y]
  <2>1. /\ apc[y] = "claim" /\ apc'[y] \in {"visit", "timing"}
        /\ \A z \in Pollers : z # y => apc'[z] = apc[z] /\ aid'[z] = aid[z]
        /\ UNCHANGED <<present_id, frame_id, presented, present, ppc, slot, retired>>
    BY <1>2 DEF TypeOK, ClaimSample, AGoto, ClearSlot
  <2>2. \A z \in Pollers : apc[z] \in {"query", "claim", "read"} => aid[z] # 0
    BY DEF PresentPlaces, PayloadFiled
  <2> QED BY <2>1, <2>2, NothingMoves DEF Owns
<1> QED BY <1>1, <1>2

\* The claimed sample is retired.
LEMMA ReadSamplePlaces ==
    ASSUME TypeOK, PresentPlaces, NEW y \in Pollers, ReadSample(y)
    PROVE  PresentPlaces'
<1> USE PrecisionAssumption DEF producer, table
<1>0. PICK p0 \in Presents : p0 = aid[y]
  BY DEF TypeOK, ReadSample, PresentPlaces, PayloadFiled, Presents
<1>1. /\ apc[y] = "read"
      /\ \A z \in Pollers : apc'[z] = IF z = y THEN "uncount" ELSE apc[z]
      /\ \A p \in Presents : retired'[p] = IF p = p0 THEN retired[p] + 1 ELSE retired[p]
      /\ UNCHANGED <<present_id, frame_id, presented, present, ppc, slot, aid>>
  BY <1>0 DEF TypeOK, ReadSample, AGoto, Retire
<1>2. SlotOwned' BY <1>1 DEF PresentPlaces, SlotOwned, Owns
<1>3. PayloadFiled' BY <1>1 DEF PresentPlaces, PayloadFiled, Published
<1>4. \A p \in Presents :
        /\ \A s \in SlotIndex : InSlot(s, p)' <=> InSlot(s, p)
        /\ \A z \in Producers : Filing(z, p)' <=> Filing(z, p)
        /\ \A z \in Producers : Displacing(z, p)' <=> Displacing(z, p)
        /\ \A z \in Pollers : Claimed(z, p)' <=> Claimed(z, p) /\ z # y
  BY <1>1 DEF InSlot, Filing, Displacing, Claimed
<1>5. \A p \in Presents : Claimed(y, p) <=> p = p0 BY <1>0, <1>1 DEF Claimed
<1>6. OnePlace' BY <1>4 DEF PresentPlaces, OnePlace
<1>7. \A p \in Presents : Waiting(p)' <=> Waiting(p) /\ p # p0
  <2>1. ~Waiting(p0)' BY <1>4, <1>5 DEF PresentPlaces, OnePlace, Waiting
  <2> QED BY <1>4, <1>5, <2>1 DEF Waiting
<1>8. Waiting(p0) BY <1>5 DEF Waiting
<1> QED BY <1>1, <1>2, <1>3, <1>6, <1>7, <1>8, OneRetires DEF PresentPlaces

\* The other steps of a poller only move through the table.
LEMMA PollerWalkPlaces ==
    ASSUME TypeOK, PresentPlaces, NEW y \in Pollers,
           \/ ResolveCall(y) \/ \E s \in SlotIndex : TimingReport(y, s)
           \/ StartProbe(y) \/ VisitSlot(y) \/ QueryDriver(y) \/ UncountPending(y)
    PROVE  PresentPlaces'
<1> USE PrecisionAssumption DEF producer, table, AGoto, ClearSlot
<1>0. \A z \in Pollers : apc[z] \in {"query", "claim", "read"} => aid[z] # 0
  BY DEF PresentPlaces, PayloadFiled
<1>1. /\ UNCHANGED <<present_id, frame_id, presented, present, ppc, slot, retired>>
      /\ \A z \in Pollers : z # y => apc'[z] = apc[z] /\ aid'[z] = aid[z]
  BY DEF TypeOK, ResolveCall, TimingReport, StartProbe, VisitSlot, QueryDriver, UncountPending
<1>2. /\ apc[y] # "read" /\ apc'[y] # "read"
      /\ apc'[y] \in {"query", "claim"} => aid'[y] # 0
  <2>1. \A s : Published(s) => present_id[s] # 0 BY DEF Published, Presents
  <2>2. CASE ResolveCall(y) BY <2>2 DEF TypeOK, ResolveCall
  <2>3. CASE \E s \in SlotIndex : TimingReport(y, s) BY <2>1, <2>3 DEF TypeOK, TimingReport
  <2>4. CASE StartProbe(y) BY <2>4 DEF TypeOK, StartProbe
  <2>5. CASE VisitSlot(y) BY <2>1, <2>5 DEF TypeOK, VisitSlot
  <2>6. CASE QueryDriver(y) BY <1>0, <2>6 DEF TypeOK, QueryDriver
  <2>7. CASE UncountPending(y) BY <2>7 DEF TypeOK, UncountPending
  <2> QED BY <2>2, <2>3, <2>4, <2>5, <2>6, <2>7
<1> QED BY <1>0, <1>1, <1>2, NothingMoves DEF Owns

\* Counting the claimed slot moves nothing.
LEMMA CountPendingPlaces ==
    ASSUME TypeOK, PresentPlaces, NEW x \in Producers, CountPending(x)
    PROVE  PresentPlaces'
<1>1. /\ ppc[x] = "count" /\ ppc'[x] = "payload"
      /\ \A z \in Producers : z # x => ppc'[z] = ppc[z]
      /\ UNCHANGED <<present_id, frame_id, presented, present, retired, slot, apc, aid>>
  BY DEF TypeOK, CountPending, PGoto, poller
<1>2. \A y \in Pollers : apc[y] \in {"query", "claim", "read"} => aid[y] # 0
  BY DEF PresentPlaces, PayloadFiled
<1> QED BY <1>1, <1>2, NothingMoves DEF Owns

----------------------------------------------------------------------------
(* Theorems *)

\* The initial table is empty.
LEMMA InitPlaces == Init => TypeOK /\ PresentPlaces
<1> SUFFICES ASSUME Init PROVE TypeOK /\ PresentPlaces
  OBVIOUS
<1> USE PrecisionAssumption
<1>1. TypeOK
  BY DEF Init, TypeOK, SlotIndex, ProducerPCs, PollerPCs
<1>2. SlotOwned /\ PayloadFiled
  BY DEF Init, SlotOwned, PayloadFiled, Owns, Published, Presents
<1>3. \A p \in Presents :
        /\ \A s \in SlotIndex : ~InSlot(s, p)
        /\ \A x \in Producers : ~Filing(x, p) /\ ~Displacing(x, p)
        /\ \A y \in Pollers : ~Claimed(y, p)
  BY DEF Init, InSlot, Filing, Displacing, Claimed, Presents
<1>4. OnePlace BY <1>3 DEF OnePlace
<1>5. WaitingUnretired BY <1>3 DEF WaitingUnretired, Waiting
<1>6. RetiredExactlyOnce /\ \A p \in Presents : p > presented => retired[p] = 0
  BY DEF Init, RetiredExactlyOnce
<1> QED BY <1>1, <1>2, <1>4, <1>5, <1>6 DEF PresentPlaces

\* The place invariant of the precision table holds in every state: slots are
\* owned by one producer, and each present is in one place until it is retired.
THEOREM PrecisionInvariant == Spec => [](TypeOK /\ PresentPlaces)
<1>1. Init => TypeOK /\ PresentPlaces BY InitPlaces
<1>2. TypeOK /\ PresentPlaces /\ [Next]_vars => TypeOK' /\ PresentPlaces'
  <2> SUFFICES ASSUME TypeOK, PresentPlaces, [Next]_vars PROVE TypeOK' /\ PresentPlaces'
    OBVIOUS
  <2>0. PayloadFiled BY DEF PresentPlaces
  <2>1. CASE UNCHANGED vars
    <3>1. UNCHANGED <<table, producer, poller, presented, retired>> BY <2>1 DEF vars
    <3>2. \A y \in Pollers : apc[y] \in {"query", "claim", "read"} => aid[y] # 0
      BY <2>0 DEF PayloadFiled
    <3>3. PresentPlaces' BY <3>1, <3>2, NothingMoves DEF table, producer, poller, Owns
    <3>4. TypeOK' BY <3>1 DEF TypeOK, table, producer, poller
    <3> QED BY <3>3, <3>4
  <2>2. ASSUME NEW x \in Producers, (\E s \in SlotIndex : QueueCall(x, s)) \/ queue_precision_feedback(x)
        PROVE  TypeOK' /\ PresentPlaces'
    BY <2>0, <2>2, ProducerType, QueueCallPlaces, ClaimFreePlaces, ClaimOccupiedPlaces,
       CountPendingPlaces, DisplacePlaces, WritePayloadPlaces, PublishPresentPlaces
       DEF queue_precision_feedback
  <2>3. ASSUME NEW y \in Pollers, ResolveCall(y) \/ resolve_precision_feedback(y)
        PROVE  TypeOK' /\ PresentPlaces'
    BY <2>0, <2>3, PollerType, ClaimSamplePlaces, ReadSamplePlaces, PollerWalkPlaces
       DEF resolve_precision_feedback
  <2> QED BY <2>1, <2>2, <2>3 DEF Next
<1> QED BY <1>1, <1>2, PTL DEF Spec

\* Exactly-once accounting: queue_precision_feedback and
\* resolve_precision_feedback never drop a present and never retire it twice.
THEOREM PrecisionExactlyOnce == Spec => []RetiredExactlyOnce
<1>1. TypeOK /\ PresentPlaces => RetiredExactlyOnce BY DEF PresentPlaces
<1> QED BY <1>1, PrecisionInvariant, PTL

=============================================================================
