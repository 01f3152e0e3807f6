--------------------------- MODULE PrecisionRing ---------------------------
(***************************************************************************)
(* The per-swapchain table of presents awaiting completion evidence         *)
(* (ll_vulkanflex.cpp, queue_precision_feedback and                         *)
(* resolve_precision_feedback).  Present threads file a present in a slot,  *)
(* acquire threads probe the driver and retire it.  present_id is the       *)
(* publication word of a slot: 0 free, Publishing while a producer writes.  *)
(* Present p carries present id p and frame id p; scheduler epochs, which   *)
(* only filter the feedback that leaves the table, are left out.            *)
(***************************************************************************)
EXTENDS Integers, FiniteSets

CONSTANTS
    Producers,       \* threads in vkQueuePresentKHR
    Pollers,         \* threads in vkAcquireNextImageKHR
    Slots,           \* kPrecisionPending: number of slots
    ProbeBudget,     \* kPrecisionWaitProbeBudget
    MaxPolls,        \* kPrecisionMaxPolls
    MaxPresents,     \* bound: presents with a present id
    Publishing       \* kPrecisionSlotPublishing

Presents == 1 .. MaxPresents
SlotIndex == 0 .. Slots - 1

ASSUME PrecisionAssumption ==
    /\ Slots \in Nat \ {0} /\ ProbeBudget \in Nat \ {0} /\ MaxPolls \in Nat \ {0}
    /\ MaxPresents \in Nat
    /\ Publishing \notin Nat
    /\ Producers \cap Pollers = {}

VARIABLES
    present_id, frame_id, polls,   \* precision_pending[s]
    pending_count,                 \* precision_pending_count
    probe_cursor,                  \* precision_probe_cursor
    presented,                     \* number of presents so far
    ppc, present, origin, probe, slot,           \* producer locals
    apc, aorigin, visited, probes, aslot, aid, aret,   \* poller locals
    retired                        \* history: how often each present was retired

table == <<present_id, frame_id, polls, pending_count, probe_cursor>>
producer == <<ppc, present, origin, probe, slot>>
poller == <<apc, aorigin, visited, probes, aslot, aid, aret>>
vars == <<table, presented, producer, poller, retired>>

ProducerPCs == {"idle", "claim", "evict", "count", "displace", "payload", "publish"}
PollerPCs == {"idle", "timing", "visit", "query", "claim", "read", "uncount"}

Published(s) == present_id[s] \in Presents

\* The values each variable ranges over.
TypeOK ==
    /\ present_id \in [SlotIndex -> Presents \cup {0, Publishing}]
    /\ frame_id \in [SlotIndex -> 0 .. MaxPresents]
    /\ polls \in [SlotIndex -> Nat]
    /\ pending_count \in Nat /\ probe_cursor \in SlotIndex
    /\ presented \in 0 .. MaxPresents
    /\ ppc \in [Producers -> ProducerPCs]
    /\ present \in [Producers -> 0 .. MaxPresents]
    /\ origin \in [Producers -> SlotIndex] /\ slot \in [Producers -> SlotIndex]
    /\ probe \in [Producers -> 0 .. Slots]
    /\ apc \in [Pollers -> PollerPCs]
    /\ aorigin \in [Pollers -> SlotIndex] /\ aslot \in [Pollers -> SlotIndex]
    /\ aid \in [Pollers -> 0 .. MaxPresents] /\ aret \in [Pollers -> {"visit", "timing"}]
    /\ probes \in [Pollers -> 0 .. ProbeBudget]
    /\ visited \in [Pollers -> 0 .. Slots]
    /\ retired \in [Presents -> Nat]

Init ==
    /\ present_id = [s \in SlotIndex |-> 0]
    /\ frame_id = [s \in SlotIndex |-> 0]
    /\ polls = [s \in SlotIndex |-> 0]
    /\ pending_count = 0 /\ probe_cursor = 0
    /\ presented = 0
    /\ ppc = [x \in Producers |-> "idle"]
    /\ present = [x \in Producers |-> 0] /\ origin = [x \in Producers |-> 0]
    /\ probe = [x \in Producers |-> 0] /\ slot = [x \in Producers |-> 0]
    /\ apc = [y \in Pollers |-> "idle"]
    /\ aorigin = [y \in Pollers |-> 0] /\ visited = [y \in Pollers |-> 0]
    /\ probes = [y \in Pollers |-> 0] /\ aslot = [y \in Pollers |-> 0]
    /\ aid = [y \in Pollers |-> 0] /\ aret = [y \in Pollers |-> "visit"]
    /\ retired = [p \in Presents |-> 0]

\* One completion leaves the table (publish_feedback, or the poller's batch).
Retire(p) == retired' = [retired EXCEPT ![p] = @ + 1]

----------------------------------------------------------------------------
(* queue_precision_feedback *)

PGoto(x, l) == ppc' = [ppc EXCEPT ![x] = l]
PReturn(x) ==
    /\ PGoto(x, "idle")
    /\ present' = [present EXCEPT ![x] = 0] /\ origin' = [origin EXCEPT ![x] = 0]
    /\ probe' = [probe EXCEPT ![x] = 0] /\ slot' = [slot EXCEPT ![x] = 0]

\* complete_present with a present id.  The first slot probed depends on the
\* ids alone.
QueueCall(x, s) ==
    /\ ppc[x] = "idle" /\ presented < MaxPresents
    /\ presented' = presented + 1
    /\ present' = [present EXCEPT ![x] = presented']
    /\ origin' = [origin EXCEPT ![x] = s]
    /\ PGoto(x, "claim")
    /\ UNCHANGED <<table, probe, slot, poller, retired>>

Candidate(x) == (origin[x] + probe[x]) % Slots

Claim(x, next) ==
    /\ present_id' = [present_id EXCEPT ![Candidate(x)] = Publishing]
    /\ slot' = [slot EXCEPT ![x] = Candidate(x)]
    /\ PGoto(x, next)
    /\ UNCHANGED <<probe, retired>>

\* Probe for a free slot, then for a victim.
ClaimFree(x) ==
    /\ ppc[x] = "claim"
    /\ IF probe[x] = Slots
       THEN /\ PGoto(x, "evict") /\ probe' = [probe EXCEPT ![x] = 0]
            /\ UNCHANGED <<present_id, slot, retired>>
       ELSE \/ present_id[Candidate(x)] = 0 /\ Claim(x, "count")
            \/ /\ present_id[Candidate(x)] # 0
               /\ probe' = [probe EXCEPT ![x] = @ + 1]
               /\ UNCHANGED <<present_id, slot, ppc, retired>>
    /\ UNCHANGED <<frame_id, polls, pending_count, probe_cursor, presented, present, origin, poller>>

\* A slot another producer is publishing is never taken.  With no victim left
\* the present keeps its CPU-return sample.
ClaimOccupied(x) ==
    /\ ppc[x] = "evict"
    /\ IF probe[x] = Slots
       THEN /\ Retire(present[x]) /\ PReturn(x)
            /\ UNCHANGED present_id
       ELSE /\ \/ Published(Candidate(x)) /\ Claim(x, "displace")
               \/ /\ ~Published(Candidate(x))
                  /\ probe' = [probe EXCEPT ![x] = @ + 1]
                  /\ UNCHANGED <<present_id, slot, ppc, retired>>
            /\ UNCHANGED <<present, origin>>
    /\ UNCHANGED <<frame_id, polls, pending_count, probe_cursor, presented, poller>>

CountPending(x) ==
    /\ ppc[x] = "count"
    /\ pending_count' = pending_count + 1
    /\ PGoto(x, "payload")
    /\ UNCHANGED <<present_id, frame_id, polls, probe_cursor, presented, present, origin, probe, slot,
                   poller, retired>>

\* The displaced present falls back to its CPU-return sample.  Its id is the
\* frame the owned slot still names.
Displace(x) ==
    /\ ppc[x] = "displace"
    /\ Retire(frame_id[slot[x]])
    /\ PGoto(x, "payload")
    /\ UNCHANGED <<table, presented, present, origin, probe, slot, poller>>

WritePayload(x) ==
    /\ ppc[x] = "payload"
    /\ frame_id' = [frame_id EXCEPT ![slot[x]] = present[x]]
    /\ polls' = [polls EXCEPT ![slot[x]] = 0]
    /\ PGoto(x, "publish")
    /\ UNCHANGED <<present_id, pending_count, probe_cursor, presented, present, origin, probe, slot,
                   poller, retired>>

PublishPresent(x) ==
    /\ ppc[x] = "publish"
    /\ present_id' = [present_id EXCEPT ![slot[x]] = present[x]]
    /\ PReturn(x)
    /\ UNCHANGED <<frame_id, polls, pending_count, probe_cursor, presented, poller, retired>>

queue_precision_feedback(x) ==
    \/ ClaimFree(x) \/ ClaimOccupied(x) \/ CountPending(x) \/ Displace(x)
    \/ WritePayload(x) \/ PublishPresent(x)

----------------------------------------------------------------------------
(* resolve_precision_feedback *)

AGoto(y, l) == apc' = [apc EXCEPT ![y] = l]
ClearSlot(y) ==
    /\ aslot' = [aslot EXCEPT ![y] = 0] /\ aid' = [aid EXCEPT ![y] = 0]
    /\ aret' = [aret EXCEPT ![y] = "visit"]

\* on_acquire on the primary swapchain; nothing pending returns at once.
ResolveCall(y) ==
    /\ apc[y] = "idle"
    /\ pending_count # 0
    /\ AGoto(y, "timing")
    /\ UNCHANGED <<table, presented, producer, aorigin, visited, probes, aslot, aid, aret, retired>>

\* A presentation-timing report names a present the table may still hold.
TimingReport(y, s) ==
    /\ apc[y] = "timing"
    /\ Published(s)
    /\ aslot' = [aslot EXCEPT ![y] = s] /\ aid' = [aid EXCEPT ![y] = present_id[s]]
    /\ aret' = [aret EXCEPT ![y] = "timing"]
    /\ AGoto(y, "claim")
    /\ UNCHANGED <<table, presented, producer, aorigin, visited, probes, retired>>

\* No (more) reports: start the bounded probe at the cursor.
StartProbe(y) ==
    /\ apc[y] = "timing"
    /\ aorigin' = [aorigin EXCEPT ![y] = probe_cursor]
    /\ AGoto(y, "visit")
    /\ UNCHANGED <<table, presented, producer, visited, probes, aslot, aid, aret, retired>>

Visited(y) == (aorigin[y] + visited[y]) % Slots

\* Next slot: skip it unless published; stop when the budget is spent and
\* leave the cursor where the next acquire goes on.
VisitSlot(y) ==
    /\ apc[y] = "visit"
    /\ IF visited[y] < Slots /\ probes[y] < ProbeBudget
       THEN /\ visited' = [visited EXCEPT ![y] = @ + 1]
            /\ IF Published(Visited(y))
               THEN /\ aslot' = [aslot EXCEPT ![y] = Visited(y)]
                    /\ aid' = [aid EXCEPT ![y] = present_id[Visited(y)]]
                    /\ probes' = [probes EXCEPT ![y] = @ + 1]
                    /\ AGoto(y, "query")
               ELSE UNCHANGED <<aslot, aid, probes, apc>>
            /\ UNCHANGED <<aorigin, probe_cursor>>
       ELSE /\ probe_cursor' = Visited(y)
            /\ AGoto(y, "idle")
            /\ aorigin' = [aorigin EXCEPT ![y] = 0]
            /\ visited' = [visited EXCEPT ![y] = 0]
            /\ probes' = [probes EXCEPT ![y] = 0]
            /\ UNCHANGED <<aslot, aid>>
    /\ UNCHANGED <<present_id, frame_id, polls, pending_count, presented, producer, aret, retired>>

\* Mutant: the poller never gives up on a silent driver.
QueryDriver_NeverGivesUp(y) ==
    /\ apc[y] = "query"
    /\ \/ AGoto(y, "claim") /\ UNCHANGED <<aslot, aid, aret>>
       \/ AGoto(y, "visit") /\ ClearSlot(y)
    /\ UNCHANGED <<table, presented, producer, aorigin, visited, probes, retired>>

\* vkWaitForPresent with a zero timeout: done, or one more poll, and the last
\* poll gives up on precise evidence.
QueryDriver(y) ==
    /\ apc[y] = "query"
    /\ \/ AGoto(y, "claim") /\ UNCHANGED <<polls, aslot, aid, aret>>
       \/ /\ polls' = [polls EXCEPT ![aslot[y]] = @ + 1]
          /\ IF polls'[aslot[y]] < MaxPolls
             THEN AGoto(y, "visit") /\ ClearSlot(y)
             ELSE AGoto(y, "claim") /\ UNCHANGED <<aslot, aid, aret>>
    /\ UNCHANGED <<present_id, frame_id, pending_count, probe_cursor, presented, producer,
                   aorigin, visited, probes, retired>>

\* Mutant: a plain store in place of the compare-exchange.
ClaimSample_Store(y) ==
    /\ apc[y] = "claim"
    /\ present_id' = [present_id EXCEPT ![aslot[y]] = 0]
    /\ AGoto(y, "read")
    /\ UNCHANGED <<frame_id, polls, pending_count, probe_cursor, presented, producer,
                   aorigin, visited, probes, aslot, aid, aret, retired>>

\* compare_exchange(present_id -> 0).
ClaimSample(y) ==
    /\ apc[y] = "claim"
    /\ IF present_id[aslot[y]] = aid[y]
       THEN /\ present_id' = [present_id EXCEPT ![aslot[y]] = 0]
            /\ AGoto(y, "read")
            /\ UNCHANGED <<aslot, aid, aret>>
       ELSE AGoto(y, aret[y]) /\ ClearSlot(y) /\ UNCHANGED present_id
    /\ UNCHANGED <<frame_id, polls, pending_count, probe_cursor, presented, producer,
                   aorigin, visited, probes, retired>>

\* The claimed sample is accounted for.  Its payload is read only now, after
\* the slot was freed: a present filed meanwhile may have replaced it.  Vulkan
\* has the application serialise acquire and present of one swapchain.
ReadSample(y) ==
    /\ apc[y] = "read"
    /\ Retire(aid[y])
    /\ AGoto(y, "uncount")
    /\ UNCHANGED <<table, presented, producer, aorigin, visited, probes, aslot, aid, aret>>

\* The saturating decrement of the advisory count.
UncountPending(y) ==
    /\ apc[y] = "uncount"
    /\ pending_count' = IF pending_count = 0 THEN 0 ELSE pending_count - 1
    /\ AGoto(y, aret[y])
    /\ ClearSlot(y)
    /\ UNCHANGED <<present_id, frame_id, polls, probe_cursor, presented, producer,
                   aorigin, visited, probes, retired>>

resolve_precision_feedback(y) ==
    \/ \E s \in SlotIndex : TimingReport(y, s)
    \/ StartProbe(y) \/ VisitSlot(y) \/ QueryDriver(y) \/ ClaimSample(y)
    \/ ReadSample(y) \/ UncountPending(y)

----------------------------------------------------------------------------

Next ==
    \/ \E x \in Producers : (\E s \in SlotIndex : QueueCall(x, s)) \/ queue_precision_feedback(x)
    \/ \E y \in Pollers : ResolveCall(y) \/ resolve_precision_feedback(y)

Spec == Init /\ [][Next]_vars

\* Threads inside a hook keep running, and the application keeps acquiring
\* images; it need not present again.
FairSpec ==
    /\ Spec
    /\ \A x \in Producers : WF_vars(queue_precision_feedback(x))
    /\ \A y \in Pollers : WF_vars(ResolveCall(y) \/ resolve_precision_feedback(y))

----------------------------------------------------------------------------
(* Correctness *)

\* Where a present that has not been retired still is: published in a slot,
\* with the producer that files it, with one that displaces it, or claimed.
InSlot(s, p) == present_id[s] = p
Filing(x, p) == present[x] = p
Displacing(x, p) == ppc[x] = "displace" /\ frame_id[slot[x]] = p
Claimed(y, p) == apc[y] = "read" /\ aid[y] = p

\* The producer has claimed a slot and not yet published it.
Owns(x) == ppc[x] \in {"count", "displace", "payload", "publish"}

Waiting(p) ==
    \/ \E s \in SlotIndex : InSlot(s, p)
    \/ \E x \in Producers : Filing(x, p) \/ Displacing(x, p)
    \/ \E y \in Pollers : Claimed(y, p)

\* Exactly-once accounting: poller, give-up path, timing report and eviction
\* race for a slot, yet queue_precision_feedback and
\* resolve_precision_feedback never drop a present and never retire it twice.
RetiredExactlyOnce ==
    \A p \in 1 .. presented : retired[p] = 1 \/ (retired[p] = 0 /\ Waiting(p))

\* A slot is owned by at most one producer, from its claim to its publication,
\* and its present_id says so.
SlotOwned ==
    /\ \A x \in Producers : Owns(x) => present_id[slot[x]] = Publishing
    /\ \A x, z \in Producers : Owns(x) /\ Owns(z) /\ slot[x] = slot[z] => x = z

\* What a published slot names is the payload that was written for it, also
\* while an evicting producer still has to read it.
PayloadFiled ==
    /\ \A s \in SlotIndex : Published(s) => frame_id[s] = present_id[s]
    /\ \A x \in Producers :
        /\ ppc[x] = "idle" <=> present[x] = 0
        /\ ppc[x] = "displace" => frame_id[slot[x]] # 0
        /\ ppc[x] = "publish" => frame_id[slot[x]] = present[x]
    /\ \A y \in Pollers : apc[y] \in {"query", "claim", "read"} => aid[y] # 0

\* A present is in one place at a time.
OnePlace ==
    \A p \in Presents :
        /\ \A s, r \in SlotIndex : InSlot(s, p) /\ InSlot(r, p) => s = r
        /\ \A x, z \in Producers :
            /\ Filing(x, p) /\ Filing(z, p) => x = z
            /\ Displacing(x, p) /\ Displacing(z, p) => x = z
            /\ ~(Filing(x, p) /\ Displacing(z, p))
        /\ \A y, z \in Pollers : Claimed(y, p) /\ Claimed(z, p) => y = z
        /\ \A s \in SlotIndex, x \in Producers :
            ~(InSlot(s, p) /\ (Filing(x, p) \/ Displacing(x, p)))
        /\ \A y \in Pollers :
            /\ \A s \in SlotIndex : ~(InSlot(s, p) /\ Claimed(y, p))
            /\ \A x \in Producers : ~((Filing(x, p) \/ Displacing(x, p)) /\ Claimed(y, p))

\* Only a present that was filed can be anywhere, and one that waits is not
\* retired yet.
WaitingUnretired ==
    \A p \in Presents : Waiting(p) => p <= presented /\ retired[p] = 0

\* Every present is in exactly one place until it is retired, whoever of the
\* racing producers and pollers moves it (the inductive invariant of
\* queue_precision_feedback and resolve_precision_feedback).
PresentPlaces ==
    /\ SlotOwned /\ PayloadFiled /\ OnePlace /\ WaitingUnretired
    /\ RetiredExactlyOnce
    /\ \A p \in Presents : p > presented => retired[p] = 0

\* Bounded polls and the rotating cursor: every present is eventually
\* retired, even if the driver never reports it and the ring stays busy.
EveryPresentRetired == \A p \in Presents : presented >= p ~> retired[p] = 1
=============================================================================
