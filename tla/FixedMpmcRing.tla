--------------------------- MODULE FixedMpmcRing ---------------------------
(***************************************************************************)
(* The bounded multi-producer multi-consumer ring of fixed_mpmc_ring.h,     *)
(* one action per atomic access.  Every thread may call try_enqueue and     *)
(* try_dequeue.  A position is a "ticket": ticket k lives in cell           *)
(* k % Capacity.  The payload copy is not atomic in the code, so it is a    *)
(* step of its own between the reservation and the publication.             *)
(***************************************************************************)
EXTENDS Integers

CONSTANTS
    Capacity,     \* template parameter Capacity
    Threads,      \* callers of try_enqueue / try_dequeue
    Values,       \* the payload type T
    NoValue,      \* contents of a cell nobody has written yet
    MaxTickets    \* bound: no try_enqueue call starts at or past this ticket

\* static_assert(Capacity >= 2).
ASSUME CapacityAssumption == Capacity \in Nat /\ Capacity >= 2
ASSUME MaxTicketsAssumption == MaxTickets \in Nat
ASSUME NoValueAssumption == NoValue \notin Values

VARIABLES
    sequence,     \* cells_[i].sequence
    value,        \* cells_[i].value
    enqueue_pos,
    dequeue_pos,
    pc,           \* where each thread is in try_enqueue / try_dequeue
    pos,          \* the local variable pos of the call in progress
    arg,          \* try_enqueue's parameter, or what *out received
    log,          \* history: the payload each ticket was reserved for
    delivered     \* history: <<ticket, payload its consumer got>>

shared == <<sequence, value, enqueue_pos, dequeue_pos>>
local == <<pc, pos, arg>>
history == <<log, delivered>>
vars == <<shared, local, history>>

Cells == 0 .. Capacity - 1
Cell(k) == k % Capacity     \* pos & kMask

EnqPCs == {"enq_check", "enq_reload", "enq_cas", "enq_write", "enq_publish"}
DeqPCs == {"deq_check", "deq_reload", "deq_cas", "deq_read", "deq_release"}

\* A thread that won its reservation and has not yet handed the cell on.
EnqOwns(t) == pc[t] \in {"enq_write", "enq_publish"}
DeqOwns(t) == pc[t] \in {"deq_read", "deq_release"}
Owns(t) == EnqOwns(t) \/ DeqOwns(t)

TypeOK ==
    /\ sequence \in [Cells -> Nat]
    /\ value \in [Cells -> Values \cup {NoValue}]
    /\ enqueue_pos \in Nat
    /\ dequeue_pos \in Nat
    /\ pc \in [Threads -> {"idle"} \cup EnqPCs \cup DeqPCs]
    /\ pos \in [Threads -> Nat]
    /\ arg \in [Threads -> Values \cup {NoValue}]
    /\ log \in [0 .. enqueue_pos - 1 -> Values]

Init ==
    /\ sequence = [c \in Cells |-> c]
    /\ enqueue_pos = 0 /\ dequeue_pos = 0
    /\ log = [k \in {} |-> 0] /\ delivered = {}
    /\ value = [c \in Cells |-> NoValue]
    /\ pc = [t \in Threads |-> "idle"]
    /\ pos = [t \in Threads |-> 0]
    /\ arg = [t \in Threads |-> NoValue]

Goto(t, l) == pc' = [pc EXCEPT ![t] = l]
SetPos(t, p) == pos' = [pos EXCEPT ![t] = p]

\* The call returns: its locals are dead.
Return(t) ==
    /\ Goto(t, "idle")
    /\ SetPos(t, 0)
    /\ arg' = [arg EXCEPT ![t] = NoValue]

\* reset(): the constructor's, or a caller's between uses.  Its stores are
\* relaxed and unsynchronised, so no call may be in progress; stale payloads
\* stay in the cells.
Reset ==
    /\ \A t \in Threads : pc[t] = "idle"
    /\ sequence' = [c \in Cells |-> c]
    /\ enqueue_pos' = 0 /\ dequeue_pos' = 0
    /\ log' = [k \in {} |-> 0] /\ delivered' = {}
    /\ UNCHANGED <<value, local>>

----------------------------------------------------------------------------
(* try_enqueue *)

EnqCall(t, v) ==
    /\ pc[t] = "idle"
    /\ enqueue_pos < MaxTickets
    /\ SetPos(t, enqueue_pos)
    /\ arg' = [arg EXCEPT ![t] = v]
    /\ Goto(t, "enq_check")
    /\ UNCHANGED <<shared, history>>

\* difference = sequence - pos: 0 tries the reservation, negative is full.
EnqCheck(t) ==
    /\ pc[t] = "enq_check"
    /\ LET difference == sequence[Cell(pos[t])] - pos[t] IN
        \/ difference = 0 /\ Goto(t, "enq_cas") /\ UNCHANGED <<pos, arg>>
        \/ difference < 0 /\ Return(t)
        \/ difference > 0 /\ Goto(t, "enq_reload") /\ UNCHANGED <<pos, arg>>
    /\ UNCHANGED <<shared, history>>

EnqReload(t) ==
    /\ pc[t] = "enq_reload"
    /\ SetPos(t, enqueue_pos)
    /\ Goto(t, "enq_check")
    /\ UNCHANGED <<shared, arg, history>>

\* Mutant: a plain store in place of the compare-exchange.
EnqReserve_Store(t) ==
    /\ pc[t] = "enq_cas"
    /\ enqueue_pos' = pos[t] + 1
    /\ log' = [k \in 0 .. pos[t] |-> IF k = pos[t] THEN arg[t] ELSE log[k]]
    /\ Goto(t, "enq_write")
    /\ UNCHANGED <<sequence, value, dequeue_pos, pos, arg, delivered>>

\* Mutant: the cell is published together with its reservation.
EnqReserve_PublishFirst(t) ==
    /\ pc[t] = "enq_cas"
    /\ enqueue_pos = pos[t]
    /\ enqueue_pos' = pos[t] + 1
    /\ sequence' = [sequence EXCEPT ![Cell(pos[t])] = pos[t] + 1]
    /\ log' = [k \in 0 .. enqueue_pos |-> IF k = enqueue_pos THEN arg[t] ELSE log[k]]
    /\ Goto(t, "enq_write")
    /\ UNCHANGED <<value, dequeue_pos, pos, arg, delivered>>

EnqReserve(t) ==
    /\ pc[t] = "enq_cas"
    /\ enqueue_pos = pos[t]
    /\ enqueue_pos' = pos[t] + 1
    /\ log' = [k \in 0 .. enqueue_pos |-> IF k = enqueue_pos THEN arg[t] ELSE log[k]]
    /\ Goto(t, "enq_write")
    /\ UNCHANGED <<sequence, value, dequeue_pos, pos, arg, delivered>>

\* compare_exchange_weak failed, spuriously or not: pos is reloaded.
EnqCasFail(t) ==
    /\ pc[t] = "enq_cas"
    /\ SetPos(t, enqueue_pos)
    /\ Goto(t, "enq_check")
    /\ UNCHANGED <<shared, arg, history>>

EnqWrite(t) ==
    /\ pc[t] = "enq_write"
    /\ value' = [value EXCEPT ![Cell(pos[t])] = arg[t]]
    /\ Goto(t, "enq_publish")
    /\ UNCHANGED <<sequence, enqueue_pos, dequeue_pos, pos, arg, history>>

EnqPublish(t) ==
    /\ pc[t] = "enq_publish"
    /\ sequence' = [sequence EXCEPT ![Cell(pos[t])] = pos[t] + 1]
    /\ Return(t)
    /\ UNCHANGED <<value, enqueue_pos, dequeue_pos, history>>

----------------------------------------------------------------------------
(* try_dequeue *)

DeqCall(t) ==
    /\ pc[t] = "idle"
    /\ SetPos(t, dequeue_pos)
    /\ Goto(t, "deq_check")
    /\ UNCHANGED <<shared, arg, history>>

\* difference = sequence - (pos + 1): negative means nothing to take here.
DeqCheck(t) ==
    /\ pc[t] = "deq_check"
    /\ LET difference == sequence[Cell(pos[t])] - (pos[t] + 1) IN
        \/ difference = 0 /\ Goto(t, "deq_cas") /\ UNCHANGED <<pos, arg>>
        \/ difference < 0 /\ Return(t)
        \/ difference > 0 /\ Goto(t, "deq_reload") /\ UNCHANGED <<pos, arg>>
    /\ UNCHANGED <<shared, history>>

DeqReload(t) ==
    /\ pc[t] = "deq_reload"
    /\ SetPos(t, dequeue_pos)
    /\ Goto(t, "deq_check")
    /\ UNCHANGED <<shared, arg, history>>

\* Mutant: a plain store in place of the compare-exchange.
DeqClaim_Store(t) ==
    /\ pc[t] = "deq_cas"
    /\ dequeue_pos' = pos[t] + 1
    /\ Goto(t, "deq_read")
    /\ UNCHANGED <<sequence, value, enqueue_pos, pos, arg, history>>

\* Mutant: the cell is handed to the next lap before the payload is copied out.
DeqClaim_ReleaseFirst(t) ==
    /\ pc[t] = "deq_cas"
    /\ dequeue_pos = pos[t]
    /\ dequeue_pos' = pos[t] + 1
    /\ sequence' = [sequence EXCEPT ![Cell(pos[t])] = pos[t] + Capacity]
    /\ Goto(t, "deq_read")
    /\ UNCHANGED <<value, enqueue_pos, pos, arg, history>>

DeqClaim(t) ==
    /\ pc[t] = "deq_cas"
    /\ dequeue_pos = pos[t]
    /\ dequeue_pos' = pos[t] + 1
    /\ Goto(t, "deq_read")
    /\ UNCHANGED <<sequence, value, enqueue_pos, pos, arg, history>>

DeqCasFail(t) ==
    /\ pc[t] = "deq_cas"
    /\ SetPos(t, dequeue_pos)
    /\ Goto(t, "deq_check")
    /\ UNCHANGED <<shared, arg, history>>

DeqRead(t) ==
    /\ pc[t] = "deq_read"
    /\ arg' = [arg EXCEPT ![t] = value[Cell(pos[t])]]
    /\ Goto(t, "deq_release")
    /\ UNCHANGED <<shared, pos, history>>

\* Mutant: the lap is forgotten.
DeqRelease_NoLap(t) ==
    /\ pc[t] = "deq_release"
    /\ sequence' = [sequence EXCEPT ![Cell(pos[t])] = pos[t] + 1]
    /\ delivered' = delivered \cup {<<pos[t], arg[t]>>}
    /\ Return(t)
    /\ UNCHANGED <<value, enqueue_pos, dequeue_pos, log>>

DeqRelease(t) ==
    /\ pc[t] = "deq_release"
    /\ sequence' = [sequence EXCEPT ![Cell(pos[t])] = pos[t] + Capacity]
    /\ delivered' = delivered \cup {<<pos[t], arg[t]>>}
    /\ Return(t)
    /\ UNCHANGED <<value, enqueue_pos, dequeue_pos, log>>

----------------------------------------------------------------------------

try_enqueue(t) ==
    \/ \E v \in Values : EnqCall(t, v)
    \/ EnqCheck(t)
    \/ EnqReload(t)
    \/ EnqReserve(t)
    \/ EnqCasFail(t)
    \/ EnqWrite(t)
    \/ EnqPublish(t)

try_dequeue(t) ==
    \/ DeqCall(t)
    \/ DeqCheck(t)
    \/ DeqReload(t)
    \/ DeqClaim(t)
    \/ DeqCasFail(t)
    \/ DeqRead(t)
    \/ DeqRelease(t)

Next == Reset \/ \E t \in Threads : try_enqueue(t) \/ try_dequeue(t)

Spec == Init /\ [][Next]_vars

----------------------------------------------------------------------------
(* Correctness *)

\* No data race on a payload: two threads that both hold a reservation (a
\* producer copying in, a consumer copying out) are never on the same cell.
ExclusiveCell ==
    \A t, u \in Threads :
        t # u /\ Owns(t) /\ Owns(u) => Cell(pos[t]) # Cell(pos[u])

\* A consumer gets exactly the payload its ticket was reserved for: never the
\* previous lap's, never one still being written, whatever the interleaving.
PayloadIntegrity ==
    \A d \in delivered : d[1] < enqueue_pos /\ d[2] = log[d[1]]

\* Full means full: try_enqueue gives up only while the ticket one lap back
\* is still undelivered, so saturation is never reported for a free slot.
HonestFull ==
    \A t \in Threads :
        pc[t] = "enq_check" /\ sequence[Cell(pos[t])] < pos[t] =>
            /\ pos[t] = enqueue_pos
            /\ pos[t] >= Capacity
            /\ \A d \in delivered : d[1] # pos[t] - Capacity

\* Empty means no publication at the head: try_dequeue gives up only while
\* the oldest unclaimed ticket is unreserved or still being written.
HonestEmpty ==
    \A t \in Threads :
        pc[t] = "deq_check" /\ sequence[Cell(pos[t])] < pos[t] + 1 =>
            /\ pos[t] = dequeue_pos
            /\ \/ pos[t] = enqueue_pos
               \/ \E u \in Threads : EnqOwns(u) /\ pos[u] = pos[t]

\* try_enqueue and try_dequeue refuse only when they must, although each reads
\* its position and the cell's sequence at different moments.
HonestRefusal == HonestFull /\ HonestEmpty

----------------------------------------------------------------------------
(* The inductive invariant behind the properties above. *)

\* The tickets of the current lap: exactly one for every cell ever reserved.
InLap(k) == k \in 0 .. enqueue_pos - 1 /\ k >= enqueue_pos - Capacity

IsDelivered(k) == \E d \in delivered : d[1] = k

PositionsOrdered ==
    /\ dequeue_pos <= enqueue_pos
    /\ enqueue_pos <= dequeue_pos + Capacity
    /\ \A t \in Threads :
        /\ pc[t] \in {"enq_check", "enq_reload", "enq_cas"} => pos[t] <= enqueue_pos
        /\ pc[t] \in {"deq_check", "deq_reload", "deq_cas"} => pos[t] <= dequeue_pos
        /\ pc[t] \in EnqPCs => arg[t] \in Values

\* A cell's sequence word tells the phase of its ticket k: k being written,
\* k + 1 ready or being read, k + Capacity free for the next lap.
CellPhase ==
    /\ \A c \in Cells : c >= enqueue_pos => sequence[c] = c
    /\ \A k \in 0 .. enqueue_pos - 1 : k >= enqueue_pos - Capacity =>
        \/ /\ sequence[Cell(k)] = k
           /\ \E t \in Threads : EnqOwns(t) /\ pos[t] = k
        \/ /\ sequence[Cell(k)] = k + 1
           /\ k >= dequeue_pos
           /\ value[Cell(k)] = log[k]
        \/ /\ sequence[Cell(k)] = k + 1
           /\ \E t \in Threads : DeqOwns(t) /\ pos[t] = k
        \/ /\ sequence[Cell(k)] = k + Capacity
           /\ k < dequeue_pos
           /\ IsDelivered(k)

\* What a thread holding a reservation knows.
OwnerPhase ==
    /\ \A t \in Threads : EnqOwns(t) =>
        /\ InLap(pos[t]) /\ pos[t] >= dequeue_pos
        /\ sequence[Cell(pos[t])] = pos[t]
        /\ arg[t] = log[pos[t]]
        /\ pc[t] = "enq_publish" => value[Cell(pos[t])] = arg[t]
    /\ \A t \in Threads : DeqOwns(t) =>
        /\ InLap(pos[t]) /\ pos[t] < dequeue_pos
        /\ sequence[Cell(pos[t])] = pos[t] + 1
        /\ value[Cell(pos[t])] = log[pos[t]]
        /\ pc[t] = "deq_release" => arg[t] = log[pos[t]]
    /\ \A t, u \in Threads : t # u /\ Owns(t) /\ Owns(u) => pos[t] # pos[u]

\* A check that passed stays valid for the CAS that can still succeed.
CasPhase ==
    \A t \in Threads :
        /\ pc[t] = "enq_cas" /\ pos[t] = enqueue_pos =>
            sequence[Cell(pos[t])] = pos[t]
        /\ pc[t] = "deq_cas" /\ pos[t] = dequeue_pos =>
            sequence[Cell(pos[t])] = pos[t] + 1 /\ pos[t] < enqueue_pos

DeliveredPhase ==
    /\ \A d \in delivered :
        /\ d = <<d[1], d[2]>> /\ d[1] \in Nat /\ d[1] < dequeue_pos
        /\ d[2] = log[d[1]]
        /\ \A t \in Threads : DeqOwns(t) => pos[t] # d[1]
    /\ \A k \in 0 .. enqueue_pos - Capacity - 1 : IsDelivered(k)

\* The cell protocol: how positions, sequence words, payloads and the threads
\* inside a call constrain one another between any two atomic accesses.
CellProtocol ==
    PositionsOrdered /\ CellPhase /\ OwnerPhase /\ CasPhase /\ DeliveredPhase

----------------------------------------------------------------------------
(* Refinement *)

\* Tickets whose producer is not still writing them.
Published == {k \in 0 .. enqueue_pos - 1 : ~\E t \in Threads : EnqOwns(t) /\ pos[t] = k}

Queue == INSTANCE TicketQueue WITH
    accepted <- log, reserved <- enqueue_pos, published <- Published,
    claimed <- dequeue_pos

\* The ring implements the ticket queue: FIFO by reservation, each ticket
\* delivered once with its own payload, at most Capacity undelivered.
ImplementsTicketQueue == Queue!Spec
=============================================================================
