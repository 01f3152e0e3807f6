----------------------- MODULE FixedMpmcRing_proofs -----------------------
(***************************************************************************)
(* Proofs about FixedMpmcRing for every Capacity >= 2 and every set of      *)
(* threads: the cell protocol is an inductive invariant; payload integrity, *)
(* exclusive cells and honest full/empty answers follow from it, and so     *)
(* does the refinement of TicketQueue.                                      *)
(***************************************************************************)
EXTENDS FixedMpmcRing, TLAPS

----------------------------------------------------------------------------
(* Arithmetic of pos & kMask *)

\* Every ticket is a number of laps plus its cell.
LEMMA DivMod ==
    \A k \in Nat : /\ (k \div Capacity) \in Nat
                   /\ k = Capacity * (k \div Capacity) + Cell(k)
BY CapacityAssumption DEF Cell

\* Laps and cell of a ticket are determined by it.
LEMMA DivModUnique ==
    ASSUME NEW p \in Int, NEW q \in Int, NEW r \in Cells, NEW s \in Cells,
           Capacity * p + r = Capacity * q + s
    PROVE  p = q /\ r = s
<1>0. /\ Capacity \in Nat /\ Capacity >= 2
      /\ r \in 0 .. Capacity - 1 /\ s \in 0 .. Capacity - 1
  BY CapacityAssumption DEF Cells
<1>1. ASSUME NEW a \in Int, NEW b \in Int, a < b
      PROVE  Capacity * a + Capacity <= Capacity * b
  BY <1>0, <1>1
<1>2. CASE p < q BY <1>0, <1>1, <1>2
<1>3. CASE q < p BY <1>0, <1>1, <1>3
<1>4. CASE p = q BY <1>0, <1>4
<1> QED BY <1>2, <1>3, <1>4

\* pos & kMask indexes the array.
LEMMA CellType == \A k \in Nat : Cell(k) \in Cells
BY CapacityAssumption DEF Cell, Cells

\* In the first lap a ticket is its own cell.
LEMMA CellFirst == \A k \in Cells : Cell(k) = k
BY CapacityAssumption DEF Cell, Cells

\* One lap later a ticket is in the same cell.
LEMMA CellNext == \A k \in Nat : Cell(k + Capacity) = Cell(k)
<1> SUFFICES ASSUME NEW k \in Nat PROVE Cell(k + Capacity) = Cell(k)
  OBVIOUS
<1> DEFINE p == k \div Capacity
           q == (k + Capacity) \div Capacity
<1>1. Capacity * (p + 1) + Cell(k) = Capacity * q + Cell(k + Capacity)
  BY DivMod, CapacityAssumption DEF Cell
<1>2. p + 1 \in Int /\ q \in Int
  BY DivMod, CapacityAssumption
<1> HIDE DEF p, q
<1> QED BY <1>1, <1>2, DivModUnique, CellType, CapacityAssumption

\* Tickets less than a lap apart never share a cell.
LEMMA CellApart ==
    ASSUME NEW i \in Nat, NEW j \in Nat, i # j,
           i < j + Capacity, j < i + Capacity
    PROVE  Cell(i) # Cell(j)
<1> SUFFICES ASSUME Cell(i) = Cell(j) PROVE FALSE
  OBVIOUS
<1> DEFINE p == i \div Capacity
           q == j \div Capacity
<1>1. p \in Int /\ q \in Int
  BY DivMod, CapacityAssumption
<1>2. /\ i = Capacity * p + Cell(i)
      /\ j = Capacity * q + Cell(i)
      /\ Cell(i) \in Nat
  BY DivMod, CellType DEF Cells
<1> HIDE DEF p, q, Cell
<1>3. CASE i < j
  <2>1. q > p /\ q < p + 1 BY <1>1, <1>2, <1>3, CapacityAssumption
  <2> QED BY <2>1, <1>1
<1>4. CASE j < i
  <2>1. p > q /\ p < q + 1 BY <1>1, <1>2, <1>4, CapacityAssumption
  <2> QED BY <2>1, <1>1
<1> QED BY <1>3, <1>4

\* Every ticket below n has a successor of the last lap before n in its cell.
LEMMA LapOf ==
    ASSUME NEW n \in Nat, NEW p \in Nat, p < n
    PROVE  \E j \in 0 .. n - 1 : j >= n - Capacity /\ j >= p /\ Cell(j) = Cell(p)
<1> DEFINE m == (n - 1 - p) \div Capacity
           r == Cell(n - 1 - p)
           j == p + Capacity * m
<1> USE CapacityAssumption
<1>1. m \in Nat /\ r \in Cells /\ n - 1 - p = Capacity * m + r
  BY DivMod, CellType
<1> HIDE DEF m, r
<1>2. Capacity * m \in Nat
  BY <1>1
<1>3. j \in Nat /\ j = n - 1 - r /\ r \in 0 .. Capacity - 1
  BY <1>1, <1>2 DEF Cells
<1>4. Cell(j) = Cell(p)
  <2> DEFINE a == j \div Capacity
             b == p \div Capacity
  <2>1. /\ a \in Int /\ b + m \in Int
        /\ j = Capacity * a + Cell(j) /\ p = Capacity * b + Cell(p) /\ b \in Int
    BY <1>1, <1>3, DivMod
  <2>2. Cell(j) \in Cells /\ Cell(p) \in Cells /\ Cell(j) \in Int /\ Cell(p) \in Int
    BY <1>3, CellType DEF Cells
  <2> HIDE DEF a, b, Cell
  <2>3. Capacity * a + Cell(j) = Capacity * (b + m) + Cell(p)
    BY <1>1, <1>2, <2>1, <2>2
  <2>4. \A x, y \in Int : \A c, d \in Cells : Capacity * x + c = Capacity * y + d => c = d
    BY DivModUnique
  <2> HIDE DEF j
  <2> QED BY <2>1, <2>2, <2>3, <2>4
<1>5. j \in 0 .. n - 1 /\ j >= n - Capacity /\ j >= p
  BY <1>2, <1>3
<1> QED BY <1>4, <1>5

----------------------------------------------------------------------------
(* Type correctness *)

\* Returning from a call keeps the types of the thread's locals.
LEMMA ReturnType ==
    ASSUME TypeOK, NEW t \in Threads, Return(t)
    PROVE  /\ pc' \in [Threads -> {"idle"} \cup EnqPCs \cup DeqPCs]
           /\ pos' \in [Threads -> Nat]
           /\ arg' \in [Threads -> Values \cup {NoValue}]
<1>1. pc' \in [Threads -> {"idle"} \cup EnqPCs \cup DeqPCs]
  BY DEF TypeOK, Return, Goto
<1>2. pos' \in [Threads -> Nat]
  BY DEF TypeOK, Return, SetPos
<1>3. arg' \in [Threads -> Values \cup {NoValue}]
  BY DEF TypeOK, Return
<1> QED BY <1>1, <1>2, <1>3

\* Every step keeps the types: positions and sequence words are naturals,
\* cells are indexed within the array, and log covers exactly the reserved
\* tickets.
LEMMA TypeStep ==
    ASSUME TypeOK, CellProtocol, [Next]_vars
    PROVE  TypeOK'
<1> USE DEF vars, shared, local, history
<1>0. CASE UNCHANGED vars BY <1>0 DEF TypeOK
<1>1. CASE Reset
  BY <1>1 DEF TypeOK, Reset, Cells
<1>2. ASSUME NEW t \in Threads, try_enqueue(t) PROVE TypeOK'
  <2>1. ASSUME NEW v \in Values, EnqCall(t, v) PROVE TypeOK'
    BY <2>1 DEF TypeOK, EnqCall, SetPos, Goto, EnqPCs
  <2>2. CASE EnqCheck(t)
    BY <2>2, ReturnType DEF TypeOK, EnqCheck, Goto, EnqPCs
  <2>3. CASE EnqReload(t)
    BY <2>3 DEF TypeOK, EnqReload, SetPos, Goto, EnqPCs
  <2>4. CASE EnqReserve(t)
    <3>1. arg[t] \in Values
      BY <2>4 DEF CellProtocol, PositionsOrdered, EnqReserve, EnqPCs
    <3> QED BY <2>4, <3>1 DEF TypeOK, EnqReserve, Goto, EnqPCs
  <2>5. CASE EnqCasFail(t)
    BY <2>5 DEF TypeOK, EnqCasFail, SetPos, Goto, EnqPCs
  <2>6. CASE EnqWrite(t)
    BY <2>6 DEF TypeOK, EnqWrite, Goto, EnqPCs
  <2>7. CASE EnqPublish(t)
    <3>1. sequence' \in [Cells -> Nat]
      <4>1. pos[t] + 1 \in Nat /\ sequence \in [Cells -> Nat]
        BY DEF TypeOK
      <4>2. sequence' = [sequence EXCEPT ![Cell(pos[t])] = pos[t] + 1]
        BY <2>7 DEF EnqPublish
      <4> QED BY <4>1, <4>2
    <3>2. Return(t) /\ UNCHANGED <<value, enqueue_pos, dequeue_pos, log>>
      BY <2>7 DEF EnqPublish
    <3> QED BY <3>1, <3>2, ReturnType DEF TypeOK
  <2> QED BY <1>2, <2>1, <2>2, <2>3, <2>4, <2>5, <2>6, <2>7 DEF try_enqueue
<1>3. ASSUME NEW t \in Threads, try_dequeue(t) PROVE TypeOK'
  <2>1. CASE DeqCall(t)
    BY <2>1 DEF TypeOK, DeqCall, SetPos, Goto, DeqPCs
  <2>2. CASE DeqCheck(t)
    BY <2>2, ReturnType DEF TypeOK, DeqCheck, Goto, DeqPCs
  <2>3. CASE DeqReload(t)
    BY <2>3 DEF TypeOK, DeqReload, SetPos, Goto, DeqPCs
  <2>4. CASE DeqClaim(t)
    BY <2>4 DEF TypeOK, DeqClaim, Goto, DeqPCs
  <2>5. CASE DeqCasFail(t)
    BY <2>5 DEF TypeOK, DeqCasFail, SetPos, Goto, DeqPCs
  <2>6. CASE DeqRead(t)
    BY <2>6, CellType DEF TypeOK, DeqRead, Goto, DeqPCs
  <2>7. CASE DeqRelease(t)
    <3>1. sequence' \in [Cells -> Nat]
      <4>1. pos[t] + Capacity \in Nat /\ sequence \in [Cells -> Nat]
        BY CapacityAssumption DEF TypeOK
      <4>2. sequence' = [sequence EXCEPT ![Cell(pos[t])] = pos[t] + Capacity]
        BY <2>7 DEF DeqRelease
      <4> QED BY <4>1, <4>2
    <3>2. Return(t) /\ UNCHANGED <<value, enqueue_pos, dequeue_pos, log>>
      BY <2>7 DEF DeqRelease
    <3> QED BY <3>1, <3>2, ReturnType DEF TypeOK
  <2> QED BY <1>3, <2>1, <2>2, <2>3, <2>4, <2>5, <2>6, <2>7 DEF try_dequeue
<1> QED BY <1>0, <1>1, <1>2, <1>3 DEF Next

----------------------------------------------------------------------------
(* The cell protocol, action by action *)

\* Only thread t moves.
OnlyMoves(t) ==
    \A u \in Threads \ {t} :
        pc'[u] = pc[u] /\ pos'[u] = pos[u] /\ arg'[u] = arg[u]

\* Steps of the retry loops: they touch only the locals of a thread that
\* holds no reservation before or after.
LEMMA LoopStep ==
    ASSUME TypeOK, CellProtocol, NEW t \in Threads,
           UNCHANGED <<shared, history>>, OnlyMoves(t),
           ~Owns(t), ~Owns(t)',
           pc'[t] \in {"enq_check", "enq_reload", "enq_cas"} =>
               pos'[t] <= enqueue_pos /\ arg'[t] \in Values,
           pc'[t] \in {"deq_check", "deq_reload", "deq_cas"} =>
               pos'[t] <= dequeue_pos,
           pc'[t] = "enq_cas" => sequence[Cell(pos'[t])] = pos'[t],
           pc'[t] = "deq_cas" /\ pos'[t] = dequeue_pos =>
               sequence[Cell(pos'[t])] = pos'[t] + 1 /\ pos'[t] < enqueue_pos
    PROVE  CellProtocol'
<1> USE DEF shared, history
<1>1. PositionsOrdered'
  BY DEF CellProtocol, PositionsOrdered, OnlyMoves, EnqPCs, Owns, EnqOwns
<1>2. \A u \in Threads :
         /\ EnqOwns(u)' <=> EnqOwns(u)
         /\ DeqOwns(u)' <=> DeqOwns(u)
         /\ Owns(u)' <=> Owns(u)
         /\ Owns(u) => pos'[u] = pos[u] /\ arg'[u] = arg[u] /\ pc'[u] = pc[u]
  BY DEF OnlyMoves, Owns, EnqOwns, DeqOwns
<1>3. CellPhase'
  BY <1>2 DEF CellProtocol, CellPhase, IsDelivered, Owns
<1>4. OwnerPhase'
  BY <1>2 DEF CellProtocol, OwnerPhase, Owns, InLap
<1>5. CasPhase'
  BY DEF CellProtocol, CasPhase, OnlyMoves
<1>6. DeliveredPhase'
  BY <1>2 DEF CellProtocol, DeliveredPhase, IsDelivered, Owns
<1> QED BY <1>1, <1>3, <1>4, <1>5, <1>6 DEF CellProtocol

\* The cell of the next ticket: its word is at most enqueue_pos, and equals it
\* only in the first lap or once the ticket one lap back is delivered.
LEMMA NextTicketCell ==
    ASSUME TypeOK, CellProtocol
    PROVE  /\ sequence[Cell(enqueue_pos)] <= enqueue_pos
           /\ sequence[Cell(enqueue_pos)] = enqueue_pos =>
                \/ enqueue_pos < Capacity
                \/ IsDelivered(enqueue_pos - Capacity) /\ enqueue_pos - Capacity < dequeue_pos
           /\ sequence[Cell(enqueue_pos)] < enqueue_pos =>
                /\ enqueue_pos >= Capacity
                /\ \/ enqueue_pos - Capacity >= dequeue_pos
                   \/ \E t \in Threads : DeqOwns(t) /\ pos[t] = enqueue_pos - Capacity
<1> USE CapacityAssumption
<1>0. enqueue_pos \in Nat /\ dequeue_pos \in Nat
  BY DEF TypeOK
<1>1. CASE enqueue_pos < Capacity
  <2>1. enqueue_pos \in Cells
    BY <1>0, <1>1 DEF Cells
  <2>2. Cell(enqueue_pos) = enqueue_pos
    BY <2>1, CellFirst
  <2> QED BY <1>0, <1>1, <2>1, <2>2 DEF CellProtocol, CellPhase
<1>2. CASE enqueue_pos >= Capacity
  <2> DEFINE k == enqueue_pos - Capacity
  <2>1. k \in Nat /\ k \in 0 .. enqueue_pos - 1 /\ enqueue_pos = k + Capacity
    BY <1>0, <1>2
  <2>2. Cell(enqueue_pos) = Cell(k)
    BY <2>1, CellNext
  <2>3. CASE \E t \in Threads : EnqOwns(t) /\ pos[t] = k
    <3>1. sequence[Cell(k)] = k /\ k >= dequeue_pos
      BY <2>3 DEF CellProtocol, OwnerPhase
    <3> QED BY <1>0, <1>2, <2>1, <2>2, <3>1
  <2>4. CASE sequence[Cell(k)] = k + 1
    BY <1>0, <1>2, <2>1, <2>2, <2>4 DEF CellProtocol, CellPhase
  <2>5. CASE sequence[Cell(k)] = k + Capacity /\ k < dequeue_pos /\ IsDelivered(k)
    BY <1>0, <1>2, <2>1, <2>2, <2>5
  <2> QED BY <2>1, <2>3, <2>4, <2>5 DEF CellProtocol, CellPhase
<1> QED BY <1>0, <1>1, <1>2

\* The steps of try_enqueue before its reservation preserve the protocol.
LEMMA EnqLoop ==
    ASSUME TypeOK, CellProtocol, NEW t \in Threads, NEW v \in Values,
           EnqCall(t, v) \/ EnqCheck(t) \/ EnqReload(t) \/ EnqCasFail(t)
    PROVE  CellProtocol'
<1> USE DEF Owns, EnqOwns, DeqOwns, OnlyMoves, Goto, SetPos, Return
<1>0. /\ enqueue_pos \in Nat /\ t \in DOMAIN pc /\ t \in DOMAIN pos /\ t \in DOMAIN arg
      /\ pos[t] \in Nat
      /\ pc[t] \in {"enq_check", "enq_reload", "enq_cas"} =>
            pos[t] <= enqueue_pos /\ arg[t] \in Values
  BY DEF TypeOK, CellProtocol, PositionsOrdered, EnqPCs
<1>1. CASE EnqCall(t, v)
  <2>1. ~Owns(t) /\ ~Owns(t)' /\ OnlyMoves(t) /\ UNCHANGED <<shared, history>>
    BY <1>0, <1>1 DEF EnqCall
  <2>2. pc'[t] = "enq_check" /\ pos'[t] = enqueue_pos /\ arg'[t] \in Values
    BY <1>0, <1>1 DEF EnqCall
  <2> QED BY <1>0, <2>1, <2>2, LoopStep
<1>2. CASE EnqCheck(t)
  <2>0. UNCHANGED <<shared, history>> /\ ~Owns(t)
    BY <1>2 DEF EnqCheck
  <2>1. CASE sequence[Cell(pos[t])] - pos[t] = 0 /\ Goto(t, "enq_cas") /\ UNCHANGED <<pos, arg>>
    <3>1. sequence[Cell(pos[t])] = pos[t]
      BY <1>0, <2>1, CellType DEF TypeOK
    <3>2. OnlyMoves(t) /\ ~Owns(t)' /\ pc'[t] = "enq_cas"
      BY <1>0, <2>1
    <3>3. pos'[t] = pos[t] /\ pos[t] <= enqueue_pos /\ arg'[t] \in Values
      BY <1>0, <1>2, <2>1 DEF EnqCheck
    <3> QED BY <2>0, <3>1, <3>2, <3>3, LoopStep
  <2>2. CASE Return(t)
    <3>1. OnlyMoves(t) /\ ~Owns(t)' /\ pc'[t] = "idle"
      BY <1>0, <2>2
    <3> QED BY <2>0, <3>1, LoopStep
  <2>3. CASE Goto(t, "enq_reload") /\ UNCHANGED <<pos, arg>>
    <3>1. OnlyMoves(t) /\ ~Owns(t)' /\ pc'[t] = "enq_reload"
      BY <1>0, <2>3
    <3>2. pos'[t] <= enqueue_pos /\ arg'[t] \in Values
      BY <1>0, <1>2, <2>3 DEF EnqCheck
    <3> QED BY <2>0, <3>1, <3>2, LoopStep
  <2> QED BY <1>2, <2>1, <2>2, <2>3 DEF EnqCheck
<1>3. CASE EnqReload(t) \/ EnqCasFail(t)
  <2>1. ~Owns(t) /\ ~Owns(t)' /\ OnlyMoves(t) /\ UNCHANGED <<shared, history>>
    <3>1. CASE EnqReload(t)  BY <1>0, <3>1 DEF EnqReload
    <3>2. CASE EnqCasFail(t) BY <1>0, <3>2 DEF EnqCasFail
    <3> QED BY <1>3, <3>1, <3>2
  <2>2. pc'[t] = "enq_check" /\ pos'[t] = enqueue_pos /\ arg'[t] \in Values
    <3>1. CASE EnqReload(t)  BY <1>0, <3>1 DEF EnqReload
    <3>2. CASE EnqCasFail(t) BY <1>0, <3>2 DEF EnqCasFail
    <3> QED BY <1>3, <3>1, <3>2
  <2> QED BY <1>0, <2>1, <2>2, LoopStep
<1> QED BY <1>1, <1>2, <1>3

\* The steps of try_dequeue before its claim preserve the protocol.
LEMMA DeqLoop ==
    ASSUME TypeOK, CellProtocol, NEW t \in Threads,
           DeqCall(t) \/ DeqCheck(t) \/ DeqReload(t) \/ DeqCasFail(t)
    PROVE  CellProtocol'
<1> USE DEF Owns, EnqOwns, DeqOwns, OnlyMoves, Goto, SetPos, Return
<1>0. /\ enqueue_pos \in Nat /\ dequeue_pos \in Nat /\ dequeue_pos <= enqueue_pos
      /\ t \in DOMAIN pc /\ t \in DOMAIN pos /\ t \in DOMAIN arg
      /\ pos[t] \in Nat
      /\ pc[t] \in {"deq_check", "deq_reload", "deq_cas"} => pos[t] <= dequeue_pos
  BY DEF TypeOK, CellProtocol, PositionsOrdered
<1>1. CASE DeqCall(t) \/ DeqReload(t) \/ DeqCasFail(t)
  <2>1. ~Owns(t) /\ ~Owns(t)' /\ OnlyMoves(t) /\ UNCHANGED <<shared, history>>
    <3>1. CASE DeqCall(t)    BY <1>0, <3>1 DEF DeqCall
    <3>2. CASE DeqReload(t)  BY <1>0, <3>2 DEF DeqReload
    <3>3. CASE DeqCasFail(t) BY <1>0, <3>3 DEF DeqCasFail
    <3> QED BY <1>1, <3>1, <3>2, <3>3
  <2>2. pc'[t] = "deq_check" /\ pos'[t] = dequeue_pos
    <3>1. CASE DeqCall(t)    BY <1>0, <3>1 DEF DeqCall
    <3>2. CASE DeqReload(t)  BY <1>0, <3>2 DEF DeqReload
    <3>3. CASE DeqCasFail(t) BY <1>0, <3>3 DEF DeqCasFail
    <3> QED BY <1>1, <3>1, <3>2, <3>3
  <2> QED BY <1>0, <2>1, <2>2, LoopStep
<1>2. CASE DeqCheck(t)
  <2>0. UNCHANGED <<shared, history>> /\ ~Owns(t)
    BY <1>2 DEF DeqCheck
  <2>1. CASE /\ sequence[Cell(pos[t])] - (pos[t] + 1) = 0
             /\ Goto(t, "deq_cas") /\ UNCHANGED <<pos, arg>>
    <3>1. sequence[Cell(pos[t])] = pos[t] + 1
      BY <1>0, <2>1, CellType DEF TypeOK
    <3>2. OnlyMoves(t) /\ ~Owns(t)' /\ pc'[t] = "deq_cas" /\ pos'[t] = pos[t]
      BY <1>0, <2>1
    <3>3. pos[t] <= dequeue_pos /\ (pos[t] = dequeue_pos => pos[t] < enqueue_pos)
      BY <1>0, <1>2, <3>1, NextTicketCell DEF DeqCheck
    <3> QED BY <2>0, <3>1, <3>2, <3>3, LoopStep
  <2>2. CASE Return(t)
    <3>1. OnlyMoves(t) /\ ~Owns(t)' /\ pc'[t] = "idle"
      BY <1>0, <2>2
    <3> QED BY <2>0, <3>1, LoopStep
  <2>3. CASE Goto(t, "deq_reload") /\ UNCHANGED <<pos, arg>>
    <3>1. OnlyMoves(t) /\ ~Owns(t)' /\ pc'[t] = "deq_reload" /\ pos'[t] <= dequeue_pos
      BY <1>0, <1>2, <2>3 DEF DeqCheck
    <3> QED BY <2>0, <3>1, LoopStep
  <2> QED BY <1>2, <2>1, <2>2, <2>3 DEF DeqCheck
<1> QED BY <1>1, <1>2

\* Two tickets of the current lap in one cell are the same ticket.
LEMMA LapCell ==
    ASSUME TypeOK, NEW i, NEW j, InLap(i), InLap(j), Cell(i) = Cell(j)
    PROVE  i = j
BY CellApart, CapacityAssumption DEF InLap, TypeOK

\* The reservation CAS: ticket enqueue_pos enters the lap, owned by t, and the
\* ticket it displaces has been delivered.
LEMMA ReserveStep ==
    ASSUME TypeOK, CellProtocol, NEW t \in Threads, EnqReserve(t)
    PROVE  CellProtocol'
<1> USE CapacityAssumption
<1>0. /\ enqueue_pos \in Nat /\ dequeue_pos \in Nat /\ dequeue_pos <= enqueue_pos
      /\ sequence \in [Cells -> Nat] /\ pos \in [Threads -> Nat]
      /\ pos[t] = enqueue_pos /\ enqueue_pos' = enqueue_pos + 1
      /\ pc[t] = "enq_cas" /\ pc' = [pc EXCEPT ![t] = "enq_write"]
      /\ t \in DOMAIN pc
      /\ UNCHANGED <<sequence, value, dequeue_pos, pos, arg, delivered>>
      /\ sequence[Cell(enqueue_pos)] = enqueue_pos
      /\ arg[t] \in Values
  BY DEF TypeOK, CellProtocol, PositionsOrdered, CasPhase, EnqReserve, Goto, EnqPCs
<1>1. /\ log'[enqueue_pos] = arg[t]
      /\ \A k \in 0 .. enqueue_pos - 1 : log'[k] = log[k]
  BY <1>0 DEF EnqReserve
<1>2. \/ enqueue_pos < Capacity
      \/ IsDelivered(enqueue_pos - Capacity) /\ enqueue_pos - Capacity < dequeue_pos
  BY <1>0, NextTicketCell
<1>3. \A u \in Threads :
        /\ u # t => (EnqOwns(u)' <=> EnqOwns(u)) /\ (Owns(u)' <=> Owns(u)) /\ pc'[u] = pc[u]
        /\ DeqOwns(u)' <=> DeqOwns(u)
  BY <1>0 DEF EnqOwns, DeqOwns, Owns
<1>4. EnqOwns(t)' /\ ~DeqOwns(t)' /\ Owns(t)' /\ pc'[t] = "enq_write" /\ ~Owns(t)
  BY <1>0 DEF EnqOwns, DeqOwns, Owns
<1>5. \A u \in Threads : Owns(u) =>
        pos[u] # enqueue_pos /\ pos[u] # enqueue_pos - Capacity /\ InLap(pos[u])
  <2>1. SUFFICES ASSUME NEW u \in Threads, Owns(u)
                 PROVE  pos[u] # enqueue_pos - Capacity /\ InLap(pos[u])
    BY <1>0 DEF InLap
  <2>2. InLap(pos[u]) /\ sequence[Cell(pos[u])] \in {pos[u], pos[u] + 1} /\ pos[u] \in Nat
    BY <1>0, <2>1 DEF Owns, CellProtocol, OwnerPhase
  <2>3. ASSUME pos[u] = enqueue_pos - Capacity PROVE FALSE
    <3>1. Cell(enqueue_pos) = Cell(pos[u])
      BY <1>0, <2>2, <2>3, CellNext
    <3> QED BY <1>0, <2>2, <2>3, <3>1
  <2> QED BY <2>2, <2>3
<1>6. PositionsOrdered'
  BY <1>0, <1>2, <1>3, <1>4 DEF CellProtocol, PositionsOrdered, EnqPCs
<1>7. CellPhase'
  <2>1. ASSUME NEW c \in Cells, c >= enqueue_pos' PROVE sequence'[c] = c
    BY <1>0, <2>1 DEF CellProtocol, CellPhase, Cells
  <2>2. ASSUME NEW k \in 0 .. enqueue_pos, k >= enqueue_pos + 1 - Capacity
        PROVE  \/ /\ sequence'[Cell(k)] = k
                  /\ \E u \in Threads : EnqOwns(u)' /\ pos'[u] = k
               \/ /\ sequence'[Cell(k)] = k + 1
                  /\ k >= dequeue_pos'
                  /\ value'[Cell(k)] = log'[k]
               \/ /\ sequence'[Cell(k)] = k + 1
                  /\ \E u \in Threads : DeqOwns(u)' /\ pos'[u] = k
               \/ /\ sequence'[Cell(k)] = k + Capacity
                  /\ k < dequeue_pos'
                  /\ IsDelivered(k)'
    <3>1. CASE k = enqueue_pos
      BY <1>0, <1>4, <3>1
    <3>2. CASE k # enqueue_pos
      <4>1. k \in 0 .. enqueue_pos - 1 /\ k >= enqueue_pos - Capacity /\ log'[k] = log[k]
        BY <1>0, <1>1, <2>2, <3>2
      <4>2. IsDelivered(k)' <=> IsDelivered(k)
        BY <1>0 DEF IsDelivered
      <4>3. \A u \in Threads : EnqOwns(u) => EnqOwns(u)'
        BY <1>3, <1>4
      <4> QED BY <1>0, <1>3, <4>1, <4>2, <4>3 DEF CellProtocol, CellPhase
    <3> QED BY <3>1, <3>2
  <2> QED BY <1>0, <2>1, <2>2 DEF CellPhase
<1>8. OwnerPhase'
  <2>1. ASSUME NEW u \in Threads, EnqOwns(u)'
        PROVE  /\ InLap(pos[u])' /\ pos'[u] >= dequeue_pos'
               /\ sequence'[Cell(pos'[u])] = pos'[u]
               /\ arg'[u] = log'[pos'[u]]
               /\ pc'[u] = "enq_publish" => value'[Cell(pos'[u])] = arg'[u]
    <3>1. CASE u = t
      BY <1>0, <1>1, <1>4, <3>1 DEF InLap
    <3>2. CASE u # t
      BY <1>0, <1>1, <1>3, <1>5, <2>1, <3>2 DEF CellProtocol, OwnerPhase, InLap, Owns
    <3> QED BY <3>1, <3>2
  <2>2. ASSUME NEW u \in Threads, DeqOwns(u)'
        PROVE  /\ InLap(pos[u])' /\ pos'[u] < dequeue_pos'
               /\ sequence'[Cell(pos'[u])] = pos'[u] + 1
               /\ value'[Cell(pos'[u])] = log'[pos'[u]]
               /\ pc'[u] = "deq_release" => arg'[u] = log'[pos'[u]]
    BY <1>0, <1>1, <1>3, <1>4, <1>5, <2>2 DEF CellProtocol, OwnerPhase, InLap, Owns
  <2>3. ASSUME NEW u \in Threads, NEW w \in Threads, u # w, Owns(u)', Owns(w)'
        PROVE  pos'[u] # pos'[w]
    BY <1>0, <1>3, <1>5, <2>3 DEF CellProtocol, OwnerPhase
  <2> QED BY <2>1, <2>2, <2>3 DEF OwnerPhase
<1>9. CasPhase'
  BY <1>0, <1>3, <1>4 DEF CellProtocol, CasPhase, PositionsOrdered
<1>10. DeliveredPhase'
  <2>1. ASSUME NEW d \in delivered
        PROVE  /\ d = <<d[1], d[2]>> /\ d[1] \in Nat /\ d[1] < dequeue_pos'
               /\ d[2] = log'[d[1]]
               /\ \A u \in Threads : DeqOwns(u)' => pos'[u] # d[1]
    BY <1>0, <1>1, <1>3 DEF CellProtocol, DeliveredPhase
  <2>2. ASSUME NEW k \in 0 .. enqueue_pos' - Capacity - 1 PROVE IsDelivered(k)'
    BY <1>0, <1>2, <2>2 DEF CellProtocol, DeliveredPhase, IsDelivered
  <2> QED BY <1>0, <2>1, <2>2 DEF DeliveredPhase
<1> QED BY <1>6, <1>7, <1>8, <1>9, <1>10 DEF CellProtocol

\* The payload copies: a producer's cell holds no ready payload and no other
\* owner, so writing it disturbs nobody; a consumer reads what was published.
LEMMA CopyStep ==
    ASSUME TypeOK, CellProtocol, NEW t \in Threads, EnqWrite(t) \/ DeqRead(t)
    PROVE  CellProtocol'
<1> USE CapacityAssumption
<1>0. /\ enqueue_pos \in Nat /\ dequeue_pos \in Nat
      /\ pos \in [Threads -> Nat] /\ arg \in [Threads -> Values \cup {NoValue}]
      /\ sequence \in [Cells -> Nat] /\ value \in [Cells -> Values \cup {NoValue}]
      /\ t \in DOMAIN pc /\ t \in DOMAIN arg /\ Cell(pos[t]) \in DOMAIN value
  BY CellType DEF TypeOK
<1>1. CASE EnqWrite(t)
  <2>0. /\ pc[t] = "enq_write" /\ pc' = [pc EXCEPT ![t] = "enq_publish"]
        /\ value' = [value EXCEPT ![Cell(pos[t])] = arg[t]]
        /\ UNCHANGED <<sequence, enqueue_pos, dequeue_pos, pos, arg, log, delivered>>
    BY <1>1 DEF EnqWrite, Goto, history
  <2>1. EnqOwns(t) /\ Owns(t) /\ InLap(pos[t]) /\ sequence[Cell(pos[t])] = pos[t]
    BY <2>0 DEF CellProtocol, OwnerPhase, EnqOwns, Owns
  <2>2. \A u \in Threads :
          /\ EnqOwns(u)' <=> EnqOwns(u)
          /\ DeqOwns(u)' <=> DeqOwns(u)
          /\ Owns(u)' <=> Owns(u)
          /\ u # t => pc'[u] = pc[u]
    BY <1>0, <2>0 DEF EnqOwns, DeqOwns, Owns
  <2>3. value'[Cell(pos[t])] = arg[t] /\ pc'[t] = "enq_publish"
    BY <1>0, <2>0
  <2>4. \A k : InLap(k) /\ k # pos[t] => value'[Cell(k)] = value[Cell(k)]
    BY <1>0, <2>0, <2>1, LapCell
  <2>5. PositionsOrdered'
    BY <1>0, <2>0, <2>2, <2>3 DEF CellProtocol, PositionsOrdered, EnqPCs
  <2>6. CellPhase'
    <3>1. \A k \in 0 .. enqueue_pos - 1 :
             sequence[Cell(k)] = k + 1 /\ k >= enqueue_pos - Capacity =>
               value'[Cell(k)] = value[Cell(k)]
      BY <1>0, <2>1, <2>4 DEF InLap
    <3>2. \A k : IsDelivered(k)' <=> IsDelivered(k)
      BY <2>0 DEF IsDelivered
    <3> QED BY <2>0, <2>2, <3>1, <3>2 DEF CellProtocol, CellPhase
  <2>7. OwnerPhase'
    <3>1. \A u \in Threads : Owns(u) /\ u # t =>
            pos[u] # pos[t] /\ InLap(pos[u]) /\ value'[Cell(pos[u])] = value[Cell(pos[u])]
      BY <2>1, <2>4 DEF CellProtocol, OwnerPhase, Owns
    <3> QED BY <2>0, <2>1, <2>2, <2>3, <3>1 DEF CellProtocol, OwnerPhase, Owns, EnqOwns, DeqOwns, InLap
  <2>8. CasPhase'
    BY <1>0, <2>0, <2>2, <2>3 DEF CellProtocol, CasPhase
  <2>9. DeliveredPhase'
    BY <2>0, <2>2 DEF CellProtocol, DeliveredPhase, IsDelivered
  <2> QED BY <2>5, <2>6, <2>7, <2>8, <2>9 DEF CellProtocol
<1>2. CASE DeqRead(t)
  <2>0. /\ pc[t] = "deq_read" /\ pc' = [pc EXCEPT ![t] = "deq_release"]
        /\ arg' = [arg EXCEPT ![t] = value[Cell(pos[t])]]
        /\ UNCHANGED <<sequence, value, enqueue_pos, dequeue_pos, pos, log, delivered>>
    BY <1>2 DEF DeqRead, Goto, shared, history
  <2>1. \A u \in Threads :
          /\ EnqOwns(u)' <=> EnqOwns(u)
          /\ DeqOwns(u)' <=> DeqOwns(u)
          /\ Owns(u)' <=> Owns(u)
          /\ u # t => pc'[u] = pc[u] /\ arg'[u] = arg[u]
    BY <1>0, <2>0 DEF EnqOwns, DeqOwns, Owns
  <2>2. /\ DeqOwns(t) /\ ~EnqOwns(t)
        /\ arg'[t] = value[Cell(pos[t])] /\ pc'[t] = "deq_release"
    BY <1>0, <2>0 DEF DeqOwns, EnqOwns
  <2>3. PositionsOrdered'
    BY <1>0, <2>0, <2>1, <2>2 DEF CellProtocol, PositionsOrdered, EnqPCs
  <2>4. CellPhase'
    BY <2>0, <2>1 DEF CellProtocol, CellPhase, IsDelivered
  <2>5. OwnerPhase'
    BY <2>0, <2>1, <2>2 DEF CellProtocol, OwnerPhase, InLap
  <2>6. CasPhase'
    BY <2>0, <2>1, <2>2 DEF CellProtocol, CasPhase
  <2>7. DeliveredPhase'
    BY <2>0, <2>1 DEF CellProtocol, DeliveredPhase, IsDelivered
  <2> QED BY <2>3, <2>4, <2>5, <2>6, <2>7 DEF CellProtocol
<1> QED BY <1>1, <1>2

\* The publication store: ticket pos[t] becomes ready with its own payload.
LEMMA PublishStep ==
    ASSUME TypeOK, CellProtocol, NEW t \in Threads, EnqPublish(t)
    PROVE  CellProtocol'
<1> USE CapacityAssumption
<1> DEFINE k0 == pos[t]
<1>0. /\ enqueue_pos \in Nat /\ dequeue_pos \in Nat
      /\ pos \in [Threads -> Nat] /\ sequence \in [Cells -> Nat]
      /\ t \in DOMAIN pc /\ t \in DOMAIN arg /\ t \in DOMAIN pos
      /\ Cell(k0) \in Cells /\ k0 \in Nat
  BY CellType DEF TypeOK
<1>1. /\ pc[t] = "enq_publish" /\ pc' = [pc EXCEPT ![t] = "idle"]
      /\ pos' = [pos EXCEPT ![t] = 0] /\ arg' = [arg EXCEPT ![t] = NoValue]
      /\ sequence' = [sequence EXCEPT ![Cell(k0)] = k0 + 1]
      /\ UNCHANGED <<value, enqueue_pos, dequeue_pos, log, delivered>>
  BY DEF EnqPublish, Goto, SetPos, Return, history
<1>2. /\ EnqOwns(t) /\ ~DeqOwns(t) /\ InLap(k0) /\ k0 >= dequeue_pos
      /\ sequence[Cell(k0)] = k0 /\ value[Cell(k0)] = log[k0]
  BY <1>1 DEF CellProtocol, OwnerPhase, EnqOwns, DeqOwns
<1>3. \A u \in Threads :
        /\ u # t => /\ (EnqOwns(u)' <=> EnqOwns(u)) /\ (Owns(u)' <=> Owns(u))
                    /\ pc'[u] = pc[u] /\ pos'[u] = pos[u] /\ arg'[u] = arg[u]
        /\ DeqOwns(u)' <=> DeqOwns(u)
  BY <1>0, <1>1 DEF EnqOwns, DeqOwns, Owns
<1>4. ~Owns(t)' /\ ~EnqOwns(t)' /\ ~DeqOwns(t)' /\ pc'[t] = "idle" /\ sequence'[Cell(k0)] = k0 + 1
  BY <1>0, <1>1 DEF EnqOwns, DeqOwns, Owns
<1>5. \A k : InLap(k) /\ k # k0 => sequence'[Cell(k)] = sequence[Cell(k)]
  BY <1>0, <1>1, <1>2, LapCell
<1>6. \A u \in Threads : Owns(u) /\ u # t => pos[u] # k0 /\ InLap(pos[u])
  BY <1>2 DEF CellProtocol, OwnerPhase, Owns
<1>7. PositionsOrdered'
  BY <1>0, <1>1, <1>3, <1>4 DEF CellProtocol, PositionsOrdered, EnqPCs
<1>8. CellPhase'
  <2>1. ASSUME NEW c \in Cells, c >= enqueue_pos' PROVE sequence'[c] = c
    <3>1. sequence[c] = c /\ c \in Nat /\ c >= enqueue_pos
      BY <1>1, <2>1 DEF CellProtocol, CellPhase, Cells
    <3>2. Cell(c) = c
      BY CellFirst
    <3>3. Cell(k0) # Cell(c)
      BY <1>0, <1>2, <2>1, <3>1, CellApart DEF InLap, Cells
    <3> QED BY <1>0, <1>1, <3>1, <3>2, <3>3
  <2>2. \A k : IsDelivered(k)' <=> IsDelivered(k)
    BY <1>1 DEF IsDelivered
  <2>3. ASSUME NEW k \in 0 .. enqueue_pos - 1, k >= enqueue_pos - Capacity
        PROVE  \/ /\ sequence'[Cell(k)] = k
                  /\ \E u \in Threads : EnqOwns(u)' /\ pos'[u] = k
               \/ /\ sequence'[Cell(k)] = k + 1
                  /\ k >= dequeue_pos'
                  /\ value'[Cell(k)] = log'[k]
               \/ /\ sequence'[Cell(k)] = k + 1
                  /\ \E u \in Threads : DeqOwns(u)' /\ pos'[u] = k
               \/ /\ sequence'[Cell(k)] = k + Capacity
                  /\ k < dequeue_pos'
                  /\ IsDelivered(k)'
    <3>1. CASE k = k0
      BY <1>1, <1>2, <1>4, <3>1
    <3>2. CASE k # k0
      <4>1. sequence'[Cell(k)] = sequence[Cell(k)]
        BY <1>5, <2>3, <3>2 DEF InLap
      <4>2. \A u \in Threads : EnqOwns(u) /\ pos[u] = k => EnqOwns(u)' /\ pos'[u] = k
        BY <1>3, <3>2
      <4>3. \A u \in Threads : DeqOwns(u) /\ pos[u] = k => DeqOwns(u)' /\ pos'[u] = k
        BY <1>2, <1>3, <3>2
      <4> QED BY <1>1, <2>2, <2>3, <4>1, <4>2, <4>3 DEF CellProtocol, CellPhase
    <3> QED BY <3>1, <3>2
  <2> QED BY <1>1, <2>1, <2>3 DEF CellPhase
<1>9. OwnerPhase'
  BY <1>1, <1>3, <1>4, <1>5, <1>6 DEF CellProtocol, OwnerPhase, InLap, Owns
<1>10. CasPhase'
  <2>1. ASSUME NEW u \in Threads, pc'[u] = "enq_cas", pos'[u] = enqueue_pos'
        PROVE  sequence'[Cell(pos'[u])] = pos'[u]
    <3>1. Cell(pos[u]) \in Cells /\ sequence[Cell(pos[u])] = pos[u] /\ pos'[u] = pos[u]
      BY <1>1, <1>3, <1>4, <2>1, CellType DEF CellProtocol, CasPhase, TypeOK
    <3>2. Cell(pos[u]) # Cell(k0)
      BY <1>0, <1>1, <1>2, <2>1, <3>1 DEF InLap
    <3> QED BY <1>0, <1>1, <3>1, <3>2
  <2>2. ASSUME NEW u \in Threads, pc'[u] = "deq_cas", pos'[u] = dequeue_pos'
        PROVE  sequence'[Cell(pos'[u])] = pos'[u] + 1 /\ pos'[u] < enqueue_pos'
    <3>1. /\ Cell(pos[u]) \in Cells /\ sequence[Cell(pos[u])] = pos[u] + 1
          /\ pos'[u] = pos[u] /\ pos[u] < enqueue_pos /\ pos[u] = dequeue_pos
      BY <1>1, <1>3, <1>4, <2>2, CellType DEF CellProtocol, CasPhase, TypeOK
    <3>2. InLap(pos[u])
      BY <1>0, <3>1 DEF InLap, CellProtocol, PositionsOrdered
    <3>3. pos[u] # k0
      BY <1>0, <1>2, <3>1
    <3> QED BY <1>1, <1>5, <3>1, <3>2, <3>3
  <2> QED BY <2>1, <2>2 DEF CasPhase
<1>11. DeliveredPhase'
  BY <1>1, <1>2, <1>3 DEF CellProtocol, DeliveredPhase, IsDelivered
<1> QED BY <1>7, <1>8, <1>9, <1>10, <1>11 DEF CellProtocol

\* The claim CAS: the oldest ready ticket passes to consumer t.
LEMMA ClaimStep ==
    ASSUME TypeOK, CellProtocol, NEW t \in Threads, DeqClaim(t)
    PROVE  CellProtocol'
<1> USE CapacityAssumption
<1>0. /\ enqueue_pos \in Nat /\ dequeue_pos \in Nat
      /\ pos \in [Threads -> Nat] /\ sequence \in [Cells -> Nat] /\ t \in DOMAIN pc
      /\ pos[t] = dequeue_pos /\ dequeue_pos' = dequeue_pos + 1
      /\ pc[t] = "deq_cas" /\ pc' = [pc EXCEPT ![t] = "deq_read"]
      /\ UNCHANGED <<sequence, value, enqueue_pos, pos, arg, log, delivered>>
      /\ sequence[Cell(dequeue_pos)] = dequeue_pos + 1 /\ dequeue_pos < enqueue_pos
      /\ enqueue_pos <= dequeue_pos + Capacity
  BY DEF TypeOK, CellProtocol, PositionsOrdered, CasPhase, DeqClaim, Goto, history
<1>1. \A u \in Threads :
        /\ u # t => (DeqOwns(u)' <=> DeqOwns(u)) /\ (Owns(u)' <=> Owns(u)) /\ pc'[u] = pc[u]
        /\ EnqOwns(u)' <=> EnqOwns(u)
  BY <1>0 DEF EnqOwns, DeqOwns, Owns
<1>2. DeqOwns(t)' /\ Owns(t)' /\ ~EnqOwns(t) /\ ~DeqOwns(t) /\ pc'[t] = "deq_read"
  BY <1>0 DEF EnqOwns, DeqOwns, Owns
<1>3. InLap(dequeue_pos)
  BY <1>0 DEF InLap
<1>4. \A u \in Threads : Owns(u) => pos[u] # dequeue_pos
  BY <1>0 DEF CellProtocol, OwnerPhase, Owns
<1>5. value[Cell(dequeue_pos)] = log[dequeue_pos]
  BY <1>0, <1>3, <1>4 DEF CellProtocol, CellPhase, InLap, Owns
<1>6. PositionsOrdered'
  BY <1>0, <1>1, <1>2 DEF CellProtocol, PositionsOrdered, EnqPCs
<1>7. CellPhase'
  <2>1. \A k : IsDelivered(k)' <=> IsDelivered(k)
    BY <1>0 DEF IsDelivered
  <2>2. \A u \in Threads : DeqOwns(u) => DeqOwns(u)'
    BY <1>1, <1>2
  <2>3. \A k \in 0 .. enqueue_pos - 1 : k >= dequeue_pos /\ k # dequeue_pos => k >= dequeue_pos'
    BY <1>0
  <2> QED BY <1>0, <1>1, <1>2, <2>1, <2>2, <2>3 DEF CellProtocol, CellPhase
<1>8. OwnerPhase'
  <2>1. \A u \in Threads : EnqOwns(u) => pos[u] >= dequeue_pos'
    BY <1>0, <1>4 DEF CellProtocol, OwnerPhase, Owns
  <2> QED BY <1>0, <1>1, <1>2, <1>3, <1>4, <1>5, <2>1 DEF CellProtocol, OwnerPhase, InLap, Owns
<1>9. CasPhase'
  BY <1>0, <1>1, <1>2 DEF CellProtocol, CasPhase, PositionsOrdered
<1>10. DeliveredPhase'
  <2>1. \A d \in delivered : d[1] < dequeue_pos
    BY DEF CellProtocol, DeliveredPhase
  <2> QED BY <1>0, <1>1, <2>1 DEF CellProtocol, DeliveredPhase, IsDelivered
<1> QED BY <1>6, <1>7, <1>8, <1>9, <1>10 DEF CellProtocol

\* The release store: ticket pos[t] is delivered and its cell is free for the
\* ticket one lap ahead.  Capacity >= 2 is what tells "free" from "ready".
LEMMA ReleaseStep ==
    ASSUME TypeOK, CellProtocol, NEW t \in Threads, DeqRelease(t)
    PROVE  CellProtocol'
<1> USE CapacityAssumption
<1> DEFINE k0 == pos[t]
<1>0. /\ enqueue_pos \in Nat /\ dequeue_pos \in Nat
      /\ pos \in [Threads -> Nat] /\ sequence \in [Cells -> Nat]
      /\ t \in DOMAIN pc /\ t \in DOMAIN arg /\ t \in DOMAIN pos
      /\ Cell(k0) \in Cells /\ k0 \in Nat
  BY CellType DEF TypeOK
<1>1. /\ pc[t] = "deq_release" /\ pc' = [pc EXCEPT ![t] = "idle"]
      /\ pos' = [pos EXCEPT ![t] = 0] /\ arg' = [arg EXCEPT ![t] = NoValue]
      /\ sequence' = [sequence EXCEPT ![Cell(k0)] = k0 + Capacity]
      /\ delivered' = delivered \cup {<<k0, arg[t]>>}
      /\ UNCHANGED <<value, enqueue_pos, dequeue_pos, log>>
  BY DEF DeqRelease, Goto, SetPos, Return
<1>2. /\ DeqOwns(t) /\ ~EnqOwns(t) /\ InLap(k0) /\ k0 < dequeue_pos
      /\ sequence[Cell(k0)] = k0 + 1 /\ arg[t] = log[k0]
  BY <1>1 DEF CellProtocol, OwnerPhase, EnqOwns, DeqOwns
<1>3. \A u \in Threads :
        /\ u # t => /\ (DeqOwns(u)' <=> DeqOwns(u)) /\ (Owns(u)' <=> Owns(u))
                    /\ pc'[u] = pc[u] /\ pos'[u] = pos[u] /\ arg'[u] = arg[u]
        /\ EnqOwns(u)' <=> EnqOwns(u)
  BY <1>0, <1>1 DEF EnqOwns, DeqOwns, Owns
<1>4. /\ ~Owns(t)' /\ ~EnqOwns(t)' /\ ~DeqOwns(t)' /\ pc'[t] = "idle"
      /\ sequence'[Cell(k0)] = k0 + Capacity
  BY <1>0, <1>1 DEF EnqOwns, DeqOwns, Owns
<1>5. \A k : InLap(k) /\ k # k0 => sequence'[Cell(k)] = sequence[Cell(k)]
  BY <1>0, <1>1, <1>2, LapCell
<1>6. \A u \in Threads : Owns(u) /\ u # t => pos[u] # k0 /\ InLap(pos[u])
  BY <1>2 DEF CellProtocol, OwnerPhase, Owns
<1>7. \A k : IsDelivered(k)' <=> IsDelivered(k) \/ k = k0
  <2>1. <<k0, arg[t]>>[1] = k0
    OBVIOUS
  <2> QED BY <1>1, <2>1 DEF IsDelivered
<1>8. PositionsOrdered'
  BY <1>0, <1>1, <1>3, <1>4 DEF CellProtocol, PositionsOrdered, EnqPCs
<1>9. CellPhase'
  <2>1. ASSUME NEW c \in Cells, c >= enqueue_pos' PROVE sequence'[c] = c
    <3>1. sequence[c] = c /\ c \in Nat /\ c >= enqueue_pos
      BY <1>1, <2>1 DEF CellProtocol, CellPhase, Cells
    <3>2. Cell(c) = c
      BY CellFirst
    <3>3. Cell(k0) # Cell(c)
      BY <1>0, <1>2, <2>1, <3>1, CellApart DEF InLap, Cells
    <3> QED BY <1>0, <1>1, <3>1, <3>2, <3>3
  <2>2. ASSUME NEW k \in 0 .. enqueue_pos - 1, k >= enqueue_pos - Capacity
        PROVE  \/ /\ sequence'[Cell(k)] = k
                  /\ \E u \in Threads : EnqOwns(u)' /\ pos'[u] = k
               \/ /\ sequence'[Cell(k)] = k + 1
                  /\ k >= dequeue_pos'
                  /\ value'[Cell(k)] = log'[k]
               \/ /\ sequence'[Cell(k)] = k + 1
                  /\ \E u \in Threads : DeqOwns(u)' /\ pos'[u] = k
               \/ /\ sequence'[Cell(k)] = k + Capacity
                  /\ k < dequeue_pos'
                  /\ IsDelivered(k)'
    <3>1. CASE k = k0
      BY <1>1, <1>2, <1>4, <1>7, <3>1
    <3>2. CASE k # k0
      <4>1. sequence'[Cell(k)] = sequence[Cell(k)]
        BY <1>5, <2>2, <3>2 DEF InLap
      <4>2. \A u \in Threads : EnqOwns(u) /\ pos[u] = k => EnqOwns(u)' /\ pos'[u] = k
        BY <1>2, <1>3, <3>2
      <4>3. \A u \in Threads : DeqOwns(u) /\ pos[u] = k => DeqOwns(u)' /\ pos'[u] = k
        BY <1>3, <3>2
      <4> QED BY <1>1, <1>7, <2>2, <4>1, <4>2, <4>3 DEF CellProtocol, CellPhase
    <3> QED BY <3>1, <3>2
  <2> QED BY <1>1, <2>1, <2>2 DEF CellPhase
<1>10. OwnerPhase'
  BY <1>1, <1>3, <1>4, <1>5, <1>6 DEF CellProtocol, OwnerPhase, InLap, Owns
<1>11. CasPhase'
  <2>1. ASSUME NEW u \in Threads, pc'[u] = "enq_cas", pos'[u] = enqueue_pos'
        PROVE  sequence'[Cell(pos'[u])] = pos'[u]
    <3>1. Cell(pos[u]) \in Cells /\ sequence[Cell(pos[u])] = pos[u] /\ pos'[u] = pos[u]
      BY <1>1, <1>3, <1>4, <2>1, CellType DEF CellProtocol, CasPhase, TypeOK
    <3>2. Cell(pos[u]) # Cell(k0)
      <4>1. CASE k0 + 1 = enqueue_pos
        BY <1>0, <1>1, <2>1, <3>1, <4>1, CellApart
      <4>2. CASE k0 + 1 # enqueue_pos
        BY <1>0, <1>1, <1>2, <2>1, <3>1, <4>2
      <4> QED BY <4>1, <4>2
    <3> QED BY <1>0, <1>1, <3>1, <3>2
  <2>2. ASSUME NEW u \in Threads, pc'[u] = "deq_cas", pos'[u] = dequeue_pos'
        PROVE  sequence'[Cell(pos'[u])] = pos'[u] + 1 /\ pos'[u] < enqueue_pos'
    <3>1. /\ Cell(pos[u]) \in Cells /\ sequence[Cell(pos[u])] = pos[u] + 1
          /\ pos'[u] = pos[u] /\ pos[u] < enqueue_pos /\ pos[u] = dequeue_pos
      BY <1>1, <1>3, <1>4, <2>2, CellType DEF CellProtocol, CasPhase, TypeOK
    <3>2. InLap(pos[u])
      BY <1>0, <3>1 DEF InLap, CellProtocol, PositionsOrdered
    <3>3. pos[u] # k0
      BY <1>0, <1>2, <3>1
    <3> QED BY <1>1, <1>5, <3>1, <3>2, <3>3
  <2> QED BY <2>1, <2>2 DEF CasPhase
<1>12. DeliveredPhase'
  <2>1. ASSUME NEW d \in delivered'
        PROVE  /\ d = <<d[1], d[2]>> /\ d[1] \in Nat /\ d[1] < dequeue_pos'
               /\ d[2] = log'[d[1]]
               /\ \A u \in Threads : DeqOwns(u)' => pos'[u] # d[1]
    <3>1. CASE d = <<k0, arg[t]>>
      <4>1. d[1] = k0 /\ d[2] = arg[t] /\ d = <<d[1], d[2]>>
        BY <3>1
      <4>2. \A u \in Threads : DeqOwns(u)' => pos'[u] # k0
        BY <1>3, <1>4, <1>6 DEF Owns
      <4>3. d[1] \in Nat /\ d[1] < dequeue_pos' /\ d[2] = log'[d[1]]
        BY <1>0, <1>1, <1>2, <4>1
      <4> QED BY <4>1, <4>2, <4>3
    <3>2. CASE d \in delivered
      BY <1>1, <1>3, <1>4, <3>2 DEF CellProtocol, DeliveredPhase
    <3> QED BY <1>1, <2>1, <3>1, <3>2
  <2>2. ASSUME NEW k \in 0 .. enqueue_pos' - Capacity - 1 PROVE IsDelivered(k)'
    BY <1>1, <1>7, <2>2 DEF CellProtocol, DeliveredPhase
  <2> QED BY <2>1, <2>2 DEF DeliveredPhase
<1> QED BY <1>8, <1>9, <1>10, <1>11, <1>12 DEF CellProtocol

\* What the constructor and reset() leave behind.
RingEmpty ==
    /\ sequence = [c \in Cells |-> c]
    /\ enqueue_pos = 0 /\ dequeue_pos = 0
    /\ log = [k \in {} |-> 0] /\ delivered = {}

\* A ring just constructed or reset obeys the protocol.
LEMMA EmptyRing ==
    RingEmpty /\ (\A t \in Threads : pc[t] = "idle") => CellProtocol
<1> SUFFICES ASSUME RingEmpty, \A t \in Threads : pc[t] = "idle" PROVE CellProtocol
  OBVIOUS
<1> USE CapacityAssumption
<1>1. PositionsOrdered
  BY DEF RingEmpty, PositionsOrdered, EnqPCs
<1>2. CellPhase
  BY DEF RingEmpty, CellPhase, Cells
<1>3. OwnerPhase
  BY DEF OwnerPhase, EnqOwns, DeqOwns, Owns
<1>4. CasPhase
  BY DEF CasPhase
<1>5. DeliveredPhase
  BY DEF RingEmpty, DeliveredPhase
<1> QED BY <1>1, <1>2, <1>3, <1>4, <1>5 DEF CellProtocol

----------------------------------------------------------------------------
(* Invariance *)

\* CellProtocol is inductive: no step of any thread, from any state that
\* satisfies it, breaks it.
LEMMA ProtocolStep ==
    ASSUME TypeOK, CellProtocol, [Next]_vars
    PROVE  CellProtocol'
<1>0. CASE UNCHANGED vars
  BY <1>0 DEF vars, shared, local, history, CellProtocol, PositionsOrdered, CellPhase, OwnerPhase,
              CasPhase, DeliveredPhase, IsDelivered, InLap, EnqOwns, DeqOwns, Owns
<1>1. CASE Reset
  <2>1. RingEmpty' /\ \A t \in Threads : pc'[t] = "idle"
    BY <1>1 DEF RingEmpty, Reset, local
  <2>2. (RingEmpty /\ (\A t \in Threads : pc[t] = "idle"))' => CellProtocol'
    BY EmptyRing, PTL
  <2> QED BY <2>1, <2>2
<1>2. ASSUME NEW t \in Threads, try_enqueue(t) PROVE CellProtocol'
  <2>1. ASSUME NEW v \in Values, EnqCall(t, v) PROVE CellProtocol'
    BY <2>1, EnqLoop
  <2>2. CASE EnqCheck(t) \/ EnqReload(t) \/ EnqCasFail(t)
    <3>1. arg[t] \in Values
      BY <2>2 DEF CellProtocol, PositionsOrdered, EnqCheck, EnqReload, EnqCasFail, EnqPCs
    <3> QED BY <2>2, <3>1, EnqLoop
  <2>3. CASE EnqReserve(t) BY <2>3, ReserveStep
  <2>4. CASE EnqWrite(t)   BY <2>4, CopyStep
  <2>5. CASE EnqPublish(t) BY <2>5, PublishStep
  <2> QED BY <1>2, <2>1, <2>2, <2>3, <2>4, <2>5 DEF try_enqueue
<1>3. ASSUME NEW t \in Threads, try_dequeue(t) PROVE CellProtocol'
  <2>1. CASE DeqCall(t) \/ DeqCheck(t) \/ DeqReload(t) \/ DeqCasFail(t)
    BY <2>1, DeqLoop
  <2>2. CASE DeqClaim(t)   BY <2>2, ClaimStep
  <2>3. CASE DeqRead(t)    BY <2>3, CopyStep
  <2>4. CASE DeqRelease(t) BY <2>4, ReleaseStep
  <2> QED BY <1>3, <2>1, <2>2, <2>3, <2>4 DEF try_dequeue
<1> QED BY <1>0, <1>1, <1>2, <1>3 DEF Next

\* The initial state: an empty ring and no call in progress.
LEMMA InitProtocol == Init => TypeOK /\ CellProtocol
<1> SUFFICES ASSUME Init PROVE TypeOK /\ CellProtocol
  OBVIOUS
<1>1. TypeOK
  BY CapacityAssumption DEF Init, TypeOK, Cells
<1>2. CellProtocol
  BY EmptyRing DEF Init, RingEmpty
<1> QED BY <1>1, <1>2

\* Theorem: in every execution, for every capacity and number of threads,
\* the types and the cell protocol of fixed_mpmc_ring.h hold.
THEOREM RingInvariant == Spec => [](TypeOK /\ CellProtocol)
<1>1. Init => TypeOK /\ CellProtocol
  BY InitProtocol
<1>2. TypeOK /\ CellProtocol /\ [Next]_vars => (TypeOK /\ CellProtocol)'
  BY TypeStep, ProtocolStep
<1> QED BY <1>1, <1>2, PTL DEF Spec

----------------------------------------------------------------------------
(* The properties *)

\* Owners on different tickets of one lap are on different cells.
LEMMA ProtocolExclusive == TypeOK /\ CellProtocol => ExclusiveCell
<1> SUFFICES ASSUME TypeOK, CellProtocol,
                    NEW t \in Threads, NEW u \in Threads, t # u, Owns(t), Owns(u)
             PROVE  Cell(pos[t]) # Cell(pos[u])
  BY DEF ExclusiveCell
<1>1. pos[t] # pos[u] /\ InLap(pos[t]) /\ InLap(pos[u])
  BY DEF CellProtocol, OwnerPhase, Owns
<1> QED BY <1>1, LapCell

\* Delivered payloads are the reserved ones.
LEMMA ProtocolPayload == TypeOK /\ CellProtocol => PayloadIntegrity
BY DEF TypeOK, CellProtocol, DeliveredPhase, PositionsOrdered, PayloadIntegrity

\* A negative difference in try_enqueue is seen only at enqueue_pos, while
\* the ticket one lap back is undelivered.
LEMMA ProtocolFull == TypeOK /\ CellProtocol => HonestFull
<1> SUFFICES ASSUME TypeOK, CellProtocol, NEW t \in Threads, pc[t] = "enq_check",
                    sequence[Cell(pos[t])] < pos[t]
             PROVE  /\ pos[t] = enqueue_pos
                    /\ pos[t] >= Capacity
                    /\ \A d \in delivered : d[1] # pos[t] - Capacity
  BY DEF HonestFull
<1>0. pos[t] \in Nat /\ enqueue_pos \in Nat /\ dequeue_pos \in Nat /\ pos[t] <= enqueue_pos
  BY DEF TypeOK, CellProtocol, PositionsOrdered
<1>1. pos[t] = enqueue_pos
  <2> SUFFICES ASSUME pos[t] < enqueue_pos PROVE FALSE
    BY <1>0
  <2>1. PICK j \in 0 .. enqueue_pos - 1 : j >= enqueue_pos - Capacity /\ Cell(j) = Cell(pos[t]) /\ j >= pos[t]
    BY <1>0, LapOf
  <2>2. sequence[Cell(j)] >= j
    BY <1>0, <2>1, CapacityAssumption DEF CellProtocol, CellPhase
  <2> QED BY <1>0, <2>1, <2>2, CellType DEF TypeOK
<1>2. /\ enqueue_pos >= Capacity
      /\ \/ enqueue_pos - Capacity >= dequeue_pos
         \/ \E u \in Threads : DeqOwns(u) /\ pos[u] = enqueue_pos - Capacity
  BY <1>1, NextTicketCell
<1>3. \A d \in delivered : d[1] \in Nat /\ d[1] < dequeue_pos
                          /\ \A u \in Threads : DeqOwns(u) => pos[u] # d[1]
  BY DEF CellProtocol, DeliveredPhase
<1> QED BY <1>0, <1>1, <1>2, <1>3, CapacityAssumption

\* A negative difference in try_dequeue is seen only at dequeue_pos, with
\* nothing published there.
LEMMA ProtocolEmpty == TypeOK /\ CellProtocol => HonestEmpty
<1> SUFFICES ASSUME TypeOK, CellProtocol, NEW t \in Threads, pc[t] = "deq_check",
                    sequence[Cell(pos[t])] < pos[t] + 1
             PROVE  /\ pos[t] = dequeue_pos
                    /\ \/ pos[t] = enqueue_pos
                       \/ \E u \in Threads : EnqOwns(u) /\ pos[u] = pos[t]
  BY DEF HonestEmpty
<1> USE CapacityAssumption
<1>0. /\ pos[t] \in Nat /\ enqueue_pos \in Nat /\ dequeue_pos \in Nat
      /\ pos[t] <= dequeue_pos /\ dequeue_pos <= enqueue_pos
      /\ sequence[Cell(pos[t])] \in Nat
  BY CellType DEF TypeOK, CellProtocol, PositionsOrdered
<1>1. CASE pos[t] = enqueue_pos
  BY <1>0, <1>1
<1>2. CASE pos[t] < enqueue_pos
  <2>1. PICK j \in 0 .. enqueue_pos - 1 :
          j >= enqueue_pos - Capacity /\ j >= pos[t] /\ Cell(j) = Cell(pos[t])
    BY <1>0, <1>2, LapOf
  <2>2. sequence[Cell(j)] <= j /\ sequence[Cell(j)] >= j
    BY <1>0, <2>1 DEF CellProtocol, CellPhase
  <2>3. j = pos[t] /\ sequence[Cell(j)] = j
    BY <1>0, <2>1, <2>2
  <2>4. PICK u \in Threads : EnqOwns(u) /\ pos[u] = j
    BY <1>0, <2>1, <2>3 DEF CellProtocol, CellPhase
  <2>5. j >= dequeue_pos
    BY <2>4 DEF CellProtocol, OwnerPhase
  <2> QED BY <1>0, <2>3, <2>4, <2>5
<1> QED BY <1>0, <1>1, <1>2

\* Theorem: no two threads are ever inside the payload of one cell.
THEOREM RingExclusive == Spec => []ExclusiveCell
BY RingInvariant, ProtocolExclusive, PTL

\* Theorem: every delivered payload is the one its ticket was reserved for.
THEOREM RingPayload == Spec => []PayloadIntegrity
BY RingInvariant, ProtocolPayload, PTL

\* Theorem: try_enqueue and try_dequeue refuse only when they must, so the
\* fail-open paths of their callers are taken for real saturation only.
THEOREM RingHonest == Spec => []HonestRefusal
<1>1. TypeOK /\ CellProtocol => HonestRefusal
  BY ProtocolFull, ProtocolEmpty DEF HonestRefusal
<1> QED BY <1>1, RingInvariant, PTL

----------------------------------------------------------------------------
(* Refinement of TicketQueue *)

\* Steps that change neither positions nor histories nor who is writing are
\* stuttering steps of the ticket queue.
LEMMA Stutter ==
    ASSUME UNCHANGED <<enqueue_pos, dequeue_pos, log, delivered>>,
           \A u \in Threads : (EnqOwns(u)' <=> EnqOwns(u)) /\ (EnqOwns(u) => pos'[u] = pos[u])
    PROVE  UNCHANGED Queue!qvars
<1>1. Published' = Published
  BY DEF Published
<1> QED BY <1>1 DEF Queue!qvars

\* Every step of the ring is a step of the ticket queue or a stutter.
LEMMA QueueStep ==
    ASSUME TypeOK, CellProtocol, [Next]_vars
    PROVE  [Queue!Next]_Queue!qvars
<1> USE CapacityAssumption DEF vars, shared, local, history
<1>0. CASE UNCHANGED vars
  BY <1>0, Stutter DEF EnqOwns
<1>1. CASE Reset
  <2>1. \A t \in Threads : ~EnqOwns(t) /\ ~DeqOwns(t)
    BY <1>1 DEF Reset, EnqOwns, DeqOwns
  <2>2. \A k \in 0 .. enqueue_pos - 1 : k \in Published
    BY <2>1 DEF Published
  <2>3. ASSUME NEW k \in 0 .. dequeue_pos - 1 PROVE Queue!Released(k)
    <3>1. /\ enqueue_pos \in Nat /\ dequeue_pos \in Nat /\ dequeue_pos <= enqueue_pos
      BY DEF TypeOK, CellProtocol, PositionsOrdered
    <3>2. CASE k < enqueue_pos - Capacity
      BY <2>3, <3>1, <3>2 DEF CellProtocol, DeliveredPhase, IsDelivered, Queue!Released
    <3>3. CASE k >= enqueue_pos - Capacity
      BY <2>1, <2>3, <3>1, <3>3 DEF CellProtocol, CellPhase, IsDelivered, Queue!Released
    <3> QED BY <2>3, <3>1, <3>2, <3>3
  <2>4. /\ log' = [k \in {} |-> 0] /\ enqueue_pos' = 0 /\ dequeue_pos' = 0 /\ delivered' = {}
        /\ Published' = {}
    BY <1>1 DEF Reset, Published
  <2> QED BY <2>2, <2>3, <2>4 DEF Queue!Next, Queue!Reset
<1>2. ASSUME NEW t \in Threads, try_enqueue(t) PROVE [Queue!Next]_Queue!qvars
  <2>0. t \in DOMAIN pc /\ t \in DOMAIN pos /\ pos[t] \in Nat /\ enqueue_pos \in Nat
    BY DEF TypeOK
  <2>1. ASSUME NEW v \in Values, EnqCall(t, v) PROVE [Queue!Next]_Queue!qvars
    BY <2>0, <2>1, Stutter DEF EnqCall, Goto, SetPos, EnqOwns
  <2>2. CASE EnqCheck(t)
    <3>1. ~EnqOwns(t) /\ UNCHANGED <<enqueue_pos, dequeue_pos, log, delivered>>
      BY <2>2 DEF EnqCheck, EnqOwns
    <3>2. ~EnqOwns(t)' /\ \A u \in Threads \ {t} : pc'[u] = pc[u] /\ pos'[u] = pos[u]
      <4>1. CASE Return(t)
        BY <2>0, <4>1 DEF Return, Goto, SetPos, EnqOwns
      <4>2. CASE Goto(t, "enq_cas") /\ pos' = pos
        BY <2>0, <4>2 DEF Goto, EnqOwns
      <4>3. CASE Goto(t, "enq_reload") /\ pos' = pos
        BY <2>0, <4>3 DEF Goto, EnqOwns
      <4> QED BY <2>2, <4>1, <4>2, <4>3 DEF EnqCheck
    <3> QED BY <3>1, <3>2, Stutter DEF EnqOwns
  <2>3. CASE EnqReload(t)
    BY <2>0, <2>3, Stutter DEF EnqReload, Goto, SetPos, EnqOwns
  <2>4. CASE EnqCasFail(t)
    BY <2>0, <2>4, Stutter DEF EnqCasFail, Goto, SetPos, EnqOwns
  <2>5. CASE EnqWrite(t)
    BY <2>0, <2>5, Stutter DEF EnqWrite, Goto, EnqOwns
  <2>6. CASE EnqReserve(t)
    <3>1. arg[t] \in Values /\ sequence[Cell(enqueue_pos)] = enqueue_pos /\ pos[t] = enqueue_pos
      BY <2>6 DEF CellProtocol, PositionsOrdered, CasPhase, EnqReserve, EnqPCs
    <3>2. enqueue_pos < Capacity \/ Queue!Released(enqueue_pos - Capacity)
      BY <3>1, NextTicketCell DEF IsDelivered, Queue!Released
    <3>3. Published' = Published
      <4>1. /\ enqueue_pos' = enqueue_pos + 1 /\ pos' = pos /\ EnqOwns(t)'
            /\ \A u \in Threads \ {t} : EnqOwns(u)' <=> EnqOwns(u)
            /\ ~EnqOwns(t)
        BY <2>0, <2>6 DEF EnqReserve, Goto, EnqOwns
      <4> QED BY <2>0, <3>1, <4>1 DEF Published
    <3>4. Queue!Reserve(arg[t])
      BY <2>6, <3>1, <3>2, <3>3 DEF Queue!Reserve, EnqReserve
    <3> QED BY <3>1, <3>4 DEF Queue!Next
  <2>7. CASE EnqPublish(t)
    <3>1. EnqOwns(t) /\ InLap(pos[t])
      BY <2>7 DEF CellProtocol, OwnerPhase, EnqPublish, EnqOwns
    <3>2. \A u \in Threads \ {t} : EnqOwns(u) => pos[u] # pos[t]
      BY <3>1 DEF CellProtocol, OwnerPhase, Owns
    <3>3. /\ \A u \in Threads \ {t} : (EnqOwns(u)' <=> EnqOwns(u)) /\ pos'[u] = pos[u]
          /\ ~EnqOwns(t)'
          /\ UNCHANGED <<enqueue_pos, dequeue_pos, log, delivered>>
      BY <2>0, <2>7 DEF EnqPublish, Return, Goto, SetPos, EnqOwns
    <3>4. Published' = Published \cup {pos[t]}
      BY <3>1, <3>2, <3>3 DEF Published, InLap
    <3>5. pos[t] \notin Published /\ pos[t] \in 0 .. enqueue_pos - 1
      BY <3>1 DEF Published, InLap
    <3>6. Queue!Publish(pos[t])
      BY <2>0, <3>3, <3>4, <3>5 DEF Queue!Publish
    <3> QED BY <3>5, <3>6 DEF Queue!Next
  <2> QED BY <1>2, <2>1, <2>2, <2>3, <2>4, <2>5, <2>6, <2>7 DEF try_enqueue
<1>3. ASSUME NEW t \in Threads, try_dequeue(t) PROVE [Queue!Next]_Queue!qvars
  <2>0. /\ t \in DOMAIN pc /\ t \in DOMAIN pos /\ pos[t] \in Nat
        /\ enqueue_pos \in Nat /\ dequeue_pos \in Nat
    BY DEF TypeOK
  <2>1. CASE DeqCall(t)
    BY <2>0, <2>1, Stutter DEF DeqCall, Goto, SetPos, EnqOwns
  <2>2. CASE DeqCheck(t)
    <3>1. ~EnqOwns(t) /\ UNCHANGED <<enqueue_pos, dequeue_pos, log, delivered>>
      BY <2>2 DEF DeqCheck, EnqOwns
    <3>2. ~EnqOwns(t)' /\ \A u \in Threads \ {t} : pc'[u] = pc[u] /\ pos'[u] = pos[u]
      <4>1. CASE Return(t)
        BY <2>0, <4>1 DEF Return, Goto, SetPos, EnqOwns
      <4>2. CASE Goto(t, "deq_cas") /\ pos' = pos
        BY <2>0, <4>2 DEF Goto, EnqOwns
      <4>3. CASE Goto(t, "deq_reload") /\ pos' = pos
        BY <2>0, <4>3 DEF Goto, EnqOwns
      <4> QED BY <2>2, <4>1, <4>2, <4>3 DEF DeqCheck
    <3> QED BY <3>1, <3>2, Stutter DEF EnqOwns
  <2>3. CASE DeqReload(t)
    BY <2>0, <2>3, Stutter DEF DeqReload, Goto, SetPos, EnqOwns
  <2>4. CASE DeqCasFail(t)
    BY <2>0, <2>4, Stutter DEF DeqCasFail, Goto, SetPos, EnqOwns
  <2>5. CASE DeqRead(t)
    BY <2>0, <2>5, Stutter DEF DeqRead, Goto, EnqOwns
  <2>6. CASE DeqClaim(t)
    <3>1. /\ pos[t] = dequeue_pos /\ dequeue_pos < enqueue_pos
          /\ sequence[Cell(dequeue_pos)] = dequeue_pos + 1
      BY <2>6 DEF CellProtocol, CasPhase, DeqClaim
    <3>2. dequeue_pos \in Published
      BY <2>0, <3>1 DEF Published, CellProtocol, OwnerPhase
    <3>3. Published' = Published
      BY <2>0, <2>6 DEF Published, DeqClaim, Goto, EnqOwns
    <3>4. Queue!Claim
      BY <2>6, <3>1, <3>2, <3>3 DEF Queue!Claim, DeqClaim
    <3> QED BY <3>4 DEF Queue!Next
  <2>7. CASE DeqRelease(t)
    <3>1. DeqOwns(t) /\ InLap(pos[t]) /\ pos[t] < dequeue_pos /\ arg[t] = log[pos[t]]
      BY <2>7 DEF CellProtocol, OwnerPhase, DeqRelease, DeqOwns
    <3>2. ~Queue!Released(pos[t])
      BY <3>1 DEF CellProtocol, DeliveredPhase, Queue!Released
    <3>3. Published' = Published
      BY <2>0, <2>7 DEF Published, DeqRelease, Return, Goto, SetPos, EnqOwns
    <3>4. Queue!Deliver(pos[t])
      BY <2>7, <3>1, <3>2, <3>3 DEF Queue!Deliver, DeqRelease
    <3> QED BY <2>0, <3>1, <3>4 DEF Queue!Next, InLap
  <2> QED BY <1>3, <2>1, <2>2, <2>3, <2>4, <2>5, <2>6, <2>7 DEF try_dequeue
<1> QED BY <1>0, <1>1, <1>2, <1>3 DEF Next

\* Theorem: the lock-free ring implements the ticket queue its users rely on:
\* FIFO by reservation, each ticket delivered once with its own payload, at
\* most Capacity tickets undelivered.
THEOREM RingRefinesQueue == Spec => ImplementsTicketQueue
<1>1. Init => Queue!Init
  BY DEF Init, Queue!Init, Published
<1>2. TypeOK /\ CellProtocol /\ [Next]_vars => [Queue!Next]_Queue!qvars
  BY QueueStep
<1> QED BY <1>1, <1>2, RingInvariant, PTL DEF Spec, ImplementsTicketQueue, Queue!Spec
=============================================================================
