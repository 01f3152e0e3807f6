----------------------- MODULE DeviceRegistry_proofs -----------------------
(***************************************************************************)
(* Proofs about DeviceRegistry for every number of threads, handles and    *)
(* slots, every platform and every bound on calls: what a lookup hands out *)
(* is the truth of the moment, a sleep signals a live semaphore of its own *)
(* device, no semaphore leaks, no queue outlives its device, and device    *)
(* creation keeps its word to the application and to the driver.           *)
(*                                                                         *)
(* The inductive invariant RegistryInv has four parts.  Control says where *)
(* the handlers are and who may be there together; Lookups says what a     *)
(* lookup in progress and the thread-local caches hold while their         *)
(* generation is the current one; TypeOK types it all.  The fourth part    *)
(* is about tables A that exist only in the proof: those the mutation in   *)
(* progress will leave behind, equal to the memory while nobody holds      *)
(* g_writer_mutex.  In the memory itself nothing holds between two stores  *)
(* of a mutation, in A everything does.                                    *)
(***************************************************************************)
EXTENDS DeviceRegistry, FiniteSetTheorems, TLAPS

\* The operations that take the writer mutex, and the steps of a lookup.
Mutators == {"create_device", "destroy_device", "get_queue", "create_swapchain",
             "destroy_swapchain", "init_ll", "destroy_ll"}
Looking  == {"gen", "scan", "read_a", "read_b", "check", "got", "signal", "fallback"}

\* A handler that makes or unmakes a swapchain, once it knows which; and a
\* handler that is about one queue or swapchain.
SoleOfChain(r) ==
    r.op \in {"create_swapchain", "destroy_swapchain"} /\ r.pc \in {"lock", "store", "driver_destroy"}
OfHandle(r) ==
    \/ r.op \in {"present", "notify", "chain_state"}
    \/ r.op = "get_queue" /\ r.pc \in {"lock", "store"}
    \/ SoleOfChain(r)

\* Where a handler can be, and what it is then about.
Phase(r) ==
    /\ r.pc = "idle" => r = Idle
    /\ r.pc # "idle" => r.dev \in Devices /\ r.op # "none"
    /\ r.pc \in Looking =>
          \/ r.tab = "dev" /\ r.key = r.dev
                /\ r.op \in {"get_queue", "create_swapchain", "destroy_swapchain", "call", "init",
                             "init_ll", "sleep"}
          \/ r.tab = "queue" /\ r.key \in Queues /\ r.op \in {"present", "notify"}
          \/ r.tab = "chain" /\ r.key \in Swapchains /\ r.op = "chain_state"
    /\ r.pc = "lock" => r.op \in Mutators
    /\ r.pc = "store" => r.op \in Mutators
    /\ r.pc = "store" =>
          r.then = CASE r.op \in {"destroy_device", "destroy_ll"} -> "destroy_sem"
                     [] r.op = "destroy_swapchain" -> "driver_destroy"
                     [] OTHER -> "idle"
    /\ r.pc = "signal" => r.op = "sleep" /\ r.a # None /\ r.b # None
    /\ r.pc = "fallback" => r.op = "notify"
    /\ r.pc = "destroy_sem" => r.op \in {"destroy_device", "init_ll", "destroy_ll"}
    /\ r.pc = "driver_destroy" => r.op \in {"destroy_device", "destroy_swapchain"}
    /\ r.pc \in {"read_a", "read_b", "check"} => r.i \in Slots[r.tab]
    /\ r.op = "get_queue" /\ r.pc \in {"lock", "store"} => r.key \in Queues
    /\ r.op \in {"create_swapchain", "destroy_swapchain"} /\ r.pc \in {"lock", "store", "driver_destroy"} =>
          r.key \in Swapchains
    /\ r.key \in Swapchains => OfHandle(r)

Phases == \A t \in Threads : Phase(th[t])

\* The writer mutex and the generation.
Seqlock ==
    /\ \A t \in Threads : th[t].pc = "store" <=> lock = t
    /\ gen % 2 = 1 <=> lock # None
    /\ \A t \in Threads : /\ th[t].g <= gen /\ th[t].g % 2 = 0
                          /\ tls[t].dev.g <= gen /\ tls[t].dev.g % 2 = 0
                          /\ tls[t].queue.g <= gen /\ tls[t].queue.g % 2 = 0

\* Who may be there together.
Alone ==
    \A t, u \in Threads : t # u /\ th[t].op \in {"create_device", "destroy_device"} =>
        th[u].dev # th[t].dev
SleepersApart ==
    \A t, u \in Threads : th[t].op = "sleep" /\ th[u].op = "destroy_ll" => th[u].dev # th[t].dev
Sole ==
    \A t, u \in Threads : t # u /\ SoleOfChain(th[t]) => th[u].key # th[t].key

\* The driver's objects are there while a handler is about them.
Driver ==
    /\ \A t \in Threads : th[t].dev # None => live[th[t].dev] # None
    /\ \A h \in Queues \cup Swapchains : owner[h] # None => live[owner[h]] # None
    /\ \A t \in Threads : OfHandle(th[t]) => owner[th[t].key] = th[t].dev
    /\ \A t \in Threads : th[t].op = "create_swapchain" /\ SoleOfChain(th[t]) =>
          th[t].flags = live[th[t].dev]

\* A device that is being created owns nothing yet.
Unborn ==
    \A t \in Threads : th[t].op = "create_device" =>
        \A h \in Queues \cup Swapchains : owner[h] # th[t].dev

\* A semaphore in the hand of a handler.
Hands ==
    /\ \A t \in Threads : th[t].sem # None =>
          /\ th[t].sem \in 1 .. Len(sems) /\ sems[th[t].sem] = th[t].dev
          /\ \/ th[t].pc = "lock" /\ th[t].op = "init_ll"
             \/ th[t].pc = "store" /\ th[t].then = "destroy_sem"
             \/ th[t].pc = "destroy_sem"
    /\ \A t, u \in Threads : t # u /\ th[t].sem # None => th[t].sem # th[u].sem

\* A thread-local entry of the current generation agrees with a row of the
\* tables; a negative queue entry has no result.
Caches ==
    \A t \in Threads :
        /\ \A tab \in {"dev", "queue"} : tls[t][tab].g = gen /\ tls[t][tab].a # None =>
              \E i \in Slots[tab] : /\ mem[tab][i].id = tls[t][tab].key
                                    /\ mem[tab][i].a = tls[t][tab].a
                                    /\ mem[tab][i].b = tls[t][tab].b
        /\ ~tls[t].queue.resolved => tls[t].queue.a = None
        /\ th[t].pc = "fallback" => ~tls[t].queue.resolved

\* What a lookup of the current generation has read so far is what the row holds.
Reads ==
    \A t \in Threads : th[t].g = gen =>
        /\ th[t].pc \in {"read_b", "check"} => th[t].a = mem[th[t].tab][th[t].i].a
        /\ th[t].pc = "check" => th[t].b = mem[th[t].tab][th[t].i].b

----------------------------------------------------------------------------
(* The tables A after the mutation in progress *)

\* The store s is to the field f of row i.
Hits(s, tab, i, f) == s.tab = tab /\ s.i = i /\ s.field = f

\* The stores of todo, all to tables of tabs, turn those tables into A's.  The
\* identity of a row is stored twice when the row is published: the last store
\* counts.  A device row gets a new identity only without a semaphore.
PendingOn(A, todo, tabs) ==
    /\ \A tab \in tabs : \A i \in Slots[tab], f \in Fields :
          (\A n \in 1 .. Len(todo) : ~Hits(todo[n], tab, i, f)) => mem[tab][i][f] = A[tab][i][f]
    /\ \A n \in 1 .. Len(todo) :
          /\ todo[n].tab \in tabs /\ todo[n].i \in Slots[todo[n].tab] /\ todo[n].field \in Fields
          /\ todo[n].field # "id" => todo[n].value = A[todo[n].tab][todo[n].i][todo[n].field]
          /\ (\A k \in n + 1 .. Len(todo) : ~Hits(todo[k], todo[n].tab, todo[n].i, todo[n].field)) =>
                todo[n].value = A[todo[n].tab][todo[n].i][todo[n].field]
          /\ todo[n].tab = "dev" /\ todo[n].field = "id" => A["dev"][todo[n].i].b = None

Pending(A, todo) == PendingOn(A, todo, Tabs)

\* A are tables, and the stores to come lead there.
Tables(A) == /\ DOMAIN A = Tabs
             /\ \A tab \in Tabs : A[tab] \in [Slots[tab] -> RowType]
Settles(A) ==
    /\ lock = None => A = mem
    /\ \A t \in Threads : lock = t => Pending(A, th[t].todo)

\* A handle has one row; a device row carries the live dispatch table and a
\* semaphore of the device; a queue row belongs to its owner, which has a row.
Unique(A) ==
    \A tab \in Tabs : \A i, j \in Slots[tab] :
        A[tab][i].id # None /\ A[tab][i].id = A[tab][j].id => i = j
DeviceRows(A) ==
    \A i \in Slots["dev"] : A["dev"][i].id # None =>
        /\ A["dev"][i].id \in Devices
        /\ live[A["dev"][i].id] # None /\ A["dev"][i].a = live[A["dev"][i].id]
        /\ A["dev"][i].b # None =>
              A["dev"][i].b \in 1 .. Len(sems) /\ sems[A["dev"][i].b] = A["dev"][i].id
QueueRows(A) ==
    \A i \in Slots["queue"] : A["queue"][i].id # None =>
        /\ A["queue"][i].id \in Queues /\ A["queue"][i].a \in Devices
        /\ owner[A["queue"][i].id] = A["queue"][i].a
        /\ \E j \in Slots["dev"] : A["dev"][j].id = A["queue"][i].a /\ A["dev"][j].a = A["queue"][i].b
\* A swapchain row is true, or the driver has no such swapchain (a device that
\* found the registry full has no row, so its destruction leaves the rows of
\* its swapchains behind), or the handle came back and the row is about to be
\* overwritten.
Creating(s) == \E t \in Threads : th[t].op = "create_swapchain" /\ th[t].pc = "lock" /\ th[t].key = s
ChainRows(A) ==
    \A i \in Slots["chain"] : A["chain"][i].id # None =>
        /\ A["chain"][i].id \in Swapchains /\ A["chain"][i].a \in Devices
        /\ \/ owner[A["chain"][i].id] = None
           \/ Creating(A["chain"][i].id)
           \/ owner[A["chain"][i].id] = A["chain"][i].a /\ A["chain"][i].b = live[A["chain"][i].a]
\* A device that is being created or has been let go has no row.
Gone(r) == \/ r.op = "create_device" /\ r.pc = "lock"
           \/ r.op = "destroy_device" /\ r.pc \in {"store", "destroy_sem", "driver_destroy"}
Absent(A) ==
    \A t \in Threads : Gone(th[t]) => \A i \in Slots["dev"] : A["dev"][i].id # th[t].dev
\* A semaphore is in the hand of a handler or in a row, never both, and always one.
NotInHand(A) ==
    \A t \in Threads : th[t].sem # None =>
        \A i \in Slots["dev"] : A["dev"][i].id # None => A["dev"][i].b # th[t].sem
Owned(A) ==
    \A s \in 1 .. Len(sems) : sems[s] # "destroyed" =>
        \/ \E i \in Slots["dev"] : A["dev"][i].id = sems[s] /\ A["dev"][i].b = s
        \/ \E t \in Threads : th[t].sem = s
\* A semaphore that a sleep has looked up stays in the row of its device.
Slept(r) == r.op = "sleep" /\ r.pc \in {"got", "signal"} /\ r.a # None /\ r.b # None
Sleeper(A) ==
    \A t \in Threads : Slept(th[t]) =>
            \E i \in Slots["dev"] : A["dev"][i].id = th[t].dev /\ A["dev"][i].b = th[t].b

Control == Phases /\ Seqlock /\ Alone /\ SleepersApart /\ Sole /\ Driver /\ Unborn /\ Hands
Rows(A) ==
    /\ Tables(A) /\ Settles(A) /\ Unique(A) /\ DeviceRows(A) /\ QueueRows(A) /\ ChainRows(A)
    /\ Absent(A) /\ NotInHand(A) /\ Owned(A) /\ Sleeper(A)
\* What a finished lookup found is true until the handler ends.
Results ==
    \A t \in Threads : th[t].pc \in {"got", "signal", "fallback"} /\ th[t].a # None =>
        /\ th[t].tab = "dev" => th[t].a = live[th[t].key]
        /\ th[t].tab # "dev" => th[t].a = owner[th[t].key] /\ th[t].b = live[th[t].a]
Lookups == Caches /\ Reads /\ Results

RegistryInv == TypeOK /\ Control /\ Lookups /\ \E A : Rows(A)

----------------------------------------------------------------------------
(* Type correctness *)

\* The other threads' locals do not change.
Others(t) == \A u \in Threads : u # t => th'[u] = th[u]

\* One thread's locals are replaced.
LEMMA OneThread ==
    ASSUME TypeOK, NEW t \in Threads, NEW r, th' = [th EXCEPT ![t] = r]
    PROVE  /\ th'[t] = r /\ Others(t)
           /\ r \in ThreadType => th' \in [Threads -> ThreadType]
<1>1. th \in [Threads -> ThreadType] BY DEF TypeOK
<1>2. PICK T : T = ThreadType OBVIOUS
<1>3. th \in [Threads -> T] BY <1>1, <1>2
<1>4. th'[t] = r /\ (r \in T => th' \in [Threads -> T]) BY <1>3
<1>5. Others(t) BY <1>3 DEF Others
<1> QED BY <1>2, <1>4, <1>5

\* The types of a thread's locals.
LEMMA Locals ==
    ASSUME TypeOK, NEW t \in Threads
    PROVE  /\ th[t] \in ThreadType
           /\ th[t].pc \in PCs /\ th[t].op \in Ops /\ th[t].dev \in Devices \cup {None}
           /\ th[t].tab \in Tabs /\ th[t].key \in Words /\ th[t].g \in Nat /\ th[t].i \in Nat
           /\ th[t].a \in Words /\ th[t].b \in Words /\ th[t].flags \in Words
           /\ th[t].todo \in Seq(StoreType) /\ th[t].then \in {"idle", "destroy_sem", "driver_destroy"}
           /\ th[t].sem \in Words /\ th[t].candidates \in SUBSET Words
<1>1. th[t] \in ThreadType BY DEF TypeOK
<1> QED BY <1>1 DEF ThreadType

\* An idle thread, and one that enters a handler.
LEMMA IdleType ==
    /\ Idle \in ThreadType
    /\ \A op \in Ops, d \in Devices, t \in Threads :
          /\ [Begin(t, op, d) EXCEPT !.pc = "lock"] \in ThreadType
          /\ \A tab \in Tabs, key \in Words : Lookup(Begin(t, op, d), tab, key) \in ThreadType
<1>1. << >> \in Seq(StoreType) OBVIOUS
<1>2. None \in Words /\ {} \in SUBSET Words BY DEF Words
<1>3. Idle \in ThreadType BY <1>1, <1>2 DEF Idle, ThreadType, PCs, Ops, Tabs
<1>4. ASSUME NEW op \in Ops, NEW d \in Devices, NEW t \in Threads
      PROVE  Begin(t, op, d) \in ThreadType
  BY <1>3 DEF Begin, ThreadType
<1>5. ASSUME NEW r \in ThreadType PROVE [r EXCEPT !.pc = "lock"] \in ThreadType
  BY DEF ThreadType, PCs
<1>6. ASSUME NEW r \in ThreadType, NEW tab \in Tabs, NEW key \in Words
      PROVE  Lookup(r, tab, key) \in ThreadType
  BY DEF Lookup, ThreadType, PCs
<1> QED BY <1>3, <1>4, <1>5, <1>6

\* Handles, numbers and the null handle are words.
LEMMA WordKinds ==
    /\ None \in Words /\ Devices \subseteq Words /\ Queues \subseteq Words
    /\ Swapchains \subseteq Words /\ Nat \subseteq Words
BY DEF Words

----------------------------------------------------------------------------
(* Lists of stores *)

\* The slots of the tables.
LEMMA SlotKinds ==
    /\ Slots["dev"] = 1 .. DeviceSlots /\ Slots["queue"] = 1 .. QueueSlots
    /\ Slots["chain"] = 1 .. SwapchainSlots
    /\ \A tab \in Tabs : Slots[tab] \subseteq Nat /\ IsFiniteSet(Slots[tab])
<1>1. /\ Slots["dev"] = 1 .. DeviceSlots /\ Slots["queue"] = 1 .. QueueSlots
      /\ Slots["chain"] = 1 .. SwapchainSlots
  BY DEF Slots
<1>2. IsFiniteSet(1 .. DeviceSlots) /\ IsFiniteSet(1 .. QueueSlots) /\ IsFiniteSet(1 .. SwapchainSlots)
  BY RegistryAssumption, FS_Interval
<1> QED BY <1>1, <1>2, RegistryAssumption DEF Tabs

\* The rows of the tables.
LEMMA RowTypes ==
    ASSUME NEW A, Tables(A), NEW tab \in Tabs, NEW i \in Slots[tab]
    PROVE  /\ A[tab][i] \in RowType
           /\ A[tab][i].id \in Words /\ A[tab][i].a \in Words /\ A[tab][i].b \in Words
<1>1. A[tab][i] \in RowType BY DEF Tables
<1> QED BY <1>1 DEF RowType

\* What is known of one store.
LEMMA PendingAt ==
    ASSUME NEW A, NEW S, NEW T, PendingOn(A, T, S), NEW n \in 1 .. Len(T), NEW s, s = T[n]
    PROVE  /\ s.tab \in S /\ s.i \in Slots[s.tab] /\ s.field \in Fields
           /\ s.field # "id" => s.value = A[s.tab][s.i][s.field]
           /\ (\A k \in n + 1 .. Len(T) : ~Hits(T[k], s.tab, s.i, s.field)) =>
                 s.value = A[s.tab][s.i][s.field]
           /\ s.tab = "dev" /\ s.field = "id" => A["dev"][s.i].b = None
<1>1. /\ T[n].tab \in S /\ T[n].i \in Slots[T[n].tab] /\ T[n].field \in Fields
      /\ T[n].field # "id" => T[n].value = A[T[n].tab][T[n].i][T[n].field]
      /\ (\A k \in n + 1 .. Len(T) : ~Hits(T[k], T[n].tab, T[n].i, T[n].field)) =>
            T[n].value = A[T[n].tab][T[n].i][T[n].field]
      /\ T[n].tab = "dev" /\ T[n].field = "id" => A["dev"][T[n].i].b = None
  BY Zenon DEF PendingOn
<1> QED BY <1>1

\* Two lists for different tables, one after the other.
LEMMA PendingConcat ==
    ASSUME NEW A, NEW S1, NEW S2, S1 \cap S2 = {}, NEW T1 \in Seq(StoreType), NEW T2 \in Seq(StoreType),
           PendingOn(A, T1, S1), PendingOn(A, T2, S2)
    PROVE  PendingOn(A, T1 \o T2, S1 \cup S2)
<1> DEFINE T == T1 \o T2
<1>1. /\ T \in Seq(StoreType) /\ Len(T) = Len(T1) + Len(T2) /\ Len(T1) \in Nat /\ Len(T2) \in Nat
      /\ \A n \in 1 .. Len(T1) : T[n] = T1[n]
      /\ \A n \in 1 .. Len(T2) : T[n + Len(T1)] = T2[n]
      /\ \A n \in 1 .. Len(T) : n \in 1 .. Len(T1) \/ n - Len(T1) \in 1 .. Len(T2)
  OBVIOUS
<1> HIDE DEF T
<1>2. ASSUME NEW tab \in S1 \cup S2, NEW i \in Slots[tab], NEW f \in Fields,
             \A n \in 1 .. Len(T) : ~Hits(T[n], tab, i, f)
      PROVE  mem[tab][i][f] = A[tab][i][f]
  <2>1. \A n \in 1 .. Len(T1) : ~Hits(T1[n], tab, i, f) BY <1>1, <1>2
  <2>2. \A n \in 1 .. Len(T2) : ~Hits(T2[n], tab, i, f) BY <1>1, <1>2
  <2>3. CASE tab \in S1 BY <2>1, <2>3, ZenonT(60) DEF PendingOn
  <2>4. CASE tab \in S2 BY <2>2, <2>4, ZenonT(60) DEF PendingOn
  <2> QED BY <2>3, <2>4
<1>3. ASSUME NEW n \in 1 .. Len(T)
      PROVE  /\ T[n].tab \in S1 \cup S2 /\ T[n].i \in Slots[T[n].tab] /\ T[n].field \in Fields
             /\ T[n].field # "id" => T[n].value = A[T[n].tab][T[n].i][T[n].field]
             /\ (\A k \in n + 1 .. Len(T) : ~Hits(T[k], T[n].tab, T[n].i, T[n].field)) =>
                   T[n].value = A[T[n].tab][T[n].i][T[n].field]
             /\ T[n].tab = "dev" /\ T[n].field = "id" => A["dev"][T[n].i].b = None
  <2>1. CASE n \in 1 .. Len(T1)
    <3>1. PICK s : s = T[n] /\ s = T1[n] BY <1>1, <2>1
    <3>2. (\A k \in n + 1 .. Len(T) : ~Hits(T[k], s.tab, s.i, s.field)) =>
             \A k \in n + 1 .. Len(T1) : ~Hits(T1[k], s.tab, s.i, s.field)
      BY <1>1, <2>1
    <3>3. /\ s.tab \in S1 /\ s.i \in Slots[s.tab] /\ s.field \in Fields
          /\ s.field # "id" => s.value = A[s.tab][s.i][s.field]
          /\ (\A k \in n + 1 .. Len(T1) : ~Hits(T1[k], s.tab, s.i, s.field)) =>
                s.value = A[s.tab][s.i][s.field]
          /\ s.tab = "dev" /\ s.field = "id" => A["dev"][s.i].b = None
      BY <2>1, <3>1, PendingAt
    <3> QED BY <3>1, <3>2, <3>3, Zenon
  <2>2. CASE n - Len(T1) \in 1 .. Len(T2)
    <3>4. n \in Int /\ Len(T1) \in Int BY <1>1
    <3>5. n = (n - Len(T1)) + Len(T1) BY <3>4
    <3>0. PICK m \in 1 .. Len(T2) : n = m + Len(T1) BY <2>2, <3>5, Zenon
    <3>1. PICK s : s = T[n] /\ s = T2[m] BY <1>1, <3>0
    <3>2. (\A k \in n + 1 .. Len(T) : ~Hits(T[k], s.tab, s.i, s.field)) =>
             \A k \in m + 1 .. Len(T2) : ~Hits(T2[k], s.tab, s.i, s.field)
      <4>1. \A k \in m + 1 .. Len(T2) : k + Len(T1) \in n + 1 .. Len(T) /\ T[k + Len(T1)] = T2[k]
        BY <1>1, <3>0
      <4> QED BY <4>1, Zenon
    <3>3. /\ s.tab \in S2 /\ s.i \in Slots[s.tab] /\ s.field \in Fields
          /\ s.field # "id" => s.value = A[s.tab][s.i][s.field]
          /\ (\A k \in m + 1 .. Len(T2) : ~Hits(T2[k], s.tab, s.i, s.field)) =>
                s.value = A[s.tab][s.i][s.field]
          /\ s.tab = "dev" /\ s.field = "id" => A["dev"][s.i].b = None
      BY <3>1, PendingAt
    <3> QED BY <3>1, <3>2, <3>3, Zenon
  <2> QED BY <1>1, <2>1, <2>2
<1> QED BY <1>2, <1>3, Zenon DEF PendingOn, T

\* Tables that no store is for are as they will be.
LEMMA PendingMore ==
    ASSUME NEW A, NEW S1, NEW S2, NEW T, PendingOn(A, T, S1),
           \A tab \in S2 : A[tab] = mem[tab]
    PROVE  PendingOn(A, T, S1 \cup S2)
BY Zenon DEF PendingOn

\* Row i of the table is what is to be published, and the others stay as they are.
Published(A, tab, i, key, a, b) ==
    /\ A[tab][i].id = key /\ A[tab][i].a = a /\ A[tab][i].b = b
    /\ \A k \in Slots[tab] : k # i => A[tab][k] = mem[tab][k]

\* The four stores of a registration publish one row.
LEMMA PublishPends ==
    ASSUME NEW A, NEW tab \in Tabs, NEW i \in Slots[tab],
           NEW key \in Words, NEW a \in Words, NEW b \in Words,
           Published(A, tab, i, key, a, b), tab = "dev" => b = None,
           NEW T, T = Publish(tab, i, key, a, b)
    PROVE  PendingOn(A, T, {tab}) /\ T \in Seq(StoreType) /\ T # << >>
<1>0. /\ A[tab][i].id = key /\ A[tab][i].a = a /\ A[tab][i].b = b
      /\ \A k \in Slots[tab] : k # i => A[tab][k] = mem[tab][k]
  BY DEF Published
<1>1. /\ T[1] = Store(tab, i, "id", None) /\ T[2] = Store(tab, i, "a", a)
      /\ T[3] = Store(tab, i, "b", b) /\ T[4] = Store(tab, i, "id", key)
      /\ Len(T) = 4 /\ 1 .. Len(T) = {1, 2, 3, 4}
  BY DEF Publish
<1>2. i \in Nat BY SlotKinds
<1>3. \A f \in Fields, v \in Words : Store(tab, i, f, v) \in StoreType
  BY <1>2 DEF Store, StoreType
<1>4. T \in Seq(StoreType)
  BY <1>3, WordKinds DEF Publish, Fields
<1>5. ASSUME NEW x \in {tab}, NEW k \in Slots[x], NEW f \in Fields,
             \A n \in 1 .. Len(T) : ~Hits(T[n], x, k, f)
      PROVE  mem[x][k][f] = A[x][k][f]
  <2>1. k # i BY <1>1, <1>5 DEF Hits, Store, Fields
  <2> QED BY <1>0, <2>1
<1>6. ASSUME NEW n \in 1 .. Len(T)
      PROVE  /\ T[n].tab \in {tab} /\ T[n].i \in Slots[T[n].tab] /\ T[n].field \in Fields
             /\ T[n].field # "id" => T[n].value = A[T[n].tab][T[n].i][T[n].field]
             /\ (\A k \in n + 1 .. Len(T) : ~Hits(T[k], T[n].tab, T[n].i, T[n].field)) =>
                   T[n].value = A[T[n].tab][T[n].i][T[n].field]
             /\ T[n].tab = "dev" /\ T[n].field = "id" => A["dev"][T[n].i].b = None
  <2>1. CASE n = 1
    <3>1. 4 \in n + 1 .. Len(T) /\ Hits(T[4], T[n].tab, T[n].i, T[n].field)
      BY <1>1, <2>1 DEF Store, Hits
    <3> QED BY <1>0, <1>1, <2>1, <3>1 DEF Store, Fields
  <2>2. CASE n = 2 BY <1>0, <1>1, <2>2 DEF Store, Fields
  <2>3. CASE n = 3 BY <1>0, <1>1, <2>3 DEF Store, Fields
  <2>4. CASE n = 4 BY <1>0, <1>1, <2>4 DEF Store, Fields
  <2> QED BY <1>1, <2>1, <2>2, <2>3, <2>4
<1>7. PendingOn(A, T, {tab}) BY <1>5, <1>6, Zenon DEF PendingOn
<1>8. T # << >> BY DEF Publish
<1> QED BY <1>4, <1>7, <1>8

\* Every list whose stores all carry the final value, and that stores in every
\* field which changes.
LEMMA FinalPends ==
    ASSUME NEW A, NEW tab \in Tabs, NEW T \in Seq(StoreType),
           \A n \in 1 .. Len(T) :
              /\ T[n].tab = tab /\ T[n].i \in Slots[tab]
              /\ T[n].value = A[tab][T[n].i][T[n].field]
              /\ tab = "dev" /\ T[n].field = "id" => A["dev"][T[n].i].b = None,
           \A k \in Slots[tab], f \in Fields :
              A[tab][k][f] # mem[tab][k][f] => \E n \in 1 .. Len(T) : Hits(T[n], tab, k, f)
    PROVE  PendingOn(A, T, {tab})
<1>1. \A n \in 1 .. Len(T) : T[n] \in StoreType OBVIOUS
<1>2. \A n \in 1 .. Len(T) : T[n].field \in Fields BY <1>1 DEF StoreType
<1>3. ASSUME NEW n \in 1 .. Len(T)
      PROVE  /\ T[n].tab \in {tab} /\ T[n].i \in Slots[T[n].tab] /\ T[n].field \in Fields
             /\ T[n].field # "id" => T[n].value = A[T[n].tab][T[n].i][T[n].field]
             /\ (\A k \in n + 1 .. Len(T) : ~Hits(T[k], T[n].tab, T[n].i, T[n].field)) =>
                   T[n].value = A[T[n].tab][T[n].i][T[n].field]
             /\ T[n].tab = "dev" /\ T[n].field = "id" => A["dev"][T[n].i].b = None
  BY <1>2
<1> QED BY <1>3, Zenon DEF PendingOn

\* The three stores of a clear empty one row.
LEMMA ClearPends ==
    ASSUME NEW A, NEW tab \in Tabs, NEW i \in Slots[tab], A[tab][i] = Empty,
           \A k \in Slots[tab] : k # i => A[tab][k] = mem[tab][k],
           NEW T, T = Clear(tab, i)
    PROVE  PendingOn(A, T, {tab}) /\ T \in Seq(StoreType) /\ T # << >>
<1>1. /\ T[1] = Store(tab, i, "id", None) /\ T[2] = Store(tab, i, "a", None)
      /\ T[3] = Store(tab, i, "b", None) /\ Len(T) = 3 /\ 1 .. Len(T) = {1, 2, 3}
  BY DEF Clear
<1>2. i \in Nat BY SlotKinds
<1>3. \A f \in Fields, v \in Words : Store(tab, i, f, v) \in StoreType
  BY <1>2 DEF Store, StoreType
<1>4. T \in Seq(StoreType) BY <1>3, WordKinds DEF Clear, Fields
<1>5. \A n \in 1 .. Len(T) :
         /\ T[n].tab = tab /\ T[n].i \in Slots[tab]
         /\ T[n].value = A[tab][T[n].i][T[n].field]
         /\ tab = "dev" /\ T[n].field = "id" => A["dev"][T[n].i].b = None
  BY <1>1 DEF Store, Empty
<1>6. ASSUME NEW k \in Slots[tab], NEW f \in Fields, A[tab][k][f] # mem[tab][k][f]
      PROVE  \E n \in 1 .. Len(T) : Hits(T[n], tab, k, f)
  <2>1. k = i BY <1>6
  <2>2. Hits(T[1], tab, k, "id") /\ Hits(T[2], tab, k, "a") /\ Hits(T[3], tab, k, "b")
    BY <1>1, <2>1 DEF Store, Hits
  <2> QED BY <1>1, <2>2 DEF Fields
<1>7. T # << >> BY <1>1
<1>8. PendingOn(A, T, {tab}) BY <1>4, <1>5, <1>6, FinalPends, ZenonT(40)
<1> QED BY <1>4, <1>7, <1>8

\* One store exchanges the semaphore of a device.
LEMMA SemPends ==
    ASSUME NEW A, NEW i \in Slots["dev"], NEW v \in Words, A["dev"][i].b = v,
           A["dev"][i].id = mem["dev"][i].id, A["dev"][i].a = mem["dev"][i].a,
           \A k \in Slots["dev"] : k # i => A["dev"][k] = mem["dev"][k],
           NEW T, T = <<Store("dev", i, "b", v)>>
    PROVE  PendingOn(A, T, {"dev"}) /\ T \in Seq(StoreType) /\ T # << >>
<1>1. T[1] = Store("dev", i, "b", v) /\ Len(T) = 1 /\ 1 .. Len(T) = {1} OBVIOUS
<1>2. i \in Nat BY SlotKinds DEF Tabs
<1>3. Store("dev", i, "b", v) \in StoreType BY <1>2 DEF Store, StoreType, Tabs, Fields
<1>4. T \in Seq(StoreType) BY <1>3
<1>5. \A n \in 1 .. Len(T) :
         /\ T[n].tab = "dev" /\ T[n].i \in Slots["dev"]
         /\ T[n].value = A["dev"][T[n].i][T[n].field]
         /\ T[n].field # "id"
  BY <1>1 DEF Store
<1>6. ASSUME NEW k \in Slots["dev"], NEW f \in Fields, A["dev"][k][f] # mem["dev"][k][f]
      PROVE  \E n \in 1 .. Len(T) : Hits(T[n], "dev", k, f)
  <2>1. k = i /\ f = "b" BY <1>6 DEF Fields
  <2> QED BY <1>1, <2>1 DEF Store, Hits
<1>7. "dev" \in Tabs BY DEF Tabs
<1> QED BY <1>1, <1>4, <1>5, <1>6, <1>7, FinalPends

\* The slots of a device are listed, each of them.
LEMMA RowsListed ==
    ASSUME NEW tab \in Tabs, NEW d, NEW R, R = RowsOf(tab, d)
    PROVE  /\ Len(R) \in Nat /\ DOMAIN R = 1 .. Len(R)
           /\ \A n \in 1 .. Len(R) : R[n] \in Slots[tab] /\ mem[tab][R[n]].a = d
           /\ \A i \in Slots[tab] : mem[tab][i].a = d => \E n \in 1 .. Len(R) : R[n] = i
<1>1. PICK rows : rows = {i \in Slots[tab] : mem[tab][i].a = d} OBVIOUS
<1>2. IsFiniteSet(rows) BY <1>1, SlotKinds, FS_Subset
<1>3. Cardinality(rows) \in Nat /\ ExistsBijection(1 .. Cardinality(rows), rows)
  BY <1>2, FS_CardinalityType
<1>4. PICK N \in Nat : N = Cardinality(rows) BY <1>3
<1>5. \E f \in [1 .. N -> rows] : \A i \in rows : \E n \in DOMAIN f : f[n] = i
  BY <1>3, <1>4 DEF ExistsBijection, Bijection, Surjection
<1>6. R = CHOOSE f \in [1 .. N -> rows] : \A i \in rows : \E n \in DOMAIN f : f[n] = i
  BY <1>1, <1>4 DEF RowsOf
<1>7. R \in [1 .. N -> rows] /\ \A i \in rows : \E n \in DOMAIN R : R[n] = i
  BY <1>5, <1>6
<1>8. R \in Seq(rows) /\ Len(R) = N /\ DOMAIN R = 1 .. N BY <1>7
<1> QED BY <1>1, <1>7, <1>8

\* The queue rows of a device get its function pointers.
LEMMA RefreshPends ==
    ASSUME TypeOK, NEW A, NEW d, NEW x \in Words,
           \A k \in Slots["queue"] :
              /\ A["queue"][k].id = mem["queue"][k].id /\ A["queue"][k].a = mem["queue"][k].a
              /\ A["queue"][k].b = IF mem["queue"][k].a = d THEN x ELSE mem["queue"][k].b,
           NEW T, T = RefreshQueues(d, x)
    PROVE  PendingOn(A, T, {"queue"}) /\ T \in Seq(StoreType)
<1>0. "queue" \in Tabs BY DEF Tabs
<1>1. PICK R : R = RowsOf("queue", d) OBVIOUS
<1>2. /\ Len(R) \in Nat
      /\ \A n \in 1 .. Len(R) : R[n] \in Slots["queue"] /\ mem["queue"][R[n]].a = d
      /\ \A i \in Slots["queue"] : mem["queue"][i].a = d => \E n \in 1 .. Len(R) : R[n] = i
  BY <1>0, <1>1, RowsListed
<1>3. T = [n \in 1 .. Len(R) |-> Store("queue", R[n], "b", x)] BY <1>1 DEF RefreshQueues
<1>4. \A n \in 1 .. Len(R) : Store("queue", R[n], "b", x) \in StoreType
  BY <1>0, <1>2, SlotKinds DEF Store, StoreType, Fields
<1>5. T \in Seq(StoreType) /\ Len(T) = Len(R) BY <1>2, <1>3, <1>4
<1>6. \A n \in 1 .. Len(T) : T[n] = Store("queue", R[n], "b", x) BY <1>3, <1>5
<1>7. \A n \in 1 .. Len(T) :
         /\ T[n].tab = "queue" /\ T[n].i \in Slots["queue"]
         /\ T[n].value = A["queue"][T[n].i][T[n].field]
  <2> SUFFICES ASSUME NEW n \in 1 .. Len(T)
               PROVE  /\ T[n].tab = "queue" /\ T[n].i \in Slots["queue"]
                      /\ T[n].value = A["queue"][T[n].i][T[n].field]
    OBVIOUS
  <2>1. PICK k \in Slots["queue"] : k = R[n] /\ mem["queue"][k].a = d BY <1>2, <1>5
  <2>2. T[n] = Store("queue", k, "b", x) BY <1>6, <2>1
  <2>3. A["queue"][k].b = x BY <2>1
  <2> QED BY <2>2, <2>3 DEF Store
<1>8. ASSUME NEW k \in Slots["queue"], NEW f \in Fields, A["queue"][k][f] # mem["queue"][k][f]
      PROVE  \E n \in 1 .. Len(T) : Hits(T[n], "queue", k, f)
  <2>1. f = "b" /\ mem["queue"][k].a = d BY <1>8 DEF Fields
  <2>2. PICK n \in 1 .. Len(R) : R[n] = k BY <1>2, <2>1
  <2>3. T[n] = Store("queue", k, "b", x) BY <1>5, <1>6, <2>2
  <2>4. Hits(T[n], "queue", k, f) BY <2>1, <2>3 DEF Store, Hits
  <2> QED BY <1>5, <2>4, Zenon
<1> QED BY <1>0, <1>5, <1>7, <1>8, FinalPends

\* The rows of a device are wiped.
LEMMA ErasePends ==
    ASSUME TypeOK, NEW A, NEW tab \in {"queue", "chain"}, NEW d,
           \A k \in Slots[tab] : A[tab][k] = IF mem[tab][k].a = d THEN Empty ELSE mem[tab][k],
           NEW T, T = EraseRows(tab, d)
    PROVE  PendingOn(A, T, {tab}) /\ T \in Seq(StoreType)
<1>0. tab \in Tabs BY DEF Tabs
<1>1. PICK R : R = RowsOf(tab, d) OBVIOUS
<1>2. /\ Len(R) \in Nat
      /\ \A n \in 1 .. Len(R) : R[n] \in Slots[tab] /\ mem[tab][R[n]].a = d
      /\ \A i \in Slots[tab] : mem[tab][i].a = d => \E n \in 1 .. Len(R) : R[n] = i
  BY <1>0, <1>1, RowsListed
<1>3. PICK L \in Nat : L = Len(R) BY <1>2
<1>4. T = [n \in 1 .. 3 * L |->
             Store(tab, R[(n + 2) \div 3], <<"id", "a", "b">>[((n - 1) % 3) + 1], None)]
  BY <1>1, <1>3 DEF EraseRows
<1>5. \A n \in 1 .. 3 * L : /\ (n + 2) \div 3 \in 1 .. L
                            /\ ((n - 1) % 3) + 1 \in {1, 2, 3}
  OBVIOUS
<1>6. \A m \in {1, 2, 3} : <<"id", "a", "b">>[m] \in Fields BY DEF Fields
<1>7. \A k \in Slots[tab], f \in Fields : Store(tab, k, f, None) \in StoreType
  BY <1>0, SlotKinds, WordKinds DEF Store, StoreType
<1>8. \A n \in 1 .. 3 * L : R[(n + 2) \div 3] \in Slots[tab] /\ mem[tab][R[(n + 2) \div 3]].a = d
  BY <1>2, <1>3, <1>5
<1>9. \A n \in 1 .. 3 * L :
         \E k \in Slots[tab], f \in Fields : mem[tab][k].a = d /\ T[n] = Store(tab, k, f, None)
  <2> SUFFICES ASSUME NEW n \in 1 .. 3 * L
               PROVE  \E k \in Slots[tab], f \in Fields : mem[tab][k].a = d /\ T[n] = Store(tab, k, f, None)
    OBVIOUS
  <2>1. T[n] = Store(tab, R[(n + 2) \div 3], <<"id", "a", "b">>[((n - 1) % 3) + 1], None) BY <1>4
  <2>2. <<"id", "a", "b">>[((n - 1) % 3) + 1] \in Fields BY <1>5, <1>6, Zenon
  <2> QED BY <1>8, <2>1, <2>2, Zenon
<1>10. T \in Seq(StoreType) /\ Len(T) = 3 * L
  <2>1. \A n \in 1 .. 3 * L : T[n] \in StoreType BY <1>7, <1>9, Zenon
  <2>2. PICK g : g = [n \in 1 .. 3 * L |-> T[n]] OBVIOUS
  <2>3. T = g BY <1>4, <2>2, Zenon
  <2>4. 3 * L \in Nat OBVIOUS
  <2>5. PICK N \in Nat : N = 3 * L BY <2>4
  <2> QED BY <2>1, <2>2, <2>3, <2>5
<1>11. \A n \in 1 .. Len(T) :
         /\ T[n].tab = tab /\ T[n].i \in Slots[tab]
         /\ T[n].value = A[tab][T[n].i][T[n].field]
  <2> SUFFICES ASSUME NEW n \in 1 .. Len(T)
               PROVE  /\ T[n].tab = tab /\ T[n].i \in Slots[tab]
                      /\ T[n].value = A[tab][T[n].i][T[n].field]
    OBVIOUS
  <2>1. PICK k \in Slots[tab], f \in Fields : mem[tab][k].a = d /\ T[n] = Store(tab, k, f, None)
    BY <1>9, <1>10
  <2>2. A[tab][k] = Empty BY <2>1
  <2>3. Empty[f] = None BY DEF Empty, Fields
  <2> QED BY <2>1, <2>2, <2>3 DEF Store
<1>12. ASSUME NEW k \in Slots[tab], NEW f \in Fields, A[tab][k][f] # mem[tab][k][f]
      PROVE  \E n \in 1 .. Len(T) : Hits(T[n], tab, k, f)
  <2>1. mem[tab][k].a = d BY <1>12
  <2>2. PICK n \in 1 .. L : R[n] = k BY <1>2, <1>3, <2>1
  <2>3. ASSUME NEW m \in {1, 2, 3}
        PROVE  /\ 3 * (n - 1) + m \in 1 .. 3 * L
               /\ (3 * (n - 1) + m + 2) \div 3 = n
               /\ (((3 * (n - 1) + m) - 1) % 3) + 1 = m
    <3>1. CASE m = 1 BY <3>1
    <3>2. CASE m = 2 BY <3>2
    <3>3. CASE m = 3 BY <3>3
    <3> QED BY <3>1, <3>2, <3>3
  <2>4. PICK m \in {1, 2, 3} : <<"id", "a", "b">>[m] = f
    <3>1. <<"id", "a", "b">>[1] = "id" /\ <<"id", "a", "b">>[2] = "a" /\ <<"id", "a", "b">>[3] = "b"
      OBVIOUS
    <3> QED BY <3>1 DEF Fields
  <2>5. PICK w \in 1 .. 3 * L : (w + 2) \div 3 = n /\ ((w - 1) % 3) + 1 = m
    <3>1. 3 * (n - 1) + m \in 1 .. 3 * L BY <2>3
    <3>2. PICK w \in 1 .. 3 * L : w = 3 * (n - 1) + m BY <3>1
    <3>3. (w + 2) \div 3 = n /\ ((w - 1) % 3) + 1 = m BY <2>3, <3>2
    <3> QED BY <3>3
  <2>6. T[w] = Store(tab, k, f, None) BY <1>4, <2>2, <2>4, <2>5
  <2> QED BY <1>10, <2>6 DEF Store, Hits
<1> QED BY <1>0, <1>10, <1>11, <1>12, FinalPends

----------------------------------------------------------------------------
(* What hkvkCreateDevice decides *)

\* No creation that the model offers is refused without a reason, hands the
\* driver what it lacks or records what it was not asked for.
LEMMA CreationSound ==
    ASSUME NEW p \in Platforms, NEW s \in Policies,
           NEW r \in Requests(p, enumerate_policy_extensions(p, s)), NEW procs \in BOOLEAN
    PROVE  Creation(p, s, r, procs).verdicts = Fresh
<1> DEFINE native   == should_use_native_nv_low_latency2(s, "nv" \in p.exts)
           refusal  == Refusal(p, s, r)
           handed   == HandedToDriver(p, s, r)
           state    == DeviceState(p, s, r, procs)
           enabled  == state.features \cup (IF state.antilag THEN {"antilag"} ELSE {})
                          \cup (IF state.nv = "native" THEN {"nv"} ELSE {})
<1>1. p \in [api12 : BOOLEAN, exts : SUBSET Extensions, antilag : BOOLEAN]
  BY RegistryAssumption
<1>2. /\ r \in [exts : SUBSET enumerate_policy_extensions(p, s), features : {{}, {"id", "id2"}},
                group : BOOLEAN, antilag : {"absent", "on", "off"}]
      /\ "nv" \in r.exts => prerequisites_supported([p EXCEPT !.exts = r.exts])
  BY DEF Requests
<1>3. r.exts \subseteq enumerate_policy_extensions(p, s) BY <1>2
<1>4. "nv" \in r.exts => Advertised(p, s)
  BY <1>3 DEF enumerate_policy_extensions
<1>5. r.exts \ {"nv"} \subseteq p.exts
  BY <1>3 DEF enumerate_policy_extensions
<1>6. "nv" \in r.exts => prerequisites_enabled(p, r)
  <2>1. [p EXCEPT !.exts = r.exts].exts = r.exts /\ [p EXCEPT !.exts = r.exts].api12 = p.api12
    BY <1>1
  <2> QED BY <1>2, <2>1 DEF prerequisites_supported, prerequisites_enabled
<1>7. refusal \in {"none", "device_group"}
  <2>1. CASE "nv" \in r.exts BY <1>4, <1>6, <2>1 DEF Refusal
  <2>2. CASE "nv" \notin r.exts BY <2>2 DEF Refusal
  <2> QED BY <2>1, <2>2
<1>8. handed \ p.exts = {}
  <2>1. native => "nv" \in p.exts BY DEF should_use_native_nv_low_latency2
  <2>2. AntiLagAdded(p, r) => "antilag" \in p.exts BY DEF AntiLagAdded
  <2>3. handed = (r.exts \ (IF native THEN {} ELSE {"nv"}))
                    \cup (IF AntiLagAdded(p, r) THEN {"antilag"} ELSE {})
    BY DEF HandedToDriver
  <2> HIDE DEF native, handed
  <2> QED BY <1>5, <2>1, <2>2, <2>3
<1>9. enabled \ handed = {}
  <2>1. /\ state.nv = "native" => "nv" \in r.exts /\ native
        /\ state.antilag = AntiLagEnabled(p, r) /\ state.features = PresentFeatures(s, r)
    BY DEF DeviceState
  <2>2. PresentFeatures(s, r) \subseteq r.exts \ {"nv"} BY DEF PresentFeatures
  <2>3. AntiLagEnabled(p, r) => AntiLagAdded(p, r) BY DEF AntiLagEnabled
  <2>4. handed = (r.exts \ (IF native THEN {} ELSE {"nv"}))
                    \cup (IF AntiLagAdded(p, r) THEN {"antilag"} ELSE {})
    BY DEF HandedToDriver
  <2>5. enabled = PresentFeatures(s, r) \cup (IF AntiLagEnabled(p, r) THEN {"antilag"} ELSE {})
                     \cup (IF state.nv = "native" THEN {"nv"} ELSE {})
    BY <2>1
  <2>6. state.nv = "native" => "nv" \in r.exts /\ native BY <2>1
  <2> HIDE DEF native, handed, state, enabled
  <2> QED BY <2>2, <2>3, <2>4, <2>5, <2>6
<1>10. Creation(p, s, r, procs).verdicts =
          [refused     |-> refusal \notin {"none", "device_group"},
           unsupported |-> IF refusal = "none" THEN handed \ p.exts ELSE {},
           unbacked    |-> IF refusal = "none" THEN enabled \ handed ELSE {}]
  BY DEF Creation
<1> HIDE DEF refusal, handed, enabled
<1> QED BY <1>7, <1>8, <1>9, <1>10 DEF Fresh

\* The verdicts on every creation.
LEMMA CreationsSound == \A c \in Creations : c.verdicts = Fresh
<1> SUFFICES ASSUME NEW c \in Creations PROVE c.verdicts = Fresh OBVIOUS
<1>1. PICK p \in Platforms, s \in Policies :
         c \in {Creation(p, s, r, procs) : r \in Requests(p, enumerate_policy_extensions(p, s)),
                                           procs \in BOOLEAN}
  BY DEF Creations
<1>2. PICK r \in Requests(p, enumerate_policy_extensions(p, s)), procs \in BOOLEAN :
         c = Creation(p, s, r, procs)
  BY <1>1
<1> QED BY <1>2, CreationSound

----------------------------------------------------------------------------
(* What the steps of a lookup do *)

TlsType == [Threads -> [dev : EntryType, queue : EntryType]]

\* Most steps change the locals and the cache of one thread.
LEMMA LocalType ==
    ASSUME TypeOK, th' \in [Threads -> ThreadType], tls' \in TlsType,
           UNCHANGED <<mem, gen, lock, live, owner, sems, passes>>
    PROVE  TypeOK'
<1>1. UNCHANGED Slots BY DEF Slots
<1> QED BY <1>1 DEF TypeOK, TlsType

\* A row with the key that t looks for holds what t comes away with.
Found(t) == \E i \in Slots[th[t].tab] : /\ mem[th[t].tab][i].id = th[t].key
                                        /\ mem[th[t].tab][i].a = th'[t].a
                                        /\ mem[th[t].tab][i].b = th'[t].b

\* One step of a lookup that goes on.
LookStep(t) ==
    /\ UNCHANGED <<mem, gen, lock, live, owner, sems>> /\ Others(t)
    /\ th'[t].dev = th[t].dev /\ th'[t].tab = th[t].tab /\ th'[t].key = th[t].key
    /\ th'[t].flags = th[t].flags /\ th'[t].sem = th[t].sem /\ th'[t].todo = th[t].todo
    /\ th[t].pc \in Looking /\ th'[t].pc \in Looking
    /\ th'[t].op = th[t].op \/ (th[t].op = "init" /\ th'[t].op = "init_ll")
    /\ \/ th'[t].pc \in {"gen", "scan", "read_a", "read_b", "check"}
       \/ th'[t].pc = "got" /\ (th'[t].a # None => lock = None /\ Found(t))
       \/ /\ th[t].pc \in {"got", "fallback"} /\ th'[t].pc \in {"got", "signal", "fallback"}
          /\ th'[t].a = th[t].a /\ th'[t].b = th[t].b

\* The cached entries.
LEMMA Entries ==
    ASSUME TypeOK, NEW t \in Threads
    PROVE  /\ tls \in TlsType /\ tls[t].dev \in EntryType /\ tls[t].queue \in EntryType
           /\ Entry(t) \in EntryType
<1>1. tls \in TlsType BY DEF TypeOK, TlsType
<1>2. tls[t].dev \in EntryType /\ tls[t].queue \in EntryType BY <1>1 DEF TlsType
<1>3. NoEntry \in EntryType BY WordKinds DEF NoEntry, EntryType
<1>4. th[t].tab \in {"dev", "queue", "chain"} BY Locals DEF Tabs
<1>5. Entry(t) \in EntryType BY <1>2, <1>3, <1>4 DEF Entry
<1> QED BY <1>1, <1>2, <1>5

\* An even generation means that nobody writes.
LEMMA EvenUnlocked ==
    ASSUME Seqlock PROVE gen % 2 = 0 => lock = None
BY DEF Seqlock

\* A lookup starts: it answers from the cache or takes an even generation and scans.
LEMMA ReadGenerationEffect ==
    ASSUME TypeOK, Phases, Seqlock, Caches, NEW t \in Threads, ReadGeneration(t)
    PROVE  /\ TypeOK' /\ LookStep(t) /\ Phase(th'[t]) /\ tls' = tls
           /\ th'[t].pc \in {"got", "scan"}
           /\ th'[t].g = th[t].g \/ (th'[t].g = gen /\ gen % 2 = 0)
<1>1. PICK me : me = th[t] OBVIOUS
<1>2. me \in ThreadType /\ me.pc = "gen" /\ gen % 2 = 0 /\ gen \in Nat /\ Phase(me)
  BY <1>1, Locals DEF ReadGeneration, Phases, TypeOK
<1>3. /\ UNCHANGED <<mem, gen, lock, tls, live, owner, sems, passes>> /\ lock = None
  BY <1>2, EvenUnlocked DEF ReadGeneration
<1>4. PICK e \in EntryType : e = Entry(t) BY Entries
<1>5. e.a \in Words /\ e.b \in Words BY DEF EntryType
<1>6. CASE CacheHit(t)
  <2>1. PICK r : r = [me EXCEPT !.pc = "got", !.a = e.a, !.b = e.b] OBVIOUS
  <2>2. r \in ThreadType BY <1>2, <1>5, <2>1 DEF ThreadType, PCs
  <2>3. th' = [th EXCEPT ![t] = r] BY <1>1, <1>4, <1>6, <2>1 DEF ReadGeneration
  <2>4. th'[t] = r /\ Others(t) /\ th' \in [Threads -> ThreadType] BY <2>2, <2>3, OneThread
  <2>5. TypeOK' BY <1>3, <2>4, Entries, LocalType
  <2>6. /\ r.pc = "got" /\ r.a = e.a /\ r.b = e.b /\ r.dev = me.dev /\ r.tab = me.tab /\ r.key = me.key
        /\ r.flags = me.flags /\ r.sem = me.sem /\ r.todo = me.todo /\ r.op = me.op /\ r.g = me.g
    BY <1>2, <2>1 DEF ThreadType
  <2>7. Phase(r) BY <1>2, <2>6 DEF Phase, Looking, OfHandle, SoleOfChain
  <2>8. r.a # None => Found(t)
    <3> SUFFICES ASSUME r.a # None PROVE Found(t) OBVIOUS
    <3>1. e.key = me.key /\ e.g = gen BY <1>1, <1>4, <1>6 DEF CacheHit
    <3>2. me.tab \in {"dev", "queue"} /\ e = tls[t][me.tab]
      BY <1>1, <1>4, <2>6, Locals DEF Entry, NoEntry, Tabs
    <3>3. \E i \in Slots[me.tab] : /\ mem[me.tab][i].id = e.key /\ mem[me.tab][i].a = e.a
                                   /\ mem[me.tab][i].b = e.b
      <4>1. PICK tab \in {"dev", "queue"} : tab = me.tab BY <3>2
      <4>2. tls[t][tab].g = gen /\ tls[t][tab].a # None BY <2>6, <3>1, <3>2, <4>1
      <4>3. \E i \in Slots[tab] : /\ mem[tab][i].id = tls[t][tab].key
                                  /\ mem[tab][i].a = tls[t][tab].a /\ mem[tab][i].b = tls[t][tab].b
        BY <4>2 DEF Caches
      <4> QED BY <3>2, <4>1, <4>3
    <3> QED BY <1>1, <2>4, <2>6, <3>1, <3>3 DEF Found
  <2>9. LookStep(t) BY <1>1, <1>2, <1>3, <2>4, <2>6, <2>8 DEF LookStep, Looking
  <2> QED BY <1>1, <1>3, <2>4, <2>5, <2>6, <2>7, <2>9
<1>7. CASE ~CacheHit(t)
  <2>1. PICK r : r = [me EXCEPT !.pc = "scan", !.g = gen, !.i = 1] OBVIOUS
  <2>2. r \in ThreadType BY <1>2, <2>1 DEF ThreadType, PCs
  <2>3. th' = [th EXCEPT ![t] = r] BY <1>1, <1>7, <2>1 DEF ReadGeneration
  <2>4. th'[t] = r /\ Others(t) /\ th' \in [Threads -> ThreadType] BY <2>2, <2>3, OneThread
  <2>5. TypeOK' BY <1>3, <2>4, Entries, LocalType
  <2>6. /\ r.pc = "scan" /\ r.dev = me.dev /\ r.tab = me.tab /\ r.key = me.key
        /\ r.flags = me.flags /\ r.sem = me.sem /\ r.todo = me.todo /\ r.op = me.op /\ r.g = gen
    BY <1>2, <2>1 DEF ThreadType
  <2>7. Phase(r) BY <1>2, <2>6 DEF Phase, Looking, OfHandle, SoleOfChain
  <2>9. LookStep(t) BY <1>1, <1>2, <1>3, <2>4, <2>6 DEF LookStep, Looking
  <2> QED BY <1>1, <1>2, <1>3, <2>4, <2>5, <2>6, <2>7, <2>9
<1> QED BY <1>6, <1>7

\* The end of a lookup, with a row or without one.
LEMMA ConcludeEffect ==
    ASSUME TypeOK, Phases, Seqlock, Caches, NEW t \in Threads, th[t].pc \in {"scan", "check"},
           NEW found \in BOOLEAN, NEW a \in Words, NEW b \in Words,
           found /\ th[t].g = gen => /\ th[t].i \in Slots[th[t].tab]
                                     /\ a = mem[th[t].tab][th[t].i].a
                                     /\ b = mem[th[t].tab][th[t].i].b,
           ~found => a = None,
           Conclude(t, found, a, b), UNCHANGED <<mem, gen, lock, live, owner, sems, passes>>
    PROVE  /\ TypeOK' /\ LookStep(t) /\ Phase(th'[t]) /\ Caches'
           /\ th'[t].pc \in {"got", "gen"} /\ th'[t].g = th[t].g
           /\ \A u \in Threads : /\ tls'[u].dev.g = tls[u].dev.g \/ tls'[u].dev.g = th[t].g
                                 /\ tls'[u].queue.g = tls[u].queue.g \/ tls'[u].queue.g = th[t].g
<1>1. PICK me : me = th[t] OBVIOUS
<1>2. me \in ThreadType /\ me.pc \in {"scan", "check"} /\ Phase(me) /\ me.tab \in Tabs /\ me.key \in Words
      /\ me.g \in Nat
  BY <1>1, Locals DEF Phases
<1>3. PICK e : e = [key |-> me.key, g |-> me.g, a |-> a, b |-> b, resolved |-> found,
                    notify |-> IF found /\ me.tab = "queue" /\ passes[b] THEN b ELSE None]
  OBVIOUS
<1>4. e \in EntryType
  <2>1. PICK x \in Words : x = IF found /\ me.tab = "queue" /\ passes[b] THEN b ELSE None BY WordKinds
  <2> QED BY <1>2, <1>3, <2>1 DEF EntryType
<1>5. CASE StillValid(me, found)
  <2>1. PICK r : r = [me EXCEPT !.pc = "got", !.a = a, !.b = b] OBVIOUS
  <2>2. r \in ThreadType BY <1>2, <2>1 DEF ThreadType, PCs
  <2>3. /\ th' = [th EXCEPT ![t] = r]
        /\ tls' = IF me.tab = "chain" THEN tls ELSE [tls EXCEPT ![t][me.tab] = e]
    BY <1>1, <1>3, <1>5, <2>1 DEF Conclude
  <2>4. th'[t] = r /\ Others(t) /\ th' \in [Threads -> ThreadType] BY <2>2, <2>3, OneThread
  <2>5. /\ r.pc = "got" /\ r.a = a /\ r.b = b /\ r.dev = me.dev /\ r.tab = me.tab /\ r.key = me.key
        /\ r.flags = me.flags /\ r.sem = me.sem /\ r.todo = me.todo /\ r.op = me.op /\ r.g = me.g
    BY <1>2, <2>1 DEF ThreadType
  <2>6. Phase(r) BY <1>2, <2>5 DEF Phase, Looking, OfHandle, SoleOfChain
  <2>7. gen = me.g /\ lock = None /\ (found => mem[me.tab][me.i].id = me.key)
    <3>1. gen = me.g /\ (found => mem[me.tab][me.i].id = me.key) BY <1>5 DEF StillValid
    <3>2. gen % 2 = 0 BY <1>1, <3>1 DEF Seqlock
    <3> QED BY <3>1, <3>2, EvenUnlocked
  <2>8. a # None => \E i \in Slots[me.tab] : /\ mem[me.tab][i].id = me.key
                                             /\ mem[me.tab][i].a = a /\ mem[me.tab][i].b = b
    BY <1>1, <2>7
  <2>9. LookStep(t) BY <1>1, <1>2, <2>4, <2>5, <2>7, <2>8 DEF LookStep, Looking, Found
  <2>10. tls' \in TlsType /\ \A u \in Threads : u # t => tls'[u] = tls[u]
    <3>1. tls \in TlsType BY Entries
    <3>2. me.tab = "dev" \/ me.tab = "queue" \/ me.tab = "chain" BY <1>2 DEF Tabs
    <3>3. PICK E : E = EntryType OBVIOUS
    <3>4. tls \in [Threads -> [dev : E, queue : E]] /\ e \in E BY <1>4, <3>1, <3>3 DEF TlsType
    <3>5. /\ tls' \in [Threads -> [dev : E, queue : E]]
          /\ \A u \in Threads : u # t => tls'[u] = tls[u]
      BY <2>3, <3>2, <3>4
    <3> QED BY <3>3, <3>5 DEF TlsType
  <2>11. /\ me.tab = "chain" => tls'[t] = tls[t]
         /\ me.tab = "dev" => tls'[t].dev = e /\ tls'[t].queue = tls[t].queue
         /\ me.tab = "queue" => tls'[t].queue = e /\ tls'[t].dev = tls[t].dev
    <3>1. tls \in TlsType BY Entries
    <3>3. PICK E : E = EntryType OBVIOUS
    <3>4. tls \in [Threads -> [dev : E, queue : E]] BY <3>1, <3>3 DEF TlsType
    <3> QED BY <2>3, <3>4
  <2>12. TypeOK' BY <2>4, <2>10, LocalType
  <2>13. e.g = gen /\ e.key = me.key /\ e.a = a /\ e.b = b /\ e.resolved = found BY <1>3, <2>7
  <2>14. Caches'
    <3> SUFFICES ASSUME NEW u \in Threads
                 PROVE  /\ \A tab \in {"dev", "queue"} : tls'[u][tab].g = gen' /\ tls'[u][tab].a # None =>
                             \E i \in Slots[tab] : /\ mem'[tab][i].id = tls'[u][tab].key
                                                   /\ mem'[tab][i].a = tls'[u][tab].a
                                                   /\ mem'[tab][i].b = tls'[u][tab].b
                        /\ ~tls'[u].queue.resolved => tls'[u].queue.a = None
                        /\ th'[u].pc = "fallback" => ~tls'[u].queue.resolved
      BY DEF Caches, Slots
    <3>1. /\ \A tab \in {"dev", "queue"} : tls[u][tab].g = gen /\ tls[u][tab].a # None =>
                \E i \in Slots[tab] : /\ mem[tab][i].id = tls[u][tab].key
                                      /\ mem[tab][i].a = tls[u][tab].a
                                      /\ mem[tab][i].b = tls[u][tab].b
          /\ ~tls[u].queue.resolved => tls[u].queue.a = None
          /\ th[u].pc = "fallback" => ~tls[u].queue.resolved
      BY DEF Caches
    <3>2. CASE u # t BY <2>4, <2>10, <3>1, <3>2 DEF Others
    <3>3. CASE u = t /\ me.tab = "chain" BY <2>4, <2>5, <2>11, <3>1, <3>3
    <3>4. CASE u = t /\ me.tab = "dev" BY <2>4, <2>5, <2>8, <2>11, <2>13, <3>1, <3>4
    <3>5. CASE u = t /\ me.tab = "queue" BY <2>4, <2>5, <2>8, <2>11, <2>13, <3>1, <3>5
    <3> QED BY <1>2, <3>2, <3>3, <3>4, <3>5 DEF Tabs
  <2>15. ASSUME NEW u \in Threads
         PROVE  /\ tls'[u].dev.g = tls[u].dev.g \/ tls'[u].dev.g = me.g
                /\ tls'[u].queue.g = tls[u].queue.g \/ tls'[u].queue.g = me.g
    BY <1>2, <2>7, <2>10, <2>11, <2>13 DEF Tabs
  <2> QED BY <1>1, <2>4, <2>5, <2>6, <2>9, <2>12, <2>14, <2>15
<1>6. CASE ~StillValid(me, found)
  <2>1. PICK r : r = [me EXCEPT !.pc = "gen"] OBVIOUS
  <2>2. r \in ThreadType BY <1>2, <2>1 DEF ThreadType, PCs
  <2>3. th' = [th EXCEPT ![t] = r] /\ tls' = tls
    BY <1>1, <1>6, <2>1 DEF Conclude
  <2>4. th'[t] = r /\ Others(t) /\ th' \in [Threads -> ThreadType] BY <2>2, <2>3, OneThread
  <2>5. /\ r.pc = "gen" /\ r.dev = me.dev /\ r.tab = me.tab /\ r.key = me.key
        /\ r.flags = me.flags /\ r.sem = me.sem /\ r.todo = me.todo /\ r.op = me.op /\ r.g = me.g
    BY <1>2, <2>1 DEF ThreadType
  <2>6. Phase(r) BY <1>2, <2>5 DEF Phase, Looking, OfHandle, SoleOfChain
  <2>7. TypeOK' BY <2>3, <2>4, Entries, LocalType
  <2>8. LookStep(t) BY <1>1, <1>2, <2>4, <2>5 DEF LookStep, Looking
  <2>9. Caches' BY <2>3, <2>4, <2>5 DEF Caches, Others, Slots
  <2> QED BY <1>1, <2>3, <2>4, <2>5, <2>6, <2>7, <2>8, <2>9
<1> QED BY <1>5, <1>6

\* Steps that leave the caches alone.
LEMMA CachesQuiet ==
    ASSUME Caches, NEW t \in Threads, Others(t), UNCHANGED <<mem, gen, tls>>,
           th'[t].pc = "fallback" => ~tls[t].queue.resolved
    PROVE  Caches'
<1>1. UNCHANGED Slots BY DEF Slots
<1> QED BY <1>1 DEF Caches, Others

\* A scan goes to the next slot, finds its row, or ends; then it is valid or starts again.
LEMMA ScanEffect ==
    ASSUME TypeOK, Phases, Seqlock, Caches, NEW t \in Threads, Scan(t)
    PROVE  /\ TypeOK' /\ LookStep(t) /\ Phase(th'[t]) /\ Caches'
           /\ th'[t].pc \in {"scan", "read_a", "got", "gen"} /\ th'[t].g = th[t].g
           /\ \A u \in Threads : /\ tls'[u].dev.g = tls[u].dev.g \/ tls'[u].dev.g = th[t].g
                                 /\ tls'[u].queue.g = tls[u].queue.g \/ tls'[u].queue.g = th[t].g
<1>1. PICK me : me = th[t] OBVIOUS
<1>2. me \in ThreadType /\ me.pc = "scan" /\ Phase(me) /\ me.i \in Nat
  BY <1>1, Locals DEF Phases, Scan
<1>3. UNCHANGED <<mem, gen, lock, live, owner, sems, passes>> BY DEF Scan
<1>4. CASE me.i \notin Slots[me.tab]
  <2>1. Conclude(t, FALSE, None, None) BY <1>1, <1>4 DEF Scan
  <2> QED BY <1>1, <1>2, <1>3, <2>1, ConcludeEffect, WordKinds
<1>5. CASE me.i \in Slots[me.tab]
  <2>1. PICK r : r = IF mem[me.tab][me.i].id = me.key
                     THEN [me EXCEPT !.pc = "read_a"] ELSE [me EXCEPT !.i = me.i + 1]
    OBVIOUS
  <2>2. r \in ThreadType BY <1>2, <2>1 DEF ThreadType, PCs
  <2>3. th' = [th EXCEPT ![t] = r] /\ tls' = tls
    <3>1. ~(th[t].i \notin Slots[th[t].tab]) BY <1>1, <1>5
    <3>2. /\ tls' = tls
          /\ th' = [th EXCEPT ![t] = IF mem[@.tab][@.i].id = @.key
                                     THEN [@ EXCEPT !.pc = "read_a"] ELSE [@ EXCEPT !.i = th[t].i + 1]]
      BY <3>1 DEF Scan
    <3>3. CASE mem[me.tab][me.i].id = me.key
      <4>1. r = [me EXCEPT !.pc = "read_a"] BY <2>1, <3>3
      <4>2. th' = [th EXCEPT ![t] = [me EXCEPT !.pc = "read_a"]] BY <1>1, <3>2, <3>3
      <4> QED BY <3>2, <4>1, <4>2
    <3>4. CASE mem[me.tab][me.i].id # me.key
      <4>1. r = [me EXCEPT !.i = me.i + 1] BY <2>1, <3>4
      <4>2. th' = [th EXCEPT ![t] = [me EXCEPT !.i = me.i + 1]] BY <1>1, <3>2, <3>4
      <4> QED BY <3>2, <4>1, <4>2
    <3> QED BY <3>3, <3>4
  <2>4. th'[t] = r /\ Others(t) /\ th' \in [Threads -> ThreadType] BY <2>2, <2>3, OneThread
  <2>5. /\ r.pc \in {"scan", "read_a"} /\ r.dev = me.dev /\ r.tab = me.tab /\ r.key = me.key
        /\ r.flags = me.flags /\ r.sem = me.sem /\ r.todo = me.todo /\ r.op = me.op /\ r.g = me.g
        /\ r.pc = "read_a" => r.i = me.i
    BY <1>2, <2>1 DEF ThreadType
  <2>6. Phase(r) BY <1>2, <1>5, <2>5 DEF Phase, Looking, OfHandle, SoleOfChain
  <2>7. TypeOK' BY <1>3, <2>3, <2>4, Entries, LocalType
  <2>8. LookStep(t) BY <1>1, <1>2, <1>3, <2>4, <2>5 DEF LookStep, Looking
  <2>9. Caches' BY <1>3, <2>3, <2>4, <2>5, CachesQuiet
  <2> QED BY <1>1, <2>3, <2>4, <2>5, <2>6, <2>7, <2>8, <2>9
<1> QED BY <1>4, <1>5

\* A field of the row that was found is read.
LEMMA ReadFieldEffect ==
    ASSUME TypeOK, Phases, Caches, NEW t \in Threads,
           ReadField(t, "read_a", "read_b") \/ ReadField(t, "read_b", "check")
    PROVE  /\ TypeOK' /\ LookStep(t) /\ Phase(th'[t]) /\ Caches' /\ tls' = tls
           /\ th'[t].g = th[t].g /\ th'[t].i = th[t].i
           /\ \/ th[t].pc = "read_a" /\ th'[t].pc = "read_b" /\ th'[t].a = mem[th[t].tab][th[t].i].a
              \/ /\ th[t].pc = "read_b" /\ th'[t].pc = "check" /\ th'[t].a = th[t].a
                 /\ th'[t].b = mem[th[t].tab][th[t].i].b
<1>1. PICK me : me = th[t] OBVIOUS
<1>2. me \in ThreadType /\ Phase(me) /\ me.tab \in Tabs /\ me.pc \in {"read_a", "read_b"}
  BY <1>1, Locals DEF Phases, ReadField
<1>3. me.i \in Slots[me.tab] BY <1>2 DEF Phase
<1>4. UNCHANGED <<mem, gen, lock, tls, live, owner, sems, passes>> BY DEF ReadField
<1>5. PICK m : m = mem[me.tab][me.i] OBVIOUS
<1>6. m.a \in Words /\ m.b \in Words
  <2>1. mem[me.tab][me.i] \in RowType BY <1>2, <1>3 DEF TypeOK
  <2> QED BY <1>5, <2>1 DEF RowType
<1>7. CASE me.pc = "read_a"
  <2>1. PICK r : r = [me EXCEPT !.pc = "read_b", !.a = m.a] OBVIOUS
  <2>2. r \in ThreadType BY <1>2, <1>6, <2>1 DEF ThreadType, PCs
  <2>3. th' = [th EXCEPT ![t] = r] BY <1>1, <1>5, <1>7, <2>1 DEF ReadField
  <2>4. th'[t] = r /\ Others(t) /\ th' \in [Threads -> ThreadType] BY <2>2, <2>3, OneThread
  <2>5. /\ r.pc = "read_b" /\ r.dev = me.dev /\ r.tab = me.tab /\ r.key = me.key /\ r.i = me.i
        /\ r.flags = me.flags /\ r.sem = me.sem /\ r.todo = me.todo /\ r.op = me.op /\ r.g = me.g
        /\ r.a = m.a
    BY <1>2, <2>1 DEF ThreadType
  <2>6. Phase(r) BY <1>2, <1>3, <2>5 DEF Phase, Looking, OfHandle, SoleOfChain
  <2>7. TypeOK' BY <1>4, <2>4, Entries, LocalType
  <2>8. LookStep(t) BY <1>1, <1>2, <1>4, <2>4, <2>5 DEF LookStep, Looking
  <2>9. Caches' BY <1>4, <2>4, <2>5, CachesQuiet
  <2> QED BY <1>1, <1>4, <1>5, <1>7, <2>4, <2>5, <2>6, <2>7, <2>8, <2>9
<1>8. CASE me.pc = "read_b"
  <2>1. PICK r : r = [me EXCEPT !.pc = "check", !.b = m.b] OBVIOUS
  <2>2. r \in ThreadType BY <1>2, <1>6, <2>1 DEF ThreadType, PCs
  <2>3. th' = [th EXCEPT ![t] = r] BY <1>1, <1>5, <1>8, <2>1 DEF ReadField
  <2>4. th'[t] = r /\ Others(t) /\ th' \in [Threads -> ThreadType] BY <2>2, <2>3, OneThread
  <2>5. /\ r.pc = "check" /\ r.dev = me.dev /\ r.tab = me.tab /\ r.key = me.key /\ r.i = me.i
        /\ r.flags = me.flags /\ r.sem = me.sem /\ r.todo = me.todo /\ r.op = me.op /\ r.g = me.g
        /\ r.a = me.a /\ r.b = m.b
    BY <1>2, <2>1 DEF ThreadType
  <2>6. Phase(r) BY <1>2, <1>3, <2>5 DEF Phase, Looking, OfHandle, SoleOfChain
  <2>7. TypeOK' BY <1>4, <2>4, Entries, LocalType
  <2>8. LookStep(t) BY <1>1, <1>2, <1>4, <2>4, <2>5 DEF LookStep, Looking
  <2>9. Caches' BY <1>4, <2>4, <2>5, CachesQuiet
  <2> QED BY <1>1, <1>4, <1>5, <1>8, <2>4, <2>5, <2>6, <2>7, <2>8, <2>9
<1> QED BY <1>2, <1>7, <1>8

\* A lookup is over: the result is handed out and cached, or thrown away.
LEMMA ValidateEffect ==
    ASSUME TypeOK, Phases, Seqlock, Caches, Reads, NEW t \in Threads, Validate(t)
    PROVE  /\ TypeOK' /\ LookStep(t) /\ Phase(th'[t]) /\ Caches'
           /\ th'[t].pc \in {"got", "gen"} /\ th'[t].g = th[t].g
           /\ \A u \in Threads : /\ tls'[u].dev.g = tls[u].dev.g \/ tls'[u].dev.g = th[t].g
                                 /\ tls'[u].queue.g = tls[u].queue.g \/ tls'[u].queue.g = th[t].g
<1>1. PICK a \in Words, b \in Words : a = th[t].a /\ b = th[t].b BY Locals
<1>2. th[t].pc = "check" /\ Conclude(t, TRUE, a, b) BY <1>1 DEF Validate
<1>3. UNCHANGED <<mem, gen, lock, live, owner, sems, passes>> BY DEF Validate
<1>4. th[t].i \in Slots[th[t].tab] BY <1>2 DEF Phases, Phase
<1>5. th[t].g = gen => a = mem[th[t].tab][th[t].i].a /\ b = mem[th[t].tab][th[t].i].b
  BY <1>1, <1>2 DEF Reads
<1> QED BY <1>2, <1>3, <1>4, <1>5, ConcludeEffect

\* One step that ends a handler which only looked something up.
LeaveStep(t) ==
    /\ UNCHANGED <<mem, gen, lock, live, owner, sems>> /\ Others(t)
    /\ th[t].pc \in Looking /\ th'[t] = Idle

\* One step that makes a semaphore.
NewSemaphore(t) ==
    /\ UNCHANGED <<mem, gen, lock, live, owner>> /\ Others(t)
    /\ th[t].pc = "got" /\ th[t].op = "init_ll" /\ sems' = Append(sems, th[t].dev)
    /\ th'[t].pc = "lock" /\ th'[t].op = "init_ll" /\ th'[t].dev = th[t].dev /\ th'[t].key = th[t].key
    /\ th'[t].sem = Len(sems) + 1 /\ th'[t].g = th[t].g /\ th'[t].todo = th[t].todo

\* An idle thread is about nothing.
LEMMA IdlePhase == Phase(Idle) /\ Idle.sem = None /\ Idle.pc = "idle" /\ Idle.dev = None /\ Idle.key = None
                   /\ Idle.op = "none" /\ Idle.g = 0
<1>1. /\ Idle.sem = None /\ Idle.pc = "idle" /\ Idle.dev = None /\ Idle.key = None
      /\ Idle.op = "none" /\ Idle.g = 0
  BY DEF Idle
<1>2. None \notin Swapchains BY RegistryAssumption
<1> QED BY <1>1, <1>2 DEF Phase, Looking

\* Leaving.
LEMMA LeaveEffect ==
    ASSUME TypeOK, Caches, NEW t \in Threads, th' = [th EXCEPT ![t] = Idle],
           UNCHANGED <<mem, gen, lock, tls, live, owner, sems, passes>>
    PROVE  TypeOK' /\ Caches' /\ th'[t] = Idle /\ Others(t)
<1>1. th'[t] = Idle /\ Others(t) /\ th' \in [Threads -> ThreadType] BY OneThread, IdleType
<1>2. TypeOK' BY <1>1, Entries, LocalType
<1>3. Caches' BY <1>1, CachesQuiet, IdlePhase
<1> QED BY <1>1, <1>2, <1>3

\* A handler uses the result and ends.
LEMMA UseEffect ==
    ASSUME TypeOK, Caches, NEW t \in Threads, Use(t)
    PROVE  TypeOK' /\ Caches' /\ LeaveStep(t) /\ tls' = tls
<1>1. UNCHANGED <<mem, gen, lock, tls, live, owner, sems, passes>> /\ th' = [th EXCEPT ![t] = Idle]
  BY DEF Use
<1>2. th[t].pc \in Looking BY DEF Use, Looking
<1> QED BY <1>1, <1>2, LeaveEffect DEF LeaveStep

\* A sleep that found a semaphore goes on to signal it.
LEMMA GotForSleepEffect ==
    ASSUME TypeOK, Phases, Caches, NEW t \in Threads, GotForSleep(t)
    PROVE  /\ TypeOK' /\ Caches' /\ tls' = tls
           /\ \/ LeaveStep(t)
              \/ LookStep(t) /\ Phase(th'[t]) /\ th'[t].pc = "signal" /\ th'[t].g = th[t].g
<1>1. PICK me : me = th[t] OBVIOUS
<1>2. me \in ThreadType /\ Phase(me) /\ me.pc = "got" /\ me.op = "sleep"
  BY <1>1, Locals DEF Phases, GotForSleep
<1>3. UNCHANGED <<mem, gen, lock, tls, live, owner, sems, passes>> BY DEF GotForSleep
<1>4. CASE me.a = None \/ me.b = None
  <2>1. th' = [th EXCEPT ![t] = Idle] BY <1>1, <1>4 DEF GotForSleep
  <2> QED BY <1>1, <1>2, <1>3, <2>1, LeaveEffect DEF LeaveStep, Looking
<1>5. CASE ~(me.a = None \/ me.b = None)
  <2>1. PICK r : r = [me EXCEPT !.pc = "signal"] OBVIOUS
  <2>2. r \in ThreadType BY <1>2, <2>1 DEF ThreadType, PCs
  <2>3. th' = [th EXCEPT ![t] = r] BY <1>1, <1>5, <2>1 DEF GotForSleep
  <2>4. th'[t] = r /\ Others(t) /\ th' \in [Threads -> ThreadType] BY <2>2, <2>3, OneThread
  <2>5. /\ r.pc = "signal" /\ r.dev = me.dev /\ r.tab = me.tab /\ r.key = me.key /\ r.a = me.a /\ r.b = me.b
        /\ r.flags = me.flags /\ r.sem = me.sem /\ r.todo = me.todo /\ r.op = me.op /\ r.g = me.g
    BY <1>2, <2>1 DEF ThreadType
  <2>6. Phase(r) BY <1>2, <1>5, <2>5 DEF Phase, Looking, OfHandle, SoleOfChain
  <2>7. TypeOK' BY <1>3, <2>4, Entries, LocalType
  <2>8. LookStep(t) BY <1>1, <1>2, <1>3, <2>4, <2>5 DEF LookStep, Looking
  <2>9. Caches' BY <1>3, <2>4, <2>5, CachesQuiet
  <2> QED BY <1>1, <1>3, <2>4, <2>5, <2>6, <2>7, <2>8, <2>9
<1> QED BY <1>4, <1>5

\* An initialisation looks again, makes a semaphore, or gives up.
LEMMA GotForInitEffect ==
    ASSUME TypeOK, Phases, Caches, NEW t \in Threads, GotForInit(t)
    PROVE  /\ TypeOK' /\ Caches' /\ tls' = tls
           /\ \/ LeaveStep(t)
              \/ LookStep(t) /\ Phase(th'[t]) /\ th'[t].pc = "gen" /\ th'[t].g = th[t].g
              \/ NewSemaphore(t) /\ Phase(th'[t])
<1>1. PICK me : me = th[t] OBVIOUS
<1>2. me \in ThreadType /\ Phase(me) /\ me.pc = "got" /\ me.op \in {"init", "init_ll"}
  BY <1>1, Locals DEF Phases, GotForInit
<1>3. UNCHANGED <<mem, gen, lock, tls, live, owner, passes>> BY DEF GotForInit
<1>4. CASE me.a = None \/ (me.op = "init_ll" /\ me.b # None)
  <2>1. th' = [th EXCEPT ![t] = Idle] /\ sems' = sems BY <1>1, <1>4 DEF GotForInit
  <2> QED BY <1>1, <1>2, <1>3, <2>1, LeaveEffect DEF LeaveStep, Looking
<1>5. CASE me.a # None /\ me.op = "init"
  <2>1. PICK r : r = [me EXCEPT !.pc = "gen", !.op = "init_ll"] OBVIOUS
  <2>2. r \in ThreadType BY <1>2, <2>1 DEF ThreadType, PCs, Ops
  <2>3. th' = [th EXCEPT ![t] = r] /\ sems' = sems BY <1>1, <1>5, <2>1 DEF GotForInit
  <2>4. th'[t] = r /\ Others(t) /\ th' \in [Threads -> ThreadType] BY <2>2, <2>3, OneThread
  <2>5. /\ r.pc = "gen" /\ r.dev = me.dev /\ r.tab = me.tab /\ r.key = me.key
        /\ r.flags = me.flags /\ r.sem = me.sem /\ r.todo = me.todo /\ r.op = "init_ll" /\ r.g = me.g
    BY <1>2, <2>1 DEF ThreadType
  <2>6. Phase(r)
    <3>1. me.tab = "dev" /\ me.key = me.dev /\ me.dev \in Devices BY <1>2 DEF Phase, Looking
    <3>2. me.dev \notin Swapchains BY <3>1, RegistryAssumption
    <3> QED BY <2>5, <3>1, <3>2 DEF Phase, Looking, Mutators
  <2>7. TypeOK' BY <1>3, <2>3, <2>4, Entries, LocalType
  <2>8. LookStep(t) BY <1>1, <1>2, <1>3, <1>5, <2>3, <2>4, <2>5 DEF LookStep, Looking
  <2>9. Caches' BY <1>3, <2>4, <2>5, CachesQuiet
  <2> QED BY <1>1, <1>3, <2>4, <2>5, <2>6, <2>7, <2>8, <2>9
<1>6. CASE me.a # None /\ me.op = "init_ll" /\ me.b = None
  <2>0. sems \in Seq(Devices \cup {"destroyed"}) /\ me.dev \in Devices
    BY <1>2 DEF TypeOK, Phase
  <2>1. PICK n \in Nat : n = Len(sems) + 1 BY <2>0
  <2>2. PICK r : r = [me EXCEPT !.pc = "lock", !.sem = n] OBVIOUS
  <2>3. n \in Words BY WordKinds
  <2>4. r \in ThreadType BY <1>2, <2>2, <2>3 DEF ThreadType, PCs
  <2>5. th' = [th EXCEPT ![t] = r] /\ sems' = Append(sems, me.dev)
    BY <1>1, <1>6, <2>1, <2>2 DEF GotForInit
  <2>6. th'[t] = r /\ Others(t) /\ th' \in [Threads -> ThreadType] BY <2>4, <2>5, OneThread
  <2>7. /\ r.pc = "lock" /\ r.dev = me.dev /\ r.key = me.key /\ r.sem = n
        /\ r.todo = me.todo /\ r.op = "init_ll" /\ r.g = me.g
    BY <1>2, <1>6, <2>2 DEF ThreadType
  <2>8. Phase(r)
    <3>1. me.key = me.dev /\ me.dev \in Devices BY <1>2, <1>6 DEF Phase, Looking
    <3>2. me.dev \notin Swapchains BY <3>1, RegistryAssumption
    <3> QED BY <2>7, <3>1, <3>2 DEF Phase, Looking, Mutators
  <2>9. sems' \in Seq(Devices \cup {"destroyed"}) BY <2>0, <2>5
  <2>10. TypeOK'
    <3>1. UNCHANGED Slots BY DEF Slots
    <3> QED BY <1>3, <2>6, <2>9, <3>1 DEF TypeOK
  <2>11. NewSemaphore(t) BY <1>1, <1>2, <1>3, <1>6, <2>1, <2>5, <2>6, <2>7 DEF NewSemaphore
  <2>12. Caches' BY <1>3, <2>6, <2>7, CachesQuiet
  <2> QED BY <1>3, <2>6, <2>8, <2>10, <2>11, <2>12
<1> QED BY <1>2, <1>4, <1>5, <1>6

\* The notification of an unknown queue looks through the devices.
LEMMA FallbackScanEffect ==
    ASSUME TypeOK, Phases, Caches, NEW t \in Threads, FallbackScan(t)
    PROVE  /\ TypeOK' /\ Caches' /\ tls' = tls /\ LookStep(t) /\ Phase(th'[t])
           /\ th'[t].pc = "fallback" /\ th'[t].g = gen /\ gen % 2 = 0
<1>1. PICK me : me = th[t] OBVIOUS
<1>2. me \in ThreadType /\ Phase(me) /\ me.pc = "got" /\ me.op = "notify"
  BY <1>1, Locals DEF Phases, FallbackScan
<1>3. /\ UNCHANGED <<mem, gen, lock, tls, live, owner, sems, passes>> /\ gen % 2 = 0
      /\ ~tls[t].queue.resolved
  BY DEF FallbackScan
<1>4. PICK C : C = {mem.dev[i].a : i \in {j \in Slots["dev"] :
                             /\ mem.dev[j].id # None /\ mem.dev[j].a # None
                             /\ passes[mem.dev[j].a]}}
  OBVIOUS
<1>5. C \in SUBSET Words
  <2>1. \A i \in Slots["dev"] : mem.dev[i].a \in Words
    <3>1. \A i \in Slots["dev"] : mem["dev"][i] \in RowType BY DEF TypeOK, Tabs
    <3> QED BY <3>1 DEF RowType
  <2> QED BY <1>4, <2>1
<1>6. PICK r : r = [me EXCEPT !.pc = "fallback", !.g = gen, !.candidates = C] OBVIOUS
<1>7. gen \in Nat BY DEF TypeOK
<1>8. r \in ThreadType BY <1>2, <1>5, <1>6, <1>7 DEF ThreadType, PCs
<1>9. th' = [th EXCEPT ![t] = r] BY <1>1, <1>4, <1>6, Zenon DEF FallbackScan
<1>10. th'[t] = r /\ Others(t) /\ th' \in [Threads -> ThreadType] BY <1>8, <1>9, OneThread
<1>11. /\ r.pc = "fallback" /\ r.dev = me.dev /\ r.tab = me.tab /\ r.key = me.key /\ r.a = me.a /\ r.b = me.b
       /\ r.flags = me.flags /\ r.sem = me.sem /\ r.todo = me.todo /\ r.op = me.op /\ r.g = gen
  BY <1>2, <1>6 DEF ThreadType
<1>12. Phase(r) BY <1>2, <1>11 DEF Phase, Looking, OfHandle, SoleOfChain
<1>13. TypeOK' BY <1>3, <1>10, Entries, LocalType
<1>14. LookStep(t) BY <1>1, <1>2, <1>3, <1>10, <1>11 DEF LookStep, Looking
<1>15. Caches' BY <1>3, <1>10, CachesQuiet
<1> QED BY <1>3, <1>10, <1>11, <1>12, <1>13, <1>14, <1>15

\* The notification adopts the only device there is, or caches that there is none.
LEMMA FallbackAdoptEffect ==
    ASSUME TypeOK, Phases, Caches, NEW t \in Threads, FallbackAdopt(t)
    PROVE  /\ TypeOK' /\ Caches'
           /\ \/ LeaveStep(t)
              \/ LookStep(t) /\ Phase(th'[t]) /\ th'[t].pc = "got" /\ th'[t].g = th[t].g
           /\ \A u \in Threads : /\ tls'[u].dev.g = tls[u].dev.g
                                 /\ tls'[u].queue.g = tls[u].queue.g \/ tls'[u].queue.g = th[t].g
<1>1. PICK me : me = th[t] OBVIOUS
<1>2. me \in ThreadType /\ Phase(me) /\ me.pc = "fallback" /\ me.candidates \in SUBSET Words
  BY <1>1, Locals DEF Phases, FallbackAdopt
<1>3. UNCHANGED <<mem, gen, lock, live, owner, sems, passes>> BY DEF FallbackAdopt
<1>4. CASE gen # me.g
  <2>1. PICK r : r = [me EXCEPT !.pc = "got"] OBVIOUS
  <2>2. r \in ThreadType BY <1>2, <2>1 DEF ThreadType, PCs
  <2>3. th' = [th EXCEPT ![t] = r] /\ tls' = tls BY <1>1, <1>4, <2>1 DEF FallbackAdopt
  <2>4. th'[t] = r /\ Others(t) /\ th' \in [Threads -> ThreadType] BY <2>2, <2>3, OneThread
  <2>5. /\ r.pc = "got" /\ r.dev = me.dev /\ r.tab = me.tab /\ r.key = me.key /\ r.a = me.a /\ r.b = me.b
        /\ r.flags = me.flags /\ r.sem = me.sem /\ r.todo = me.todo /\ r.op = me.op /\ r.g = me.g
    BY <1>2, <2>1 DEF ThreadType
  <2>6. Phase(r) BY <1>2, <2>5 DEF Phase, Looking, OfHandle, SoleOfChain
  <2>7. TypeOK' BY <1>3, <2>3, <2>4, Entries, LocalType
  <2>8. LookStep(t) BY <1>1, <1>2, <1>3, <2>4, <2>5 DEF LookStep, Looking
  <2>9. Caches' BY <1>3, <2>3, <2>4, <2>5, CachesQuiet
  <2> QED BY <1>1, <2>3, <2>4, <2>5, <2>6, <2>7, <2>8, <2>9
<1>5. CASE gen = me.g
  <2>1. PICK x : x = IF Cardinality(me.candidates) = 1 THEN CHOOSE c \in me.candidates : TRUE ELSE None
    OBVIOUS
  <2>2. x \in Words
    <3>1. CASE Cardinality(me.candidates) = 1
      <4>1. me.candidates # {} BY <3>1, FS_EmptySet
      <4>2. (CHOOSE c \in me.candidates : TRUE) \in me.candidates BY <4>1
      <4> QED BY <1>2, <2>1, <3>1, <4>2
    <3>2. CASE Cardinality(me.candidates) # 1 BY <2>1, <3>2, WordKinds
    <3> QED BY <3>1, <3>2
  <2>3. PICK q \in EntryType : q = tls[t].queue BY Entries
  <2>4. PICK e : e = [q EXCEPT !.g = gen, !.resolved = TRUE, !.notify = x] OBVIOUS
  <2>5. e \in EntryType /\ e.g = gen /\ e.resolved = TRUE /\ e.a = q.a /\ e.key = q.key /\ e.b = q.b
    <3>1. gen \in Nat BY DEF TypeOK
    <3> QED BY <2>2, <2>4, <3>1 DEF EntryType
  <2>6. tls' = [tls EXCEPT ![t].queue = e] /\ th' = [th EXCEPT ![t] = Idle]
    BY <1>1, <1>5, <2>1, <2>3, <2>4 DEF FallbackAdopt
  <2>7. /\ tls' \in TlsType /\ \A u \in Threads : u # t => tls'[u] = tls[u]
        /\ tls'[t].dev = tls[t].dev /\ tls'[t].queue = e
    <3>1. tls \in TlsType BY Entries
    <3>2. PICK E : E = EntryType OBVIOUS
    <3>3. tls \in [Threads -> [dev : E, queue : E]] /\ e \in E BY <2>5, <3>1, <3>2 DEF TlsType
    <3>4. /\ tls' \in [Threads -> [dev : E, queue : E]] /\ \A u \in Threads : u # t => tls'[u] = tls[u]
          /\ tls'[t].dev = tls[t].dev /\ tls'[t].queue = e
      BY <2>6, <3>3
    <3> QED BY <3>2, <3>4 DEF TlsType
  <2>8. th'[t] = Idle /\ Others(t) /\ th' \in [Threads -> ThreadType] BY <2>6, OneThread, IdleType
  <2>9. TypeOK' BY <1>3, <2>7, <2>8, LocalType
  <2>10. e.a = None BY <1>1, <1>2, <2>3, <2>5 DEF Caches
  <2>11. Caches'
    <3> SUFFICES ASSUME NEW u \in Threads
                 PROVE  /\ \A tab \in {"dev", "queue"} : tls'[u][tab].g = gen' /\ tls'[u][tab].a # None =>
                             \E i \in Slots[tab] : /\ mem'[tab][i].id = tls'[u][tab].key
                                                   /\ mem'[tab][i].a = tls'[u][tab].a
                                                   /\ mem'[tab][i].b = tls'[u][tab].b
                        /\ ~tls'[u].queue.resolved => tls'[u].queue.a = None
                        /\ th'[u].pc = "fallback" => ~tls'[u].queue.resolved
      BY DEF Caches, Slots
    <3>1. /\ \A tab \in {"dev", "queue"} : tls[u][tab].g = gen /\ tls[u][tab].a # None =>
                \E i \in Slots[tab] : /\ mem[tab][i].id = tls[u][tab].key
                                      /\ mem[tab][i].a = tls[u][tab].a
                                      /\ mem[tab][i].b = tls[u][tab].b
          /\ ~tls[u].queue.resolved => tls[u].queue.a = None
          /\ th[u].pc = "fallback" => ~tls[u].queue.resolved
      BY DEF Caches
    <3>2. CASE u # t BY <1>3, <2>7, <2>8, <3>1, <3>2 DEF Others
    <3>3. CASE u = t BY <1>3, <2>5, <2>7, <2>8, <2>10, <3>1, <3>3, IdlePhase
    <3> QED BY <3>2, <3>3
  <2>12. LeaveStep(t) BY <1>1, <1>2, <1>3, <2>8 DEF LeaveStep, Looking
  <2>13. \A u \in Threads : /\ tls'[u].dev.g = tls[u].dev.g
                            /\ tls'[u].queue.g = tls[u].queue.g \/ tls'[u].queue.g = me.g
    BY <1>5, <2>5, <2>7
  <2> QED BY <1>1, <2>9, <2>11, <2>12, <2>13
<1> QED BY <1>4, <1>5

----------------------------------------------------------------------------
(* What a step of one thread leaves alone *)

\* The thread leaves its handler, or stays in it with its device.
Stays(t) ==
    \/ th'[t] = Idle
    \/ /\ th'[t].dev = th[t].dev
       /\ th'[t].op = th[t].op \/ (th[t].op = "init" /\ th'[t].op = "init_ll")

\* A step of one thread leaves the others where they are.
LEMMA PhasesKept ==
    ASSUME Phases, NEW t \in Threads, Others(t), Phase(th'[t]) PROVE Phases'
BY DEF Phases, Others, Phase, Slots, OfHandle, SoleOfChain

\* A handler that is under way has a device.
LEMMA BusyDevice ==
    ASSUME Phases, NEW t \in Threads, th[t].op # "none"
    PROVE  th[t].pc # "idle" /\ th[t].dev \in Devices /\ th[t].dev # None
<1>1. th[t].pc # "idle" BY IdlePhase DEF Phases, Phase
<1> QED BY <1>1, RegistryAssumption DEF Phases, Phase

\* A thread that stays in its handler or leaves it disturbs nobody.
LEMMA TogetherKept ==
    ASSUME Phases, Alone, SleepersApart, NEW t \in Threads, Others(t), Stays(t)
    PROVE  Alone' /\ SleepersApart'
<1>1. ASSUME NEW x \in Threads, NEW y \in Threads, x # y, th'[x].op \in {"create_device", "destroy_device"}
      PROVE  th'[y].dev # th'[x].dev
  <2>1. x # t \/ th'[t] # Idle BY <1>1, IdlePhase
  <2>2. th[x].op \in {"create_device", "destroy_device"} /\ th'[x].dev = th[x].dev
    BY <1>1, <2>1 DEF Others, Stays
  <2>3. th[y].dev # th[x].dev BY <1>1, <2>2 DEF Alone
  <2>4. th[x].dev # None BY <2>2, BusyDevice
  <2> QED BY <2>2, <2>3, <2>4, IdlePhase DEF Others, Stays
<1>2. ASSUME NEW x \in Threads, NEW y \in Threads, th'[x].op = "sleep", th'[y].op = "destroy_ll"
      PROVE  th'[y].dev # th'[x].dev
  <2>1. th[x].op = "sleep" /\ th'[x].dev = th[x].dev BY <1>2, IdlePhase DEF Others, Stays
  <2>2. th[y].op = "destroy_ll" /\ th'[y].dev = th[y].dev BY <1>2, IdlePhase DEF Others, Stays
  <2> QED BY <2>1, <2>2 DEF SleepersApart
<1> QED BY <1>1, <1>2 DEF Alone, SleepersApart

\* ... and does not become a second handler of a swapchain.
LEMMA SoleKept ==
    ASSUME Phases, Sole, NEW t \in Threads, Others(t),
           \/ th'[t] = Idle
           \/ th'[t].key = th[t].key /\ (SoleOfChain(th'[t]) => SoleOfChain(th[t]))
    PROVE  Sole'
<1> SUFFICES ASSUME NEW x \in Threads, NEW y \in Threads, x # y, SoleOfChain(th'[x])
             PROVE  th'[y].key # th'[x].key
  BY DEF Sole, SoleOfChain
<1>1. ~SoleOfChain(Idle) BY IdlePhase DEF SoleOfChain
<1>2. SoleOfChain(th[x]) /\ th'[x].key = th[x].key BY <1>1 DEF Others
<1>3. th[y].key # th[x].key BY <1>2 DEF Sole
<1>4. th[x].key \in Swapchains BY <1>2 DEF SoleOfChain, Phases, Phase
<1>5. None \notin Swapchains BY RegistryAssumption
<1> QED BY <1>2, <1>3, <1>4, <1>5, IdlePhase DEF Others

\* The driver's objects that the other threads are about stay as they are.
KeptHandles(t) ==
    \A u \in Threads : u # t =>
        /\ th[u].dev # None => live'[th[u].dev] = live[th[u].dev]
        /\ OfHandle(th[u]) => owner'[th[u].key] = owner[th[u].key]

\* A step that spares what the others are about keeps the driver's objects true.
LEMMA DriverStep ==
    ASSUME Phases, Driver, NEW t \in Threads, Others(t), KeptHandles(t),
           \A h \in Queues \cup Swapchains : owner'[h] # None => live'[owner'[h]] # None,
           th'[t].dev # None => live'[th'[t].dev] # None,
           OfHandle(th'[t]) => owner'[th'[t].key] = th'[t].dev,
           th'[t].op = "create_swapchain" /\ SoleOfChain(th'[t]) => th'[t].flags = live'[th'[t].dev]
    PROVE  Driver'
<1>1. ASSUME NEW u \in Threads, th'[u].dev # None PROVE live'[th'[u].dev] # None
  BY <1>1 DEF Driver, Others, KeptHandles
<1>2. ASSUME NEW u \in Threads, OfHandle(th'[u]) PROVE owner'[th'[u].key] = th'[u].dev
  BY <1>2 DEF Driver, Others, KeptHandles
<1>3. ASSUME NEW u \in Threads, th'[u].op = "create_swapchain", SoleOfChain(th'[u])
      PROVE  th'[u].flags = live'[th'[u].dev]
  <2>1. CASE u = t BY <1>3, <2>1
  <2>2. CASE u # t
    <3>1. th'[u] = th[u] BY <2>2 DEF Others
    <3>2. th[u].dev # None BY <1>3, <3>1, BusyDevice
    <3>3. th[u].flags = live[th[u].dev] BY <1>3, <3>1 DEF Driver
    <3> QED BY <2>2, <3>1, <3>2, <3>3 DEF KeptHandles
  <2> QED BY <2>1, <2>2
<1> QED BY <1>1, <1>2, <1>3, Zenon DEF Driver, OfHandle, SoleOfChain

\* ... in particular a step that leaves the driver alone.
LEMMA DriverKept ==
    ASSUME Phases, Driver, NEW t \in Threads, Others(t), UNCHANGED <<live, owner>>,
           \/ th'[t] = Idle
           \/ /\ th'[t].dev = th[t].dev /\ th'[t].key = th[t].key /\ th'[t].flags = th[t].flags
              /\ OfHandle(th'[t]) => OfHandle(th[t])
              /\ SoleOfChain(th'[t]) => SoleOfChain(th[t]) /\ th'[t].op = th[t].op
    PROVE  Driver'
<1>1. KeptHandles(t) BY DEF KeptHandles
<1>2. CASE th'[t] = Idle
  <2>1. ~OfHandle(Idle) /\ ~SoleOfChain(Idle) BY IdlePhase DEF OfHandle, SoleOfChain
  <2> QED BY <1>1, <1>2, <2>1, IdlePhase, DriverStep DEF Driver
<1>3. CASE th'[t] # Idle
  BY <1>1, <1>3, DriverStep DEF Driver
<1> QED BY <1>2, <1>3

\* A device that is being created still owns nothing.
LEMMA UnbornKept ==
    ASSUME Unborn, NEW t \in Threads, Others(t), UNCHANGED owner,
           th'[t].op = "create_device" => th[t].op = "create_device" /\ th'[t].dev = th[t].dev
    PROVE  Unborn'
BY DEF Unborn, Others

\* Where a handler holds a semaphore.
HandsOf(r) ==
    \/ r.pc = "lock" /\ r.op = "init_ll"
    \/ r.pc = "store" /\ r.then = "destroy_sem"
    \/ r.pc = "destroy_sem"

\* A semaphore stays in the hand of its handler or is let go.
LEMMA HandsKept ==
    ASSUME Hands, NEW t \in Threads, Others(t), UNCHANGED sems,
           \/ th'[t].sem = None
           \/ th'[t].sem = th[t].sem /\ th'[t].dev = th[t].dev /\ HandsOf(th'[t])
    PROVE  Hands'
BY DEF Hands, Others, HandsOf

\* A step without the mutex keeps the generation and remembers an even one.
LEMMA SeqlockKept ==
    ASSUME Seqlock, NEW t \in Threads, Others(t), UNCHANGED <<gen, lock>>,
           th[t].pc # "store", th'[t].pc # "store", th'[t].g <= gen, th'[t].g % 2 = 0,
           \A u \in Threads : /\ tls'[u].dev.g <= gen /\ tls'[u].dev.g % 2 = 0
                              /\ tls'[u].queue.g <= gen /\ tls'[u].queue.g % 2 = 0
    PROVE  Seqlock'
BY DEF Seqlock, Others

\* The parts of Rows that a step keeps, each for its own reason.
LEMMA TablesKept ==
    ASSUME NEW A, Tables(A), Unique(A) PROVE Tables(A)' /\ Unique(A)'
BY DEF Tables, Unique, Slots, RowType, Words

\* A step of a thread without the mutex leaves the mutation in progress alone.
LEMMA SettlesKept ==
    ASSUME NEW A, Settles(A), NEW t \in Threads, Others(t), UNCHANGED <<mem, lock>>, lock # t
    PROVE  Settles(A)'
<1>1. \A u \in Threads : lock' = u => th'[u].todo = th[u].todo BY DEF Others
<1>2. ASSUME NEW T, Pending(A, T) PROVE Pending(A, T)' BY <1>2 DEF Pending, PendingOn, Hits, Slots
<1>3. ASSUME NEW u \in Threads, lock' = u PROVE Pending(A, th[u].todo)'
  <2>1. PICK T : T = th[u].todo OBVIOUS
  <2>2. Pending(A, T) BY <1>3, <2>1 DEF Settles
  <2>3. Pending(A, T)' BY <1>2, <2>2
  <2>4. th'[u].todo = T BY <1>1, <1>3, <2>1
  <2> QED BY <2>3, <2>4 DEF Pending, PendingOn
<1> QED BY <1>3 DEF Settles

\* A thread that registers a swapchain stops doing so.
LEMMA CreatingKept ==
    ASSUME NEW t \in Threads, Others(t), ~(th[t].op = "create_swapchain" /\ th[t].pc = "lock")
    PROVE  \A s : Creating(s) => Creating(s)'
BY DEF Creating, Others

\* The swapchain rows stay true while the driver and the creations do.
LEMMA ChainRowsKept ==
    ASSUME NEW A, ChainRows(A), NEW t \in Threads, Others(t), UNCHANGED <<live, owner>>,
           ~(th[t].op = "create_swapchain" /\ th[t].pc = "lock")
    PROVE  ChainRows(A)'
<1>1. \A s : Creating(s) => Creating(s)' BY CreatingKept
<1> QED BY <1>1, Zenon DEF ChainRows, Slots

\* A device without a row stays without one while A stays the same.
LEMMA AbsentKept ==
    ASSUME NEW A, Absent(A), NEW t \in Threads, Others(t),
           Gone(th'[t]) => \A i \in Slots["dev"] : A["dev"][i].id # th'[t].dev
    PROVE  Absent(A)'
BY DEF Absent, Others, Gone, Slots

\* The semaphore of a sleep stays in its row while A stays the same.
LEMMA SleeperKept ==
    ASSUME NEW A, Sleeper(A), NEW t \in Threads, Others(t),
           Slept(th'[t]) => \E i \in Slots["dev"] : A["dev"][i].id = th'[t].dev /\ A["dev"][i].b = th'[t].b
    PROVE  Sleeper(A)'
BY DEF Sleeper, Others, Slept, Slots

\* A step that moves no semaphore leaves each where it was.
LEMMA SemRowsKept ==
    ASSUME NEW A, NotInHand(A), Owned(A), NEW t \in Threads, Others(t), UNCHANGED sems,
           th'[t].sem = th[t].sem
    PROVE  NotInHand(A)' /\ Owned(A)'
<1>1. \A u \in Threads : th'[u].sem = th[u].sem BY DEF Others
<1> QED BY <1>1 DEF NotInHand, Owned, Slots

\* Steps that change nothing of the tables and the driver's objects.
LEMMA RowsKept ==
    ASSUME NEW A, Rows(A), NEW t \in Threads, Others(t), UNCHANGED <<mem, lock, live, owner, sems>>,
           lock # t, th'[t].sem = th[t].sem,
           ~(th[t].op = "create_swapchain" /\ th[t].pc = "lock"),
           Gone(th'[t]) => \A i \in Slots["dev"] : A["dev"][i].id # th'[t].dev,
           Slept(th'[t]) => \E i \in Slots["dev"] : A["dev"][i].id = th'[t].dev /\ A["dev"][i].b = th'[t].b
    PROVE  Rows(A)'
<1>0. Tables(A) /\ Settles(A) /\ Unique(A) /\ DeviceRows(A) /\ QueueRows(A) /\ ChainRows(A)
      /\ Absent(A) /\ NotInHand(A) /\ Owned(A) /\ Sleeper(A)
  BY DEF Rows
<1>1. Tables(A)' /\ Unique(A)' BY <1>0, TablesKept
<1>2. DeviceRows(A)' /\ QueueRows(A)' BY <1>0 DEF DeviceRows, QueueRows, Slots
<1>3. Settles(A)' BY <1>0, SettlesKept
<1>4. ChainRows(A)' BY <1>0, ChainRowsKept
<1>5. Absent(A)' /\ Sleeper(A)' BY <1>0, AbsentKept, SleeperKept
<1>6. NotInHand(A)' /\ Owned(A)' BY <1>0, SemRowsKept
<1> QED BY <1>1, <1>2, <1>3, <1>4, <1>5, <1>6 DEF Rows

\* The row a lookup found says the truth.
LEMMA FoundTrue ==
    ASSUME Phases, Sole, Driver, NEW A, Rows(A), lock = None, NEW t \in Threads, th[t].pc \in Looking,
           NEW a, NEW b, NEW i \in Slots[th[t].tab], mem[th[t].tab][i].id = th[t].key,
           mem[th[t].tab][i].a = a, mem[th[t].tab][i].b = b
    PROVE  /\ th[t].tab = "dev" => a = live[th[t].key]
           /\ th[t].tab # "dev" => a = owner[th[t].key] /\ b = live[a]
           /\ th[t].op = "sleep" => \E j \in Slots["dev"] : A["dev"][j].id = th[t].dev /\ A["dev"][j].b = b
<1>0. A = mem /\ DeviceRows(A) /\ QueueRows(A) /\ ChainRows(A) BY DEF Rows, Settles
<1>1. Phase(th[t]) BY DEF Phases
<1>2. th[t].dev \in Devices BY <1>1 DEF Phase, Looking
<1>3. CASE th[t].tab = "dev" /\ th[t].key = th[t].dev
  <2>1. A["dev"][i].id = th[t].key /\ A["dev"][i].a = a /\ A["dev"][i].b = b /\ i \in Slots["dev"]
    BY <1>0, <1>3
  <2>2. th[t].key # None BY <1>2, <1>3, RegistryAssumption
  <2>3. a = live[th[t].key] BY <1>0, <2>1, <2>2 DEF DeviceRows
  <2> QED BY <1>3, <2>1, <2>3
<1>4. CASE th[t].tab = "queue" /\ th[t].key \in Queues /\ th[t].op \in {"present", "notify"}
  <2>1. A["queue"][i].id = th[t].key /\ A["queue"][i].a = a /\ A["queue"][i].b = b /\ i \in Slots["queue"]
    BY <1>0, <1>4
  <2>2. th[t].key # None BY <1>4, RegistryAssumption
  <2>3. /\ a \in Devices /\ owner[th[t].key] = a
        /\ \E j \in Slots["dev"] : A["dev"][j].id = a /\ A["dev"][j].a = b
    BY <1>0, <2>1, <2>2 DEF QueueRows
  <2>4. PICK j \in Slots["dev"] : A["dev"][j].id = a /\ A["dev"][j].a = b BY <2>3
  <2>5. a # None BY <2>3, RegistryAssumption
  <2>6. b = live[a] BY <1>0, <2>4, <2>5 DEF DeviceRows
  <2> QED BY <1>4, <2>3, <2>6
<1>5. CASE th[t].tab = "chain" /\ th[t].key \in Swapchains /\ th[t].op = "chain_state"
  <2>1. A["chain"][i].id = th[t].key /\ A["chain"][i].a = a /\ A["chain"][i].b = b /\ i \in Slots["chain"]
    BY <1>0, <1>5
  <2>2. th[t].key # None BY <1>5, RegistryAssumption
  <2>3. \/ owner[th[t].key] = None
        \/ Creating(th[t].key)
        \/ owner[th[t].key] = a /\ b = live[a]
    BY <1>0, <2>1, <2>2 DEF ChainRows
  <2>4. owner[th[t].key] # None BY <1>2, <1>5, RegistryAssumption DEF Driver, OfHandle
  <2>5. ~Creating(th[t].key)
    <3> SUFFICES ASSUME NEW u \in Threads, th[u].op = "create_swapchain", th[u].pc = "lock",
                        th[u].key = th[t].key
                 PROVE  FALSE
      BY DEF Creating
    <3>1. u # t BY <1>5
    <3> QED BY <3>1 DEF Sole, SoleOfChain
  <2> QED BY <1>5, <2>3, <2>4, <2>5
<1> QED BY <1>1, <1>3, <1>4, <1>5 DEF Phase

\* A step that spares what the others are about keeps their results true.
LEMMA ResultsOf ==
    ASSUME Phases, Driver, Results, NEW t \in Threads, Others(t), KeptHandles(t),
           th'[t].pc \in {"got", "signal", "fallback"} /\ th'[t].a # None =>
              /\ th'[t].tab = "dev" => th'[t].a = live'[th'[t].key]
              /\ th'[t].tab # "dev" => th'[t].a = owner'[th'[t].key] /\ th'[t].b = live'[th'[t].a]
    PROVE  Results'
<1> SUFFICES ASSUME NEW u \in Threads, u # t, th[u].pc \in {"got", "signal", "fallback"}, th[u].a # None
             PROVE  /\ th[u].tab = "dev" => th[u].a = live'[th[u].key]
                    /\ th[u].tab # "dev" => th[u].a = owner'[th[u].key] /\ th[u].b = live'[th[u].a]
  BY DEF Results, Others
<1>1. Phase(th[u]) BY DEF Phases
<1>2. th[u].dev # None BY <1>1, RegistryAssumption DEF Phase
<1>3. live'[th[u].dev] = live[th[u].dev] BY <1>2 DEF KeptHandles
<1>4. CASE th[u].tab = "dev"
  <2>1. th[u].key = th[u].dev BY <1>1, <1>4 DEF Phase, Looking
  <2> QED BY <1>3, <1>4, <2>1 DEF Results
<1>5. CASE th[u].tab # "dev"
  <2>1. OfHandle(th[u]) BY <1>1, <1>5 DEF Phase, Looking, OfHandle
  <2>2. owner'[th[u].key] = owner[th[u].key] BY <2>1 DEF KeptHandles
  <2>3. th[u].a = owner[th[u].key] /\ th[u].b = live[th[u].a] BY <1>5 DEF Results
  <2>4. owner[th[u].key] = th[u].dev BY <2>1 DEF Driver
  <2> QED BY <1>3, <1>5, <2>2, <2>3, <2>4
<1> QED BY <1>4, <1>5

\* Clocks: the generations that a thread and its cache remember.
Clocks(t) ==
    /\ th'[t].g <= gen /\ th'[t].g % 2 = 0
    /\ \A u \in Threads : /\ tls'[u].dev.g <= gen /\ tls'[u].dev.g % 2 = 0
                          /\ tls'[u].queue.g <= gen /\ tls'[u].queue.g % 2 = 0

\* A step of a lookup keeps everything but the caches, which are its own matter.
LEMMA LookKeeps ==
    ASSUME Control, Results, NEW A, Rows(A), NEW t \in Threads, LookStep(t), Phase(th'[t]), Clocks(t)
    PROVE  Control' /\ Results' /\ Rows(A)'
<1>0. Phases /\ Seqlock /\ Alone /\ SleepersApart /\ Sole /\ Driver /\ Unborn /\ Hands BY DEF Control
<1>1. Others(t) /\ UNCHANGED <<mem, gen, lock, live, owner, sems>> BY DEF LookStep
<1>2. th[t].pc # "store" /\ th'[t].pc # "store" /\ th[t].pc # "lock" BY DEF LookStep, Looking
<1>3. Phases' BY <1>0, <1>1, PhasesKept
<1>4. Seqlock' BY <1>0, <1>1, <1>2, SeqlockKept DEF Clocks
<1>5. Alone' /\ SleepersApart' BY <1>0, <1>1, TogetherKept DEF LookStep, Stays
<1>6. ~SoleOfChain(th'[t]) BY DEF SoleOfChain, LookStep, Looking
<1>7. Sole' BY <1>0, <1>1, <1>6, SoleKept DEF LookStep
<1>8. OfHandle(th'[t]) => OfHandle(th[t]) BY <1>6 DEF OfHandle, LookStep, Looking
<1>9. Driver' BY <1>0, <1>1, <1>6, <1>8, DriverKept DEF LookStep
<1>10. th[t].sem = None BY <1>0 DEF Hands, LookStep, Looking
<1>11. Hands' BY <1>0, <1>1, <1>10, HandsKept DEF LookStep
<1>12. KeptHandles(t) BY <1>1 DEF KeptHandles
<1>13. th'[t].pc = "got" /\ th'[t].a # None /\ lock = None /\ Found(t) =>
         /\ th[t].tab = "dev" => th'[t].a = live[th[t].key]
         /\ th[t].tab # "dev" => th'[t].a = owner[th[t].key] /\ th'[t].b = live[th'[t].a]
         /\ th[t].op = "sleep" => \E j \in Slots["dev"] : A["dev"][j].id = th[t].dev /\ A["dev"][j].b = th'[t].b
  <2> SUFFICES ASSUME lock = None, Found(t)
               PROVE  /\ th[t].tab = "dev" => th'[t].a = live[th[t].key]
                      /\ th[t].tab # "dev" => th'[t].a = owner[th[t].key] /\ th'[t].b = live[th'[t].a]
                      /\ th[t].op = "sleep" =>
                            \E j \in Slots["dev"] : A["dev"][j].id = th[t].dev /\ A["dev"][j].b = th'[t].b
    OBVIOUS
  <2>1. PICK a, b : a = th'[t].a /\ b = th'[t].b OBVIOUS
  <2>2. PICK i \in Slots[th[t].tab] : /\ mem[th[t].tab][i].id = th[t].key
                                      /\ mem[th[t].tab][i].a = a /\ mem[th[t].tab][i].b = b
    BY <2>1 DEF Found
  <2>3. th[t].pc \in Looking BY DEF LookStep
  <2> QED BY <1>0, <2>1, <2>2, <2>3, FoundTrue
<1>14. Results'
  <2>1. th'[t].pc \in {"got", "signal", "fallback"} /\ th'[t].a # None =>
              /\ th'[t].tab = "dev" => th'[t].a = live'[th'[t].key]
              /\ th'[t].tab # "dev" => th'[t].a = owner'[th'[t].key] /\ th'[t].b = live'[th'[t].a]
    BY <1>1, <1>13 DEF LookStep, Results
  <2> QED BY <1>0, <1>1, <1>12, <2>1, ResultsOf
<1>15. lock # t BY <1>0, <1>2 DEF Seqlock
<1>16. ~Gone(th'[t]) BY DEF Gone, LookStep, Looking
<1>17. Slept(th'[t]) => \E i \in Slots["dev"] : A["dev"][i].id = th'[t].dev /\ A["dev"][i].b = th'[t].b
  <2> SUFFICES ASSUME Slept(th'[t])
               PROVE  \E i \in Slots["dev"] : A["dev"][i].id = th'[t].dev /\ A["dev"][i].b = th'[t].b
    OBVIOUS
  <2>1. th[t].op = "sleep" /\ th'[t].dev = th[t].dev BY DEF Slept, LookStep
  <2>2. CASE th'[t].pc = "got" /\ lock = None /\ Found(t) BY <1>13, <2>1, <2>2 DEF Slept
  <2>3. CASE th[t].pc = "got" /\ th'[t].a = th[t].a /\ th'[t].b = th[t].b
    BY <2>1, <2>3 DEF Slept, Rows, Sleeper
  <2>4. th[t].pc # "fallback" BY <1>0, <2>1 DEF Phases, Phase
  <2> QED BY <2>2, <2>3, <2>4 DEF LookStep, Slept
<1>18. Rows(A)' BY <1>1, <1>2, <1>15, <1>16, <1>17, RowsKept DEF LookStep
<1>19. Unborn' BY <1>0, <1>1, UnbornKept DEF LookStep
<1> QED BY <1>3, <1>4, <1>5, <1>7, <1>9, <1>11, <1>14, <1>18, <1>19 DEF Control

\* So does the end of a handler that only looked something up.
LEMMA LeaveKeeps ==
    ASSUME Control, Results, NEW A, Rows(A), NEW t \in Threads, LeaveStep(t), Clocks(t)
    PROVE  Control' /\ Results' /\ Rows(A)'
<1>0. Phases /\ Seqlock /\ Alone /\ SleepersApart /\ Sole /\ Driver /\ Unborn /\ Hands BY DEF Control
<1>1. Others(t) /\ UNCHANGED <<mem, gen, lock, live, owner, sems>> /\ th'[t] = Idle BY DEF LeaveStep
<1>2. th[t].pc # "store" /\ th'[t].pc # "store" /\ th[t].pc # "lock" BY <1>1, IdlePhase DEF LeaveStep, Looking
<1>3. Phases' BY <1>0, <1>1, PhasesKept, IdlePhase
<1>4. Seqlock' BY <1>0, <1>1, <1>2, SeqlockKept DEF Clocks
<1>5. Alone' /\ SleepersApart' BY <1>0, <1>1, TogetherKept DEF Stays
<1>6. Sole' BY <1>0, <1>1, SoleKept
<1>7. Driver' BY <1>0, <1>1, DriverKept
<1>8. th[t].sem = None BY <1>0 DEF Hands, LeaveStep, Looking
<1>9. Hands' BY <1>0, <1>1, <1>8, IdlePhase, HandsKept
<1>10. KeptHandles(t) BY <1>1 DEF KeptHandles
<1>11. Results' BY <1>0, <1>1, <1>10, IdlePhase, ResultsOf
<1>12. lock # t BY <1>0, <1>2 DEF Seqlock
<1>13. ~Gone(th'[t]) /\ ~Slept(th'[t]) BY <1>1, IdlePhase DEF Gone, Slept
<1>14. Rows(A)' BY <1>1, <1>2, <1>8, <1>12, <1>13, IdlePhase, RowsKept
<1>15. Unborn' BY <1>0, <1>1, IdlePhase, UnbornKept
<1> QED BY <1>3, <1>4, <1>5, <1>6, <1>7, <1>9, <1>11, <1>14, <1>15 DEF Control

\* The other lookups' reads stay good while the memory does.
LEMMA ReadsKept ==
    ASSUME Reads, NEW t \in Threads, Others(t), UNCHANGED <<mem, gen>>,
           th'[t].g = gen =>
              /\ th'[t].pc \in {"read_b", "check"} => th'[t].a = mem[th'[t].tab][th'[t].i].a
              /\ th'[t].pc = "check" => th'[t].b = mem[th'[t].tab][th'[t].i].b
    PROVE  Reads'
BY DEF Reads, Others

\* The generations that a step leaves as they were.
LEMMA SameClocks ==
    ASSUME Seqlock, NEW t \in Threads, th'[t].g = th[t].g \/ th'[t].g = 0, tls' = tls, TypeOK
    PROVE  Clocks(t)
<1>1. gen \in Nat BY DEF TypeOK
<1> QED BY <1>1 DEF Seqlock, Clocks

\* Every step of a lookup, and of a handler that looks something up and leaves.
LEMMA LookupSteps ==
    ASSUME TypeOK, Control, Lookups, NEW A, Rows(A), NEW t \in Threads,
           \/ ReadGeneration(t) \/ Scan(t) \/ Validate(t)
           \/ ReadField(t, "read_a", "read_b") \/ ReadField(t, "read_b", "check")
           \/ GotForSleep(t) \/ Use(t) \/ FallbackScan(t) \/ FallbackAdopt(t)
    PROVE  TypeOK' /\ Control' /\ Lookups' /\ Rows(A)'
<1>0. Phases /\ Seqlock /\ Caches /\ Reads /\ Results BY DEF Control, Lookups
<1>1. gen \in Nat /\ th[t].g \in Nat BY Locals DEF TypeOK
<1>2. CASE ReadGeneration(t)
  <2>1. /\ TypeOK' /\ LookStep(t) /\ Phase(th'[t]) /\ tls' = tls
        /\ th'[t].pc \in {"got", "scan"}
        /\ th'[t].g = th[t].g \/ (th'[t].g = gen /\ gen % 2 = 0)
    BY <1>0, <1>2, ReadGenerationEffect
  <2>2. Clocks(t) BY <1>0, <1>1, <2>1 DEF Clocks, Seqlock
  <2>3. Caches' BY <1>0, <2>1, CachesQuiet DEF LookStep
  <2>4. Reads' BY <1>0, <2>1, ReadsKept DEF LookStep
  <2> QED BY <1>0, <2>1, <2>2, <2>3, <2>4, LookKeeps DEF Lookups
<1>3. CASE Scan(t) \/ Validate(t)
  <2>1. /\ TypeOK' /\ LookStep(t) /\ Phase(th'[t]) /\ Caches'
        /\ th'[t].pc \in {"scan", "read_a", "got", "gen"} /\ th'[t].g = th[t].g
        /\ \A u \in Threads : /\ tls'[u].dev.g = tls[u].dev.g \/ tls'[u].dev.g = th[t].g
                              /\ tls'[u].queue.g = tls[u].queue.g \/ tls'[u].queue.g = th[t].g
    <3>1. CASE Scan(t) BY <1>0, <3>1, ScanEffect
    <3>2. CASE Validate(t) BY <1>0, <3>2, ValidateEffect
    <3> QED BY <1>3, <3>1, <3>2
  <2>2. Clocks(t) BY <1>0, <1>1, <2>1 DEF Clocks, Seqlock
  <2>3. Reads' BY <1>0, <2>1, ReadsKept DEF LookStep
  <2> QED BY <1>0, <2>1, <2>2, <2>3, LookKeeps DEF Lookups
<1>4. CASE ReadField(t, "read_a", "read_b") \/ ReadField(t, "read_b", "check")
  <2>1. /\ TypeOK' /\ LookStep(t) /\ Phase(th'[t]) /\ Caches' /\ tls' = tls
        /\ th'[t].g = th[t].g /\ th'[t].i = th[t].i
        /\ \/ th[t].pc = "read_a" /\ th'[t].pc = "read_b" /\ th'[t].a = mem[th[t].tab][th[t].i].a
           \/ /\ th[t].pc = "read_b" /\ th'[t].pc = "check" /\ th'[t].a = th[t].a
              /\ th'[t].b = mem[th[t].tab][th[t].i].b
    BY <1>0, <1>4, ReadFieldEffect
  <2>2. Clocks(t) BY <1>0, <2>1, SameClocks
  <2>3. th'[t].tab = th[t].tab /\ UNCHANGED <<mem, gen>> /\ Others(t) BY <2>1 DEF LookStep
  <2>4. th'[t].g = gen =>
              /\ th'[t].pc \in {"read_b", "check"} => th'[t].a = mem[th'[t].tab][th'[t].i].a
              /\ th'[t].pc = "check" => th'[t].b = mem[th'[t].tab][th'[t].i].b
    BY <1>0, <2>1, <2>3 DEF Reads
  <2>5. Reads' BY <1>0, <2>3, <2>4, ReadsKept
  <2> QED BY <1>0, <2>1, <2>2, <2>5, LookKeeps DEF Lookups
<1>5. CASE GotForSleep(t)
  <2>1. /\ TypeOK' /\ Caches' /\ tls' = tls
        /\ \/ LeaveStep(t)
           \/ LookStep(t) /\ Phase(th'[t]) /\ th'[t].pc = "signal" /\ th'[t].g = th[t].g
    BY <1>0, <1>5, GotForSleepEffect
  <2>2. Clocks(t) BY <1>0, <2>1, IdlePhase, SameClocks DEF LeaveStep
  <2>3. Reads' BY <1>0, <2>1, IdlePhase, ReadsKept DEF LookStep, LeaveStep
  <2> QED BY <1>0, <2>1, <2>2, <2>3, LookKeeps, LeaveKeeps DEF Lookups
<1>6. CASE Use(t)
  <2>1. TypeOK' /\ Caches' /\ LeaveStep(t) /\ tls' = tls BY <1>0, <1>6, UseEffect
  <2>2. Clocks(t) BY <1>0, <2>1, IdlePhase, SameClocks DEF LeaveStep
  <2>3. Reads' BY <1>0, <2>1, IdlePhase, ReadsKept DEF LeaveStep
  <2> QED BY <1>0, <2>1, <2>2, <2>3, LeaveKeeps DEF Lookups
<1>7. CASE FallbackScan(t)
  <2>1. /\ TypeOK' /\ Caches' /\ tls' = tls /\ LookStep(t) /\ Phase(th'[t])
        /\ th'[t].pc = "fallback" /\ th'[t].g = gen /\ gen % 2 = 0
    BY <1>0, <1>7, FallbackScanEffect
  <2>2. Clocks(t) BY <1>0, <1>1, <2>1 DEF Clocks, Seqlock
  <2>3. Reads' BY <1>0, <2>1, ReadsKept DEF LookStep
  <2> QED BY <1>0, <2>1, <2>2, <2>3, LookKeeps DEF Lookups
<1>8. CASE FallbackAdopt(t)
  <2>1. /\ TypeOK' /\ Caches'
        /\ \/ LeaveStep(t)
           \/ LookStep(t) /\ Phase(th'[t]) /\ th'[t].pc = "got" /\ th'[t].g = th[t].g
        /\ \A u \in Threads : /\ tls'[u].dev.g = tls[u].dev.g
                              /\ tls'[u].queue.g = tls[u].queue.g \/ tls'[u].queue.g = th[t].g
    BY <1>0, <1>8, FallbackAdoptEffect
  <2>2. th'[t].g = th[t].g \/ th'[t].g = 0 BY <2>1, IdlePhase DEF LeaveStep
  <2>3. Clocks(t) BY <1>0, <1>1, <2>1, <2>2 DEF Clocks, Seqlock
  <2>4. Reads' BY <1>0, <2>1, IdlePhase, ReadsKept DEF LookStep, LeaveStep
  <2> QED BY <1>0, <2>1, <2>3, <2>4, LookKeeps, LeaveKeeps DEF Lookups
<1> QED BY <1>2, <1>3, <1>4, <1>5, <1>6, <1>7, <1>8

----------------------------------------------------------------------------
(* Entering a handler *)

\* Who is there already: nobody who makes or unmakes the device, nobody at all
\* for one who does, and no sleep together with the end of a semaphore.
Welcome(t) ==
    \A u \in Threads : u # t /\ th[u].dev = th'[t].dev =>
        /\ th[u].op \notin {"create_device", "destroy_device"}
        /\ th'[t].op \notin {"create_device", "destroy_device"}
        /\ ~(th'[t].op = "sleep" /\ th[u].op = "destroy_ll")
        /\ ~(th'[t].op = "destroy_ll" /\ th[u].op = "sleep")

\* A thread that is welcome may enter.
LEMMA TogetherEnter ==
    ASSUME Alone, SleepersApart, NEW t \in Threads, Others(t), Welcome(t)
    PROVE  Alone' /\ SleepersApart'
<1>1. ASSUME NEW x \in Threads, NEW y \in Threads, x # y, th'[x].op \in {"create_device", "destroy_device"}
      PROVE  th'[y].dev # th'[x].dev
  <2>1. CASE x = t BY <1>1, <2>1 DEF Others, Welcome
  <2>2. CASE y = t BY <1>1, <2>2 DEF Others, Welcome
  <2>3. CASE x # t /\ y # t BY <1>1, <2>3 DEF Others, Alone
  <2> QED BY <2>1, <2>2, <2>3
<1>2. ASSUME NEW x \in Threads, NEW y \in Threads, th'[x].op = "sleep", th'[y].op = "destroy_ll"
      PROVE  th'[y].dev # th'[x].dev
  <2>0. x # y BY <1>2
  <2>1. CASE x = t BY <1>2, <2>0, <2>1 DEF Others, Welcome
  <2>2. CASE y = t BY <1>2, <2>0, <2>2 DEF Others, Welcome
  <2>3. CASE x # t /\ y # t BY <1>2, <2>3 DEF Others, SleepersApart
  <2> QED BY <2>1, <2>2, <2>3
<1> QED BY <1>1, <1>2 DEF Alone, SleepersApart

\* A thread that enters is not about a swapchain that another makes or unmakes.
LEMMA SoleEnter ==
    ASSUME Sole, NEW t \in Threads, Others(t), ~SoleOfChain(th'[t]),
           \A u \in Threads : u # t /\ SoleOfChain(th[u]) => th'[t].key # th[u].key
    PROVE  Sole'
<1> SUFFICES ASSUME NEW x \in Threads, NEW y \in Threads, x # y, SoleOfChain(th'[x])
             PROVE  th'[y].key # th'[x].key
  BY DEF Sole, SoleOfChain
<1>1. x # t OBVIOUS
<1>2. CASE y = t BY <1>1, <1>2 DEF Others
<1>3. CASE y # t BY <1>1, <1>3 DEF Others, Sole
<1> QED BY <1>2, <1>3

\* Entering a handler keeps the invariant.
LEMMA EnterKeeps ==
    ASSUME TypeOK, Control, Lookups, NEW A, Rows(A), NEW t \in Threads, Others(t), th[t].pc = "idle",
           UNCHANGED <<mem, gen, lock, tls, live, owner, sems, passes>>,
           th' \in [Threads -> ThreadType],
           NEW r, th'[t] = r, r.sem = None, r.g = 0, r.pc \in {"lock", "gen"}, Phase(r),
           live[r.dev] # None, Welcome(t), r.op # "create_device",
           ~SoleOfChain(r), OfHandle(r) => owner[r.key] = r.dev,
           \A u \in Threads : u # t /\ SoleOfChain(th[u]) => r.key # th[u].key
    PROVE  TypeOK' /\ Control' /\ Lookups' /\ Rows(A)'
<1>0. /\ Phases /\ Seqlock /\ Alone /\ SleepersApart /\ Sole /\ Driver /\ Unborn /\ Hands
      /\ Caches /\ Reads /\ Results
  BY DEF Control, Lookups
<1>1. TypeOK' BY Entries, LocalType
<1>2. Phases' BY <1>0, PhasesKept
<1>3. Clocks(t) BY <1>0, SameClocks
<1>4. Seqlock' BY <1>0, <1>3, SeqlockKept DEF Clocks
<1>5. Alone' /\ SleepersApart' BY <1>0, TogetherEnter
<1>6. Sole' BY <1>0, SoleEnter
<1>7. KeptHandles(t) BY DEF KeptHandles
<1>8. Driver' BY <1>0, <1>7, DriverStep DEF Driver
<1>9. Hands' BY <1>0, HandsKept
<1>10. Caches' BY <1>0, CachesQuiet
<1>11. Reads' BY <1>0, ReadsKept
<1>12. Results' BY <1>0, <1>7, ResultsOf
<1>13. th[t] = Idle BY <1>0 DEF Phases, Phase
<1>14. ~Gone(r) /\ ~Slept(r) BY DEF Gone, Slept
<1>15. Rows(A)' BY <1>0, <1>13, <1>14, IdlePhase, RowsKept DEF Seqlock
<1>16. Unborn' BY <1>0, UnbornKept
<1> QED BY <1>1, <1>2, <1>4, <1>5, <1>6, <1>8, <1>9, <1>10, <1>11, <1>12, <1>15, <1>16 DEF Control, Lookups

\* A thread with a device uses it.
LEMMA UsersOf ==
    ASSUME Phases, NEW u \in Threads, NEW d \in Devices, th[u].dev = d
    PROVE  u \in Using(d)
<1>1. th[u].pc # "idle"
  <2>1. None \notin Devices BY RegistryAssumption
  <2> QED BY <2>1, IdlePhase DEF Phases, Phase
<1> QED BY <1>1 DEF Using

\* hkvkDestroyDevice is entered.
LEMMA DestroyDeviceKeeps ==
    ASSUME TypeOK, Control, Lookups, NEW A, Rows(A), NEW t \in Threads, NEW d \in Devices,
           DestroyDevice(t, d)
    PROVE  TypeOK' /\ Control' /\ Lookups' /\ Rows(A)'
<1>0. Phases BY DEF Control
<1>1. PICK r : r = [Begin(t, "destroy_device", d) EXCEPT !.pc = "lock"] OBVIOUS
<1>2. /\ th' = [th EXCEPT ![t] = r] /\ th[t].pc = "idle" /\ live[d] # None /\ Using(d) = {}
      /\ UNCHANGED <<mem, gen, lock, tls, live, owner, sems, passes>>
  BY <1>1 DEF DestroyDevice, Enter
<1>3. "destroy_device" \in Ops BY DEF Ops
<1>4. /\ th'[t] = r /\ Others(t) /\ th' \in [Threads -> ThreadType]
      /\ r.op = "destroy_device" /\ r.dev = d /\ r.sem = None /\ r.g = 0 /\ r.pc = "lock" /\ r.key = None
  <2>1. r \in ThreadType BY <1>1, <1>3, IdleType
  <2>2. th'[t] = r /\ Others(t) /\ th' \in [Threads -> ThreadType] BY <1>2, <2>1, OneThread
  <2> QED BY <1>1, <2>2 DEF Begin, Idle
<1>5. None \notin Swapchains BY RegistryAssumption
<1>6. Phase(r) BY <1>4, <1>5 DEF Phase, Looking, Mutators
<1>7. Welcome(t) BY <1>0, <1>2, <1>4, UsersOf DEF Welcome
<1>8. ~SoleOfChain(r) /\ ~OfHandle(r) BY <1>4 DEF OfHandle, SoleOfChain
<1>9. \A u \in Threads : u # t /\ SoleOfChain(th[u]) => r.key # th[u].key
  BY <1>0, <1>4, <1>5 DEF SoleOfChain, Phases, Phase
<1> QED BY <1>2, <1>4, <1>6, <1>7, <1>8, <1>9, EnterKeeps

\* The end of the low latency device is entered.
LEMMA DestroyLowLatencyDeviceKeeps ==
    ASSUME TypeOK, Control, Lookups, NEW A, Rows(A), NEW t \in Threads, NEW d \in Devices,
           DestroyLowLatencyDevice(t, d)
    PROVE  TypeOK' /\ Control' /\ Lookups' /\ Rows(A)'
<1>0. Phases BY DEF Control
<1>1. PICK r : r = [Begin(t, "destroy_ll", d) EXCEPT !.pc = "lock"] OBVIOUS
<1>2. /\ th' = [th EXCEPT ![t] = r] /\ th[t].pc = "idle" /\ live[d] # None
      /\ \A u \in Using(d) : th[u].op \notin {"create_device", "destroy_device", "sleep"}
      /\ UNCHANGED <<mem, gen, lock, tls, live, owner, sems, passes>>
  BY <1>1 DEF DestroyLowLatencyDevice, Enter
<1>3. "destroy_ll" \in Ops BY DEF Ops
<1>4. /\ th'[t] = r /\ Others(t) /\ th' \in [Threads -> ThreadType]
      /\ r.op = "destroy_ll" /\ r.dev = d /\ r.sem = None /\ r.g = 0 /\ r.pc = "lock" /\ r.key = None
  <2>1. r \in ThreadType BY <1>1, <1>3, IdleType
  <2>2. th'[t] = r /\ Others(t) /\ th' \in [Threads -> ThreadType] BY <1>2, <2>1, OneThread
  <2> QED BY <1>1, <2>2 DEF Begin, Idle
<1>5. None \notin Swapchains BY RegistryAssumption
<1>6. Phase(r) BY <1>4, <1>5 DEF Phase, Looking, Mutators
<1>7. Welcome(t) BY <1>0, <1>2, <1>4, UsersOf DEF Welcome
<1>8. ~SoleOfChain(r) /\ ~OfHandle(r) BY <1>4 DEF OfHandle, SoleOfChain
<1>9. \A u \in Threads : u # t /\ SoleOfChain(th[u]) => r.key # th[u].key
  BY <1>0, <1>4, <1>5 DEF SoleOfChain, Phases, Phase
<1> QED BY <1>2, <1>4, <1>6, <1>7, <1>8, <1>9, EnterKeeps

\* A hook that starts with the lookup of its device is entered.
LEMMA DeviceCallKeeps ==
    ASSUME TypeOK, Control, Lookups, NEW A, Rows(A), NEW t \in Threads, NEW d \in Devices,
           NEW op \in {"get_queue", "create_swapchain", "destroy_swapchain", "call", "init", "sleep"},
           DeviceCall(t, op, d)
    PROVE  TypeOK' /\ Control' /\ Lookups' /\ Rows(A)'
<1>0. Phases BY DEF Control
<1>1. PICK r : r = Lookup(Begin(t, op, d), "dev", d) OBVIOUS
<1>2. /\ th' = [th EXCEPT ![t] = r] /\ th[t].pc = "idle" /\ live[d] # None
      /\ \A u \in Using(d) : th[u].op \notin {"create_device", "destroy_device"}
      /\ op = "sleep" => \A u \in Using(d) : th[u].op # "destroy_ll"
      /\ UNCHANGED <<mem, gen, lock, tls, live, owner, sems, passes>>
  BY <1>1 DEF DeviceCall, Enter
<1>3. op \in Ops /\ "dev" \in Tabs /\ d \in Words BY WordKinds DEF Ops, Tabs
<1>4. /\ th'[t] = r /\ Others(t) /\ th' \in [Threads -> ThreadType]
      /\ r.op = op /\ r.dev = d /\ r.sem = None /\ r.g = 0 /\ r.pc = "gen" /\ r.key = d /\ r.tab = "dev"
  <2>1. r \in ThreadType BY <1>1, <1>3, IdleType
  <2>2. th'[t] = r /\ Others(t) /\ th' \in [Threads -> ThreadType] BY <1>2, <2>1, OneThread
  <2> QED BY <1>1, <2>2 DEF Begin, Idle, Lookup
<1>5. d \notin Swapchains BY RegistryAssumption
<1>6. Phase(r) BY <1>4, <1>5 DEF Phase, Looking
<1>7. Welcome(t) BY <1>0, <1>2, <1>4, UsersOf DEF Welcome
<1>8. ~SoleOfChain(r) /\ ~OfHandle(r) BY <1>4 DEF OfHandle, SoleOfChain
<1>9. \A u \in Threads : u # t /\ SoleOfChain(th[u]) => r.key # th[u].key
  BY <1>0, <1>4, <1>5 DEF SoleOfChain, Phases, Phase
<1>10. r.op # "create_device" BY <1>4
<1> QED BY <1>2, <1>4, <1>6, <1>7, <1>8, <1>9, <1>10, EnterKeeps

\* A hook that starts with the lookup of its queue or swapchain is entered.
LEMMA HandleCallKeeps ==
    ASSUME TypeOK, Control, Lookups, NEW A, Rows(A), NEW t \in Threads, NEW op, NEW tab, NEW h,
           \/ op \in {"present", "notify"} /\ tab = "queue" /\ h \in Queues
           \/ op = "chain_state" /\ tab = "chain" /\ h \in Swapchains,
           HandleCall(t, op, tab, h)
    PROVE  TypeOK' /\ Control' /\ Lookups' /\ Rows(A)'
<1>0. Phases /\ Driver /\ Unborn BY DEF Control
<1>1. PICK d : d = owner[h] OBVIOUS
<1>2. PICK r : r = Lookup(Begin(t, op, d), tab, h) OBVIOUS
<1>3. /\ th' = [th EXCEPT ![t] = r] /\ th[t].pc = "idle" /\ d # None
      /\ \A u \in Using(d) :
            /\ th[u].op # "destroy_device"
            /\ th[u].op \in {"create_swapchain", "destroy_swapchain"} => th[u].key # h
      /\ UNCHANGED <<mem, gen, lock, tls, live, owner, sems, passes>>
  BY <1>1, <1>2 DEF HandleCall, Enter
<1>4. d \in Devices /\ live[d] # None
  <2>1. h \in Queues \cup Swapchains OBVIOUS
  <2>2. owner \in [Queues \cup Swapchains -> Devices \cup {None}] BY DEF TypeOK
  <2> QED BY <1>0, <1>1, <1>3, <2>1, <2>2 DEF Driver
<1>5. op \in Ops /\ tab \in Tabs /\ h \in Words BY WordKinds DEF Ops, Tabs
<1>6. /\ th'[t] = r /\ Others(t) /\ th' \in [Threads -> ThreadType]
      /\ r.op = op /\ r.dev = d /\ r.sem = None /\ r.g = 0 /\ r.pc = "gen" /\ r.key = h /\ r.tab = tab
  <2>1. r \in ThreadType BY <1>2, <1>4, <1>5, IdleType
  <2>2. th'[t] = r /\ Others(t) /\ th' \in [Threads -> ThreadType] BY <1>3, <2>1, OneThread
  <2> QED BY <1>2, <2>2 DEF Begin, Idle, Lookup
<1>7. Phase(r) BY <1>4, <1>6 DEF Phase, Looking, OfHandle
<1>8. \A u \in Threads : u # t /\ th[u].dev = d => u \in Using(d) BY <1>0, <1>4, UsersOf
<1>9. Welcome(t)
  <2>1. \A u \in Threads : th[u].dev = d => th[u].op # "create_device" BY <1>0, <1>1 DEF Unborn
  <2> QED BY <1>3, <1>6, <1>8, <2>1 DEF Welcome
<1>10. ~SoleOfChain(r) /\ owner[r.key] = r.dev BY <1>1, <1>6 DEF SoleOfChain
<1>11. ASSUME NEW u \in Threads, u # t, SoleOfChain(th[u]) PROVE r.key # th[u].key
  <2> SUFFICES ASSUME th[u].key = h PROVE FALSE BY <1>6
  <2>1. OfHandle(th[u]) BY <1>11 DEF OfHandle
  <2>2. th[u].dev = d BY <1>0, <1>1, <2>1 DEF Driver
  <2> QED BY <1>3, <1>8, <1>11, <2>2 DEF SoleOfChain
<1>12. r.op # "create_device" BY <1>6
<1> QED BY <1>3, <1>4, <1>6, <1>7, <1>9, <1>10, <1>11, <1>12, EnterKeeps

----------------------------------------------------------------------------
(* Handlers after their lookup, and the driver *)

\* A semaphore is made and is in the hand of its maker alone.
LEMMA NewSemaphoreKeeps ==
    ASSUME TypeOK, Control, Results, NEW A, Rows(A), NEW t \in Threads, NewSemaphore(t), Phase(th'[t]),
           Clocks(t)
    PROVE  Control' /\ Results' /\ Rows(A)'
<1>0. Phases /\ Seqlock /\ Alone /\ SleepersApart /\ Sole /\ Driver /\ Unborn /\ Hands BY DEF Control
<1>1. /\ Others(t) /\ UNCHANGED <<mem, gen, lock, live, owner>>
      /\ th[t].pc = "got" /\ th'[t].pc = "lock" /\ th'[t].op = "init_ll" /\ th[t].op = "init_ll"
      /\ th'[t].dev = th[t].dev /\ th'[t].key = th[t].key
  BY DEF NewSemaphore
<1>2. Phases' BY <1>0, <1>1, PhasesKept
<1>3. Seqlock' BY <1>0, <1>1, SeqlockKept DEF Clocks
<1>4. Alone' /\ SleepersApart' BY <1>0, <1>1, TogetherKept DEF Stays
<1>5. ~SoleOfChain(th'[t]) /\ ~OfHandle(th'[t]) BY <1>1 DEF SoleOfChain, OfHandle
<1>6. Sole' BY <1>0, <1>1, <1>5, SoleKept
<1>7. KeptHandles(t) BY <1>1 DEF KeptHandles
<1>8. Driver' BY <1>0, <1>1, <1>5, <1>7, DriverStep DEF Driver
<1>9. Unborn' BY <1>0, <1>1, UnbornKept
<1>10. Results' BY <1>0, <1>1, <1>7, ResultsOf
<1>11. th[t].dev \in Devices /\ th[t].dev # "destroyed" BY <1>0, <1>1, RegistryAssumption DEF Phases, Phase
<1>12. PICK n \in Nat : n = Len(sems)  BY DEF TypeOK
<1>13. /\ Len(sems') = n + 1 /\ sems'[n + 1] = th[t].dev
       /\ \A s \in 1 .. n : sems'[s] = sems[s]
       /\ th'[t].sem = n + 1
  <2>1. sems \in Seq(Devices \cup {"destroyed"}) /\ sems' = Append(sems, th[t].dev)
        /\ th'[t].sem = Len(sems) + 1
    BY DEF TypeOK, NewSemaphore
  <2> QED BY <1>11, <1>12, <2>1
<1>14. th[t].sem = None BY <1>0, <1>1 DEF Hands
<1>15. Hands'
  <2>1. ASSUME NEW u \in Threads, th'[u].sem # None
        PROVE  /\ th'[u].sem \in 1 .. Len(sems') /\ sems'[th'[u].sem] = th'[u].dev
               /\ \/ th'[u].pc = "lock" /\ th'[u].op = "init_ll"
                  \/ th'[u].pc = "store" /\ th'[u].then = "destroy_sem"
                  \/ th'[u].pc = "destroy_sem"
    <3>1. CASE u = t BY <1>1, <1>13, <3>1
    <3>2. CASE u # t
      <4>1. th'[u] = th[u] BY <1>1, <3>2 DEF Others
      <4>2. /\ th[u].sem \in 1 .. n /\ sems[th[u].sem] = th[u].dev
            /\ \/ th[u].pc = "lock" /\ th[u].op = "init_ll"
               \/ th[u].pc = "store" /\ th[u].then = "destroy_sem"
               \/ th[u].pc = "destroy_sem"
        BY <1>0, <1>12, <2>1, <4>1 DEF Hands
      <4> QED BY <1>13, <4>1, <4>2
    <3> QED BY <3>1, <3>2
  <2>2. ASSUME NEW x \in Threads, NEW y \in Threads, x # y, th'[x].sem # None
        PROVE  th'[x].sem # th'[y].sem
    <3>1. \A u \in Threads : u # t => th'[u].sem # n + 1
      BY <1>0, <1>1, <1>12, RegistryAssumption DEF Hands, Others
    <3> QED BY <1>0, <1>1, <1>13, <2>2, <3>1 DEF Hands, Others
  <2> QED BY <2>1, <2>2 DEF Hands
<1>16. lock # t BY <1>0, <1>1 DEF Seqlock
<1>17. ~Gone(th'[t]) /\ ~Slept(th'[t]) BY <1>1 DEF Gone, Slept
<1>18. Rows(A)'
  <2>0. Tables(A) /\ Settles(A) /\ Unique(A) /\ DeviceRows(A) /\ QueueRows(A) /\ ChainRows(A)
        /\ Absent(A) /\ NotInHand(A) /\ Owned(A) /\ Sleeper(A)
    BY DEF Rows
  <2>1. Tables(A)' /\ Unique(A)' BY <2>0, TablesKept
  <2>2. DeviceRows(A)'
    <3> SUFFICES ASSUME NEW i \in Slots["dev"], A["dev"][i].id # None
                 PROVE  /\ A["dev"][i].id \in Devices
                        /\ live[A["dev"][i].id] # None /\ A["dev"][i].a = live[A["dev"][i].id]
                        /\ A["dev"][i].b # None =>
                              A["dev"][i].b \in 1 .. n + 1 /\ sems'[A["dev"][i].b] = A["dev"][i].id
      BY <1>1, <1>13 DEF DeviceRows, Slots
    <3>1. /\ A["dev"][i].id \in Devices
          /\ live[A["dev"][i].id] # None /\ A["dev"][i].a = live[A["dev"][i].id]
          /\ A["dev"][i].b # None =>
                A["dev"][i].b \in 1 .. n /\ sems[A["dev"][i].b] = A["dev"][i].id
      BY <1>12, <2>0 DEF DeviceRows
    <3> QED BY <1>13, <3>1
  <2>3. QueueRows(A)' BY <1>1, <2>0 DEF QueueRows, Slots
  <2>4. Settles(A)' BY <1>1, <1>16, <2>0, SettlesKept
  <2>5. ChainRows(A)' BY <1>1, <2>0, ChainRowsKept
  <2>6. Absent(A)' /\ Sleeper(A)' BY <1>1, <1>17, <2>0, AbsentKept, SleeperKept
  <2>7. NotInHand(A)'
    <3> SUFFICES ASSUME NEW u \in Threads, th'[u].sem # None, NEW i \in Slots["dev"], A["dev"][i].id # None
                 PROVE  A["dev"][i].b # th'[u].sem
      BY DEF NotInHand, Slots
    <3>1. CASE u # t BY <1>1, <2>0, <3>1 DEF NotInHand, Others
    <3>2. CASE u = t
      <4>1. A["dev"][i].b # None => A["dev"][i].b \in 1 .. n BY <1>12, <2>0 DEF DeviceRows
      <4>2. None # n + 1 BY RegistryAssumption
      <4> QED BY <1>13, <3>2, <4>1, <4>2
    <3> QED BY <3>1, <3>2
  <2>8. Owned(A)'
    <3> SUFFICES ASSUME NEW s \in 1 .. n + 1, sems'[s] # "destroyed"
                 PROVE  \/ \E i \in Slots["dev"] : A["dev"][i].id = sems'[s] /\ A["dev"][i].b = s
                        \/ \E u \in Threads : th'[u].sem = s
      BY <1>13 DEF Owned, Slots
    <3>1. CASE s = n + 1 BY <1>13, <3>1
    <3>2. CASE s \in 1 .. n
      <4>1. \/ \E i \in Slots["dev"] : A["dev"][i].id = sems[s] /\ A["dev"][i].b = s
            \/ \E u \in Threads : th[u].sem = s
        BY <1>12, <1>13, <2>0, <3>2 DEF Owned
      <4>2. None # s BY RegistryAssumption
      <4>3. \A u \in Threads : th[u].sem = s => th'[u].sem = s BY <1>1, <1>14, <4>2 DEF Others
      <4> QED BY <1>13, <3>2, <4>1, <4>3
    <3> QED BY <3>1, <3>2
  <2> QED BY <2>1, <2>2, <2>3, <2>4, <2>5, <2>6, <2>7, <2>8 DEF Rows
<1> QED BY <1>2, <1>3, <1>4, <1>6, <1>8, <1>9, <1>10, <1>15, <1>18 DEF Control

\* The initialisation of low latency goes on after its lookup.
LEMMA GotForInitKeeps ==
    ASSUME TypeOK, Control, Lookups, NEW A, Rows(A), NEW t \in Threads, GotForInit(t)
    PROVE  TypeOK' /\ Control' /\ Lookups' /\ Rows(A)'
<1>0. Phases /\ Seqlock /\ Caches /\ Reads /\ Results BY DEF Control, Lookups
<1>1. /\ TypeOK' /\ Caches' /\ tls' = tls
      /\ \/ LeaveStep(t)
         \/ LookStep(t) /\ Phase(th'[t]) /\ th'[t].pc = "gen" /\ th'[t].g = th[t].g
         \/ NewSemaphore(t) /\ Phase(th'[t])
  BY <1>0, GotForInitEffect
<1>2. Clocks(t) BY <1>0, <1>1, IdlePhase, SameClocks DEF LeaveStep, NewSemaphore
<1>3. Reads' BY <1>0, <1>1, IdlePhase, ReadsKept DEF LookStep, LeaveStep, NewSemaphore
<1> QED BY <1>0, <1>1, <1>2, <1>3, LookKeeps, LeaveKeeps, NewSemaphoreKeeps DEF Lookups

\* A handle of the driver that the handler asked for or is about to give back.
LEMMA ChooseKeeps ==
    ASSUME TypeOK, Control, Lookups, NEW A, Rows(A), NEW t \in Threads, Others(t), th[t].pc = "got",
           UNCHANGED <<mem, gen, lock, tls, live, sems, passes>>, th' \in [Threads -> ThreadType],
           NEW r, th'[t] = r, r.pc = "lock", r.op = th[t].op, r.dev = th[t].dev, r.sem = th[t].sem,
           r.g = th[t].g, NEW h \in Queues \cup Swapchains, r.key = h,
           owner' = [owner EXCEPT ![h] = th[t].dev], owner[h] \in {None, th[t].dev},
           \/ r.op = "get_queue" /\ h \in Queues
           \/ r.op = "create_swapchain" /\ h \in Swapchains /\ owner[h] = None /\ r.flags = live[th[t].dev]
           \/ /\ r.op = "destroy_swapchain" /\ h \in Swapchains /\ owner[h] = th[t].dev
              /\ \A u \in Threads \ {t} : th[u].key # h
    PROVE  TypeOK' /\ Control' /\ Lookups' /\ Rows(A)'
<1>0. /\ Phases /\ Seqlock /\ Alone /\ SleepersApart /\ Sole /\ Driver /\ Unborn /\ Hands
      /\ Caches /\ Reads /\ Results
  BY DEF Control, Lookups
<1>1. PICK d \in Devices : d = th[t].dev /\ d # None /\ live[d] # None
  BY <1>0, RegistryAssumption DEF Phases, Phase, Driver
<1>2. /\ \A x \in Queues \cup Swapchains : owner'[x] = IF x = h THEN d ELSE owner[x]
      /\ owner' \in [Queues \cup Swapchains -> Devices \cup {None}]
  BY <1>1 DEF TypeOK
<1>3. Queues \cap Swapchains = {} /\ None \notin Queues \cup Swapchains BY RegistryAssumption
<1>4. TypeOK'
  <2>1. UNCHANGED Slots BY DEF Slots
  <2> QED BY <1>2, <2>1 DEF TypeOK
<1>5. Phase(r) BY <1>1, <1>3 DEF Phase, Looking, Mutators, OfHandle, SoleOfChain
<1>6. Phases' BY <1>0, <1>5, PhasesKept
<1>7. Clocks(t) BY <1>0, SameClocks
<1>8. Seqlock' BY <1>0, <1>7, SeqlockKept DEF Clocks
<1>9. Alone' /\ SleepersApart' BY <1>0, TogetherKept DEF Stays
<1>10. ASSUME NEW u \in Threads, u # t, h \in Swapchains PROVE th[u].key # h
  <2>1. CASE owner[h] = None
    <3> SUFFICES ASSUME th[u].key = h PROVE FALSE OBVIOUS
    <3>1. OfHandle(th[u]) BY <1>0, <1>10 DEF Phases, Phase
    <3>2. owner[h] = th[u].dev BY <1>0, <3>1 DEF Driver
    <3>3. th[u].op # "none" BY <3>1 DEF OfHandle, SoleOfChain
    <3>4. th[u].dev # None BY <1>0, <3>3, BusyDevice
    <3> QED BY <2>1, <3>2, <3>4
  <2>2. CASE owner[h] # None BY <1>3, <1>10, <2>2
  <2> QED BY <2>1, <2>2
<1>11. Sole'
  <2> SUFFICES ASSUME NEW x \in Threads, NEW y \in Threads, x # y, SoleOfChain(th'[x])
               PROVE  th'[y].key # th'[x].key
    BY DEF Sole, SoleOfChain
  <2>1. CASE x = t
    <3>1. h \in Swapchains BY <2>1 DEF SoleOfChain
    <3> QED BY <1>10, <2>1, <3>1 DEF Others
  <2>2. CASE y = t
    <3>1. th[x].key \in Swapchains /\ th'[x] = th[x] BY <1>0, <2>2 DEF Others, SoleOfChain, Phases, Phase
    <3> QED BY <1>3, <1>10, <2>2, <3>1
  <2>3. CASE x # t /\ y # t BY <1>0, <2>3 DEF Sole, Others
  <2> QED BY <2>1, <2>2, <2>3
<1>12. KeptHandles(t)
  <2> SUFFICES ASSUME NEW u \in Threads, u # t, OfHandle(th[u])
               PROVE  owner'[th[u].key] = owner[th[u].key]
    BY DEF KeptHandles
  <2>1. owner[th[u].key] = th[u].dev BY <1>0 DEF Driver
  <2>2. th[u].op # "none" BY DEF OfHandle, SoleOfChain
  <2>3. th[u].dev # None BY <1>0, <2>2, BusyDevice
  <2>4. CASE th[u].key = h BY <1>1, <1>2, <2>1, <2>3, <2>4
  <2>5. CASE th[u].key # h
    <3>1. owner'[th[u].key] = owner[th[u].key] BY <2>5 DEF TypeOK
    <3> QED BY <3>1
  <2> QED BY <2>4, <2>5
<1>13. Driver'
  <2>1. \A x \in Queues \cup Swapchains : owner'[x] # None => live'[owner'[x]] # None
    BY <1>0, <1>1, <1>2 DEF Driver
  <2>2. owner'[r.key] = r.dev BY <1>1, <1>2
  <2>3. r.op = "create_swapchain" => r.flags = live'[r.dev] OBVIOUS
  <2> QED BY <1>0, <1>1, <1>12, <2>1, <2>2, <2>3, DriverStep
<1>14. Unborn'
  <2> SUFFICES ASSUME NEW u \in Threads, th'[u].op = "create_device", NEW x \in Queues \cup Swapchains
               PROVE  owner'[x] # th'[u].dev
    BY DEF Unborn
  <2>1. u # t /\ th'[u] = th[u] BY DEF Others
  <2>2. th[u].dev # d BY <1>0, <1>1, <2>1 DEF Alone
  <2> QED BY <1>0, <1>2, <2>1, <2>2 DEF Unborn
<1>15. th[t].sem = None BY <1>0 DEF Hands
<1>16. Hands' BY <1>0, <1>15, HandsKept
<1>17. Caches' BY <1>0, CachesQuiet
<1>18. Reads' BY <1>0, ReadsKept
<1>19. Results' BY <1>0, <1>12, ResultsOf
<1>20. ~Gone(r) /\ ~Slept(r) BY DEF Gone, Slept
<1>21. Rows(A)'
  <2>0. Tables(A) /\ Settles(A) /\ Unique(A) /\ DeviceRows(A) /\ QueueRows(A) /\ ChainRows(A)
        /\ Absent(A) /\ NotInHand(A) /\ Owned(A) /\ Sleeper(A)
    BY DEF Rows
  <2>1. Tables(A)' /\ Unique(A)' BY <2>0, TablesKept
  <2>2. DeviceRows(A)' BY <2>0 DEF DeviceRows, Slots
  <2>3. QueueRows(A)'
    <3>1. ASSUME NEW i \in Slots["queue"], A["queue"][i].id # None
          PROVE  owner'[A["queue"][i].id] = owner[A["queue"][i].id]
      <4>1. /\ A["queue"][i].id \in Queues /\ A["queue"][i].a \in Devices
            /\ owner[A["queue"][i].id] = A["queue"][i].a
        BY <2>0, <3>1 DEF QueueRows
      <4>2. None \notin Devices BY RegistryAssumption
      <4> QED BY <1>1, <1>2, <4>1, <4>2
    <3> QED BY <2>0, <3>1 DEF QueueRows, Slots
  <2>4. Settles(A)' BY <1>0, <2>0, SettlesKept DEF Seqlock
  <2>5. ChainRows(A)'
    <3> SUFFICES ASSUME NEW i \in Slots["chain"], A["chain"][i].id # None
                 PROVE  /\ A["chain"][i].id \in Swapchains /\ A["chain"][i].a \in Devices
                        /\ \/ owner'[A["chain"][i].id] = None
                           \/ Creating(A["chain"][i].id)'
                           \/ owner'[A["chain"][i].id] = A["chain"][i].a
                                 /\ A["chain"][i].b = live'[A["chain"][i].a]
      BY DEF ChainRows, Slots
    <3>1. /\ A["chain"][i].id \in Swapchains /\ A["chain"][i].a \in Devices
          /\ \/ owner[A["chain"][i].id] = None
             \/ Creating(A["chain"][i].id)
             \/ owner[A["chain"][i].id] = A["chain"][i].a /\ A["chain"][i].b = live[A["chain"][i].a]
      BY <2>0 DEF ChainRows
    <3>2. PICK s : s = A["chain"][i].id OBVIOUS
    <3>3. Creating(s) => Creating(s)' BY CreatingKept
    <3>4. CASE s = h /\ r.op = "create_swapchain"
      <4>1. Creating(s)' BY <3>4 DEF Creating
      <4> QED BY <3>1, <3>2, <4>1
    <3>5. CASE s # h BY <1>2, <3>1, <3>2, <3>3, <3>5
    <3>6. CASE s = h /\ r.op # "create_swapchain"
      <4>1. owner[h] = d BY <1>1, <1>3, <3>1, <3>2, <3>6
      <4> QED BY <1>2, <3>1, <3>2, <3>3, <3>6, <4>1
    <3> QED BY <3>4, <3>5, <3>6
  <2>6. Absent(A)' /\ Sleeper(A)' BY <1>20, <2>0, AbsentKept, SleeperKept
  <2>7. NotInHand(A)' /\ Owned(A)' BY <2>0, SemRowsKept
  <2> QED BY <2>1, <2>2, <2>3, <2>4, <2>5, <2>6, <2>7 DEF Rows
<1> QED BY <1>4, <1>6, <1>8, <1>9, <1>11, <1>13, <1>14, <1>16, <1>17, <1>18, <1>19, <1>21 DEF Control, Lookups

\* The driver hands out a queue or a swapchain, or a destruction finds its swapchain.
LEMMA GotForHandleKeeps ==
    ASSUME TypeOK, Control, Lookups, NEW A, Rows(A), NEW t \in Threads,
           GotForQueue(t) \/ GotForCreateSwapchain(t) \/ GotForDestroySwapchain(t)
    PROVE  TypeOK' /\ Control' /\ Lookups' /\ Rows(A)'
<1>0. PICK me \in ThreadType : me = th[t] BY Locals
<1>1. Queues \subseteq Words /\ Swapchains \subseteq Words BY WordKinds
<1>2. CASE GotForQueue(t)
  <2>1. PICK h \in {x \in Queues : owner[x] \in {None, th[t].dev}} :
          /\ owner' = [owner EXCEPT ![h] = th[t].dev]
          /\ th' = [th EXCEPT ![t] = [th[t] EXCEPT !.pc = "lock", !.key = h]]
    BY <1>2 DEF GotForQueue
  <2>2. PICK r : r = [me EXCEPT !.pc = "lock", !.key = h] OBVIOUS
  <2>3. /\ r \in ThreadType /\ r.pc = "lock" /\ r.key = h /\ r.op = me.op /\ r.dev = me.dev
        /\ r.sem = me.sem /\ r.g = me.g
    BY <1>1, <2>2 DEF ThreadType, PCs
  <2>4. th' = [th EXCEPT ![t] = r] BY <1>0, <2>1, <2>2
  <2>5. th'[t] = r /\ Others(t) /\ th' \in [Threads -> ThreadType] BY <2>3, <2>4, OneThread
  <2>6. /\ UNCHANGED <<mem, gen, lock, tls, live, sems, passes>> /\ th[t].pc = "got" /\ th[t].op = "get_queue"
    BY <1>2 DEF GotForQueue
  <2> QED BY <1>0, <2>1, <2>3, <2>5, <2>6, ChooseKeeps
<1>3. CASE GotForCreateSwapchain(t)
  <2>1. PICK h \in {x \in Swapchains : owner[x] = None} :
          /\ owner' = [owner EXCEPT ![h] = th[t].dev]
          /\ th' = [th EXCEPT ![t] = [th[t] EXCEPT !.pc = "lock", !.key = h, !.flags = live[th[t].dev]]]
    BY <1>3 DEF GotForCreateSwapchain
  <2>2. PICK f : f = live[th[t].dev] OBVIOUS
  <2>3. f \in Words
    <3>1. me.dev \in Devices BY <1>0, <1>3 DEF Control, Phases, Phase, GotForCreateSwapchain
    <3>2. f \in Nat \cup {None} BY <1>0, <2>2, <3>1 DEF TypeOK
    <3> QED BY <3>2 DEF Words
  <2>4. PICK r : r = [me EXCEPT !.pc = "lock", !.key = h, !.flags = f] OBVIOUS
  <2>5. /\ r \in ThreadType /\ r.pc = "lock" /\ r.key = h /\ r.op = me.op /\ r.dev = me.dev
        /\ r.sem = me.sem /\ r.g = me.g /\ r.flags = f
    BY <1>1, <2>3, <2>4 DEF ThreadType, PCs
  <2>6. th' = [th EXCEPT ![t] = r] BY <1>0, <2>1, <2>2, <2>4
  <2>7. th'[t] = r /\ Others(t) /\ th' \in [Threads -> ThreadType] BY <2>5, <2>6, OneThread
  <2>8. /\ UNCHANGED <<mem, gen, lock, tls, live, sems, passes>>
        /\ th[t].pc = "got" /\ th[t].op = "create_swapchain"
    BY <1>3 DEF GotForCreateSwapchain
  <2> QED BY <1>0, <2>1, <2>2, <2>5, <2>7, <2>8, ChooseKeeps, ZenonT(40)
<1>4. CASE GotForDestroySwapchain(t)
  <2>1. PICK h \in {x \in Swapchains : owner[x] = th[t].dev} :
          /\ \A u \in Threads \ {t} : th[u].key # h
          /\ th' = [th EXCEPT ![t] = [th[t] EXCEPT !.pc = "lock", !.key = h]]
    BY <1>4 DEF GotForDestroySwapchain
  <2>2. PICK r : r = [me EXCEPT !.pc = "lock", !.key = h] OBVIOUS
  <2>3. /\ r \in ThreadType /\ r.pc = "lock" /\ r.key = h /\ r.op = me.op /\ r.dev = me.dev
        /\ r.sem = me.sem /\ r.g = me.g
    BY <1>1, <2>2 DEF ThreadType, PCs
  <2>4. th' = [th EXCEPT ![t] = r] BY <1>0, <2>1, <2>2
  <2>5. th'[t] = r /\ Others(t) /\ th' \in [Threads -> ThreadType] BY <2>3, <2>4, OneThread
  <2>6. /\ UNCHANGED <<mem, gen, lock, tls, live, owner, sems, passes>>
        /\ th[t].pc = "got" /\ th[t].op = "destroy_swapchain"
    BY <1>4 DEF GotForDestroySwapchain
  <2>7. owner' = [owner EXCEPT ![h] = th[t].dev] BY <2>1, <2>6 DEF TypeOK
  <2>8. h \in Swapchains /\ h \in Queues \cup Swapchains /\ owner[h] = th[t].dev
        /\ owner[h] \in {None, th[t].dev}
    BY <2>1
  <2>9. /\ r.op = "destroy_swapchain" /\ r.op = th[t].op /\ r.dev = th[t].dev /\ r.sem = th[t].sem
        /\ r.g = th[t].g /\ r.pc = "lock" /\ r.key = h
    BY <1>0, <2>3, <2>6
  <2>10. \A u \in Threads \ {t} : th[u].key # h BY <2>1
  <2>11. UNCHANGED <<mem, gen, lock, tls, live, sems, passes>> /\ th[t].pc = "got" BY <2>6
  <2> QED BY <2>5, <2>7, <2>8, <2>9, <2>10, <2>11, ChooseKeeps
<1> QED BY <1>2, <1>3, <1>4

\* A step that leaves memory, mutex and threads alone leaves the mutation in progress alone.
LEMMA SettlesStutter ==
    ASSUME NEW A, Settles(A), UNCHANGED <<mem, lock, th>>
    PROVE  Settles(A)'
<1>1. ASSUME NEW T, Pending(A, T) PROVE Pending(A, T)' BY <1>1 DEF Pending, PendingOn, Hits, Slots
<1>2. ASSUME NEW t \in Threads, lock' = t PROVE Pending(A, th[t].todo)'
  <2>1. PICK T : T = th[t].todo OBVIOUS
  <2>2. Pending(A, T) BY <1>2, <2>1 DEF Settles
  <2>3. Pending(A, T)' BY <1>1, <2>2
  <2>4. th'[t].todo = T BY <2>1
  <2> QED BY <2>3, <2>4 DEF Pending, PendingOn
<1> QED BY <1>2 DEF Settles

\* Nothing that the invariant speaks of changes.
LEMMA StutterKeeps ==
    ASSUME TypeOK, Control, Lookups, NEW A, Rows(A),
           UNCHANGED <<mem, gen, lock, tls, th, live, owner, sems, passes>>
    PROVE  TypeOK' /\ Control' /\ Lookups' /\ Rows(A)'
<1>1. UNCHANGED Slots BY DEF Slots
<1>2. TypeOK' BY <1>1 DEF TypeOK
<1>3. Control'
  BY <1>1 DEF Control, Phases, Phase, OfHandle, SoleOfChain, Seqlock, Alone, SleepersApart, Sole, Driver,
              Unborn, Hands
<1>4. Lookups' BY <1>1 DEF Lookups, Caches, Reads, Results
<1>5. Settles(A)'
  <2>1. Settles(A) BY DEF Rows
  <2> QED BY <2>1, SettlesStutter
<1>6. Tables(A)' /\ Unique(A)' BY TablesKept DEF Rows
<1>7. DeviceRows(A)' /\ QueueRows(A)' /\ ChainRows(A)'
  BY <1>1 DEF Rows, DeviceRows, QueueRows, ChainRows, Creating
<1>8. Absent(A)' /\ NotInHand(A)' /\ Owned(A)' /\ Sleeper(A)'
  BY <1>1 DEF Rows, Absent, Gone, NotInHand, Owned, Sleeper, Slept
<1> QED BY <1>2, <1>3, <1>4, <1>5, <1>6, <1>7, <1>8 DEF Rows

\* A queue the hooks never see is handed out.
LEMMA UnhookedGetQueueKeeps ==
    ASSUME TypeOK, Control, Lookups, NEW A, Rows(A), NEW d \in Devices, NEW q \in Queues,
           UnhookedGetQueue(d, q)
    PROVE  TypeOK' /\ Control' /\ Lookups' /\ Rows(A)'
<1>0. /\ Phases /\ Seqlock /\ Alone /\ SleepersApart /\ Sole /\ Driver /\ Unborn /\ Hands
      /\ Caches /\ Reads /\ Results
      /\ Tables(A) /\ Settles(A) /\ Unique(A) /\ DeviceRows(A) /\ QueueRows(A) /\ ChainRows(A)
      /\ Absent(A) /\ NotInHand(A) /\ Owned(A) /\ Sleeper(A)
  BY DEF Control, Lookups, Rows
<1>1. /\ UNCHANGED <<mem, gen, lock, tls, th, live, sems, passes>>
      /\ live[d] # None /\ owner[q] = None /\ owner' = [owner EXCEPT ![q] = d]
      /\ \A u \in Using(d) : th[u].op \notin {"create_device", "destroy_device"}
  BY DEF UnhookedGetQueue
<1>2. /\ owner' \in [Queues \cup Swapchains -> Devices \cup {None}]
      /\ \A x : x # q => owner'[x] = owner[x]
      /\ owner'[q] = d
  BY <1>1 DEF TypeOK
<1>3. UNCHANGED Slots BY DEF Slots
<1>4. None \notin Devices \cup Queues \cup Swapchains /\ q \notin Swapchains BY RegistryAssumption
<1>5. TypeOK' BY <1>1, <1>2, <1>3 DEF TypeOK
<1>6. Phases' /\ Seqlock' /\ Alone' /\ SleepersApart' /\ Sole' /\ Hands'
  BY <1>0, <1>1, <1>3 DEF Phases, Phase, OfHandle, SoleOfChain, Seqlock, Alone, SleepersApart, Sole, Hands
<1>7. ASSUME NEW u \in Threads, OfHandle(th[u]) PROVE owner'[th[u].key] = owner[th[u].key]
  <2>1. th[u].op # "none" BY <1>7 DEF OfHandle, SoleOfChain
  <2>2. owner[th[u].key] = th[u].dev /\ th[u].dev # None BY <1>0, <1>7, <2>1, BusyDevice DEF Driver
  <2> QED BY <1>1, <1>2, <2>2
<1>8. Driver'
  <2>1. \A h \in Queues \cup Swapchains : owner'[h] # None => live[owner'[h]] # None
    BY <1>0, <1>1, <1>2 DEF Driver
  <2>2. \A u \in Threads : OfHandle(th[u]) => owner'[th[u].key] = th[u].dev BY <1>0, <1>7 DEF Driver
  <2> QED BY <1>0, <1>1, <2>1, <2>2 DEF Driver, OfHandle, SoleOfChain
<1>9. Unborn'
  <2> SUFFICES ASSUME NEW u \in Threads, th[u].op = "create_device", NEW x \in Queues \cup Swapchains
               PROVE  owner'[x] # th[u].dev
    BY <1>1 DEF Unborn
  <2>1. th[u].dev # d BY <1>0, <1>1, UsersOf
  <2> QED BY <1>0, <1>2, <2>1 DEF Unborn
<1>10. Caches' /\ Reads' BY <1>0, <1>1, <1>3 DEF Caches, Reads
<1>11. Results'
  <2> SUFFICES ASSUME NEW u \in Threads, th[u].pc \in {"got", "signal", "fallback"}, th[u].a # None
               PROVE  /\ th[u].tab = "dev" => th[u].a = live[th[u].key]
                      /\ th[u].tab # "dev" => th[u].a = owner'[th[u].key] /\ th[u].b = live[th[u].a]
    BY <1>1 DEF Results
  <2>1. th[u].tab # "dev" => OfHandle(th[u]) BY <1>0 DEF Phases, Phase, Looking, OfHandle
  <2> QED BY <1>0, <1>7, <2>1 DEF Results
<1>12. Tables(A)' /\ Unique(A)' BY <1>0, TablesKept
<1>13. Settles(A)' BY <1>0, <1>1, SettlesStutter
<1>14. DeviceRows(A)' /\ Absent(A)' /\ NotInHand(A)' /\ Owned(A)' /\ Sleeper(A)'
  BY <1>0, <1>1, <1>3 DEF DeviceRows, Absent, Gone, NotInHand, Owned, Sleeper, Slept
<1>15. QueueRows(A)'
  <2>1. ASSUME NEW i \in Slots["queue"], A["queue"][i].id # None
        PROVE  owner'[A["queue"][i].id] = owner[A["queue"][i].id]
    <3>1. owner[A["queue"][i].id] = A["queue"][i].a /\ A["queue"][i].a \in Devices
      BY <1>0, <2>1 DEF QueueRows
    <3> QED BY <1>1, <1>2, <1>4, <3>1
  <2> QED BY <1>0, <1>3, <2>1 DEF QueueRows
<1>16. ChainRows(A)'
  <2>1. ASSUME NEW i \in Slots["chain"], A["chain"][i].id # None
        PROVE  owner'[A["chain"][i].id] = owner[A["chain"][i].id]
    BY <1>0, <1>2, <1>4, <2>1 DEF ChainRows
  <2> QED BY <1>0, <1>1, <1>3, <2>1 DEF ChainRows, Creating
<1> QED BY <1>5, <1>6, <1>8, <1>9, <1>10, <1>11, <1>12, <1>13, <1>14, <1>15, <1>16 DEF Control, Lookups, Rows

\* hkvkCreateDevice returns from the driver: a fresh incarnation, without a row yet.
LEMMA CreateDeviceKeeps ==
    ASSUME TypeOK, Control, Lookups, NEW A, Rows(A), NEW t \in Threads, CreateDevice(t)
    PROVE  TypeOK' /\ Control' /\ Lookups' /\ Rows(A)'
<1>1. UNCHANGED <<mem, gen, lock, tls, owner, sems>> /\ th[t].pc = "idle" BY DEF CreateDevice
<1>2. PICK d \in {x \in Devices : live[x] = None /\ Using(x) = {}}, c \in Creations :
         IF c.ok
         THEN /\ live' = [live EXCEPT ![d] = Len(passes) + 1]
              /\ passes' = Append(passes, c.native)
              /\ th' = [th EXCEPT ![t] = [Begin(t, "create_device", d) EXCEPT !.pc = "lock"]]
         ELSE UNCHANGED <<live, passes, th>>
  BY DEF CreateDevice
<1>3. d \in Devices /\ live[d] = None /\ Using(d) = {} OBVIOUS
<1>4. CASE ~c.ok BY <1>1, <1>2, <1>4, StutterKeeps
<1>5. CASE c.ok
  <2>0. /\ Phases /\ Seqlock /\ Alone /\ SleepersApart /\ Sole /\ Driver /\ Unborn /\ Hands
        /\ Caches /\ Reads /\ Results
        /\ Tables(A) /\ Settles(A) /\ Unique(A) /\ DeviceRows(A) /\ QueueRows(A) /\ ChainRows(A)
        /\ Absent(A) /\ NotInHand(A) /\ Owned(A) /\ Sleeper(A)
    BY DEF Control, Lookups, Rows
  <2>1. PICK n \in Nat : n = Len(passes) + 1 BY DEF TypeOK
  <2>2. /\ live' \in [Devices -> Nat \cup {None}] /\ live'[d] = n /\ n # None
        /\ \A x \in Devices : x # d => live'[x] = live[x]
    <3>1. live' = [live EXCEPT ![d] = n] BY <1>2, <1>5, <2>1, Zenon
    <3>2. live \in [Devices -> Nat \cup {None}] BY DEF TypeOK
    <3>3. None \notin Nat BY RegistryAssumption
    <3> QED BY <1>3, <3>1, <3>2, <3>3
  <2>3. passes' \in Seq(BOOLEAN)
    <3>1. c.native \in BOOLEAN
      <4>1. PICK p \in Platforms, s \in Policies :
               c \in {Creation(p, s, r, procs) : r \in Requests(p, enumerate_policy_extensions(p, s)),
                                                 procs \in BOOLEAN}
        BY DEF Creations
      <4>2. PICK r \in Requests(p, enumerate_policy_extensions(p, s)), procs \in BOOLEAN :
               c = Creation(p, s, r, procs)
        BY <4>1
      <4>3. c.native = (DeviceState(p, s, r, procs).nv = "native") BY <4>2 DEF Creation
      <4> QED BY <4>3
    <3>2. PICK b \in BOOLEAN : b = c.native BY <3>1
    <3>3. passes' = Append(passes, b) BY <1>2, <1>5, <3>2, Zenon
    <3>4. passes \in Seq(BOOLEAN) BY DEF TypeOK
    <3>5. PICK B : B = BOOLEAN OBVIOUS
    <3>6. passes' \in Seq(B)
      <4>1. b \in B /\ passes \in Seq(B) BY <3>4, <3>5, Zenon
      <4> QED BY <3>3, <4>1
    <3> QED BY <3>5, <3>6, Zenon
  <2>4. PICK r : r = [Begin(t, "create_device", d) EXCEPT !.pc = "lock"] OBVIOUS
  <2>5. /\ th'[t] = r /\ Others(t) /\ th' \in [Threads -> ThreadType]
        /\ r.op = "create_device" /\ r.dev = d /\ r.sem = None /\ r.g = 0 /\ r.pc = "lock" /\ r.key = None
    <3>1. "create_device" \in Ops BY DEF Ops
    <3>2. r \in ThreadType BY <2>4, <3>1, IdleType
    <3>3. th' = [th EXCEPT ![t] = r] BY <1>2, <1>5, <2>4
    <3>4. th'[t] = r /\ Others(t) /\ th' \in [Threads -> ThreadType] BY <3>2, <3>3, OneThread
    <3> QED BY <2>4, <3>4 DEF Begin, Idle
  <2>6. TypeOK'
    <3>1. UNCHANGED Slots BY DEF Slots
    <3> QED BY <1>1, <2>2, <2>3, <2>5, <3>1 DEF TypeOK
  <2>7. None \notin Devices \cup Queues \cup Swapchains BY RegistryAssumption
  <2>8. Phase(r) BY <2>5, <2>7 DEF Phase, Looking, Mutators
  <2>9. Phases' BY <2>0, <2>5, <2>8, PhasesKept
  <2>10. Clocks(t) BY <1>1, <2>0, <2>5, SameClocks
  <2>11. Seqlock' BY <1>1, <2>0, <2>5, <2>10, SeqlockKept DEF Clocks
  <2>12. \A u \in Threads : th[u].dev # d BY <1>3, <2>0, UsersOf
  <2>13. Welcome(t) BY <2>5, <2>12 DEF Welcome
  <2>14. Alone' /\ SleepersApart' BY <2>0, <2>5, <2>13, TogetherEnter
  <2>15. ~SoleOfChain(r) /\ ~OfHandle(r) BY <2>5 DEF OfHandle, SoleOfChain
  <2>16. \A u \in Threads : u # t /\ SoleOfChain(th[u]) => r.key # th[u].key
    BY <2>0, <2>5, <2>7 DEF SoleOfChain, Phases, Phase
  <2>17. Sole' BY <2>0, <2>5, <2>15, <2>16, SoleEnter
  <2>18. KeptHandles(t)
    <3>1. \A u \in Threads : th[u].dev # None => th[u].dev \in Devices BY Locals
    <3> QED BY <1>1, <2>2, <2>12, <3>1 DEF KeptHandles
  <2>19. \A h \in Queues \cup Swapchains : owner[h] # None => owner[h] \in Devices /\ owner[h] # d
    BY <1>3, <2>0 DEF TypeOK, Driver
  <2>20. Driver'
    <3>1. \A h \in Queues \cup Swapchains : owner'[h] # None => live'[owner'[h]] # None
      BY <1>1, <2>0, <2>2, <2>19 DEF Driver
    <3> QED BY <2>0, <2>2, <2>5, <2>15, <2>18, <3>1, DriverStep
  <2>21. Unborn'
    <3> SUFFICES ASSUME NEW u \in Threads, th'[u].op = "create_device", NEW x \in Queues \cup Swapchains
                 PROVE  owner[x] # th'[u].dev
      BY <1>1 DEF Unborn
    <3>1. CASE u = t BY <2>5, <2>7, <2>19, <3>1
    <3>2. CASE u # t BY <2>0, <2>5, <3>2 DEF Unborn, Others
    <3> QED BY <3>1, <3>2
  <2>22. Hands' BY <1>1, <2>0, <2>5, HandsKept
  <2>23. Caches' BY <1>1, <2>0, <2>5, CachesQuiet
  <2>24. Reads' BY <1>1, <2>0, <2>5, ReadsKept
  <2>25. Results' BY <2>0, <2>5, <2>18, ResultsOf
  <2>26. \A i \in Slots["dev"] : A["dev"][i].id # d BY <1>3, <2>0, <2>7 DEF DeviceRows
  <2>27. Tables(A)' /\ Unique(A)' BY <2>0, TablesKept
  <2>28. DeviceRows(A)' BY <1>1, <2>0, <2>2, <2>26 DEF DeviceRows, Slots
  <2>29. QueueRows(A)' BY <1>1, <2>0 DEF QueueRows, Slots
  <2>30. Settles(A)' BY <1>1, <2>0, <2>5, SettlesKept DEF Seqlock
  <2>31. th[t] = Idle BY <1>1, <2>0 DEF Phases, Phase
  <2>32. ChainRows(A)'
    <3> SUFFICES ASSUME NEW i \in Slots["chain"], A["chain"][i].id # None
                 PROVE  /\ A["chain"][i].id \in Swapchains /\ A["chain"][i].a \in Devices
                        /\ \/ owner[A["chain"][i].id] = None
                           \/ Creating(A["chain"][i].id)'
                           \/ owner[A["chain"][i].id] = A["chain"][i].a
                                 /\ A["chain"][i].b = live'[A["chain"][i].a]
      BY <1>1 DEF ChainRows, Slots
    <3>1. /\ A["chain"][i].id \in Swapchains /\ A["chain"][i].a \in Devices
          /\ \/ owner[A["chain"][i].id] = None
             \/ Creating(A["chain"][i].id)
             \/ owner[A["chain"][i].id] = A["chain"][i].a /\ A["chain"][i].b = live[A["chain"][i].a]
      BY <2>0 DEF ChainRows
    <3>2. PICK s : s = A["chain"][i].id OBVIOUS
    <3>3. Creating(s) => Creating(s)' BY <1>1, <2>5, CreatingKept
    <3> QED BY <2>2, <2>7, <2>19, <3>1, <3>2, <3>3
  <2>33. Absent(A)' BY <2>0, <2>5, <2>26, AbsentKept
  <2>34. Sleeper(A)' BY <2>0, <2>5, SleeperKept DEF Slept
  <2>35. NotInHand(A)' /\ Owned(A)' BY <1>1, <2>0, <2>5, <2>31, IdlePhase, SemRowsKept
  <2> QED BY <2>6, <2>9, <2>11, <2>14, <2>17, <2>20, <2>21, <2>22, <2>23, <2>24, <2>25, <2>27, <2>28, <2>29,
             <2>30, <2>32, <2>33, <2>34, <2>35 DEF Control, Lookups, Rows
<1> QED BY <1>4, <1>5

\* A semaphore in the hand is destroyed: no row and no sleep knows it.
LEMMA DestroySemaphoreKeeps ==
    ASSUME TypeOK, Control, Lookups, NEW A, Rows(A), NEW t \in Threads, DestroySemaphore(t)
    PROVE  TypeOK' /\ Control' /\ Lookups' /\ Rows(A)'
<1>0. /\ Phases /\ Seqlock /\ Alone /\ SleepersApart /\ Sole /\ Driver /\ Unborn /\ Hands
      /\ Caches /\ Reads /\ Results
      /\ Tables(A) /\ Settles(A) /\ Unique(A) /\ DeviceRows(A) /\ QueueRows(A) /\ ChainRows(A)
      /\ Absent(A) /\ NotInHand(A) /\ Owned(A) /\ Sleeper(A)
  BY DEF Control, Lookups, Rows
<1>1. UNCHANGED <<mem, gen, lock, tls, live, owner, passes>> /\ th[t].pc = "destroy_sem"
  BY DEF DestroySemaphore
<1>2. PICK me \in ThreadType : me = th[t] BY Locals
<1>3. PICK n \in Nat : n = Len(sems) /\ sems \in [1 .. n -> Devices \cup {"destroyed"}] BY DEF TypeOK
<1>4. /\ Len(sems') = n /\ sems' \in Seq(Devices \cup {"destroyed"})
      /\ \A s \in 1 .. n : sems'[s] = IF s = me.sem THEN "destroyed" ELSE sems[s]
  <2>1. None \notin 1 .. n BY RegistryAssumption
  <2>2. sems \in Seq(Devices \cup {"destroyed"}) BY DEF TypeOK
  <2>3. CASE me.sem = None
    <3>1. sems' = sems BY <1>2, <2>3 DEF DestroySemaphore
    <3> QED BY <1>3, <2>1, <2>2, <2>3, <3>1
  <2>4. CASE me.sem # None
    <3>1. sems' = [sems EXCEPT ![me.sem] = "destroyed"] BY <1>2, <2>4 DEF DestroySemaphore
    <3>2. me.sem \in 1 .. n BY <1>0, <1>2, <1>3, <2>4 DEF Hands
    <3>3. sems' \in [1 .. n -> Devices \cup {"destroyed"}] BY <1>3, <3>1, <3>2
    <3>4. sems' \in Seq(Devices \cup {"destroyed"}) /\ Len(sems') = n BY <3>3
    <3> QED BY <1>3, <3>1, <3>2, <3>4
  <2> QED BY <2>3, <2>4
<1>5. PICK r : r = IF me.op = "destroy_device" THEN [me EXCEPT !.pc = "driver_destroy", !.sem = None] ELSE Idle
  OBVIOUS
<1>6. /\ r \in ThreadType /\ r.sem = None /\ r.pc \in {"driver_destroy", "idle"}
      /\ \/ r = Idle
         \/ /\ me.op = "destroy_device" /\ r.op = "destroy_device" /\ r.dev = me.dev /\ r.key = me.key
            /\ r.pc = "driver_destroy" /\ r.g = me.g
  <2>1. CASE me.op = "destroy_device" BY <1>5, <2>1, WordKinds DEF ThreadType, PCs
  <2>2. CASE me.op # "destroy_device" BY <1>5, <2>2, IdleType, IdlePhase
  <2> QED BY <2>1, <2>2
<1>7. th'[t] = r /\ Others(t) /\ th' \in [Threads -> ThreadType]
  <2>1. th' = [th EXCEPT ![t] = r] BY <1>2, <1>5 DEF DestroySemaphore
  <2> QED BY <1>6, <2>1, OneThread
<1>8. TypeOK'
  <2>1. UNCHANGED Slots BY DEF Slots
  <2> QED BY <1>1, <1>4, <1>7, <2>1 DEF TypeOK
<1>9. Phase(r)
  <2>1. CASE r = Idle BY <2>1, IdlePhase
  <2>2. CASE r # Idle
    <3>1. Phase(me) BY <1>0, <1>2 DEF Phases
    <3> QED BY <1>1, <1>2, <1>6, <2>2, <3>1 DEF Phase, Looking, OfHandle, SoleOfChain
  <2> QED BY <2>1, <2>2
<1>10. Phases' BY <1>0, <1>7, <1>9, PhasesKept
<1>11. Clocks(t) BY <1>0, <1>1, <1>2, <1>6, <1>7, IdlePhase, SameClocks
<1>12. Seqlock' BY <1>0, <1>1, <1>6, <1>7, <1>11, SeqlockKept DEF Clocks
<1>13. Alone' /\ SleepersApart' BY <1>0, <1>2, <1>6, <1>7, TogetherKept DEF Stays
<1>14. ~SoleOfChain(r) /\ ~OfHandle(r) BY <1>6, IdlePhase DEF SoleOfChain, OfHandle
<1>15. Sole' BY <1>0, <1>2, <1>6, <1>7, <1>14, SoleKept
<1>16. KeptHandles(t) BY <1>1 DEF KeptHandles
<1>17. Driver' BY <1>0, <1>1, <1>2, <1>6, <1>7, <1>14, <1>16, IdlePhase, DriverStep DEF Driver
<1>18. Unborn' BY <1>0, <1>1, <1>6, <1>7, IdlePhase, UnbornKept
<1>19. Caches' BY <1>0, <1>1, <1>6, <1>7, CachesQuiet
<1>20. Reads' BY <1>0, <1>1, <1>6, <1>7, ReadsKept
<1>21. Results' BY <1>0, <1>6, <1>7, <1>16, ResultsOf
<1>22. Hands'
  <2>1. ASSUME NEW u \in Threads, th'[u].sem # None
        PROVE  /\ th'[u].sem \in 1 .. Len(sems') /\ sems'[th'[u].sem] = th'[u].dev
               /\ \/ th'[u].pc = "lock" /\ th'[u].op = "init_ll"
                  \/ th'[u].pc = "store" /\ th'[u].then = "destroy_sem"
                  \/ th'[u].pc = "destroy_sem"
    <3>1. u # t /\ th'[u] = th[u] BY <1>6, <1>7, <2>1 DEF Others
    <3>2. th[u].sem # me.sem BY <1>0, <1>2, <2>1, <3>1 DEF Hands
    <3>3. /\ th[u].sem \in 1 .. n /\ sems[th[u].sem] = th[u].dev
          /\ \/ th[u].pc = "lock" /\ th[u].op = "init_ll"
             \/ th[u].pc = "store" /\ th[u].then = "destroy_sem"
             \/ th[u].pc = "destroy_sem"
      BY <1>0, <1>3, <2>1, <3>1 DEF Hands
    <3> QED BY <1>4, <3>1, <3>2, <3>3
  <2>2. ASSUME NEW x \in Threads, NEW y \in Threads, x # y, th'[x].sem # None
        PROVE  th'[x].sem # th'[y].sem
    BY <1>0, <1>6, <1>7, <2>2 DEF Hands, Others
  <2> QED BY <2>1, <2>2 DEF Hands
<1>23. Tables(A)' /\ Unique(A)' BY <1>0, TablesKept
<1>24. DeviceRows(A)'
  <2> SUFFICES ASSUME NEW i \in Slots["dev"], A["dev"][i].id # None
               PROVE  /\ A["dev"][i].id \in Devices
                      /\ live[A["dev"][i].id] # None /\ A["dev"][i].a = live[A["dev"][i].id]
                      /\ A["dev"][i].b # None =>
                            A["dev"][i].b \in 1 .. n /\ sems'[A["dev"][i].b] = A["dev"][i].id
    BY <1>1, <1>4 DEF DeviceRows, Slots
  <2>1. /\ A["dev"][i].id \in Devices
        /\ live[A["dev"][i].id] # None /\ A["dev"][i].a = live[A["dev"][i].id]
        /\ A["dev"][i].b # None =>
              A["dev"][i].b \in 1 .. n /\ sems[A["dev"][i].b] = A["dev"][i].id
    BY <1>0, <1>3 DEF DeviceRows
  <2>2. A["dev"][i].b # None => A["dev"][i].b # me.sem BY <1>0, <1>2 DEF NotInHand
  <2> QED BY <1>4, <2>1, <2>2
<1>25. QueueRows(A)' BY <1>0, <1>1 DEF QueueRows, Slots
<1>26. Settles(A)' BY <1>0, <1>1, <1>7, SettlesKept DEF Seqlock
<1>27. ChainRows(A)' BY <1>0, <1>1, <1>7, ChainRowsKept
<1>28. Absent(A)'
  <2>1. Gone(r) => \A i \in Slots["dev"] : A["dev"][i].id # r.dev
    BY <1>0, <1>1, <1>2, <1>6, IdlePhase DEF Absent, Gone
  <2> QED BY <1>0, <1>7, <2>1, AbsentKept
<1>29. Sleeper(A)'
  <2>1. ~Slept(r) BY <1>6, IdlePhase DEF Slept
  <2> QED BY <1>0, <1>7, <2>1, SleeperKept
<1>30. NotInHand(A)' BY <1>0, <1>6, <1>7 DEF NotInHand, Others, Slots
<1>31. Owned(A)'
  <2> SUFFICES ASSUME NEW s \in 1 .. n, sems'[s] # "destroyed"
               PROVE  \/ \E i \in Slots["dev"] : A["dev"][i].id = sems'[s] /\ A["dev"][i].b = s
                      \/ \E u \in Threads : th'[u].sem = s
    BY <1>4 DEF Owned, Slots
  <2>1. s # me.sem /\ sems'[s] = sems[s] BY <1>4
  <2>2. \/ \E i \in Slots["dev"] : A["dev"][i].id = sems[s] /\ A["dev"][i].b = s
        \/ \E u \in Threads : th[u].sem = s
    BY <1>0, <1>3, <2>1 DEF Owned
  <2>3. \A u \in Threads : th[u].sem = s => th'[u].sem = s BY <1>2, <1>7, <2>1 DEF Others
  <2> QED BY <2>1, <2>2, <2>3
<1> QED BY <1>8, <1>10, <1>12, <1>13, <1>15, <1>17, <1>18, <1>19, <1>20, <1>21, <1>22, <1>23, <1>24, <1>25,
           <1>26, <1>27, <1>28, <1>29, <1>30, <1>31 DEF Control, Lookups, Rows

\* What a handler is about is a queue or a swapchain.
LEMMA HandleKey ==
    ASSUME TypeOK, Phases, NEW u \in Threads, OfHandle(th[u])
    PROVE  th[u].key \in Queues \cup Swapchains /\ th[u].dev \in Devices /\ th[u].dev # None
<1>1. Phase(th[u]) /\ th[u].pc \in PCs /\ th[u].op # "none" BY Locals DEF Phases, OfHandle, SoleOfChain
<1>2. th[u].pc # "idle" BY <1>1, IdlePhase DEF Phase
<1>3. CASE th[u].op \in {"present", "notify", "chain_state"}
  <2>1. th[u].pc \in Looking BY <1>1, <1>2, <1>3 DEF Phase, PCs, Looking, Mutators
  <2> QED BY <1>1, <1>2, <1>3, <2>1, RegistryAssumption DEF Phase
<1>4. CASE th[u].op \notin {"present", "notify", "chain_state"}
  BY <1>1, <1>2, <1>4, RegistryAssumption DEF Phase, OfHandle, SoleOfChain
<1> QED BY <1>3, <1>4

\* The driver destroys a device with all it owns, or a swapchain: no row leads there.
LEMMA DriverDestroyKeeps ==
    ASSUME TypeOK, Control, Lookups, NEW A, Rows(A), NEW t \in Threads, DriverDestroy(t)
    PROVE  TypeOK' /\ Control' /\ Lookups' /\ Rows(A)'
<1>0. /\ Phases /\ Seqlock /\ Alone /\ SleepersApart /\ Sole /\ Driver /\ Unborn /\ Hands
      /\ Caches /\ Reads /\ Results
      /\ Tables(A) /\ Settles(A) /\ Unique(A) /\ DeviceRows(A) /\ QueueRows(A) /\ ChainRows(A)
      /\ Absent(A) /\ NotInHand(A) /\ Owned(A) /\ Sleeper(A)
  BY DEF Control, Lookups, Rows
<1>1. /\ UNCHANGED <<mem, gen, lock, tls, sems, passes>> /\ th[t].pc = "driver_destroy"
      /\ th' = [th EXCEPT ![t] = Idle]
  BY DEF DriverDestroy
<1>2. th'[t] = Idle /\ Others(t) /\ th' \in [Threads -> ThreadType] BY <1>1, OneThread, IdleType
<1>3. /\ th[t].dev \in Devices /\ th[t].op \in {"destroy_device", "destroy_swapchain"} /\ th[t].sem = None
      /\ th[t].op = "destroy_swapchain" => th[t].key \in Swapchains /\ SoleOfChain(th[t])
  BY <1>0, <1>1 DEF Phases, Phase, Hands, SoleOfChain
<1>4. /\ live \in [Devices -> Nat \cup {None}]
      /\ owner \in [Queues \cup Swapchains -> Devices \cup {None}]
  BY DEF TypeOK
<1>5. None \notin Devices \cup Queues \cup Swapchains /\ Queues \cap Swapchains = {} BY RegistryAssumption
\* Which objects go.
<1>6. PICK D, H :
        /\ live' = [x \in Devices |-> IF x \in D THEN None ELSE live[x]]
        /\ owner' = [h \in Queues \cup Swapchains |-> IF h \in H THEN None ELSE owner[h]]
        /\ \A x \in D : x = th[t].dev /\ Gone(th[t])
        /\ \A h \in Queues \cup Swapchains : owner[h] \in D => h \in H
        /\ \A h \in H : \/ owner[h] \in D
                        \/ h = th[t].key /\ SoleOfChain(th[t]) /\ h \in Swapchains
  <2>1. CASE th[t].op = "destroy_device"
    <3>1. PICK D : D = {th[t].dev} OBVIOUS
    <3>2. PICK H : H = {h \in Queues \cup Swapchains : owner[h] = th[t].dev} OBVIOUS
    <3>3. live' = [x \in Devices |-> IF x \in D THEN None ELSE live[x]]
      <4>1. live' = [live EXCEPT ![th[t].dev] = None] BY <2>1 DEF DriverDestroy
      <4> QED BY <1>3, <1>4, <3>1, <4>1
    <3>4. owner' = [h \in Queues \cup Swapchains |-> IF h \in H THEN None ELSE owner[h]]
      <4>1. owner' = [h \in DOMAIN owner |-> IF owner[h] = th[t].dev THEN None ELSE owner[h]]
        BY <2>1 DEF DriverDestroy
      <4> QED BY <1>4, <3>2, <4>1
    <3>5. Gone(th[t]) BY <1>1, <2>1 DEF Gone
    <3>6. /\ \A x \in D : x = th[t].dev /\ Gone(th[t])
          /\ \A h \in Queues \cup Swapchains : owner[h] \in D => h \in H
          /\ \A h \in H : owner[h] \in D
      BY <3>1, <3>2, <3>5
    <3> QED BY <3>3, <3>4, <3>6
  <2>2. CASE th[t].op = "destroy_swapchain"
    <3>1. PICK D : D = {} OBVIOUS
    <3>2. PICK H : H = {th[t].key} OBVIOUS
    <3>3. live' = [x \in Devices |-> IF x \in D THEN None ELSE live[x]]
      <4>1. live' = live BY <2>2 DEF DriverDestroy
      <4> QED BY <1>4, <3>1, <4>1
    <3>4. owner' = [h \in Queues \cup Swapchains |-> IF h \in H THEN None ELSE owner[h]]
      <4>1. owner' = [owner EXCEPT ![th[t].key] = None] BY <2>2 DEF DriverDestroy
      <4> QED BY <1>3, <1>4, <2>2, <3>2, <4>1
    <3>5. /\ \A x \in D : x = th[t].dev /\ Gone(th[t])
          /\ \A h \in Queues \cup Swapchains : owner[h] \in D => h \in H
          /\ \A h \in H : h = th[t].key /\ SoleOfChain(th[t]) /\ h \in Swapchains
      BY <1>3, <2>2, <3>1, <3>2
    <3> QED BY <3>3, <3>4, <3>5
  <2> QED BY <1>3, <2>1, <2>2
<1>7. TypeOK'
  <2>1. UNCHANGED Slots BY DEF Slots
  <2>2. live' \in [Devices -> Nat \cup {None}] /\ owner' \in [Queues \cup Swapchains -> Devices \cup {None}]
    BY <1>4, <1>6
  <2> QED BY <1>1, <1>2, <2>1, <2>2 DEF TypeOK
<1>8. Phases' BY <1>0, <1>2, IdlePhase, PhasesKept
<1>9. Clocks(t) BY <1>0, <1>1, <1>2, IdlePhase, SameClocks
<1>10. Seqlock' BY <1>0, <1>1, <1>2, <1>9, IdlePhase, SeqlockKept DEF Clocks
<1>11. Alone' /\ SleepersApart' BY <1>0, <1>2, TogetherKept DEF Stays
<1>12. Sole' BY <1>0, <1>2, SoleKept
<1>13. \A u \in Threads : u # t => th[u].dev \notin D
  <2>1. Gone(th[t]) => th[t].op \in {"create_device", "destroy_device"} BY DEF Gone
  <2> QED BY <1>0, <1>6, <2>1 DEF Alone
<1>14. KeptHandles(t)
  <2>1. ASSUME NEW u \in Threads, u # t, th[u].dev # None PROVE live'[th[u].dev] = live[th[u].dev]
    <3>1. th[u].dev \in Devices BY <2>1, Locals
    <3> QED BY <1>6, <1>13, <2>1, <3>1
  <2>2. ASSUME NEW u \in Threads, u # t, OfHandle(th[u]) PROVE owner'[th[u].key] = owner[th[u].key]
    <3>1. th[u].key \in Queues \cup Swapchains BY <1>0, <2>2, HandleKey
    <3>2. owner[th[u].key] = th[u].dev BY <1>0, <2>2 DEF Driver
    <3>3. SoleOfChain(th[t]) => th[u].key # th[t].key BY <1>0, <2>2 DEF Sole
    <3> QED BY <1>6, <1>13, <2>2, <3>1, <3>2, <3>3
  <2> QED BY <2>1, <2>2 DEF KeptHandles
<1>15. \A h \in Queues \cup Swapchains : owner'[h] # None => h \notin H /\ owner'[h] = owner[h]
  BY <1>6
<1>16. Driver'
  <2>1. ASSUME NEW h \in Queues \cup Swapchains, owner'[h] # None PROVE live'[owner'[h]] # None
    <3>1. owner'[h] = owner[h] /\ owner[h] \in Devices /\ owner[h] \notin D
      BY <1>4, <1>6, <1>15, <2>1
    <3>2. live[owner[h]] # None BY <1>0, <2>1, <3>1 DEF Driver
    <3> QED BY <1>6, <3>1, <3>2
  <2>2. ~OfHandle(Idle) /\ ~SoleOfChain(Idle) BY IdlePhase DEF OfHandle, SoleOfChain
  <2> QED BY <1>0, <1>2, <1>14, <2>1, <2>2, IdlePhase, DriverStep
<1>17. Unborn'
  <2> SUFFICES ASSUME NEW u \in Threads, th'[u].op = "create_device", NEW x \in Queues \cup Swapchains
               PROVE  owner'[x] # th'[u].dev
    BY DEF Unborn
  <2>1. u # t /\ th'[u] = th[u] BY <1>2, IdlePhase DEF Others
  <2>2. th[u].dev # None BY <1>0, <2>1, BusyDevice
  <2> QED BY <1>0, <1>15, <2>1, <2>2 DEF Unborn
<1>18. Hands' BY <1>0, <1>1, <1>2, IdlePhase, HandsKept
<1>19. Caches' BY <1>0, <1>1, <1>2, IdlePhase, CachesQuiet
<1>20. Reads' BY <1>0, <1>1, <1>2, IdlePhase, ReadsKept
<1>21. Results' BY <1>0, <1>2, <1>14, IdlePhase, ResultsOf
<1>22. \A i \in Slots["dev"] : A["dev"][i].id \notin D BY <1>0, <1>6 DEF Absent
<1>23. Tables(A)' /\ Unique(A)' BY <1>0, TablesKept
<1>24. DeviceRows(A)'
  <2>1. ASSUME NEW i \in Slots["dev"], A["dev"][i].id # None
        PROVE  live'[A["dev"][i].id] = live[A["dev"][i].id]
    BY <1>0, <1>6, <1>22, <2>1 DEF DeviceRows
  <2> QED BY <1>0, <1>1, <2>1 DEF DeviceRows, Slots
<1>25. QueueRows(A)'
  <2>1. ASSUME NEW i \in Slots["queue"], A["queue"][i].id # None
        PROVE  owner'[A["queue"][i].id] = owner[A["queue"][i].id]
    <3>1. /\ A["queue"][i].id \in Queues /\ owner[A["queue"][i].id] = A["queue"][i].a
          /\ \E j \in Slots["dev"] : A["dev"][j].id = A["queue"][i].a
      BY <1>0, <2>1 DEF QueueRows
    <3>2. A["queue"][i].id \notin H BY <1>5, <1>6, <1>22, <3>1
    <3> QED BY <1>6, <3>1, <3>2
  <2> QED BY <1>0, <2>1 DEF QueueRows, Slots
<1>26. Settles(A)' BY <1>0, <1>1, <1>2, SettlesKept DEF Seqlock
<1>27. ChainRows(A)'
  <2> SUFFICES ASSUME NEW i \in Slots["chain"], A["chain"][i].id # None
               PROVE  /\ A["chain"][i].id \in Swapchains /\ A["chain"][i].a \in Devices
                      /\ \/ owner'[A["chain"][i].id] = None
                         \/ Creating(A["chain"][i].id)'
                         \/ owner'[A["chain"][i].id] = A["chain"][i].a
                               /\ A["chain"][i].b = live'[A["chain"][i].a]
    BY DEF ChainRows, Slots
  <2>1. /\ A["chain"][i].id \in Swapchains /\ A["chain"][i].a \in Devices
        /\ \/ owner[A["chain"][i].id] = None
           \/ Creating(A["chain"][i].id)
           \/ owner[A["chain"][i].id] = A["chain"][i].a /\ A["chain"][i].b = live[A["chain"][i].a]
    BY <1>0 DEF ChainRows
  <2>2. PICK s : s = A["chain"][i].id OBVIOUS
  <2>3. Creating(s) => Creating(s)' BY <1>1, <1>2, CreatingKept
  <2>4. CASE s \in H BY <1>6, <2>1, <2>2, <2>4
  <2>5. CASE s \notin H
    <3>1. owner'[s] = owner[s] /\ owner[s] \notin D BY <1>6, <2>1, <2>2, <2>5
    <3>2. owner[s] = A["chain"][i].a => live'[A["chain"][i].a] = live[A["chain"][i].a] BY <1>6, <2>1, <3>1
    <3> QED BY <2>1, <2>2, <2>3, <3>1, <3>2
  <2> QED BY <2>4, <2>5
<1>28. ~Gone(Idle) /\ ~Slept(Idle) BY IdlePhase DEF Gone, Slept
<1>29. Absent(A)' /\ Sleeper(A)' BY <1>0, <1>2, <1>28, AbsentKept, SleeperKept
<1>30. NotInHand(A)' /\ Owned(A)' BY <1>0, <1>1, <1>2, <1>3, IdlePhase, SemRowsKept
<1> QED BY <1>7, <1>8, <1>10, <1>11, <1>12, <1>16, <1>17, <1>18, <1>19, <1>20, <1>21, <1>23, <1>24, <1>25,
           <1>26, <1>27, <1>29, <1>30 DEF Control, Lookups, Rows

----------------------------------------------------------------------------
(* The stores of a mutation *)

\* The store s takes the tables M to N; the cells of M no store of T hits are those of A;
\* the stores of T store what A holds.
Changes(s, M, N) ==
    \A tab \in Tabs : \A i \in Slots[tab], f \in Fields :
        /\ Hits(s, tab, i, f) => N[tab][i][f] = s.value
        /\ ~Hits(s, tab, i, f) => N[tab][i][f] = M[tab][i][f]
Untouched(A, T, M) ==
    \A tab \in Tabs : \A i \in Slots[tab], f \in Fields :
        (\A n \in 1 .. Len(T) : ~Hits(T[n], tab, i, f)) => M[tab][i][f] = A[tab][i][f]
Owed(A, T) ==
    \A n \in 1 .. Len(T) :
        /\ T[n].tab \in Tabs /\ T[n].i \in Slots[T[n].tab] /\ T[n].field \in Fields
        /\ T[n].field # "id" => T[n].value = A[T[n].tab][T[n].i][T[n].field]
        /\ (\A k \in n + 1 .. Len(T) : ~Hits(T[k], T[n].tab, T[n].i, T[n].field)) =>
              T[n].value = A[T[n].tab][T[n].i][T[n].field]
        /\ T[n].tab = "dev" /\ T[n].field = "id" => A["dev"][T[n].i].b = None

\* One field of one row is stored.
LEMMA OneStore ==
    ASSUME TypeOK, NEW s \in StoreType, s.i \in Slots[s.tab],
           mem' = [mem EXCEPT ![s.tab][s.i][s.field] = s.value]
    PROVE  /\ DOMAIN mem' = Tabs /\ \A tab \in Tabs : mem'[tab] \in [Slots[tab] -> RowType]
           /\ Changes(s, mem, mem')
<1>1. s.tab \in Tabs /\ s.field \in Fields /\ s.value \in Words BY DEF StoreType
<1>2. DOMAIN mem = Tabs /\ \A tab \in Tabs : mem[tab] \in [Slots[tab] -> RowType] BY DEF TypeOK
<1>3. PICK row : row = [mem[s.tab][s.i] EXCEPT ![s.field] = s.value] OBVIOUS
<1>4. PICK table : table = [mem[s.tab] EXCEPT ![s.i] = row] OBVIOUS
<1>5. mem' = [mem EXCEPT ![s.tab] = table] BY <1>3, <1>4, Zenon
<1>6. mem[s.tab] \in [Slots[s.tab] -> RowType] /\ mem[s.tab][s.i] \in RowType BY <1>1, <1>2
<1>7. /\ row \in RowType
      /\ \A f \in Fields : row[f] = IF f = s.field THEN s.value ELSE mem[s.tab][s.i][f]
  <2>1. PICK old \in RowType : old = mem[s.tab][s.i] BY <1>6
  <2>2. row = [old EXCEPT ![s.field] = s.value] BY <1>3, <2>1
  <2>3. CASE s.field = "id" BY <1>1, <2>1, <2>2, <2>3 DEF RowType, Fields
  <2>4. CASE s.field = "a" BY <1>1, <2>1, <2>2, <2>4 DEF RowType, Fields
  <2>5. CASE s.field = "b" BY <1>1, <2>1, <2>2, <2>5 DEF RowType, Fields
  <2> QED BY <1>1, <2>3, <2>4, <2>5 DEF Fields
<1>8. /\ table \in [Slots[s.tab] -> RowType]
      /\ \A i \in Slots[s.tab] : table[i] = IF i = s.i THEN row ELSE mem[s.tab][i]
  BY <1>4, <1>6, <1>7
<1>9. /\ DOMAIN mem' = Tabs
      /\ \A tab \in Tabs : mem'[tab] = IF tab = s.tab THEN table ELSE mem[tab]
  BY <1>1, <1>2, <1>5
<1>10. \A tab \in Tabs : mem'[tab] \in [Slots[tab] -> RowType] BY <1>2, <1>8, <1>9
<1>11. ASSUME NEW tab \in Tabs, NEW i \in Slots[tab], NEW f \in Fields
       PROVE  /\ Hits(s, tab, i, f) => mem'[tab][i][f] = s.value
              /\ ~Hits(s, tab, i, f) => mem'[tab][i][f] = mem[tab][i][f]
  <2>1. CASE tab = s.tab /\ i = s.i
    <3>1. mem'[tab][i] = row BY <1>8, <1>9, <2>1
    <3> QED BY <1>7, <2>1, <3>1 DEF Hits
  <2>2. CASE tab = s.tab /\ i # s.i
    <3>1. mem'[tab][i] = mem[tab][i] BY <1>8, <1>9, <2>2
    <3> QED BY <2>2, <3>1 DEF Hits
  <2>3. CASE tab # s.tab BY <1>9, <2>3 DEF Hits
  <2> QED BY <2>1, <2>2, <2>3
<1>12. Changes(s, mem, mem') BY <1>11, Zenon DEF Changes
<1> QED BY <1>9, <1>10, <1>12

\* The tail of a list of stores.
LEMMA TailOf ==
    ASSUME NEW T \in Seq(StoreType), T # << >>
    PROVE  /\ Len(T) \in Nat /\ 1 \in 1 .. Len(T) /\ Tail(T) \in Seq(StoreType)
           /\ \A n \in 1 .. Len(Tail(T)) : Tail(T)[n] = T[n + 1] /\ n + 1 \in 1 .. Len(T)
           /\ \A k \in 2 .. Len(T) : k - 1 \in 1 .. Len(Tail(T)) /\ T[k] = Tail(T)[k - 1]
           /\ Len(Tail(T)) = Len(T) - 1
  OBVIOUS

\* What is known of the stores is known of all but the first.
LEMMA TailStores ==
    ASSUME NEW A, NEW T \in Seq(StoreType), T # << >>, Owed(A, T)
    PROVE  Owed(A, Tail(T))
<1>1. PICK R : R = Tail(T) OBVIOUS
<1>2. /\ Len(T) \in Nat /\ Len(R) = Len(T) - 1
      /\ \A n \in 1 .. Len(R) : R[n] = T[n + 1] /\ n + 1 \in 1 .. Len(T)
      /\ \A k \in 2 .. Len(T) : k - 1 \in 1 .. Len(R) /\ T[k] = R[k - 1]
  BY <1>1, TailOf
<1>3. ASSUME NEW n \in 1 .. Len(R)
      PROVE  /\ R[n].tab \in Tabs /\ R[n].i \in Slots[R[n].tab] /\ R[n].field \in Fields
             /\ R[n].field # "id" => R[n].value = A[R[n].tab][R[n].i][R[n].field]
             /\ (\A k \in n + 1 .. Len(R) : ~Hits(R[k], R[n].tab, R[n].i, R[n].field)) =>
                   R[n].value = A[R[n].tab][R[n].i][R[n].field]
             /\ R[n].tab = "dev" /\ R[n].field = "id" => A["dev"][R[n].i].b = None
  <2>1. PICK m \in 1 .. Len(T) : m = n + 1 BY <1>2
  <2>2. PICK w : w = R[n] /\ w = T[m] BY <1>2, <2>1
  <2>3. (\A k \in n + 1 .. Len(R) : ~Hits(R[k], w.tab, w.i, w.field)) =>
           \A k \in m + 1 .. Len(T) : ~Hits(T[k], w.tab, w.i, w.field)
    <3>1. \A k \in m + 1 .. Len(T) : k - 1 \in n + 1 .. Len(R) /\ T[k] = R[k - 1] BY <1>2, <2>1
    <3> QED BY <3>1, Zenon
  <2>4. /\ w.tab \in Tabs /\ w.i \in Slots[w.tab] /\ w.field \in Fields
        /\ w.field # "id" => w.value = A[w.tab][w.i][w.field]
        /\ (\A k \in m + 1 .. Len(T) : ~Hits(T[k], w.tab, w.i, w.field)) =>
              w.value = A[w.tab][w.i][w.field]
        /\ w.tab = "dev" /\ w.field = "id" => A["dev"][w.i].b = None
    BY <2>2, Zenon DEF Owed
  <2> QED BY <2>2, <2>3, <2>4, Zenon
<1>4. Owed(A, R) BY <1>3, Zenon DEF Owed
<1> QED BY <1>1, <1>4, Zenon

\* ... and the cells none of the others hits are as A has them once the first is done.
LEMMA TailUntouched ==
    ASSUME NEW A, NEW T \in Seq(StoreType), T # << >>, Owed(A, T),
           NEW M, NEW N, Changes(T[1], M, N), Untouched(A, T, M)
    PROVE  Untouched(A, Tail(T), N)
<1>1. PICK R : R = Tail(T) OBVIOUS
<1>2. PICK s : s = T[1] OBVIOUS
<1>3. /\ Len(T) \in Nat /\ 1 \in 1 .. Len(T)
      /\ \A k \in 2 .. Len(T) : k - 1 \in 1 .. Len(R) /\ T[k] = R[k - 1]
  BY <1>1, TailOf
<1>4. (\A k \in 1 + 1 .. Len(T) : ~Hits(T[k], s.tab, s.i, s.field)) => s.value = A[s.tab][s.i][s.field]
  BY <1>2, <1>3, Zenon DEF Owed
<1>5. ASSUME NEW tab \in Tabs, NEW i \in Slots[tab], NEW f \in Fields,
             \A n \in 1 .. Len(R) : ~Hits(R[n], tab, i, f)
      PROVE  N[tab][i][f] = A[tab][i][f]
  <2>1. \A k \in 2 .. Len(T) : ~Hits(T[k], tab, i, f) BY <1>3, <1>5, Zenon
  <2>2. CASE Hits(s, tab, i, f)
    <3>1. s.tab = tab /\ s.i = i /\ s.field = f BY <2>2, Zenon DEF Hits
    <3>2. 1 + 1 = 2 OBVIOUS
    <3>3. s.value = A[tab][i][f] BY <1>4, <2>1, <3>1, <3>2, Zenon
    <3>4. N[tab][i][f] = s.value BY <1>2, <2>2, Zenon DEF Changes
    <3> QED BY <3>3, <3>4, Zenon
  <2>3. CASE ~Hits(s, tab, i, f)
    <3>1. ASSUME NEW n \in 1 .. Len(T) PROVE ~Hits(T[n], tab, i, f)
      <4>1. n = 1 \/ n \in 2 .. Len(T) BY <1>3
      <4> QED BY <1>2, <2>1, <2>3, <4>1, Zenon
    <3>2. M[tab][i][f] = A[tab][i][f] BY <3>1, Zenon DEF Untouched
    <3>3. N[tab][i][f] = M[tab][i][f] BY <1>2, <2>3, Zenon DEF Changes
    <3> QED BY <3>2, <3>3, Zenon
  <2> QED BY <2>2, <2>3, Zenon
<1>6. Untouched(A, R, N) BY <1>5, Zenon DEF Untouched
<1> QED BY <1>1, <1>6, Zenon

\* The two halves of Pending, now and after a step.
LEMMA PendingParts ==
    ASSUME NEW A, NEW T
    PROVE  Pending(A, T) <=> Untouched(A, T, mem) /\ Owed(A, T)
  BY Zenon DEF Pending, PendingOn, Untouched, Owed

\* ... with the memory after the step.
LEMMA PendingPartsNext ==
    ASSUME NEW A, NEW T, Untouched(A, T, mem'), Owed(A, T)
    PROVE  Pending(A, T)'
<1>1. Slots' = Slots BY DEF Slots
<1> QED BY <1>1, Zenon DEF Pending, PendingOn, Untouched, Owed, Hits, Tabs, Fields

\* The stores that are left still lead to the same tables.
LEMMA StorePends ==
    ASSUME TypeOK, NEW A, NEW T \in Seq(StoreType), T # << >>, Pending(A, T),
           mem' = [mem EXCEPT ![Head(T).tab][Head(T).i][Head(T).field] = Head(T).value],
           NEW R, R = Tail(T)
    PROVE  /\ Pending(A, R)' /\ R \in Seq(StoreType)
           /\ DOMAIN mem' = Tabs /\ \A tab \in Tabs : mem'[tab] \in [Slots[tab] -> RowType]
<1>0. Untouched(A, T, mem) /\ Owed(A, T) BY PendingParts, Zenon
<1>1. PICK s \in StoreType : s = T[1] /\ s = Head(T) OBVIOUS
<1>2. 1 \in 1 .. Len(T) /\ R \in Seq(StoreType) BY TailOf
<1>3. s.tab \in Tabs /\ s.i \in Slots[s.tab] BY <1>0, <1>1, <1>2, Zenon DEF Owed
<1>4. mem' = [mem EXCEPT ![s.tab][s.i][s.field] = s.value] BY <1>1, Zenon
<1>5. /\ DOMAIN mem' = Tabs /\ \A tab \in Tabs : mem'[tab] \in [Slots[tab] -> RowType]
      /\ Changes(s, mem, mem')
  BY <1>3, <1>4, OneStore
<1>6. Untouched(A, R, mem') BY <1>0, <1>1, <1>5, TailUntouched, Zenon
<1>7. Owed(A, R) BY <1>0, TailStores, Zenon
<1>8. Pending(A, R)' BY <1>6, <1>7, PendingPartsNext, Zenon
<1> QED BY <1>2, <1>5, <1>8, Zenon

\* While the mutex is held the generation is odd, and no lookup and no cache
\* is of that generation.
LEMMA HeldIsOdd ==
    ASSUME Seqlock, TypeOK, NEW t \in Threads, lock = t
    PROVE  /\ gen % 2 = 1
           /\ \A u \in Threads : th[u].g # gen /\ tls[u].dev.g # gen /\ tls[u].queue.g # gen
<1>1. t # None BY RegistryAssumption
<1> QED BY <1>1 DEF Seqlock

\* A store of a mutation: the tables it leads to are the same as before.
LEMMA MutationStoreKeeps ==
    ASSUME TypeOK, Control, Lookups, NEW A, Rows(A), NEW t \in Threads, MutationStore(t)
    PROVE  TypeOK' /\ Control' /\ Lookups' /\ Rows(A)'
<1>0. /\ Phases /\ Seqlock /\ Alone /\ SleepersApart /\ Sole /\ Driver /\ Unborn /\ Hands
      /\ Caches /\ Reads /\ Results
      /\ Tables(A) /\ Settles(A) /\ Unique(A) /\ DeviceRows(A) /\ QueueRows(A) /\ ChainRows(A)
      /\ Absent(A) /\ NotInHand(A) /\ Owned(A) /\ Sleeper(A)
  BY DEF Control, Lookups, Rows
<1>1. /\ UNCHANGED <<gen, lock, tls, live, owner, sems, passes>> /\ th[t].pc = "store"
      /\ th[t].todo # << >> /\ lock = t
  BY <1>0 DEF MutationStore, Seqlock
<1>2. PICK me \in ThreadType : me = th[t] BY Locals
<1>3. PICK T \in Seq(StoreType) : T = me.todo BY <1>2 DEF ThreadType
<1>4. PICK R : R = Tail(T) OBVIOUS
<1>5. mem' = [mem EXCEPT ![Head(T).tab][Head(T).i][Head(T).field] = Head(T).value]
  BY <1>2, <1>3, Zenon DEF MutationStore
<1>6. Pending(A, T) BY <1>0, <1>1, <1>2, <1>3 DEF Settles
<1>7. /\ Pending(A, R)' /\ R \in Seq(StoreType)
      /\ DOMAIN mem' = Tabs /\ \A tab \in Tabs : mem'[tab] \in [Slots[tab] -> RowType]
  BY <1>1, <1>2, <1>3, <1>4, <1>5, <1>6, StorePends
<1>8. PICK r : r = [me EXCEPT !.todo = R] OBVIOUS
<1>9. /\ r \in ThreadType /\ r.todo = R /\ r.pc = "store" /\ r.op = me.op /\ r.dev = me.dev
      /\ r.key = me.key /\ r.g = me.g /\ r.then = me.then /\ r.sem = me.sem /\ r.flags = me.flags
  BY <1>1, <1>2, <1>7, <1>8 DEF ThreadType
<1>10. th'[t] = r /\ Others(t) /\ th' \in [Threads -> ThreadType]
  <2>1. th' = [th EXCEPT ![t] = r] BY <1>2, <1>3, <1>4, <1>8 DEF MutationStore
  <2> QED BY <1>9, <2>1, OneThread
<1>11. TypeOK'
  <2>1. UNCHANGED Slots BY DEF Slots
  <2>2. UNCHANGED <<Tabs, RowType>> BY DEF Tabs, RowType, Words
  <2> QED BY <1>1, <1>7, <1>10, <2>1, <2>2 DEF TypeOK
<1>12. Phase(r)
  <2>1. Phase(me) BY <1>0, <1>2 DEF Phases
  <2> QED BY <1>1, <1>2, <1>9, <2>1 DEF Phase, Looking, OfHandle, SoleOfChain
<1>13. Phases' BY <1>0, <1>10, <1>12, PhasesKept
<1>14. Seqlock' BY <1>0, <1>1, <1>2, <1>9, <1>10 DEF Seqlock, Others
<1>15. Alone' /\ SleepersApart' BY <1>0, <1>2, <1>9, <1>10, TogetherKept DEF Stays
<1>16. /\ SoleOfChain(r) <=> SoleOfChain(me)
       /\ OfHandle(r) <=> OfHandle(me)
       /\ Gone(r) <=> Gone(me)
       /\ ~Slept(r)
  BY <1>1, <1>2, <1>9 DEF SoleOfChain, OfHandle, Gone, Slept
<1>17. Sole' BY <1>0, <1>2, <1>9, <1>10, <1>16, SoleKept
<1>18. Driver' BY <1>0, <1>1, <1>2, <1>9, <1>10, <1>16, DriverKept
<1>19. Unborn' BY <1>0, <1>1, <1>2, <1>9, <1>10, UnbornKept
<1>20. KeptHandles(t) BY <1>1 DEF KeptHandles
<1>21. /\ \A u \in Threads : th'[u].g # gen' /\ tls'[u].dev.g # gen' /\ tls'[u].queue.g # gen'
  BY <1>0, <1>1, <1>2, <1>9, <1>10, HeldIsOdd DEF Others
<1>22. Caches'
  <2>1. \A u \in Threads : /\ ~tls'[u].queue.resolved => tls'[u].queue.a = None
                           /\ th'[u].pc = "fallback" => ~tls'[u].queue.resolved
    BY <1>0, <1>1, <1>9, <1>10 DEF Caches, Others
  <2> QED BY <1>21, <2>1 DEF Caches
<1>23. Reads' BY <1>21 DEF Reads
<1>24. Results' BY <1>0, <1>9, <1>10, <1>20, ResultsOf
<1>25. Hands'
  <2>1. ASSUME me.sem # None PROVE HandsOf(r)
    <3>1. HandsOf(me) BY <1>0, <1>2, <2>1 DEF Hands, HandsOf
    <3> QED BY <1>1, <1>2, <1>9, <3>1 DEF HandsOf
  <2> QED BY <1>0, <1>1, <1>2, <1>9, <1>10, <2>1, HandsKept
<1>26. Tables(A)' /\ Unique(A)' BY <1>0, TablesKept
<1>27. DeviceRows(A)' /\ QueueRows(A)' BY <1>0, <1>1 DEF DeviceRows, QueueRows, Slots
<1>28. Settles(A)'
  <2>1. lock' = t /\ t # None BY <1>1, RegistryAssumption
  <2>2. Pending(A, th[t].todo)' BY <1>7, <1>9, <1>10 DEF Pending, PendingOn
  <2> QED BY <2>1, <2>2 DEF Settles
<1>29. ChainRows(A)' BY <1>0, <1>1, <1>10, ChainRowsKept
<1>30. Absent(A)'
  <2>1. Gone(r) => \A i \in Slots["dev"] : A["dev"][i].id # r.dev
    BY <1>0, <1>2, <1>9, <1>16 DEF Absent
  <2> QED BY <1>0, <1>10, <2>1, AbsentKept
<1>31. Sleeper(A)' BY <1>0, <1>10, <1>16, SleeperKept
<1>32. NotInHand(A)' /\ Owned(A)' BY <1>0, <1>1, <1>2, <1>9, <1>10, SemRowsKept
<1> QED BY <1>11, <1>13, <1>14, <1>15, <1>17, <1>18, <1>19, <1>22, <1>23, <1>24, <1>25, <1>26, <1>27, <1>28,
           <1>29, <1>30, <1>31, <1>32 DEF Control, Lookups, Rows

\* The same tables, written otherwise.
LEMMA SameRows ==
    ASSUME NEW A, NEW B, Tables(B), \A tab \in Tabs : A[tab] = B[tab], Rows(A), Settles(B)
    PROVE  Rows(B)
<1>1. A["dev"] = B["dev"] /\ A["queue"] = B["queue"] /\ A["chain"] = B["chain"] BY DEF Tabs
<1>2. Unique(A) /\ DeviceRows(A) /\ QueueRows(A) /\ ChainRows(A) /\ Absent(A) /\ NotInHand(A)
      /\ Owned(A) /\ Sleeper(A)
  BY DEF Rows
<1>3. Unique(B) BY <1>2 DEF Unique
<1>4. DeviceRows(B) /\ QueueRows(B) /\ ChainRows(B) BY <1>1, <1>2 DEF DeviceRows, QueueRows, ChainRows
<1>5. Absent(B) /\ NotInHand(B) /\ Owned(B) /\ Sleeper(B)
  BY <1>1, <1>2 DEF Absent, NotInHand, Owned, Sleeper
<1> QED BY <1>3, <1>4, <1>5 DEF Rows

\* A writer that stays with its device and its handle, or leaves.
Proceeds(me, r) ==
    /\ r.pc \notin {"got", "signal", "fallback"}
    /\ \/ r = Idle
       \/ /\ r.dev = me.dev /\ r.op = me.op /\ r.key = me.key /\ r.flags = me.flags
          /\ (OfHandle(r) => OfHandle(me)) /\ (SoleOfChain(r) => SoleOfChain(me))

\* A writer that goes on keeps what is not about the tables.
LEMMA WriterKeeps ==
    ASSUME Phases, Alone, SleepersApart, Sole, Driver, Unborn, Results, NEW t \in Threads, Others(t),
           UNCHANGED <<live, owner>>, Phase(th'[t]), Proceeds(th[t], th'[t])
    PROVE  Phases' /\ Alone' /\ SleepersApart' /\ Sole' /\ Driver' /\ Unborn' /\ Results'
<1>1. Phases' BY PhasesKept
<1>2. Alone' /\ SleepersApart' BY TogetherKept DEF Stays, Proceeds
<1>3. Sole' BY SoleKept DEF Proceeds
<1>4. Driver' BY DriverKept DEF Proceeds
<1>5. Unborn' BY UnbornKept, IdlePhase DEF Proceeds
<1>6. KeptHandles(t) BY DEF KeptHandles
<1>7. Results' BY <1>6, ResultsOf DEF Proceeds
<1> QED BY <1>1, <1>2, <1>3, <1>4, <1>5, <1>7

\* Once the generation has moved, nothing that was looked up before is of it.
LEMMA GenerationMoves ==
    ASSUME TypeOK, Seqlock, Caches, NEW t \in Threads, Others(t), gen' = gen + 1, tls' = tls,
           th'[t].g = th[t].g \/ th'[t].g = 0, th'[t].pc # "fallback"
    PROVE  /\ Caches' /\ Reads'
           /\ \A u \in Threads : /\ th'[u].g <= gen' /\ th'[u].g % 2 = 0
                                 /\ tls'[u].dev.g <= gen' /\ tls'[u].dev.g % 2 = 0
                                 /\ tls'[u].queue.g <= gen' /\ tls'[u].queue.g % 2 = 0
<1>1. gen \in Nat BY DEF TypeOK
<1>2. ASSUME NEW u \in Threads
      PROVE  /\ tls[u].dev.g \in Nat /\ tls[u].queue.g \in Nat /\ th[u].g \in Nat
  <2>1. tls[u].dev \in EntryType /\ tls[u].queue \in EntryType BY DEF TypeOK
  <2> QED BY <2>1, Locals DEF EntryType
<1>3. ASSUME NEW u \in Threads
      PROVE  /\ th'[u].g \in Nat /\ th'[u].g <= gen /\ th'[u].g % 2 = 0
             /\ tls'[u].dev.g \in Nat /\ tls'[u].dev.g <= gen /\ tls'[u].dev.g % 2 = 0
             /\ tls'[u].queue.g \in Nat /\ tls'[u].queue.g <= gen /\ tls'[u].queue.g % 2 = 0
  BY <1>1, <1>2 DEF Seqlock, Others
<1>4. \A u \in Threads : th'[u].g # gen' /\ tls'[u].dev.g # gen' /\ tls'[u].queue.g # gen' BY <1>1, <1>3
<1>5. \A u \in Threads : /\ ~tls'[u].queue.resolved => tls'[u].queue.a = None
                         /\ th'[u].pc = "fallback" => ~tls'[u].queue.resolved
  BY DEF Caches, Others
<1>6. Caches' BY <1>4, <1>5 DEF Caches
<1>7. Reads' BY <1>4 DEF Reads
<1>8. \A u \in Threads : /\ th'[u].g <= gen' /\ th'[u].g % 2 = 0
                         /\ tls'[u].dev.g <= gen' /\ tls'[u].dev.g % 2 = 0
                         /\ tls'[u].queue.g <= gen' /\ tls'[u].queue.g % 2 = 0
  BY <1>1, <1>3
<1> QED BY <1>6, <1>7, <1>8

\* A mutation ends: the memory has become the tables it led to.
LEMMA MutationEndKeeps ==
    ASSUME TypeOK, Control, Lookups, NEW A, Rows(A), NEW t \in Threads, MutationEnd(t)
    PROVE  TypeOK' /\ Control' /\ Lookups' /\ (\E B : Rows(B))'
<1>0. /\ Phases /\ Seqlock /\ Alone /\ SleepersApart /\ Sole /\ Driver /\ Unborn /\ Hands
      /\ Caches /\ Reads /\ Results /\ Tables(A) /\ Settles(A)
  BY DEF Control, Lookups, Rows
<1>1. /\ UNCHANGED <<mem, tls, live, owner, sems, passes>> /\ th[t].pc = "store"
      /\ th[t].todo = << >> /\ lock = t /\ gen' = gen + 1 /\ lock' = None
  BY <1>0 DEF MutationEnd, Seqlock
<1>2. Pending(A, << >>) BY <1>0, <1>1 DEF Settles
<1>3. \A tab \in Tabs : \A i \in Slots[tab], f \in Fields : mem[tab][i][f] = A[tab][i][f]
  <2>1. 1 .. Len(<< >>) = {} OBVIOUS
  <2> QED BY <1>2, <2>1 DEF Pending, PendingOn
<1>4. Tables(mem) BY DEF Tables, TypeOK
<1>5. \A tab \in Tabs : A[tab] = mem[tab]
  <2> SUFFICES ASSUME NEW tab \in Tabs PROVE A[tab] = mem[tab] OBVIOUS
  <2>1. A[tab] \in [Slots[tab] -> RowType] /\ mem[tab] \in [Slots[tab] -> RowType]
    BY <1>0, <1>4 DEF Tables
  <2>2. ASSUME NEW i \in Slots[tab] PROVE A[tab][i] = mem[tab][i]
    <3>1. PICK x \in RowType, y \in RowType : x = A[tab][i] /\ y = mem[tab][i] BY <2>1
    <3>2. x.id = y.id /\ x.a = y.a /\ x.b = y.b BY <1>3, <3>1 DEF Fields
    <3> QED BY <3>1, <3>2 DEF RowType
  <2> QED BY <2>1, <2>2
<1>6. Settles(mem)
  <2>1. t # None BY RegistryAssumption
  <2>2. Pending(mem, << >>)
    <3>1. 1 .. Len(<< >>) = {} OBVIOUS
    <3> QED BY <3>1 DEF Pending, PendingOn
  <2> QED BY <1>1, <2>1, <2>2 DEF Settles
<1>7. Rows(mem) BY <1>4, <1>5, <1>6, SameRows
<1>8. PICK B : B = mem /\ B = mem' BY <1>1
<1>9. /\ Tables(B) /\ Unique(B) /\ DeviceRows(B) /\ QueueRows(B) /\ ChainRows(B)
      /\ Absent(B) /\ NotInHand(B) /\ Owned(B) /\ Sleeper(B)
  BY <1>7, <1>8 DEF Rows
<1>10. PICK me \in ThreadType : me = th[t] BY Locals
<1>11. /\ me.then \in {"idle", "destroy_sem", "driver_destroy"} /\ Phase(me) /\ me.pc = "store"
       /\ me.then = "destroy_sem" => me.op \in {"destroy_device", "destroy_ll"}
       /\ me.then = "driver_destroy" => me.op = "destroy_swapchain"
       /\ me.then # "destroy_sem" => me.sem = None
  <2>1. Phase(me) /\ me.pc = "store" BY <1>0, <1>1, <1>10 DEF Phases
  <2>2. me.then \in {"idle", "destroy_sem", "driver_destroy"} BY DEF ThreadType
  <2>3. me.then # "destroy_sem" => me.sem = None BY <1>0, <1>10, <2>1 DEF Hands
  <2> QED BY <2>1, <2>2, <2>3 DEF Phase
<1>12. PICK r : r = Goto(me, me.then) OBVIOUS
<1>13. /\ r \in ThreadType /\ r.pc = me.then /\ r.sem = me.sem /\ (r.g = me.g \/ r.g = 0)
       /\ \/ r = Idle
          \/ /\ r.dev = me.dev /\ r.op = me.op /\ r.key = me.key /\ r.flags = me.flags
             /\ r.pc \in {"destroy_sem", "driver_destroy"}
  <2>1. CASE me.then = "idle"
    <3>1. r = Idle BY <1>12, <2>1 DEF Goto
    <3>2. Idle.g = 0 BY DEF Idle
    <3> QED BY <1>11, <2>1, <3>1, <3>2, IdleType, IdlePhase
  <2>2. CASE me.then # "idle"
    <3>1. r = [me EXCEPT !.pc = me.then] BY <1>12, <2>2 DEF Goto
    <3> QED BY <1>11, <2>2, <3>1 DEF ThreadType, PCs
  <2> QED BY <2>1, <2>2
<1>14. th'[t] = r /\ Others(t) /\ th' \in [Threads -> ThreadType]
  <2>1. th' = [th EXCEPT ![t] = r] BY <1>10, <1>12 DEF MutationEnd
  <2> QED BY <1>13, <2>1, OneThread
<1>15. Phase(r)
  <2>1. CASE r = Idle BY <2>1, IdlePhase
  <2>2. CASE r # Idle
    BY <1>11, <1>13, <2>2 DEF Phase, Looking, OfHandle, SoleOfChain
  <2> QED BY <2>1, <2>2
<1>16. Proceeds(me, r)
  BY <1>11, <1>13 DEF Proceeds, OfHandle, SoleOfChain
<1>17. Phases' /\ Alone' /\ SleepersApart' /\ Sole' /\ Driver' /\ Unborn' /\ Results'
  BY <1>0, <1>1, <1>10, <1>14, <1>15, <1>16, WriterKeeps
<1>18. /\ Caches' /\ Reads'
       /\ \A u \in Threads : /\ th'[u].g <= gen' /\ th'[u].g % 2 = 0
                             /\ tls'[u].dev.g <= gen' /\ tls'[u].dev.g % 2 = 0
                             /\ tls'[u].queue.g <= gen' /\ tls'[u].queue.g % 2 = 0
  BY <1>0, <1>1, <1>10, <1>11, <1>13, <1>14, GenerationMoves
<1>19. Seqlock'
  <2>1. gen' % 2 = 0
    <3>1. gen \in Nat BY DEF TypeOK
    <3>2. gen % 2 = 1 BY <1>0, <1>1, HeldIsOdd
    <3> QED BY <1>1, <3>1, <3>2
  <2>2. ASSUME NEW u \in Threads PROVE th'[u].pc # "store"
    BY <1>0, <1>1, <1>11, <1>13, <1>14 DEF Seqlock, Others
  <2>3. \A u \in Threads : lock' # u BY <1>1, RegistryAssumption
  <2> QED BY <1>1, <1>18, <2>1, <2>2, <2>3 DEF Seqlock
<1>20. Hands'
  <2>1. me.sem # None => HandsOf(r) BY <1>11, <1>13 DEF HandsOf
  <2> QED BY <1>0, <1>1, <1>10, <1>11, <1>13, <1>14, <2>1, IdlePhase, HandsKept
<1>21. TypeOK'
  <2>1. UNCHANGED Slots BY DEF Slots
  <2>2. gen' \in Nat /\ lock' \in Threads \cup {None} BY <1>1 DEF TypeOK
  <2> QED BY <1>1, <1>14, <2>1, <2>2 DEF TypeOK
<1>22. Tables(B)' /\ Unique(B)' BY <1>9, TablesKept
<1>23. DeviceRows(B)' /\ QueueRows(B)' BY <1>1, <1>9 DEF DeviceRows, QueueRows, Slots
<1>24. Settles(B)' BY <1>1, <1>8, RegistryAssumption DEF Settles
<1>25. ChainRows(B)' BY <1>1, <1>9, <1>14, ChainRowsKept
<1>26. Absent(B)'
  <2>1. Gone(r) => Gone(me) /\ r.dev = me.dev BY <1>11, <1>13, IdlePhase DEF Gone
  <2>2. Gone(r) => \A i \in Slots["dev"] : B["dev"][i].id # r.dev BY <1>9, <1>10, <2>1 DEF Absent
  <2> QED BY <1>9, <1>14, <2>2, AbsentKept
<1>27. Sleeper(B)'
  <2>1. ~Slept(r) BY <1>11, <1>13 DEF Slept
  <2> QED BY <1>9, <1>14, <2>1, SleeperKept
<1>28. NotInHand(B)' /\ Owned(B)' BY <1>1, <1>9, <1>10, <1>13, <1>14, SemRowsKept
<1>29. Rows(B)' BY <1>22, <1>23, <1>24, <1>25, <1>26, <1>27, <1>28 DEF Rows
<1>30. (\E C : Rows(C))' BY <1>29
<1> QED BY <1>17, <1>18, <1>19, <1>20, <1>21, <1>30 DEF Control, Lookups

----------------------------------------------------------------------------
(* The start of a mutation *)

\* The mutation m of thread t returns early, and that is right.
Early(t, m) ==
    /\ m.todo = << >> /\ m.sem = th[t].sem
    /\ \/ m.then = "idle" /\ th[t].sem = None
       \/ m.then = "destroy_sem" /\ th[t].op = "init_ll"
       \/ m.then = "driver_destroy" /\ th[t].op \in {"destroy_device", "destroy_swapchain"}
             /\ th[t].sem = None
    /\ m.then = "driver_destroy" /\ th[t].op = "destroy_device" =>
          \A i \in Slots["dev"] : mem["dev"][i].id # th[t].dev
    /\ th[t].op = "create_swapchain" => \A i \in Slots["chain"] : mem["chain"][i].id # th[t].key

\* A mutation that returns early under the mutex changes no table.
LEMMA EarlyKeeps ==
    ASSUME TypeOK, Control, Lookups, NEW A, Rows(A), NEW t \in Threads, MutationBegin(t),
           NEW m, m = Mutation(th[t]), Early(t, m)
    PROVE  TypeOK' /\ Control' /\ Lookups' /\ Rows(A)'
<1>0. /\ Phases /\ Seqlock /\ Alone /\ SleepersApart /\ Sole /\ Driver /\ Unborn /\ Hands
      /\ Caches /\ Reads /\ Results
      /\ Tables(A) /\ Settles(A) /\ Unique(A) /\ DeviceRows(A) /\ QueueRows(A) /\ ChainRows(A)
      /\ Absent(A) /\ NotInHand(A) /\ Owned(A) /\ Sleeper(A)
  BY DEF Control, Lookups, Rows
<1>1. /\ th[t].pc = "lock" /\ lock = None
      /\ UNCHANGED <<mem, tls, live, owner, sems, passes>>
  BY DEF MutationBegin
<1>2. PICK me \in ThreadType : me = th[t] BY Locals
<1>3. A = mem BY <1>0, <1>1 DEF Settles
<1>4. PICK x : x = [me EXCEPT !.sem = m.sem] OBVIOUS
<1>5. PICK r : r = Goto(x, m.then) OBVIOUS
<1>6. th' = [th EXCEPT ![t] = r] /\ UNCHANGED <<lock, gen>>
  <2>1. m.todo = << >> BY DEF Early
  <2> QED BY <1>2, <1>4, <1>5, <2>1 DEF MutationBegin
<1>7. m.sem = me.sem /\ m.then \in {"idle", "destroy_sem", "driver_destroy"} BY <1>2 DEF Early
<1>8. x = me BY <1>4, <1>7 DEF ThreadType
<1>9. /\ r \in ThreadType /\ r.pc = m.then /\ (r.g = me.g \/ r.g = 0) /\ r.sem = me.sem
      /\ \/ r = Idle
         \/ /\ r.dev = me.dev /\ r.op = me.op /\ r.key = me.key /\ r.flags = me.flags
            /\ \/ r.pc = "destroy_sem" /\ me.op = "init_ll"
               \/ r.pc = "driver_destroy" /\ me.op \in {"destroy_device", "destroy_swapchain"} /\ me.sem = None
  <2>1. CASE m.then = "idle"
    <3>1. r = Idle BY <1>5, <2>1 DEF Goto
    <3>2. Idle.g = 0 BY DEF Idle
    <3>3. me.sem = None BY <1>2, <2>1 DEF Early
    <3> QED BY <2>1, <3>1, <3>2, <3>3, IdleType, IdlePhase
  <2>2. CASE m.then # "idle"
    <3>1. r = [me EXCEPT !.pc = m.then] BY <1>5, <1>8, <2>2 DEF Goto
    <3>2. \/ m.then = "destroy_sem" /\ me.op = "init_ll"
          \/ m.then = "driver_destroy" /\ me.op \in {"destroy_device", "destroy_swapchain"} /\ me.sem = None
      BY <1>2, <2>2 DEF Early
    <3> QED BY <1>7, <2>2, <3>1, <3>2 DEF ThreadType, PCs
  <2> QED BY <2>1, <2>2
<1>10. th'[t] = r /\ Others(t) /\ th' \in [Threads -> ThreadType] BY <1>6, <1>9, OneThread
<1>11. TypeOK'
  <2>1. UNCHANGED Slots BY DEF Slots
  <2> QED BY <1>1, <1>6, <1>10, <2>1 DEF TypeOK
<1>12. Phase(me) /\ me.pc = "lock" BY <1>0, <1>1, <1>2 DEF Phases
<1>13. Phase(r)
  <2>1. CASE r = Idle BY <2>1, IdlePhase
  <2>2. CASE r # Idle BY <1>9, <1>12, <2>2 DEF Phase, Looking, OfHandle, SoleOfChain
  <2> QED BY <2>1, <2>2
<1>14. Proceeds(me, r) BY <1>7, <1>9, <1>12 DEF Proceeds, OfHandle, SoleOfChain
<1>15. Phases' /\ Alone' /\ SleepersApart' /\ Sole' /\ Driver' /\ Unborn' /\ Results'
  BY <1>0, <1>1, <1>2, <1>10, <1>13, <1>14, WriterKeeps
<1>16. Clocks(t) BY <1>0, <1>1, <1>2, <1>9, <1>10, SameClocks
<1>17. r.pc \notin {"store", "fallback", "read_b", "check"} BY <1>7, <1>9
<1>18. Seqlock' BY <1>0, <1>1, <1>6, <1>10, <1>16, <1>17, SeqlockKept DEF Clocks
<1>19. Caches' BY <1>0, <1>1, <1>6, <1>10, <1>17, CachesQuiet
<1>20. Reads' BY <1>0, <1>1, <1>6, <1>10, <1>17, ReadsKept
<1>21. Hands'
  <2>1. me.sem # None => HandsOf(r) /\ r.dev = me.dev BY <1>9, IdlePhase DEF HandsOf
  <2> QED BY <1>0, <1>1, <1>2, <1>9, <1>10, <2>1, HandsKept
<1>22. Tables(A)' /\ Unique(A)' BY <1>0, TablesKept
<1>23. DeviceRows(A)' /\ QueueRows(A)' BY <1>0, <1>1 DEF DeviceRows, QueueRows, Slots
<1>24. Settles(A)' BY <1>1, <1>3, <1>6, RegistryAssumption DEF Settles
<1>25. ChainRows(A)'
  <2> SUFFICES ASSUME NEW i \in Slots["chain"], A["chain"][i].id # None
               PROVE  /\ A["chain"][i].id \in Swapchains /\ A["chain"][i].a \in Devices
                      /\ \/ owner[A["chain"][i].id] = None
                         \/ Creating(A["chain"][i].id)'
                         \/ owner[A["chain"][i].id] = A["chain"][i].a
                               /\ A["chain"][i].b = live[A["chain"][i].a]
    BY <1>1 DEF ChainRows, Slots
  <2>1. /\ A["chain"][i].id \in Swapchains /\ A["chain"][i].a \in Devices
        /\ \/ owner[A["chain"][i].id] = None
           \/ Creating(A["chain"][i].id)
           \/ owner[A["chain"][i].id] = A["chain"][i].a /\ A["chain"][i].b = live[A["chain"][i].a]
    BY <1>0 DEF ChainRows
  <2>2. PICK s : s = A["chain"][i].id OBVIOUS
  <2>3. th[t].op = "create_swapchain" => th[t].key # s BY <1>3, <2>2 DEF Early
  <2>4. Creating(s) => Creating(s)' BY <1>10, <2>3 DEF Creating, Others
  <2> QED BY <2>1, <2>2, <2>4
<1>26. Absent(A)'
  <2>1. Gone(r) => r.dev = me.dev /\ m.then = "driver_destroy" /\ me.op = "destroy_device"
    BY <1>7, <1>9, IdlePhase DEF Gone
  <2>2. Gone(r) => \A i \in Slots["dev"] : A["dev"][i].id # r.dev BY <1>2, <1>3, <2>1 DEF Early
  <2> QED BY <1>0, <1>10, <2>2, AbsentKept
<1>27. Sleeper(A)'
  <2>1. ~Slept(r) BY <1>7, <1>9 DEF Slept
  <2> QED BY <1>0, <1>10, <2>1, SleeperKept
<1>28. NotInHand(A)' /\ Owned(A)' BY <1>0, <1>1, <1>2, <1>9, <1>10, SemRowsKept
<1> QED BY <1>11, <1>15, <1>18, <1>19, <1>20, <1>21, <1>22, <1>23, <1>24, <1>25, <1>26, <1>27, <1>28
        DEF Control, Lookups, Rows

\* The semaphores change hands as they should: what the rows of B hold was
\* there before or was in the hand of t, what goes from a row goes into the hand
\* of t, and t takes something only from its own device and only to destroy it.
Exchange(t, m, B) ==
    /\ \A i \in Slots["dev"] : B["dev"][i].id # None /\ B["dev"][i].b # None =>
          \/ /\ mem["dev"][i].id = B["dev"][i].id /\ mem["dev"][i].b = B["dev"][i].b
             /\ B["dev"][i].b # m.sem
          \/ B["dev"][i].b = th[t].sem /\ m.sem = None
    /\ \A i \in Slots["dev"] : mem["dev"][i].id # None /\ mem["dev"][i].b # None =>
          \/ \E j \in Slots["dev"] : B["dev"][j].id = mem["dev"][i].id /\ B["dev"][j].b = mem["dev"][i].b
          \/ m.sem = mem["dev"][i].b
    /\ th[t].sem # None =>
          \E j \in Slots["dev"] : B["dev"][j].id = th[t].dev /\ B["dev"][j].b = th[t].sem
    /\ m.sem # None =>
          /\ th[t].op \in {"destroy_device", "destroy_ll"} /\ m.then = "destroy_sem"
          /\ \E i \in Slots["dev"] : mem["dev"][i].id = th[t].dev /\ mem["dev"][i].b = m.sem

\* The stores of the mutation m of thread t lead to the tables B, and B is right.
Legal(t, m, B) ==
    /\ m.todo \in Seq(StoreType) /\ m.todo # << >> /\ m.sem \in Words
    /\ m.then = CASE th[t].op \in {"destroy_device", "destroy_ll"} -> "destroy_sem"
                  [] th[t].op = "destroy_swapchain" -> "driver_destroy"
                  [] OTHER -> "idle"
    /\ Pending(B, m.todo) /\ Tables(B) /\ Unique(B) /\ DeviceRows(B) /\ QueueRows(B)
    /\ \A i \in Slots["chain"] : B["chain"][i].id # None =>
          \/ /\ B["chain"][i] = mem["chain"][i]
             /\ th[t].op = "create_swapchain" => B["chain"][i].id # th[t].key
          \/ /\ B["chain"][i].id \in Swapchains /\ B["chain"][i].a \in Devices
             /\ owner[B["chain"][i].id] = B["chain"][i].a /\ B["chain"][i].b = live[B["chain"][i].a]
    /\ \A i \in Slots["dev"] : B["dev"][i].id \in {mem["dev"][i].id, th[t].dev, None}
    /\ th[t].op = "destroy_device" => \A i \in Slots["dev"] : B["dev"][i].id # th[t].dev
    /\ Exchange(t, m, B)

\* What the exchange means for the semaphores.
LEMMA ExchangeKeeps ==
    ASSUME TypeOK, Control, Rows(mem), NEW t \in Threads, th[t].pc = "lock", NEW m, NEW B,
           Legal(t, m, B), NEW r, r.sem = m.sem, r.dev = th[t].dev, r.then = m.then, r.pc = "store",
           th'[t] = r, Others(t), sems' = sems
    PROVE  Hands' /\ NotInHand(B)' /\ Owned(B)' /\ Sleeper(B)'
<1>0. /\ Phases /\ Alone /\ SleepersApart /\ Hands
      /\ DeviceRows(mem) /\ NotInHand(mem) /\ Owned(mem) /\ Sleeper(mem)
  BY DEF Control, Rows
<1>1. PICK me \in ThreadType : me = th[t] BY Locals
<1>2. /\ \A i \in Slots["dev"] : B["dev"][i].id # None /\ B["dev"][i].b # None =>
            \/ /\ mem["dev"][i].id = B["dev"][i].id /\ mem["dev"][i].b = B["dev"][i].b
               /\ B["dev"][i].b # m.sem
            \/ B["dev"][i].b = me.sem /\ m.sem = None
      /\ \A i \in Slots["dev"] : mem["dev"][i].id # None /\ mem["dev"][i].b # None =>
            \/ \E j \in Slots["dev"] : B["dev"][j].id = mem["dev"][i].id /\ B["dev"][j].b = mem["dev"][i].b
            \/ m.sem = mem["dev"][i].b
      /\ me.sem # None =>
            \E j \in Slots["dev"] : B["dev"][j].id = me.dev /\ B["dev"][j].b = me.sem
      /\ m.sem # None =>
            /\ me.op \in {"destroy_device", "destroy_ll"} /\ m.then = "destroy_sem"
            /\ \E i \in Slots["dev"] : mem["dev"][i].id = me.dev /\ mem["dev"][i].b = m.sem
  BY <1>1 DEF Legal, Exchange
<1>3. me.dev \in Devices /\ me.dev # None BY <1>0, <1>1, RegistryAssumption DEF Phases, Phase
<1>4. m.sem # None =>
         /\ m.sem \in 1 .. Len(sems) /\ sems[m.sem] = me.dev
         /\ \A u \in Threads : th[u].sem # m.sem
  BY <1>0, <1>2, <1>3 DEF DeviceRows, NotInHand
<1>5. Hands'
  <2>1. ASSUME NEW u \in Threads, th'[u].sem # None
        PROVE  /\ th'[u].sem \in 1 .. Len(sems) /\ sems[th'[u].sem] = th'[u].dev
               /\ \/ th'[u].pc = "lock" /\ th'[u].op = "init_ll"
                  \/ th'[u].pc = "store" /\ th'[u].then = "destroy_sem"
                  \/ th'[u].pc = "destroy_sem"
    <3>1. CASE u = t BY <1>1, <1>2, <1>4, <2>1, <3>1
    <3>2. CASE u # t BY <1>0, <2>1, <3>2 DEF Hands, Others
    <3> QED BY <3>1, <3>2
  <2>2. ASSUME NEW x \in Threads, NEW y \in Threads, x # y, th'[x].sem # None
        PROVE  th'[x].sem # th'[y].sem
    <3>1. CASE x = t BY <1>4, <2>2, <3>1 DEF Others
    <3>2. CASE y = t BY <1>4, <2>2, <3>2 DEF Others
    <3>3. CASE x # t /\ y # t BY <1>0, <2>2, <3>3 DEF Hands, Others
    <3> QED BY <3>1, <3>2, <3>3
  <2> QED BY <2>1, <2>2 DEF Hands
<1>6. NotInHand(B)'
  <2> SUFFICES ASSUME NEW u \in Threads, th'[u].sem # None, NEW i \in Slots["dev"], B["dev"][i].id # None
               PROVE  B["dev"][i].b # th'[u].sem
    BY DEF NotInHand, Slots
  <2>1. CASE u = t BY <1>2, <2>1
  <2>2. CASE u # t
    <3>1. th'[u] = th[u] BY <2>2 DEF Others
    <3>2. th[u].sem # me.sem BY <1>0, <1>1, <2>2, <3>1 DEF Hands
    <3>3. mem["dev"][i].id # None => mem["dev"][i].b # th[u].sem BY <1>0, <3>1 DEF NotInHand
    <3> QED BY <1>2, <3>1, <3>2, <3>3
  <2> QED BY <2>1, <2>2
<1>7. Owned(B)'
  <2> SUFFICES ASSUME NEW s \in 1 .. Len(sems), sems[s] # "destroyed"
               PROVE  \/ \E i \in Slots["dev"] : B["dev"][i].id = sems[s] /\ B["dev"][i].b = s
                      \/ \E u \in Threads : th'[u].sem = s
    BY DEF Owned, Slots
  <2>1. s # None /\ sems[s] # None
    <3>1. None \notin Nat /\ None \notin Devices BY RegistryAssumption
    <3>2. sems[s] \in Devices \cup {"destroyed"} BY DEF TypeOK
    <3> QED BY <3>1, <3>2
  <2>2. \/ \E i \in Slots["dev"] : mem["dev"][i].id = sems[s] /\ mem["dev"][i].b = s
        \/ \E u \in Threads : th[u].sem = s
    BY <1>0 DEF Owned
  <2>3. ASSUME NEW i \in Slots["dev"], mem["dev"][i].id = sems[s], mem["dev"][i].b = s
        PROVE  \/ \E j \in Slots["dev"] : B["dev"][j].id = sems[s] /\ B["dev"][j].b = s
               \/ \E u \in Threads : th'[u].sem = s
    <3>1. \/ \E j \in Slots["dev"] : B["dev"][j].id = sems[s] /\ B["dev"][j].b = s
          \/ m.sem = s
      BY <1>2, <2>1, <2>3
    <3> QED BY <3>1
  <2>4. ASSUME NEW u \in Threads, th[u].sem = s
        PROVE  \/ \E j \in Slots["dev"] : B["dev"][j].id = sems[s] /\ B["dev"][j].b = s
               \/ \E w \in Threads : th'[w].sem = s
    <3>1. CASE u = t
      <4>1. me.sem = s /\ sems[s] = me.dev BY <1>0, <1>1, <2>1, <2>4, <3>1 DEF Hands
      <4> QED BY <1>2, <2>1, <4>1
    <3>2. CASE u # t BY <2>4, <3>2 DEF Others
    <3> QED BY <3>1, <3>2
  <2> QED BY <2>2, <2>3, <2>4
<1>8. Sleeper(B)'
  <2> SUFFICES ASSUME NEW u \in Threads, Slept(th'[u])
               PROVE  \E j \in Slots["dev"] : B["dev"][j].id = th'[u].dev /\ B["dev"][j].b = th'[u].b
    BY DEF Sleeper, Slept, Slots
  <2>1. u # t /\ th'[u] = th[u] /\ th[u].op = "sleep" /\ th[u].b # None BY DEF Others, Slept
  <2>2. PICK i \in Slots["dev"] : mem["dev"][i].id = th[u].dev /\ mem["dev"][i].b = th[u].b
    BY <1>0, <2>1 DEF Sleeper
  <2>3. th[u].dev # None BY <1>0, <2>1, BusyDevice
  <2>4. ASSUME m.sem = th[u].b PROVE FALSE
    <3>1. me.op \in {"destroy_device", "destroy_ll"} /\ sems[m.sem] = me.dev BY <1>2, <1>4, <2>1, <2>4
    <3>2. sems[m.sem] = th[u].dev BY <1>0, <2>1, <2>2, <2>3, <2>4 DEF DeviceRows
    <3> QED BY <1>0, <1>1, <2>1, <3>1, <3>2 DEF Alone, SleepersApart
  <2> QED BY <1>2, <2>1, <2>2, <2>3, <2>4
<1> QED BY <1>5, <1>6, <1>7, <1>8

\* A mutation that starts leads to right tables from then on.
LEMMA LegalKeeps ==
    ASSUME TypeOK, Control, Lookups, Rows(mem), NEW t \in Threads, MutationBegin(t),
           NEW m, m = Mutation(th[t]), NEW B, Legal(t, m, B)
    PROVE  TypeOK' /\ Control' /\ Lookups' /\ Rows(B)'
<1>0. /\ Phases /\ Seqlock /\ Alone /\ SleepersApart /\ Sole /\ Driver /\ Unborn /\ Hands
      /\ Caches /\ Reads /\ Results /\ ChainRows(mem) /\ Absent(mem)
  BY DEF Control, Lookups, Rows
<1>1. /\ th[t].pc = "lock" /\ lock = None
      /\ UNCHANGED <<mem, tls, live, owner, sems, passes>>
  BY DEF MutationBegin
<1>2. PICK me \in ThreadType : me = th[t] BY Locals
<1>3. PICK r : r = [me EXCEPT !.pc = "store", !.todo = m.todo, !.then = m.then, !.sem = m.sem] OBVIOUS
<1>4. th' = [th EXCEPT ![t] = r] /\ gen' = gen + 1 /\ lock' = t
  <2>1. m.todo # << >> BY DEF Legal
  <2> QED BY <1>2, <1>3, <2>1 DEF MutationBegin
<1>5. /\ m.todo \in Seq(StoreType) /\ m.sem \in Words
      /\ m.then \in {"idle", "destroy_sem", "driver_destroy"}
  BY DEF Legal
<1>6. /\ r \in ThreadType /\ r.pc = "store" /\ r.todo = m.todo /\ r.then = m.then /\ r.sem = m.sem
      /\ r.op = me.op /\ r.dev = me.dev /\ r.key = me.key /\ r.flags = me.flags /\ r.g = me.g
  BY <1>3, <1>5 DEF ThreadType, PCs
<1>7. th'[t] = r /\ Others(t) /\ th' \in [Threads -> ThreadType] BY <1>4, <1>6, OneThread
<1>8. TypeOK'
  <2>1. UNCHANGED Slots BY DEF Slots
  <2>2. gen' \in Nat /\ lock' \in Threads \cup {None} BY <1>4 DEF TypeOK
  <2> QED BY <1>1, <1>7, <2>1, <2>2 DEF TypeOK
<1>9. Phase(me) /\ me.pc = "lock" BY <1>0, <1>1, <1>2 DEF Phases
<1>10. Phase(r)
  <2>1. r.then = CASE r.op \in {"destroy_device", "destroy_ll"} -> "destroy_sem"
                   [] r.op = "destroy_swapchain" -> "driver_destroy"
                   [] OTHER -> "idle"
    BY <1>2, <1>6 DEF Legal
  <2> QED BY <1>6, <1>9, <2>1 DEF Phase, Looking, OfHandle, SoleOfChain
<1>11. Proceeds(me, r) BY <1>6, <1>9 DEF Proceeds, OfHandle, SoleOfChain
<1>12. Phases' /\ Alone' /\ SleepersApart' /\ Sole' /\ Driver' /\ Unborn' /\ Results'
  BY <1>0, <1>1, <1>2, <1>7, <1>10, <1>11, WriterKeeps
<1>13. /\ Caches' /\ Reads'
       /\ \A u \in Threads : /\ th'[u].g <= gen' /\ th'[u].g % 2 = 0
                             /\ tls'[u].dev.g <= gen' /\ tls'[u].dev.g % 2 = 0
                             /\ tls'[u].queue.g <= gen' /\ tls'[u].queue.g % 2 = 0
  BY <1>0, <1>1, <1>2, <1>4, <1>6, <1>7, GenerationMoves
<1>14. Seqlock'
  <2>1. gen' % 2 = 1
    <3>1. gen \in Nat BY DEF TypeOK
    <3>2. gen % 2 # 1 BY <1>0, <1>1 DEF Seqlock
    <3> QED BY <1>4, <3>1, <3>2
  <2>2. ASSUME NEW u \in Threads PROVE th'[u].pc = "store" <=> lock' = u
    <3>1. lock # u BY <1>1, RegistryAssumption
    <3>2. th[u].pc # "store" BY <1>0, <3>1 DEF Seqlock
    <3> QED BY <1>4, <1>6, <1>7, <3>2 DEF Others
  <2>3. lock' # None BY <1>4, RegistryAssumption
  <2> QED BY <1>13, <2>1, <2>2, <2>3 DEF Seqlock
<1>15. Hands' /\ NotInHand(B)' /\ Owned(B)' /\ Sleeper(B)'
  BY <1>1, <1>2, <1>6, <1>7, ExchangeKeeps
<1>16. Tables(B) /\ Unique(B) /\ DeviceRows(B) /\ QueueRows(B) /\ Pending(B, m.todo) BY DEF Legal
<1>17. Tables(B)' /\ Unique(B)' BY <1>16, TablesKept
<1>18. DeviceRows(B)' /\ QueueRows(B)' BY <1>1, <1>16 DEF DeviceRows, QueueRows, Slots
<1>19. Settles(B)'
  <2>1. lock' # None BY <1>4, RegistryAssumption
  <2>2. PICK T : T = m.todo OBVIOUS
  <2>3. Pending(B, T) BY <1>16, <2>2
  <2>4. Pending(B, T)' BY <1>1, <2>3 DEF Pending, PendingOn, Hits, Slots
  <2>5. th'[t].todo = T BY <1>6, <1>7, <2>2
  <2>6. Pending(B, th[t].todo)' BY <2>4, <2>5 DEF Pending, PendingOn
  <2> QED BY <1>4, <2>1, <2>6 DEF Settles
<1>20. ChainRows(B)'
  <2> SUFFICES ASSUME NEW i \in Slots["chain"], B["chain"][i].id # None
               PROVE  /\ B["chain"][i].id \in Swapchains /\ B["chain"][i].a \in Devices
                      /\ \/ owner[B["chain"][i].id] = None
                         \/ Creating(B["chain"][i].id)'
                         \/ owner[B["chain"][i].id] = B["chain"][i].a
                               /\ B["chain"][i].b = live[B["chain"][i].a]
    BY <1>1 DEF ChainRows, Slots
  <2>1. PICK row : row = B["chain"][i] OBVIOUS
  <2>2. \/ row = mem["chain"][i] /\ (th[t].op = "create_swapchain" => row.id # th[t].key)
        \/ row.id \in Swapchains /\ row.a \in Devices /\ owner[row.id] = row.a /\ row.b = live[row.a]
    BY <2>1 DEF Legal
  <2>3. CASE row = mem["chain"][i] /\ (th[t].op = "create_swapchain" => row.id # th[t].key)
    <3>1. /\ row.id \in Swapchains /\ row.a \in Devices
          /\ \/ owner[row.id] = None
             \/ Creating(row.id)
             \/ owner[row.id] = row.a /\ row.b = live[row.a]
      BY <1>0, <2>1, <2>3 DEF ChainRows
    <3>2. PICK s : s = row.id OBVIOUS
    <3>3. Creating(s) => Creating(s)' BY <1>7, <2>3, <3>2 DEF Creating, Others
    <3> QED BY <2>1, <3>1, <3>2, <3>3
  <2> QED BY <2>1, <2>2, <2>3
<1>21. Absent(B)'
  <2> SUFFICES ASSUME NEW u \in Threads, Gone(th'[u]), NEW i \in Slots["dev"]
               PROVE  B["dev"][i].id # th'[u].dev
    BY DEF Absent, Gone, Slots
  <2>1. CASE u = t
    <3>1. me.op = "destroy_device" BY <1>6, <1>7, <2>1 DEF Gone
    <3> QED BY <1>2, <1>6, <1>7, <2>1, <3>1 DEF Legal
  <2>2. CASE u # t
    <3>1. th'[u] = th[u] /\ Gone(th[u]) BY <1>7, <2>2 DEF Others
    <3>2. th[u].op \in {"create_device", "destroy_device"} BY <3>1 DEF Gone
    <3>3. me.dev # th[u].dev BY <1>0, <1>2, <2>2, <3>2 DEF Alone
    <3>4. th[u].dev # None BY <1>0, <3>2, BusyDevice
    <3>5. mem["dev"][i].id # th[u].dev BY <1>0, <3>1 DEF Absent
    <3>6. B["dev"][i].id \in {mem["dev"][i].id, me.dev, None} BY <1>2 DEF Legal
    <3> QED BY <3>1, <3>3, <3>4, <3>5, <3>6
  <2> QED BY <2>1, <2>2
<1> QED BY <1>8, <1>12, <1>13, <1>14, <1>15, <1>17, <1>18, <1>19, <1>20, <1>21 DEF Control, Lookups, Rows

\* The slot that a lookup under the mutex finds, and the one a registration takes.
LEMMA SlotFound ==
    ASSUME NEW tab, NEW key, SlotOf(tab, key) # {}, NEW i, i = CHOOSE j \in SlotOf(tab, key) : TRUE
    PROVE  i \in Slots[tab] /\ mem[tab][i].id = key
<1>1. i \in SlotOf(tab, key) OBVIOUS
<1> QED BY <1>1 DEF SlotOf

\* A registration writes to the row of its handle, or to a free one when it has none.
LEMMA TargetFound ==
    ASSUME NEW tab, NEW key, Target(tab, key) # {}, NEW i, i = CHOOSE j \in Target(tab, key) : TRUE
    PROVE  /\ i \in Slots[tab]
           /\ mem[tab][i].id = key \/ (mem[tab][i].id = None /\ \A j \in Slots[tab] : mem[tab][j].id # key)
<1>1. i \in Target(tab, key) OBVIOUS
<1>2. CASE SlotOf(tab, key) # {}
  <2>1. i \in SlotOf(tab, key) BY <1>1, <1>2 DEF Target
  <2> QED BY <2>1 DEF SlotOf
<1>3. CASE SlotOf(tab, key) = {}
  <2>1. i \in SlotOf(tab, None) BY <1>1, <1>3 DEF Target
  <2> QED BY <1>3, <2>1 DEF SlotOf
<1> QED BY <1>2, <1>3

\* Without a slot to write to, the handle has no row.
LEMMA NoTarget ==
    ASSUME NEW tab, NEW key, Target(tab, key) = {} PROVE \A j \in Slots[tab] : mem[tab][j].id # key
<1>1. SlotOf(tab, key) = {} BY DEF Target
<1> QED BY <1>1 DEF SlotOf

\* Three tables make the memory.
LEMMA Build ==
    ASSUME NEW D \in [Slots["dev"] -> RowType], NEW Q \in [Slots["queue"] -> RowType],
           NEW C \in [Slots["chain"] -> RowType]
    PROVE  \E B : B["dev"] = D /\ B["queue"] = Q /\ B["chain"] = C /\ Tables(B)
<1> DEFINE B == [tab \in Tabs |-> IF tab = "dev" THEN D ELSE IF tab = "queue" THEN Q ELSE C]
<1>1. B["dev"] = D /\ B["queue"] = Q /\ B["chain"] = C /\ DOMAIN B = Tabs BY DEF Tabs
<1> HIDE DEF B
<1>2. Tables(B) BY <1>1 DEF Tables, Tabs
<1> QED BY <1>1, <1>2

\* The tables of the memory.
LEMMA MemTables ==
    ASSUME Rows(mem)
    PROVE  /\ mem["dev"] \in [Slots["dev"] -> RowType] /\ mem["queue"] \in [Slots["queue"] -> RowType]
           /\ mem["chain"] \in [Slots["chain"] -> RowType]
           /\ Tables(mem) /\ Unique(mem) /\ DeviceRows(mem) /\ QueueRows(mem) /\ ChainRows(mem)
           /\ Absent(mem)
BY DEF Rows, Tables, Tabs

\* Every handle has at most one row in a table.
UniqueIn(S, X) == \A i, j \in S : X[i].id # None /\ X[i].id = X[j].id => i = j

\* Unique, table by table.
LEMMA UniqueTables ==
    ASSUME NEW B
    PROVE  Unique(B) <=> /\ UniqueIn(Slots["dev"], B["dev"]) /\ UniqueIn(Slots["queue"], B["queue"])
                         /\ UniqueIn(Slots["chain"], B["chain"])
BY DEF Unique, UniqueIn, Tabs

\* A row is written for a handle that has no other.
LEMMA UniqueInsert ==
    ASSUME NEW S, NEW X, NEW Y, NEW i \in S, NEW key, UniqueIn(S, X), Y[i].id = key,
           \A k \in S : k # i => Y[k] = X[k],
           X[i].id = key \/ \A j \in S : X[j].id # key, key # None
    PROVE  UniqueIn(S, Y) /\ \A k \in S : k # i => Y[k].id # key
<1>1. \A k \in S : k # i => X[k].id # key BY DEF UniqueIn
<1> QED BY <1>1 DEF UniqueIn

\* No semaphore changes hands.
LEMMA NoExchange ==
    ASSUME NEW t \in Threads, th[t].sem = None, NEW m, m.sem = None, NEW B,
           \A i \in Slots["dev"] :
              \/ B["dev"][i].id = mem["dev"][i].id /\ B["dev"][i].b = mem["dev"][i].b
              \/ mem["dev"][i].id = None /\ B["dev"][i].b = None
    PROVE  Exchange(t, m, B)
BY DEF Exchange

\* A handler that waits for the mutex has a semaphore only to install it.
LEMMA Waiting ==
    ASSUME TypeOK, Control, NEW t \in Threads, th[t].pc = "lock"
    PROVE  /\ th[t].op \in Mutators /\ th[t].dev \in Devices /\ th[t].dev # None
           /\ th[t].op # "init_ll" => th[t].sem = None
           /\ th[t].op = "get_queue" => th[t].key \in Queues /\ owner[th[t].key] = th[t].dev
           /\ th[t].op \in {"create_swapchain", "destroy_swapchain"} => th[t].key \in Swapchains
           /\ th[t].op = "create_swapchain" =>
                 owner[th[t].key] = th[t].dev /\ th[t].flags = live[th[t].dev]
<1>0. Phases /\ Driver /\ Hands BY DEF Control
<1>1. Phase(th[t]) BY <1>0 DEF Phases
<1>2. th[t].op \in Mutators /\ th[t].dev \in Devices BY <1>1 DEF Phase
<1>3. th[t].dev # None BY <1>2, RegistryAssumption
<1>4. th[t].op # "init_ll" => th[t].sem = None BY <1>0 DEF Hands
<1>5. /\ th[t].op = "get_queue" => th[t].key \in Queues
      /\ th[t].op \in {"create_swapchain", "destroy_swapchain"} => th[t].key \in Swapchains
  BY <1>1 DEF Phase
<1>6. /\ th[t].op = "get_queue" => OfHandle(th[t])
      /\ th[t].op = "create_swapchain" => OfHandle(th[t]) /\ SoleOfChain(th[t])
  BY DEF OfHandle, SoleOfChain
<1> QED BY <1>0, <1>2, <1>3, <1>4, <1>5, <1>6 DEF Driver

\* register_queue
LEMMA RegisterQueueSound ==
    ASSUME TypeOK, Control, Rows(mem), NEW t \in Threads, th[t].pc = "lock", th[t].op = "get_queue",
           NEW m, m = register_queue(th[t])
    PROVE  Early(t, m) \/ \E B : Legal(t, m, B)
<1>1. PICK me \in ThreadType : me = th[t] BY Locals
<1>2. /\ me.key \in Queues /\ owner[me.key] = me.dev /\ me.dev \in Devices /\ me.sem = None
      /\ me.op = "get_queue" /\ me.dev # None /\ me.key # None
  BY <1>1, Waiting, RegistryAssumption
<1>3. /\ mem["dev"] \in [Slots["dev"] -> RowType] /\ mem["queue"] \in [Slots["queue"] -> RowType]
      /\ mem["chain"] \in [Slots["chain"] -> RowType]
      /\ Tables(mem) /\ Unique(mem) /\ DeviceRows(mem) /\ QueueRows(mem)
  BY MemTables
<1>4. CASE SlotOf("dev", me.dev) = {} \/ Target("queue", me.key) = {}
  <2>1. m = NoMutation("idle") BY <1>1, <1>4 DEF register_queue
  <2> QED BY <1>1, <1>2, <2>1 DEF Early, NoMutation
<1>5. CASE SlotOf("dev", me.dev) # {} /\ Target("queue", me.key) # {}
  <2>1. PICK d : d = CHOOSE j \in SlotOf("dev", me.dev) : TRUE OBVIOUS
  <2>2. PICK i : i = CHOOSE j \in Target("queue", me.key) : TRUE OBVIOUS
  <2>3. m = [todo |-> Publish("queue", i, me.key, me.dev, mem["dev"][d].a), then |-> "idle", sem |-> None]
    BY <1>1, <1>5, <2>1, <2>2 DEF register_queue
  <2>4. d \in Slots["dev"] /\ mem["dev"][d].id = me.dev BY <1>5, <2>1, SlotFound
  <2>5. /\ i \in Slots["queue"]
        /\ \/ mem["queue"][i].id = me.key
           \/ mem["queue"][i].id = None /\ \A j \in Slots["queue"] : mem["queue"][j].id # me.key
    BY <1>5, <2>2, TargetFound
  <2>6. mem["dev"][d].a \in Words /\ me.key \in Words /\ me.dev \in Words
    <3>1. mem["dev"][d] \in RowType BY <1>3, <2>4
    <3> QED BY <1>2, <3>1, WordKinds DEF RowType
  <2>7. PICK row \in RowType : row.id = me.key /\ row.a = me.dev /\ row.b = mem["dev"][d].a
    <3>1. [id |-> me.key, a |-> me.dev, b |-> mem["dev"][d].a] \in RowType BY <2>6 DEF RowType
    <3> QED BY <3>1
  <2>8. PICK Q \in [Slots["queue"] -> RowType] :
           Q[i] = row /\ \A k \in Slots["queue"] : k # i => Q[k] = mem["queue"][k]
    <3>1. [mem["queue"] EXCEPT ![i] = row] \in [Slots["queue"] -> RowType] BY <1>3, <2>5
    <3> QED BY <1>3, <2>5, <3>1
  <2>9. PICK B : B["dev"] = mem["dev"] /\ B["queue"] = Q /\ B["chain"] = mem["chain"] /\ Tables(B)
    BY <1>3, Build
  <2>10. PendingOn(B, m.todo, {"queue"}) /\ m.todo \in Seq(StoreType) /\ m.todo # << >>
    <3>0. PICK key \in Words, a \in Words, b \in Words :
             key = me.key /\ a = me.dev /\ b = mem["dev"][d].a
      BY <2>6
    <3>1. PICK T : T = Publish("queue", i, key, a, b) OBVIOUS
    <3>2. /\ "queue" \in Tabs /\ ("queue" = "dev" => b = None)
          /\ i \in Slots["queue"] /\ key \in Words /\ a \in Words /\ b \in Words
      BY <2>5 DEF Tabs
    <3>3. /\ B["queue"][i].id = key /\ B["queue"][i].a = a /\ B["queue"][i].b = b
          /\ \A k \in Slots["queue"] : k # i => B["queue"][k] = mem["queue"][k]
      BY <2>7, <2>8, <2>9, <3>0
    <3>4. Published(B, "queue", i, key, a, b) BY <3>3, Zenon DEF Published
    <3>5. PendingOn(B, T, {"queue"}) /\ T \in Seq(StoreType) /\ T # << >>
      BY <3>1, <3>2, <3>4, PublishPends, Zenon
    <3> QED BY <2>3, <3>0, <3>1, <3>5
  <2>11. Pending(B, m.todo)
    <3>1. \A tab \in {"dev", "chain"} : B[tab] = mem[tab] BY <2>9
    <3>2. {"queue"} \cup {"dev", "chain"} = Tabs BY DEF Tabs
    <3>3. PendingOn(B, m.todo, {"queue"} \cup {"dev", "chain"}) BY <2>10, <3>1, PendingMore
    <3> QED BY <3>2, <3>3 DEF Pending
  <2>12. Unique(B)
    <3>1. UniqueIn(Slots["queue"], Q) BY <1>2, <1>3, <2>5, <2>7, <2>8, UniqueTables, UniqueInsert, SMTT(30)
    <3> QED BY <1>3, <2>9, <3>1, UniqueTables
  <2>13. DeviceRows(B) BY <1>3, <2>9 DEF DeviceRows
  <2>14. QueueRows(B)
    <3> SUFFICES ASSUME NEW k \in Slots["queue"], Q[k].id # None
                 PROVE  /\ Q[k].id \in Queues /\ Q[k].a \in Devices /\ owner[Q[k].id] = Q[k].a
                        /\ \E j \in Slots["dev"] : mem["dev"][j].id = Q[k].a /\ mem["dev"][j].a = Q[k].b
      BY <2>9 DEF QueueRows
    <3>1. CASE k = i BY <1>2, <2>4, <2>7, <2>8, <3>1
    <3>2. CASE k # i
      <4>1. Q[k] = mem["queue"][k] BY <2>8, <3>2
      <4> QED BY <1>3, <4>1 DEF QueueRows
    <3> QED BY <3>1, <3>2
  <2>15. m.sem = None /\ m.then = "idle" BY <2>3
  <2>16. Exchange(t, m, B) BY <1>1, <1>2, <2>9, <2>15, NoExchange
  <2>17. Legal(t, m, B)
    BY <1>1, <1>2, <2>9, <2>10, <2>11, <2>12, <2>13, <2>14, <2>15, <2>16, WordKinds DEF Legal
  <2> QED BY <2>17
<1> QED BY <1>4, <1>5

\* register_swapchain
LEMMA RegisterSwapchainSound ==
    ASSUME TypeOK, Control, Rows(mem), NEW t \in Threads, th[t].pc = "lock", th[t].op = "create_swapchain",
           NEW m, m = register_swapchain(th[t])
    PROVE  Early(t, m) \/ \E B : Legal(t, m, B)
<1>1. PICK me \in ThreadType : me = th[t] BY Locals
<1>2. /\ me.key \in Swapchains /\ owner[me.key] = me.dev /\ me.dev \in Devices /\ me.sem = None
      /\ me.op = "create_swapchain" /\ me.dev # None /\ me.key # None /\ me.flags = live[me.dev]
  BY <1>1, Waiting, RegistryAssumption
<1>3. /\ mem["dev"] \in [Slots["dev"] -> RowType] /\ mem["queue"] \in [Slots["queue"] -> RowType]
      /\ mem["chain"] \in [Slots["chain"] -> RowType]
      /\ Tables(mem) /\ Unique(mem) /\ DeviceRows(mem) /\ QueueRows(mem)
  BY MemTables
<1>4. CASE Target("chain", me.key) = {}
  <2>1. m = NoMutation("idle") BY <1>1, <1>4 DEF register_swapchain
  <2>2. \A i \in Slots["chain"] : mem["chain"][i].id # me.key BY <1>4, NoTarget
  <2> QED BY <1>1, <1>2, <2>1, <2>2 DEF Early, NoMutation
<1>5. CASE Target("chain", me.key) # {}
  <2>2. PICK i : i = CHOOSE j \in Target("chain", me.key) : TRUE OBVIOUS
  <2>3. m = [todo |-> Publish("chain", i, me.key, me.dev, me.flags), then |-> "idle", sem |-> None]
    BY <1>1, <1>5, <2>2 DEF register_swapchain
  <2>5. /\ i \in Slots["chain"]
        /\ \/ mem["chain"][i].id = me.key
           \/ mem["chain"][i].id = None /\ \A j \in Slots["chain"] : mem["chain"][j].id # me.key
    BY <1>5, <2>2, TargetFound
  <2>6. PICK key \in Words, a \in Words, b \in Words : key = me.key /\ a = me.dev /\ b = me.flags
    BY <1>2, WordKinds DEF ThreadType
  <2>7. PICK row \in RowType : row.id = key /\ row.a = a /\ row.b = b
    <3>1. [id |-> key, a |-> a, b |-> b] \in RowType BY DEF RowType
    <3> QED BY <3>1
  <2>8. PICK C \in [Slots["chain"] -> RowType] :
           C[i] = row /\ \A k \in Slots["chain"] : k # i => C[k] = mem["chain"][k]
    <3>1. [mem["chain"] EXCEPT ![i] = row] \in [Slots["chain"] -> RowType] BY <1>3, <2>5
    <3> QED BY <1>3, <2>5, <3>1
  <2>9. PICK B : B["dev"] = mem["dev"] /\ B["queue"] = mem["queue"] /\ B["chain"] = C /\ Tables(B)
    BY <1>3, Build
  <2>10. PendingOn(B, m.todo, {"chain"}) /\ m.todo \in Seq(StoreType) /\ m.todo # << >>
    <3>1. PICK T : T = Publish("chain", i, key, a, b) OBVIOUS
    <3>2. /\ "chain" \in Tabs /\ ("chain" = "dev" => b = None)
          /\ i \in Slots["chain"] /\ key \in Words /\ a \in Words /\ b \in Words
      BY <2>5 DEF Tabs
    <3>3. /\ B["chain"][i].id = key /\ B["chain"][i].a = a /\ B["chain"][i].b = b
          /\ \A k \in Slots["chain"] : k # i => B["chain"][k] = mem["chain"][k]
      BY <2>7, <2>8, <2>9
    <3>4. Published(B, "chain", i, key, a, b) BY <3>3, Zenon DEF Published
    <3>5. PendingOn(B, T, {"chain"}) /\ T \in Seq(StoreType) /\ T # << >>
      BY <3>1, <3>2, <3>4, PublishPends, Zenon
    <3> QED BY <2>3, <2>6, <3>1, <3>5
  <2>11. Pending(B, m.todo)
    <3>1. \A tab \in {"dev", "queue"} : B[tab] = mem[tab] BY <2>9
    <3>2. {"chain"} \cup {"dev", "queue"} = Tabs BY DEF Tabs
    <3>3. PendingOn(B, m.todo, {"chain"} \cup {"dev", "queue"}) BY <2>10, <3>1, PendingMore
    <3> QED BY <3>2, <3>3 DEF Pending
  <2>12. Unique(B) /\ \A k \in Slots["chain"] : k # i => C[k].id # me.key
    <3>0. UniqueIn(Slots["chain"], mem["chain"]) BY <1>3, UniqueTables
    <3>1. UniqueIn(Slots["chain"], C) /\ \A k \in Slots["chain"] : k # i => C[k].id # key
      BY <1>2, <2>5, <2>6, <2>7, <2>8, <3>0, UniqueInsert, SMTT(30)
    <3> QED BY <1>3, <2>6, <2>9, <3>1, UniqueTables
  <2>13. DeviceRows(B) /\ QueueRows(B) BY <1>3, <2>9 DEF DeviceRows, QueueRows
  <2>14. \A k \in Slots["chain"] : B["chain"][k].id # None =>
            \/ B["chain"][k] = mem["chain"][k] /\ B["chain"][k].id # me.key
            \/ /\ B["chain"][k].id \in Swapchains /\ B["chain"][k].a \in Devices
               /\ owner[B["chain"][k].id] = B["chain"][k].a /\ B["chain"][k].b = live[B["chain"][k].a]
    <3> SUFFICES ASSUME NEW k \in Slots["chain"], C[k].id # None
                 PROVE  \/ C[k] = mem["chain"][k] /\ C[k].id # me.key
                        \/ /\ C[k].id \in Swapchains /\ C[k].a \in Devices
                           /\ owner[C[k].id] = C[k].a /\ C[k].b = live[C[k].a]
      BY <2>9
    <3>1. CASE k = i BY <1>2, <2>6, <2>7, <2>8, <3>1
    <3>2. CASE k # i BY <2>8, <2>12, <3>2
    <3> QED BY <3>1, <3>2
  <2>15. m.sem = None /\ m.then = "idle" BY <2>3
  <2>16. Exchange(t, m, B) BY <1>1, <1>2, <2>9, <2>15, NoExchange
  <2>17. Legal(t, m, B)
    BY <1>1, <1>2, <2>9, <2>10, <2>11, <2>12, <2>13, <2>14, <2>15, <2>16, WordKinds DEF Legal
  <2> QED BY <2>17
<1> QED BY <1>4, <1>5

\* Wiping a row keeps handles unique.
LEMMA UniqueErase ==
    ASSUME NEW S, NEW X, NEW Y, UniqueIn(S, X), \A k \in S : Y[k].id # None => Y[k].id = X[k].id
    PROVE  UniqueIn(S, Y)
BY DEF UniqueIn

\* The empty row.
LEMMA EmptyRow == Empty \in RowType /\ Empty.id = None /\ Empty.a = None /\ Empty.b = None
BY WordKinds DEF Empty, RowType

\* unregister_swapchain
LEMMA UnregisterSwapchainSound ==
    ASSUME TypeOK, Control, Rows(mem), NEW t \in Threads, th[t].pc = "lock", th[t].op = "destroy_swapchain",
           NEW m, m = unregister_swapchain(th[t])
    PROVE  Early(t, m) \/ \E B : Legal(t, m, B)
<1>1. PICK me \in ThreadType : me = th[t] BY Locals
<1>2. me.sem = None /\ me.op = "destroy_swapchain" BY <1>1, Waiting
<1>3. /\ mem["dev"] \in [Slots["dev"] -> RowType] /\ mem["queue"] \in [Slots["queue"] -> RowType]
      /\ mem["chain"] \in [Slots["chain"] -> RowType]
      /\ Tables(mem) /\ Unique(mem) /\ DeviceRows(mem) /\ QueueRows(mem)
  BY MemTables
<1>4. CASE SlotOf("chain", me.key) = {}
  <2>1. m = NoMutation("driver_destroy") BY <1>1, <1>4 DEF unregister_swapchain
  <2> QED BY <1>1, <1>2, <2>1 DEF Early, NoMutation
<1>5. CASE SlotOf("chain", me.key) # {}
  <2>2. PICK i : i = CHOOSE j \in SlotOf("chain", me.key) : TRUE OBVIOUS
  <2>3. m = [todo |-> Clear("chain", i), then |-> "driver_destroy", sem |-> None]
    BY <1>1, <1>5, <2>2 DEF unregister_swapchain
  <2>5. i \in Slots["chain"] BY <1>5, <2>2, SlotFound
  <2>8. PICK C \in [Slots["chain"] -> RowType] :
           C[i] = Empty /\ \A k \in Slots["chain"] : k # i => C[k] = mem["chain"][k]
    <3>1. [mem["chain"] EXCEPT ![i] = Empty] \in [Slots["chain"] -> RowType] BY <1>3, <2>5, EmptyRow
    <3> QED BY <1>3, <2>5, <3>1
  <2>9. PICK B : B["dev"] = mem["dev"] /\ B["queue"] = mem["queue"] /\ B["chain"] = C /\ Tables(B)
    BY <1>3, Build
  <2>10. PendingOn(B, m.todo, {"chain"}) /\ m.todo \in Seq(StoreType) /\ m.todo # << >>
    <3>1. PICK T : T = Clear("chain", i) OBVIOUS
    <3>2. "chain" \in Tabs BY DEF Tabs
    <3>3. /\ B["chain"][i] = Empty /\ \A k \in Slots["chain"] : k # i => B["chain"][k] = mem["chain"][k]
      BY <2>8, <2>9
    <3>4. PendingOn(B, T, {"chain"}) /\ T \in Seq(StoreType) /\ T # << >>
      BY <2>5, <3>1, <3>2, <3>3, ClearPends
    <3> QED BY <2>3, <3>1, <3>4
  <2>11. Pending(B, m.todo)
    <3>1. \A tab \in {"dev", "queue"} : B[tab] = mem[tab] BY <2>9
    <3>2. {"chain"} \cup {"dev", "queue"} = Tabs BY DEF Tabs
    <3>3. PendingOn(B, m.todo, {"chain"} \cup {"dev", "queue"}) BY <2>10, <3>1, PendingMore
    <3> QED BY <3>2, <3>3 DEF Pending
  <2>12. \A k \in Slots["chain"] : C[k].id # None => C[k] = mem["chain"][k] BY <2>8, EmptyRow
  <2>13. Unique(B)
    <3>1. UniqueIn(Slots["chain"], C) BY <1>3, <2>12, UniqueTables, UniqueErase
    <3> QED BY <1>3, <2>9, <3>1, UniqueTables
  <2>14. DeviceRows(B) /\ QueueRows(B) BY <1>3, <2>9 DEF DeviceRows, QueueRows
  <2>15. m.sem = None /\ m.then = "driver_destroy" BY <2>3
  <2>16. Exchange(t, m, B) BY <1>1, <1>2, <2>9, <2>15, NoExchange
  <2>17. Legal(t, m, B)
    BY <1>1, <1>2, <2>9, <2>10, <2>11, <2>12, <2>13, <2>14, <2>15, <2>16, WordKinds DEF Legal
  <2> QED BY <2>17
<1> QED BY <1>4, <1>5

\* One semaphore is stored in the row of a device.
LEMMA SemTables ==
    ASSUME TypeOK, Rows(mem), NEW i \in Slots["dev"], mem["dev"][i].id # None, NEW v \in Words,
           v # None => v \in 1 .. Len(sems) /\ sems[v] = mem["dev"][i].id,
           NEW T, T = <<Store("dev", i, "b", v)>>
    PROVE  \E B : /\ Pending(B, T) /\ T \in Seq(StoreType) /\ T # << >>
                  /\ Tables(B) /\ Unique(B) /\ DeviceRows(B) /\ QueueRows(B)
                  /\ B["chain"] = mem["chain"]
                  /\ B["dev"][i].b = v /\ B["dev"][i].id = mem["dev"][i].id
                  /\ \A k \in Slots["dev"] : k # i => B["dev"][k] = mem["dev"][k]
<1>1. /\ mem["dev"] \in [Slots["dev"] -> RowType] /\ mem["queue"] \in [Slots["queue"] -> RowType]
      /\ mem["chain"] \in [Slots["chain"] -> RowType]
      /\ Tables(mem) /\ Unique(mem) /\ DeviceRows(mem) /\ QueueRows(mem)
  BY MemTables
<1>2. PICK old \in RowType : old = mem["dev"][i] BY <1>1
<1>3. PICK row \in RowType : row.id = old.id /\ row.a = old.a /\ row.b = v
  <2>1. [old EXCEPT !.b = v] \in RowType BY DEF RowType
  <2> QED BY <2>1 DEF RowType
<1>4. PICK D \in [Slots["dev"] -> RowType] :
         D[i] = row /\ \A k \in Slots["dev"] : k # i => D[k] = mem["dev"][k]
  <2>1. [mem["dev"] EXCEPT ![i] = row] \in [Slots["dev"] -> RowType] BY <1>1
  <2> QED BY <1>1, <2>1
<1>5. PICK B : B["dev"] = D /\ B["queue"] = mem["queue"] /\ B["chain"] = mem["chain"] /\ Tables(B)
  BY <1>1, Build
<1>6. /\ B["dev"][i].b = v /\ B["dev"][i].id = mem["dev"][i].id /\ B["dev"][i].a = mem["dev"][i].a
      /\ \A k \in Slots["dev"] : k # i => B["dev"][k] = mem["dev"][k]
  BY <1>2, <1>3, <1>4, <1>5
<1>7. PendingOn(B, T, {"dev"}) /\ T \in Seq(StoreType) /\ T # << >> BY <1>6, SemPends
<1>8. Pending(B, T)
  <2>1. \A tab \in {"queue", "chain"} : B[tab] = mem[tab] BY <1>5
  <2>2. {"dev"} \cup {"queue", "chain"} = Tabs BY DEF Tabs
  <2>3. PendingOn(B, T, {"dev"} \cup {"queue", "chain"}) BY <1>7, <2>1, PendingMore
  <2> QED BY <2>2, <2>3 DEF Pending
<1>9. \A k \in Slots["dev"] : D[k].id = mem["dev"][k].id /\ D[k].a = mem["dev"][k].a
  BY <1>2, <1>3, <1>4
<1>10. Unique(B)
  <2>1. UniqueIn(Slots["dev"], D) BY <1>1, <1>9, UniqueTables, UniqueErase
  <2> QED BY <1>1, <1>5, <2>1, UniqueTables
<1>11. DeviceRows(B)
  <2> SUFFICES ASSUME NEW k \in Slots["dev"], D[k].id # None
               PROVE  /\ D[k].id \in Devices /\ live[D[k].id] # None /\ D[k].a = live[D[k].id]
                      /\ D[k].b # None => D[k].b \in 1 .. Len(sems) /\ sems[D[k].b] = D[k].id
    BY <1>5 DEF DeviceRows
  <2>1. D[k].id \in Devices /\ live[D[k].id] # None /\ D[k].a = live[D[k].id] BY <1>1, <1>9 DEF DeviceRows
  <2>2. CASE k = i BY <1>2, <1>3, <1>4, <2>1, <2>2
  <2>3. CASE k # i BY <1>1, <1>4, <2>1, <2>3 DEF DeviceRows
  <2> QED BY <2>2, <2>3
<1>12. QueueRows(B)
  <2> SUFFICES ASSUME NEW k \in Slots["queue"], NEW q, q = mem["queue"][k], q.id # None
               PROVE  /\ q.id \in Queues /\ q.a \in Devices /\ owner[q.id] = q.a
                      /\ \E j \in Slots["dev"] : D[j].id = q.a /\ D[j].a = q.b
    BY <1>5 DEF QueueRows
  <2>1. /\ q.id \in Queues /\ q.a \in Devices /\ owner[q.id] = q.a
        /\ \E j \in Slots["dev"] : mem["dev"][j].id = q.a /\ mem["dev"][j].a = q.b
    BY <1>1 DEF QueueRows
  <2> QED BY <1>9, <2>1
<1> QED BY <1>5, <1>6, <1>7, <1>8, <1>10, <1>11, <1>12

\* ensure_low_latency_semaphore
LEMMA EnsureSemaphoreSound ==
    ASSUME TypeOK, Control, Rows(mem), NEW t \in Threads, th[t].pc = "lock", th[t].op = "init_ll",
           NEW m, m = ensure_low_latency_semaphore(th[t])
    PROVE  Early(t, m) \/ \E B : Legal(t, m, B)
<1>1. PICK me \in ThreadType : me = th[t] BY Locals
<1>2. /\ me.dev \in Devices /\ me.dev # None /\ me.op = "init_ll" BY <1>1, Waiting
<1>3. me.sem \in Words /\ (me.sem # None => me.sem \in 1 .. Len(sems) /\ sems[me.sem] = me.dev)
  BY <1>1 DEF Control, Hands, ThreadType
<1>4. ASSUME m = [NoMutation("destroy_sem") EXCEPT !.sem = me.sem] PROVE Early(t, m)
  <2>1. m.todo = << >> /\ m.then = "destroy_sem" /\ m.sem = me.sem BY <1>4 DEF NoMutation
  <2> QED BY <1>1, <1>2, <2>1 DEF Early
<1>5. CASE SlotOf("dev", me.dev) = {}
  BY <1>1, <1>4, <1>5 DEF ensure_low_latency_semaphore
<1>6. CASE SlotOf("dev", me.dev) # {}
  <2>1. PICK i : i = CHOOSE j \in SlotOf("dev", me.dev) : TRUE OBVIOUS
  <2>2. i \in Slots["dev"] /\ mem["dev"][i].id = me.dev BY <1>6, <2>1, SlotFound
  <2>3. CASE mem["dev"][i].b # None
    BY <1>1, <1>4, <1>6, <2>1, <2>3 DEF ensure_low_latency_semaphore
  <2>4. CASE mem["dev"][i].b = None
    <3>1. m = [todo |-> <<Store("dev", i, "b", me.sem)>>, then |-> "idle", sem |-> None]
      BY <1>1, <1>6, <2>1, <2>4 DEF ensure_low_latency_semaphore
    <3>2. PICK T : T = <<Store("dev", i, "b", me.sem)>> OBVIOUS
    <3>3. PICK B : /\ Pending(B, T) /\ T \in Seq(StoreType) /\ T # << >>
                   /\ Tables(B) /\ Unique(B) /\ DeviceRows(B) /\ QueueRows(B)
                   /\ B["chain"] = mem["chain"]
                   /\ B["dev"][i].b = me.sem /\ B["dev"][i].id = mem["dev"][i].id
                   /\ \A k \in Slots["dev"] : k # i => B["dev"][k] = mem["dev"][k]
      BY <1>2, <1>3, <2>2, <3>2, SemTables
    <3>4. m.todo = T /\ m.then = "idle" /\ m.sem = None BY <3>1, <3>2
    <3>5. Exchange(t, m, B)
      <4>1. \A k \in Slots["dev"] : B["dev"][k].id # None /\ B["dev"][k].b # None =>
               \/ /\ mem["dev"][k].id = B["dev"][k].id /\ mem["dev"][k].b = B["dev"][k].b
                  /\ B["dev"][k].b # m.sem
               \/ B["dev"][k].b = me.sem /\ m.sem = None
        BY <3>3, <3>4
      <4>2. \A k \in Slots["dev"] : mem["dev"][k].b # None => B["dev"][k] = mem["dev"][k]
        BY <2>4, <3>3
      <4> QED BY <1>1, <2>2, <3>3, <3>4, <4>1, <4>2 DEF Exchange
    <3>6. \A k \in Slots["dev"] : B["dev"][k].id \in {mem["dev"][k].id, me.dev, None} BY <3>3
    <3>7. Legal(t, m, B) BY <1>1, <1>2, <3>3, <3>4, <3>5, <3>6, WordKinds DEF Legal
    <3> QED BY <3>7
  <2> QED BY <2>3, <2>4
<1> QED BY <1>5, <1>6

\* A semaphore is in one row only.
LEMMA OneRow ==
    ASSUME Rows(mem), NEW i \in Slots["dev"], NEW k \in Slots["dev"], mem["dev"][i].id # None,
           mem["dev"][k].id # None, mem["dev"][i].b # None, mem["dev"][i].b = mem["dev"][k].b
    PROVE  i = k
<1>1. Unique(mem) /\ DeviceRows(mem) BY MemTables
<1>2. mem["dev"][i].id = mem["dev"][k].id BY <1>1 DEF DeviceRows
<1> QED BY <1>1, <1>2, UniqueTables DEF UniqueIn

\* The semaphore of a row goes into the hand of the thread.
LEMMA Withdrawn ==
    ASSUME Rows(mem), NEW t \in Threads, th[t].sem = None, NEW i \in Slots["dev"],
           mem["dev"][i].id = th[t].dev, th[t].dev # None, th[t].op \in {"destroy_device", "destroy_ll"},
           NEW m, m.sem = mem["dev"][i].b, m.then = "destroy_sem", NEW B, B["dev"][i].b = None,
           \A k \in Slots["dev"] : k # i => B["dev"][k] = mem["dev"][k]
    PROVE  Exchange(t, m, B)
<1>1. ASSUME NEW k \in Slots["dev"], B["dev"][k].id # None, B["dev"][k].b # None
      PROVE  /\ mem["dev"][k].id = B["dev"][k].id /\ mem["dev"][k].b = B["dev"][k].b
             /\ B["dev"][k].b # m.sem
  <2>1. k # i /\ B["dev"][k] = mem["dev"][k] BY <1>1
  <2>2. mem["dev"][k].b # mem["dev"][i].b BY <1>1, <2>1, OneRow
  <2> QED BY <2>1, <2>2
<1>2. ASSUME NEW k \in Slots["dev"], mem["dev"][k].id # None, mem["dev"][k].b # None
      PROVE  B["dev"][k] = mem["dev"][k] \/ m.sem = mem["dev"][k].b
  OBVIOUS
<1> QED BY <1>1, <1>2 DEF Exchange

\* destroy_low_latency_semaphore
LEMMA DestroyLowLatencySound ==
    ASSUME TypeOK, Control, Rows(mem), NEW t \in Threads, th[t].pc = "lock", th[t].op = "destroy_ll",
           NEW m, m = destroy_low_latency_semaphore(th[t])
    PROVE  Early(t, m) \/ \E B : Legal(t, m, B)
<1>1. PICK me \in ThreadType : me = th[t] BY Locals
<1>2. /\ me.dev \in Devices /\ me.dev # None /\ me.op = "destroy_ll" /\ me.sem = None BY <1>1, Waiting
<1>3. PICK found : found = {i \in SlotOf("dev", me.dev) : mem["dev"][i].b # None} OBVIOUS
<1>4. CASE found = {}
  <2>1. m = NoMutation("idle") BY <1>1, <1>3, <1>4 DEF destroy_low_latency_semaphore
  <2> QED BY <1>1, <1>2, <2>1 DEF Early, NoMutation
<1>5. CASE found # {}
  <2>1. PICK i : i = CHOOSE j \in found : TRUE OBVIOUS
  <2>2. i \in Slots["dev"] /\ mem["dev"][i].id = me.dev /\ mem["dev"][i].b # None
    <3>1. i \in found BY <1>5, <2>1
    <3> QED BY <1>3, <3>1 DEF SlotOf
  <2>3. m = [todo |-> <<Store("dev", i, "b", None)>>, then |-> "destroy_sem", sem |-> mem["dev"][i].b]
    BY <1>1, <1>3, <1>5, <2>1 DEF destroy_low_latency_semaphore
  <2>4. PICK T : T = <<Store("dev", i, "b", None)>> OBVIOUS
  <2>5. PICK B : /\ Pending(B, T) /\ T \in Seq(StoreType) /\ T # << >>
                 /\ Tables(B) /\ Unique(B) /\ DeviceRows(B) /\ QueueRows(B)
                 /\ B["chain"] = mem["chain"]
                 /\ B["dev"][i].b = None /\ B["dev"][i].id = mem["dev"][i].id
                 /\ \A k \in Slots["dev"] : k # i => B["dev"][k] = mem["dev"][k]
    BY <1>2, <2>2, <2>4, SemTables, WordKinds
  <2>6. m.todo = T /\ m.then = "destroy_sem" /\ m.sem = mem["dev"][i].b BY <2>3, <2>4
  <2>7. m.sem \in Words
    <3>1. mem["dev"][i] \in RowType BY <2>2, MemTables
    <3> QED BY <2>6, <3>1 DEF RowType
  <2>8. Exchange(t, m, B) BY <1>1, <1>2, <2>2, <2>5, <2>6, Withdrawn
  <2>9. \A k \in Slots["dev"] : B["dev"][k].id \in {mem["dev"][k].id, me.dev, None} BY <2>5
  <2>10. Legal(t, m, B) BY <1>1, <1>2, <2>5, <2>6, <2>7, <2>8, <2>9 DEF Legal
  <2> QED BY <2>10
<1> QED BY <1>4, <1>5

\* register_device: the handle has no row yet, and no live queue row is its own.
LEMMA RegisterDeviceSound ==
    ASSUME TypeOK, Control, Rows(mem), NEW t \in Threads, th[t].pc = "lock", th[t].op = "create_device",
           NEW m, m = register_device(th[t])
    PROVE  Early(t, m) \/ \E B : Legal(t, m, B)
<1>1. PICK me \in ThreadType : me = th[t] BY Locals
<1>2. /\ me.sem = None /\ me.dev \in Devices /\ me.op = "create_device" /\ me.dev # None
  BY <1>1, Waiting
<1>3. /\ mem["dev"] \in [Slots["dev"] -> RowType] /\ mem["queue"] \in [Slots["queue"] -> RowType]
      /\ mem["chain"] \in [Slots["chain"] -> RowType]
      /\ Tables(mem) /\ Unique(mem) /\ DeviceRows(mem) /\ QueueRows(mem) /\ Absent(mem)
  BY MemTables
<1>4. \A j \in Slots["dev"] : mem["dev"][j].id # me.dev
  <2>1. Gone(th[t]) BY DEF Gone
  <2> QED BY <1>1, <1>3, <2>1 DEF Absent
<1>5. live[me.dev] \in Nat /\ live[me.dev] # None
  <2>1. live[me.dev] # None BY <1>1, <1>2 DEF Control, Driver
  <2>2. live[me.dev] \in Nat \cup {None} BY <1>2 DEF TypeOK
  <2> QED BY <2>1, <2>2
<1>6. CASE Target("dev", me.dev) = {}
  <2>1. m = NoMutation("idle") BY <1>1, <1>6 DEF register_device
  <2> QED BY <1>1, <1>2, <2>1 DEF Early, NoMutation
<1>7. CASE Target("dev", me.dev) # {}
  <2>1. PICK i : i = CHOOSE j \in Target("dev", me.dev) : TRUE OBVIOUS
  <2>2. PICK v \in Words : v = live[me.dev] BY <1>5, WordKinds
  <2>3. PICK T1 : T1 = Publish("dev", i, me.dev, v, None) OBVIOUS
  <2>4. PICK T2 : T2 = RefreshQueues(me.dev, v) OBVIOUS
  <2>5. m.todo = T1 \o T2 /\ m.then = "idle" /\ m.sem = None
    BY <1>1, <1>7, <2>1, <2>2, <2>3, <2>4 DEF register_device
  <2>6. i \in Slots["dev"] /\ mem["dev"][i].id = None BY <1>4, <1>7, <2>1, TargetFound
  <2>7. PICK key \in Words : key = me.dev BY <1>2, WordKinds
  <2>8. PICK row \in RowType : row.id = key /\ row.a = v /\ row.b = None
    <3>1. [id |-> key, a |-> v, b |-> None] \in RowType BY WordKinds DEF RowType
    <3> QED BY <3>1
  <2>9. PICK D \in [Slots["dev"] -> RowType] :
           D[i] = row /\ \A k \in Slots["dev"] : k # i => D[k] = mem["dev"][k]
    <3>1. [mem["dev"] EXCEPT ![i] = row] \in [Slots["dev"] -> RowType] BY <1>3, <2>6
    <3> QED BY <1>3, <2>6, <3>1
  <2>10. PICK Q \in [Slots["queue"] -> RowType] :
            \A k \in Slots["queue"] :
               /\ Q[k].id = mem["queue"][k].id /\ Q[k].a = mem["queue"][k].a
               /\ Q[k].b = IF mem["queue"][k].a = me.dev THEN v ELSE mem["queue"][k].b
    <3>1. PICK N : N = [k \in Slots["queue"] |->
                          [id |-> mem["queue"][k].id, a |-> mem["queue"][k].a,
                           b |-> IF mem["queue"][k].a = me.dev THEN v ELSE mem["queue"][k].b]]
      OBVIOUS
    <3>2. ASSUME NEW k \in Slots["queue"]
          PROVE  /\ N[k] \in RowType /\ N[k].id = mem["queue"][k].id /\ N[k].a = mem["queue"][k].a
                 /\ N[k].b = IF mem["queue"][k].a = me.dev THEN v ELSE mem["queue"][k].b
      <4>1. mem["queue"][k] \in RowType BY <1>3
      <4>2. PICK x \in Words, y \in Words, z \in Words :
               /\ x = mem["queue"][k].id /\ y = mem["queue"][k].a
               /\ z = IF mem["queue"][k].a = me.dev THEN v ELSE mem["queue"][k].b
        BY <4>1 DEF RowType
      <4>3. N[k] = [id |-> x, a |-> y, b |-> z] BY <3>1, <4>2
      <4> QED BY <4>2, <4>3 DEF RowType
    <3>3. N = [k \in Slots["queue"] |-> N[k]] BY <3>1
    <3>4. N \in [Slots["queue"] -> RowType] BY <3>2, <3>3
    <3> QED BY <3>2, <3>4
  <2>11. PICK B : B["dev"] = D /\ B["queue"] = Q /\ B["chain"] = mem["chain"] /\ Tables(B)
    BY <1>3, Build
  <2>12. PendingOn(B, T1, {"dev"}) /\ T1 \in Seq(StoreType) /\ T1 # << >>
    <3>1. "dev" \in Tabs /\ None \in Words BY WordKinds DEF Tabs
    <3>2. /\ B["dev"][i].id = key /\ B["dev"][i].a = v /\ B["dev"][i].b = None
          /\ \A k \in Slots["dev"] : k # i => B["dev"][k] = mem["dev"][k]
      BY <2>8, <2>9, <2>11
    <3>3. T1 = Publish("dev", i, key, v, None) BY <2>3, <2>7
    <3>4. Published(B, "dev", i, key, v, None) BY <3>2, Zenon DEF Published
    <3> QED BY <2>6, <3>1, <3>3, <3>4, PublishPends, Zenon
  <2>13. PendingOn(B, T2, {"queue"}) /\ T2 \in Seq(StoreType)
    <3>1. \A k \in Slots["queue"] :
             /\ B["queue"][k].id = mem["queue"][k].id /\ B["queue"][k].a = mem["queue"][k].a
             /\ B["queue"][k].b = IF mem["queue"][k].a = me.dev THEN v ELSE mem["queue"][k].b
      BY <2>10, <2>11
    <3> QED BY <2>4, <3>1, RefreshPends
  <2>14. m.todo \in Seq(StoreType) /\ m.todo # << >> BY <2>5, <2>12, <2>13
  <2>15. Pending(B, m.todo)
    <3>1. {"dev"} \cap {"queue"} = {} OBVIOUS
    <3>2. PICK S : S = {"dev"} \cup {"queue"} OBVIOUS
    <3>3. PendingOn(B, m.todo, S) BY <2>5, <2>12, <2>13, <3>1, <3>2, PendingConcat
    <3>4. \A tab \in {"chain"} : B[tab] = mem[tab] BY <2>11
    <3>5. S \cup {"chain"} = Tabs BY <3>2 DEF Tabs
    <3>6. PendingOn(B, m.todo, S \cup {"chain"}) BY <3>3, <3>4, PendingMore
    <3> QED BY <3>5, <3>6 DEF Pending
  <2>16. Unique(B)
    <3>1. UniqueIn(Slots["dev"], D) BY <1>2, <1>3, <1>4, <2>6, <2>7, <2>8, <2>9, UniqueTables, UniqueInsert, SMTT(30)
    <3>2. UniqueIn(Slots["queue"], Q) BY <1>3, <2>10, UniqueTables, UniqueErase
    <3> QED BY <1>3, <2>11, <3>1, <3>2, UniqueTables
  <2>17. DeviceRows(B)
    <3> SUFFICES ASSUME NEW k \in Slots["dev"], D[k].id # None
                 PROVE  /\ D[k].id \in Devices /\ live[D[k].id] # None /\ D[k].a = live[D[k].id]
                        /\ D[k].b # None => D[k].b \in 1 .. Len(sems) /\ sems[D[k].b] = D[k].id
      BY <2>11 DEF DeviceRows
    <3>1. CASE k = i BY <1>2, <1>5, <2>2, <2>7, <2>8, <2>9, <3>1
    <3>2. CASE k # i BY <1>3, <2>9, <3>2 DEF DeviceRows
    <3> QED BY <3>1, <3>2
  <2>18. QueueRows(B)
    <3> SUFFICES ASSUME NEW k \in Slots["queue"], Q[k].id # None
                 PROVE  /\ Q[k].id \in Queues /\ Q[k].a \in Devices /\ owner[Q[k].id] = Q[k].a
                        /\ \E j \in Slots["dev"] : D[j].id = Q[k].a /\ D[j].a = Q[k].b
      BY <2>11 DEF QueueRows
    <3>1. PICK q : q = mem["queue"][k] OBVIOUS
    <3>2. q.id = Q[k].id /\ q.a = Q[k].a BY <2>10, <3>1
    <3>3. /\ q.id \in Queues /\ q.a \in Devices /\ owner[q.id] = q.a
          /\ \E j \in Slots["dev"] : mem["dev"][j].id = q.a /\ mem["dev"][j].a = q.b
      BY <1>3, <3>1, <3>2 DEF QueueRows
    <3>4. PICK j \in Slots["dev"] : mem["dev"][j].id = q.a /\ mem["dev"][j].a = q.b BY <3>3
    <3>5. q.a # me.dev BY <1>4, <3>4
    <3>6. Q[k].b = q.b BY <2>10, <3>1, <3>5
    <3>7. j # i BY <2>6, <3>3, <3>4, RegistryAssumption
    <3>8. D[j] = mem["dev"][j] BY <2>9, <3>7
    <3> QED BY <3>2, <3>3, <3>4, <3>6, <3>8
  <2>19. Exchange(t, m, B)
    <3>1. \A k \in Slots["dev"] :
             \/ B["dev"][k].id = mem["dev"][k].id /\ B["dev"][k].b = mem["dev"][k].b
             \/ mem["dev"][k].id = None /\ B["dev"][k].b = None
      BY <2>6, <2>8, <2>9, <2>11
    <3> QED BY <1>1, <1>2, <2>5, <3>1, NoExchange
  <2>20. \A k \in Slots["dev"] : B["dev"][k].id \in {mem["dev"][k].id, me.dev, None}
    BY <2>7, <2>8, <2>9, <2>11
  <2>21. Legal(t, m, B)
    BY <1>1, <1>2, <2>5, <2>11, <2>14, <2>15, <2>16, <2>17, <2>18, <2>19, <2>20, WordKinds DEF Legal
  <2> QED BY <2>21
<1> QED BY <1>6, <1>7

\* unregister_device: its row, its queue rows and its swapchain rows go.
LEMMA UnregisterDeviceSound ==
    ASSUME TypeOK, Control, Rows(mem), NEW t \in Threads, th[t].pc = "lock", th[t].op = "destroy_device",
           NEW m, m = unregister_device(th[t])
    PROVE  Early(t, m) \/ \E B : Legal(t, m, B)
<1>1. PICK me \in ThreadType : me = th[t] BY Locals
<1>2. /\ me.sem = None /\ me.dev \in Devices /\ me.op = "destroy_device" /\ me.dev # None
  BY <1>1, Waiting
<1>3. /\ mem["dev"] \in [Slots["dev"] -> RowType] /\ mem["queue"] \in [Slots["queue"] -> RowType]
      /\ mem["chain"] \in [Slots["chain"] -> RowType]
      /\ Tables(mem) /\ Unique(mem) /\ DeviceRows(mem) /\ QueueRows(mem)
  BY MemTables
<1>4. CASE SlotOf("dev", me.dev) = {}
  <2>1. m = NoMutation("driver_destroy") BY <1>1, <1>4 DEF unregister_device
  <2>2. \A i \in Slots["dev"] : mem["dev"][i].id # me.dev BY <1>4 DEF SlotOf
  <2> QED BY <1>1, <1>2, <2>1, <2>2 DEF Early, NoMutation
<1>5. CASE SlotOf("dev", me.dev) # {}
  <2>1. PICK i : i = CHOOSE j \in SlotOf("dev", me.dev) : TRUE OBVIOUS
  <2>2. i \in Slots["dev"] /\ mem["dev"][i].id = me.dev BY <1>5, <2>1, SlotFound
  <2>3. PICK T1 : T1 = Clear("dev", i) OBVIOUS
  <2>4. PICK T2 : T2 = EraseRows("queue", me.dev) OBVIOUS
  <2>5. PICK T3 : T3 = EraseRows("chain", me.dev) OBVIOUS
  <2>6. m.todo = T1 \o T2 \o T3 /\ m.then = "destroy_sem" /\ m.sem = mem["dev"][i].b
    BY <1>1, <1>5, <2>1, <2>3, <2>4, <2>5 DEF unregister_device
  <2>7. PICK D \in [Slots["dev"] -> RowType] :
           D[i] = Empty /\ \A k \in Slots["dev"] : k # i => D[k] = mem["dev"][k]
    <3>1. [mem["dev"] EXCEPT ![i] = Empty] \in [Slots["dev"] -> RowType] BY <1>3, <2>2, EmptyRow
    <3> QED BY <1>3, <2>2, <3>1
  <2>8. PICK Q \in [Slots["queue"] -> RowType] :
           \A k \in Slots["queue"] : Q[k] = IF mem["queue"][k].a = me.dev THEN Empty ELSE mem["queue"][k]
    <3>1. PICK Y : Y = [k \in Slots["queue"] |->
                          IF mem["queue"][k].a = me.dev THEN Empty ELSE mem["queue"][k]]
      OBVIOUS
    <3>2. Y \in [Slots["queue"] -> RowType] BY <1>3, <3>1, EmptyRow
    <3>3. \A k \in Slots["queue"] : Y[k] = IF mem["queue"][k].a = me.dev THEN Empty ELSE mem["queue"][k]
      BY <3>1
    <3> QED BY <3>2, <3>3
  <2>9. PICK C \in [Slots["chain"] -> RowType] :
           \A k \in Slots["chain"] : C[k] = IF mem["chain"][k].a = me.dev THEN Empty ELSE mem["chain"][k]
    <3>1. PICK Y : Y = [k \in Slots["chain"] |->
                          IF mem["chain"][k].a = me.dev THEN Empty ELSE mem["chain"][k]]
      OBVIOUS
    <3>2. Y \in [Slots["chain"] -> RowType] BY <1>3, <3>1, EmptyRow
    <3>3. \A k \in Slots["chain"] : Y[k] = IF mem["chain"][k].a = me.dev THEN Empty ELSE mem["chain"][k]
      BY <3>1
    <3> QED BY <3>2, <3>3
  <2>10. PICK B : B["dev"] = D /\ B["queue"] = Q /\ B["chain"] = C /\ Tables(B) BY Build
  <2>11. PendingOn(B, T1, {"dev"}) /\ T1 \in Seq(StoreType) /\ T1 # << >>
    <3>1. "dev" \in Tabs BY DEF Tabs
    <3>2. B["dev"][i] = Empty /\ \A k \in Slots["dev"] : k # i => B["dev"][k] = mem["dev"][k]
      BY <2>7, <2>10
    <3> QED BY <2>2, <2>3, <3>1, <3>2, ClearPends
  <2>12. PendingOn(B, T2, {"queue"}) /\ T2 \in Seq(StoreType)
    <3>1. \A k \in Slots["queue"] :
             B["queue"][k] = IF mem["queue"][k].a = me.dev THEN Empty ELSE mem["queue"][k]
      BY <2>8, <2>10
    <3> QED BY <2>4, <3>1, ErasePends
  <2>13. PendingOn(B, T3, {"chain"}) /\ T3 \in Seq(StoreType)
    <3>1. \A k \in Slots["chain"] :
             B["chain"][k] = IF mem["chain"][k].a = me.dev THEN Empty ELSE mem["chain"][k]
      BY <2>9, <2>10
    <3> QED BY <2>5, <3>1, ErasePends
  <2>14. PICK T12 : T12 = T1 \o T2 OBVIOUS
  <2>15. T12 \in Seq(StoreType) /\ T12 # << >> BY <2>11, <2>12, <2>14
  <2>16. m.todo = T12 \o T3 /\ m.todo \in Seq(StoreType) /\ m.todo # << >> BY <2>6, <2>13, <2>14, <2>15
  <2>17. Pending(B, m.todo)
    <3>1. {"dev"} \cap {"queue"} = {} OBVIOUS
    <3>2. PICK S : S = {"dev"} \cup {"queue"} OBVIOUS
    <3>3. PendingOn(B, T12, S) BY <2>11, <2>12, <2>14, <3>1, <3>2, PendingConcat
    <3>4. S \cap {"chain"} = {} /\ S \cup {"chain"} = Tabs BY <3>2 DEF Tabs
    <3>5. PendingOn(B, m.todo, S \cup {"chain"}) BY <2>13, <2>15, <2>16, <3>3, <3>4, PendingConcat
    <3> QED BY <3>4, <3>5 DEF Pending
  <2>18. /\ \A k \in Slots["dev"] : D[k].id # None => k # i /\ D[k] = mem["dev"][k]
         /\ \A k \in Slots["queue"] : Q[k].id # None => mem["queue"][k].a # me.dev /\ Q[k] = mem["queue"][k]
         /\ \A k \in Slots["chain"] : C[k].id # None => C[k] = mem["chain"][k]
    BY <2>7, <2>8, <2>9, EmptyRow
  <2>19. Unique(B)
    <3>1. UniqueIn(Slots["dev"], D) BY <1>3, <2>18, UniqueTables, UniqueErase
    <3>2. UniqueIn(Slots["queue"], Q) BY <1>3, <2>18, UniqueTables, UniqueErase
    <3>3. UniqueIn(Slots["chain"], C) BY <1>3, <2>18, UniqueTables, UniqueErase
    <3> QED BY <2>10, <3>1, <3>2, <3>3, UniqueTables
  <2>20. DeviceRows(B) BY <1>3, <2>10, <2>18 DEF DeviceRows
  <2>21. QueueRows(B)
    <3> SUFFICES ASSUME NEW k \in Slots["queue"], Q[k].id # None
                 PROVE  /\ Q[k].id \in Queues /\ Q[k].a \in Devices /\ owner[Q[k].id] = Q[k].a
                        /\ \E j \in Slots["dev"] : D[j].id = Q[k].a /\ D[j].a = Q[k].b
      BY <2>10 DEF QueueRows
    <3>1. PICK q : q = mem["queue"][k] /\ q = Q[k] /\ q.a # me.dev BY <2>18
    <3>2. /\ q.id \in Queues /\ q.a \in Devices /\ owner[q.id] = q.a
          /\ \E j \in Slots["dev"] : mem["dev"][j].id = q.a /\ mem["dev"][j].a = q.b
      BY <1>3, <3>1, ZenonT(40) DEF QueueRows
    <3>3. PICK j \in Slots["dev"] : mem["dev"][j].id = q.a /\ mem["dev"][j].a = q.b BY <3>2
    <3>4. j # i /\ D[j] = mem["dev"][j] BY <2>2, <2>7, <3>1, <3>3
    <3> QED BY <3>1, <3>2, <3>3, <3>4
  <2>22. m.sem \in Words
    <3>1. mem["dev"][i] \in RowType BY <1>3, <2>2
    <3> QED BY <2>6, <3>1 DEF RowType
  <2>23. Exchange(t, m, B)
    <3>1. B["dev"][i].b = None /\ \A k \in Slots["dev"] : k # i => B["dev"][k] = mem["dev"][k]
      BY <2>7, <2>10, EmptyRow
    <3> QED BY <1>1, <1>2, <2>2, <2>6, <3>1, Withdrawn
  <2>24. \A k \in Slots["dev"] : B["dev"][k].id \in {mem["dev"][k].id, me.dev, None}
    BY <2>10, <2>18
  <2>25. \A k \in Slots["dev"] : B["dev"][k].id # me.dev
    <3> SUFFICES ASSUME NEW k \in Slots["dev"], D[k].id = me.dev PROVE FALSE BY <2>10
    <3>1. k # i /\ mem["dev"][k].id = me.dev BY <1>2, <2>18
    <3> QED BY <1>2, <1>3, <2>2, <3>1, UniqueTables DEF UniqueIn
  <2>26. Legal(t, m, B)
    BY <1>1, <1>2, <2>6, <2>10, <2>16, <2>17, <2>18, <2>19, <2>20, <2>21, <2>22, <2>23, <2>24, <2>25 DEF Legal
  <2> QED BY <2>26
<1> QED BY <1>4, <1>5

\* A mutation begins, whichever it is.
LEMMA MutationBeginKeeps ==
    ASSUME TypeOK, Control, Lookups, NEW A, Rows(A), NEW t \in Threads, MutationBegin(t)
    PROVE  TypeOK' /\ Control' /\ Lookups' /\ (\E B : Rows(B))'
<1>1. th[t].pc = "lock" /\ lock = None BY DEF MutationBegin
<1>2. A = mem BY <1>1 DEF Rows, Settles
<1>3. Rows(mem) BY <1>2
<1>4. PICK m : m = Mutation(th[t]) OBVIOUS
<1>5. Early(t, m) \/ \E B : Legal(t, m, B)
  <2>1. th[t].op \in Mutators BY <1>1, Waiting
  <2>2. CASE th[t].op = "create_device"
    <3>1. m = register_device(th[t]) BY <1>4, <2>2 DEF Mutation
    <3> QED BY <1>1, <1>3, <2>2, <3>1, RegisterDeviceSound
  <2>3. CASE th[t].op = "destroy_device"
    <3>1. m = unregister_device(th[t]) BY <1>4, <2>3 DEF Mutation
    <3> QED BY <1>1, <1>3, <2>3, <3>1, UnregisterDeviceSound
  <2>4. CASE th[t].op = "get_queue"
    <3>1. m = register_queue(th[t]) BY <1>4, <2>4 DEF Mutation
    <3> QED BY <1>1, <1>3, <2>4, <3>1, RegisterQueueSound
  <2>5. CASE th[t].op = "create_swapchain"
    <3>1. m = register_swapchain(th[t]) BY <1>4, <2>5 DEF Mutation
    <3> QED BY <1>1, <1>3, <2>5, <3>1, RegisterSwapchainSound
  <2>6. CASE th[t].op = "destroy_swapchain"
    <3>1. m = unregister_swapchain(th[t]) BY <1>4, <2>6 DEF Mutation
    <3> QED BY <1>1, <1>3, <2>6, <3>1, UnregisterSwapchainSound
  <2>7. CASE th[t].op = "init_ll"
    <3>1. m = ensure_low_latency_semaphore(th[t]) BY <1>4, <2>7 DEF Mutation
    <3> QED BY <1>1, <1>3, <2>7, <3>1, EnsureSemaphoreSound
  <2>8. CASE th[t].op = "destroy_ll"
    <3>1. m = destroy_low_latency_semaphore(th[t]) BY <1>4, <2>8 DEF Mutation
    <3> QED BY <1>1, <1>3, <2>8, <3>1, DestroyLowLatencySound
  <2> QED BY <2>1, <2>2, <2>3, <2>4, <2>5, <2>6, <2>7, <2>8 DEF Mutators
<1>6. CASE Early(t, m)
  <2>1. TypeOK' /\ Control' /\ Lookups' /\ Rows(A)' BY <1>4, <1>6, EarlyKeeps
  <2> QED BY <2>1
<1>7. CASE \E B : Legal(t, m, B)
  <2>1. PICK B : Legal(t, m, B) BY <1>7
  <2>2. TypeOK' /\ Control' /\ Lookups' /\ Rows(B)' BY <1>3, <1>4, <2>1, LegalKeeps
  <2> QED BY <2>2
<1> QED BY <1>5, <1>6, <1>7

----------------------------------------------------------------------------
(* The invariant and what follows from it *)

\* The invariant holds initially: the tables are empty, and they are the A.
LEMMA InitInv == Init => RegistryInv
<1> SUFFICES ASSUME Init PROVE RegistryInv OBVIOUS
<1>1. /\ mem = [tab \in Tabs |-> [i \in Slots[tab] |-> Empty]] /\ gen = 2 /\ lock = None
      /\ tls = [t \in Threads |-> [dev |-> NoEntry, queue |-> NoEntry]]
      /\ th = [t \in Threads |-> Idle] /\ live = [d \in Devices |-> None]
      /\ owner = [h \in Queues \cup Swapchains |-> None] /\ sems = << >> /\ passes = << >>
  BY DEF Init, Tabs
<1>2. \A tab \in Tabs : mem[tab] \in [Slots[tab] -> RowType] /\ \A i \in Slots[tab] : mem[tab][i] = Empty
  BY <1>1, EmptyRow
<1>3. NoEntry \in EntryType /\ NoEntry.g = 0 /\ NoEntry.a = None /\ NoEntry.resolved = FALSE
  BY WordKinds DEF NoEntry, EntryType
<1>4. \A t \in Threads : th[t] = Idle /\ tls[t].dev = NoEntry /\ tls[t].queue = NoEntry BY <1>1
<1>5. TypeOK
  <2>1. th \in [Threads -> ThreadType] BY <1>1, IdleType
  <2>2. tls \in [Threads -> [dev : EntryType, queue : EntryType]] BY <1>1, <1>3
  <2>3. sems \in Seq(Devices \cup {"destroyed"}) /\ passes \in Seq(BOOLEAN) BY <1>1
  <2>4. live \in [Devices -> Nat \cup {None}] /\ owner \in [Queues \cup Swapchains -> Devices \cup {None}]
    BY <1>1
  <2>5. DOMAIN mem = Tabs /\ gen \in Nat /\ lock \in Threads \cup {None} BY <1>1
  <2> QED BY <1>2, <2>1, <2>2, <2>3, <2>4, <2>5 DEF TypeOK
<1>6. /\ Idle.pc = "idle" /\ Idle.op = "none" /\ Idle.dev = None /\ Idle.sem = None /\ Idle.g = 0
      /\ ~OfHandle(Idle) /\ ~SoleOfChain(Idle) /\ ~Gone(Idle) /\ ~Slept(Idle) /\ Phase(Idle)
  BY IdlePhase DEF Idle, OfHandle, SoleOfChain, Gone, Slept
<1>7. Phases /\ Alone /\ SleepersApart /\ Sole BY <1>4, <1>6 DEF Phases, Alone, SleepersApart, Sole
<1>8. Seqlock
  <2>1. \A t \in Threads : lock # t BY <1>1, RegistryAssumption
  <2> QED BY <1>1, <1>3, <1>4, <1>6, <2>1 DEF Seqlock
<1>9. Driver
  <2>1. \A h \in Queues \cup Swapchains : owner[h] = None BY <1>1
  <2> QED BY <1>4, <1>6, <2>1 DEF Driver
<1>10. Unborn /\ Hands BY <1>4, <1>6 DEF Unborn, Hands
<1>11. Caches /\ Reads /\ Results
  <2>1. \A t \in Threads : tls[t]["dev"].a = None /\ tls[t]["queue"].a = None BY <1>3, <1>4
  <2> QED BY <1>3, <1>4, <1>6, <2>1 DEF Caches, Reads, Results
<1>12. Rows(mem)
  <2>1. Tables(mem) BY <1>1, <1>2 DEF Tables
  <2>2. Settles(mem) BY <1>1, RegistryAssumption DEF Settles
  <2>3. \A tab \in Tabs : \A i \in Slots[tab] : mem[tab][i].id = None BY <1>2, EmptyRow
  <2>4. Unique(mem) BY <2>3 DEF Unique
  <2>5. DeviceRows(mem) /\ QueueRows(mem) /\ ChainRows(mem)
    BY <2>3 DEF DeviceRows, QueueRows, ChainRows, Tabs
  <2>6. Absent(mem) /\ NotInHand(mem) /\ Sleeper(mem) BY <1>4, <1>6 DEF Absent, NotInHand, Sleeper
  <2>7. Owned(mem)
    <3>1. 1 .. Len(sems) = {} BY <1>1
    <3> QED BY <3>1 DEF Owned
  <2> QED BY <2>1, <2>2, <2>4, <2>5, <2>6, <2>7 DEF Rows
<1> QED BY <1>5, <1>7, <1>8, <1>9, <1>10, <1>11, <1>12 DEF RegistryInv, Control, Lookups

\* Every step keeps the invariant.
LEMMA NextInv == RegistryInv /\ [Next]_vars => RegistryInv'
<1> SUFFICES ASSUME RegistryInv, [Next]_vars PROVE RegistryInv' OBVIOUS
<1>0. TypeOK /\ Control /\ Lookups BY DEF RegistryInv
<1>1. PICK A : Rows(A) BY DEF RegistryInv
<1> DEFINE Kept == TypeOK' /\ Control' /\ Lookups' /\ (\E B : Rows(B))'
<1>2. ASSUME TypeOK' /\ Control' /\ Lookups' /\ Rows(A)' PROVE Kept BY <1>2
<1>3. CASE UNCHANGED vars
  <2>1. UNCHANGED <<mem, gen, lock, tls, th, live, owner, sems, passes>> BY <1>3 DEF vars
  <2>2. TypeOK' /\ Control' /\ Lookups' /\ Rows(A)' BY <1>0, <1>1, <2>1, StutterKeeps
  <2> QED BY <1>2, <2>2 DEF RegistryInv
<1>4. ASSUME NEW t \in Threads,
             \/ ReadGeneration(t) \/ Scan(t) \/ Validate(t)
             \/ ReadField(t, "read_a", "read_b") \/ ReadField(t, "read_b", "check")
             \/ GotForSleep(t) \/ Use(t) \/ FallbackScan(t) \/ FallbackAdopt(t)
      PROVE  Kept
  BY <1>0, <1>1, <1>2, <1>4, LookupSteps
<1>5. ASSUME NEW t \in Threads, GotForQueue(t) \/ GotForCreateSwapchain(t) \/ GotForDestroySwapchain(t)
      PROVE  Kept
  BY <1>0, <1>1, <1>2, <1>5, GotForHandleKeeps
<1>6. ASSUME NEW t \in Threads, GotForInit(t) PROVE Kept
  BY <1>0, <1>1, <1>2, <1>6, GotForInitKeeps
<1>7. ASSUME NEW t \in Threads, CreateDevice(t) PROVE Kept
  BY <1>0, <1>1, <1>2, <1>7, CreateDeviceKeeps
<1>8. ASSUME NEW t \in Threads, MutationBegin(t) PROVE Kept
  BY <1>0, <1>1, <1>8, MutationBeginKeeps
<1>9. ASSUME NEW t \in Threads, MutationStore(t) PROVE Kept
  BY <1>0, <1>1, <1>2, <1>9, MutationStoreKeeps
<1>10. ASSUME NEW t \in Threads, MutationEnd(t) PROVE Kept
  BY <1>0, <1>1, <1>10, MutationEndKeeps
<1>11. ASSUME NEW t \in Threads, DestroySemaphore(t) PROVE Kept
  BY <1>0, <1>1, <1>2, <1>11, DestroySemaphoreKeeps
<1>12. ASSUME NEW t \in Threads, DriverDestroy(t) PROVE Kept
  BY <1>0, <1>1, <1>2, <1>12, DriverDestroyKeeps
<1>13. ASSUME NEW t \in Threads, NEW d \in Devices, DestroyDevice(t, d) PROVE Kept
  BY <1>0, <1>1, <1>2, <1>13, DestroyDeviceKeeps
<1>14. ASSUME NEW t \in Threads, NEW d \in Devices, DestroyLowLatencyDevice(t, d) PROVE Kept
  BY <1>0, <1>1, <1>2, <1>14, DestroyLowLatencyDeviceKeeps
<1>15. ASSUME NEW t \in Threads, NEW d \in Devices,
              NEW op \in {"get_queue", "create_swapchain", "destroy_swapchain", "call", "init", "sleep"},
              DeviceCall(t, op, d)
       PROVE  Kept
  BY <1>0, <1>1, <1>2, <1>15, DeviceCallKeeps
<1>16. ASSUME NEW t \in Threads, NEW q \in Queues, NEW op \in {"present", "notify"},
              HandleCall(t, op, "queue", q)
       PROVE  Kept
  BY <1>0, <1>1, <1>2, <1>16, HandleCallKeeps
<1>17. ASSUME NEW t \in Threads, NEW s \in Swapchains, HandleCall(t, "chain_state", "chain", s)
       PROVE  Kept
  BY <1>0, <1>1, <1>2, <1>17, HandleCallKeeps
<1>18. ASSUME NEW d \in Devices, NEW q \in Queues, UnhookedGetQueue(d, q) PROVE Kept
  BY <1>0, <1>1, <1>2, <1>18, UnhookedGetQueueKeeps
<1>19. CASE Next
  <2> HIDE DEF Kept
  <2>1. Kept
    BY <1>4, <1>5, <1>6, <1>7, <1>8, <1>9, <1>10, <1>11, <1>12, <1>13, <1>14, <1>15, <1>16, <1>17, <1>18,
       <1>19, Zenon DEF Next
  <2> QED BY <2>1 DEF Kept, RegistryInv
<1> QED BY <1>3, <1>19

\* The registry invariant holds always: at every moment there are tables to which
\* the stores still to be done under g_writer_mutex lead, and all that the hooks rely
\* on holds of those tables, of the lookups and of the caches (the generation
\* protocol of vulkan_device_registry.cpp).
THEOREM RegistryInvariant == Spec => []RegistryInv
BY InitInv, NextInv, PTL DEF Spec

\* Slots, generation, thread-local entries and handlers have their types always, so
\* no store of a mutation leaves the tables, whatever its slot.
THEOREM RegistryType == Spec => []TypeOK
<1>1. RegistryInv => TypeOK BY DEF RegistryInv
<1> QED BY <1>1, RegistryInvariant, PTL

\* What cached_device_state, cached_queue_state and get_swapchain_state hand out is true at that
\* moment: the pointers of the live incarnation of the device, the real owner of a queue
\* or swapchain. No torn read and no stale thread-local entry is handed out, for any
\* number of threads and any sequence of destroyed and recycled handles.
THEOREM RegistryDispatchIsOwners == Spec => []DispatchIsOwners
<1>1. RegistryInv => DispatchIsOwners
  <2> SUFFICES ASSUME RegistryInv, NEW t \in Threads, th[t].pc = "got", th[t].a # None
               PROVE  CASE th[t].tab = "dev"   -> th[t].a = live[th[t].key]
                        [] th[t].tab = "queue" -> th[t].a = owner[th[t].key] /\ th[t].b = live[th[t].a]
                        [] th[t].tab = "chain" -> th[t].a = owner[th[t].key] /\ th[t].b = live[th[t].a]
    BY DEF DispatchIsOwners
  <2>1. th[t].tab \in Tabs BY Locals DEF RegistryInv
  <2>2. /\ th[t].tab = "dev" => th[t].a = live[th[t].key]
        /\ th[t].tab # "dev" => th[t].a = owner[th[t].key] /\ th[t].b = live[th[t].a]
    BY DEF RegistryInv, Lookups, Results
  <2> QED BY <2>1, <2>2 DEF Tabs
<1> QED BY <1>1, RegistryInvariant, PTL

\* The emulated vkLatencySleepNV signals a semaphore that is alive and belongs to its
\* device, although the lookup that found it holds no lock.
THEOREM RegistrySignalsLive == Spec => []SignalsLive
<1>1. RegistryInv => SignalsLive
  <2> SUFFICES ASSUME RegistryInv, NEW t \in Threads, th[t].pc = "signal"
               PROVE  sems[th[t].b] = th[t].dev
    BY DEF SignalsLive
  <2>1. Phase(th[t]) BY DEF RegistryInv, Control, Phases
  <2>2. Slept(th[t]) /\ th[t].dev \in Devices /\ th[t].b # None BY <2>1 DEF Phase, Slept
  <2>3. PICK A : DeviceRows(A) /\ Sleeper(A) BY DEF RegistryInv, Rows
  <2>4. PICK i \in Slots["dev"] : A["dev"][i].id = th[t].dev /\ A["dev"][i].b = th[t].b
    BY <2>2, <2>3 DEF Sleeper
  <2>5. th[t].dev # None BY <2>2, RegistryAssumption
  <2> QED BY <2>2, <2>3, <2>4, <2>5 DEF DeviceRows
<1> QED BY <1>1, RegistryInvariant, PTL

\* No timeline semaphore leaks: as long as it is not destroyed it is in the row of its
\* device, in the hand of a handler, or about to be stored, also when two threads of one
\* device race in ensure_low_latency_semaphore.
THEOREM RegistrySemaphoreOwned == Spec => []SemaphoreOwned
<1>1. RegistryInv => SemaphoreOwned
  <2> SUFFICES ASSUME RegistryInv, NEW s \in DOMAIN sems, sems[s] # "destroyed"
               PROVE  \/ \E i \in Slots["dev"] : mem["dev"][i].id = sems[s] /\ mem["dev"][i].b = s
                      \/ \E t \in Threads : th[t].sem = s
                      \/ \E t \in Threads : \E n \in DOMAIN th[t].todo :
                            /\ th[t].todo[n].tab = "dev" /\ th[t].todo[n].field = "b"
                            /\ th[t].todo[n].value = s
    BY DEF SemaphoreOwned
  <2>0. TypeOK BY DEF RegistryInv
  <2>1. s \in 1 .. Len(sems) BY <2>0 DEF TypeOK
  <2>2. s # None BY <2>1, RegistryAssumption
  <2>3. PICK A : Settles(A) /\ Owned(A) BY DEF RegistryInv, Rows
  <2>4. \/ \E i \in Slots["dev"] : A["dev"][i].id = sems[s] /\ A["dev"][i].b = s
        \/ \E t \in Threads : th[t].sem = s
    BY <2>1, <2>3 DEF Owned
  <2>5. ASSUME NEW i \in Slots["dev"], A["dev"][i].id = sems[s], A["dev"][i].b = s, lock # None
        PROVE  \/ mem["dev"][i].id = sems[s] /\ mem["dev"][i].b = s
               \/ \E t \in Threads : \E n \in DOMAIN th[t].todo :
                     /\ th[t].todo[n].tab = "dev" /\ th[t].todo[n].field = "b"
                     /\ th[t].todo[n].value = s
    <3>1. PICK t \in Threads : lock = t BY <2>0, <2>5 DEF TypeOK
    <3>2. PICK T \in Seq(StoreType) : T = th[t].todo BY <2>0, Locals
    <3>3. PendingOn(A, T, Tabs) BY <2>3, <3>1, <3>2 DEF Settles, Pending
    <3>4. "dev" \in Tabs /\ "id" \in Fields /\ "b" \in Fields BY DEF Tabs, Fields
    <3>5. CASE \E n \in 1 .. Len(T) : Hits(T[n], "dev", i, "b")
      <4>1. PICK n \in 1 .. Len(T) : Hits(T[n], "dev", i, "b") BY <3>5
      <4>2. PICK w : w = T[n] OBVIOUS
      <4>3. w.tab = "dev" /\ w.i = i /\ w.field = "b" BY <4>1, <4>2 DEF Hits
      <4>4. w.value = A[w.tab][w.i][w.field] BY <3>3, <4>2, <4>3, PendingAt
      <4>5. w.value = s BY <2>5, <4>3, <4>4
      <4>6. n \in DOMAIN T BY <3>2
      <4> QED BY <3>2, <4>2, <4>3, <4>5, <4>6
    <3>6. CASE \A n \in 1 .. Len(T) : ~Hits(T[n], "dev", i, "b")
      <4>1. mem["dev"][i]["b"] = A["dev"][i]["b"] BY <3>3, <3>4, <3>6, Zenon DEF PendingOn
      <4>2. \A n \in 1 .. Len(T) : ~Hits(T[n], "dev", i, "id")
        <5> SUFFICES ASSUME NEW n \in 1 .. Len(T), Hits(T[n], "dev", i, "id") PROVE FALSE OBVIOUS
        <5>1. PICK w : w = T[n] OBVIOUS
        <5>2. w.tab = "dev" /\ w.i = i /\ w.field = "id" BY <5>1 DEF Hits
        <5>3. A["dev"][w.i].b = None BY <3>3, <5>1, <5>2, PendingAt
        <5> QED BY <2>2, <2>5, <5>2, <5>3
      <4>3. mem["dev"][i]["id"] = A["dev"][i]["id"] BY <3>3, <3>4, <4>2, Zenon DEF PendingOn
      <4> QED BY <2>5, <4>1, <4>3
    <3> QED BY <3>5, <3>6
  <2>6. lock = None => A = mem BY <2>3 DEF Settles
  <2> QED BY <2>4, <2>5, <2>6
<1> QED BY <1>1, RegistryInvariant, PTL

\* Between mutations each queue row belongs to a registered device and carries its
\* pointers: unregister_device takes the device's queues along, and register_device
\* refreshes them.
THEOREM RegistryNoOrphanQueue == Spec => []NoOrphanQueue
<1>1. RegistryInv => NoOrphanQueue
  <2> SUFFICES ASSUME RegistryInv, gen % 2 = 0, NEW i \in Slots["queue"], mem["queue"][i].id # None
               PROVE  \E j \in Slots["dev"] : /\ mem["dev"][j].id = mem["queue"][i].a
                                              /\ mem["dev"][j].a = mem["queue"][i].b
    BY DEF NoOrphanQueue
  <2>1. Seqlock BY DEF RegistryInv, Control
  <2>2. lock = None BY <2>1 DEF Seqlock
  <2>3. PICK A : Settles(A) /\ QueueRows(A) BY DEF RegistryInv, Rows
  <2>4. QueueRows(mem) BY <2>2, <2>3 DEF Settles
  <2> QED BY <2>4 DEF QueueRows
<1> QED BY <1>1, RegistryInvariant, PTL

\* No creation so far was at fault.
Faultless == created = Fresh

\* No creation is ever at fault: what hkvkCreateDevice decides is backed by the platform.
LEMMA Verdicts == Spec => []Faultless
<1>1. Init => Faultless BY DEF Init, Faultless
<1>2. Faultless /\ [Next]_vars => Faultless'
  <2> SUFFICES ASSUME created = Fresh, [Next]_vars PROVE created' = Fresh BY DEF Faultless, Fresh
  <2>1. ASSUME NEW t \in Threads, CreateDevice(t) PROVE created' = Fresh
    <3>1. PICK c \in Creations : created' = c.verdicts BY <2>1 DEF CreateDevice
    <3> QED BY <3>1, CreationsSound
  <2>2. CASE UNCHANGED vars BY <2>2 DEF vars
  <2>3. CASE Next
    <3>1. ASSUME NEW t \in Threads,
                 \/ MutationBegin(t) \/ MutationStore(t) \/ MutationEnd(t)
                 \/ ReadGeneration(t) \/ Scan(t) \/ Validate(t)
                 \/ ReadField(t, "read_a", "read_b") \/ ReadField(t, "read_b", "check")
          PROVE  UNCHANGED created
      BY <3>1, Zenon DEF MutationBegin, MutationStore, MutationEnd, ReadGeneration, Scan, Validate, ReadField
    <3>2. ASSUME NEW t \in Threads,
                 \/ GotForQueue(t) \/ GotForCreateSwapchain(t) \/ GotForDestroySwapchain(t)
                 \/ GotForInit(t) \/ GotForSleep(t) \/ Use(t) \/ FallbackScan(t) \/ FallbackAdopt(t)
                 \/ DestroySemaphore(t) \/ DriverDestroy(t)
          PROVE  UNCHANGED created
      BY <3>2, Zenon DEF GotForQueue, GotForCreateSwapchain, GotForDestroySwapchain, GotForInit, GotForSleep,
             Use, FallbackScan, FallbackAdopt, DestroySemaphore, DriverDestroy
    <3>3. ASSUME NEW t \in Threads, NEW d, DestroyDevice(t, d) \/ DestroyLowLatencyDevice(t, d)
          PROVE  UNCHANGED created
      BY <3>3, Zenon DEF DestroyDevice, DestroyLowLatencyDevice
    <3>4. ASSUME NEW t \in Threads, NEW op, NEW tab, NEW d, DeviceCall(t, op, d) \/ HandleCall(t, op, tab, d)
          PROVE  UNCHANGED created
      BY <3>4, Zenon DEF DeviceCall, HandleCall
    <3>5. ASSUME NEW d, NEW q, UnhookedGetQueue(d, q) PROVE UNCHANGED created
      BY <3>5, Zenon DEF UnhookedGetQueue
    <3>6. (\E t \in Threads : CreateDevice(t)) \/ UNCHANGED created
      BY <2>3, <3>1, <3>2, <3>3, <3>4, <3>5, ZenonT(40) DEF Next
    <3> QED BY <2>1, <3>6
  <2> QED BY <2>2, <2>3
<1> QED BY <1>1, <1>2, PTL DEF Spec

\* A device creation that asks only for what the enumeration hooks advertised, with the
\* dependencies, is never refused by hkvkCreateDevice.
THEOREM RegistryAdvertisedWorks == Spec => []AdvertisedWorks
<1>1. Faultless => AdvertisedWorks BY DEF Faultless, Fresh, AdvertisedWorks
<1> QED BY <1>1, Verdicts, PTL

\* hkvkCreateDevice never hands the driver an extension the driver lacks and records
\* nothing as enabled that the driver was not given, on every platform and policy.
THEOREM RegistryDriverContract == Spec => []DriverContract
<1>1. Faultless => DriverContract BY DEF Faultless, Fresh, DriverContract
<1> QED BY <1>1, Verdicts, PTL

============================================================================
