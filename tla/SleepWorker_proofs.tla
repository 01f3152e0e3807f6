------------------------ MODULE SleepWorker_proofs ------------------------
(***************************************************************************)
(* Proofs about SleepWorker for every number of callers, calls and queue    *)
(* slots and for both memory models: no semaphore is signalled twice, and   *)
(* no shutdown or restart forgets a job.                                    *)
(***************************************************************************)
EXTENDS SleepWorker, TLAPS

----------------------------------------------------------------------------
(* Type correctness *)

\* The empty queue has the type of a queue.
LEMMA EmptyQueue == [k \in {} |-> 0] \in [0 .. 0 - 1 -> Jobs]
<1>1. 0 .. 0 - 1 = {} OBVIOUS
<1> QED BY <1>1

\* The type invariant in parts: what a step leaves alone keeps its part.
QueueType ==
    /\ reserved \in Nat /\ claimed \in 0 .. reserved
    /\ accepted \in [0 .. reserved - 1 -> Jobs]
    /\ published \subseteq 0 .. reserved - 1
FlagType ==
    /\ ready \in BOOLEAN /\ stop \in BOOLEAN /\ waiting \in BOOLEAN
    /\ event \in {"none", "clear", "set"}
WorkerFields ==
    /\ wpc \in WorkerPCs /\ wjob \in Jobs \cup {NoJob} /\ wret \in {"drain", "unarm", "final"}
    /\ wbuf \in Seq(BOOLEAN)
CallerFields ==
    /\ cpc \in [Callers -> CallerPCs]
    /\ cjob \in [Callers -> Jobs \cup {NoJob}]
    /\ cticket \in [Callers -> Nat]
    /\ cbuf \in [Callers -> SUBSET Nat]
RestType ==
    /\ spc \in StopPCs
    /\ calls \in 0 .. MaxCalls
    /\ signals \in [Jobs -> Nat]
    /\ storeBuffers \in BOOLEAN /\ waitMayFail \in BOOLEAN

\* The parts make up the type invariant.
LEMMA TypeParts ==
    TypeOK <=> QueueType /\ FlagType /\ WorkerFields /\ CallerFields /\ RestType
BY Zenon DEF TypeOK, QueueType, FlagType, WorkerFields, CallerFields, RestType

\* The parts after a step make up the type invariant after it.
LEMMA TypePartsNext ==
    ASSUME QueueType', FlagType', WorkerFields', CallerFields', RestType'
    PROVE  TypeOK'
BY Zenon DEF TypeOK, QueueType, FlagType, WorkerFields, CallerFields, RestType

\* An untouched queue, untouched callers or an untouched rest keep their part.
LEMMA QueueFrame == ASSUME QueueType, UNCHANGED queue PROVE QueueType'
BY DEF QueueType, queue
LEMMA CallerFrame == ASSUME CallerFields, UNCHANGED callers PROVE CallerFields'
BY Zenon DEF CallerFields, callers
LEMMA WorkerFrame == ASSUME WorkerFields, UNCHANGED worker PROVE WorkerFields'
BY Zenon DEF WorkerFields, worker
LEMMA FlagFrame == ASSUME FlagType, UNCHANGED flags PROVE FlagType'
BY Zenon DEF FlagType, flags
LEMMA RestFrame == ASSUME RestType, UNCHANGED <<spc, calls, signals, platform>> PROVE RestType'
BY Zenon DEF RestType, platform

\* The emptied queue is a queue.
LEMMA ResetType == ASSUME ResetQueue PROVE QueueType'
BY EmptyQueue DEF ResetQueue, QueueType

\* A release store to waiting keeps the types of the flag and the buffer.
LEMMA StoreWaitingType ==
    ASSUME TypeOK, NEW b \in BOOLEAN, StoreWaiting(b)
    PROVE  waiting' \in BOOLEAN /\ wbuf' \in Seq(BOOLEAN)
<1>1. CASE storeBuffers
  <2>1. ASSUME NEW S, NEW s \in Seq(S), NEW e \in S PROVE Append(s, e) \in Seq(S)
    OBVIOUS
  <2>2. wbuf \in Seq(BOOLEAN) BY DEF TypeOK
  <2>3. Append(wbuf, b) \in Seq(BOOLEAN) BY <2>1, <2>2, Zenon
  <2>4. wbuf' = Append(wbuf, b) /\ waiting' = waiting BY <1>1, Zenon DEF StoreWaiting
  <2>5. waiting \in BOOLEAN BY DEF TypeOK
  <2> QED BY <2>3, <2>4, <2>5, Zenon
<1>2. CASE ~storeBuffers
  BY <1>2 DEF TypeOK, StoreWaiting
<1> QED BY <1>1, <1>2

\* Publishing a reserved ticket keeps the type of the published set.
LEMMA PublishType ==
    ASSUME TypeOK, NEW k \in Nat, Q!Publish(k)
    PROVE  published' \subseteq 0 .. reserved - 1 /\ UNCHANGED <<accepted, reserved, claimed, delivered>>
BY DEF TypeOK, Q!Publish

\* The steps of a caller keep the types.
LEMMA CallerType ==
    ASSUME TypeOK, WorkerPhase, NEW c \in Callers, hkvkLatencySleepNV(c) \/ CallerStep(c) \/ CallerDrain(c),
           UNCHANGED platform
    PROVE  TypeOK'
<1> USE SleepAssumption DEF queue, flags, worker, callers, platform, CGoto, CReturn, CallerPCs
<1>0. QueueType /\ FlagType /\ WorkerFields /\ CallerFields /\ RestType BY TypeParts
<1>1. CASE hkvkLatencySleepNV(c)
  <2>1. calls \in Nat /\ calls' = calls + 1 /\ calls' \in Jobs /\ calls' \in 0 .. MaxCalls
    BY <1>1 DEF TypeOK, hkvkLatencySleepNV, Jobs
  <2>2. UNCHANGED <<queue, flags, worker, spc>> BY <1>1, Zenon DEF hkvkLatencySleepNV
  <2>3. QueueType' /\ FlagType' /\ WorkerFields' BY <1>0, <2>2, QueueFrame, FlagFrame, WorkerFrame
  <2>4. CASE Signal(calls') /\ UNCHANGED callers
    <3>1. CallerFields' BY <1>0, <2>4, CallerFrame
    <3>2. RestType' BY <1>0, <2>1, <2>2, <2>4 DEF RestType, Signal
    <3> QED BY <2>3, <3>1, <3>2, TypePartsNext
  <2>5. CASE ~(Signal(calls') /\ UNCHANGED callers)
    <3>1. /\ CGoto(c, "ensure") /\ cjob' = [cjob EXCEPT ![c] = calls']
          /\ UNCHANGED <<cticket, cbuf, signals>>
      BY <1>1, <2>5, Zenon DEF hkvkLatencySleepNV
    <3>2. CallerFields' BY <1>0, <2>1, <3>1 DEF CallerFields
    <3>3. RestType' BY <1>0, <2>1, <2>2, <3>1 DEF RestType
    <3> QED BY <2>3, <3>2, <3>3, TypePartsNext
  <2> QED BY <2>4, <2>5
<1>2. CASE EnsureFast(c) BY <1>2 DEF TypeOK, EnsureFast
<1>3. CASE EnsureSlow(c)
  <2>1. CASE ready BY <1>3, <2>1 DEF TypeOK, EnsureSlow
  <2>2. CASE ~ready
    <3>1. QueueType' BY <1>3, <2>2, ResetType DEF EnsureSlow
    <3>2. RestType' BY <1>0, <1>3, RestFrame DEF EnsureSlow
    <3>3. CallerFields'
      <4>1. PICK l \in CallerPCs : CGoto(c, l) BY <1>3 DEF EnsureSlow
      <4>2. UNCHANGED <<cjob, cticket, cbuf>> BY <1>3, Zenon DEF EnsureSlow
      <4> QED BY <1>0, <4>1, <4>2 DEF CallerFields
    <3>4. FlagType' BY <1>0, <1>3, <2>2 DEF FlagType, EnsureSlow
    <3>5. WorkerFields'
      <4>1. UNCHANGED worker \/ (wpc' = "drain" /\ UNCHANGED <<wjob, wret, wbuf>>)
        BY <1>3, <2>2, Zenon DEF EnsureSlow
      <4> QED BY <1>0, <4>1 DEF WorkerFields, WorkerPCs
    <3> QED BY <3>1, <3>2, <3>3, <3>4, <3>5, TypePartsNext
  <2> QED BY <2>1, <2>2
<1>4. CASE TryEnqueue(c)
  <2>1. cjob[c] \in Jobs
    BY <1>4 DEF TypeOK, TryEnqueue, WorkerPhase, Jobs
  <2>2. FlagType' /\ WorkerFields' /\ RestType'
    BY <1>0, <1>4, FlagFrame, WorkerFrame, RestFrame DEF TryEnqueue
  <2>3. CASE Q!Reserve(cjob[c])
    <3>1. QueueType' BY <1>0, <2>1, <2>3 DEF QueueType, Q!Reserve
    <3>2. reserved \in Nat /\ "publish" \in CallerPCs BY <1>0 DEF QueueType
    <3>3. CallerFields'
      <4>1. \/ cticket' = [cticket EXCEPT ![c] = reserved] /\ CGoto(c, "publish")
            \/ CGoto(c, "fail_open") /\ UNCHANGED cticket
        BY <1>4, Zenon DEF TryEnqueue
      <4>2. UNCHANGED <<cjob, cbuf>> BY <1>4, Zenon DEF TryEnqueue
      <4> QED BY <1>0, <3>2, <4>1, <4>2 DEF CallerFields
    <3> QED BY <2>2, <3>1, <3>3, TypePartsNext
  <2>4. CASE ~Q!Reserve(cjob[c])
    <3>1. CGoto(c, "fail_open") /\ UNCHANGED <<queue, cticket>> /\ UNCHANGED <<cjob, cbuf>>
      BY <1>4, <2>4, Zenon DEF TryEnqueue
    <3>2. QueueType' BY <1>0, <3>1, QueueFrame
    <3>3. CallerFields' BY <1>0, <3>1 DEF CallerFields
    <3> QED BY <2>2, <3>2, <3>3, TypePartsNext
  <2> QED BY <2>3, <2>4
<1>5. CASE Publish(c)
  <2>1. cticket[c] \in Nat BY DEF TypeOK
  <2>2. CASE storeBuffers
    <3>1. cbuf' = [cbuf EXCEPT ![c] = {cticket[c]}] /\ UNCHANGED queue
      BY <1>5, <2>2, Zenon DEF Publish
    <3> HIDE <2>2
    <3> QED BY <1>5, <2>1, <3>1 DEF TypeOK, Publish
  <2>3. CASE ~storeBuffers
    <3>1. published' \subseteq 0 .. reserved - 1 /\ UNCHANGED <<accepted, reserved, claimed, delivered>>
      <4>1. Q!Publish(cticket[c]) BY <1>5, <2>3, Zenon DEF Publish
      <4> QED BY <2>1, <4>1, PublishType
    <3>2. UNCHANGED cbuf BY <1>5, <2>3, Zenon DEF Publish
    <3> QED BY <1>5, <3>1, <3>2 DEF TypeOK, Publish
  <2> QED BY <2>2, <2>3
<1>6. CASE CheckWaiting(c)
  <2>1. CASE waiting BY <1>6, <2>1 DEF TypeOK, CheckWaiting
  <2>2. CASE ~waiting
    <3>1. CReturn(c) BY <1>6, <2>2, Zenon DEF CheckWaiting
    <3> QED BY <1>6, <3>1 DEF TypeOK, CheckWaiting
  <2> QED BY <2>1, <2>2
<1>7. CASE CasWaiting(c)
  <2>1. CASE waiting BY <1>7, <2>1 DEF TypeOK, CasWaiting
  <2>2. CASE ~waiting
    <3>1. CReturn(c) /\ UNCHANGED waiting BY <1>7, <2>2, Zenon DEF CasWaiting
    <3> QED BY <1>7, <3>1 DEF TypeOK, CasWaiting
  <2> QED BY <2>1, <2>2
<1>8. CASE CallerSetEvent(c) BY <1>8 DEF TypeOK, CallerSetEvent
<1>9. CASE FailOpen(c)
  <2>1. cjob[c] \in Jobs
    BY <1>9 DEF TypeOK, FailOpen, WorkerPhase, Jobs
  <2> QED BY <1>9, <2>1 DEF TypeOK, FailOpen, Signal
<1>10. CASE CallerDrain(c)
  BY <1>10 DEF TypeOK, CallerDrain, Q!Publish
<1> QED BY <1>1, <1>2, <1>3, <1>4, <1>5, <1>6, <1>7, <1>8, <1>9, <1>10 DEF CallerStep

\* The steps of the worker and of stop_sleep_worker keep the types.
LEMMA WorkerType ==
    ASSUME TypeOK, WorkerPhase,
           emulated_sleep_worker \/ WorkerWaitFails \/ stop_sleep_worker \/ WorkerStoreDrain,
           UNCHANGED platform
    PROVE  TypeOK'
<1>0. QueueType /\ FlagType /\ WorkerFields /\ CallerFields /\ RestType BY TypeParts
<1>1. ASSUME NEW here, NEW ret \in {"drain", "unarm", "final"}, NEW empty \in WorkerPCs,
             WorkerDequeue(here, ret, empty)
      PROVE  TypeOK'
  <2>1. UNCHANGED flags /\ UNCHANGED wbuf /\ UNCHANGED callers /\ UNCHANGED <<spc, calls, signals, platform>>
    BY <1>1, Zenon DEF WorkerDequeue
  <2>2. FlagType' /\ CallerFields' /\ RestType' BY <1>0, <2>1, FlagFrame, CallerFrame, RestFrame
  <2>3. CASE Q!Claim /\ wpc' = "take" /\ wret' = ret /\ UNCHANGED wjob
    <3>1. QueueType' BY <1>0, <2>3 DEF QueueType, Q!Claim
    <3>2. WorkerFields' BY <1>0, <1>1, <2>1, <2>3 DEF WorkerFields, WorkerPCs
    <3> QED BY <2>2, <3>1, <3>2, TypePartsNext
  <2>4. CASE WGoto(empty) /\ UNCHANGED queue
    <3>1. QueueType' BY <1>0, <2>4, QueueFrame
    <3>2. WorkerFields' BY <1>0, <1>1, <2>1, <2>4 DEF WorkerFields, WGoto
    <3> QED BY <2>2, <3>1, <3>2, TypePartsNext
  <2> QED BY <1>1, <2>3, <2>4, Zenon DEF WorkerDequeue
<1>2. CASE WorkerDrain \/ WorkerRecheck \/ WorkerFinalDrain
  BY <1>1, <1>2 DEF WorkerDrain, WorkerRecheck, WorkerFinalDrain, WorkerPCs
<1>3. CASE WorkerTake
  <2>1. accepted[claimed - 1] \in Jobs
    BY <1>0, <1>3 DEF QueueType, WorkerTake, WorkerPhase
  <2>2. FlagType' /\ CallerFields' /\ RestType'
    BY <1>0, <1>3, FlagFrame, CallerFrame, RestFrame DEF WorkerTake
  <2>3. QueueType' BY <1>0, <1>3 DEF QueueType, WorkerTake, Q!Deliver
  <2>4. WorkerFields' BY <1>0, <1>3, <2>1 DEF WorkerFields, WorkerTake, WorkerPCs
  <2> QED BY <2>2, <2>3, <2>4, TypePartsNext
<1>4. ASSUME NEW l \in WorkerPCs, NEW r \in {"drain", "unarm", "final"},
             wpc' = l, wret' = r, UNCHANGED wjob,
             waiting' \in BOOLEAN /\ wbuf' \in Seq(BOOLEAN),
             UNCHANGED <<queue, ready, stop, event, callers, spc, calls, signals>>
      PROVE  TypeOK'
  <2>1. QueueType' /\ CallerFields' /\ RestType' BY <1>0, <1>4, QueueFrame, CallerFrame, RestFrame
  <2>2. FlagType' BY <1>0, <1>4 DEF FlagType
  <2>3. WorkerFields' BY <1>0, <1>4 DEF WorkerFields
  <2> QED BY <2>1, <2>2, <2>3, TypePartsNext
<1>5. wret \in {"drain", "unarm", "final"} /\ waiting \in BOOLEAN /\ wbuf \in Seq(BOOLEAN)
  BY <1>0 DEF WorkerFields, FlagType
<1>6. CASE WorkerUnarm
  <2>1. waiting' \in BOOLEAN /\ wbuf' \in Seq(BOOLEAN) BY <1>6, StoreWaitingType DEF WorkerUnarm
  <2> QED BY <1>4, <1>6, <2>1 DEF WorkerUnarm, WorkerPCs
<1>7. CASE WorkerArm \/ WorkerWaitFails \/ WorkerDisarm
  <2>1. PICK l \in WorkerPCs : WGoto(l)
    BY <1>7 DEF WorkerArm, WorkerWaitFails, WorkerDisarm, WorkerPCs
  <2>2. PICK b \in BOOLEAN : StoreWaiting(b)
    BY <1>7, Zenon DEF WorkerArm, WorkerWaitFails, WorkerDisarm
  <2>3. waiting' \in BOOLEAN /\ wbuf' \in Seq(BOOLEAN) BY <2>2, StoreWaitingType
  <2>4. UNCHANGED <<queue, ready, stop, event, callers, spc, calls, signals>>
    BY <1>7, Zenon DEF WorkerArm, WorkerWaitFails, WorkerDisarm
  <2> QED BY <1>4, <1>5, <2>1, <2>3, <2>4 DEF WGoto
<1>8. CASE WorkerStopCheck2
  <2>1. PICK l \in WorkerPCs : WGoto(l) BY <1>8 DEF WorkerStopCheck2, WorkerPCs
  <2>2. StoreWaiting(FALSE) \/ UNCHANGED <<waiting, wbuf>> BY <1>8, Zenon DEF WorkerStopCheck2
  <2>3. waiting' \in BOOLEAN /\ wbuf' \in Seq(BOOLEAN)
    <3>1. CASE StoreWaiting(FALSE) BY <3>1, StoreWaitingType
    <3>2. CASE UNCHANGED <<waiting, wbuf>> BY <1>5, <3>2, Zenon
    <3> QED BY <2>2, <3>1, <3>2
  <2>4. UNCHANGED <<queue, ready, stop, event, callers, spc, calls, signals>>
    BY <1>8, Zenon DEF WorkerStopCheck2
  <2> QED BY <1>4, <1>5, <2>1, <2>3, <2>4 DEF WGoto
<1>9. CASE WorkerProcess
  <2>1. wjob \in Jobs BY <1>9 DEF WorkerProcess, WorkerPhase
  <2>2. QueueType' /\ FlagType' /\ CallerFields'
    BY <1>0, <1>9, QueueFrame, FlagFrame, CallerFrame DEF WorkerProcess
  <2>3. WorkerFields' BY <1>0, <1>9 DEF WorkerFields, WorkerProcess, WorkerPCs
  <2>4. RestType' BY <1>0, <1>9, <2>1 DEF RestType, WorkerProcess, Signal, platform
  <2> QED BY <2>2, <2>3, <2>4, TypePartsNext
<1>10. CASE WorkerStopCheck
  <2>1. PICK l \in WorkerPCs : WGoto(l) BY <1>10 DEF WorkerStopCheck, WorkerPCs
  <2>2. UNCHANGED <<queue, flags, wbuf, callers, spc, calls, signals>> BY <1>10, Zenon DEF WorkerStopCheck
  <2> QED BY <1>4, <1>5, <2>1, <2>2 DEF WGoto, flags
<1>11. CASE WorkerWait
  <2>1. QueueType' /\ CallerFields' /\ RestType'
    BY <1>0, <1>11, QueueFrame, CallerFrame, RestFrame DEF WorkerWait
  <2>2. FlagType' BY <1>0, <1>11 DEF FlagType, WorkerWait
  <2>3. WorkerFields' BY <1>0, <1>11 DEF WorkerFields, WorkerWait, WGoto, WorkerPCs
  <2> QED BY <2>1, <2>2, <2>3, TypePartsNext
<1>12. CASE WorkerStoreDrain
  <2>1. wbuf \in Seq(BOOLEAN) /\ wbuf # << >> BY <1>5, <1>12 DEF WorkerStoreDrain
  <2>2. Head(wbuf) \in BOOLEAN /\ Tail(wbuf) \in Seq(BOOLEAN) BY <2>1
  <2>3. wpc \in WorkerPCs BY <1>0 DEF WorkerFields
  <2>4. /\ UNCHANGED <<wpc, wjob, wret>> /\ waiting' = Head(wbuf) /\ wbuf' = Tail(wbuf)
        /\ UNCHANGED <<queue, ready, stop, event, callers, spc, calls, signals>>
    BY <1>12, Zenon DEF WorkerStoreDrain
  <2>5. waiting' \in BOOLEAN /\ wbuf' \in Seq(BOOLEAN) BY <2>2, <2>4, Zenon
  <2> QED BY <1>4, <1>5, <2>3, <2>4, <2>5
<1>13. CASE StopBegin \/ StopRequest \/ StopJoin
  <2>1. QueueType' /\ CallerFields'
    BY <1>0, <1>13, QueueFrame, CallerFrame DEF StopBegin, StopRequest, StopJoin
  <2>2. FlagType' BY <1>0, <1>13 DEF FlagType, StopBegin, StopRequest, StopJoin, flags
  <2>3. WorkerFields'
    <3>1. UNCHANGED worker \/ (wpc' = "none" /\ UNCHANGED <<wjob, wret, wbuf>>)
      BY <1>13, Zenon DEF StopBegin, StopRequest, StopJoin
    <3> QED BY <1>0, <3>1 DEF WorkerFields, WorkerPCs, worker
  <2>4. RestType'
    <3>1. spc' \in StopPCs /\ UNCHANGED <<calls, signals>>
      BY <1>13 DEF StopBegin, StopRequest, StopJoin, StopPCs
    <3> QED BY <1>0, <3>1 DEF RestType, platform
  <2> QED BY <2>1, <2>2, <2>3, <2>4, TypePartsNext
<1>14. CASE StopCleanup
  <2>1. QueueType' BY <1>14, ResetType DEF StopCleanup
  <2>2. CallerFields' /\ WorkerFields' BY <1>0, <1>14, CallerFrame, WorkerFrame DEF StopCleanup
  <2>3. FlagType' BY <1>0, <1>14 DEF FlagType, StopCleanup
  <2>4. RestType' BY <1>0, <1>14 DEF RestType, StopCleanup, StopPCs, platform
  <2> QED BY <2>1, <2>2, <2>3, <2>4, TypePartsNext
<1> QED BY <1>2, <1>3, <1>6, <1>7, <1>8, <1>9, <1>10, <1>11, <1>12, <1>13, <1>14, Zenon
    DEF emulated_sleep_worker, stop_sleep_worker

----------------------------------------------------------------------------
(* Places of the jobs *)

\* A step that brings no job to a new place and signals nothing keeps OnePlace.
LEMMA NothingMoves ==
    ASSUME OnePlace, SignalledOnce, UNCHANGED <<calls, signals>>,
           \A j \in Jobs :
              /\ \A c \in Callers : Holding(c, j)' => Holding(c, j)
              /\ \A k : Queued(k, j)' => Queued(k, j)
              /\ InHand(j)' => InHand(j)
    PROVE  OnePlace' /\ SignalledOnce'
<1>1. \A j \in Jobs : \A k : Queued(k, j) => k \in 0 .. reserved - 1 BY DEF Queued, Pending
<1>2. \A j \in Jobs : Waiting(j)' => Waiting(j) BY <1>1 DEF Waiting
<1> QED BY <1>1, <1>2 DEF OnePlace, SignalledOnce

\* The jobs of the queue depend on its counters and on whether the worker is
\* about to take one.
LEMMA QueuedSame ==
    ASSUME UNCHANGED <<accepted, reserved, claimed>>, wpc' = "take" <=> wpc = "take"
    PROVE  \A k, j : Queued(k, j)' <=> Queued(k, j)
BY DEF Queued, Pending

\* A step of a caller that leaves its job where it is and no ticket unattended.
LEMMA CallerKeepsJob ==
    ASSUME JobPlaces, NEW c \in Callers,
           UNCHANGED <<accepted, reserved, claimed, ready, stop, wpc, wjob, wret, spc, calls, signals, waitMayFail>>,
           published \subseteq published',
           \A z \in Callers \ {c} :
              cpc'[z] = cpc[z] /\ cjob'[z] = cjob[z] /\ cticket'[z] = cticket[z] /\ cbuf'[z] = cbuf[z],
           cpc[c] # "idle" \/ cbuf[c] # {},
           \A j : Holding(c, j)' <=> Holding(c, j),
           cpc'[c] \in {"ensure", "ensure_slow", "enqueue", "fail_open"} => cjob'[c] \in 1 .. calls,
           cpc'[c] \in {"enqueue", "publish", "check", "cas", "set_event"} => ready,
           cpc'[c] = "publish" => cbuf'[c] = {},
           \A k : k \notin published' /\ ((cpc[c] = "publish" /\ cticket[c] = k) \/ k \in cbuf[c])
                    => (cpc'[c] = "publish" /\ cticket'[c] = k) \/ k \in cbuf'[c]
    PROVE  JobPlaces'
<1>0. OnePlace /\ SignalledOnce /\ WorkerPhase /\ StopPhase /\ NoJobDropped BY DEF JobPlaces
<1>1. spc = "idle" BY <1>0 DEF StopPhase
<1>2. \A k, j : Queued(k, j)' <=> Queued(k, j) BY QueuedSame
<1>3. \A j : InHand(j)' <=> InHand(j) BY DEF InHand
<1>4. \A z \in Callers : \A j : Holding(z, j)' <=> Holding(z, j)
  BY DEF Holding
<1>5. OnePlace' /\ SignalledOnce' BY <1>0, <1>2, <1>3, <1>4, NothingMoves
<1>6. NoJobDropped'
  <2>1. \A j : Waiting(j)' <=> Waiting(j) BY <1>2, <1>3, <1>4 DEF Waiting
  <2> QED BY <1>0, <2>1 DEF NoJobDropped
<1>7. WorkerPhase' BY <1>0 DEF WorkerPhase
<1>8. StopPhase'
  <2>1. \A k \in 0 .. reserved - 1 :
          k \notin published' =>
            \E z \in Callers : (cpc'[z] = "publish" /\ cticket'[z] = k) \/ k \in cbuf'[z]
    <3> SUFFICES ASSUME NEW k \in 0 .. reserved - 1, k \notin published'
                 PROVE  \E z \in Callers : (cpc'[z] = "publish" /\ cticket'[z] = k) \/ k \in cbuf'[z]
      OBVIOUS
    <3>1. PICK z \in Callers : (cpc[z] = "publish" /\ cticket[z] = k) \/ k \in cbuf[z]
      BY <1>0 DEF StopPhase
    <3>2. CASE z = c BY <3>1, <3>2
    <3>3. CASE z # c BY <3>1, <3>3
    <3> QED BY <3>2, <3>3
  <2>2. \A z \in Callers : cpc'[z] = "publish" => cbuf'[z] = {} BY <1>0 DEF StopPhase
  <2> QED BY <1>0, <1>1, <2>1, <2>2 DEF StopPhase
<1> QED BY <1>5, <1>6, <1>7, <1>8 DEF JobPlaces

\* The caller steps around the queue: the fast path, the publication, the
\* wakeup handshake and the draining of the store buffer.
LEMMA CallerControl ==
    ASSUME TypeOK, JobPlaces, NEW c \in Callers, UNCHANGED platform,
           \/ EnsureFast(c) \/ Publish(c) \/ CheckWaiting(c) \/ CasWaiting(c)
           \/ CallerSetEvent(c) \/ CallerDrain(c)
    PROVE  JobPlaces'
<1> USE DEF queue, flags, worker, callers, platform, CGoto, CReturn
<1>0. WorkerPhase /\ StopPhase BY DEF JobPlaces
<1>1. CASE EnsureFast(c)
  <2>1. /\ \A z \in Callers \ {c} : cpc'[z] = cpc[z]
        /\ cpc[c] = "ensure" /\ cjob[c] \in 1 .. calls
        /\ cpc'[c] \in {"enqueue", "ensure_slow"}
        /\ UNCHANGED <<cjob, cticket, cbuf, queue, flags, worker, spc, calls, signals>>
    BY <1>0, <1>1 DEF TypeOK, EnsureFast, WorkerPhase
  <2>2. cpc'[c] = "enqueue" => ready BY <1>1 DEF TypeOK, EnsureFast
  <2> QED BY <1>0, <2>1, <2>2, CallerKeepsJob DEF Holding
<1>2. CASE Publish(c)
  <2>1. /\ \A z \in Callers \ {c} : cpc'[z] = cpc[z] /\ cbuf'[z] = cbuf[z]
        /\ cpc[c] = "publish" /\ cpc'[c] = "check" /\ cbuf[c] = {}
        /\ UNCHANGED <<cjob, cticket, flags, worker, spc, calls, signals>>
    <3>1. CASE storeBuffers
      <4>1. cbuf' = [cbuf EXCEPT ![c] = {cticket[c]}] BY <1>2, <3>1, Zenon DEF Publish
      <4> QED BY <1>0, <1>2, <4>1 DEF TypeOK, Publish, StopPhase
    <3>2. CASE ~storeBuffers
      <4>1. cbuf' = cbuf BY <1>2, <3>2, Zenon DEF Publish
      <4> QED BY <1>0, <1>2, <4>1 DEF TypeOK, Publish, StopPhase
    <3> QED BY <3>1, <3>2
  <2>2. /\ UNCHANGED <<accepted, reserved, claimed>> /\ published \subseteq published'
        /\ cticket[c] \in published' \/ cticket[c] \in cbuf'[c]
    <3>1. CASE storeBuffers
      <4>1. cbuf' = [cbuf EXCEPT ![c] = {cticket[c]}] /\ UNCHANGED queue BY <1>2, <3>1, Zenon DEF Publish
      <4> QED BY <4>1 DEF TypeOK
    <3>2. CASE ~storeBuffers
      <4>1. Q!Publish(cticket[c]) BY <1>2, <3>2, Zenon DEF Publish
      <4> QED BY <4>1 DEF Q!Publish
    <3> QED BY <3>1, <3>2
  <2>3. ready BY <1>0, <2>1 DEF WorkerPhase
  <2> QED BY <1>0, <2>1, <2>2, <2>3, CallerKeepsJob DEF Holding
<1>3. CASE CheckWaiting(c) \/ CasWaiting(c) \/ CallerSetEvent(c)
  <2>1. /\ \A z \in Callers \ {c} : cpc'[z] = cpc[z] /\ cjob'[z] = cjob[z] /\ cticket'[z] = cticket[z]
        /\ cpc[c] \in {"check", "cas", "set_event"}
        /\ cpc'[c] \in {"cas", "set_event", "idle"}
        /\ UNCHANGED <<cbuf, queue, ready, stop, worker, spc, calls, signals>>
    <3>1. CASE CheckWaiting(c)
      <4>1. (CGoto(c, "cas") /\ UNCHANGED <<cjob, cticket>>) \/ CReturn(c) BY <3>1, Zenon DEF CheckWaiting
      <4> QED BY <3>1, <4>1 DEF TypeOK, CheckWaiting
    <3>2. CASE CasWaiting(c)
      <4>1. (CGoto(c, "set_event") /\ UNCHANGED <<cjob, cticket>>) \/ CReturn(c) BY <3>2, Zenon DEF CasWaiting
      <4> QED BY <3>2, <4>1 DEF TypeOK, CasWaiting
    <3>3. CASE CallerSetEvent(c)
      BY <3>3 DEF TypeOK, CallerSetEvent
    <3> QED BY <1>3, <3>1, <3>2, <3>3
  <2>2. ready BY <1>0, <2>1 DEF WorkerPhase
  <2> QED BY <1>0, <2>1, <2>2, CallerKeepsJob DEF Holding
<1>4. CASE CallerDrain(c)
  <2>1. PICK k0 \in cbuf[c] : Q!Publish(k0) /\ cbuf' = [cbuf EXCEPT ![c] = @ \ {k0}]
    BY <1>4 DEF CallerDrain
  <2>2. /\ \A z \in Callers \ {c} : cbuf'[z] = cbuf[z]
        /\ cbuf'[c] = cbuf[c] \ {k0} /\ cbuf[c] # {}
        /\ UNCHANGED <<cpc, cjob, cticket, flags, worker, spc, calls, signals>>
    BY <1>4, <2>1 DEF TypeOK, CallerDrain
  <2>3. UNCHANGED <<accepted, reserved, claimed>> /\ published' = published \cup {k0}
    BY <2>1 DEF Q!Publish
  <2>4. /\ cpc[c] \in {"ensure", "ensure_slow", "enqueue", "fail_open"} => cjob[c] \in 1 .. calls
        /\ cpc[c] \in {"enqueue", "publish", "check", "cas", "set_event"} => ready
        /\ cpc[c] = "publish" => cbuf[c] = {}
    BY <1>0 DEF WorkerPhase, StopPhase
  <2> QED BY <2>2, <2>3, <2>4, CallerKeepsJob DEF Holding
<1> QED BY <1>1, <1>2, <1>3, <1>4

\* A step of the worker that takes and answers nothing.
LEMMA WorkerKeepsJob ==
    ASSUME JobPlaces,
           UNCHANGED <<accepted, reserved, published, claimed, ready, stop, callers, spc, calls, signals, waitMayFail>>,
           wpc \notin {"none", "take"}, wpc' \notin {"none", "take"},
           \A j : InHand(j)' <=> InHand(j),
           wpc' \in {"unarm", "process"} => wjob' \in Jobs,
           wpc' = "process" => wret' # "unarm",
           ~waitMayFail =>
              /\ wpc' \in {"final", "exited"} \/ (wret' = "final" /\ wpc' \in {"take", "process"}) => stop
              /\ wpc' = "exited" => claimed = reserved
    PROVE  JobPlaces'
<1> USE DEF callers
<1>0. OnePlace /\ SignalledOnce /\ WorkerPhase /\ StopPhase /\ NoJobDropped BY DEF JobPlaces
<1>1. \A k, j : Queued(k, j)' <=> Queued(k, j) BY QueuedSame
<1>2. \A z, j : Holding(z, j)' <=> Holding(z, j) BY DEF Holding
<1>3. OnePlace' /\ SignalledOnce' BY <1>0, <1>1, <1>2, NothingMoves
<1>4. NoJobDropped'
  <2>1. \A j : Waiting(j)' <=> Waiting(j) BY <1>1, <1>2 DEF Waiting
  <2> QED BY <1>0, <2>1 DEF NoJobDropped
<1>5. WorkerPhase' BY <1>0 DEF WorkerPhase
<1>6. StopPhase' BY <1>0 DEF StopPhase
<1> QED BY <1>3, <1>4, <1>5, <1>6 DEF JobPlaces

\* The worker's control: arming, rechecks, waits and the empty queue.
LEMMA WorkerControl ==
    ASSUME TypeOK, JobPlaces, UNCHANGED platform,
           \/ WorkerUnarm \/ WorkerStopCheck \/ WorkerArm \/ WorkerStopCheck2
           \/ WorkerWait \/ WorkerWaitFails \/ WorkerDisarm
    PROVE  JobPlaces'
<1> USE DEF queue, flags, worker, platform, WGoto
<1>0. WorkerPhase /\ StopPhase BY DEF JobPlaces
<1>1. CASE WorkerUnarm
  <2>1. wpc = "unarm" /\ wpc' = "process" /\ wret' = "drain" /\ UNCHANGED wjob
    BY <1>1 DEF WorkerUnarm
  <2>2. UNCHANGED <<queue, ready, stop, callers, spc, calls, signals>> BY <1>1 DEF WorkerUnarm
  <2> QED BY <1>0, <2>1, <2>2, WorkerKeepsJob DEF InHand, WorkerPhase
<1>2. CASE WorkerStopCheck
  <2>1. wpc = "stop_check" /\ wpc' \in {"final", "arm"} /\ (wpc' = "final" => stop)
    BY <1>2 DEF WorkerStopCheck
  <2>2. UNCHANGED <<queue, ready, stop, callers, spc, calls, signals>> BY <1>2 DEF WorkerStopCheck
  <2> QED BY <2>1, <2>2, WorkerKeepsJob DEF InHand
<1>3. CASE WorkerArm \/ WorkerWait \/ WorkerDisarm
  <2>1. wpc \in {"arm", "wait", "disarm"} /\ wpc' \in {"recheck", "disarm", "drain"}
    BY <1>3 DEF WorkerArm, WorkerWait, WorkerDisarm
  <2>2. UNCHANGED <<queue, ready, stop, callers, spc, calls, signals>>
    BY <1>3 DEF WorkerArm, WorkerWait, WorkerDisarm
  <2> QED BY <2>1, <2>2, WorkerKeepsJob DEF InHand
<1>4. CASE WorkerStopCheck2
  <2>1. wpc = "stop_check2" /\ wpc' \in {"final", "wait"} /\ (wpc' = "final" => stop)
    BY <1>4 DEF WorkerStopCheck2
  <2>2. UNCHANGED <<queue, ready, stop, callers, spc, calls, signals>> BY <1>4 DEF WorkerStopCheck2
  <2> QED BY <2>1, <2>2, WorkerKeepsJob DEF InHand
<1>5. CASE WorkerWaitFails
  <2>1. wpc = "wait" /\ wpc' = "final" /\ waitMayFail
    BY <1>5 DEF WorkerWaitFails
  <2>2. UNCHANGED <<queue, ready, stop, callers, spc, calls, signals>> BY <1>5 DEF WorkerWaitFails
  <2> QED BY <2>1, <2>2, WorkerKeepsJob DEF InHand
<1> QED BY <1>1, <1>2, <1>3, <1>4, <1>5

\* A dequeue claims the oldest ticket, which stays in the queue until it is
\* taken, or finds nothing published; after a stop request nothing is then left.
LEMMA WorkerDequeues ==
    ASSUME TypeOK, JobPlaces, UNCHANGED platform,
           WorkerDrain \/ WorkerRecheck \/ WorkerFinalDrain
    PROVE  JobPlaces'
<1> USE DEF queue, flags, platform, WGoto
<1>0. OnePlace /\ SignalledOnce /\ WorkerPhase /\ StopPhase /\ NoJobDropped BY DEF JobPlaces
<1>1. ASSUME NEW here \in {"drain", "recheck", "final"},
             NEW ret \in {"drain", "unarm", "final"}, ret = "final" => here = "final",
             NEW empty \in {"stop_check", "stop_check2", "exited"}, empty = "exited" => here = "final",
             WorkerDequeue(here, ret, empty)
      PROVE  JobPlaces'
  <2>0. wpc = here /\ UNCHANGED <<flags, callers, spc, calls, signals>>
    BY <1>1 DEF WorkerDequeue
  <2>1. CASE Q!Claim /\ wpc' = "take" /\ wret' = ret /\ UNCHANGED wjob
    <3>1. /\ claimed \in published /\ claimed' = claimed + 1 /\ claimed \in Nat /\ reserved \in Nat
          /\ claimed < reserved
          /\ UNCHANGED <<accepted, reserved, published>>
      BY <2>1 DEF TypeOK, Q!Claim
    <3>2. \A k, j : Queued(k, j)' <=> Queued(k, j)
      BY <1>1, <2>0, <2>1, <3>1 DEF Queued, Pending
    <3>3. \A z, j : Holding(z, j)' <=> Holding(z, j) BY <2>0 DEF Holding, callers
    <3>4. \A j : InHand(j)' <=> InHand(j) BY <1>1, <2>0, <2>1 DEF InHand
    <3>5. OnePlace' /\ SignalledOnce' BY <1>0, <2>0, <3>2, <3>3, <3>4, NothingMoves
    <3>6. NoJobDropped'
      <4>1. \A j : Waiting(j)' <=> Waiting(j) BY <3>1, <3>2, <3>3, <3>4 DEF Waiting
      <4> QED BY <1>0, <2>0, <4>1 DEF NoJobDropped
    <3>7. WorkerPhase' BY <1>0, <1>1, <2>0, <2>1, <3>1 DEF WorkerPhase, callers
    <3>8. StopPhase'
      <4>1. spc # "cleanup" BY <1>0, <1>1, <2>0 DEF WorkerPhase
      <4> QED BY <1>0, <1>1, <2>0, <2>1, <3>1, <4>1 DEF StopPhase, callers
    <3> QED BY <3>5, <3>6, <3>7, <3>8 DEF JobPlaces
  <2>2. CASE claimed \notin published /\ WGoto(empty) /\ UNCHANGED queue
    <3>1. empty = "exited" /\ ~waitMayFail => claimed = reserved
      <4> SUFFICES ASSUME empty = "exited", ~waitMayFail PROVE claimed = reserved
        OBVIOUS
      <4>1. stop /\ \A c \in Callers : cpc[c] = "idle" /\ cbuf[c] = {}
        BY <1>0, <1>1, <2>0 DEF StopPhase
      <4>2. claimed \notin 0 .. reserved - 1
        BY <1>0, <2>2, <4>1 DEF StopPhase
      <4> QED BY <4>2 DEF TypeOK
    <3>2. ~waitMayFail /\ empty = "exited" => stop BY <1>0, <1>1, <2>0 DEF StopPhase
    <3> QED BY <1>1, <2>0, <2>2, <3>1, <3>2, WorkerKeepsJob DEF InHand
  <2> QED BY <1>1, <2>1, <2>2 DEF WorkerDequeue
<1>2. CASE WorkerDrain BY <1>1, <1>2 DEF WorkerDrain
<1>3. CASE WorkerRecheck BY <1>1, <1>3 DEF WorkerRecheck
<1>4. CASE WorkerFinalDrain BY <1>1, <1>4 DEF WorkerFinalDrain
<1> QED BY <1>2, <1>3, <1>4

\* Draining the worker's store buffer changes only the waiting flag.
LEMMA StoreDrainKeeps ==
    ASSUME JobPlaces, UNCHANGED platform, WorkerStoreDrain
    PROVE  JobPlaces'
<1>1. UNCHANGED <<queue, ready, stop, wpc, wjob, wret, callers, spc, calls, signals, platform>>
  BY DEF WorkerStoreDrain
<1>2. /\ UNCHANGED <<accepted, reserved, published, claimed>> /\ UNCHANGED waitMayFail
      /\ UNCHANGED <<cpc, cjob, cticket, cbuf>>
  BY <1>1 DEF queue, callers, platform
<1> QED BY <1>1, <1>2 DEF JobPlaces, OnePlace, WorkerPhase, StopPhase, SignalledOnce, NoJobDropped,
      Waiting, Holding, Queued, Pending, InHand

\* A job that was waiting and is now signalled leaves its place, once.
LEMMA JobAnswered ==
    ASSUME TypeOK, OnePlace, SignalledOnce, NoJobDropped, NEW j0 \in Jobs, Waiting(j0),
           UNCHANGED <<calls, waitMayFail>>, Signal(j0),
           \A j \in Jobs :
              /\ \A c \in Callers : Holding(c, j)' <=> Holding(c, j) /\ j # j0
              /\ \A k : Queued(k, j)' <=> Queued(k, j) /\ j # j0
              /\ InHand(j)' <=> InHand(j) /\ j # j0
    PROVE  OnePlace' /\ SignalledOnce' /\ NoJobDropped'
<1>0. j0 <= calls /\ signals[j0] = 0 BY DEF OnePlace
<1>1. \A j \in Jobs : signals'[j] = IF j = j0 THEN 1 ELSE signals[j]
  BY <1>0 DEF TypeOK, Signal
<1>2. \A j \in Jobs : \A k : Queued(k, j) => k \in 0 .. reserved - 1 BY DEF Queued, Pending
<1>3. \A j \in Jobs : \A k : Queued(k, j)' => k \in 0 .. reserved' - 1 BY DEF Queued, Pending
<1>4. \A j \in Jobs : Waiting(j)' <=> Waiting(j) /\ j # j0 BY <1>2, <1>3 DEF Waiting
<1>5. \A j \in 1 .. calls : j \in Jobs BY SleepAssumption DEF TypeOK, Jobs
<1>6. calls \in Int /\ j0 \in Int BY SleepAssumption DEF TypeOK, Jobs
<1>7. OnePlace'
  <2>1. \A j \in Jobs : j > calls => j # j0 BY <1>0, <1>6 DEF Jobs
  <2> QED BY <1>1, <1>2, <1>4, <2>1 DEF OnePlace
<1>8. SignalledOnce' BY <1>1 DEF SignalledOnce
<1>9. NoJobDropped' BY <1>1, <1>4, <1>5 DEF NoJobDropped
<1> QED BY <1>7, <1>8, <1>9

\* A refused job is signalled by its caller.
LEMMA FailOpenPlaces ==
    ASSUME TypeOK, JobPlaces, UNCHANGED platform, NEW c \in Callers, FailOpen(c)
    PROVE  JobPlaces'
<1> USE DEF queue, flags, worker, platform, CGoto, CReturn
<1>0. OnePlace /\ SignalledOnce /\ WorkerPhase /\ StopPhase /\ NoJobDropped BY DEF JobPlaces
<1>1. PICK j0 \in Jobs : j0 = cjob[c]
  BY <1>0, SleepAssumption DEF TypeOK, FailOpen, WorkerPhase, Jobs
<1>2. /\ cpc[c] = "fail_open" /\ cpc'[c] = "idle" /\ cticket'[c] = 0
      /\ \A z \in Callers \ {c} : cpc'[z] = cpc[z] /\ cjob'[z] = cjob[z] /\ cticket'[z] = cticket[z]
      /\ UNCHANGED <<queue, flags, worker, cbuf, spc, calls>> /\ Signal(j0)
  BY <1>1 DEF TypeOK, FailOpen
<1>3. Holding(c, j0) /\ Waiting(j0) BY <1>1, <1>2 DEF Holding, Waiting
<1>4. \A k, j : Queued(k, j)' <=> Queued(k, j) BY <1>2, QueuedSame
<1>5. \A j : InHand(j)' <=> InHand(j) BY <1>2 DEF InHand
<1>6. \A z \in Callers, j \in Jobs : Holding(z, j)' <=> Holding(z, j) /\ z # c BY <1>2 DEF Holding
<1>7. \A j \in Jobs : Holding(c, j) <=> j = j0 BY <1>1, <1>2 DEF Holding
<1>8. \A k : Queued(k, j0) => k \in 0 .. reserved - 1 BY DEF Queued, Pending
<1>9. \A j \in Jobs :
        /\ \A z \in Callers : Holding(z, j)' <=> Holding(z, j) /\ j # j0
        /\ \A k : Queued(k, j)' <=> Queued(k, j) /\ j # j0
        /\ InHand(j)' <=> InHand(j) /\ j # j0
  BY <1>0, <1>3, <1>4, <1>5, <1>6, <1>7, <1>8 DEF OnePlace
<1>10. OnePlace' /\ SignalledOnce' /\ NoJobDropped' BY <1>0, <1>2, <1>3, <1>9, JobAnswered
<1>11. WorkerPhase' BY <1>0, <1>2 DEF WorkerPhase
<1>12. StopPhase' BY <1>0, <1>2 DEF StopPhase
<1> QED BY <1>10, <1>11, <1>12 DEF JobPlaces

\* A job the worker took is signalled by the worker.
LEMMA WorkerProcessPlaces ==
    ASSUME TypeOK, JobPlaces, UNCHANGED platform, WorkerProcess
    PROVE  JobPlaces'
<1> USE DEF queue, flags, platform, callers
<1>0. OnePlace /\ SignalledOnce /\ WorkerPhase /\ StopPhase /\ NoJobDropped BY DEF JobPlaces
<1>1. PICK j0 \in Jobs : j0 = wjob BY <1>0 DEF WorkerProcess, WorkerPhase
<1>2. /\ wpc = "process" /\ wpc' = wret /\ wret \in {"drain", "unarm", "final"} /\ wjob' = NoJob
      /\ UNCHANGED <<queue, flags, wret, callers, spc, calls>> /\ Signal(j0)
  BY <1>1 DEF TypeOK, WorkerProcess
<1>3. InHand(j0) /\ Waiting(j0) BY <1>1, <1>2 DEF InHand, Waiting
<1>4. \A k, j : Queued(k, j)' <=> Queued(k, j) BY <1>2, QueuedSame
<1>5. \A j \in Jobs : ~InHand(j)' /\ (InHand(j) <=> j = j0)
  BY <1>1, <1>2, SleepAssumption DEF InHand
<1>6. \A z, j : Holding(z, j)' <=> Holding(z, j) BY <1>2 DEF Holding
<1>7. \A k : Queued(k, j0) => k \in 0 .. reserved - 1 BY DEF Queued, Pending
<1>8. \A j \in Jobs :
        /\ \A z \in Callers : Holding(z, j)' <=> Holding(z, j) /\ j # j0
        /\ \A k : Queued(k, j)' <=> Queued(k, j) /\ j # j0
        /\ InHand(j)' <=> InHand(j) /\ j # j0
  BY <1>0, <1>3, <1>4, <1>5, <1>6, <1>7 DEF OnePlace
<1>9. OnePlace' /\ SignalledOnce' /\ NoJobDropped' BY <1>0, <1>2, <1>3, <1>8, JobAnswered
<1>10. WorkerPhase' BY <1>0, <1>2 DEF WorkerPhase
<1>11. StopPhase' BY <1>0, <1>2 DEF StopPhase
<1> QED BY <1>9, <1>10, <1>11 DEF JobPlaces

\* A new call is answered at once or stays with its caller.
LEMMA NewCallPlaces ==
    ASSUME TypeOK, JobPlaces, UNCHANGED platform, NEW c \in Callers, hkvkLatencySleepNV(c)
    PROVE  JobPlaces'
<1> USE SleepAssumption DEF queue, flags, worker, platform, callers, CGoto
<1>0. OnePlace /\ SignalledOnce /\ WorkerPhase /\ StopPhase /\ NoJobDropped BY DEF JobPlaces
<1>1. PICK j0 \in Jobs : j0 = calls + 1
  BY DEF TypeOK, hkvkLatencySleepNV, Jobs
<1>2. /\ cpc[c] = "idle" /\ spc = "idle" /\ calls' = j0 /\ calls \in Nat
      /\ UNCHANGED <<queue, flags, worker, cticket, cbuf, spc>>
      /\ \A z \in Callers \ {c} : cpc'[z] = cpc[z] /\ cjob'[z] = cjob[z]
  BY <1>1 DEF TypeOK, hkvkLatencySleepNV
<1>3. /\ signals[j0] = 0 /\ ~Waiting(j0)
      /\ \A j \in Jobs : j <= j0 <=> j <= calls \/ j = j0
  BY <1>0, <1>1, <1>2 DEF OnePlace, Jobs
<1>4. \A k, j : Queued(k, j)' <=> Queued(k, j) BY <1>2, QueuedSame
<1>5. \A j : InHand(j)' <=> InHand(j) BY <1>2 DEF InHand
<1>6. \A j \in 1 .. calls : j \in Jobs /\ j # j0 BY <1>1, <1>2 DEF Jobs
<1>7. \A j \in 1 .. j0 : j \in 1 .. calls \/ j = j0 BY <1>1, <1>2
<1>8. CASE Signal(j0) /\ UNCHANGED callers
  <2>1. \A j \in Jobs : signals'[j] = IF j = j0 THEN 1 ELSE signals[j]
    BY <1>3, <1>8 DEF TypeOK, Signal
  <2>2. \A z, j : Holding(z, j)' <=> Holding(z, j) BY <1>8 DEF Holding
  <2>3. \A j \in Jobs : Waiting(j)' <=> Waiting(j) BY <1>2, <1>4, <1>5, <2>2 DEF Waiting
  <2>4. OnePlace'
    BY <1>0, <1>1, <1>2, <1>3, <1>4, <1>5, <2>1, <2>2, <2>3 DEF OnePlace, Jobs
  <2>5. SignalledOnce' BY <1>0, <2>1 DEF SignalledOnce
  <2>6. NoJobDropped' BY <1>0, <1>2, <1>6, <1>7, <2>1, <2>3 DEF NoJobDropped
  <2>7. WorkerPhase' BY <1>0, <1>1, <1>2, <1>8 DEF WorkerPhase
  <2>8. StopPhase' BY <1>0, <1>2, <1>8 DEF StopPhase
  <2> QED BY <2>4, <2>5, <2>6, <2>7, <2>8 DEF JobPlaces
<1>9. CASE ~(Signal(j0) /\ UNCHANGED callers)
  <2>1. cpc'[c] = "ensure" /\ cjob'[c] = j0 /\ UNCHANGED signals
    BY <1>1, <1>2, <1>9 DEF TypeOK, hkvkLatencySleepNV
  <2>2. \A z \in Callers, j \in Jobs : Holding(z, j)' <=> Holding(z, j) \/ (z = c /\ j = j0)
    BY <1>2, <2>1 DEF Holding
  <2>3. \A j \in Jobs : Waiting(j)' <=> Waiting(j) \/ j = j0 BY <1>2, <1>4, <1>5, <2>2 DEF Waiting
  <2>4. /\ \A z \in Callers : ~Holding(z, j0)
        /\ \A k : ~Queued(k, j0) /\ ~InHand(j0)
    BY <1>3 DEF Waiting, Queued, Pending
  <2>5. OnePlace'
    BY <1>0, <1>1, <1>2, <1>3, <1>4, <1>5, <2>1, <2>2, <2>3, <2>4 DEF OnePlace, Jobs
  <2>6. SignalledOnce' BY <1>0, <2>1 DEF SignalledOnce
  <2>7. NoJobDropped' BY <1>0, <1>2, <1>6, <1>7, <2>1, <2>3 DEF NoJobDropped
  <2>8. WorkerPhase' BY <1>0, <1>1, <1>2, <2>1 DEF WorkerPhase
  <2>9. StopPhase' BY <1>0, <1>2, <2>1 DEF StopPhase
  <2> QED BY <2>5, <2>6, <2>7, <2>8, <2>9 DEF JobPlaces
<1> QED BY <1>8, <1>9

\* The reservation hands the job from its caller to the queue.
LEMMA TryEnqueuePlaces ==
    ASSUME TypeOK, JobPlaces, UNCHANGED platform, NEW c \in Callers, TryEnqueue(c)
    PROVE  JobPlaces'
<1> USE SleepAssumption DEF queue, flags, worker, platform, CGoto
<1>0. OnePlace /\ SignalledOnce /\ WorkerPhase /\ StopPhase /\ NoJobDropped BY DEF JobPlaces
<1>1. PICK j0 \in Jobs : j0 = cjob[c] /\ j0 \in 1 .. calls
  BY <1>0 DEF TypeOK, TryEnqueue, WorkerPhase, Jobs
<1>2. cpc[c] = "enqueue" /\ cbuf[c] = {} /\ ready BY <1>0 DEF TryEnqueue, WorkerPhase
<1>3. UNCHANGED <<flags, worker, cjob, cbuf, spc, calls, signals>> BY DEF TryEnqueue
<1>4. CASE Q!Reserve(cjob[c]) /\ cticket' = [cticket EXCEPT ![c] = reserved] /\ CGoto(c, "publish")
  <2>1. /\ reserved \in Nat /\ claimed \in 0 .. reserved
        /\ reserved' = reserved + 1 /\ accepted'[reserved] = j0
        /\ \A k \in 0 .. reserved - 1 : accepted'[k] = accepted[k]
        /\ UNCHANGED <<published, claimed>>
        /\ cpc'[c] = "publish" /\ cticket'[c] = reserved
        /\ \A z \in Callers \ {c} : cpc'[z] = cpc[z] /\ cticket'[z] = cticket[z]
    BY <1>1, <1>4 DEF TypeOK, Q!Reserve
  <2>2. \A z \in Callers, j \in Jobs : Holding(z, j)' <=> Holding(z, j) /\ z # c
    BY <1>2, <1>3, <2>1 DEF Holding
  <2>3. \A k : Pending(k)' <=> Pending(k) \/ k = reserved
    BY <1>3, <2>1 DEF Pending
  <2>4. \A k : Pending(k) => k \in 0 .. reserved - 1 BY DEF Pending
  <2>5. \A k, j : Queued(k, j)' <=> Queued(k, j) \/ (k = reserved /\ j = j0)
    BY <2>1, <2>3, <2>4 DEF Queued
  <2>6. \A j : InHand(j)' <=> InHand(j) BY <1>3 DEF InHand
  <2>7. \A j \in Jobs : Holding(c, j) <=> j = j0 BY <1>1, <1>2 DEF Holding
  <2>8. 0 .. reserved' - 1 = (0 .. reserved - 1) \cup {reserved} /\ reserved \notin 0 .. reserved - 1
    BY <2>1
  <2>9. \A j \in Jobs : Waiting(j)' <=> Waiting(j)
    <3>1. \A k, j : Queued(k, j) => k \in 0 .. reserved - 1 BY <2>4 DEF Queued
    <3>2. \A k, j : Queued(k, j)' => k \in 0 .. reserved' - 1 BY DEF Queued, Pending
    <3>3. \E k : Queued(k, j0)' BY <2>5
    <3> QED BY <2>2, <2>5, <2>6, <2>7, <3>1, <3>2, <3>3 DEF Waiting
  <2>10. OnePlace'
    <3>1. \A k, j : Queued(k, j) => k \in 0 .. reserved - 1 /\ k # reserved BY <2>4, <2>8 DEF Queued
    <3> QED BY <1>0, <1>3, <2>2, <2>5, <2>6, <2>7, <2>9, <3>1 DEF OnePlace
  <2>11. SignalledOnce' BY <1>0, <1>3 DEF SignalledOnce
  <2>12. NoJobDropped'
    <3>1. \A j \in 1 .. calls : j \in Jobs BY DEF TypeOK, Jobs
    <3> QED BY <1>0, <1>3, <2>9, <3>1 DEF NoJobDropped
  <2>13. WorkerPhase'
    <3>1. spc = "idle" BY <1>0, <1>2 DEF StopPhase
    <3> QED BY <1>0, <1>2, <1>3, <2>1, <3>1 DEF WorkerPhase
  <2>14. StopPhase'
    <3>1. spc = "idle" /\ ~stop BY <1>0, <1>2 DEF StopPhase
    <3>2. \A k \in 0 .. reserved' - 1 :
            k \notin published' =>
              \E z \in Callers : (cpc'[z] = "publish" /\ cticket'[z] = k) \/ k \in cbuf'[z]
      <4> SUFFICES ASSUME NEW k \in 0 .. reserved' - 1, k \notin published'
                   PROVE  \E z \in Callers : (cpc'[z] = "publish" /\ cticket'[z] = k) \/ k \in cbuf'[z]
        OBVIOUS
      <4>1. CASE k = reserved BY <2>1, <4>1
      <4>2. CASE k # reserved
        <5>1. PICK z \in Callers : (cpc[z] = "publish" /\ cticket[z] = k) \/ k \in cbuf[z]
          BY <1>0, <2>1, <2>8, <4>2 DEF StopPhase
        <5>2. z # c BY <1>2, <5>1
        <5> QED BY <1>3, <2>1, <5>1, <5>2
      <4> QED BY <4>1, <4>2
    <3>3. ~waitMayFail => wpc # "exited" BY <1>0, <3>1 DEF StopPhase
    <3> QED BY <1>0, <1>2, <1>3, <2>1, <3>1, <3>2, <3>3 DEF StopPhase
  <2> QED BY <2>10, <2>11, <2>12, <2>13, <2>14 DEF JobPlaces
<1>5. CASE CGoto(c, "fail_open") /\ UNCHANGED <<queue, cticket>>
  <2>1. /\ cpc'[c] = "fail_open"
        /\ \A z \in Callers \ {c} : cpc'[z] = cpc[z]
        /\ UNCHANGED <<queue, flags, worker, cjob, cticket, cbuf, spc, calls, signals>>
    BY <1>3, <1>5 DEF TypeOK
  <2> QED BY <1>1, <1>2, <2>1, CallerKeepsJob DEF Holding
<1> QED BY <1>4, <1>5 DEF TryEnqueue

\* The worker takes the claimed job out of the queue.
LEMMA WorkerTakePlaces ==
    ASSUME TypeOK, JobPlaces, UNCHANGED platform, WorkerTake
    PROVE  JobPlaces'
<1> USE SleepAssumption DEF queue, flags, platform, callers
<1>0. OnePlace /\ SignalledOnce /\ WorkerPhase /\ StopPhase /\ NoJobDropped BY DEF JobPlaces
<1>1. PICK j0 \in Jobs, k0 \in 0 .. reserved - 1 : k0 = claimed - 1 /\ j0 = accepted[k0]
  BY <1>0 DEF TypeOK, WorkerTake, WorkerPhase
<1>2. /\ wpc = "take" /\ wpc' = (IF wret = "unarm" THEN "unarm" ELSE "process") /\ wjob' = j0
      /\ UNCHANGED <<accepted, reserved, published, claimed, flags, wret, callers, spc, calls, signals>>
  BY <1>1 DEF WorkerTake, Q!Deliver
<1>3. \A k : Pending(k)' <=> Pending(k) /\ k # k0
  BY <1>1, <1>2 DEF TypeOK, Pending
<1>4. Pending(k0) BY <1>1, <1>2 DEF TypeOK, Pending
<1>5. \A k, j : Queued(k, j)' <=> Queued(k, j) /\ k # k0 BY <1>2, <1>3 DEF Queued
<1>6. \A j : Queued(k0, j) <=> j = j0 BY <1>1, <1>4 DEF Queued
<1>7. \A j : ~InHand(j) /\ (InHand(j)' <=> j = j0) BY <1>2 DEF InHand
<1>8. \A z, j : Holding(z, j)' <=> Holding(z, j) BY <1>2 DEF Holding
<1>9. \A j \in Jobs : Waiting(j)' <=> Waiting(j) BY <1>2, <1>5, <1>6, <1>7, <1>8 DEF Waiting
<1>10. OnePlace' BY <1>0, <1>2, <1>5, <1>6, <1>7, <1>8, <1>9 DEF OnePlace
<1>11. SignalledOnce' BY <1>0, <1>2 DEF SignalledOnce
<1>12. NoJobDropped'
  <2>1. \A j \in 1 .. calls : j \in Jobs BY DEF TypeOK, Jobs
  <2> QED BY <1>0, <1>2, <1>9, <2>1 DEF NoJobDropped
<1>13. WorkerPhase' BY <1>0, <1>2 DEF WorkerPhase
<1>14. StopPhase' BY <1>0, <1>2 DEF StopPhase
<1> QED BY <1>10, <1>11, <1>12, <1>13, <1>14 DEF JobPlaces

\* Starting a worker resets a queue nobody uses.
LEMMA EnsureSlowPlaces ==
    ASSUME TypeOK, JobPlaces, UNCHANGED platform, NEW c \in Callers, EnsureSlow(c)
    PROVE  JobPlaces'
<1> USE SleepAssumption DEF queue, flags, worker, platform, CGoto
<1>0. OnePlace /\ SignalledOnce /\ WorkerPhase /\ StopPhase /\ NoJobDropped BY DEF JobPlaces
<1>1. /\ cpc[c] = "ensure_slow" /\ spc = "idle" /\ cjob[c] \in 1 .. calls
      /\ UNCHANGED <<cjob, cticket, cbuf, spc, calls, signals>>
  BY <1>0 DEF EnsureSlow, WorkerPhase
<1>2. CASE ready
  <2>1. CGoto(c, "enqueue") /\ UNCHANGED <<queue, flags, worker>> BY <1>2, Zenon DEF EnsureSlow
  <2>2. cpc'[c] = "enqueue" /\ \A z \in Callers \ {c} : cpc'[z] = cpc[z] BY <2>1 DEF TypeOK
  <2> QED BY <1>1, <1>2, <2>1, <2>2, CallerKeepsJob DEF Holding
<1>3. CASE ~ready
  <2>1. /\ ResetQueue
        /\ \/ CGoto(c, "fail_open") /\ stop' \in {stop, FALSE} /\ UNCHANGED <<ready, worker>>
           \/ /\ stop' = FALSE /\ wpc' = "drain" /\ ready' = TRUE /\ CGoto(c, "enqueue")
              /\ UNCHANGED <<wjob, wret, wbuf>>
    BY <1>3, Zenon DEF EnsureSlow
  <2>2. /\ cpc'[c] \in {"fail_open", "enqueue"} /\ (cpc'[c] = "enqueue" => ready')
        /\ \A z \in Callers \ {c} : cpc'[z] = cpc[z]
    BY <2>1 DEF TypeOK
  <2>3. ~stop /\ ~stop'
    <3>1. ~stop BY <1>0, <1>1 DEF StopPhase
    <3>2. CASE stop' = stop BY <3>1, <3>2
    <3>3. CASE stop' = FALSE BY <3>1, <3>3
    <3> QED BY <2>1, <3>2, <3>3
  <2>4. /\ wpc = "none" /\ reserved = 0 /\ wpc' \in {"none", "drain"} /\ (~ready' => wpc' = "none")
        /\ reserved' = 0 /\ claimed' = 0 /\ published' = {}
    BY <1>0, <1>1, <1>3, <2>1 DEF WorkerPhase, ResetQueue
  <2>5. \A k, j : ~Queued(k, j) /\ ~Queued(k, j)' BY <2>4 DEF Queued, Pending
  <2>6. \A j : ~InHand(j) /\ ~InHand(j)' BY <2>4 DEF InHand
  <2>7. \A z \in Callers : \A j : Holding(z, j)' <=> Holding(z, j) BY <1>1, <2>2 DEF Holding
  <2>8. OnePlace' /\ SignalledOnce' BY <1>0, <1>1, <2>5, <2>6, <2>7, NothingMoves
  <2>9. NoJobDropped'
    <3>1. \A j : Waiting(j)' <=> Waiting(j) BY <2>5, <2>6, <2>7 DEF Waiting
    <3> QED BY <1>0, <1>1, <3>1 DEF NoJobDropped
  <2>10. \A z \in Callers : cpc[z] \notin {"enqueue", "publish", "check", "cas", "set_event"}
    BY <1>0, <1>3 DEF WorkerPhase
  <2>11. WorkerPhase' BY <1>0, <1>1, <2>2, <2>4, <2>10 DEF WorkerPhase
  <2>12. StopPhase' BY <1>0, <1>1, <2>2, <2>3, <2>4, <2>10 DEF StopPhase
  <2> QED BY <2>8, <2>9, <2>11, <2>12 DEF JobPlaces
<1> QED BY <1>2, <1>3

\* stop_sleep_worker begins with no call in progress; the worker it joins has
\* drained the queue, unless its wait failed.
LEMMA StopPlaces ==
    ASSUME TypeOK, JobPlaces, UNCHANGED platform, stop_sleep_worker
    PROVE  JobPlaces'
<1> USE SleepAssumption DEF queue, flags, platform, callers
<1>0. OnePlace /\ SignalledOnce /\ WorkerPhase /\ StopPhase /\ NoJobDropped BY DEF JobPlaces
<1>1. ASSUME UNCHANGED <<queue, wjob, wret, callers, calls, signals>>,
             wpc' = wpc \/ (wpc \notin {"take", "unarm", "process"} /\ wpc' \notin {"take", "unarm", "process"})
      PROVE  OnePlace' /\ SignalledOnce' /\ NoJobDropped'
  <2>1. \A k, j : Queued(k, j)' <=> Queued(k, j) BY <1>1, QueuedSame
  <2>2. \A j : InHand(j)' <=> InHand(j) BY <1>1 DEF InHand
  <2>3. \A z, j : Holding(z, j)' <=> Holding(z, j) BY <1>1 DEF Holding
  <2>4. \A j : Waiting(j)' <=> Waiting(j) BY <1>1, <2>1, <2>2, <2>3 DEF Waiting
  <2>5. NoJobDropped' BY <1>0, <1>1, <2>4 DEF NoJobDropped
  <2> QED BY <1>0, <1>1, <2>1, <2>2, <2>3, <2>5, NothingMoves
<1>2. CASE StopBegin
  <2>1. OnePlace' /\ SignalledOnce' /\ NoJobDropped' BY <1>1, <1>2 DEF StopBegin, worker
  <2>2. WorkerPhase' BY <1>0, <1>2 DEF StopBegin, worker, WorkerPhase
  <2>3. StopPhase' BY <1>0, <1>2 DEF StopBegin, worker, StopPhase
  <2> QED BY <2>1, <2>2, <2>3 DEF JobPlaces
<1>3. CASE StopRequest
  <2>1. OnePlace' /\ SignalledOnce' /\ NoJobDropped' BY <1>1, <1>3 DEF StopRequest, worker
  <2>2. WorkerPhase' BY <1>0, <1>3 DEF StopRequest, worker, WorkerPhase
  <2>3. StopPhase' BY <1>0, <1>3 DEF StopRequest, worker, StopPhase
  <2> QED BY <2>1, <2>2, <2>3 DEF JobPlaces
<1>4. CASE StopJoin
  <2>1. OnePlace' /\ SignalledOnce' /\ NoJobDropped' BY <1>1, <1>4 DEF StopJoin
  <2>2. WorkerPhase' BY <1>0, <1>4 DEF StopJoin, WorkerPhase
  <2>3. StopPhase' BY <1>0, <1>4 DEF StopJoin, StopPhase
  <2> QED BY <2>1, <2>2, <2>3 DEF JobPlaces
<1>5. CASE StopCleanup
  <2>1. /\ spc = "cleanup" /\ spc' = "idle" /\ wpc = "none" /\ ~ready /\ stop' = FALSE
        /\ reserved' = 0 /\ claimed' = 0 /\ published' = {}
        /\ UNCHANGED <<ready, worker, callers, calls, signals>>
    BY <1>0, <1>5 DEF StopCleanup, ResetQueue, WorkerPhase, StopPhase
  <2>2. \A k, j : ~Queued(k, j)' BY <2>1 DEF Queued, Pending
  <2>3. \A j : ~InHand(j) /\ ~InHand(j)' BY <2>1 DEF InHand, worker
  <2>4. \A z, j : Holding(z, j)' <=> Holding(z, j) BY <2>1 DEF Holding
  <2>5. OnePlace' /\ SignalledOnce' BY <1>0, <2>1, <2>2, <2>3, <2>4, NothingMoves
  <2>6. NoJobDropped'
    <3> SUFFICES ASSUME ~waitMayFail PROVE \A j \in 1 .. calls : signals[j] = 1 \/ Waiting(j)'
      BY <2>1 DEF NoJobDropped
    <3>1. claimed = reserved BY <1>0, <2>1 DEF StopPhase
    <3>2. \A k, j : ~Queued(k, j) BY <2>1, <3>1 DEF TypeOK, Queued, Pending
    <3>3. \A j : Waiting(j)' <=> Waiting(j) BY <2>2, <2>3, <2>4, <3>2 DEF Waiting
    <3> QED BY <1>0, <3>3 DEF NoJobDropped
  <2>7. WorkerPhase' BY <1>0, <2>1 DEF WorkerPhase, worker
  <2>8. StopPhase' BY <1>0, <2>1 DEF StopPhase, worker
  <2> QED BY <2>5, <2>6, <2>7, <2>8 DEF JobPlaces
<1> QED BY <1>2, <1>3, <1>4, <1>5 DEF stop_sleep_worker

----------------------------------------------------------------------------
(* Theorems *)

\* Nothing has been called yet.
LEMMA InitPlaces == Init => TypeOK /\ JobPlaces
<1> SUFFICES ASSUME Init PROVE TypeOK /\ JobPlaces
  OBVIOUS
<1> USE SleepAssumption DEF Init
<1>1. TypeOK
  <2>1. accepted \in [0 .. reserved - 1 -> Jobs] BY EmptyQueue DEF Q!Init
  <2>2. reserved \in Nat /\ claimed \in 0 .. reserved /\ published \subseteq 0 .. reserved - 1
    BY DEF Q!Init
  <2>3. wbuf \in Seq(BOOLEAN) OBVIOUS
  <2>4. storeBuffers \in BOOLEAN /\ waitMayFail \in BOOLEAN BY Zenon
  <2>5. /\ ready \in BOOLEAN /\ stop \in BOOLEAN /\ waiting \in BOOLEAN BY Zenon
  <2>6. /\ cpc \in [Callers -> CallerPCs] /\ cjob \in [Callers -> Jobs \cup {NoJob}]
        /\ cticket \in [Callers -> Nat] /\ cbuf \in [Callers -> SUBSET Nat]
        /\ signals \in [Jobs -> Nat] /\ calls \in 0 .. MaxCalls
    BY DEF CallerPCs
  <2> QED BY <2>1, <2>2, <2>3, <2>4, <2>5, <2>6 DEF TypeOK, WorkerPCs, StopPCs
<1>2. /\ reserved = 0 /\ claimed = 0 BY DEF Q!Init
<1>3. \A j : /\ \A c \in Callers : ~Holding(c, j)
             /\ \A k : ~Queued(k, j)
             /\ ~InHand(j) /\ ~Waiting(j)
  BY <1>2 DEF Holding, Queued, Pending, InHand, Waiting
<1>4. OnePlace BY <1>3 DEF OnePlace
<1>5. WorkerPhase BY <1>2 DEF WorkerPhase
<1>6. StopPhase BY <1>2 DEF StopPhase
<1>7. SignalledOnce /\ NoJobDropped BY DEF SignalledOnce, NoJobDropped
<1> QED BY <1>1, <1>4, <1>5, <1>6, <1>7 DEF JobPlaces

\* Every job of vkLatencySleepNV is in one place until its semaphore is
\* signalled, in every state of callers, worker, store buffers and shutdown.
THEOREM SleepInvariant == Spec => [](TypeOK /\ JobPlaces)
<1>1. Init => TypeOK /\ JobPlaces BY InitPlaces
<1>2. TypeOK /\ JobPlaces /\ [Next]_vars => TypeOK' /\ JobPlaces'
  <2> SUFFICES ASSUME TypeOK, JobPlaces, [Next]_vars PROVE TypeOK' /\ JobPlaces'
    OBVIOUS
  <2>0. WorkerPhase BY DEF JobPlaces
  <2>1. CASE UNCHANGED vars
    <3>1. /\ UNCHANGED <<accepted, reserved, published, claimed, delivered, ready, stop, waiting, event>>
          /\ UNCHANGED <<wpc, wjob, wret, wbuf, cpc, cjob, cticket, cbuf, spc, calls, signals>>
          /\ UNCHANGED <<storeBuffers, waitMayFail>>
      BY <2>1 DEF vars, queue, flags, worker, callers, platform
    <3>2. TypeOK' BY <3>1 DEF TypeOK
    <3>3. JobPlaces'
      BY <3>1 DEF JobPlaces, OnePlace, WorkerPhase, StopPhase, SignalledOnce, NoJobDropped,
                  Waiting, Holding, Queued, Pending, InHand
    <3> QED BY <3>2, <3>3
  <2>2. ASSUME NEW c \in Callers, UNCHANGED platform,
               hkvkLatencySleepNV(c) \/ CallerStep(c) \/ CallerDrain(c)
        PROVE  TypeOK' /\ JobPlaces'
    BY <2>0, <2>2, CallerType, NewCallPlaces, EnsureSlowPlaces, TryEnqueuePlaces, FailOpenPlaces, CallerControl
       DEF CallerStep
  <2>3. ASSUME UNCHANGED platform,
               emulated_sleep_worker \/ WorkerWaitFails \/ stop_sleep_worker \/ WorkerStoreDrain
        PROVE  TypeOK' /\ JobPlaces'
    BY <2>0, <2>3, WorkerType, WorkerControl, WorkerDequeues, WorkerTakePlaces, WorkerProcessPlaces,
       StopPlaces, StoreDrainKeeps
       DEF emulated_sleep_worker
  <2> QED BY <2>1, <2>2, <2>3 DEF Next, StoreDrain
<1> QED BY <1>1, <1>2, PTL DEF Spec

\* No semaphore is signalled twice: fail-open and the worker never both answer
\* the same call.
THEOREM SleepSignalledOnce == Spec => []SignalledOnce
<1>1. TypeOK /\ JobPlaces => SignalledOnce BY DEF JobPlaces
<1> QED BY <1>1, SleepInvariant, PTL

\* Shutdown and restart forget no job while the event wait works.
THEOREM SleepNoJobDropped == Spec => []NoJobDropped
<1>1. TypeOK /\ JobPlaces => NoJobDropped BY DEF JobPlaces
<1> QED BY <1>1, SleepInvariant, PTL

----------------------------------------------------------------------------
(* The queue is used as its implementation demands *)

\* Every claimed ticket is delivered before the worker goes on.
LEMMA ClaimedDeliveredStep ==
    ASSUME TypeOK, JobPlaces, ClaimedDelivered, [Next]_vars
    PROVE  ClaimedDelivered'
<1> USE DEF queue, flags, worker, callers, platform
<1>0. WorkerPhase BY DEF JobPlaces
<1>1. ASSUME UNCHANGED <<claimed, delivered>>, wpc = "take" => wpc' = "take"
      PROVE  ClaimedDelivered'
  BY <1>1 DEF ClaimedDelivered, Q!Released
<1>2. CASE UNCHANGED vars BY <1>1, <1>2 DEF vars
<1>3. ASSUME NEW c \in Callers, hkvkLatencySleepNV(c) \/ CallerStep(c) \/ CallerDrain(c)
      PROVE  ClaimedDelivered'
  <2>1. CASE EnsureSlow(c)
    <3>1. CASE ready
      <4>1. UNCHANGED <<queue, worker>> BY <2>1, <3>1, Zenon DEF EnsureSlow
      <4> QED BY <1>1, <4>1
    <3>2. CASE ~ready
      <4>1. ResetQueue BY <2>1, <3>2, Zenon DEF EnsureSlow
      <4> QED BY <4>1 DEF ResetQueue, ClaimedDelivered
    <3> QED BY <3>1, <3>2
  <2>2. CASE Publish(c)
    <3>1. UNCHANGED queue \/ Q!Publish(cticket[c]) BY <2>2, Zenon DEF Publish
    <3>2. UNCHANGED worker BY <2>2 DEF Publish
    <3> QED BY <1>1, <3>1, <3>2 DEF Q!Publish
  <2>3. CASE hkvkLatencySleepNV(c) \/ EnsureFast(c) \/ CheckWaiting(c) \/ CasWaiting(c)
             \/ CallerSetEvent(c) \/ FailOpen(c)
    BY <1>1, <2>3 DEF hkvkLatencySleepNV, EnsureFast, CheckWaiting, CasWaiting, CallerSetEvent, FailOpen
  <2>4. CASE TryEnqueue(c) BY <1>1, <2>4 DEF TryEnqueue, Q!Reserve
  <2>5. CASE CallerDrain(c) BY <1>1, <2>5 DEF CallerDrain, Q!Publish
  <2> QED BY <1>3, <2>1, <2>2, <2>3, <2>4, <2>5 DEF CallerStep
<1>4. CASE WorkerDrain \/ WorkerRecheck \/ WorkerFinalDrain
  <2>1. ASSUME NEW here \in {"drain", "recheck", "final"}, NEW ret, NEW empty, WorkerDequeue(here, ret, empty)
        PROVE  ClaimedDelivered'
    <3>1. wpc # "take" BY <2>1 DEF WorkerDequeue
    <3>2. CASE Q!Claim /\ wpc' = "take"
      <4>1. claimed' = claimed + 1 /\ claimed \in Nat /\ UNCHANGED delivered
        BY <3>2 DEF TypeOK, Q!Claim
      <4> QED BY <3>1, <3>2, <4>1 DEF ClaimedDelivered, Q!Released
    <3>3. CASE UNCHANGED queue BY <1>1, <3>1, <3>3
    <3> QED BY <2>1, <3>2, <3>3 DEF WorkerDequeue
  <2> QED BY <1>4, <2>1 DEF WorkerDrain, WorkerRecheck, WorkerFinalDrain
<1>5. CASE WorkerTake
  <2>1. PICK d : d = <<claimed - 1, accepted[claimed - 1]>> OBVIOUS
  <2>2. delivered' = delivered \cup {d} /\ claimed' = claimed /\ d[1] = claimed - 1
    BY <1>5, <2>1 DEF WorkerTake, Q!Deliver
  <2> QED BY <2>2 DEF ClaimedDelivered, Q!Released
<1>6. CASE \/ WorkerUnarm \/ WorkerProcess \/ WorkerStopCheck \/ WorkerArm \/ WorkerStopCheck2
           \/ WorkerWait \/ WorkerDisarm \/ WorkerWaitFails \/ WorkerStoreDrain
           \/ StopBegin \/ StopRequest \/ StopJoin
  BY <1>1, <1>6 DEF WorkerUnarm, WorkerProcess, WorkerStopCheck, WorkerArm, WorkerStopCheck2, WorkerWait,
     WorkerDisarm, WorkerWaitFails, WorkerStoreDrain, StopBegin, StopRequest, StopJoin, WGoto
<1>7. CASE StopCleanup
  BY <1>7 DEF StopCleanup, ResetQueue, ClaimedDelivered
<1> QED BY <1>2, <1>3, <1>4, <1>5, <1>6, <1>7
    DEF Next, emulated_sleep_worker, stop_sleep_worker, StoreDrain

\* A reset while no ticket is in use is a step of the abstract queue.
LEMMA ResetIsProper ==
    ASSUME TypeOK, ResetQueue, \A k \in 0 .. reserved - 1 : k \in published,
           \A k \in 0 .. claimed - 1 : Q!Released(k)
    PROVE  Q!Reset
BY DEF ResetQueue, Q!Reset

\* Every step is a step of the abstract queue or leaves it alone.
LEMMA QueueStep ==
    ASSUME TypeOK, JobPlaces, ClaimedDelivered, [Next]_vars
    PROVE  [Q!Next]_(Q!qvars)
<1> USE DEF queue, flags, worker, callers, platform
<1>0. WorkerPhase /\ StopPhase BY DEF JobPlaces
<1>1. CASE UNCHANGED queue BY <1>1 DEF Q!qvars
<1>2. CASE UNCHANGED vars BY <1>1, <1>2 DEF vars
<1>3. ASSUME NEW k \in Nat, Q!Publish(k) PROVE Q!Next
  <2>1. k \in 0 .. reserved - 1 BY <1>3 DEF TypeOK, Q!Publish
  <2> QED BY <1>3, <2>1 DEF Q!Next
<1>4. ASSUME NEW c \in Callers, hkvkLatencySleepNV(c) \/ CallerStep(c) \/ CallerDrain(c)
      PROVE  [Q!Next]_(Q!qvars)
  <2>1. CASE EnsureSlow(c)
    <3>1. CASE ready
      <4>1. UNCHANGED queue BY <2>1, <3>1, Zenon DEF EnsureSlow
      <4> QED BY <1>1, <4>1
    <3>2. CASE ~ready
      <4>1. ResetQueue BY <2>1, <3>2, Zenon DEF EnsureSlow
      <4>2. reserved = 0 /\ claimed = 0 BY <1>0, <2>1, <3>2 DEF TypeOK, EnsureSlow, WorkerPhase
      <4>3. Q!Reset BY <4>1, <4>2, ResetIsProper
      <4> QED BY <4>3 DEF Q!Next
    <3> QED BY <3>1, <3>2
  <2>2. CASE Publish(c)
    <3>1. UNCHANGED queue \/ Q!Publish(cticket[c]) BY <2>2, Zenon DEF Publish
    <3>2. cticket[c] \in Nat BY DEF TypeOK
    <3> QED BY <1>1, <1>3, <3>1, <3>2
  <2>3. CASE hkvkLatencySleepNV(c) \/ EnsureFast(c) \/ CheckWaiting(c) \/ CasWaiting(c)
             \/ CallerSetEvent(c) \/ FailOpen(c)
    BY <1>1, <2>3 DEF hkvkLatencySleepNV, EnsureFast, CheckWaiting, CasWaiting, CallerSetEvent, FailOpen
  <2>4. CASE TryEnqueue(c)
    <3>1. cjob[c] \in Jobs BY <1>0, <2>4, SleepAssumption DEF TypeOK, TryEnqueue, WorkerPhase, Jobs
    <3>2. Q!Reserve(cjob[c]) \/ UNCHANGED queue BY <2>4 DEF TryEnqueue
    <3> QED BY <1>1, <3>1, <3>2 DEF Q!Next
  <2>5. CASE CallerDrain(c)
    <3>1. PICK k \in cbuf[c] : Q!Publish(k) BY <2>5 DEF CallerDrain
    <3>2. k \in Nat BY <3>1 DEF TypeOK
    <3> QED BY <1>3, <3>1, <3>2
  <2> QED BY <1>4, <2>1, <2>2, <2>3, <2>4, <2>5 DEF CallerStep
<1>5. CASE WorkerDrain \/ WorkerRecheck \/ WorkerFinalDrain
  <2>1. Q!Claim \/ UNCHANGED queue
    BY <1>5 DEF WorkerDrain, WorkerRecheck, WorkerFinalDrain, WorkerDequeue
  <2> QED BY <1>1, <2>1 DEF Q!Next
<1>6. CASE WorkerTake
  <2>1. claimed - 1 \in 0 .. reserved - 1 BY <1>0, <1>6 DEF TypeOK, WorkerTake, WorkerPhase
  <2> QED BY <1>6, <2>1 DEF WorkerTake, Q!Next
<1>7. CASE \/ WorkerUnarm \/ WorkerProcess \/ WorkerStopCheck \/ WorkerArm \/ WorkerStopCheck2
           \/ WorkerWait \/ WorkerDisarm \/ WorkerWaitFails \/ WorkerStoreDrain
           \/ StopBegin \/ StopRequest \/ StopJoin
  BY <1>1, <1>7 DEF WorkerUnarm, WorkerProcess, WorkerStopCheck, WorkerArm, WorkerStopCheck2, WorkerWait,
     WorkerDisarm, WorkerWaitFails, WorkerStoreDrain, StopBegin, StopRequest, StopJoin
<1>8. CASE StopCleanup
  <2>1. /\ \A k \in 0 .. reserved - 1 : k \in published
        /\ wpc = "none" /\ ResetQueue
    BY <1>0, <1>8 DEF StopCleanup, StopPhase, WorkerPhase
  <2>2. \A k \in 0 .. claimed - 1 : Q!Released(k) BY <2>1 DEF ClaimedDelivered
  <2>3. Q!Reset BY <2>1, <2>2, ResetIsProper
  <2> QED BY <2>3 DEF Q!Next
<1> QED BY <1>2, <1>4, <1>5, <1>6, <1>7, <1>8
    DEF Next, emulated_sleep_worker, stop_sleep_worker, StoreDrain

\* The sleep worker keeps the contract of its queue, including the one reset()
\* has; with RingRefinesQueue, fixed_mpmc_ring can stand for that queue.
THEOREM SleepUsesQueue == Spec => UsesQueueProperly
<1>1. Init => Q!Init /\ ClaimedDelivered BY DEF Init, Q!Init, ClaimedDelivered
<1>2. TypeOK /\ JobPlaces /\ ClaimedDelivered /\ [Next]_vars => ClaimedDelivered'
  BY ClaimedDeliveredStep
<1>3. TypeOK /\ JobPlaces /\ ClaimedDelivered /\ [Next]_vars => [Q!Next]_(Q!qvars)
  BY QueueStep
<1> QED BY <1>1, <1>2, <1>3, SleepInvariant, PTL DEF Spec, UsesQueueProperly, Q!Spec

=============================================================================
