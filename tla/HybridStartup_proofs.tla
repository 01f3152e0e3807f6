----------------------- MODULE HybridStartup_proofs -----------------------
(***************************************************************************)
(* Proofs about HybridStartup for every set of frontends, threads and       *)
(* policies: one thread takes the startup decision, the owner it freezes    *)
(* stays, and nobody else ever drives the session.                          *)
(***************************************************************************)
EXTENDS HybridStartup, TLAPS

----------------------------------------------------------------------------
(* Control types *)

\* What a callback starts with, and what it leaves behind, is a call.
LEMMA CallTypes ==
    /\ NoCall \in CallType
    /\ \A f \in Frontends, n \in Nat :
        /\ Call(f, "sleep", "SimulationStart", n) \in CallType
        /\ Call(f, "fg", "none", 0) \in CallType
        /\ \A m \in Markers : Call(f, "marker", m, n) \in CallType
    /\ \A c \in CallType, r \in {"resolve", "accepted"} :
        /\ [c EXCEPT !.ret = r, !.eligible = frontend_selection_mask] \in CallType
        /\ [c EXCEPT !.ret = r, !.eligible = frontend_selection_mask].ret = r
        /\ [c EXCEPT !.ret = r, !.eligible = frontend_selection_mask].frontend = c.frontend
<1>1. frontend_selection_mask \in SUBSET Frontends BY DEF frontend_selection_mask
<1>2. NoCall \in CallType BY DEF NoCall, Call, CallType
<1>3. \A f \in Frontends, n \in Nat :
        /\ Call(f, "sleep", "SimulationStart", n) \in CallType
        /\ Call(f, "fg", "none", 0) \in CallType
        /\ \A m \in Markers : Call(f, "marker", m, n) \in CallType
  BY DEF Call, CallType
<1>4. ASSUME NEW c \in CallType, NEW r \in {"resolve", "accepted"}
      PROVE  /\ [c EXCEPT !.ret = r, !.eligible = frontend_selection_mask] \in CallType
             /\ [c EXCEPT !.ret = r, !.eligible = frontend_selection_mask].ret = r
             /\ [c EXCEPT !.ret = r, !.eligible = frontend_selection_mask].frontend = c.frontend
  BY <1>1 DEF CallType
<1> QED BY <1>2, <1>3, <1>4, Zenon

\* A step that moves thread t, starts or changes its call, and leaves the
\* other threads alone keeps the control types.
LEMMA ThreadControl ==
    ASSUME ControlOK, NEW t \in Threads,
           NEW l \in PCs, pc' = [pc EXCEPT ![t] = l],
           NEW c \in CallType, call' = [call EXCEPT ![t] = c],
           c.frontend = AutoInput => l = "idle",
           l \in {"lock_now", "lock_start", "lock_cas", "lock_decide", "lock_publish"} =>
               c.ret # "none",
           DOMAIN desired' = DOMAIN desired,
           hotpath' \in BOOLEAN, backend' \in BOOLEAN, lock_state' \in 0 .. 2,
           drivers' \subseteq Frontends,
           UNCHANGED <<dpc, torn, policy>>
    PROVE  ControlOK'
<1>1. \A z \in Threads : pc'[z] = (IF z = t THEN l ELSE pc[z]) /\ call'[z] = (IF z = t THEN c ELSE call[z])
  BY DEF ControlOK
<1>2. pc' \in [Threads -> PCs] /\ call' \in [Threads -> CallType]
  BY DEF ControlOK
<1>3. \A z \in Threads : call'[z].frontend = AutoInput => pc'[z] = "idle"
  BY <1>1 DEF ControlOK
<1>4. \A z \in Threads :
        pc'[z] \in {"lock_now", "lock_start", "lock_cas", "lock_decide", "lock_publish"} =>
            call'[z].ret # "none"
  BY <1>1 DEF ControlOK
<1> QED BY <1>2, <1>3, <1>4 DEF ControlOK

\* The same for a step that leaves the call as it is.
LEMMA MoveControl ==
    ASSUME ControlOK, NEW t \in Threads, pc[t] # "idle",
           NEW l \in PCs, pc' = [pc EXCEPT ![t] = l],
           call' = call,
           l \in {"lock_now", "lock_start", "lock_cas", "lock_decide", "lock_publish"} =>
               call[t].ret # "none",
           DOMAIN desired' = DOMAIN desired,
           hotpath' \in BOOLEAN, backend' \in BOOLEAN, lock_state' \in 0 .. 2,
           drivers' \subseteq Frontends,
           UNCHANGED <<dpc, torn, policy>>
    PROVE  ControlOK'
BY DEF ControlOK

\* The same for a callback that returns.
LEMMA ReturnControl ==
    ASSUME ControlOK, NEW t \in Threads, Return(t),
           hotpath' \in BOOLEAN, backend' \in BOOLEAN, lock_state' \in 0 .. 2,
           drivers' \subseteq Frontends,
           UNCHANGED <<dpc, torn, policy>>
    PROVE  ControlOK'
<1>1. "idle" \in PCs BY DEF PCs
<1>2. NoCall.frontend = AutoInput BY DEF NoCall, Call
<1>3. DOMAIN desired' = DOMAIN desired BY DEF Return
<1> QED BY CallTypes, ThreadControl, <1>1, <1>2, <1>3 DEF Return, Goto

\* Entering a frontend callback keeps the control types.
LEMMA CallbackControl ==
    ASSUME ControlOK, NEW t \in Threads, Callback(t), UNCHANGED <<policy, torn>>
    PROVE  ControlOK'
<1> USE DEF PCs, Goto, teardown
<1>0. backend' \in BOOLEAN
  <2>1. backend \in BOOLEAN BY DEF ControlOK
  <2>2. UNCHANGED backend \/ backend' = TRUE
    BY Zenon DEF Callback, FrontendSleep, FrontendSetMarker, FrontendSetFgType, EntryBackend, EnsureBackend
  <2> QED BY <2>1, <2>2
<1>1. ASSUME NEW f \in Frontends, NEW n \in 1 .. MaxFrame, FrontendSleep(t, f, n)
      PROVE  ControlOK'
  <2>1. n \in Nat /\ f # AutoInput BY StartupAssumption, ArbiterAssumption
  <2> DEFINE c == Call(f, "sleep", "SimulationStart", n)
  <2>2. c \in CallType /\ c.frontend = f BY <2>1, CallTypes DEF Call
  <2>3. PICK l \in {"hot", "hot_selected"} : pc' = [pc EXCEPT ![t] = l]
    BY <1>1 DEF FrontendSleep, Begin
  <2> HIDE DEF c
  <2>4. call' = [call EXCEPT ![t] = c] BY <1>1 DEF FrontendSleep, Begin, c
  <2>5. UNCHANGED <<hotpath, lock_state, desired, drivers, dpc>> BY <1>1 DEF FrontendSleep, Begin
  <2> QED BY <1>0, <2>1, <2>2, <2>3, <2>4, <2>5, ThreadControl DEF ControlOK
<1>2. ASSUME NEW f \in Frontends, NEW n \in 1 .. MaxFrame, NEW m \in Markers,
             FrontendSetMarker(t, f, m, n)
      PROVE  ControlOK'
  <2>1. n \in Nat /\ f # AutoInput BY StartupAssumption, ArbiterAssumption
  <2> DEFINE c == Call(f, "marker", m, n)
  <2>2. c \in CallType /\ c.frontend = f BY <2>1, CallTypes DEF Call
  <2> HIDE DEF c
  <2>4. call' = [call EXCEPT ![t] = c] /\ pc' = [pc EXCEPT ![t] = "hot"]
    BY <1>2 DEF FrontendSetMarker, Begin, c
  <2>5. UNCHANGED <<hotpath, lock_state, desired, drivers, dpc>> BY <1>2 DEF FrontendSetMarker, Begin
  <2> QED BY <1>0, <2>1, <2>2, <2>4, <2>5, ThreadControl DEF ControlOK
<1>3. ASSUME NEW f \in Frontends, FrontendSetFgType(t, f)
      PROVE  ControlOK'
  <2>1. f # AutoInput BY ArbiterAssumption
  <2> DEFINE c == Call(f, "fg", "none", 0)
  <2>2. c \in CallType /\ c.frontend = f BY <2>1, CallTypes DEF Call
  <2> HIDE DEF c
  <2>4. call' = [call EXCEPT ![t] = c] /\ pc' = [pc EXCEPT ![t] = "accept"]
    BY <1>3 DEF FrontendSetFgType, Begin, c
  <2>5. UNCHANGED <<hotpath, lock_state, desired, drivers, dpc>> BY <1>3 DEF FrontendSetFgType, Begin
  <2> QED BY <1>0, <2>1, <2>2, <2>4, <2>5, ThreadControl DEF ControlOK
<1> QED BY <1>1, <1>2, <1>3 DEF Callback

\* A callback that calls maybe_lock_startup remembers where to return to.
LEMMA CallLockControl ==
    ASSUME ControlOK, NEW t \in Threads, pc[t] # "idle", NEW r \in {"resolve", "accepted"},
           CallLock(t, r), UNCHANGED <<hotpath, backend, lock_state, desired, drivers, dpc, torn, policy>>
    PROVE  ControlOK'
<1> DEFINE c == [call[t] EXCEPT !.ret = r, !.eligible = frontend_selection_mask]
<1>1. c \in CallType /\ c.ret = r /\ c.frontend = call[t].frontend
  <2>1. call[t] \in CallType BY DEF ControlOK
  <2> QED BY <2>1, CallTypes, Zenon
<1>2. call' = [call EXCEPT ![t] = c] /\ pc' = [pc EXCEPT ![t] = "lock_now"]
  <2>1. call' = [call EXCEPT ![t].ret = r, ![t].eligible = frontend_selection_mask]
    BY DEF CallLock
  <2> QED BY <2>1 DEF ControlOK, CallType, CallLock, Goto
<1> HIDE DEF c
<1>3. c.frontend # AutoInput BY <1>1 DEF ControlOK
<1> QED BY <1>1, <1>2, <1>3, ThreadControl DEF ControlOK, PCs

\* observe_input returning, whatever it answers.
LEMMA DrivesControl ==
    ASSUME ControlOK, NEW t \in Threads, pc[t] # "idle", NEW b \in BOOLEAN, Drives(t, b),
           hotpath' \in BOOLEAN,
           UNCHANGED <<backend, lock_state, dpc, torn, policy>>
    PROVE  ControlOK'
<1>1. call[t].frontend \in Frontends BY DEF ControlOK, CallType
<1>2. drivers' \subseteq Frontends BY <1>1 DEF Drives, ControlOK
<1>3. Return(t) \/ (UNCHANGED locals /\ \E l \in {"update", "accept"} : Goto(t, l))
  BY Zenon DEF Drives
<1>4. CASE Return(t) BY <1>2, <1>4, ReturnControl DEF ControlOK
<1>5. CASE UNCHANGED locals /\ \E l \in {"update", "accept"} : Goto(t, l)
  BY <1>2, <1>5, MoveControl DEF ControlOK, Goto, locals, PCs
<1> QED BY <1>3, <1>4, <1>5

\* maybe_lock_startup returning.
LEMMA LockReturnControl ==
    ASSUME ControlOK, NEW t \in Threads, NEW b \in BOOLEAN, LockReturn(t, b),
           pc[t] \in {"lock_now", "lock_start", "lock_cas", "lock_decide", "lock_publish"},
           lock_state' \in 0 .. 2,
           UNCHANGED <<call, hotpath, backend, drivers, dpc, torn, policy>>
    PROVE  ControlOK'
<1>1. call[t].ret \in {"resolve", "accepted"} BY DEF ControlOK, CallType
<1>2. PICK l \in {"commit", "resolve", "accepted"} : Goto(t, l)
  BY <1>1 DEF LockReturn
<1>3. DOMAIN desired' = DOMAIN desired BY DEF LockReturn
<1>4. l \in PCs /\ l \notin {"lock_now", "lock_start", "lock_cas", "lock_decide", "lock_publish"}
  BY DEF PCs
<1>5. pc[t] # "idle" OBVIOUS
<1>6. pc' = [pc EXCEPT ![t] = l] BY <1>2 DEF Goto
<1>7. hotpath' \in BOOLEAN /\ backend' \in BOOLEAN /\ drivers' \subseteq Frontends
  BY Zenon DEF ControlOK
<1> QED BY <1>3, <1>4, <1>5, <1>6, <1>7, MoveControl

\* Every step of a callback in progress keeps the control types.
LEMMA StepControl ==
    ASSUME ControlOK, NEW t \in Threads, Step(t), UNCHANGED <<policy, torn>>
    PROVE  ControlOK'
<1> USE DEF fusion, session, locals, teardown
<1>1. CASE HotCheck(t) \/ ObserveMarker(t) \/ SelectInput(t) \/ ResolvePacing(t) \/ CommitSelection(t)
  <2>1. PICK l \in {"hot_selected", "observe", "load", "commit", "committed"} : Goto(t, l)
    BY <1>1 DEF HotCheck, ObserveMarker, SelectInput, ResolvePacing, CommitSelection
  <2>2. /\ pc[t] # "idle" /\ DOMAIN desired' = DOMAIN desired
        /\ UNCHANGED <<call, hotpath, backend, lock_state, drivers, dpc>>
    BY <1>1 DEF HotCheck, ObserveMarker, SelectInput, ResolvePacing, CommitSelection
  <2> QED BY <2>1, <2>2, MoveControl DEF ControlOK, Goto, PCs
<1>2. CASE HotSelected(t)
  <2>1. /\ pc[t] # "idle" /\ Drives(t, selected_input = call[t].frontend)
        /\ UNCHANGED <<hotpath, backend, lock_state, dpc>>
    BY <1>2 DEF HotSelected
  <2> QED BY <2>1, DrivesControl DEF ControlOK
<1>3. CASE PublishHotpath(t)
  <2>1. /\ pc[t] # "idle" /\ Drives(t, desired[t] = call[t].frontend)
        /\ UNCHANGED <<backend, lock_state, dpc>>
    BY <1>3 DEF PublishHotpath
  <2>2. hotpath' \in BOOLEAN BY <1>3 DEF PublishHotpath
  <2> QED BY <2>1, <2>2, DrivesControl
<1>4. CASE LoadSelected(t)
  <2>1. CASE CallLock(t, "resolve")
    BY <1>4, <2>1, CallLockControl DEF LoadSelected
  <2>2. CASE Goto(t, "select") /\ UNCHANGED call
    BY <1>4, <2>2, MoveControl DEF LoadSelected, ControlOK, Goto, PCs
  <2> QED BY <1>4, <2>1, <2>2, Zenon DEF LoadSelected
<1>5. CASE UpdateTech(t)
  <2>1. /\ pc[t] # "idle" /\ UNCHANGED <<hotpath, lock_state, drivers, dpc>>
    BY <1>5 DEF UpdateTech
  <2>2. UNCHANGED backend \/ backend' = TRUE
    BY <1>5, Zenon DEF UpdateTech, EnsureBackend
  <2>3. Return(t) \/ (Goto(t, "accept") /\ UNCHANGED locals)
    BY <1>5, Zenon DEF UpdateTech
  <2>4. backend' \in BOOLEAN BY <2>2 DEF ControlOK
  <2>5. CASE Return(t) BY <2>1, <2>4, <2>5, ReturnControl DEF ControlOK
  <2>6. CASE Goto(t, "accept") /\ UNCHANGED locals
    BY <2>1, <2>4, <2>6, MoveControl DEF ControlOK, Goto, PCs
  <2> QED BY <2>3, <2>5, <2>6
<1>6. CASE AcceptMarker(t)
  <2>1. CASE Return(t) BY <1>6, <2>1, ReturnControl DEF AcceptMarker, ControlOK
  <2>2. CASE CallLock(t, "accepted") /\ UNCHANGED <<now, previous, desired>>
    BY <1>6, <2>2, CallLockControl DEF AcceptMarker
  <2> QED BY <1>6, <2>1, <2>2, Zenon DEF AcceptMarker
<1>7. CASE AcceptedMarker(t)
  <2>1. hotpath' \in BOOLEAN BY <1>7 DEF AcceptedMarker
  <2> QED BY <1>7, <2>1, ReturnControl DEF AcceptedMarker, ControlOK
<1>8. CASE LockNow(t)
  <2>1. UNCHANGED <<call, hotpath, backend, lock_state, drivers, dpc>> /\ pc[t] = "lock_now"
    BY <1>8 DEF LockNow
  <2>2. CASE LockReturn(t, lock_state = 2)
    BY <2>1, <2>2, LockReturnControl DEF ControlOK
  <2>3. CASE Goto(t, "lock_start") /\ UNCHANGED desired
    BY <2>1, <2>3, MoveControl DEF ControlOK, Goto, PCs
  <2> QED BY <1>8, <2>2, <2>3, Zenon DEF LockNow
<1>9. CASE LockStart(t)
  <2>1. UNCHANGED <<call, hotpath, backend, lock_state, drivers, dpc>> /\ pc[t] = "lock_start"
    BY <1>9 DEF LockStart
  <2>2. CASE LockReturn(t, FALSE)
    BY <2>1, <2>2, LockReturnControl DEF ControlOK
  <2>3. CASE Goto(t, "lock_cas") /\ UNCHANGED desired
    BY <2>1, <2>3, MoveControl DEF ControlOK, Goto, PCs
  <2> QED BY <1>9, <2>2, <2>3, Zenon DEF LockStart
<1>10. CASE LockCas(t)
  <2>1. UNCHANGED <<call, hotpath, backend, drivers, dpc>> /\ pc[t] = "lock_cas"
    BY <1>10 DEF LockCas
  <2>2. CASE LockReturn(t, lock_state = 2) /\ UNCHANGED lock_state
    BY <2>1, <2>2, LockReturnControl DEF ControlOK
  <2>3. CASE lock_state' = 1 /\ Goto(t, "lock_decide") /\ UNCHANGED desired
    <3>1. lock_state' \in 0 .. 2 BY <2>3
    <3>2. /\ pc[t] # "idle" /\ call[t].ret # "none" /\ "lock_decide" \in PCs
          /\ hotpath' \in BOOLEAN /\ backend' \in BOOLEAN /\ drivers' \subseteq Frontends
      BY <2>1 DEF ControlOK, PCs
    <3> QED BY <2>1, <2>3, <3>1, <3>2, MoveControl DEF Goto
  <2> QED BY <1>10, <2>2, <2>3, Zenon DEF LockCas
<1>11. CASE LockDecide(t)
  BY <1>11, MoveControl DEF LockDecide, ControlOK, Goto, PCs
<1>12. CASE LockPublish(t)
  <2>1. /\ LockReturn(t, TRUE) /\ lock_state' = 2 /\ pc[t] = "lock_publish"
        /\ UNCHANGED <<call, hotpath, backend, drivers, dpc>>
    BY <1>12 DEF LockPublish
  <2>2. lock_state' \in 0 .. 2 BY <2>1
  <2> QED BY <2>1, <2>2, LockReturnControl
<1> QED BY <1>1, <1>2, <1>3, <1>4, <1>5, <1>6, <1>7, <1>8, <1>9, <1>10, <1>11, <1>12
        DEF Step, observe_input, maybe_lock_startup

\* Every step keeps the control types.
LEMMA ControlStep == ControlOK /\ [Next]_vars => ControlOK'
<1> SUFFICES ASSUME ControlOK, [Next]_vars PROVE ControlOK'
  OBVIOUS
<1> USE DEF fusion, session, locals, teardown
<1>1. ASSUME NEW t \in Threads, Callback(t) \/ Step(t), UNCHANGED <<policy, torn>>
      PROVE  ControlOK'
  BY <1>1, CallbackControl, StepControl
<1>2. ASSUME NEW f \in Frontends, NEW mode \in SleepModes, FrontendSetSleepMode(f, mode),
             UNCHANGED <<policy, torn>>
      PROVE  ControlOK'
  <2>1. UNCHANGED backend \/ backend' = TRUE
    BY <1>2, Zenon DEF FrontendSetSleepMode, EntryBackend, EnsureBackend
  <2>2. backend' \in BOOLEAN BY <2>1 DEF ControlOK
  <2>3. UNCHANGED <<hotpath, lock_state, pc, call, desired, dpc, drivers>>
    BY <1>2 DEF FrontendSetSleepMode
  <2> QED BY <1>2, <2>2, <2>3 DEF ControlOK
<1>3. ASSUME deinit_step, UNCHANGED <<policy, torn>>
      PROVE  ControlOK'
  <2>1. /\ UNCHANGED <<backend, pc, call, desired, drivers>>
        /\ dpc' \in {"selected", "arbiter", "fusion", "lock", "idle"}
    BY <1>3 DEF deinit_step, DeinitStep, DeinitHotpath, DeinitSelected, DeinitArbiter,
        DeinitFusion, DeinitLockState
  <2>2. hotpath' \in BOOLEAN /\ lock_state' \in 0 .. 2
    <3>1. /\ hotpath' = FALSE \/ UNCHANGED hotpath
          /\ lock_state' = 0 \/ UNCHANGED lock_state
      BY <1>3, Zenon DEF deinit_step, DeinitHotpath, DeinitSelected, DeinitArbiter,
          DeinitFusion, DeinitLockState
    <3>2. hotpath \in BOOLEAN /\ lock_state \in 0 .. 2 BY DEF ControlOK
    <3>3. lock_state' \in 0 .. 2 BY <3>1, <3>2
    <3>4. hotpath' \in BOOLEAN BY <3>1, <3>2, Zenon
    <3> QED BY <3>3, <3>4
  <2> QED BY <1>3, <2>1, <2>2 DEF ControlOK
<1>4. ASSUME DeinitWithdraw, UNCHANGED policy
      PROVE  ControlOK'
  <2>1. torn' \in BOOLEAN BY <1>4 DEF DeinitWithdraw
  <2> QED BY <1>4, <2>1 DEF ControlOK, DeinitWithdraw
<1>5. CASE UNCHANGED vars BY <1>5 DEF ControlOK, vars
<1> QED BY <1>1, <1>2, <1>3, <1>4, <1>5 DEF Next

----------------------------------------------------------------------------
(* One decision per session *)

\* A step of thread t that leaves the startup decision alone: what it newly
\* names an owner must be the frozen one.
LEMMA MoveDecision ==
    ASSUME ControlOK, OneDecision, NEW t \in Threads,
           NEW l \in PCs \ {"lock_decide", "lock_publish"}, pc' = [pc EXCEPT ![t] = l],
           UNCHANGED <<lock_state, owner, dpc, torn, policy>>,
           backend' = backend \/ (backend' = TRUE /\ dpc = "idle"),
           \A z \in Threads \ {t} : desired'[z] = desired[z],
           ~policy.startup_locked =>
               l \in {"idle", "hot", "hot_selected", "observe", "load", "select", "commit",
                      "committed", "update", "accept"},
           ~policy.startup_locked => ~hotpath',
           ~torn /\ policy.startup_locked =>
               /\ l \notin {"idle", "accept"} => backend' /\ l # "select"
               /\ l \in {"commit", "committed"} /\ desired'[t] # AutoInput =>
                     lock_state = 2 /\ owner = desired'[t]
               /\ selected_input' \notin {selected_input, AutoInput} =>
                     lock_state = 2 /\ owner = selected_input' /\ dpc = "idle"
               /\ \A f \in drivers' \ drivers : lock_state = 2 /\ owner = f /\ dpc = "idle",
           ~torn /\ hotpath' => hotpath \/ (lock_state = 2 /\ dpc = "idle")
    PROVE  OneDecision'
<1>1. \A z \in Threads : pc'[z] = IF z = t THEN l ELSE pc[z] BY DEF ControlOK
<1>2. (dpc # "idle" => ~backend)' BY DEF OneDecision
<1>3. (~policy.startup_locked => UnlockedSession)'
  BY <1>1 DEF OneDecision, UnlockedSession
<1>4. ASSUME ~torn
      PROVE  /\ \A z \in Threads : Deciding(z)' => lock_state' = 1
             /\ \A z, u \in Threads : Deciding(z)' /\ Deciding(u)' => z = u
  BY <1>1, <1>4 DEF OneDecision, Deciding
<1>5. ASSUME ~torn, policy.startup_locked
      PROVE  LockedSession'
  <2>1. LockedSession BY <1>5 DEF OneDecision
  <2>2. (\A z \in Threads : pc[z] \notin {"idle", "accept"} => backend /\ pc[z] # "select")'
    BY <1>1, <1>5, <2>1 DEF LockedSession
  <2>3. (\A z \in Threads :
          pc[z] \in {"commit", "committed"} /\ desired[z] # AutoInput =>
              lock_state = 2 /\ owner = desired[z])'
    BY <1>1, <1>5, <2>1 DEF LockedSession
  <2>4. (selected_input # AutoInput =>
          lock_state = 2 /\ owner = selected_input /\ dpc \in {"idle", "hot", "selected"})'
    BY <1>5, <2>1 DEF LockedSession
  <2>5. (\A f \in drivers : lock_state = 2 /\ owner = f /\ dpc = "idle")'
    BY <1>5, <2>1 DEF LockedSession
  <2> QED BY <2>2, <2>3, <2>4, <2>5 DEF LockedSession
<1>6. ASSUME ~torn PROVE (hotpath => lock_state = 2 /\ dpc \in {"idle", "hot"})'
  BY <1>6 DEF OneDecision
<1> QED BY <1>2, <1>3, <1>4, <1>5, <1>6 DEF OneDecision

\* A frontend callback that enters keeps the decision.
LEMMA CallbackDecision ==
    ASSUME ControlOK, OneDecision, NEW t \in Threads, Callback(t), UNCHANGED <<policy, torn>>
    PROVE  OneDecision'
<1>1. PICK l \in {"hot", "hot_selected", "accept"} : Goto(t, l) /\ (l = "accept" \/ EntryBackend)
  BY Zenon DEF Callback, FrontendSleep, FrontendSetMarker, FrontendSetFgType, Begin
<1>2. UNCHANGED <<selected_input, hotpath, lock_state, owner, desired, dpc, drivers>>
  BY DEF Callback, FrontendSleep, FrontendSetMarker, FrontendSetFgType, Begin, teardown
<1>3. UNCHANGED backend \/ EnsureBackend
  BY Zenon DEF Callback, FrontendSleep, FrontendSetMarker, FrontendSetFgType, EntryBackend
<1>4. backend' = backend \/ (backend' = TRUE /\ dpc = "idle")
  BY <1>3 DEF EnsureBackend, ControlOK, OneDecision
<1>5. policy.startup_locked => l = "accept" \/ backend'
  BY <1>1, Zenon DEF EntryBackend, EnsureBackend
<1>6. ~policy.startup_locked => ~hotpath' BY <1>2 DEF OneDecision, UnlockedSession
<1> QED BY <1>1, <1>2, <1>4, <1>5, <1>6, MoveDecision DEF Goto, PCs

\* Where a callback is says what kind of session it runs in: past its entry
\* in a locked session it still has its backend, so no teardown is running.
LEMMA InSession ==
    ASSUME ControlOK, OneDecision, NEW t \in Threads
    PROVE  /\ ~policy.startup_locked =>
                /\ lock_state = 0 /\ ~hotpath
                /\ pc[t] \in {"idle", "hot", "hot_selected", "observe", "load", "select",
                              "commit", "committed", "update", "accept"}
           /\ ~torn /\ policy.startup_locked /\ pc[t] \notin {"idle", "accept"} =>
                backend /\ dpc = "idle" /\ pc[t] # "select"
           /\ policy.startup_locked /\ backend => dpc = "idle"
BY DEF OneDecision, UnlockedSession, LockedSession

\* observe_input answers that the frontend drives only over the frozen owner.
LEMMA DrivesDecision ==
    ASSUME ControlOK, OneDecision, NEW t \in Threads, pc[t] \in {"hot_selected", "committed"},
           NEW b \in BOOLEAN, Drives(t, b),
           ~torn /\ policy.startup_locked /\ b => lock_state = 2 /\ owner = call[t].frontend,
           hotpath' => hotpath \/ lock_state = 2,
           UNCHANGED <<lock_state, owner, selected_input, backend, dpc, torn, policy>>
    PROVE  OneDecision'
<1>1. \A z \in Threads \ {t} : desired'[z] = desired[z]
  <2>1. UNCHANGED locals \/ desired' = [desired EXCEPT ![t] = AutoInput]
    BY Zenon DEF Drives, Return
  <2> QED BY <2>1 DEF locals, ControlOK
<1>2. PICK l \in {"update", "accept", "idle"} : Goto(t, l) /\ (l = "update" => b)
  BY Zenon DEF Drives, Return
<1>3. \A f \in drivers' \ drivers : b /\ f = call[t].frontend
  BY DEF Drives
<1>4. ~torn /\ hotpath' => hotpath \/ (lock_state = 2 /\ dpc = "idle")
  BY InSession DEF OneDecision
<1>5. ~policy.startup_locked => ~hotpath' BY InSession
<1>6. ~torn /\ policy.startup_locked => backend /\ dpc = "idle" BY InSession
<1> QED BY <1>1, <1>2, <1>3, <1>4, <1>5, <1>6, MoveDecision DEF Goto, PCs

\* A callback that goes on to maybe_lock_startup, or returns, or moves without
\* naming an owner.
LEMMA PlainDecision ==
    ASSUME ControlOK, OneDecision, NEW t \in Threads, pc[t] # "idle",
           NEW l \in PCs \ {"lock_decide", "lock_publish"}, Goto(t, l),
           policy.startup_locked /\ pc[t] = "accept" => l = "idle" \/ backend,
           \A z \in Threads \ {t} : desired'[z] = desired[z],
           policy.startup_locked => l # "select",
           ~policy.startup_locked =>
               l \in {"idle", "hot", "hot_selected", "observe", "load", "select", "commit",
                      "committed", "update", "accept"},
           l \in {"commit", "committed"} /\ policy.startup_locked => desired'[t] = AutoInput,
           UNCHANGED <<lock_state, owner, selected_input, hotpath, backend, drivers, dpc, torn, policy>>
    PROVE  OneDecision'
<1>1. ~torn /\ policy.startup_locked => l \in {"idle", "accept"} \/ backend BY InSession
<1>2. ~policy.startup_locked => ~hotpath' BY InSession
<1> QED BY <1>1, <1>2, MoveDecision DEF Goto

\* maybe_lock_startup returning without having decided.
LEMMA LockReturnDecision ==
    ASSUME ControlOK, OneDecision, NEW t \in Threads, NEW b \in BOOLEAN, LockReturn(t, b),
           pc[t] \in {"lock_now", "lock_start", "lock_cas"},
           UNCHANGED <<lock_state, owner, selected_input, hotpath, backend, drivers, dpc, torn, policy>>
    PROVE  OneDecision'
<1>1. call[t].ret \in {"resolve", "accepted"} BY DEF ControlOK, CallType
<1>2. PICK l \in {"commit", "resolve", "accepted"} : Goto(t, l)
  BY <1>1 DEF LockReturn
<1>3. \A z \in Threads : desired'[z] = IF z = t THEN AutoInput ELSE desired[z]
  BY DEF LockReturn, ControlOK
<1>4. policy.startup_locked BY InSession
<1> QED BY <1>2, <1>3, <1>4, PlainDecision DEF PCs

\* Taking, writing and publishing the decision: while lock_state_ is not 2
\* nothing names an owner yet, so the step disturbs nobody.
LEMMA DecideDecision ==
    ASSUME ControlOK, OneDecision, NEW t \in Threads,
           NEW l \in {"lock_decide", "lock_publish", "commit", "resolve", "accepted"},
           Goto(t, l),
           policy.startup_locked,
           \/ pc[t] = "lock_cas" /\ lock_state = 0 /\ lock_state' = 1 /\ l = "lock_decide"
           \/ pc[t] = "lock_decide" /\ lock_state' = lock_state /\ l = "lock_publish"
           \/ /\ pc[t] = "lock_publish" /\ lock_state' = 2
              /\ l \notin {"lock_decide", "lock_publish"}
              /\ desired'[t] = AutoInput,
           \A z \in Threads \ {t} : desired'[z] = desired[z],
           UNCHANGED <<selected_input, hotpath, backend, drivers, dpc, torn, policy>>
    PROVE  OneDecision'
<1>1. \A z \in Threads : pc'[z] = IF z = t THEN l ELSE pc[z] BY DEF ControlOK, Goto
<1>2. (dpc # "idle" => ~backend)' BY DEF OneDecision
<1>3. ASSUME ~torn
      PROVE  /\ \A z \in Threads : Deciding(z)' => lock_state' = 1
             /\ \A z, u \in Threads : Deciding(z)' /\ Deciding(u)' => z = u
             /\ lock_state # 2 /\ ~hotpath
  BY <1>1, <1>3 DEF OneDecision, Deciding
<1>4. ASSUME ~torn PROVE LockedSession'
  <2>1. LockedSession BY <1>4 DEF OneDecision
  <2>2. /\ selected_input = AutoInput /\ drivers = {}
        /\ \A z \in Threads : pc[z] \in {"commit", "committed"} => desired[z] = AutoInput
    BY <1>3, <1>4, <2>1 DEF LockedSession
  <2>3. (\A z \in Threads : pc[z] \notin {"idle", "accept"} => backend /\ pc[z] # "select")'
    BY <1>1, <2>1 DEF LockedSession
  <2>4. (\A z \in Threads :
          pc[z] \in {"commit", "committed"} /\ desired[z] # AutoInput =>
              lock_state = 2 /\ owner = desired[z])'
    BY <1>1, <2>2
  <2> QED BY <2>2, <2>3, <2>4 DEF LockedSession
<1> QED BY <1>2, <1>3, <1>4 DEF OneDecision

\* Every step of a callback in progress keeps the decision.
LEMMA StepDecision ==
    ASSUME ControlOK, OneDecision, NEW t \in Threads, Step(t), UNCHANGED <<policy, torn>>
    PROVE  OneDecision'
<1> USE DEF fusion, session, locals, teardown
<1>1. CASE HotCheck(t) \/ ObserveMarker(t)
  <2>1. PICK l \in {"hot_selected", "observe", "load"} : Goto(t, l)
    BY <1>1 DEF HotCheck, ObserveMarker
  <2>2. /\ pc[t] \in {"hot", "observe"}
        /\ UNCHANGED <<desired, lock_state, owner, selected_input, hotpath, backend, drivers, dpc>>
    BY <1>1 DEF HotCheck, ObserveMarker
  <2> QED BY <2>1, <2>2, PlainDecision DEF PCs
<1>2. CASE HotSelected(t)
  <2>1. /\ pc[t] = "hot_selected" /\ Drives(t, selected_input = call[t].frontend)
        /\ UNCHANGED <<lock_state, owner, selected_input, hotpath, backend, dpc>>
    BY <1>2 DEF HotSelected
  <2>2. call[t].frontend # AutoInput BY <2>1 DEF ControlOK
  <2>3. ~torn /\ policy.startup_locked /\ selected_input = call[t].frontend =>
            lock_state = 2 /\ owner = call[t].frontend
    BY <2>2 DEF OneDecision, LockedSession
  <2> QED BY <2>1, <2>3, DrivesDecision
<1>3. CASE PublishHotpath(t)
  <2>1. /\ pc[t] = "committed" /\ Drives(t, desired[t] = call[t].frontend)
        /\ UNCHANGED <<lock_state, owner, selected_input, backend, dpc>>
    BY <1>3 DEF PublishHotpath
  <2>2. call[t].frontend # AutoInput BY <2>1 DEF ControlOK
  <2>3. ~torn /\ policy.startup_locked /\ desired[t] = call[t].frontend =>
            lock_state = 2 /\ owner = call[t].frontend
    BY <2>1, <2>2 DEF OneDecision, LockedSession
  <2>4. hotpath' => hotpath \/ lock_state = 2 BY <1>3, Zenon DEF PublishHotpath
  <2> QED BY <2>1, <2>3, <2>4, DrivesDecision
<1>4. CASE LoadSelected(t)
  <2>1. /\ pc[t] = "load"
        /\ UNCHANGED <<desired, lock_state, owner, selected_input, hotpath, backend, drivers, dpc>>
    BY <1>4 DEF LoadSelected
  <2>2. CASE hybrid_execution_active
    BY <1>4, <2>1, <2>2, PlainDecision DEF LoadSelected, CallLock, hybrid_execution_active, PCs
  <2>3. CASE ~hybrid_execution_active
    <3>1. Goto(t, "select") BY <1>4, <2>3 DEF LoadSelected
    <3>2. ~torn => ~policy.startup_locked
      BY <2>1, <2>3, InSession DEF hybrid_execution_active
    <3>3. ~policy.startup_locked => ~hotpath' BY <2>1, InSession
    <3> QED BY <2>1, <3>1, <3>2, <3>3, MoveDecision DEF Goto, PCs, OneDecision
  <2> QED BY <2>2, <2>3
<1>5. CASE SelectInput(t)
  <2>1. /\ pc[t] = "select" /\ Goto(t, "commit")
        /\ UNCHANGED <<lock_state, owner, selected_input, hotpath, backend, drivers, dpc>>
    BY <1>5 DEF SelectInput
  <2>2. \A z \in Threads \ {t} : desired'[z] = desired[z] BY <1>5 DEF SelectInput, ControlOK
  <2>3. ~torn => ~policy.startup_locked BY <2>1, InSession
  <2>4. ~policy.startup_locked => ~hotpath' BY <2>1, InSession
  <2> QED BY <2>1, <2>2, <2>3, <2>4, MoveDecision DEF Goto, PCs, OneDecision
<1>6. CASE ResolvePacing(t)
  <2>1. /\ pc[t] = "resolve" /\ Goto(t, "commit")
        /\ UNCHANGED <<lock_state, owner, selected_input, hotpath, backend, drivers, dpc>>
    BY <1>6 DEF ResolvePacing
  <2>2. \A z \in Threads : desired'[z] =
            IF z = t THEN (IF lock_state = 2 THEN owner ELSE AutoInput) ELSE desired[z]
    BY <1>6 DEF ResolvePacing, ControlOK
  <2>3. policy.startup_locked BY <2>1, InSession
  <2>4. ~torn => backend BY <2>1, <2>3, InSession
  <2> QED BY <2>1, <2>2, <2>3, <2>4, MoveDecision DEF Goto, PCs
<1>7. CASE CommitSelection(t)
  <2>1. /\ pc[t] = "commit"
        /\ UNCHANGED <<desired, lock_state, owner, hotpath, backend, drivers, dpc>>
    BY <1>7 DEF CommitSelection
  <2>2. PICK l \in {"committed", "load"} : Goto(t, l)
    BY <1>7 DEF CommitSelection
  <2>3. selected_input' \in {selected_input, desired[t]} BY <1>7 DEF CommitSelection
  <2>4. ~torn /\ policy.startup_locked =>
            /\ backend /\ dpc = "idle"
            /\ desired[t] # AutoInput => lock_state = 2 /\ owner = desired[t]
    BY <2>1, InSession DEF OneDecision, LockedSession
  <2>5. ~policy.startup_locked => ~hotpath' BY <2>1, InSession
  <2> QED BY <2>1, <2>2, <2>3, <2>4, <2>5, MoveDecision DEF Goto, PCs
<1>8. CASE UpdateTech(t)
  <2>1. pc[t] = "update" /\ UNCHANGED <<lock_state, owner, selected_input, hotpath, drivers, dpc>>
    BY <1>8 DEF UpdateTech
  <2>2. PICK l \in {"accept", "idle"} : Goto(t, l)
    BY <1>8, Zenon DEF UpdateTech, Return
  <2>3. UNCHANGED backend \/ EnsureBackend BY <1>8, Zenon DEF UpdateTech
  <2>4. backend' = backend \/ (backend' = TRUE /\ dpc = "idle")
    BY <2>3 DEF EnsureBackend, ControlOK, OneDecision
  <2>5. UNCHANGED locals \/ desired' = [desired EXCEPT ![t] = AutoInput]
    BY <1>8, Zenon DEF UpdateTech, Return
  <2>6. \A z \in Threads \ {t} : desired'[z] = desired[z] BY <2>5 DEF ControlOK
  <2>7. ~policy.startup_locked => ~hotpath' BY <2>1, InSession
  <2> QED BY <2>1, <2>2, <2>4, <2>6, <2>7, MoveDecision DEF Goto, PCs
<1>9. CASE AcceptMarker(t)
  <2>1. /\ pc[t] = "accept"
        /\ UNCHANGED <<lock_state, owner, selected_input, hotpath, backend, drivers, dpc>>
    BY <1>9 DEF AcceptMarker
  <2>2. CASE Return(t)
    <3>1. \A z \in Threads \ {t} : desired'[z] = desired[z] BY <2>2 DEF Return, ControlOK
    <3> QED BY <2>1, <2>2, <3>1, PlainDecision DEF Return, PCs
  <2>3. CASE CallLock(t, "accepted") /\ UNCHANGED desired /\ hybrid_execution_active
    BY <2>1, <2>3, PlainDecision DEF CallLock, hybrid_execution_active, PCs
  <2> QED BY <1>9, <2>2, <2>3, Zenon DEF AcceptMarker
<1>10. CASE AcceptedMarker(t)
  <2>1. /\ pc[t] = "accepted" /\ Goto(t, "idle")
        /\ UNCHANGED <<lock_state, owner, selected_input, backend, drivers, dpc>>
    BY <1>10 DEF AcceptedMarker, Return
  <2>2. \A z \in Threads \ {t} : desired'[z] = desired[z]
    BY <1>10 DEF AcceptedMarker, Return, ControlOK
  <2>3. hotpath' => hotpath \/ lock_state = 2 BY <1>10, Zenon DEF AcceptedMarker
  <2>4. policy.startup_locked BY <2>1, InSession
  <2>5. ~torn => dpc = "idle" BY <2>1, <2>4, InSession
  <2> QED BY <2>1, <2>2, <2>3, <2>4, <2>5, MoveDecision DEF Goto, PCs
<1>11. CASE LockNow(t)
  <2>1. /\ pc[t] = "lock_now"
        /\ UNCHANGED <<lock_state, owner, selected_input, hotpath, backend, drivers, dpc>>
    BY <1>11 DEF LockNow
  <2>2. CASE LockReturn(t, lock_state = 2) BY <2>1, <2>2, LockReturnDecision
  <2>3. CASE Goto(t, "lock_start") /\ UNCHANGED desired
    <3>1. policy.startup_locked BY <2>1, InSession
    <3> QED BY <2>1, <2>3, <3>1, PlainDecision DEF PCs
  <2> QED BY <1>11, <2>2, <2>3, Zenon DEF LockNow
<1>12. CASE LockStart(t)
  <2>1. /\ pc[t] = "lock_start"
        /\ UNCHANGED <<lock_state, owner, selected_input, hotpath, backend, drivers, dpc>>
    BY <1>12 DEF LockStart
  <2>2. CASE LockReturn(t, FALSE) BY <2>1, <2>2, LockReturnDecision
  <2>3. CASE Goto(t, "lock_cas") /\ UNCHANGED desired
    <3>1. policy.startup_locked BY <2>1, InSession
    <3> QED BY <2>1, <2>3, <3>1, PlainDecision DEF PCs
  <2> QED BY <1>12, <2>2, <2>3, Zenon DEF LockStart
<1>13. CASE LockCas(t)
  <2>1. pc[t] = "lock_cas" /\ UNCHANGED <<owner, selected_input, hotpath, backend, drivers, dpc>>
    BY <1>13 DEF LockCas
  <2>2. CASE LockReturn(t, lock_state = 2) /\ UNCHANGED lock_state
    BY <2>1, <2>2, LockReturnDecision
  <2>3. CASE lock_state = 0 /\ lock_state' = 1 /\ Goto(t, "lock_decide") /\ UNCHANGED desired
    <3>1. policy.startup_locked BY <2>1, InSession
    <3> QED BY <2>1, <2>3, <3>1, DecideDecision
  <2> QED BY <1>13, <2>2, <2>3, Zenon DEF LockCas
<1>14. CASE LockDecide(t)
  <2>1. /\ pc[t] = "lock_decide" /\ Goto(t, "lock_publish")
        /\ UNCHANGED <<desired, lock_state, selected_input, hotpath, backend, drivers, dpc>>
    BY <1>14 DEF LockDecide
  <2>2. policy.startup_locked BY <2>1, InSession
  <2> QED BY <2>1, <2>2, DecideDecision
<1>15. CASE LockPublish(t)
  <2>1. /\ pc[t] = "lock_publish" /\ lock_state' = 2
        /\ UNCHANGED <<selected_input, hotpath, backend, drivers, dpc>>
    BY <1>15 DEF LockPublish
  <2>2. call[t].ret \in {"resolve", "accepted"} BY <2>1 DEF ControlOK, CallType
  <2>3. PICK l \in {"commit", "resolve", "accepted"} : Goto(t, l)
    BY <1>15, <2>2 DEF LockPublish, LockReturn
  <2>4. \A z \in Threads : desired'[z] = IF z = t THEN AutoInput ELSE desired[z]
    BY <1>15 DEF LockPublish, LockReturn, ControlOK
  <2>5. policy.startup_locked BY <2>1, InSession
  <2> QED BY <2>1, <2>3, <2>4, <2>5, DecideDecision
<1> QED BY <1>1, <1>2, <1>3, <1>4, <1>5, <1>6, <1>7, <1>8, <1>9, <1>10, <1>11, <1>12, <1>13,
           <1>14, <1>15 DEF Step, observe_input, maybe_lock_startup

\* deinit_current_tech withdraws the session: no callback past its entry is
\* left that could see the words it clears one after the other.
LEMMA DeinitDecision ==
    ASSUME ControlOK, OneDecision, deinit_step, UNCHANGED <<policy, torn>>
    PROVE  OneDecision'
<1> USE DEF fusion
<1>1. /\ UNCHANGED <<backend, pc, desired, drivers>>
      /\ dpc # "idle" /\ (dpc = "hot" => dpc' = "selected")
      /\ dpc = "lock" \/ UNCHANGED lock_state
      /\ dpc \in {"fusion", "lock"} \/ UNCHANGED owner
      /\ IF dpc = "selected" THEN selected_input' = AutoInput ELSE UNCHANGED selected_input
      /\ dpc = "lock" => lock_state' = 0
  BY DEF deinit_step, DeinitStep, DeinitHotpath, DeinitSelected, DeinitArbiter, DeinitFusion,
         DeinitLockState, locals
<1>2. IF dpc = "hot" THEN hotpath' = FALSE ELSE UNCHANGED hotpath
  BY DEF deinit_step, DeinitStep, DeinitHotpath, DeinitSelected, DeinitArbiter, DeinitFusion,
         DeinitLockState
<1>3. ~backend' BY <1>1 DEF OneDecision
<1>4. (~policy.startup_locked => UnlockedSession)'
  <2>1. ASSUME ~policy.startup_locked PROVE lock_state' = 0 /\ ~hotpath'
    BY <1>1, <1>2, <2>1 DEF OneDecision, UnlockedSession
  <2> QED BY <1>1, <2>1 DEF OneDecision, UnlockedSession
<1>5. ASSUME ~torn
      PROVE  /\ \A z \in Threads : ~Deciding(z)'
             /\ (hotpath => lock_state = 2 /\ dpc \in {"idle", "hot"})'
  <2>1. \A z \in Threads : ~Deciding(z)
    BY <1>1, <1>5, InSession DEF Deciding
  <2>2. ~hotpath' BY <1>1, <1>2, <1>5 DEF OneDecision
  <2> QED BY <1>1, <2>1, <2>2 DEF Deciding
<1>6. ASSUME ~torn, policy.startup_locked PROVE LockedSession'
  <2>1. \A z \in Threads : pc[z] \in {"idle", "accept"}
    BY <1>1, <1>6, InSession
  <2>2. LockedSession BY <1>6 DEF OneDecision
  <2>3. drivers = {} BY <1>1, <2>2 DEF LockedSession
  <2>4. (selected_input # AutoInput =>
          lock_state = 2 /\ owner = selected_input /\ dpc \in {"idle", "hot", "selected"})'
    BY <1>1, <2>2 DEF LockedSession
  <2> QED BY <1>1, <2>1, <2>3, <2>4 DEF LockedSession
<1> QED BY <1>3, <1>4, <1>5, <1>6 DEF OneDecision

\* The steps outside callbacks: a sleep mode, and the start of a teardown.
LEMMA OtherDecision ==
    ASSUME ControlOK, OneDecision, UNCHANGED policy,
           \/ DeinitWithdraw
           \/ \E f \in Frontends, mode \in SleepModes : FrontendSetSleepMode(f, mode) /\ UNCHANGED torn
    PROVE  OneDecision'
<1> USE DEF fusion, locals, teardown
<1>1. CASE DeinitWithdraw
  <2>1. /\ ~backend' /\ drivers' = {} /\ dpc' = "hot" /\ dpc = "idle"
        /\ UNCHANGED <<lock_state, owner, selected_input, hotpath, pc, desired>>
    BY <1>1 DEF DeinitWithdraw
  <2>2. ~torn' => ~torn /\ \A z \in Threads : pc[z] = "idle"
    BY <1>1, Zenon DEF DeinitWithdraw
  <2>3. (~policy.startup_locked => UnlockedSession)'
    BY <2>1 DEF OneDecision, UnlockedSession
  <2>4. ASSUME ~torn'
        PROVE  /\ \A z \in Threads : ~Deciding(z)'
               /\ (policy.startup_locked => LockedSession)'
               /\ (hotpath => lock_state = 2 /\ dpc \in {"idle", "hot"})'
    BY <2>1, <2>2, <2>4 DEF OneDecision, LockedSession, Deciding
  <2> QED BY <2>1, <2>3, <2>4 DEF OneDecision
<1>2. ASSUME NEW f \in Frontends, NEW mode \in SleepModes, FrontendSetSleepMode(f, mode), UNCHANGED torn
      PROVE  OneDecision'
  <2>1. UNCHANGED <<selected_input, hotpath, lock_state, owner, pc, desired, dpc, drivers>>
    BY <1>2 DEF FrontendSetSleepMode
  <2>2. UNCHANGED backend \/ EnsureBackend
    BY <1>2, Zenon DEF FrontendSetSleepMode, EntryBackend
  <2>3. backend' = backend \/ (backend' = TRUE /\ dpc = "idle")
    BY <2>2 DEF EnsureBackend, ControlOK, OneDecision
  <2> QED BY <1>2, <2>1, <2>3 DEF OneDecision, UnlockedSession, LockedSession, Deciding
<1> QED BY <1>1, <1>2

\* Every step keeps the decision.
LEMMA DecisionStep == ControlOK /\ OneDecision /\ [Next]_vars => OneDecision'
<1> SUFFICES ASSUME ControlOK, OneDecision, [Next]_vars PROVE OneDecision'
  OBVIOUS
<1>1. CASE UNCHANGED vars
  BY <1>1 DEF OneDecision, UnlockedSession, LockedSession, Deciding, vars, fusion, session,
      locals, teardown
<1>2. CASE Next
  BY <1>2, CallbackDecision, StepDecision, DeinitDecision, OtherDecision DEF Next
<1> QED BY <1>1, <1>2

----------------------------------------------------------------------------
(* The theorems *)

\* The control types and the inductive invariant hold in every reachable state.
THEOREM HybridInvariant == Spec => [](ControlOK /\ OneDecision)
<1>1. Init => ControlOK /\ OneDecision
  <2> SUFFICES ASSUME Init PROVE ControlOK /\ OneDecision
    OBVIOUS
  <2>1. ControlOK
    <3>1. call \in [Threads -> CallType] BY CallTypes DEF Init
    <3>2. /\ pc \in [Threads -> PCs] /\ \A t \in Threads : pc[t] = "idle"
      BY DEF Init, PCs
    <3>3. policy \in Policies /\ hotpath \in BOOLEAN /\ backend \in BOOLEAN /\ torn \in BOOLEAN
      BY DEF Init
    <3> QED BY <3>1, <3>2, <3>3 DEF Init, ControlOK
  <2>2. OneDecision BY DEF Init, OneDecision, UnlockedSession, LockedSession, Deciding
  <2> QED BY <2>1, <2>2
<1>2. ControlOK /\ OneDecision /\ [Next]_vars => (ControlOK /\ OneDecision)'
  BY ControlStep, DecisionStep
<1> QED BY <1>1, <1>2, PTL DEF Spec

\* One pacing owner per session and no provisional one: whatever the
\* frontends, threads and policies, only the frozen owner was ever allowed to
\* drive, and the hot path is only open over a frozen session.
THEOREM HybridOnlyFrozenOwner == Spec => []OnlyFrozenOwnerDrives
<1>1. OneDecision => OnlyFrozenOwnerDrives
  BY DEF OneDecision, LockedSession, OnlyFrozenOwnerDrives
<1> QED BY <1>1, HybridInvariant, PTL

\* The owner maybe_lock_startup published never changes until a teardown:
\* the one writer of frozen_owner_word_ holds lock_state_ at 1.
THEOREM HybridFrozenOwner == Spec => FrozenOwner
<1>1. ControlOK /\ OneDecision /\ [Next]_vars =>
        [~torn /\ lock_state = 2 /\ lock_state' = 2 /\ dpc = "idle" => owner' = owner]_vars
  <2> SUFFICES ASSUME OneDecision, Next, ~torn, lock_state = 2, dpc = "idle"
               PROVE  owner' = owner
    OBVIOUS
  <2> USE DEF fusion
  <2>1. ASSUME NEW t \in Threads PROVE pc[t] # "lock_decide"
    BY DEF OneDecision, Deciding
  <2>2. ASSUME NEW t \in Threads, Callback(t) PROVE owner' = owner
    BY <2>2 DEF Callback, FrontendSleep, FrontendSetMarker, FrontendSetFgType, Begin
  <2>3. ASSUME NEW t \in Threads, Step(t) PROVE owner' = owner
    BY <2>1, <2>3 DEF Step, observe_input, maybe_lock_startup, HotCheck, HotSelected,
        ObserveMarker, LoadSelected, SelectInput, ResolvePacing, CommitSelection,
        PublishHotpath, UpdateTech, AcceptMarker, AcceptedMarker, LockNow, LockStart,
        LockCas, LockDecide, LockPublish
  <2>4. ASSUME NEW f \in Frontends, NEW mode \in SleepModes, FrontendSetSleepMode(f, mode)
        PROVE  owner' = owner
    BY <2>4 DEF FrontendSetSleepMode
  <2>5. ~deinit_step
    BY DEF deinit_step, DeinitStep, DeinitHotpath, DeinitSelected, DeinitArbiter,
        DeinitFusion, DeinitLockState
  <2>6. CASE DeinitWithdraw BY <2>6 DEF DeinitWithdraw
  <2> QED BY <2>2, <2>3, <2>4, <2>5, <2>6 DEF Next
<1> QED BY <1>1, HybridInvariant, PTL DEF Spec, FrozenOwner

=============================================================================
