----------------------- MODULE ManagedLifecycleProofs -----------------------
(***************************************************************************)
(* The safety properties of ManagedLifecycle, for any number of requests,  *)
(* owners and callbacks and every choice of faults.  LifecycleInv is the   *)
(* inductive invariant: beside ReleaseDiscipline it says who holds the     *)
(* gate and what the flags are while a load is in progress.                *)
(***************************************************************************)
EXTENDS ManagedLifecycle, TLAPS

USE LifecycleAssumption

\* The phases in which a goroutine holds the lifecycle gate.
GatedPhases == {"entered", "loading", "probing", "streaming", "unloading"}

\* Only the holder of the gate is in a gated phase.
GateExact == \A p \in Procs : pc[p] \in GatedPhases => gate = p

\* While a request loads, the service claims nothing about the engine; while
\* the owner loads, it is pinned.
LoadingFlags ==
  /\ \A r \in Requests : pc[r] \in {"loading", "probing"} => ~demandLoaded /\ ~manualPinned
  /\ \A o \in Owners : pc[o] \in {"loading", "probing"} => ~demandLoaded /\ manualPinned

\* A request at the gate or beyond it wants a managed model, one beyond the
\* first checks a well-configured one; an owner that loads was asked to.
WellDirected ==
  /\ \A r \in Requests :
       /\ pc[r] \in GatedPhases \cup {"gate"} => modelOf[r] # External
       /\ pc[r] \in {"loading", "probing", "streaming"} => modelOf[r] # Misconfigured
  /\ \A o \in Owners : pc[o] \in {"loading", "probing"} => job[o].op = "load"

Typed == TypeOK /\ WellDirected

LifecycleInv == Typed /\ GateExact /\ LoadingFlags /\ ReleaseDiscipline

-----------------------------------------------------------------------------
\* A remembered pair of flags is a record of two Booleans.
LEMMA PrevType ==
  ASSUME NEW d \in BOOLEAN, NEW q \in BOOLEAN
  PROVE  [demand |-> d, pinned |-> q] \in [demand : BOOLEAN, pinned : BOOLEAN]
BY Zenon

\* The service starts with typed variables and every process outside the gate.
LEMMA InitType == Init => Typed
<1> SUFFICES ASSUME Init PROVE Typed
  OBVIOUS
<1>1. prev \in [demand : BOOLEAN, pinned : BOOLEAN]
  BY PrevType, Zenon DEF Init
<1>2. TypeOK
  BY <1>1 DEF Init, TypeOK, RequestPhases, OwnerPhases, CallbackPhases, Procs
<1>3. WellDirected
  BY DEF Init, WellDirected, GatedPhases, Procs
<1> QED BY <1>2, <1>3 DEF Typed

\* A job that loads names a model.
LEMMA JobModel ==
  ASSUME TypeOK, NEW o \in Owners, job[o].op = "load"
  PROVE  job[o].model \in Models
BY DEF TypeOK, Jobs

\* The outcomes of the timer operations.
LEMMA TimerType ==
  ASSUME TypeOK, scheduleIdleUnloadLocked \/ stopIdleTimerLocked \/ UNCHANGED timer
  PROVE  armed' \in BOOLEAN /\ fresh' \in [Callbacks -> BOOLEAN] /\ stranded' \in BOOLEAN
<1>1. CASE UNCHANGED timer
  BY <1>1 DEF timer, TypeOK
<1>2. ASSUME NewGeneration PROVE fresh' \in [Callbacks -> BOOLEAN]
  BY <1>2 DEF NewGeneration
<1>3. MayRelease' \in BOOLEAN
  BY Zenon DEF MayRelease
<1>4. stranded \in BOOLEAN
  BY DEF TypeOK
<1> QED BY <1>1, <1>2, <1>3, <1>4, Zenon DEF scheduleIdleUnloadLocked, stopIdleTimerLocked

\* What a move of one goroutine keeps: the phases are well typed.
LEMMA MoveType ==
  ASSUME TypeOK, NEW p \in Procs, NEW l, Goto(p, l),
         p \in Requests => l \in RequestPhases,
         p \in Owners => l \in OwnerPhases,
         p \in Callbacks => l \in CallbackPhases
  PROVE  /\ pc' \in [Procs -> RequestPhases \cup OwnerPhases \cup CallbackPhases]
         /\ \A r \in Requests : pc'[r] \in RequestPhases
         /\ \A o \in Owners : pc'[o] \in OwnerPhases
         /\ \A c \in Callbacks : pc'[c] \in CallbackPhases
         /\ pc'[p] = l
         /\ \A q \in Procs \ {p} : pc'[q] = pc[q]
BY DEF TypeOK, Goto, Procs

\* Every step keeps the types and the directions of the processes.
LEMMA NextType == Typed /\ [Next]_vars => Typed'
<1> SUFFICES ASSUME Typed, [Next]_vars PROVE Typed'
  OBVIOUS
<1> USE DEF Typed, GatedPhases, Procs, RequestPhases, OwnerPhases, CallbackPhases
<1>1. ASSUME NEW p \in Procs, acquireManaged(p) \/ GiveUp(p)
      PROVE  Typed'
  <2>1. PICK l \in {"entered", "idle", "leaving"} :
           /\ Goto(p, l) /\ pc[p] = "gate"
           /\ p \in Requests => l # "idle"
           /\ p \notin Requests => l # "leaving"
           /\ gate' \in {gate, p}
           /\ UNCHANGED <<timer, flags, rest, engine, job, prev, late, adrift>>
    BY <1>1 DEF acquireManaged, GiveUp, Out
  <2> QED BY <2>1, MoveType DEF TypeOK, WellDirected, timer, flags, rest
<1>2. ASSUME NEW r \in Requests, Submit(r) \/ RequestStep(r)
      PROVE  Typed'
  <2> r \in Procs
    OBVIOUS
  <2> USE DEF releaseManaged, Out, flags, timer, rest
  <2>1. CASE Submit(r) \/ EnsureRefused(r) \/ Finish(r)
    BY <2>1, MoveType DEF Submit, EnsureRefused, Finish, TypeOK, WellDirected
  <2>2. CASE EnsureLoaded(r)
    <3>1. demandLoaded' \in BOOLEAN /\ adrift' \in BOOLEAN
      BY <2>2, Zenon DEF EnsureLoaded
    <3>2. /\ pc[r] = "entered" /\ modelOf[r] # Misconfigured
          /\ stopIdleTimerLocked /\ Goto(r, "streaming")
          /\ UNCHANGED <<gate, manualPinned, rest, engine, job, prev, late>>
      BY <2>2 DEF EnsureLoaded
    <3> QED BY <3>1, <3>2, MoveType, TimerType DEF TypeOK, WellDirected
  <2>5. CASE EnsureSwitch(r)
    <3>1. prev' \in [demand : BOOLEAN, pinned : BOOLEAN]
      BY <2>5, PrevType, Zenon DEF EnsureSwitch, TypeOK
    <3>2. /\ pc[r] = "entered" /\ modelOf[r] # Misconfigured
          /\ stopIdleTimerLocked /\ Goto(r, "loading")
          /\ demandLoaded' \in BOOLEAN /\ manualPinned' \in BOOLEAN
          /\ UNCHANGED <<gate, rest, engine, job, late, adrift>>
      BY <2>5, Zenon DEF EnsureSwitch
    <3> QED BY <3>1, <3>2, MoveType, TimerType DEF TypeOK, WellDirected
  <2>3. CASE DemandLoadOK(r) \/ DemandLoadError(r)
    <3>1. modelOf[r] \in Models
      BY <2>3 DEF DemandLoadOK, DemandLoadError, WellDirected
    <3>2. engine' \in Models \cup {NoModel} /\ late' \in Models \cup {NoModel}
      BY <2>3, <3>1 DEF DemandLoadOK, DemandLoadError, FailedLoad, AfterFailedLoad, TypeOK
    <3>3. demandLoaded' \in BOOLEAN /\ manualPinned' \in BOOLEAN /\ adrift' \in BOOLEAN
      BY <2>3, Zenon DEF DemandLoadOK, DemandLoadError, TypeOK
    <3>4. PICK l \in {"streaming", "probing"} : Goto(r, l)
      BY <2>3 DEF DemandLoadOK, DemandLoadError
    <3>5. UNCHANGED <<gate, timer, rest, job, prev>> /\ pc[r] = "loading"
      BY <2>3 DEF DemandLoadOK, DemandLoadError
    <3> QED BY <3>2, <3>3, <3>4, <3>5, MoveType DEF TypeOK, WellDirected
  <2>4. CASE DemandLoadProbed(r) \/ StreamEnd(r)
    <3>1. /\ scheduleIdleUnloadLocked \/ UNCHANGED timer
          /\ demandLoaded' \in BOOLEAN /\ manualPinned' \in BOOLEAN
          /\ adrift' \in BOOLEAN
      BY <2>4, Zenon DEF DemandLoadProbed, StreamEnd, RestoreFlags, Learnt, TypeOK
    <3>2. /\ gate' = Nobody /\ Goto(r, "leaving")
          /\ UNCHANGED <<rest, engine, job, prev, late>>
      BY <2>4 DEF DemandLoadProbed, StreamEnd
    <3> QED BY <3>1, <3>2, MoveType, TimerType DEF TypeOK, WellDirected
  <2> QED BY <1>2, <2>1, <2>2, <2>3, <2>4, <2>5 DEF RequestStep
<1>3. ASSUME NEW o \in Owners, OwnerCall(o) \/ OwnerStep(o)
      PROVE  Typed'
  <2> o \in Procs /\ o \notin Requests /\ o \notin Callbacks
    OBVIOUS
  <2> USE DEF releaseManaged, Out, flags, timer, rest
  <2>1. CASE OwnerCall(o) \/ OwnerRefused(o)
    BY <2>1, MoveType DEF OwnerCall, OwnerRefused, TypeOK, WellDirected
  <2>2. CASE OwnerUnloadStart(o)
    BY <2>2, MoveType, TimerType DEF OwnerUnloadStart, TypeOK, WellDirected
  <2>6. CASE OwnerLoadStart(o)
    <3>1. prev' \in [demand : BOOLEAN, pinned : BOOLEAN]
      BY <2>6, Zenon DEF OwnerLoadStart, TypeOK
    <3>2. /\ job[o].op = "load" /\ Goto(o, "loading") /\ stopIdleTimerLocked
          /\ demandLoaded' \in BOOLEAN /\ manualPinned' \in BOOLEAN
          /\ adrift' \in BOOLEAN
          /\ UNCHANGED <<gate, rest, engine, job, late>>
      BY <2>6, Zenon DEF OwnerLoadStart
    <3> QED BY <3>1, <3>2, MoveType, TimerType DEF TypeOK, WellDirected
  <2>3. CASE OwnerLoadOK(o) \/ OwnerLoadError(o)
    <3>1. job[o].model \in Models
      BY <2>3, JobModel DEF OwnerLoadOK, OwnerLoadError, WellDirected
    <3>2. engine' \in Models \cup {NoModel} /\ late' \in Models \cup {NoModel}
      BY <2>3, <3>1 DEF OwnerLoadOK, OwnerLoadError, FailedLoad, AfterFailedLoad, TypeOK
    <3>5. adrift' \in BOOLEAN
      BY <2>3, Zenon DEF OwnerLoadOK, OwnerLoadError, TypeOK
    <3>3. PICK l \in {"idle", "probing"} : Goto(o, l)
      BY <2>3 DEF OwnerLoadOK, OwnerLoadError
    <3>4. /\ gate' \in {gate, Nobody} /\ pc[o] = "loading"
          /\ UNCHANGED <<timer, flags, rest, job, prev>>
      BY <2>3 DEF OwnerLoadOK, OwnerLoadError
    <3> QED BY <3>2, <3>3, <3>4, <3>5, MoveType DEF TypeOK, WellDirected
  <2>4. CASE OwnerLoadProbed(o)
    <3>1. /\ scheduleIdleUnloadLocked \/ UNCHANGED timer
          /\ demandLoaded' \in BOOLEAN /\ manualPinned' \in BOOLEAN
          /\ adrift' \in BOOLEAN
      BY <2>4, Zenon DEF OwnerLoadProbed, Learnt
    <3>2. /\ gate' = Nobody /\ Goto(o, "idle")
          /\ UNCHANGED <<rest, engine, job, prev, late>>
      BY <2>4 DEF OwnerLoadProbed
    <3> QED BY <3>1, <3>2, MoveType, TimerType DEF TypeOK, WellDirected
  <2>5. CASE OwnerUnloadOK(o) \/ OwnerUnloadError(o)
    <3>1. /\ demandLoaded' \in BOOLEAN /\ manualPinned' \in BOOLEAN
          /\ adrift' \in BOOLEAN /\ stranded' \in BOOLEAN
      BY <2>5, Zenon DEF OwnerUnloadOK, OwnerUnloadError, TypeOK
    <3>2. /\ gate' = Nobody /\ Goto(o, "idle") /\ engine' \in {engine, NoModel}
          /\ UNCHANGED <<armed, fresh, rest, job, prev, late>>
      BY <2>5 DEF OwnerUnloadOK, OwnerUnloadError, AfterFailedUnload
    <3> QED BY <3>1, <3>2, MoveType DEF TypeOK, WellDirected
  <2> QED BY <1>3, <2>1, <2>2, <2>3, <2>4, <2>5, <2>6 DEF OwnerStep
<1>4. ASSUME NEW c \in Callbacks, TimerFires(c) \/ CallbackStep(c)
      PROVE  Typed'
  <2> c \in Procs /\ c \notin Requests /\ c \notin Owners
    OBVIOUS
  <2>1. \E l \in CallbackPhases : Goto(c, l)
    BY <1>4 DEF TimerFires, CallbackStep, CallbackStale, CallbackPostpones,
       CallbackUnloads, CallbackUnloadOK, CallbackUnloadError, releaseManaged, Out
  <2>2. /\ gate' \in {gate, Nobody}
        /\ UNCHANGED <<manualPinned, rest, job, prev, late, stranded>>
        /\ engine' \in {engine, NoModel}
    BY <1>4 DEF TimerFires, CallbackStep, CallbackStale, CallbackPostpones,
       CallbackUnloads, CallbackUnloadOK, CallbackUnloadError, releaseManaged, flags,
       timer, AfterFailedUnload
  <2>3. /\ armed' \in BOOLEAN /\ demandLoaded' \in BOOLEAN /\ adrift' \in BOOLEAN
    BY <1>4, Zenon DEF TimerFires, CallbackStep, CallbackStale, CallbackPostpones,
       CallbackUnloads, CallbackUnloadOK, CallbackUnloadError, flags, timer, TypeOK
  <2>4. fresh' \in [Callbacks -> BOOLEAN]
    BY <1>4 DEF TimerFires, CallbackStep, CallbackStale, CallbackPostpones,
       CallbackUnloads, CallbackUnloadOK, CallbackUnloadError, timer, TypeOK
  <2> QED BY <2>1, <2>2, <2>3, <2>4, MoveType DEF TypeOK, WellDirected, rest
<1>5. CASE EngineCrash \/ LateLoad \/ SetRunner \/ Close
  BY <1>5, TimerType DEF EngineCrash, LateLoad, SetRunner, Close, TypeOK, WellDirected, flags,
     timer, rest
<1>6. ASSUME NEW d \in Policies, SetIdleUnload(d)
      PROVE  Typed'
  BY <1>6, TimerType DEF SetIdleUnload, TypeOK, WellDirected, flags
<1>7. CASE UNCHANGED vars
  BY <1>7 DEF vars, TypeOK, WellDirected, flags, timer, rest
<1> QED BY <1>1, <1>2, <1>3, <1>4, <1>5, <1>6, <1>7 DEF Next

-----------------------------------------------------------------------------
(* The gate *)

\* How a goroutine moves with respect to the gate: it enters a free one, stays
\* behind it, leaves it free, or does not touch it.
GateMove(p) ==
  /\ \A q \in Procs \ {p} : pc'[q] = pc[q]
  /\ \/ pc[p] \notin GatedPhases /\ gate = Nobody /\ gate' = p
     \/ pc[p] \in GatedPhases /\ pc'[p] \in GatedPhases /\ gate' = gate
     \/ pc[p] \in GatedPhases /\ pc'[p] \notin GatedPhases /\ gate' = Nobody
     \/ pc[p] \notin GatedPhases /\ pc'[p] \notin GatedPhases /\ gate' = gate

\* Every step is such a move of one goroutine, or moves none.
LEMMA StepMoves ==
  ASSUME Typed, [Next]_vars
  PROVE  (\E p \in Procs : GateMove(p)) \/ UNCHANGED <<gate, pc>>
<1> USE DEF GateMove, GatedPhases, Procs, Typed, TypeOK, Goto
<1>1. ASSUME NEW p \in Procs, acquireManaged(p) \/ GiveUp(p)
      PROVE  GateMove(p)
  BY <1>1 DEF acquireManaged, GiveUp, Out
<1>2. ASSUME NEW r \in Requests, Submit(r) \/ RequestStep(r)
      PROVE  GateMove(r)
  BY <1>2 DEF Submit, RequestStep, EnsureRefused, EnsureLoaded, EnsureSwitch,
     DemandLoadOK, DemandLoadError, DemandLoadProbed, StreamEnd, Finish,
     releaseManaged, Out
<1>3. ASSUME NEW o \in Owners, OwnerCall(o) \/ OwnerStep(o)
      PROVE  GateMove(o)
  BY <1>3 DEF OwnerCall, OwnerStep, OwnerRefused, OwnerLoadStart, OwnerLoadOK,
     OwnerLoadError, OwnerLoadProbed, OwnerUnloadStart, OwnerUnloadOK,
     OwnerUnloadError, releaseManaged, Out
<1>4. ASSUME NEW c \in Callbacks, TimerFires(c) \/ CallbackStep(c)
      PROVE  GateMove(c)
  BY <1>4 DEF TimerFires, CallbackStep, CallbackStale, CallbackPostpones,
     CallbackUnloads, CallbackUnloadOK, CallbackUnloadError, releaseManaged, Out
<1>5. CASE EngineCrash \/ LateLoad \/ SetRunner \/ Close \/ (\E d \in Policies : SetIdleUnload(d))
  BY <1>5 DEF EngineCrash, LateLoad, SetRunner, Close, SetIdleUnload
<1>6. CASE UNCHANGED vars
  BY <1>6 DEF vars
<1> QED BY <1>1, <1>2, <1>3, <1>4, <1>5, <1>6, Zenon DEF Next

\* The gate is handed over and returned exactly once, whatever fails in between.
LEMMA NextGate == Typed /\ GateExact /\ [Next]_vars => GateExact'
<1> SUFFICES ASSUME Typed, GateExact, [Next]_vars PROVE GateExact'
  OBVIOUS
<1>1. CASE UNCHANGED <<gate, pc>>
  BY <1>1 DEF GateExact
<1>2. ASSUME NEW p \in Procs, GateMove(p) PROVE GateExact'
  BY <1>2 DEF GateMove, GateExact
<1> QED BY <1>1, <1>2, StepMoves

\* The holder of the gate moves alone.
LEMMA Alone ==
  ASSUME Typed, GateExact, NEW p \in Procs, pc[p] \in GatedPhases, NEW l, Goto(p, l)
  PROVE  /\ \A q \in Procs \ {p} : pc[q] \notin GatedPhases
         /\ \A q \in Procs \ {p} : pc'[q] = pc[q]
         /\ pc'[p] = l
BY DEF Typed, TypeOK, GateExact, Goto

-----------------------------------------------------------------------------
(* The flags *)

FlagsInv == LoadingFlags /\ PinExcludesDemand /\ UnloadRespectsPin

\* A step that leaves the flags alone, and takes nobody into a load or a
\* callback into its unload, keeps what they say.
LEMMA FlagsKept ==
  ASSUME Typed, FlagsInv, UNCHANGED flags,
         \A p \in Procs : pc'[p] = pc[p] \/ pc'[p] \notin {"loading", "probing", "unloading"}
  PROVE  FlagsInv'
BY DEF FlagsInv, LoadingFlags, PinExcludesDemand, UnloadRespectsPin, flags, Procs

\* A process that loads or unloads has set the flags it will rely on, and nobody else
\* writes them.
LEMMA NextFlags == Typed /\ GateExact /\ FlagsInv /\ [Next]_vars => FlagsInv'
<1> SUFFICES ASSUME Typed, GateExact, FlagsInv, [Next]_vars PROVE FlagsInv'
  OBVIOUS
<1> USE DEF GatedPhases, FlagsInv
<1>1. ASSUME NEW p \in Procs, acquireManaged(p) \/ GiveUp(p)
      PROVE  FlagsInv'
  BY <1>1, FlagsKept DEF acquireManaged, GiveUp, Out, Goto, Typed, TypeOK, flags
<1>2. ASSUME NEW r \in Requests, Submit(r) \/ RequestStep(r)
      PROVE  FlagsInv'
  <2> r \in Procs /\ r \notin Callbacks /\ r \notin Owners
    BY DEF Procs
  <2>1. CASE Submit(r) \/ EnsureRefused(r) \/ Finish(r) \/ StreamEnd(r)
    BY <2>1, FlagsKept DEF Submit, EnsureRefused, Finish, StreamEnd, releaseManaged, Out,
       Goto, Typed, TypeOK, flags
  <2>2. CASE EnsureLoaded(r)
    <3>1. pc[r] \in GatedPhases /\ Goto(r, "streaming")
      BY <2>2 DEF EnsureLoaded
    <3>2. PinExcludesDemand'
      BY <2>2, Zenon DEF EnsureLoaded, PinExcludesDemand
    <3> QED BY <3>1, <3>2, Alone DEF LoadingFlags, UnloadRespectsPin, Procs
  <2>3. CASE EnsureSwitch(r)
    <3>1. pc[r] \in GatedPhases /\ Goto(r, "loading")
      BY <2>3 DEF EnsureSwitch
    <3>2. ~demandLoaded' /\ ~manualPinned'
      BY <2>3, Zenon DEF EnsureSwitch
    <3> QED BY <3>1, <3>2, Alone DEF LoadingFlags, UnloadRespectsPin, PinExcludesDemand, Procs
  <2>4. CASE DemandLoadOK(r)
    <3>1. pc[r] \in GatedPhases /\ Goto(r, "streaming")
      BY <2>4 DEF DemandLoadOK
    <3>2. ~manualPinned'
      BY <2>4, Zenon DEF DemandLoadOK
    <3> QED BY <3>1, <3>2, Alone DEF LoadingFlags, UnloadRespectsPin, PinExcludesDemand, Procs
  <2>5. CASE DemandLoadError(r)
    <3>1. pc[r] = "loading" /\ Goto(r, "probing") /\ UNCHANGED flags
      BY <2>5 DEF DemandLoadError
    <3> QED BY <3>1, Alone DEF LoadingFlags, UnloadRespectsPin, PinExcludesDemand, Procs, flags
  <2>6. CASE DemandLoadProbed(r)
    <3>1. pc[r] = "probing" /\ Goto(r, "leaving")
      BY <2>6 DEF DemandLoadProbed, releaseManaged, Out
    <3>2. ~demandLoaded /\ ~manualPinned
      BY <3>1 DEF LoadingFlags
    <3>3. PinExcludesDemand'
      BY <2>6, <3>2, Zenon DEF DemandLoadProbed, RestoreFlags, PinExcludesDemand
    <3> QED BY <3>1, <3>3, Alone DEF LoadingFlags, UnloadRespectsPin, Procs
  <2> QED BY <1>2, <2>1, <2>2, <2>3, <2>4, <2>5, <2>6 DEF RequestStep
<1>3. ASSUME NEW o \in Owners, OwnerCall(o) \/ OwnerStep(o)
      PROVE  FlagsInv'
  <2> o \in Procs /\ o \notin Callbacks /\ o \notin Requests
    BY DEF Procs
  <2>1. CASE OwnerCall(o) \/ OwnerRefused(o) \/ OwnerLoadOK(o) \/ OwnerUnloadError(o)
    BY <2>1, FlagsKept DEF OwnerCall, OwnerRefused, OwnerLoadOK, OwnerUnloadError,
       releaseManaged, Out, Goto, Typed, TypeOK, flags
  <2>2. CASE OwnerLoadStart(o)
    <3>1. pc[o] \in GatedPhases /\ Goto(o, "loading")
      BY <2>2 DEF OwnerLoadStart
    <3>2. ~demandLoaded' /\ manualPinned'
      BY <2>2, Zenon DEF OwnerLoadStart
    <3> QED BY <3>1, <3>2, Alone DEF LoadingFlags, UnloadRespectsPin, PinExcludesDemand, Procs
  <2>3. CASE OwnerLoadError(o)
    <3>1. pc[o] = "loading" /\ Goto(o, "probing") /\ UNCHANGED flags
      BY <2>3 DEF OwnerLoadError
    <3> QED BY <3>1, Alone DEF LoadingFlags, UnloadRespectsPin, PinExcludesDemand, Procs, flags
  <2>4. CASE OwnerLoadProbed(o) \/ OwnerUnloadOK(o)
    <3>1. pc[o] \in GatedPhases /\ Goto(o, "idle")
      BY <2>4 DEF OwnerLoadProbed, OwnerUnloadOK, releaseManaged, Out
    <3>2. ~manualPinned'
      BY <2>4, Zenon DEF OwnerLoadProbed, OwnerUnloadOK
    <3> QED BY <3>1, <3>2, Alone DEF LoadingFlags, UnloadRespectsPin, PinExcludesDemand, Procs
  <2>5. CASE OwnerUnloadStart(o)
    <3>1. pc[o] \in GatedPhases /\ Goto(o, "unloading") /\ UNCHANGED flags
      BY <2>5 DEF OwnerUnloadStart
    <3> QED BY <3>1, Alone DEF LoadingFlags, UnloadRespectsPin, PinExcludesDemand, Procs, flags
  <2> QED BY <1>3, <2>1, <2>2, <2>3, <2>4, <2>5 DEF OwnerStep
<1>4. ASSUME NEW c \in Callbacks, TimerFires(c) \/ CallbackStep(c)
      PROVE  FlagsInv'
  <2> c \in Procs /\ c \notin Owners /\ c \notin Requests
    BY DEF Procs
  <2>1. CASE TimerFires(c) \/ CallbackStale(c) \/ CallbackPostpones(c) \/ CallbackUnloadError(c)
    BY <2>1, FlagsKept DEF TimerFires, CallbackStale, CallbackPostpones,
       CallbackUnloadError, releaseManaged, Out, Goto, Typed, TypeOK, flags
  <2>2. CASE CallbackUnloads(c)
    <3>1. pc[c] \in GatedPhases /\ Goto(c, "unloading") /\ UNCHANGED flags /\ ~manualPinned
      BY <2>2 DEF CallbackUnloads
    <3> QED BY <3>1, Alone DEF LoadingFlags, UnloadRespectsPin, PinExcludesDemand, Procs, flags
  <2>3. CASE CallbackUnloadOK(c)
    <3>1. pc[c] \in GatedPhases /\ Goto(c, "idle") /\ UNCHANGED manualPinned
      BY <2>3 DEF CallbackUnloadOK, releaseManaged, Out
    <3>2. PinExcludesDemand'
      BY <2>3, Zenon DEF CallbackUnloadOK, PinExcludesDemand
    <3> QED BY <3>1, <3>2, Alone DEF LoadingFlags, UnloadRespectsPin, Procs
  <2> QED BY <1>4, <2>1, <2>2, <2>3 DEF CallbackStep
<1>5. CASE EngineCrash \/ LateLoad \/ SetRunner \/ Close \/ (\E d \in Policies : SetIdleUnload(d))
  BY <1>5, FlagsKept DEF EngineCrash, LateLoad, SetRunner, Close, SetIdleUnload
<1>6. CASE UNCHANGED vars
  BY <1>6, FlagsKept DEF vars
<1> QED BY <1>1, <1>2, <1>3, <1>4, <1>5, <1>6 DEF Next

-----------------------------------------------------------------------------
(* The timer *)

TimerInv == NeverPolicyHolds /\ OneReleasePending

\* A new generation leaves no callback to unload: at most the timer is left,
\* and only under a policy that allows it.
LEMMA TimerRenewed ==
  ASSUME Typed, NewGeneration, armed' => idleAfter' >= 0, idleAfter' \in Policies
  PROVE  TimerInv'
BY DEF TimerInv, NewGeneration, NeverPolicyHolds, OneReleasePending

\* A step that leaves the timer and the policy alone and takes no callback
\* out of rest keeps what is said of them.
LEMMA TimerKept ==
  ASSUME Typed, TimerInv, UNCHANGED <<armed, fresh, idleAfter>>,
         \A c \in Callbacks : pc[c] = "idle" => pc'[c] = "idle"
  PROVE  TimerInv'
BY DEF TimerInv, NeverPolicyHolds, OneReleasePending

\* Under a policy of never nothing is armed, and at most one release is pending.
LEMMA NextTimer == Typed /\ TimerInv /\ [Next]_vars => TimerInv'
<1> SUFFICES ASSUME Typed, TimerInv, [Next]_vars PROVE TimerInv'
  OBVIOUS
<1>0. Typed'
  BY NextType
<1>1. ASSUME NEW p \in Procs, acquireManaged(p) \/ GiveUp(p)
      PROVE  TimerInv'
  BY <1>1, TimerKept DEF acquireManaged, GiveUp, Goto, Typed, TypeOK, timer, rest, Procs
<1>2. ASSUME NEW r \in Requests, Submit(r) \/ RequestStep(r)
      PROVE  TimerInv'
  <2>1. \A c \in Callbacks : pc'[c] = pc[c]
    BY <1>2 DEF Submit, RequestStep, EnsureRefused, EnsureLoaded, EnsureSwitch,
       DemandLoadOK, DemandLoadError, DemandLoadProbed, StreamEnd, Finish,
       releaseManaged, Goto, Typed, TypeOK, Procs
  <2>2. UNCHANGED idleAfter
    BY <1>2 DEF Submit, RequestStep, EnsureRefused, EnsureLoaded, EnsureSwitch,
       DemandLoadOK, DemandLoadError, DemandLoadProbed, StreamEnd, Finish, rest
  <2>3. \/ UNCHANGED <<armed, fresh>>
        \/ stopIdleTimerLocked
        \/ scheduleIdleUnloadLocked
    BY <1>2, Zenon DEF Submit, RequestStep, EnsureRefused, EnsureLoaded, EnsureSwitch,
       DemandLoadOK, DemandLoadError, DemandLoadProbed, StreamEnd, Finish, RestoreFlags,
       timer
  <2>4. CASE UNCHANGED <<armed, fresh>>
    BY <2>1, <2>2, <2>4, TimerKept
  <2>5. CASE stopIdleTimerLocked \/ scheduleIdleUnloadLocked
    <3>1. armed' => idleAfter' >= 0
      BY <2>5, Zenon DEF stopIdleTimerLocked, scheduleIdleUnloadLocked, MayRelease
    <3> QED BY <1>0, <2>5, <3>1, TimerRenewed
            DEF stopIdleTimerLocked, scheduleIdleUnloadLocked, Typed, TypeOK
  <2> QED BY <2>3, <2>4, <2>5
<1>3. ASSUME NEW o \in Owners, OwnerCall(o) \/ OwnerStep(o)
      PROVE  TimerInv'
  <2>1. \A c \in Callbacks : pc'[c] = pc[c]
    BY <1>3 DEF OwnerCall, OwnerStep, OwnerRefused, OwnerLoadStart, OwnerLoadOK,
       OwnerLoadError, OwnerLoadProbed, OwnerUnloadStart, OwnerUnloadOK,
       OwnerUnloadError, releaseManaged, Goto, Typed, TypeOK, Procs
  <2>2. UNCHANGED idleAfter
    BY <1>3 DEF OwnerCall, OwnerStep, OwnerRefused, OwnerLoadStart, OwnerLoadOK,
       OwnerLoadError, OwnerLoadProbed, OwnerUnloadStart, OwnerUnloadOK,
       OwnerUnloadError, rest
  <2>3. \/ UNCHANGED <<armed, fresh>>
        \/ stopIdleTimerLocked
        \/ scheduleIdleUnloadLocked
    BY <1>3, Zenon DEF OwnerCall, OwnerStep, OwnerRefused, OwnerLoadStart, OwnerLoadOK,
       OwnerLoadError, OwnerLoadProbed, OwnerUnloadStart, OwnerUnloadOK,
       OwnerUnloadError, timer
  <2>4. CASE UNCHANGED <<armed, fresh>>
    BY <2>1, <2>2, <2>4, TimerKept
  <2>5. CASE stopIdleTimerLocked \/ scheduleIdleUnloadLocked
    <3>1. armed' => idleAfter' >= 0
      BY <2>5, Zenon DEF stopIdleTimerLocked, scheduleIdleUnloadLocked, MayRelease
    <3> QED BY <1>0, <2>5, <3>1, TimerRenewed
            DEF stopIdleTimerLocked, scheduleIdleUnloadLocked, Typed, TypeOK
  <2> QED BY <2>3, <2>4, <2>5
<1>4. ASSUME NEW c \in Callbacks, TimerFires(c) \/ CallbackStep(c)
      PROVE  TimerInv'
  <2> USE DEF TimerInv, NeverPolicyHolds, OneReleasePending, Goto, Typed, TypeOK, Procs
  <2> c \notin Requests
    OBVIOUS
  <2>1. CASE TimerFires(c)
    BY <2>1 DEF TimerFires, rest
  <2>2. CASE CallbackStale(c) \/ CallbackUnloads(c) \/ CallbackUnloadOK(c)
    BY <2>2 DEF CallbackStale, CallbackUnloads, CallbackUnloadOK, releaseManaged, Out,
       rest, timer
  <2>3. CASE CallbackPostpones(c)
    BY <2>3 DEF CallbackPostpones, releaseManaged, Out, rest
  <2>4. CASE CallbackUnloadError(c)
    <3>1. armed' => armed \/ fresh[c]
      BY <2>4, Zenon DEF CallbackUnloadError, RetryUnload
    <3>2. /\ pc[c] = "unloading" /\ Goto(c, "idle")
          /\ UNCHANGED <<fresh, idleAfter>>
      BY <2>4 DEF CallbackUnloadError, releaseManaged, Out, rest
    <3> QED BY <3>1, <3>2
  <2> QED BY <1>4, <2>1, <2>2, <2>3, <2>4 DEF CallbackStep
<1>5. CASE EngineCrash \/ LateLoad \/ SetRunner
  BY <1>5, TimerKept DEF EngineCrash, LateLoad, SetRunner, timer, rest
<1>6. CASE Close \/ (\E d \in Policies : SetIdleUnload(d))
  <2>1. NewGeneration
    BY <1>6 DEF Close, SetIdleUnload, stopIdleTimerLocked, scheduleIdleUnloadLocked
  <2>2. armed' => idleAfter' >= 0
    BY <1>6, Zenon DEF Close, SetIdleUnload, stopIdleTimerLocked,
       scheduleIdleUnloadLocked, MayRelease
  <2> QED BY <1>0, <2>1, <2>2, TimerRenewed DEF Typed, TypeOK
<1>7. CASE UNCHANGED vars
  BY <1>7, TimerKept DEF vars, timer, rest
<1> QED BY <1>1, <1>2, <1>3, <1>4, <1>5, <1>6, <1>7 DEF Next

-----------------------------------------------------------------------------
(* Theorems *)

\* The invariant holds at the start.
LEMMA InitInv == Init => LifecycleInv
<1> SUFFICES ASSUME Init PROVE LifecycleInv
  OBVIOUS
<1>1. Typed
  BY InitType
<1>2. \A p \in Procs : pc[p] = "idle"
  BY DEF Init
<1>3. ~demandLoaded /\ ~armed
  BY DEF Init
<1> QED BY <1>1, <1>2, <1>3 DEF LifecycleInv, GateExact, GatedPhases, LoadingFlags,
           ReleaseDiscipline, PinExcludesDemand, NeverPolicyHolds, OneReleasePending,
           UnloadRespectsPin, Procs

\* The inductive step.
LEMMA NextInv == LifecycleInv /\ [Next]_vars => LifecycleInv'
BY NextType, NextGate, NextFlags, NextTimer
   DEF LifecycleInv, FlagsInv, TimerInv, ReleaseDiscipline

\* LifecycleInv is an invariant of the service, whatever its callers, its
\* timer and its runner do.
THEOREM Invariance == Spec => []LifecycleInv
BY InitInv, NextInv, PTL DEF Spec

\* Every field of the Service and every goroutine keeps its type.
THEOREM TypeCorrect == Spec => []TypeOK
BY Invariance, PTL DEF LifecycleInv, Typed

\* The pin excludes a release, a policy of "never" leaves none behind, at most
\* one is under way, and none takes an engine the owner asked for.
THEOREM ReleasesDisciplined == Spec => []ReleaseDiscipline
BY Invariance, PTL DEF LifecycleInv

\* The engine changes only by a goroutine that leaves its phase, by its own
\* death, or by a load that outlived its call.
LEMMA EngineMoved ==
  ASSUME Typed, [Next]_vars, engine' # engine
  PROVE  \/ \E q \in Procs : pc[q] \in GatedPhases /\ pc'[q] # pc[q]
         \/ engine' = NoModel /\ UNCHANGED pc
         \/ engine' = late /\ UNCHANGED <<pc, timer, flags>>
<1> USE DEF GatedPhases, Goto, Typed, TypeOK, Procs, releaseManaged, Out
<1>1. ASSUME NEW p \in Procs, acquireManaged(p) \/ GiveUp(p)
      PROVE  FALSE
  BY <1>1 DEF acquireManaged, GiveUp
<1>2. ASSUME NEW r \in Requests, Submit(r) \/ RequestStep(r)
      PROVE  pc[r] = "loading" /\ pc'[r] # pc[r]
  <2>1. DemandLoadOK(r) \/ DemandLoadError(r)
    BY <1>2 DEF Submit, RequestStep, EnsureRefused, EnsureLoaded, EnsureSwitch,
       DemandLoadProbed, StreamEnd, Finish
  <2> QED BY <2>1 DEF DemandLoadOK, DemandLoadError
<1>3. ASSUME NEW o \in Owners, OwnerCall(o) \/ OwnerStep(o)
      PROVE  pc[o] \in {"loading", "unloading"} /\ pc'[o] # pc[o]
  BY <1>3 DEF OwnerCall, OwnerStep, OwnerRefused, OwnerLoadStart, OwnerLoadOK,
     OwnerLoadError, OwnerLoadProbed, OwnerUnloadStart, OwnerUnloadOK, OwnerUnloadError
<1>4. ASSUME NEW c \in Callbacks, TimerFires(c) \/ CallbackStep(c)
      PROVE  pc[c] = "unloading" /\ pc'[c] # pc[c]
  BY <1>4 DEF TimerFires, CallbackStep, CallbackStale, CallbackPostpones,
     CallbackUnloads, CallbackUnloadOK, CallbackUnloadError
<1>5. CASE EngineCrash \/ LateLoad
  BY <1>5 DEF EngineCrash, LateLoad
<1>6. ASSUME SetRunner \/ Close \/ (\E d \in Policies : SetIdleUnload(d)) \/ UNCHANGED vars
      PROVE  FALSE
  BY <1>6 DEF SetRunner, Close, SetIdleUnload, vars
<1> QED BY <1>1, <1>2, <1>3, <1>4, <1>5, <1>6 DEF Next

\* While a request streams, or a call of the owner is at the runner, nobody
\* else changes the engine; it can only die on its own, or be replaced by a
\* load that the runner finishes after its call failed.
THEOREM NeverInterrupted == Spec => Uninterrupted
<1>1. LifecycleInv /\ [Next]_vars =>
        [\A p \in Requests \cup Owners :
           /\ pc[p] \in {"streaming", "loading", "probing", "unloading"}
           /\ engine' # engine
           => \/ pc'[p] # pc[p]
              \/ engine' = NoModel /\ UNCHANGED pc
              \/ engine' = late /\ UNCHANGED <<pc, timer, flags>>]_vars
  <2> SUFFICES ASSUME LifecycleInv, [Next]_vars,
                      NEW p \in Requests \cup Owners,
                      pc[p] \in {"streaming", "loading", "probing", "unloading"},
                      engine' # engine
               PROVE  \/ pc'[p] # pc[p]
                      \/ engine' = NoModel /\ UNCHANGED pc
                      \/ engine' = late /\ UNCHANGED <<pc, timer, flags>>
    OBVIOUS
  <2>1. CASE \/ engine' = NoModel /\ UNCHANGED pc
             \/ engine' = late /\ UNCHANGED <<pc, timer, flags>>
    BY <2>1
  <2>2. ASSUME NEW q \in Procs, pc[q] \in GatedPhases, pc'[q] # pc[q]
        PROVE  pc'[p] # pc[p]
    BY <2>2 DEF LifecycleInv, GateExact, GatedPhases, Procs
  <2> QED BY <2>1, <2>2, EngineMoved DEF LifecycleInv
<1> QED BY <1>1, Invariance, PTL DEF Spec, Uninterrupted

-----------------------------------------------------------------------------
(* An engine is never forgotten, but for the windows adrift and stranded name *)

\* What the timer, or a callback that is not stale, will release.
ReleaseAhead == armed \/ \E c \in Callbacks : fresh[c] /\ pc[c] # "idle"

\* A request that is at the runner with a managed model: it will take the
\* release over, or has stopped it and schedules the next when it leaves.
Serving(r) ==
  \/ pc[r] \in {"loading", "probing", "streaming"}
  \/ pc[r] = "entered" /\ modelOf[r] # Misconfigured

\* Somebody at the runner, or a failed unload of the owner, accounts for a
\* release that is not ahead.
Covered ==
  \/ stranded
  \/ \E r \in Requests : Serving(r)
  \/ \E o \in Owners : pc[o] = "unloading"

\* What is loaded on demand, or being loaded, is at a runner.
RunnerKnown ==
  /\ demandLoaded => runner
  /\ \A r \in Requests : pc[r] \in {"loading", "probing", "streaming"} => runner
  /\ \A o \in Owners : pc[o] \in {"loading", "probing"} => runner

ReleaseKept == MayRelease => ReleaseAhead \/ Covered

\* A resident engine is known to the flags, except during a load that may
\* have left it there: then the flags remembered, or the model asked for,
\* account for it.
EngineKnown ==
  engine # NoModel =>
    /\ \/ demandLoaded \/ manualPinned \/ adrift
       \/ \E r \in Requests : pc[r] \in {"loading", "probing"}
    /\ \A r \in Requests :
         /\ pc[r] = "loading" => prev.demand \/ prev.pinned \/ adrift
         /\ pc[r] = "probing" => prev.demand \/ prev.pinned \/ adrift \/ engine = modelOf[r]
    /\ \A o \in Owners :
         /\ pc[o] = "loading" => prev.demand \/ adrift
         /\ pc[o] = "probing" => prev.demand \/ adrift \/ engine = job[o].model

ReleaseInv == RunnerKnown /\ ReleaseKept /\ EngineKnown

\* Flags are raised for an engine only with a runner at hand.
LEMMA NextRunnerKnown ==
  ASSUME LifecycleInv, RunnerKnown, [Next]_vars
  PROVE  RunnerKnown'
<1> USE DEF RunnerKnown, Goto, LifecycleInv, Typed, TypeOK, Procs
<1>1. ASSUME NEW p \in Procs, acquireManaged(p) \/ GiveUp(p)
      PROVE  RunnerKnown'
  BY <1>1 DEF acquireManaged, GiveUp, Out, flags, rest
<1>2. ASSUME NEW r \in Requests, Submit(r) \/ RequestStep(r)
      PROVE  RunnerKnown'
  <2>1. CASE Submit(r) \/ EnsureRefused(r) \/ Finish(r)
    BY <2>1 DEF Submit, EnsureRefused, Finish, releaseManaged, Out, flags, rest
  <2>2. CASE ~(Submit(r) \/ EnsureRefused(r) \/ Finish(r))
    <3>1. runner /\ UNCHANGED runner
      BY <1>2, <2>2 DEF RequestStep, EnsureLoaded, EnsureSwitch, DemandLoadOK,
         DemandLoadError, DemandLoadProbed, StreamEnd, rest
    <3> QED BY <3>1
  <2> QED BY <2>1, <2>2
<1>3. ASSUME NEW o \in Owners, OwnerCall(o) \/ OwnerStep(o)
      PROVE  RunnerKnown'
  <2>1. CASE OwnerCall(o) \/ OwnerRefused(o) \/ OwnerUnloadError(o)
    BY <2>1 DEF OwnerCall, OwnerRefused, OwnerUnloadError, releaseManaged, Out, flags, rest
  <2>2. CASE OwnerUnloadOK(o)
    <3>1. ~demandLoaded' /\ UNCHANGED runner
      BY <2>2, Zenon DEF OwnerUnloadOK, rest
    <3>2. \A p \in Procs : pc'[p] \in {pc[p], "idle"}
      BY <2>2 DEF OwnerUnloadOK, releaseManaged, Out
    <3> QED BY <3>1, <3>2
  <2>3. CASE ~(OwnerCall(o) \/ OwnerRefused(o) \/ OwnerUnloadError(o) \/ OwnerUnloadOK(o))
    <3>1. runner /\ UNCHANGED runner
      BY <1>3, <2>3 DEF OwnerStep, OwnerLoadStart, OwnerLoadOK, OwnerLoadError,
         OwnerLoadProbed, OwnerUnloadStart, rest
    <3> QED BY <3>1
  <2> QED BY <2>1, <2>2, <2>3
<1>4. ASSUME NEW c \in Callbacks, TimerFires(c) \/ CallbackStep(c)
      PROVE  RunnerKnown'
  <2>1. demandLoaded' => demandLoaded
    BY <1>4, Zenon DEF TimerFires, CallbackStep, CallbackStale, CallbackPostpones,
       CallbackUnloads, CallbackUnloadOK, CallbackUnloadError, flags
  <2>2. /\ UNCHANGED runner
        /\ \A r \in Requests : pc'[r] = pc[r]
        /\ \A o \in Owners : pc'[o] = pc[o]
    BY <1>4 DEF TimerFires, CallbackStep, CallbackStale, CallbackPostpones,
       CallbackUnloads, CallbackUnloadOK, CallbackUnloadError, releaseManaged, rest
  <2> QED BY <2>1, <2>2
<1>5. CASE EngineCrash \/ LateLoad \/ SetRunner \/ Close \/ (\E d \in Policies : SetIdleUnload(d))
  BY <1>5 DEF EngineCrash, LateLoad, SetRunner, Close, SetIdleUnload, flags, rest
<1>6. CASE UNCHANGED vars
  BY <1>6 DEF vars, flags, rest
<1> QED BY <1>1, <1>2, <1>3, <1>4, <1>5, <1>6 DEF Next

\* An engine that is known stays known while nobody enters or leaves a load.
LEMMA KnownKept ==
  ASSUME EngineKnown, UNCHANGED <<engine, flags, adrift, prev>>,
         \A p \in Requests \cup Owners :
           {pc[p], pc'[p]} \cap {"loading", "probing"} # {} =>
             pc'[p] = pc[p] /\ (p \in Owners => job'[p] = job[p])
  PROVE  EngineKnown'
BY DEF EngineKnown, flags

\* Once the gate is free, the flags and adrift account for an engine.
LEMMA KnownFree ==
  ASSUME \A p \in Requests \cup Owners : pc'[p] \notin {"loading", "probing"},
         engine' # NoModel => demandLoaded' \/ manualPinned' \/ adrift'
  PROVE  EngineKnown'
BY DEF EngineKnown

\* The flags always account for a resident engine.
LEMMA NextEngineKnown ==
  ASSUME LifecycleInv, EngineKnown, [Next]_vars
  PROVE  EngineKnown'
<1>0. Typed /\ GateExact
  BY DEF LifecycleInv
<1> USE DEF GatedPhases
<1>1. ASSUME NEW p \in Procs, acquireManaged(p) \/ GiveUp(p)
      PROVE  EngineKnown'
  BY <1>0, <1>1, KnownKept DEF acquireManaged, GiveUp, Out, Goto, Typed, TypeOK, Procs
<1>2. ASSUME NEW r \in Requests, Submit(r) \/ RequestStep(r)
      PROVE  EngineKnown'
  <2> r \in Procs /\ r \notin Owners
    BY DEF Procs
  <2>1. CASE Submit(r) \/ EnsureRefused(r) \/ Finish(r) \/ StreamEnd(r)
    BY <1>0, <2>1, KnownKept DEF Submit, EnsureRefused, Finish, StreamEnd, releaseManaged,
       Out, Goto, Typed, TypeOK, Procs
  <2>2. CASE EnsureLoaded(r) \/ DemandLoadOK(r)
    <3>1. demandLoaded' \/ manualPinned'
      <4>1. CASE DemandLoadOK(r)
        BY <4>1, Zenon DEF DemandLoadOK
      <4>2. CASE EnsureLoaded(r)
        <5>1. manualPinned' = manualPinned
          BY <4>2 DEF EnsureLoaded
        <5>2. demandLoaded' = (demandLoaded \/ ~manualPinned)
          BY <4>2 DEF EnsureLoaded
        <5>3. manualPinned \in BOOLEAN
          BY <1>0 DEF Typed, TypeOK
        <5> QED BY <5>1, <5>2, <5>3, Zenon
      <4> QED BY <2>2, <4>1, <4>2
    <3>2. pc[r] \in GatedPhases /\ Goto(r, "streaming")
      BY <2>2 DEF EnsureLoaded, DemandLoadOK
    <3>3. \A p \in Procs : pc'[p] \notin {"loading", "probing"}
      BY <1>0, <3>2, Alone
    <3> QED BY <3>1, <3>3, KnownFree DEF Procs
  <2>3. CASE EnsureSwitch(r)
    <3>1. pc[r] = "entered" /\ Goto(r, "loading") /\ UNCHANGED <<engine, adrift>>
      BY <2>3 DEF EnsureSwitch
    <3>2. /\ \A q \in Procs \ {r} : pc[q] \notin GatedPhases /\ pc'[q] \notin GatedPhases
          /\ pc'[r] = "loading"
      BY <1>0, <3>1, Alone
    <3>3. engine # NoModel => demandLoaded \/ manualPinned \/ adrift
      BY <3>1, <3>2 DEF EngineKnown, Procs
    <3>4. engine # NoModel => prev'.demand \/ prev'.pinned \/ adrift
      BY <2>3, <3>3, Zenon DEF EnsureSwitch
    <3> QED BY <3>1, <3>2, <3>4 DEF EngineKnown, Procs
  <2>5. CASE DemandLoadError(r)
    <3>1. pc[r] = "loading" /\ Goto(r, "probing") /\ UNCHANGED <<prev, adrift>>
      BY <2>5 DEF DemandLoadError
    <3>2. engine' \in {engine, NoModel, modelOf[r]}
      BY <2>5 DEF DemandLoadError, FailedLoad, AfterFailedLoad
    <3>3. /\ \A q \in Procs \ {r} : pc'[q] \notin GatedPhases
          /\ pc'[r] = "probing"
      BY <1>0, <3>1, Alone
    <3> QED BY <3>1, <3>2, <3>3 DEF EngineKnown, Procs
  <2>6. CASE DemandLoadProbed(r)
    <3>1. pc[r] = "probing" /\ Goto(r, "leaving") /\ UNCHANGED engine
      BY <2>6 DEF DemandLoadProbed, releaseManaged, Out
    <3>2. \A q \in Procs : pc'[q] \notin {"loading", "probing"}
      BY <1>0, <3>1, Alone
    <3>3. ASSUME engine # NoModel PROVE demandLoaded' \/ manualPinned' \/ adrift'
      <4>1. prev.demand \/ prev.pinned \/ adrift \/ engine = modelOf[r]
        BY <3>1, <3>3 DEF EngineKnown
      <4>2. PICK answer \in BOOLEAN : /\ Learnt(modelOf[r], answer)
                                      /\ RestoreFlags(answer)
        BY <2>6 DEF DemandLoadProbed
      <4>3. answer \/ adrift' \/ prev.demand \/ prev.pinned
        BY <4>1, <4>2, Zenon DEF Learnt
      <4> QED BY <4>2, <4>3, Zenon DEF RestoreFlags
    <3> QED BY <3>1, <3>2, <3>3, KnownFree DEF Procs
  <2> QED BY <1>2, <2>1, <2>2, <2>3, <2>5, <2>6 DEF RequestStep
<1>3. ASSUME NEW o \in Owners, OwnerCall(o) \/ OwnerStep(o)
      PROVE  EngineKnown'
  <2> o \in Procs /\ o \notin Requests
    BY DEF Procs
  <2>1. CASE OwnerCall(o) \/ OwnerRefused(o) \/ OwnerUnloadStart(o)
    BY <1>0, <2>1, KnownKept DEF OwnerCall, OwnerRefused, OwnerUnloadStart, releaseManaged,
       Out, Goto, Typed, TypeOK, Procs
  <2>2. CASE OwnerLoadStart(o)
    <3>1. /\ pc[o] = "entered" /\ Goto(o, "loading") /\ UNCHANGED engine
          /\ prev' = [prev EXCEPT !.demand = demandLoaded]
      BY <2>2 DEF OwnerLoadStart
    <3>2. /\ \A q \in Procs \ {o} : pc[q] \notin GatedPhases /\ pc'[q] \notin GatedPhases
          /\ pc'[o] = "loading"
      BY <1>0, <3>1, Alone
    <3>3. engine # NoModel => demandLoaded \/ manualPinned \/ adrift
      BY <3>1, <3>2 DEF EngineKnown, Procs
    <3>4. prev'.demand = demandLoaded
      BY <1>0, <3>1 DEF Typed, TypeOK
    <3>5. engine # NoModel => prev'.demand \/ adrift'
      BY <2>2, <3>3, <3>4, Zenon DEF OwnerLoadStart
    <3>6. manualPinned'
      BY <2>2, Zenon DEF OwnerLoadStart
    <3> QED BY <3>1, <3>2, <3>5, <3>6 DEF EngineKnown, Procs
  <2>3. CASE OwnerLoadOK(o)
    <3>1. pc[o] = "loading" /\ Goto(o, "idle") /\ UNCHANGED manualPinned
      BY <2>3 DEF OwnerLoadOK, releaseManaged, Out, flags
    <3>2. \A q \in Procs : pc'[q] \notin {"loading", "probing"}
      BY <1>0, <3>1, Alone
    <3>3. manualPinned'
      BY <3>1 DEF LifecycleInv, LoadingFlags
    <3> QED BY <3>2, <3>3, KnownFree DEF Procs
  <2>4. CASE OwnerLoadError(o)
    <3>1. /\ pc[o] = "loading" /\ Goto(o, "probing")
          /\ UNCHANGED <<prev, adrift, job, manualPinned>>
      BY <2>4 DEF OwnerLoadError, flags
    <3>2. engine' \in {engine, NoModel, job[o].model}
      BY <2>4 DEF OwnerLoadError, FailedLoad, AfterFailedLoad
    <3>3. /\ \A q \in Procs \ {o} : pc'[q] \notin GatedPhases
          /\ pc'[o] = "probing"
      BY <1>0, <3>1, Alone
    <3>4. manualPinned'
      BY <3>1 DEF LifecycleInv, LoadingFlags
    <3> QED BY <3>1, <3>2, <3>3, <3>4 DEF EngineKnown, Procs
  <2>5. CASE OwnerLoadProbed(o)
    <3>1. pc[o] = "probing" /\ Goto(o, "idle") /\ UNCHANGED engine
      BY <2>5 DEF OwnerLoadProbed, releaseManaged, Out
    <3>2. \A q \in Procs : pc'[q] \notin {"loading", "probing"}
      BY <1>0, <3>1, Alone
    <3>3. ASSUME engine # NoModel PROVE demandLoaded' \/ manualPinned' \/ adrift'
      <4>1. prev.demand \/ adrift \/ engine = job[o].model
        BY <3>1, <3>3 DEF EngineKnown
      <4>2. PICK answer \in BOOLEAN : /\ Learnt(job[o].model, answer)
                                      /\ demandLoaded' = (answer \/ prev.demand)
        BY <2>5 DEF OwnerLoadProbed
      <4> QED BY <4>1, <4>2, Zenon DEF Learnt
    <3> QED BY <3>1, <3>2, <3>3, KnownFree DEF Procs
  <2>6. CASE OwnerUnloadOK(o) \/ OwnerUnloadError(o)
    <3>1. pc[o] = "unloading" /\ Goto(o, "idle")
      BY <2>6 DEF OwnerUnloadOK, OwnerUnloadError, releaseManaged, Out
    <3>2. \A q \in Procs : pc'[q] \notin {"loading", "probing"}
      BY <1>0, <3>1, Alone
    <3>3. engine' = NoModel \/ UNCHANGED <<engine, flags, adrift>>
      BY <2>6 DEF OwnerUnloadOK, OwnerUnloadError, AfterFailedUnload
    <3>4. \A r \in Requests : pc[r] \notin {"loading", "probing"}
      BY <1>0, <3>1, Alone DEF Procs
    <3>5. engine' # NoModel => demandLoaded' \/ manualPinned' \/ adrift'
      BY <3>3, <3>4 DEF EngineKnown, flags
    <3> QED BY <3>2, <3>5, KnownFree DEF Procs
  <2> QED BY <1>3, <2>1, <2>2, <2>3, <2>4, <2>5, <2>6 DEF OwnerStep
<1>4. ASSUME NEW c \in Callbacks, TimerFires(c) \/ CallbackStep(c)
      PROVE  EngineKnown'
  <2>1. UNCHANGED <<prev, job>> /\ \A p \in Requests \cup Owners : pc'[p] = pc[p]
    BY <1>0, <1>4 DEF TimerFires, CallbackStep, CallbackStale, CallbackPostpones,
       CallbackUnloads, CallbackUnloadOK, CallbackUnloadError, releaseManaged, Goto,
       Typed, TypeOK, Procs
  <2>2. engine' = NoModel \/ UNCHANGED <<engine, flags, adrift>>
    BY <1>4 DEF TimerFires, CallbackStep, CallbackStale, CallbackPostpones,
       CallbackUnloads, CallbackUnloadOK, CallbackUnloadError, AfterFailedUnload
  <2>3. CASE engine' = NoModel
    BY <2>3 DEF EngineKnown
  <2> QED BY <2>1, <2>2, <2>3, KnownKept
<1>5. CASE EngineCrash \/ LateLoad
  BY <1>5 DEF EngineCrash, LateLoad, EngineKnown
<1>6. CASE SetRunner \/ Close \/ (\E d \in Policies : SetIdleUnload(d)) \/ UNCHANGED vars
  BY <1>6, KnownKept DEF SetRunner, Close, SetIdleUnload, vars
<1> QED BY <1>1, <1>2, <1>3, <1>4, <1>5, <1>6 DEF Next

\* A scheduled release is ahead if there is anything to release.
LEMMA Scheduled == scheduleIdleUnloadLocked => ReleaseKept'
BY Zenon DEF scheduleIdleUnloadLocked, ReleaseKept, ReleaseAhead

\* A demand-loaded engine that nobody uses keeps a release ahead of it, unless
\* an unload of the owner stopped the timer and failed.
LEMMA NextReleaseKept ==
  ASSUME LifecycleInv, RunnerKnown, ReleaseKept, [Next]_vars
  PROVE  ReleaseKept'
<1>0. Typed /\ GateExact
  BY DEF LifecycleInv
<1> USE DEF GatedPhases
<1>1. ASSUME NEW p \in Procs, acquireManaged(p) \/ GiveUp(p)
      PROVE  ReleaseKept'
  <2> SUFFICES ASSUME MayRelease' PROVE (ReleaseAhead \/ Covered)'
    BY DEF ReleaseKept
  <2>1. MayRelease /\ UNCHANGED timer
    <3>1. UNCHANGED <<timer, flags, rest>>
      BY <1>1 DEF acquireManaged, GiveUp
    <3> QED BY <3>1 DEF MayRelease, flags, rest
  <2>2. ASSUME Covered PROVE Covered'
    <3>1. \A q \in Procs : pc[q] # "gate" => pc'[q] = pc[q]
      BY <1>0, <1>1 DEF acquireManaged, GiveUp, Goto, Typed, TypeOK
    <3> QED BY <2>1, <2>2, <3>1 DEF Covered, Serving, timer, Procs
  <2>4. CASE armed
    BY <2>1, <2>4 DEF ReleaseAhead, timer
  <2>5. ASSUME NEW c \in Callbacks, fresh[c], pc[c] # "idle"
        PROVE  (ReleaseAhead \/ Covered)'
    <3>1. CASE c # p \/ acquireManaged(p)
      <4>1. pc'[c] # "idle"
        BY <1>0, <1>1, <2>5, <3>1 DEF acquireManaged, GiveUp, Goto, Typed, TypeOK, Procs
      <4> QED BY <2>1, <2>5, <4>1 DEF ReleaseAhead, timer
    <3>2. CASE c = p /\ GiveUp(p)
      <4>1. ~closed /\ ~manualPinned /\ p \notin Requests \cup Owners
        BY <2>1, <2>5, <3>2 DEF MayRelease, Procs
      <4>2. gate \in Requests \cup Owners /\ InRunnerCall(gate)
        BY <3>2, <4>1 DEF GiveUp
      <4>3. CASE gate \in Requests
        <5>1. Serving(gate)
          BY <1>0, <4>2, <4>3 DEF InRunnerCall, Serving, Typed, TypeOK, RequestPhases
        <5> QED BY <2>2, <4>3, <5>1 DEF Covered
      <4>4. CASE gate \in Owners
        <5>1. pc[gate] \in {"loading", "probing", "unloading"}
          BY <1>0, <4>2, <4>4 DEF InRunnerCall, Typed, TypeOK, OwnerPhases
        <5>2. pc[gate] = "unloading"
          BY <4>1, <4>4, <5>1 DEF LifecycleInv, LoadingFlags
        <5> QED BY <2>2, <4>4, <5>2 DEF Covered
      <4> QED BY <4>2, <4>3, <4>4
    <3> QED BY <1>1, <3>1, <3>2
  <2> QED BY <2>1, <2>2, <2>4, <2>5 DEF ReleaseKept, ReleaseAhead
<1>2. ASSUME NEW r \in Requests, Submit(r) \/ RequestStep(r)
      PROVE  ReleaseKept'
  <2> r \in Procs /\ r \notin Callbacks /\ r \notin Owners
    BY DEF Procs
  <2>1. CASE Submit(r) \/ EnsureRefused(r) \/ Finish(r)
    <3> SUFFICES ASSUME MayRelease' PROVE (ReleaseAhead \/ Covered)'
      BY DEF ReleaseKept
    <3>1. MayRelease /\ UNCHANGED timer
      <4>1. UNCHANGED <<timer, flags, rest>>
        BY <2>1 DEF Submit, EnsureRefused, Finish
      <4> QED BY <4>1 DEF MayRelease, flags, rest
    <3>2. \A q \in Procs \ {r} : pc'[q] = pc[q]
      BY <1>0, <2>1 DEF Submit, EnsureRefused, Finish, releaseManaged, Goto, Typed, TypeOK
    <3>3. ~Serving(r)
      BY <2>1, <3>1 DEF Submit, EnsureRefused, Finish, Serving, MayRelease
    <3> QED BY <3>1, <3>2, <3>3 DEF ReleaseKept, ReleaseAhead, Covered, Serving, timer, Procs
  <2>2. CASE EnsureLoaded(r) \/ EnsureSwitch(r) \/ DemandLoadOK(r) \/ DemandLoadError(r)
    <3>1. \E l \in {"streaming", "loading", "probing"} : Goto(r, l)
      BY <2>2 DEF EnsureLoaded, EnsureSwitch, DemandLoadOK, DemandLoadError
    <3>2. Serving(r)'
      BY <1>0, <3>1 DEF Serving, Goto, Typed, TypeOK
    <3> QED BY <3>2 DEF ReleaseKept, Covered
  <2>3. CASE DemandLoadProbed(r)
    <3>1. ~demandLoaded
      BY <2>3 DEF DemandLoadProbed, LifecycleInv, LoadingFlags
    <3>2. scheduleIdleUnloadLocked \/ ~demandLoaded'
      BY <2>3, <3>1, Zenon DEF DemandLoadProbed, RestoreFlags
    <3> QED BY <3>2, Scheduled DEF ReleaseKept, MayRelease
  <2>4. CASE StreamEnd(r)
    BY <2>4, Scheduled DEF StreamEnd
  <2> QED BY <1>2, <2>1, <2>2, <2>3, <2>4 DEF RequestStep
<1>9. ASSUME NEW o \in Owners, OwnerCall(o) \/ OwnerStep(o)
      PROVE  ReleaseKept'
  <2> o \in Procs /\ o \notin Callbacks /\ o \notin Requests
    BY DEF Procs
  <2>1. CASE OwnerCall(o)
    <3>1. /\ UNCHANGED <<timer, flags, rest>> /\ pc[o] = "idle"
          /\ \A q \in Procs \ {o} : pc'[q] = pc[q]
      BY <1>0, <2>1 DEF OwnerCall, Goto, Typed, TypeOK
    <3> QED BY <3>1 DEF ReleaseKept, MayRelease, ReleaseAhead, Covered, Serving, timer,
               flags, rest, Procs
  <2>2. CASE OwnerRefused(o)
    <3>1. UNCHANGED <<flags, rest, timer>> /\ (~runner \/ closed)
      BY <2>2 DEF OwnerRefused
    <3> QED BY <3>1 DEF ReleaseKept, MayRelease, rest
  <2>3. CASE OwnerLoadStart(o)
    <3>1. ~demandLoaded'
      BY <2>3, Zenon DEF OwnerLoadStart
    <3> QED BY <3>1 DEF ReleaseKept, MayRelease
  <2>4. CASE OwnerLoadOK(o) \/ OwnerLoadError(o)
    <3>1. pc[o] = "loading" /\ UNCHANGED flags
      BY <2>4 DEF OwnerLoadOK, OwnerLoadError
    <3> QED BY <3>1 DEF LifecycleInv, LoadingFlags, ReleaseKept, MayRelease, flags
  <2>5. CASE OwnerLoadProbed(o)
    <3>1. scheduleIdleUnloadLocked \/ ~demandLoaded'
      BY <2>5, Zenon DEF OwnerLoadProbed
    <3> QED BY <3>1, Scheduled DEF ReleaseKept, MayRelease
  <2>6. CASE OwnerUnloadStart(o)
    <3>1. pc'[o] = "unloading"
      BY <1>0, <2>6 DEF OwnerUnloadStart, Goto, Typed, TypeOK
    <3> QED BY <3>1 DEF ReleaseKept, Covered
  <2>7. CASE OwnerUnloadOK(o)
    <3>1. ~demandLoaded'
      BY <2>7, Zenon DEF OwnerUnloadOK
    <3> QED BY <3>1 DEF ReleaseKept, MayRelease
  <2>8. CASE OwnerUnloadError(o)
    <3>1. stranded'
      BY <2>8, Zenon DEF OwnerUnloadError
    <3> QED BY <3>1 DEF ReleaseKept, Covered
  <2> QED BY <1>9, <2>1, <2>2, <2>3, <2>4, <2>5, <2>6, <2>7, <2>8 DEF OwnerStep
<1>3. ASSUME NEW c \in Callbacks, TimerFires(c) \/ CallbackStep(c)
      PROVE  ReleaseKept'
  <2> c \in Procs /\ c \notin Requests /\ c \notin Owners
    BY DEF Procs
  <2> SUFFICES ASSUME MayRelease' PROVE (ReleaseAhead \/ Covered)'
    BY DEF ReleaseKept
  <2>1. CASE TimerFires(c)
    BY <1>0, <2>1 DEF TimerFires, ReleaseAhead, Goto, Typed, TypeOK
  <2>2. CASE CallbackPostpones(c)
    BY <2>2 DEF CallbackPostpones, ReleaseAhead
  <2>3. CASE CallbackUnloads(c)
    BY <1>0, <2>3 DEF CallbackUnloads, ReleaseAhead, Goto, Typed, TypeOK, timer
  <2>4. ASSUME MayRelease, ~fresh[c], UNCHANGED <<fresh, stranded>>, armed => armed',
               pc[c] \in GatedPhases, Goto(c, "idle")
        PROVE  (ReleaseAhead \/ Covered)'
    <3>1. \A q \in Procs \ {c} : pc'[q] = pc[q]
      BY <1>0, <2>4, Alone
    <3> QED BY <2>4, <3>1 DEF ReleaseKept, ReleaseAhead, Covered, Serving, Procs
  <2>5. CASE CallbackStale(c)
    <3>1. MayRelease /\ UNCHANGED timer
      BY <2>5 DEF CallbackStale, MayRelease, flags, rest
    <3> QED BY <2>4, <2>5, <3>1
            DEF CallbackStale, MayRelease, timer, releaseManaged, Out
  <2>6. CASE CallbackUnloadOK(c)
    <3>1. demandLoaded /\ ~(fresh[c] /\ ~closed /\ ~manualPinned)
      BY <2>6, Zenon DEF CallbackUnloadOK, MayRelease
    <3>2. MayRelease /\ UNCHANGED timer
      BY <2>6, <3>1 DEF CallbackUnloadOK, MayRelease, rest
    <3> QED BY <2>4, <2>6, <3>1, <3>2
            DEF CallbackUnloadOK, MayRelease, timer, releaseManaged, Out
  <2>7. CASE CallbackUnloadError(c)
    <3>1. MayRelease /\ UNCHANGED <<fresh, stranded>>
      BY <2>7 DEF CallbackUnloadError, MayRelease, flags, rest
    <3>2. armed' = (armed \/ RetryUnload(c))
      BY <2>7 DEF CallbackUnloadError
    <3>3. CASE fresh[c]
      BY <3>1, <3>2, <3>3, Zenon DEF RetryUnload, MayRelease, ReleaseAhead
    <3>4. CASE ~fresh[c]
      <4>1. armed => armed'
        BY <3>2, Zenon
      <4> QED BY <2>4, <2>7, <3>1, <3>4, <4>1
              DEF CallbackUnloadError, releaseManaged, Out
    <3> QED BY <3>3, <3>4
  <2> QED BY <1>3, <2>1, <2>2, <2>3, <2>5, <2>6, <2>7 DEF CallbackStep
<1>4. CASE EngineCrash \/ LateLoad \/ UNCHANGED vars
  <2>1. UNCHANGED <<timer, flags, rest, pc>>
    BY <1>4 DEF EngineCrash, LateLoad, vars
  <2> QED BY <2>1 DEF ReleaseKept, MayRelease, ReleaseAhead, Covered, Serving, flags,
             rest, timer
<1>5. CASE SetRunner
  <2>1. ~runner /\ UNCHANGED flags
    BY <1>5 DEF SetRunner
  <2> QED BY <2>1 DEF RunnerKnown, ReleaseKept, MayRelease, flags
<1>6. CASE Close
  BY <1>6 DEF Close, ReleaseKept, MayRelease
<1>7. ASSUME NEW d \in Policies, SetIdleUnload(d)
      PROVE  ReleaseKept'
  BY <1>7, Scheduled DEF SetIdleUnload
<1> QED BY <1>1, <1>2, <1>3, <1>4, <1>5, <1>6, <1>7, <1>9 DEF Next

\* A resident engine is pinned or tracked, and once nobody is busy with it its
\* release is ahead, through every order of requests, owner calls, failed loads
\* and unloads, lost and late answers and crashes, but for an engine adrift and
\* a release that a failed unload of the owner left stranded.
THEOREM EngineNeverForgotten == Spec => []NeverForgotten
<1>1. Init => ReleaseInv
  <2> SUFFICES ASSUME Init PROVE ReleaseInv
    OBVIOUS
  <2>1. ~demandLoaded /\ (engine # NoModel => adrift)
    BY Zenon DEF Init
  <2>2. \A p \in Procs : pc[p] = "idle"
    BY DEF Init
  <2> QED BY <2>1, <2>2 DEF ReleaseInv, RunnerKnown, ReleaseKept, EngineKnown, MayRelease,
             Procs
<1>2. LifecycleInv /\ ReleaseInv /\ [Next]_vars => ReleaseInv'
  BY NextRunnerKnown, NextEngineKnown, NextReleaseKept DEF ReleaseInv
<1>3. LifecycleInv /\ ReleaseInv => NeverForgotten
  <2> SUFFICES ASSUME LifecycleInv, ReleaseInv, gate = Nobody
               PROVE  /\ MayRelease => armed \/ stranded \/ \E c \in Callbacks : Pending(c)
                      /\ engine # NoModel => manualPinned \/ demandLoaded \/ adrift
    BY DEF NeverForgotten, ReleaseArmed, Tracked
  <2>1. \A p \in Procs : pc[p] \notin GatedPhases
    BY DEF LifecycleInv, GateExact
  <2>2. /\ \A r \in Requests : ~Serving(r) /\ pc[r] \notin {"loading", "probing"}
        /\ \A o \in Owners : pc[o] # "unloading"
    BY <2>1 DEF Serving, GatedPhases, Procs
  <2>3. \A c \in Callbacks : pc[c] \in {"idle", "gate"}
    BY <2>1 DEF LifecycleInv, Typed, TypeOK, CallbackPhases, GatedPhases, Procs
  <2> QED BY <2>2, <2>3 DEF ReleaseInv, ReleaseKept, EngineKnown, ReleaseAhead, Covered,
             Pending
<1> QED BY <1>1, <1>2, <1>3, Invariance, PTL DEF Spec
=============================================================================
