-------------------------- MODULE ManagedLifecycle --------------------------
(***************************************************************************)
(* The owner of the managed engine, internal/inference/service.go.         *)
(*                                                                         *)
(* The runner companion holds at most one model.  Three kinds of goroutine *)
(* of the app move it: admitted requests (Execute), the owner's load and   *)
(* unload calls, and the callbacks of the idle timer.  Each takes the      *)
(* lifecycle gate for its whole visit to the runner; the flags and the     *)
(* timer are guarded by stateMu, and SetIdleUnload and Close change them   *)
(* without the gate.  Each critical section of stateMu and each call of    *)
(* the runner is one action.                                               *)
(*                                                                         *)
(* Durations are abstracted: a timer may fire and a context may end at any *)
(* time.  A generation only ever compares equal or not to the current one, *)
(* so a callback carries that comparison in fresh[c].  A request that is   *)
(* queued and one that holds a slot both wait for the gate here: admission *)
(* is the subject of FairQueue.                                            *)
(***************************************************************************)
EXTENDS Integers, FiniteSets

CONSTANTS
  Models,         \* managed models
  NoModel,        \* the runner holds no usable engine
  External,       \* "model" of a request served by an external endpoint
  Misconfigured,  \* a managed model whose record has no file name
  Requests,       \* concurrent calls of Execute
  modelOf,        \* modelOf[r]: what request r asks for
  Owners,         \* concurrent calls of Load/UnloadManagedModel
  OwnerJobs,      \* what the owner may ask for
  Callbacks,      \* bound: timer callbacks running at the same time
  Policies,       \* settings of idleAfter; a negative one means never
  BootEngines,    \* what the runner may hold when the app starts
  Faults,         \* how calls of the runner may go wrong
  Nobody          \* the gate is free

Procs == Requests \cup Owners \cup Callbacks

Jobs == [op : {"load"}, model : Models] \cup [op : {"unload"}]

AllFaults == {"health",          \* a health probe gets no answer
              "load_rejected",   \* a load fails and the old engine stays
              "load_died",       \* the old engine is stopped, no new one
              "load_lost",       \* the load succeeds, its answer is lost
              "load_late",       \* the load succeeds after its call has failed
              "unload_refused",  \* an unload fails and the engine stays
              "unload_lost",     \* the unload succeeds, its answer is lost
              "crash"}           \* the engine dies on its own

ASSUME LifecycleAssumption ==
  /\ modelOf \in [Requests -> Models \cup {External, Misconfigured}]
  /\ NoModel \notin Models
  /\ External \notin Models
  /\ Misconfigured \notin Models
  /\ Requests \cap Owners = {}
  /\ Requests \cap Callbacks = {}
  /\ Owners \cap Callbacks = {}
  /\ Nobody \notin Procs
  /\ OwnerJobs \subseteq Jobs
  /\ Policies \subseteq Int
  /\ BootEngines \subseteq Models \cup {NoModel}
  /\ Faults \subseteq AllFaults

VARIABLES
  gate,           \* holder of managedGate
  runner,         \* s.runner is set
  idleAfter,      \* the owner's unload policy
  armed,          \* idleTimer is running
  fresh,          \* fresh[c]: the generation c captured is idleGeneration
  demandLoaded,   \* the engine was loaded for a request
  manualPinned,   \* the engine was loaded by the owner
  closed,
  engine,         \* the model the runner holds, as its health call reports
  pc,             \* where each goroutine is
  job,            \* what each call of the owner asks for
  prev,           \* previousDemand and previousPinned of the gate's holder
  late,           \* a load the runner still works on after its call failed
  adrift,         \* history: something the service cannot see, or does not
                  \* remember, may have left an engine
  stranded        \* history: an unload of the owner stopped the timer and failed

flags == <<demandLoaded, manualPinned>>
timer == <<armed, fresh, stranded>>
rest  == <<idleAfter, runner, closed>>
vars  == <<gate, timer, flags, rest, engine, pc, job, prev, late, adrift>>

\* NewService.  The runner is a process of its own and may have kept an
\* engine from an earlier run of the app.
Init ==
  /\ gate = Nobody
  /\ runner \in BOOLEAN
  /\ idleAfter \in Policies
  /\ armed = FALSE
  /\ fresh = [c \in Callbacks |-> FALSE]
  /\ demandLoaded = FALSE
  /\ manualPinned = FALSE
  /\ closed = FALSE
  /\ engine \in BootEngines
  /\ pc = [p \in Procs |-> "idle"]
  /\ job \in [Owners -> OwnerJobs]
  /\ prev = [demand |-> FALSE, pinned |-> FALSE]
  /\ late = NoModel
  /\ adrift = (engine # NoModel)
  /\ stranded = FALSE

Goto(p, l) == pc' = [pc EXCEPT ![p] = l]

-----------------------------------------------------------------------------
(* The idle timer, under stateMu *)

\* idleGeneration++: every callback already running becomes stale.
NewGeneration == fresh' = [c \in Callbacks |-> FALSE]

stopIdleTimerLocked == NewGeneration /\ armed' = FALSE /\ UNCHANGED stranded

\* What scheduleIdleUnloadLocked requires, of the state it is called in.
MayRelease ==
  /\ ~closed
  /\ ~manualPinned
  /\ demandLoaded
  /\ idleAfter >= 0
  /\ runner

scheduleIdleUnloadLocked_StopsLate ==
  IF MayRelease' THEN NewGeneration /\ armed' = TRUE /\ stranded' = FALSE
                 ELSE UNCHANGED timer

\* Stop first, unconditionally, then arm under the new generation.
scheduleIdleUnloadLocked ==
  NewGeneration /\ armed' = MayRelease' /\ stranded' = FALSE

-----------------------------------------------------------------------------
(* The lifecycle gate *)

acquireManaged_NoGate(p) ==
  /\ pc[p] = "gate"
  /\ ~closed
  /\ gate' = p
  /\ Goto(p, "entered")
  /\ UNCHANGED <<timer, flags, rest, engine, job, prev, late, adrift>>

acquireManaged(p) ==
  /\ pc[p] = "gate"
  /\ gate = Nobody
  /\ ~closed
  /\ gate' = p
  /\ Goto(p, "entered")
  /\ UNCHANGED <<timer, flags, rest, engine, job, prev, late, adrift>>

\* Where a goroutine goes when it leaves the service.  A request still holds
\* its queue slot.
Out(p) == IF p \in Requests THEN "leaving" ELSE "idle"

\* The deferred releaseManaged, and the return.
releaseManaged(p) ==
  /\ gate' = Nobody
  /\ Goto(p, Out(p))

\* Steps that wait for the runner.  The others take no time.
InRunnerCall(p) ==
  \/ pc[p] \in {"loading", "probing", "streaming", "unloading"}
  \/ p \in Requests /\ modelOf[p] # Misconfigured /\ pc[p] = "entered"

\* The select takes a Done branch.  The context of a request or of the owner
\* may end at any time; the one of a callback lasts unloadTimeout, longer
\* than anything but a runner call, and ends after that of a callback that
\* fired before it.
GiveUp(p) ==
  /\ pc[p] = "gate"
  /\ \/ closed
     \/ p \in Requests \cup Owners
     \/ gate \in Requests \cup Owners /\ InRunnerCall(gate)
  /\ Goto(p, Out(p))
  /\ UNCHANGED <<gate, timer, flags, rest, engine, job, prev, late, adrift>>

-----------------------------------------------------------------------------
(* The runner, as the service sees it *)

\* The runner's state after a LoadModel of m that returned an error.
AfterFailedLoad(m) ==
  {e \in {engine, NoModel, m} :
     \/ e = engine  /\ "load_rejected" \in Faults
     \/ e = NoModel /\ "load_died" \in Faults
     \/ e = m       /\ "load_lost" \in Faults}

\* LoadModel of m returns an error.  The runner may still be at work on it.
FailedLoad(m) ==
  \/ engine' \in AfterFailedLoad(m) /\ UNCHANGED late
  \/ "load_late" \in Faults /\ late = NoModel /\ late' = m /\ UNCHANGED engine

\* Such a load succeeds, at any time.  (One that fails late, and an unload
\* that takes effect late, are a crash of the engine.)
LateLoad ==
  /\ late # NoModel
  /\ engine' = late
  /\ late' = NoModel
  /\ adrift' = TRUE
  /\ UNCHANGED <<gate, timer, flags, rest, pc, job, prev>>

AfterFailedUnload ==
  {e \in {engine, NoModel} :
     \/ e = engine  /\ "unload_refused" \in Faults
     \/ e = NoModel /\ "unload_lost" \in Faults}

\* A Health call that reports model m as loaded (or not): no answer counts
\* as not loaded.
HealthHolds(m, answer) ==
  \/ answer = (engine = m)
  \/ "health" \in Faults /\ answer = FALSE

EngineCrash ==
  /\ "crash" \in Faults
  /\ engine # NoModel
  /\ engine' = NoModel
  /\ adrift' = FALSE
  /\ UNCHANGED <<gate, timer, flags, rest, pc, job, prev, late>>

-----------------------------------------------------------------------------
(* Execute *)

\* The queue admits a call.  Close closes the queue after it has set closed,
\* so a late request may still be admitted.
Submit(r) ==
  /\ pc[r] = "idle"
  /\ Goto(r, IF modelOf[r] = External THEN "external" ELSE "gate")
  /\ UNCHANGED <<gate, timer, flags, rest, engine, job, prev, late, adrift>>

\* The adapter's stream ends, or the queue takes back the slot.
Finish(r) ==
  /\ pc[r] \in {"external", "leaving"}
  /\ Goto(r, "idle")
  /\ UNCHANGED <<gate, timer, flags, rest, engine, job, prev, late, adrift>>

\* ensureManagedLoadedGated returns before it looks at the engine.
EnsureRefused(r) ==
  /\ pc[r] = "entered"
  /\ ~runner \/ modelOf[r] = Misconfigured
  /\ releaseManaged(r)
  /\ UNCHANGED <<timer, flags, rest, engine, job, prev, late, adrift>>

\* The model is there already: the request takes over its idle release.
EnsureLoaded(r) ==
  /\ pc[r] = "entered"
  /\ runner
  /\ modelOf[r] # Misconfigured
  /\ HealthHolds(modelOf[r], TRUE)
  /\ stopIdleTimerLocked
  /\ demandLoaded' = (demandLoaded \/ ~manualPinned)
  /\ adrift' = FALSE
  /\ Goto(r, "streaming")
  /\ UNCHANGED <<gate, manualPinned, rest, engine, job, prev, late>>

EnsureSwitch_AnyRecord(r) ==
  /\ pc[r] = "entered"
  /\ runner
  /\ HealthHolds(modelOf[r], FALSE)
  /\ stopIdleTimerLocked
  /\ prev' = [demand |-> demandLoaded, pinned |-> manualPinned]
  /\ demandLoaded' = FALSE
  /\ manualPinned' = FALSE
  /\ Goto(r, "loading")
  /\ UNCHANGED <<gate, rest, engine, job, late, adrift>>

\* The model has to be loaded: until the outcome is known the service claims
\* nothing about the engine.
EnsureSwitch(r) ==
  /\ pc[r] = "entered"
  /\ runner
  /\ modelOf[r] # Misconfigured
  /\ HealthHolds(modelOf[r], FALSE)
  /\ stopIdleTimerLocked
  /\ prev' = [demand |-> demandLoaded, pinned |-> manualPinned]
  /\ demandLoaded' = FALSE
  /\ manualPinned' = FALSE
  /\ Goto(r, "loading")
  /\ UNCHANGED <<gate, rest, engine, job, late, adrift>>

DemandLoadOK(r) ==
  /\ pc[r] = "loading"
  /\ engine' = modelOf[r]
  /\ demandLoaded' = TRUE
  /\ manualPinned' = FALSE
  /\ adrift' = FALSE
  /\ Goto(r, "streaming")
  /\ UNCHANGED <<gate, timer, rest, job, prev, late>>

DemandLoadError(r) ==
  /\ pc[r] = "loading"
  /\ FailedLoad(modelOf[r])
  /\ Goto(r, "probing")
  /\ UNCHANGED <<gate, timer, flags, rest, job, prev, adrift>>

RestoreFlags_ForgetsDemand(loadedAfterFailure) ==
  IF prev.pinned
  THEN manualPinned' = TRUE /\ UNCHANGED <<demandLoaded, timer>>
  ELSE /\ UNCHANGED manualPinned
       /\ IF loadedAfterFailure
          THEN demandLoaded' = TRUE /\ scheduleIdleUnloadLocked
          ELSE UNCHANGED <<demandLoaded, timer>>

\* The flags after a failed load for a request: an earlier pin comes back,
\* or a release is scheduled for whatever may still be resident.
RestoreFlags(loadedAfterFailure) ==
  IF prev.pinned
  THEN manualPinned' = TRUE /\ UNCHANGED <<demandLoaded, timer>>
  ELSE /\ UNCHANGED manualPinned
       /\ IF loadedAfterFailure \/ prev.demand
          THEN demandLoaded' = TRUE /\ scheduleIdleUnloadLocked
          ELSE UNCHANGED <<demandLoaded, timer>>

\* What a probe for m teaches: the engine is m, or it is not, or the probe
\* failed and m may be there unseen.
Learnt(m, answer) ==
  adrift' = (~answer /\ (adrift \/ engine = m))

\* probeLoaded, and the flags restored from its answer.
DemandLoadProbed(r) ==
  /\ pc[r] = "probing"
  /\ releaseManaged(r)
  /\ UNCHANGED <<rest, engine, job, prev, late>>
  /\ \E loadedAfterFailure \in BOOLEAN :
        /\ HealthHolds(modelOf[r], loadedAfterFailure)
        /\ Learnt(modelOf[r], loadedAfterFailure)
        /\ RestoreFlags(loadedAfterFailure)

\* StreamChat returns, with an answer or with an error.
StreamEnd(r) ==
  /\ pc[r] = "streaming"
  /\ releaseManaged(r)
  /\ UNCHANGED <<flags, rest, engine, job, prev, late, adrift>>
  /\ scheduleIdleUnloadLocked

-----------------------------------------------------------------------------
(* LoadManagedModel and UnloadManagedModel *)

OwnerCall(o) ==
  /\ pc[o] = "idle"
  /\ \E j \in OwnerJobs : job' = [job EXCEPT ![o] = j]
  /\ Goto(o, "gate")
  /\ UNCHANGED <<gate, timer, flags, rest, engine, prev, late, adrift>>

OwnerRefused(o) ==
  /\ pc[o] = "entered"
  /\ ~runner \/ (job[o].op = "load" /\ closed)
  /\ releaseManaged(o)
  /\ UNCHANGED <<timer, flags, rest, engine, job, prev, late, adrift>>

\* Only previousDemand is kept: that an engine was pinned is forgotten.
OwnerLoadStart(o) ==
  /\ pc[o] = "entered"
  /\ job[o].op = "load"
  /\ runner /\ ~closed
  /\ prev' = [prev EXCEPT !.demand = demandLoaded]
  /\ stopIdleTimerLocked
  /\ manualPinned' = TRUE
  /\ demandLoaded' = FALSE
  /\ adrift' = (adrift \/ manualPinned)
  /\ Goto(o, "loading")
  /\ UNCHANGED <<gate, rest, engine, job, late>>

OwnerLoadOK(o) ==
  /\ pc[o] = "loading"
  /\ engine' = job[o].model
  /\ adrift' = FALSE
  /\ releaseManaged(o)
  /\ UNCHANGED <<timer, flags, rest, job, prev, late>>

OwnerLoadError(o) ==
  /\ pc[o] = "loading"
  /\ FailedLoad(job[o].model)
  /\ Goto(o, "probing")
  /\ UNCHANGED <<gate, timer, flags, rest, job, prev, adrift>>

\* No phantom pin; whatever survived is released by the idle timer.
OwnerLoadProbed(o) ==
  /\ pc[o] = "probing"
  /\ manualPinned' = FALSE
  /\ \E loadedAfterFailure \in BOOLEAN :
        /\ HealthHolds(job[o].model, loadedAfterFailure)
        /\ Learnt(job[o].model, loadedAfterFailure)
        /\ demandLoaded' = (loadedAfterFailure \/ prev.demand)
  /\ releaseManaged(o)
  /\ UNCHANGED <<rest, engine, job, prev, late>>
  /\ IF demandLoaded' THEN scheduleIdleUnloadLocked ELSE UNCHANGED timer

OwnerUnloadStart(o) ==
  /\ pc[o] = "entered"
  /\ job[o].op = "unload"
  /\ runner
  /\ stopIdleTimerLocked
  /\ Goto(o, "unloading")
  /\ UNCHANGED <<gate, flags, rest, engine, job, prev, late, adrift>>

OwnerUnloadOK(o) ==
  /\ pc[o] = "unloading"
  /\ engine' = NoModel
  /\ manualPinned' = FALSE
  /\ demandLoaded' = FALSE
  /\ adrift' = FALSE
  /\ releaseManaged(o)
  /\ UNCHANGED <<timer, rest, job, prev, late>>

\* The error is returned and nothing else is done: the timer stays stopped.
OwnerUnloadError(o) ==
  /\ pc[o] = "unloading"
  /\ engine' \in AfterFailedUnload
  /\ stranded' = TRUE
  /\ releaseManaged(o)
  /\ UNCHANGED <<armed, fresh, flags, rest, job, prev, late, adrift>>

-----------------------------------------------------------------------------
(* The callback of the idle timer *)

TimerFires(c) ==
  /\ armed
  /\ pc[c] = "idle"
  /\ armed' = FALSE
  /\ fresh' = [fresh EXCEPT ![c] = TRUE]
  /\ Goto(c, "gate")
  /\ UNCHANGED <<stranded, gate, flags, rest, engine, job, prev, late, adrift>>

\* queue.Stats reports a request that waits, runs or has yet to give back
\* its slot.
QueueBusy == \E r \in Requests : pc[r] # "idle"

CallbackStale(c) ==
  /\ pc[c] = "entered"
  /\ closed \/ ~fresh[c] \/ manualPinned \/ ~demandLoaded
  /\ releaseManaged(c)
  /\ UNCHANGED <<timer, flags, rest, engine, job, prev, late, adrift>>

CallbackPostpones_Cancels(c) ==
  /\ pc[c] = "entered"
  /\ ~closed /\ fresh[c] /\ ~manualPinned /\ demandLoaded
  /\ QueueBusy
  /\ releaseManaged(c)
  /\ UNCHANGED <<timer, flags, rest, engine, job, prev, late, adrift>>

\* A busy queue postpones the release: the timer is armed again under the
\* callback's own generation.
CallbackPostpones(c) ==
  /\ pc[c] = "entered"
  /\ ~closed /\ fresh[c] /\ ~manualPinned /\ demandLoaded
  /\ QueueBusy
  /\ armed' = TRUE
  /\ releaseManaged(c)
  /\ UNCHANGED <<fresh, stranded, flags, rest, engine, job, prev, late, adrift>>

\* From here on only the gate protects the engine.  An armed timer implies
\* a runner, so the nil check that follows in the code never fires.
CallbackUnloads(c) ==
  /\ pc[c] = "entered"
  /\ ~closed /\ fresh[c] /\ ~manualPinned /\ demandLoaded
  /\ ~QueueBusy
  /\ Goto(c, "unloading")
  /\ UNCHANGED <<gate, timer, flags, rest, engine, job, prev, late, adrift>>

CallbackUnloadOK(c) ==
  /\ pc[c] = "unloading"
  /\ engine' = NoModel
  /\ demandLoaded' = (demandLoaded /\ ~(fresh[c] /\ ~closed /\ ~manualPinned))
  /\ adrift' = FALSE
  /\ releaseManaged(c)
  /\ UNCHANGED <<timer, manualPinned, rest, job, prev, late>>

\* After a failed unload the callback arms the timer again if nothing has
\* overtaken it.
RetryUnload(c) == ~closed /\ fresh[c] /\ demandLoaded /\ ~manualPinned

CallbackUnloadError(c) ==
  /\ pc[c] = "unloading"
  /\ engine' \in AfterFailedUnload
  /\ armed' = (armed \/ RetryUnload(c))
  /\ releaseManaged(c)
  /\ UNCHANGED <<fresh, stranded, flags, rest, job, prev, late, adrift>>

-----------------------------------------------------------------------------
(* Operations that do not take the gate *)

SetRunner ==
  /\ ~runner
  /\ runner' = TRUE
  /\ UNCHANGED <<gate, timer, flags, idleAfter, closed, engine, pc, job, prev, late, adrift>>

SetIdleUnload(d) ==
  /\ idleAfter' = d
  /\ UNCHANGED <<gate, flags, runner, closed, engine, pc, job, prev, late, adrift>>
  /\ scheduleIdleUnloadLocked

Close ==
  /\ ~closed
  /\ closed' = TRUE
  /\ stopIdleTimerLocked
  /\ UNCHANGED <<gate, flags, idleAfter, runner, engine, pc, job, prev, late, adrift>>

-----------------------------------------------------------------------------
RequestStep(r) ==
  \/ EnsureRefused(r) \/ EnsureLoaded(r) \/ EnsureSwitch(r)
  \/ DemandLoadOK(r) \/ DemandLoadError(r) \/ DemandLoadProbed(r)
  \/ StreamEnd(r) \/ Finish(r)

OwnerStep(o) ==
  \/ OwnerRefused(o)
  \/ OwnerLoadStart(o) \/ OwnerLoadOK(o) \/ OwnerLoadError(o)
  \/ OwnerLoadProbed(o)
  \/ OwnerUnloadStart(o) \/ OwnerUnloadOK(o) \/ OwnerUnloadError(o)

CallbackStep(c) ==
  \/ CallbackStale(c) \/ CallbackPostpones(c) \/ CallbackUnloads(c)
  \/ CallbackUnloadOK(c) \/ CallbackUnloadError(c)

Next ==
  \/ \E p \in Procs : acquireManaged(p) \/ GiveUp(p)
  \/ \E r \in Requests : Submit(r) \/ RequestStep(r)
  \/ \E o \in Owners : OwnerCall(o) \/ OwnerStep(o)
  \/ \E c \in Callbacks : TimerFires(c) \/ CallbackStep(c)
  \/ EngineCrash
  \/ LateLoad
  \/ SetRunner
  \/ \E d \in Policies : SetIdleUnload(d)
  \/ Close

Spec == Init /\ [][Next]_vars

\* Runner calls return (each has a context that ends), a running timer fires,
\* the gate is a channel and serves its waiters in order, and a runner that
\* is asked to unload again and again does so in the end.  Nothing is assumed
\* of the callers.
Fairness ==
  /\ \A p \in Procs : SF_vars(acquireManaged(p))
  /\ \A r \in Requests : WF_vars(RequestStep(r))
  /\ \A o \in Owners : WF_vars(OwnerStep(o))
  /\ \A c \in Callbacks : /\ WF_vars(TimerFires(c))
                          /\ WF_vars(CallbackStep(c))
                          /\ SF_vars(CallbackUnloadOK(c))

FairSpec == Spec /\ Fairness

-----------------------------------------------------------------------------
(* Properties *)

RequestPhases  == {"idle", "gate", "entered", "loading", "probing",
                   "streaming", "external", "leaving"}
OwnerPhases    == {"idle", "gate", "entered", "loading", "probing",
                   "unloading"}
CallbackPhases == {"idle", "gate", "entered", "unloading"}

\* Every field of the Service and every goroutine has its type.
TypeOK ==
  /\ gate \in Procs \cup {Nobody}
  /\ runner \in BOOLEAN
  /\ idleAfter \in Policies
  /\ armed \in BOOLEAN
  /\ fresh \in [Callbacks -> BOOLEAN]
  /\ demandLoaded \in BOOLEAN
  /\ manualPinned \in BOOLEAN
  /\ closed \in BOOLEAN
  /\ engine \in Models \cup {NoModel}
  /\ pc \in [Procs -> RequestPhases \cup OwnerPhases \cup CallbackPhases]
  /\ \A r \in Requests : pc[r] \in RequestPhases
  /\ \A o \in Owners : pc[o] \in OwnerPhases
  /\ \A c \in Callbacks : pc[c] \in CallbackPhases
  /\ job \in [Owners -> OwnerJobs]
  /\ prev \in [demand : BOOLEAN, pinned : BOOLEAN]
  /\ late \in Models \cup {NoModel}
  /\ adrift \in BOOLEAN
  /\ stranded \in BOOLEAN

\* An engine is released by the idle timer or kept by the owner's pin, never
\* both, whatever order loads, failures and requests come in.
PinExcludesDemand == ~(demandLoaded /\ manualPinned)

\* A callback that waits for the gate and will pass its generation check.
Pending(c) == pc[c] = "gate" /\ fresh[c]

\* A policy of "never" leaves no release ahead, neither a timer an earlier
\* policy armed nor a callback that has fired and would still pass its
\* generation check (service.go:312-316).  A callback that was past the check,
\* at the runner, when the policy changed does finish its unload.
NeverPolicyHolds ==
  idleAfter < 0 =>
    /\ ~armed
    /\ \A c \in Callbacks : fresh[c] => pc[c] = "idle"

\* At most one release is under way: the timer, or one callback that is not
\* stale.  Otherwise a callback of an earlier idle period could unload the
\* engine in the middle of a later one.
OneReleasePending ==
  /\ \A c, d \in Callbacks :
       fresh[c] /\ pc[c] # "idle" /\ fresh[d] /\ pc[d] # "idle" => c = d
  /\ armed => \A c \in Callbacks : fresh[c] => pc[c] = "idle"

\* While a callback unloads, with stateMu released, the owner's pin is not
\* set: it never releases an engine that the owner asked for.
UnloadRespectsPin ==
  \A c \in Callbacks : pc[c] = "unloading" => ~manualPinned

\* Releases keep their discipline together: the pin excludes them, a policy of
\* "never" leaves none behind, at most one is under way, and one that unloads
\* never takes an engine the owner asked for (the idle timer, its callbacks and
\* the owner's calls in any order).
ReleaseDiscipline ==
  PinExcludesDemand /\ NeverPolicyHolds /\ OneReleasePending /\ UnloadRespectsPin

\* "it can never interrupt a generation or race a manual model switch"
\* (service.go:332-334): while a request streams, or the owner's load is in
\* progress, no other goroutine changes the engine; it can only die on its own,
\* or be replaced by a load that the runner finishes after its call failed.
Uninterrupted ==
  [][\A p \in Requests \cup Owners :
       /\ pc[p] \in {"streaming", "loading", "probing", "unloading"}
       /\ engine' # engine
       => \/ pc'[p] # pc[p]
          \/ engine' = NoModel /\ UNCHANGED pc
          \/ engine' = late /\ UNCHANGED <<pc, timer, flags>>]_vars

\* An engine that was loaded for a request, and that no goroutine is busy
\* with, has its release ahead ("a successfully loaded demand model is never
\* left without an eventual idle release", service.go:469-471), unless an
\* owner's unload stopped the timer and failed (service.go:235-240) and nothing
\* has armed it since.
ReleaseArmed ==
  gate = Nobody /\ MayRelease => armed \/ stranded \/ \E c \in Callbacks : Pending(c)

\* The service does not "forget an engine that is still resident"
\* (service.go:208-212): between visits to the runner, an engine it holds is
\* pinned or due for an idle release, unless the engine came about where the
\* service could not see it (before the app started, behind a probe that
\* failed, after the call that asked for it) or it was pinned and a later load
\* of the owner failed (service.go:202 keeps no previousPinned).
Tracked ==
  gate = Nobody /\ engine # NoModel => manualPinned \/ demandLoaded \/ adrift

\* A resident engine is not forgotten: it is pinned or tracked, and once
\* nobody is busy with it its release is ahead, through every order of requests,
\* owner calls, failed loads and unloads, lost and late answers, but for the
\* windows that adrift and stranded name.
NeverForgotten == ReleaseArmed /\ Tracked

\* An engine that was loaded on demand sits idle: a policy asks for its
\* release and no request and no call of the owner is in progress.
IdleEngine ==
  /\ engine # NoModel
  /\ MayRelease
  /\ \A p \in Requests \cup Owners : pc[p] = "idle"

\* If the owner stops editing the policy, a demand-loaded engine does not
\* sit idle for ever: busy queues postpone its release, failed unloads are
\* retried, and neither loses it.
IdleEngineReleased ==
  (<>[][\A d \in Policies : ~SetIdleUnload(d)]_vars) => []<>~IdleEngine
=============================================================================
