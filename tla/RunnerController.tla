-------------------------- MODULE RunnerController --------------------------
(***************************************************************************)
(* The runner companion, internal/runner/controller.go: an HTTP server     *)
(* that owns one llama-server child process.                               *)
(*                                                                         *)
(* Load, unload, restart and inference handlers hold modelMu for their     *)
(* whole visit.  The reaper goroutine of each engine process, the cancel   *)
(* handler and Close hold only c.mu, and an engine may die at any time, so *)
(* they interleave with every critical section of a handler.  Each         *)
(* critical section of c.mu is one action.                                 *)
(*                                                                         *)
(* EngineArgs is abstracted to the model and whether it has a draft model; *)
(* usage statistics, error texts and paths are left out.  engineCmd stands *)
(* for engineCmd and engineDone, which are always set together.  A process *)
(* that was sent SIGKILL runs no more code, but it exists, with its port   *)
(* and its memory, until the system has ended it: nobody waits for that,   *)
(* so the next engine may be started beside it.                            *)
(***************************************************************************)
EXTENDS Integers, FiniteSets

CONSTANTS
  Handlers,    \* concurrent HTTP requests
  Models,      \* model ids
  Members,     \* requesting members
  Anonymous,   \* an inference request without requester_member_id
  Unnamed,     \* an inference request that names no model
  Bodies,      \* the requests that may arrive
  Engines,     \* bound: engine processes started and not yet reaped
  NoEngine,    \* engineCmd is nil
  NoArgs,      \* loaded is the zero EngineArgs
  NoBody,      \* an idle handler has no request
  None         \* nobody

Args == [model : Models, draft : BOOLEAN]

AllBodies ==
  [op : {"load"}, args : Args]
    \cup [op : {"unload", "restart"}]
    \cup [op : {"infer"}, model : Models \cup {Unnamed},
          member : Members \cup {Anonymous}]

ASSUME RunnerAssumption ==
  /\ Bodies \subseteq AllBodies
  /\ NoBody \notin AllBodies
  /\ Anonymous \notin Members
  /\ Unnamed \notin Models
  /\ NoEngine \notin Engines
  /\ NoArgs \notin Args
  /\ None \notin Handlers

VARIABLES
  status,           \* c.status
  loaded,           \* c.loaded
  engineCmd,        \* the registered engine process
  lastRequester,    \* the member the engine last served
  notice,           \* c.notice is set: speculative decoding was dropped
  modelMu,          \* holder of the one-slot semaphore
  cancelActive,     \* the handler whose context handleCancelInference ends
  pendingRequests,  \* inference requests counted as waiting for modelMu
  closed,           \* Close has run: the process exits
  pc, req,          \* where each handler is, and its request
  args,             \* argument of the launchEngine in progress
  started,          \* process of the launchEngine in progress
  cancelled,        \* handlers whose context was ended by a cancel request
  proc,             \* "none", "running", "killed" or "dead" (not reaped yet)
  watched,          \* processes with a reaper
  procArgs,         \* history: what a process was started with
  served,           \* history: the members a process has served
  unseen            \* history: the engine was reaped behind the back of a
                    \* handler that goes on as if it were there

controller == <<status, loaded, engineCmd, lastRequester, notice>>
handlers   == <<modelMu, cancelActive, pendingRequests, pc, req, cancelled>>
launch     == <<args, started>>
processes  == <<proc, watched, procArgs, served>>
vars       == <<controller, handlers, launch, processes, closed, unseen>>

Init ==
  /\ status = "idle"
  /\ loaded = NoArgs
  /\ engineCmd = NoEngine
  /\ lastRequester = Anonymous
  /\ notice = FALSE
  /\ modelMu = None
  /\ cancelActive = None
  /\ pendingRequests = 0
  /\ closed = FALSE
  /\ pc = [h \in Handlers |-> "idle"]
  /\ req = [h \in Handlers |-> NoBody]
  /\ args = NoArgs
  /\ started = NoEngine
  /\ cancelled = {}
  /\ proc = [e \in Engines |-> "none"]
  /\ watched = {}
  /\ procArgs = [e \in Engines |-> NoArgs]
  /\ served = [e \in Engines |-> {}]
  /\ unseen = FALSE

At(h, l) == ~closed /\ pc[h] = l
Goto(h, l) == pc' = [pc EXCEPT ![h] = l]
Infers(h) == req[h].op = "infer"

-----------------------------------------------------------------------------
(* modelMu *)

Arrive(h, b) ==
  /\ At(h, "idle")
  /\ req' = [req EXCEPT ![h] = b]
  /\ pendingRequests' = pendingRequests + (IF b.op = "infer" THEN 1 ELSE 0)
  /\ Goto(h, "waiting")
  /\ UNCHANGED <<controller, modelMu, cancelActive, cancelled, launch,
                 processes, closed, unseen>>

NoLongerPending_Always(h) == pendingRequests' = pendingRequests - 1

\* An inference request is pending until acquireModel has returned.
NoLongerPending(h) ==
  pendingRequests' = pendingRequests - (IF Infers(h) THEN 1 ELSE 0)

\* The semaphore is taken; an inference request is still counted as pending.
acquireModel(h) ==
  /\ At(h, "waiting")
  /\ modelMu = None
  /\ modelMu' = h
  /\ Goto(h, IF Infers(h) THEN "acquired" ELSE "entered")
  /\ UNCHANGED <<controller, cancelActive, pendingRequests, req, cancelled,
                 launch, processes, closed, unseen>>

Entered(h) ==
  /\ At(h, "acquired")
  /\ NoLongerPending(h)
  /\ Goto(h, "entered")
  /\ UNCHANGED <<controller, modelMu, cancelActive, req, cancelled, launch,
                 processes, closed, unseen>>

\* The handler returns.
Leave(h) ==
  /\ req' = [req EXCEPT ![h] = NoBody]
  /\ Goto(h, "idle")

\* The caller's context ends while it waits.
GiveUp(h) ==
  /\ At(h, "waiting")
  /\ NoLongerPending(h)
  /\ Leave(h)
  /\ UNCHANGED <<controller, modelMu, cancelActive, cancelled, launch,
                 processes, closed, unseen>>

\* The deferred releaseModel, and the return: the locals of launchEngine
\* are gone.
Return(h) ==
  /\ modelMu' = None
  /\ args' = NoArgs
  /\ started' = NoEngine
  /\ Leave(h)

-----------------------------------------------------------------------------
(* launchEngine *)

\* SIGKILL is sent; the process ends later (EngineDies).
Kill(e) ==
  proc' = [proc EXCEPT ![e] = IF @ = "running" THEN "killed" ELSE @]

stopEngineLocked_LeavesProcess == engineCmd' = NoEngine /\ UNCHANGED proc

stopEngineLocked ==
  /\ engineCmd' = NoEngine
  /\ IF engineCmd = NoEngine THEN UNCHANGED proc ELSE Kill(engineCmd)

LaunchBegin(h) ==
  /\ At(h, "launch")
  /\ stopEngineLocked
  /\ status' = "loading"
  /\ loaded' = args
  /\ unseen' = FALSE
  /\ Goto(h, "starting")
  /\ UNCHANGED <<lastRequester, notice, modelMu, cancelActive,
                 pendingRequests, req, cancelled, launch, watched, procArgs,
                 served, closed>>

\* A failed launch ends the handler, except that a load with a draft model
\* is tried once more without it.
AfterFailure(h) ==
  IF req[h].op = "load" /\ args.draft
  THEN /\ args' = [args EXCEPT !.draft = FALSE]
       /\ Goto(h, "launch")
       /\ UNCHANGED <<modelMu, req, started>>
  ELSE Return(h)

StartFails(h) ==
  /\ At(h, "starting")
  /\ status' = "error"
  /\ loaded' = NoArgs
  /\ AfterFailure(h)
  /\ UNCHANGED <<engineCmd, lastRequester, notice, cancelActive,
                 pendingRequests, cancelled, processes, closed, unseen>>

StartOK(h) ==
  /\ At(h, "starting")
  /\ \E e \in Engines :
       /\ proc[e] = "none"
       /\ proc' = [proc EXCEPT ![e] = "running"]
       /\ procArgs' = [procArgs EXCEPT ![e] = args]
       /\ served' = [served EXCEPT ![e] = {}]
       /\ started' = e
  /\ Goto(h, "registering")
  /\ UNCHANGED <<controller, modelMu, cancelActive, pendingRequests, req,
                 cancelled, args, watched, closed, unseen>>

\* The process is recorded, and its reaper started.
Register(h) ==
  /\ At(h, "registering")
  /\ engineCmd' = started
  /\ watched' = watched \cup {started}
  /\ Goto(h, "polling")
  /\ UNCHANGED <<status, loaded, lastRequester, notice, modelMu, cancelActive,
                 pendingRequests, req, cancelled, launch, proc, procArgs,
                 served, closed, unseen>>

\* waitForHealthy: the engine answers a probe.
HealthOK(h) ==
  /\ At(h, "polling")
  /\ proc[started] = "running"
  /\ Goto(h, "healthy")
  /\ UNCHANGED <<controller, modelMu, cancelActive, pendingRequests, req,
                 cancelled, launch, processes, closed, unseen>>

\* waitForHealthy: the engine exited, the caller left or the deadline passed.
HealthError(h) ==
  /\ At(h, "polling")
  /\ status' = "error"
  /\ loaded' = NoArgs
  /\ stopEngineLocked
  /\ AfterFailure(h)
  /\ UNCHANGED <<lastRequester, notice, cancelActive, pendingRequests,
                 cancelled, watched, procArgs, served, closed, unseen>>

\* The model is ready; a load that had to drop its draft model says so.
LaunchReady(h) ==
  /\ At(h, "healthy")
  /\ status' = "ready"
  /\ lastRequester' = Anonymous
  /\ notice' = (req[h].op = "load" /\ args # req[h].args)
  /\ IF Infers(h) THEN /\ Goto(h, "claim")
                       /\ UNCHANGED <<modelMu, req, launch>>
                  ELSE Return(h)
  /\ UNCHANGED <<loaded, engineCmd, cancelActive, pendingRequests,
                 cancelled, processes, closed, unseen>>

\* A handler enters launchEngine with arguments a.
EnterLaunch(h, a) ==
  /\ args' = a
  /\ Goto(h, "launch")
  /\ UNCHANGED <<controller, modelMu, cancelActive, pendingRequests, req,
                 cancelled, started, processes, closed, unseen>>

ReturnUnchanged_KeepsLock(h) ==
  /\ Leave(h)
  /\ UNCHANGED <<controller, modelMu, cancelActive, pendingRequests,
                 cancelled, launch, processes, closed, unseen>>

\* A handler returns without touching the engine.
ReturnUnchanged(h) ==
  /\ Return(h)
  /\ UNCHANGED <<controller, cancelActive, pendingRequests, cancelled,
                 processes, closed, unseen>>

-----------------------------------------------------------------------------
(* handleLoadModel, handleUnloadModel, handleRestartEngine *)

\* The body, the paths or the extra arguments are not valid.
LoadRejected(h) ==
  /\ At(h, "entered")
  /\ req[h].op = "load"
  /\ ReturnUnchanged(h)

\* The engine already runs with exactly these arguments.
AlreadyLoaded(h) ==
  /\ loaded = req[h].args
  /\ status = "ready"
  /\ engineCmd # NoEngine

LoadModel(h) ==
  /\ At(h, "entered")
  /\ req[h].op = "load"
  /\ IF AlreadyLoaded(h) THEN ReturnUnchanged(h)
                         ELSE EnterLaunch(h, req[h].args)

UnloadModel(h) ==
  /\ At(h, "entered")
  /\ req[h].op = "unload"
  /\ status' = "idle"
  /\ stopEngineLocked
  /\ loaded' = NoArgs
  /\ lastRequester' = Anonymous
  /\ unseen' = FALSE
  /\ Return(h)
  /\ UNCHANGED <<notice, cancelActive, pendingRequests, cancelled, watched,
                 procArgs, served, closed>>

RestartEngine(h) ==
  /\ At(h, "entered")
  /\ req[h].op = "restart"
  /\ IF loaded = NoArgs THEN ReturnUnchanged(h) ELSE EnterLaunch(h, loaded)

-----------------------------------------------------------------------------
(* handleInference, handleCancelInference *)

\* The requested model, or any model if none is named, is loaded and idle.
Servable(h) ==
  /\ status = "ready"
  /\ loaded # NoArgs
  /\ req[h].model \in {loaded.model, Unnamed}

NeedsRestart_Never(h) == FALSE

\* The engine has served another member since it was started.
NeedsRestart(h) ==
  /\ req[h].member # Anonymous
  /\ lastRequester # Anonymous
  /\ req[h].member # lastRequester

InferRefused(h) ==
  /\ At(h, "entered")
  /\ Infers(h)
  /\ ~Servable(h)
  /\ ReturnUnchanged(h)

InferRestarts(h) ==
  /\ At(h, "entered")
  /\ Infers(h)
  /\ Servable(h)
  /\ NeedsRestart(h)
  /\ EnterLaunch(h, loaded)

InferDirectly(h) ==
  /\ At(h, "entered")
  /\ Infers(h)
  /\ Servable(h)
  /\ ~NeedsRestart(h)
  /\ Goto(h, "claim")
  /\ UNCHANGED <<controller, modelMu, cancelActive, pendingRequests, req,
                 cancelled, launch, processes, closed, unseen>>

\* The engine is marked busy and gets the request, if it is still there.
Claim(h) ==
  /\ At(h, "claim")
  /\ lastRequester' = req[h].member
  /\ cancelActive' = h
  /\ status' = "busy"
  /\ served' = [e \in Engines |->
                  IF proc[e] = "running" THEN served[e] \cup {req[h].member}
                                         ELSE served[e]]
  /\ Goto(h, "busy")
  /\ UNCHANGED <<loaded, engineCmd, notice, modelMu, pendingRequests, req,
                 cancelled, launch, proc, watched, procArgs, closed, unseen>>

\* The stream ends: completed, failed or cancelled.
InferEnd(h) ==
  /\ At(h, "busy")
  /\ cancelActive' = None
  /\ status' = IF status = "busy" THEN "ready" ELSE status
  /\ cancelled' = cancelled \ {h}
  /\ Return(h)
  /\ UNCHANGED <<loaded, engineCmd, lastRequester, notice, pendingRequests,
                 processes, closed, unseen>>

CancelInference ==
  /\ ~closed
  /\ cancelActive # None
  /\ cancelled' = cancelled \cup {cancelActive}
  /\ UNCHANGED <<controller, modelMu, cancelActive, pendingRequests, pc, req,
                 launch, processes, closed, unseen>>

-----------------------------------------------------------------------------
(* The engine process, its reaper, and Close *)

\* By itself, because it cannot get the port or the memory that an engine
\* killed before it still holds, or because it was killed.
EngineDies(e) ==
  /\ ~closed
  /\ proc[e] \in {"running", "killed"}
  /\ proc' = [proc EXCEPT ![e] = "dead"]
  /\ UNCHANGED <<controller, handlers, launch, watched, procArgs, served,
                 closed, unseen>>

\* The process is collected; its id may be used again.
Collect(e) ==
  /\ proc' = [proc EXCEPT ![e] = "none"]
  /\ watched' = watched \ {e}
  /\ procArgs' = [procArgs EXCEPT ![e] = NoArgs]
  /\ served' = [served EXCEPT ![e] = {}]

\* A handler has looked at the status or at the engine's health for the last
\* time and is about to write the status.
PastLastLook == \E h \in Handlers : pc[h] \in {"healthy", "claim"}

Reap_KeepsStatus(e) ==
  /\ ~closed
  /\ e \in watched
  /\ proc[e] = "dead"
  /\ Collect(e)
  /\ IF engineCmd # e
     THEN UNCHANGED <<engineCmd, unseen>>
     ELSE /\ engineCmd' = NoEngine
          /\ unseen' = PastLastLook
  /\ UNCHANGED <<status, loaded, lastRequester, notice, handlers, launch, closed>>

\* The reaper does nothing for a process that a newer one has replaced.
Reap(e) ==
  /\ ~closed
  /\ e \in watched
  /\ proc[e] = "dead"
  /\ Collect(e)
  /\ IF engineCmd # e
     THEN UNCHANGED <<engineCmd, status, unseen>>
     ELSE /\ engineCmd' = NoEngine
          /\ status' = IF status # "idle" THEN "error" ELSE status
          /\ unseen' = PastLastLook
  /\ UNCHANGED <<loaded, lastRequester, notice, handlers, launch, closed>>

\* The runner is told to stop; main returns after Close.
Close ==
  /\ ~closed
  /\ closed' = TRUE
  /\ status' = "idle"
  /\ stopEngineLocked
  /\ UNCHANGED <<loaded, lastRequester, notice, handlers, launch, watched,
                 procArgs, served, unseen>>

Exited == closed /\ UNCHANGED vars

-----------------------------------------------------------------------------
LaunchStep(h) ==
  \/ LaunchBegin(h) \/ StartFails(h) \/ StartOK(h) \/ Register(h)
  \/ HealthOK(h) \/ HealthError(h) \/ LaunchReady(h)

HandlerStep(h) ==
  \/ LoadRejected(h) \/ LoadModel(h) \/ UnloadModel(h) \/ RestartEngine(h)
  \/ InferRefused(h) \/ InferRestarts(h) \/ InferDirectly(h)
  \/ Claim(h) \/ InferEnd(h)
  \/ LaunchStep(h)

Next ==
  \/ \E h \in Handlers :
       \/ \E b \in Bodies : Arrive(h, b)
       \/ acquireModel(h) \/ Entered(h) \/ GiveUp(h) \/ HandlerStep(h)
  \/ \E e \in Engines : EngineDies(e) \/ Reap(e)
  \/ CancelInference
  \/ Close
  \/ Exited

Spec == Init /\ [][Next]_vars

-----------------------------------------------------------------------------
(* Properties *)

LaunchPhases == {"launch", "starting", "registering", "polling", "healthy"}
Phases == {"idle", "waiting", "acquired", "entered", "claim", "busy"} \cup LaunchPhases

\* Every field of the Controller and every handler has its type.
TypeOK ==
  /\ status \in {"idle", "loading", "ready", "busy", "error"}
  /\ loaded \in Args \cup {NoArgs}
  /\ engineCmd \in Engines \cup {NoEngine}
  /\ lastRequester \in Members \cup {Anonymous}
  /\ notice \in BOOLEAN
  /\ modelMu \in Handlers \cup {None}
  /\ cancelActive \in Handlers \cup {None}
  /\ pendingRequests \in Nat
  /\ closed \in BOOLEAN
  /\ pc \in [Handlers -> Phases]
  /\ req \in [Handlers -> AllBodies \cup {NoBody}]
  /\ args \in Args \cup {NoArgs}
  /\ started \in Engines \cup {NoEngine}
  /\ cancelled \subseteq Handlers
  /\ proc \in [Engines -> {"none", "running", "killed", "dead"}]
  /\ watched \subseteq Engines
  /\ procArgs \in [Engines -> Args \cup {NoArgs}]
  /\ served \in [Engines -> SUBSET (Members \cup {Anonymous})]
  /\ unseen \in BOOLEAN

\* The processes that nobody has told to stop and that have not exited.
Running == {e \in Engines : proc[e] = "running"}

\* At most one engine process has not been told to stop, across crashes,
\* restarts between members and reapers that run late.
OneEngine == \A e, f \in Running : e = f

\* An engine nobody told to stop is the registered one, or is about to be: the
\* controller can always stop it.
NoLostEngine ==
  ~closed => \A e \in Running :
    \/ e = engineCmd
    \/ e = started /\ \E h \in Handlers : pc[h] = "registering"

\* Every process has a goroutine that waits for it, so that none is left as a
\* zombie ("Without this a crashed engine left a zombie process",
\* controller.go:706), also one that was replaced while it still lived.
EveryProcessReaped ==
  ~closed => \A e \in Engines : proc[e] # "none" =>
    \/ e \in watched
    \/ e = started /\ \E h \in Handlers : pc[h] = "registering"

\* "one member's cached state never reaches the next"
\* (controller.go:231-233): no engine process serves two members.
MembersIsolated ==
  \A e \in Engines : \A m, n \in served[e] \ {Anonymous} : m = n

\* A request that names a model is only ever served by an engine that was
\* started with it, whatever loads and restarts come before it.
ServesRequestedModel ==
  \A h \in Handlers : pc[h] = "busy" =>
    \A e \in Running :
      procArgs[e] # NoArgs /\ req[h].model \in {procArgs[e].model, Unnamed}

\* The status is never stuck in a phase that no handler is in: a runner left
\* busy or loading would refuse every later inference.
StatusNotStuck ==
  /\ status = "busy"    => \E h \in Handlers : pc[h] = "busy"
  /\ status = "loading" => \E h \in Handlers : pc[h] \in LaunchPhases

\* An error is about the engine that failed: while the controller reports
\* one no engine runs.  The reaper of a replaced engine, which may run long
\* after the new one is ready, must not spoil the new one's status.
ErrorMeansNoEngine == status = "error" => Running = {}

\* A ready or busy runner has an engine registered, or lost it between the
\* last look and the write of the status in the visit that wrote it.  Without
\* that exception it is the claim of controller.go:706-707 (no "status that
\* still claimed ready" of a crashed engine), which the code does not keep.
ReadyMeansEngine ==
  status \in {"ready", "busy"} => engineCmd # NoEngine \/ unseen

\* What the health endpoint reports as loaded is what the engine process was
\* started with, also after a launch that dropped its draft model.
LoadedMatchesEngine ==
  status \in {"ready", "busy"} =>
    \A e \in Running : procArgs[e] = loaded

\* A cancel request ends the context of the request the engine is serving,
\* never that of a handler that still waits or has moved on ("concurrent calls
\* previously overwrote each other's cancel function", controller.go:236-238).
\* It names no request: whichever is being served when it arrives is ended.
CancelHitsActive == \A h \in cancelled : pc[h] = "busy"

\* No path out of a handler keeps the semaphore or forgets that a request
\* waits: modelMu is held by exactly the handler that is past acquireModel, and
\* pendingRequests counts the inference requests that have not gone on from it.
\* A handler that waits therefore waits for one that is still at work.
ModelMuExact ==
  /\ \A h \in Handlers : modelMu = h <=> pc[h] \notin {"idle", "waiting"}
  /\ pendingRequests =
       Cardinality({h \in Handlers : pc[h] \in {"waiting", "acquired"} /\ Infers(h)})

\* There is one engine process that has not been told to stop, the controller
\* can stop it, and every process, also one that still dies beside its
\* successor, is waited for.
EngineOwned == OneEngine /\ NoLostEngine /\ EveryProcessReaped

\* A request gets the engine it is entitled to: one that runs the model it
\* names and has served no other member; and a cancel request reaches only the
\* request that is being served.
RequestsIsolated == MembersIsolated /\ ServesRequestedModel /\ CancelHitsActive

\* What the health endpoint says of the engine is true, in whatever order
\* crashes, reapers, launches and handlers write the status, but for the one
\* window that ReadyMeansEngine names.
StatusTruthful ==
  StatusNotStuck /\ ErrorMeansNoEngine /\ ReadyMeansEngine /\ LoadedMatchesEngine
=============================================================================
