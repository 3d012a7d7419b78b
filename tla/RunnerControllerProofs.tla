----------------------- MODULE RunnerControllerProofs -----------------------
(***************************************************************************)
(* The safety properties of RunnerController for any number of handlers,   *)
(* models, members and engine processes.  The inductive invariant says     *)
(* what each phase of the handler that holds modelMu knows of the engine:  *)
(* reapers and dying engines interleave with every phase, so each of these *)
(* facts is one that neither of them can disturb.                          *)
(***************************************************************************)
EXTENDS RunnerController, FiniteSetTheorems, TLAPS

USE RunnerAssumption

\* The inference requests that pendingRequests counts.
Waiters == {h \in Handlers : pc[h] \in {"waiting", "acquired"} /\ Infers(h)}

\* The phases in which a process has been started, or was already there.
StartedPhases == {"registering", "polling", "healthy"}

\* modelMu and the counter are exact.
Gate ==
  /\ \A h \in Handlers : modelMu = h <=> pc[h] \notin {"idle", "waiting"}
  /\ IsFiniteSet(Waiters)
  /\ pendingRequests = Cardinality(Waiters)

\* Every handler past its arrival has a request, and the locals of launchEngine
\* are set in the phases that use them.
WellFormed ==
  \A h \in Handlers :
    /\ pc[h] # "idle" => req[h] \in AllBodies
    /\ pc[h] \in {"acquired", "claim", "busy"} => Infers(h)
    /\ pc[h] \in LaunchPhases => args \in Args
    /\ pc[h] \in StartedPhases => started \in Engines

Typed == TypeOK /\ WellFormed

\* Which processes run in each phase: none between the stop of the old engine
\* and the start of the new one, then only the new one.
EnginePhases ==
  \A h \in Handlers :
    /\ pc[h] = "starting" => Running = {}
    /\ pc[h] \in {"starting", "registering"} =>
         engineCmd = NoEngine /\ (closed \/ status = "loading")
    /\ pc[h] \in {"polling", "healthy"} => engineCmd \in {started, NoEngine}

\* A running process is the registered one or the one about to be.
Known ==
  \A e \in Running :
    e = engineCmd \/ (e = started /\ \E h \in Handlers : pc[h] = "registering")

\* Every process has a reaper or is about to get one.
Reaped ==
  \A e \in Engines : proc[e] # "none" =>
    e \in watched \/ (e = started /\ \E h \in Handlers : pc[h] = "registering")

\* An engine started with a may serve the request of h.
Suits(a, h) == req[h].model \in {a.model, Unnamed}

\* loaded describes the running engine in every phase, a launch included, and
\* the model it names is the one the request in progress asked for.
LoadedPhases ==
  /\ \A e \in Running : procArgs[e] = loaded /\ loaded \in Args
  /\ \A h \in Handlers :
       /\ pc[h] \in LaunchPhases \ {"launch"} => loaded = args
       /\ pc[h] \in LaunchPhases /\ Infers(h) => Suits(args, h)
       /\ pc[h] \in {"claim", "busy"} => loaded \in Args /\ Suits(loaded, h)

EngineInv == OneEngine /\ Known /\ EnginePhases /\ LoadedPhases

\* Only the request that the engine serves can be cancelled.
CancelInv ==
  /\ cancelActive # None => cancelActive \in Handlers /\ pc[cancelActive] = "busy"
  /\ CancelHitsActive

StatusInv == StatusNotStuck /\ ErrorMeansNoEngine

\* Who goes on as if the engine were there has it, or it was reaped unseen.
ReadyInv ==
  /\ ReadyMeansEngine
  /\ ~closed /\ PastLastLook => engineCmd # NoEngine \/ unseen

RunnerInv == Typed /\ Gate /\ EngineInv /\ Reaped /\ CancelInv /\ StatusInv /\ ReadyInv

\* Every inference request names the member it is for, as the application's
\* requests do (hosting/runner_client.go, StreamChat).
Named == \A b \in Bodies : b.op = "infer" => b.member \in Members

\* What the runner remembers of the member an engine served: enough to see that
\* the next request is another member's.
ServedInv ==
  /\ \A h \in Handlers : pc[h] # "idle" /\ Infers(h) => req[h].member \in Members
  /\ \A e \in Running : served[e] \subseteq {lastRequester} \cap Members
  /\ \A h \in Handlers :
       /\ pc[h] \in StartedPhases => \A e \in Running : served[e] = {}
       /\ pc[h] = "claim" => lastRequester \in {Anonymous, req[h].member}
  /\ MembersIsolated

-----------------------------------------------------------------------------
\* What the bodies of requests hold.
LEMMA BodyFacts ==
  /\ \A b \in AllBodies : /\ b.op \in {"load", "unload", "restart", "infer"}
                          /\ b.op = "load" => b.args \in Args
                          /\ b.op = "infer" => b.model \in Models \cup {Unnamed}
                          /\ b.op = "infer" => b.member \in Members \cup {Anonymous}
  /\ Bodies \subseteq AllBodies
BY DEF AllBodies

\* Dropping the draft model leaves well-formed arguments for the same model.
LEMMA DraftDropped ==
  ASSUME NEW a \in Args
  PROVE  [a EXCEPT !.draft = FALSE] \in Args /\ [a EXCEPT !.draft = FALSE].model = a.model
<1>1. [a EXCEPT !.draft = FALSE].model = a.model
  BY DEF Args
<1>2. [a EXCEPT !.draft = FALSE] \in Args
  BY DEF Args
<1> QED BY <1>1, <1>2

\* The holder of modelMu is the only handler past acquireModel.
LEMMA Alone ==
  ASSUME Typed, Gate, NEW h \in Handlers, pc[h] \notin {"idle", "waiting"}
  PROVE  modelMu = h /\ \A g \in Handlers \ {h} : pc[g] \in {"idle", "waiting"}
BY DEF Gate

\* What stopping the engine leaves: nothing that was registered runs.
LEMMA Stopped ==
  ASSUME Typed, Known, stopEngineLocked
  PROVE  /\ engineCmd' = NoEngine
         /\ proc' \in [Engines -> {"none", "running", "killed", "dead"}]
         /\ Running' \subseteq Running
         /\ engineCmd \notin Running'
         /\ (\A h \in Handlers : pc[h] # "registering") => Running' = {}
<1> USE DEF Typed, TypeOK, stopEngineLocked, Kill
<1>1. proc' \in [Engines -> {"none", "running", "killed", "dead"}] /\ engineCmd' = NoEngine
  OBVIOUS
<1>2. Running' \subseteq Running /\ engineCmd \notin Running'
  BY DEF Running
<1> QED BY <1>1, <1>2 DEF Known, Running

-----------------------------------------------------------------------------
(* The lock and the counter. *)

\* A handler past acquireModel moves on or returns.
LEMMA GateMove ==
  ASSUME Typed, Gate, NEW h \in Handlers, NEW l \in Phases, Goto(h, l),
         pc[h] \notin {"idle", "waiting", "acquired"}, l \notin {"waiting", "acquired"},
         \A g \in Handlers \ {h} : req'[g] = req[g],
         l = "idle" => modelMu' = None,
         l # "idle" => modelMu' = modelMu,
         pendingRequests' = pendingRequests
  PROVE  Gate'
<1>1. Waiters' = Waiters
  BY DEF Waiters, Infers, Goto, Typed, TypeOK
<1> QED BY <1>1 DEF Gate, Goto, Typed, TypeOK

\* modelMu is held by exactly one handler that is at work, through every failure path.
LEMMA NextGate == Typed /\ Gate /\ [Next]_vars => Gate'
<1> SUFFICES ASSUME Typed, Gate, [Next]_vars PROVE Gate'
  OBVIOUS
<1> USE DEF At
<1>1. ASSUME NEW h \in Handlers, NEW b \in Bodies, Arrive(h, b)
      PROVE  Gate'
  <2>1. Waiters' = (IF b.op = "infer" THEN Waiters \cup {h} ELSE Waiters) /\ h \notin Waiters
    BY <1>1 DEF Arrive, Waiters, Infers, Goto, Typed, TypeOK
  <2>2. /\ IsFiniteSet(Waiters \cup {h})
        /\ h \notin Waiters => Cardinality(Waiters \cup {h}) = Cardinality(Waiters) + 1
        /\ Cardinality(Waiters) \in Nat
    BY FS_AddElement, FS_CardinalityType DEF Gate
  <2>3. IsFiniteSet(Waiters') /\ pendingRequests' = Cardinality(Waiters')
    BY <1>1, <2>1, <2>2 DEF Arrive, Gate
  <2> QED BY <1>1, <2>3 DEF Arrive, Gate, Goto, Typed, TypeOK
<1>a. ASSUME NEW h \in Handlers, acquireModel(h)
      PROVE  Gate'
  <2>1. Waiters' = Waiters
    BY <1>a DEF acquireModel, Waiters, Infers, Goto, Typed, TypeOK
  <2> QED BY <1>a, <2>1 DEF acquireModel, Gate, Goto, Typed, TypeOK
<1>2. ASSUME NEW h \in Handlers, Entered(h) \/ GiveUp(h)
      PROVE  Gate'
  <2>1. Waiters' = Waiters \ {h}
    BY <1>2 DEF Entered, GiveUp, Leave, Waiters, Infers, Goto, Typed, TypeOK
  <2>2. /\ IsFiniteSet(Waiters \ {h})
        /\ Cardinality(Waiters) \in Nat
        /\ Cardinality(Waiters \ {h}) =
             IF h \in Waiters THEN Cardinality(Waiters) - 1 ELSE Cardinality(Waiters)
    BY FS_RemoveElement, FS_CardinalityType DEF Gate
  <2>3. h \in Waiters <=> Infers(h)
    BY <1>2 DEF Entered, GiveUp, Waiters
  <2>4. IsFiniteSet(Waiters') /\ pendingRequests' = Cardinality(Waiters')
    BY <1>2, <2>1, <2>2, <2>3 DEF Entered, GiveUp, NoLongerPending, Gate
  <2> QED BY <1>2, <2>4 DEF Entered, GiveUp, Leave, Gate, Goto, Typed, TypeOK
<1>3. ASSUME NEW h \in Handlers, HandlerStep(h)
      PROVE  Gate'
  <2>1. /\ pc[h] \notin {"idle", "waiting", "acquired"}
        /\ pendingRequests' = pendingRequests
        /\ \E l \in Phases \ {"waiting", "acquired"} :
             /\ Goto(h, l)
             /\ l = "idle" => modelMu' = None
             /\ l # "idle" => modelMu' = modelMu
        /\ \A g \in Handlers \ {h} : req'[g] = req[g]
    BY <1>3 DEF HandlerStep, LoadRejected, LoadModel, UnloadModel, RestartEngine,
         InferRefused, InferRestarts, InferDirectly, Claim, InferEnd, LaunchStep,
         LaunchBegin, StartFails, StartOK, Register, HealthOK, HealthError,
         LaunchReady, AfterFailure, EnterLaunch, ReturnUnchanged, Return, Leave,
         Phases, LaunchPhases, Typed, TypeOK
  <2> QED BY <2>1, GateMove
<1>4. CASE \/ \E e \in Engines : EngineDies(e) \/ Reap(e)
           \/ CancelInference \/ Close \/ UNCHANGED vars
  <2>1. UNCHANGED <<modelMu, pc, req, pendingRequests>>
    BY <1>4 DEF EngineDies, Reap, CancelInference, Close, vars, handlers
  <2>2. Waiters' = Waiters
    BY <2>1 DEF Waiters, Infers
  <2> QED BY <2>1, <2>2 DEF Gate
<1> QED BY <1>1, <1>a, <1>2, <1>3, <1>4 DEF Next, Exited

-----------------------------------------------------------------------------
(* Types. *)

\* The phases of the other handlers do not change, nor do their requests.
LEMMA MoveTyped ==
  ASSUME Typed, Gate, NEW h \in Handlers, NEW l \in Phases, Goto(h, l),
         pc[h] \notin {"idle", "waiting"}, l \notin {"waiting", "acquired"},
         req' = IF l = "idle" THEN [req EXCEPT ![h] = NoBody] ELSE req,
         l \in {"claim", "busy"} => Infers(h),
         l \in LaunchPhases => args' \in Args,
         l \in StartedPhases => started' \in Engines
  PROVE  /\ WellFormed'
         /\ pc' \in [Handlers -> Phases]
         /\ req' \in [Handlers -> AllBodies \cup {NoBody}]
<1>1. \A g \in Handlers \ {h} : pc[g] \in {"idle", "waiting"}
  BY Alone
<1>2. pc' \in [Handlers -> Phases] /\ req' \in [Handlers -> AllBodies \cup {NoBody}]
  BY DEF Goto, Typed, TypeOK
<1>3. \A g \in Handlers \ {h} : pc'[g] = pc[g] /\ req'[g] = req[g]
  BY DEF Goto, Typed, TypeOK
<1>4. pc'[h] = l /\ (l # "idle" => req'[h] = req[h])
  BY DEF Goto, Typed, TypeOK
<1> QED BY <1>1, <1>2, <1>3, <1>4 DEF WellFormed, Typed, Infers, LaunchPhases, StartedPhases

\* The launch of a handler fails.
LEMMA FailureTyped ==
  ASSUME Typed, Gate, NEW h \in Handlers, pc[h] \in LaunchPhases, AfterFailure(h)
  PROVE  /\ WellFormed'
         /\ pc' \in [Handlers -> Phases]
         /\ req' \in [Handlers -> AllBodies \cup {NoBody}]
         /\ args' \in Args \cup {NoArgs}
         /\ started' \in Engines \cup {NoEngine}
         /\ modelMu' \in Handlers \cup {None}
<1>1. args \in Args /\ pc[h] \notin {"idle", "waiting"}
  BY DEF Typed, WellFormed, LaunchPhases
<1>2. CASE req[h].op = "load" /\ args.draft
  <2>1. args' \in Args /\ Goto(h, "launch") /\ UNCHANGED <<modelMu, req, started>>
    BY <1>1, <1>2, DraftDropped DEF AfterFailure
  <2>2. "launch" \in Phases
    BY DEF Phases, LaunchPhases
  <2> QED BY <1>1, <2>1, <2>2, MoveTyped DEF Typed, TypeOK, StartedPhases
<1>3. CASE ~(req[h].op = "load" /\ args.draft)
  <2>1. Return(h)
    BY <1>3 DEF AfterFailure
  <2> QED BY <1>1, <2>1, MoveTyped DEF Return, Leave, Phases, LaunchPhases, StartedPhases
<1> QED BY <1>2, <1>3

\* Every step keeps the types and keeps the engine's arguments known where they are used.
LEMMA NextType == Typed /\ Gate /\ Known /\ Gate' /\ [Next]_vars => Typed'
<1> SUFFICES ASSUME Typed, Gate, Known, Gate', [Next]_vars PROVE Typed'
  OBVIOUS
<1> USE DEF At, controller, handlers, launch, processes
<1>p. pendingRequests' \in Nat
  BY FS_CardinalityType DEF Gate
<1>1. ASSUME NEW h \in Handlers, NEW b \in Bodies, Arrive(h, b)
      PROVE  Typed'
  <2>1. b \in AllBodies
    BY BodyFacts
  <2>2. TypeOK'
    BY <1>1, <2>1, <1>p DEF Arrive, Goto, Typed, TypeOK, Phases
  <2> QED BY <1>1, <2>1, <2>2 DEF Arrive, Goto, Typed, TypeOK, WellFormed, Infers,
                                 LaunchPhases, StartedPhases
<1>2. ASSUME NEW h \in Handlers, acquireModel(h) \/ Entered(h) \/ GiveUp(h)
      PROVE  Typed'
  <2>1. TypeOK'
    BY <1>2, <1>p DEF acquireModel, Entered, GiveUp, Leave, Goto, Typed, TypeOK, Phases
  <2> QED BY <1>2, <2>1 DEF acquireModel, Entered, GiveUp, Leave, Goto, Typed, TypeOK, WellFormed,
                           Infers, LaunchPhases, StartedPhases
<1>3. ASSUME NEW h \in Handlers, HandlerStep(h)
      PROVE  Typed'
  <2> USE DEF Return, Leave
  <2>0. /\ pc[h] # "idle" => req[h] \in AllBodies
        /\ pc[h] \in {"claim", "busy"} => Infers(h)
        /\ pc[h] \in LaunchPhases => args \in Args
        /\ pc[h] \in StartedPhases => started \in Engines
    BY DEF Typed, WellFormed
  <2>1. CASE \/ LoadRejected(h) \/ LoadModel(h) \/ RestartEngine(h)
             \/ InferRefused(h) \/ InferRestarts(h) \/ InferDirectly(h)
    <3>1. CASE ReturnUnchanged(h) /\ pc[h] = "entered"
      BY <3>1, <1>p, MoveTyped DEF ReturnUnchanged, Typed, TypeOK, Phases, LaunchPhases, StartedPhases
    <3>2. ASSUME NEW a \in Args, EnterLaunch(h, a), pc[h] = "entered" PROVE Typed'
      BY <3>2, <1>p, MoveTyped DEF EnterLaunch, Typed, TypeOK, Phases, LaunchPhases, StartedPhases
    <3>3. CASE InferDirectly(h)
      BY <3>3, <1>p, MoveTyped DEF InferDirectly, Typed, TypeOK, Phases, LaunchPhases, StartedPhases
    <3>4. req[h].op = "load" /\ pc[h] = "entered" => req[h].args \in Args
      BY <2>0, BodyFacts
    <3>5. loaded # NoArgs => loaded \in Args
      BY DEF Typed, TypeOK
    <3> QED BY <2>1, <3>1, <3>2, <3>3, <3>4, <3>5 DEF LoadRejected, LoadModel, RestartEngine,
              InferRefused, InferRestarts, Servable
  <2>2. CASE UnloadModel(h)
    <3>1. proc' \in [Engines -> {"none", "running", "killed", "dead"}] /\ engineCmd' = NoEngine
      BY <2>2, Stopped DEF UnloadModel
    <3> QED BY <2>2, <3>1, <1>p, MoveTyped DEF UnloadModel, Typed, TypeOK, Phases,
              LaunchPhases, StartedPhases
  <2>3. CASE Claim(h) \/ InferEnd(h)
    <3>1. req[h].member \in Members \cup {Anonymous}
      BY <2>0, <2>3, BodyFacts DEF Claim, InferEnd, Infers
    <3>2. CASE Claim(h)
      BY <2>0, <3>2, <3>1, <1>p, MoveTyped DEF Claim, Typed, TypeOK, Phases, LaunchPhases, StartedPhases
    <3>3. CASE InferEnd(h)
      BY <2>0, <3>3, <3>1, <1>p, MoveTyped DEF InferEnd, Typed, TypeOK, Phases, LaunchPhases, StartedPhases
    <3> QED BY <2>3, <3>2, <3>3
  <2>4. CASE LaunchBegin(h)
    <3>1. proc' \in [Engines -> {"none", "running", "killed", "dead"}] /\ engineCmd' = NoEngine
      BY <2>4, Stopped DEF LaunchBegin
    <3> QED BY <2>0, <2>4, <3>1, <1>p, MoveTyped DEF LaunchBegin, Typed, TypeOK, Phases,
              LaunchPhases, StartedPhases
  <2>5. CASE StartFails(h) \/ HealthError(h)
    <3>1. proc' \in [Engines -> {"none", "running", "killed", "dead"}]
          /\ engineCmd' \in Engines \cup {NoEngine}
      BY <2>5, Stopped DEF StartFails, HealthError, Typed, TypeOK
    <3>2. pc[h] \in LaunchPhases /\ AfterFailure(h)
      BY <2>5 DEF StartFails, HealthError, LaunchPhases
    <3>3. /\ status' = "error" /\ loaded' = NoArgs
          /\ UNCHANGED <<lastRequester, notice, cancelActive, pendingRequests,
                         cancelled, watched, procArgs, served, closed, unseen>>
      BY <2>5 DEF StartFails, HealthError
    <3>4. /\ WellFormed'
          /\ pc' \in [Handlers -> Phases]
          /\ req' \in [Handlers -> AllBodies \cup {NoBody}]
          /\ args' \in Args \cup {NoArgs}
          /\ started' \in Engines \cup {NoEngine}
          /\ modelMu' \in Handlers \cup {None}
      BY <3>2, FailureTyped
    <3> QED BY <3>1, <3>3, <3>4 DEF Typed, TypeOK
  <2>6. CASE StartOK(h) \/ Register(h) \/ HealthOK(h)
    BY <2>0, <2>6, <1>p, MoveTyped DEF StartOK, Register, HealthOK, Typed, TypeOK, Phases,
         LaunchPhases, StartedPhases
  <2>7. CASE LaunchReady(h)
    <3>1. notice' \in BOOLEAN
      BY <2>7, Zenon DEF LaunchReady
    <3>2. /\ pc[h] = "healthy" /\ status' = "ready" /\ lastRequester' = Anonymous
          /\ UNCHANGED <<loaded, engineCmd, cancelActive, pendingRequests,
                         cancelled, processes, closed, unseen>>
          /\ IF Infers(h) THEN Goto(h, "claim") /\ UNCHANGED <<modelMu, req, launch>>
                          ELSE Return(h)
      BY <2>7 DEF LaunchReady
    <3> QED BY <2>0, <3>1, <3>2, <1>p, MoveTyped DEF Typed, TypeOK, Phases, LaunchPhases, StartedPhases
  <2> QED BY <1>3, <2>1, <2>2, <2>3, <2>4, <2>5, <2>6, <2>7 DEF HandlerStep, LaunchStep
<1>4. CASE \E e \in Engines : EngineDies(e) \/ Reap(e)
  <2>1. unseen' \in BOOLEAN
    <3>1. UNCHANGED unseen \/ unseen' = PastLastLook
      BY <1>4 DEF EngineDies, Reap
    <3>2. PastLastLook \in BOOLEAN
      BY DEF PastLastLook
    <3> QED BY <3>1, <3>2 DEF Typed, TypeOK
  <2> QED BY <1>4, <2>1 DEF EngineDies, Reap, Collect, Typed, TypeOK, WellFormed, Infers
<1>5. CASE CancelInference
  BY <1>5 DEF CancelInference, Typed, TypeOK, WellFormed, Infers
<1>6. CASE Close
  <2>1. proc' \in [Engines -> {"none", "running", "killed", "dead"}] /\ engineCmd' = NoEngine
    BY <1>6, Stopped DEF Close
  <2> QED BY <1>6, <2>1 DEF Close, Typed, TypeOK, WellFormed, Infers
<1>7. CASE UNCHANGED vars
  BY <1>7 DEF vars, Typed, TypeOK, WellFormed, Infers
<1> QED BY <1>1, <1>2, <1>3, <1>4, <1>5, <1>6, <1>7 DEF Next, Exited

-----------------------------------------------------------------------------
(* The engine. *)

\* A handler past acquireModel moves and the engine is left alone.
LEMMA EngineMove ==
  ASSUME Typed, Gate, EngineInv, NEW h \in Handlers, NEW l \in Phases, Goto(h, l),
         pc[h] \notin {"idle", "waiting"}, l # "waiting",
         l # "idle" => req' = req,
         UNCHANGED <<engineCmd, loaded, proc, procArgs, closed>>,
         pc[h] # "registering" /\ l \notin {"starting", "registering"},
         l \in {"polling", "healthy"} => engineCmd \in {started', NoEngine},
         l \in LaunchPhases \ {"launch"} => loaded = args',
         l \in LaunchPhases /\ Infers(h) => Suits(args', h),
         l \in {"claim", "busy"} => loaded \in Args /\ Suits(loaded, h)
  PROVE  EngineInv'
<1>1. \A g \in Handlers \ {h} : pc[g] \in {"idle", "waiting"} /\ pc'[g] = pc[g]
  BY Alone DEF Goto, Typed, TypeOK
<1>2. pc'[h] = l /\ Running' = Running
  BY DEF Goto, Typed, TypeOK, Running
<1>3. OneEngine' /\ Known'
  BY <1>1, <1>2 DEF EngineInv, OneEngine, Known
<1>4. EnginePhases'
  BY <1>1, <1>2 DEF EngineInv, EnginePhases
<1>5. LoadedPhases'
  BY <1>1, <1>2 DEF EngineInv, LoadedPhases, Suits, LaunchPhases, Infers
<1> QED BY <1>3, <1>4, <1>5 DEF EngineInv

\* No process runs after the step, and the handler that made it does not go on
\* to a phase in which one is expected.
LEMMA EngineGone ==
  ASSUME Typed, Gate, NEW h \in Handlers, NEW l \in {"idle", "launch", "starting"},
         Goto(h, l), pc[h] \notin {"idle", "waiting"},
         Running' = {}, engineCmd' = NoEngine,
         l = "starting" => loaded' = args' /\ status' = "loading",
         l # "idle" => req' = req,
         l # "idle" /\ Infers(h) => Suits(args', h)
  PROVE  EngineInv'
<1>1. \A g \in Handlers \ {h} : pc[g] \in {"idle", "waiting"} /\ pc'[g] = pc[g]
  BY Alone DEF Goto, Typed, TypeOK
<1>2. pc'[h] = l
  BY DEF Goto, Typed, TypeOK
<1> QED BY <1>1, <1>2 DEF EngineInv, OneEngine, Known, EnginePhases, LoadedPhases, Suits,
                          LaunchPhases, Infers

\* At most one engine lives, and it is the registered one or the one its handler is about
\* to register.
LEMMA NextEngine == Typed /\ Gate /\ EngineInv /\ [Next]_vars => EngineInv'
<1> SUFFICES ASSUME Typed, Gate, EngineInv, [Next]_vars PROVE EngineInv'
  OBVIOUS
<1> USE DEF At, controller, handlers, launch, processes
<1>k. Known
  BY DEF EngineInv
<1>1. ASSUME NEW h \in Handlers,
             \/ \E b \in Bodies : Arrive(h, b)
             \/ acquireModel(h) \/ Entered(h) \/ GiveUp(h)
      PROVE  EngineInv'
  <2>1. /\ UNCHANGED <<status, engineCmd, loaded, proc, procArgs, closed, args, started>>
        /\ \A g \in Handlers \ {h} : pc'[g] = pc[g] /\ req'[g] = req[g]
        /\ pc[h] \in {"idle", "waiting", "acquired"}
        /\ pc'[h] \in {"idle", "waiting", "acquired", "entered"}
    BY <1>1 DEF Arrive, acquireModel, Entered, GiveUp, Leave, Goto, Typed, TypeOK
  <2>2. Running' = Running
    BY <2>1 DEF Running
  <2>3. \A g \in Handlers : pc'[g] \in LaunchPhases \cup {"claim", "busy"} =>
                              g # h /\ pc[g] = pc'[g] /\ req'[g] = req[g]
    BY <2>1 DEF LaunchPhases
  <2>4. OneEngine' /\ Known' /\ EnginePhases'
    BY <2>1, <2>2, <2>3 DEF EngineInv, OneEngine, Known, EnginePhases, LaunchPhases
  <2>5. LoadedPhases'
    BY <2>1, <2>2, <2>3 DEF EngineInv, LoadedPhases, Suits, Infers
  <2> QED BY <2>4, <2>5 DEF EngineInv
<1>3. ASSUME NEW h \in Handlers, HandlerStep(h)
      PROVE  EngineInv'
  <2> USE DEF Return, Leave
  <2>0. pc[h] \notin {"idle", "waiting"} => \A g \in Handlers \ {h} : pc[g] \in {"idle", "waiting"}
    BY Alone
  <2>1. CASE \/ LoadRejected(h) \/ LoadModel(h) \/ RestartEngine(h)
             \/ InferRefused(h) \/ InferRestarts(h) \/ InferDirectly(h)
    <3>1. CASE ReturnUnchanged(h) /\ pc[h] = "entered"
      BY <3>1, EngineMove DEF ReturnUnchanged, Phases, LaunchPhases
    <3>2. ASSUME NEW a \in Args, EnterLaunch(h, a), pc[h] = "entered",
                 Infers(h) => Suits(a, h)
          PROVE  EngineInv'
      BY <3>2, EngineMove DEF EnterLaunch, Phases, LaunchPhases
    <3>3. CASE InferDirectly(h)
      BY <3>3, EngineMove DEF InferDirectly, Servable, Suits, Typed, TypeOK, Phases, LaunchPhases
    <3>4. req[h].op = "load" /\ pc[h] = "entered" => req[h].args \in Args
      BY BodyFacts DEF Typed, WellFormed
    <3>5. loaded # NoArgs => loaded \in Args
      BY DEF Typed, TypeOK
    <3> QED BY <2>1, <3>1, <3>2, <3>3, <3>4, <3>5 DEF LoadRejected, LoadModel, RestartEngine,
              InferRefused, InferRestarts, Servable, Suits, Infers
  <2>2. CASE UnloadModel(h)
    <3>1. Running' = {} /\ engineCmd' = NoEngine
      BY <2>2, <2>0, <1>k, Stopped DEF UnloadModel
    <3> QED BY <2>2, <3>1, EngineGone DEF UnloadModel
  <2>3. CASE Claim(h) \/ InferEnd(h) \/ HealthOK(h) \/ LaunchReady(h)
    <3>1. CASE Claim(h)
      BY <3>1, EngineMove DEF Claim, EngineInv, LoadedPhases, Suits, Phases, LaunchPhases
    <3>2. CASE InferEnd(h)
      BY <3>2, EngineMove DEF InferEnd, Phases, LaunchPhases
    <3>3. CASE HealthOK(h)
      BY <3>3, EngineMove DEF HealthOK, EngineInv, EnginePhases, LoadedPhases, Suits, Phases, LaunchPhases
    <3>4. CASE LaunchReady(h)
      <4>1. /\ pc[h] = "healthy"
            /\ UNCHANGED <<loaded, engineCmd, proc, procArgs, closed>>
            /\ IF Infers(h) THEN Goto(h, "claim") /\ UNCHANGED <<req, args>>
                            ELSE Goto(h, "idle")
        BY <3>4 DEF LaunchReady
      <4>2. loaded = args /\ args \in Args /\ (Infers(h) => Suits(args, h))
        BY <4>1 DEF EngineInv, LoadedPhases, Suits, Typed, WellFormed, LaunchPhases
      <4> QED BY <4>1, <4>2, EngineMove DEF Phases, LaunchPhases
    <3> QED BY <2>3, <3>1, <3>2, <3>3, <3>4
  <2>4. CASE LaunchBegin(h)
    <3>1. Running' = {} /\ engineCmd' = NoEngine
      BY <2>4, <2>0, <1>k, Stopped DEF LaunchBegin
    <3>2. Infers(h) => Suits(args, h)
      BY <2>4 DEF LaunchBegin, EngineInv, LoadedPhases, Suits, LaunchPhases
    <3> QED BY <2>4, <3>1, <3>2, EngineGone DEF LaunchBegin
  <2>5. CASE StartFails(h) \/ HealthError(h)
    <3>1. Running' = {} /\ engineCmd' = NoEngine
      <4>1. CASE StartFails(h)
        BY <4>1 DEF StartFails, EngineInv, EnginePhases, Running
      <4>2. CASE HealthError(h)
        BY <4>2, <2>0, <1>k, Stopped DEF HealthError
      <4> QED BY <2>5, <4>1, <4>2
    <3>2. pc[h] \in LaunchPhases /\ AfterFailure(h) /\ pc[h] \notin {"idle", "waiting"}
      BY <2>5 DEF StartFails, HealthError, LaunchPhases
    <3>3. args \in Args /\ (Infers(h) => Suits(args, h))
      BY <3>2 DEF EngineInv, LoadedPhases, Suits, Typed, WellFormed
    <3>4. CASE req[h].op = "load" /\ args.draft
      <4>1. /\ ~Infers(h) /\ Goto(h, "launch") /\ req' = req
        BY <3>2, <3>4 DEF AfterFailure, Infers
      <4> QED BY <3>1, <3>2, <4>1, EngineGone
    <3>5. CASE ~(req[h].op = "load" /\ args.draft)
      <4>1. Goto(h, "idle")
        BY <3>2, <3>5 DEF AfterFailure
      <4> QED BY <3>1, <3>2, <4>1, EngineGone
    <3> QED BY <3>4, <3>5
  <2>6. CASE StartOK(h)
    <3>1. PICK e \in Engines :
            /\ proc[e] = "none"
            /\ proc' = [proc EXCEPT ![e] = "running"]
            /\ procArgs' = [procArgs EXCEPT ![e] = args]
            /\ started' = e
      BY <2>6 DEF StartOK
    <3>2. /\ pc[h] = "starting" /\ Goto(h, "registering") /\ ~closed
          /\ UNCHANGED <<status, loaded, engineCmd, req, args, closed>>
      BY <2>6 DEF StartOK
    <3>3. Running = {} /\ engineCmd = NoEngine /\ status = "loading" /\ loaded = args
          /\ args \in Args /\ (Infers(h) => Suits(args, h))
      BY <3>2 DEF EngineInv, EnginePhases, LoadedPhases, Suits, Typed, WellFormed, LaunchPhases
    <3>4. Running' = {e} /\ procArgs'[e] = args
      BY <3>1, <3>3 DEF Running, Typed, TypeOK
    <3>5. pc'[h] = "registering" /\ \A g \in Handlers \ {h} : pc'[g] \in {"idle", "waiting"}
      BY <3>2, <2>0 DEF Goto, Typed, TypeOK
    <3> QED BY <3>1, <3>2, <3>3, <3>4, <3>5 DEF EngineInv, OneEngine, Known, EnginePhases,
              LoadedPhases, Suits, LaunchPhases, Infers
  <2>7. CASE Register(h)
    <3>1. /\ pc[h] = "registering" /\ Goto(h, "polling") /\ engineCmd' = started
          /\ UNCHANGED <<loaded, req, args, started, proc, procArgs>>
      BY <2>7 DEF Register
    <3>2. engineCmd = NoEngine /\ Running' = Running /\ \A e \in Running : e = started
      BY <3>1 DEF EngineInv, EnginePhases, Known, Running
    <3>3. pc'[h] = "polling" /\ \A g \in Handlers \ {h} : pc'[g] \in {"idle", "waiting"}
      BY <3>1, <2>0 DEF Goto, Typed, TypeOK
    <3> QED BY <3>1, <3>2, <3>3 DEF EngineInv, OneEngine, Known, EnginePhases,
              LoadedPhases, Suits, LaunchPhases, Infers
  <2> QED BY <1>3, <2>1, <2>2, <2>3, <2>4, <2>5, <2>6, <2>7 DEF HandlerStep, LaunchStep
<1>4. ASSUME NEW e \in Engines, EngineDies(e) \/ Reap(e) PROVE EngineInv'
  <2>1. /\ Running' = Running \ {e}
        /\ \A f \in Engines \ {e} : procArgs'[f] = procArgs[f]
        /\ UNCHANGED <<loaded, pc, req, args, started, closed>>
    BY <1>4 DEF EngineDies, Reap, Collect, Running, Typed, TypeOK
  <2>2. /\ engineCmd' = engineCmd \/ (engineCmd' = NoEngine /\ engineCmd = e)
        /\ engineCmd = NoEngine => status' = status
    BY <1>4 DEF EngineDies, Reap
  <2>3. OneEngine' /\ Known'
    BY <2>1, <2>2 DEF EngineInv, OneEngine, Known
  <2>4. EnginePhases'
    BY <2>1, <2>2 DEF EngineInv, EnginePhases
  <2>5. LoadedPhases'
    BY <2>1 DEF EngineInv, LoadedPhases, Suits, Running, Infers
  <2> QED BY <2>3, <2>4, <2>5 DEF EngineInv
<1>5. CASE CancelInference \/ UNCHANGED vars
  BY <1>5 DEF CancelInference, vars, EngineInv, OneEngine, Known, EnginePhases,
              LoadedPhases, Suits, Running, Infers
<1>6. CASE Close
  <2>1. /\ engineCmd' = NoEngine /\ Running' \subseteq Running /\ engineCmd \notin Running'
        /\ UNCHANGED <<loaded, pc, req, args, started, procArgs>> /\ closed'
    BY <1>6, <1>k, Stopped DEF Close
  <2> QED BY <2>1 DEF EngineInv, OneEngine, Known, EnginePhases, LoadedPhases, Suits, Infers
<1> QED BY <1>1, <1>3, <1>4, <1>5, <1>6 DEF Next, Exited

-----------------------------------------------------------------------------
(* Cancellation and the status. *)

\* Only Claim and InferEnd touch a handler that streams.
LEMMA NextCancel == Typed /\ Gate /\ CancelInv /\ [Next]_vars => CancelInv'
<1> SUFFICES ASSUME Typed, Gate, CancelInv, [Next]_vars PROVE CancelInv'
  OBVIOUS
<1> USE DEF At, controller, handlers, launch, processes, CancelInv, CancelHitsActive
<1>1. ASSUME NEW h \in Handlers, pc[h] # "busy", NEW l \in Phases, Goto(h, l),
             UNCHANGED <<cancelActive, cancelled>>
      PROVE  CancelInv'
  BY <1>1 DEF Goto, Typed, TypeOK
<1>2. ASSUME NEW h \in Handlers,
             \/ \E b \in Bodies : Arrive(h, b)
             \/ acquireModel(h) \/ Entered(h) \/ GiveUp(h)
      PROVE  CancelInv'
  BY <1>2, <1>1 DEF Arrive, acquireModel, Entered, GiveUp, Leave, Phases
<1>3. ASSUME NEW h \in Handlers, HandlerStep(h)
      PROVE  CancelInv'
  <2>1. CASE Claim(h)
    BY <2>1, Alone DEF Claim, Goto, Typed, TypeOK
  <2>2. CASE InferEnd(h)
    <3>1. cancelActive' = None /\ cancelled' = cancelled \ {h} /\ Goto(h, "idle")
      BY <2>2 DEF InferEnd, Return, Leave
    <3> QED BY <3>1 DEF Goto, Typed, TypeOK
  <2>3. CASE ~Claim(h) /\ ~InferEnd(h)
    <3>1. /\ pc[h] # "busy"
          /\ \E l \in Phases : Goto(h, l)
          /\ UNCHANGED <<cancelActive, cancelled>>
      BY <1>3, <2>3 DEF HandlerStep, LoadRejected, LoadModel, UnloadModel, RestartEngine,
         InferRefused, InferRestarts, InferDirectly, LaunchStep,
         LaunchBegin, StartFails, StartOK, Register, HealthOK, HealthError,
         LaunchReady, AfterFailure, EnterLaunch, ReturnUnchanged, Return, Leave,
         Phases, LaunchPhases
    <3> QED BY <3>1, <1>1
  <2> QED BY <2>1, <2>2, <2>3
<1>4. CASE \/ \E e \in Engines : EngineDies(e) \/ Reap(e)
           \/ CancelInference \/ Close \/ UNCHANGED vars
  BY <1>4 DEF EngineDies, Reap, CancelInference, Close, vars
<1> QED BY <1>2, <1>3, <1>4 DEF Next, Exited

\* A status that says loading or busy has a handler that will change it, and one that says
\* error has no engine.
LEMMA NextStatus ==
  Typed /\ Gate /\ EngineInv /\ StatusInv /\ [Next]_vars => StatusInv'
<1> SUFFICES ASSUME Typed, Gate, EngineInv, StatusInv, [Next]_vars PROVE StatusInv'
  OBVIOUS
<1> USE DEF At, controller, handlers, launch, processes, StatusInv
<1>k. Known
  BY DEF EngineInv
<1>1. ASSUME NEW h \in Handlers,
             \/ \E b \in Bodies : Arrive(h, b)
             \/ acquireModel(h) \/ Entered(h) \/ GiveUp(h)
      PROVE  StatusInv'
  <2>1. /\ UNCHANGED <<status, proc>>
        /\ \A g \in Handlers \ {h} : pc'[g] = pc[g]
        /\ pc[h] \in {"idle", "waiting", "acquired"}
    BY <1>1 DEF Arrive, acquireModel, Entered, GiveUp, Leave, Goto, Typed, TypeOK
  <2> QED BY <2>1 DEF StatusNotStuck, ErrorMeansNoEngine, Running, LaunchPhases
<1>2. ASSUME NEW h \in Handlers, HandlerStep(h)
      PROVE  StatusInv'
  <2> USE DEF Return, Leave
  <2>0. pc[h] \notin {"idle", "waiting"} => \A g \in Handlers \ {h} : pc[g] \in {"idle", "waiting"}
    BY Alone
  <2>1. CASE \/ LoadRejected(h) \/ LoadModel(h) \/ RestartEngine(h)
             \/ InferRefused(h) \/ InferRestarts(h) \/ InferDirectly(h)
    <3>1. UNCHANGED <<status, proc>> /\ pc[h] = "entered" /\ status \notin {"busy", "loading"}
      BY <2>1, <2>0 DEF LoadRejected, LoadModel, RestartEngine, InferRefused, InferRestarts,
           InferDirectly, EnterLaunch, ReturnUnchanged, StatusNotStuck, LaunchPhases
    <3> QED BY <3>1 DEF StatusNotStuck, ErrorMeansNoEngine, Running
  <2>2. CASE UnloadModel(h)
    BY <2>2 DEF UnloadModel, StatusNotStuck, ErrorMeansNoEngine
  <2>3. CASE Claim(h)
    BY <2>3 DEF Claim, Goto, StatusNotStuck, ErrorMeansNoEngine, Typed, TypeOK
  <2>4. CASE InferEnd(h)
    <3>1. UNCHANGED proc /\ status' = (IF status = "busy" THEN "ready" ELSE status)
          /\ status # "loading"
      BY <2>4, <2>0 DEF InferEnd, StatusNotStuck, LaunchPhases
    <3> QED BY <3>1 DEF StatusNotStuck, ErrorMeansNoEngine, Running
  <2>5. CASE LaunchBegin(h)
    BY <2>5 DEF LaunchBegin, Goto, LaunchPhases, StatusNotStuck, ErrorMeansNoEngine, Typed, TypeOK
  <2>6. CASE StartFails(h) \/ HealthError(h)
    <3>1. Running' = {}
      <4>1. CASE StartFails(h)
        BY <4>1 DEF StartFails, EngineInv, EnginePhases, Running
      <4>2. CASE HealthError(h)
        BY <4>2, <2>0, <1>k, Stopped DEF HealthError
      <4> QED BY <2>6, <4>1, <4>2
    <3>2. status' = "error"
      BY <2>6 DEF StartFails, HealthError
    <3> QED BY <3>1, <3>2 DEF StatusNotStuck, ErrorMeansNoEngine
  <2>7. CASE StartOK(h)
    <3>1. status' = status /\ pc'[h] = "registering" /\ status = "loading"
      BY <2>7 DEF StartOK, Goto, EngineInv, EnginePhases, Typed, TypeOK
    <3> QED BY <3>1 DEF StatusNotStuck, ErrorMeansNoEngine, LaunchPhases
  <2>8. CASE Register(h) \/ HealthOK(h)
    <3>1. UNCHANGED <<status, proc>> /\ pc'[h] \in {"polling", "healthy"} /\ status # "busy"
      BY <2>8, <2>0 DEF Register, HealthOK, Goto, StatusNotStuck, Typed, TypeOK
    <3> QED BY <3>1 DEF StatusNotStuck, ErrorMeansNoEngine, LaunchPhases, Running
  <2>9. CASE LaunchReady(h)
    BY <2>9 DEF LaunchReady, StatusNotStuck, ErrorMeansNoEngine
  <2> QED BY <1>2, <2>1, <2>2, <2>3, <2>4, <2>5, <2>6, <2>7, <2>8, <2>9 DEF HandlerStep, LaunchStep
<1>3. ASSUME NEW e \in Engines, EngineDies(e) PROVE StatusInv'
  BY <1>3 DEF EngineDies, StatusNotStuck, ErrorMeansNoEngine, Running, Typed, TypeOK
<1>4. ASSUME NEW e \in Engines, Reap(e) PROVE StatusInv'
  <2>1. Running' = Running /\ e \notin Running /\ UNCHANGED pc
    BY <1>4 DEF Reap, Collect, Running, Typed, TypeOK
  <2>2. CASE engineCmd # e
    BY <1>4, <2>1, <2>2 DEF Reap, StatusNotStuck, ErrorMeansNoEngine
  <2>3. CASE engineCmd = e
    <3>1. \A h \in Handlers : pc[h] # "registering"
      BY <2>3 DEF EngineInv, EnginePhases
    <3>2. Running = {}
      BY <2>1, <2>3, <3>1, <1>k DEF Known
    <3> QED BY <1>4, <2>1, <2>3, <3>2 DEF Reap, StatusNotStuck, ErrorMeansNoEngine
  <2> QED BY <2>2, <2>3
<1>5. CASE CancelInference \/ UNCHANGED vars
  BY <1>5 DEF CancelInference, vars, StatusNotStuck, ErrorMeansNoEngine, Running
<1>6. CASE Close
  BY <1>6 DEF Close, StatusNotStuck, ErrorMeansNoEngine
<1> QED BY <1>1, <1>2, <1>3, <1>4, <1>5, <1>6 DEF Next, Exited

-----------------------------------------------------------------------------
(* Reapers, and the window in which an engine is lost unseen. *)

\* A process gets its reaper when it is registered and keeps it until it is reaped.
LEMMA NextReaped == Typed /\ Gate /\ Reaped /\ [Next]_vars => Reaped'
<1> SUFFICES ASSUME Typed, Gate, Reaped, [Next]_vars PROVE Reaped'
  OBVIOUS
<1> USE DEF At, controller, handlers, launch, processes
<1>1. ASSUME NEW h \in Handlers, pc[h] # "registering", NEW l \in Phases, Goto(h, l),
             watched' = watched,
             \A e \in Engines : proc'[e] # "none" => proc[e] # "none",
             started' = started \/ \A g \in Handlers : pc[g] # "registering"
      PROVE  Reaped'
  BY <1>1 DEF Goto, Reaped, Typed, TypeOK
<1>s. stopEngineLocked => \A e \in Engines : proc'[e] # "none" => proc[e] # "none"
  BY DEF stopEngineLocked, Kill, Typed, TypeOK
<1>2. ASSUME NEW h \in Handlers,
             \/ \E b \in Bodies : Arrive(h, b)
             \/ acquireModel(h) \/ Entered(h) \/ GiveUp(h)
      PROVE  Reaped'
  <2>1. /\ pc[h] # "registering" /\ UNCHANGED <<watched, proc, started>>
        /\ \E l \in Phases : Goto(h, l)
    BY <1>2 DEF Arrive, acquireModel, Entered, GiveUp, Leave, Phases
  <2> QED BY <2>1, <1>1
<1>3. ASSUME NEW h \in Handlers, HandlerStep(h)
      PROVE  Reaped'
  <2>0. pc[h] \notin {"idle", "waiting"} => \A g \in Handlers \ {h} : pc[g] \in {"idle", "waiting"}
    BY Alone
  <2>1. CASE StartOK(h)
    <3>1. PICK e \in Engines : proc' = [proc EXCEPT ![e] = "running"] /\ started' = e
      BY <2>1 DEF StartOK
    <3>2. pc[h] = "starting" /\ pc'[h] = "registering" /\ watched' = watched
      BY <2>1 DEF StartOK, Goto, Typed, TypeOK
    <3>3. \A g \in Handlers : pc[g] # "registering"
      BY <3>2, <2>0
    <3> QED BY <3>1, <3>2, <3>3 DEF Reaped, Typed, TypeOK
  <2>2. CASE Register(h)
    <3>1. watched' = watched \cup {started} /\ proc' = proc
      BY <2>2 DEF Register
    <3> QED BY <3>1 DEF Reaped
  <2>3. CASE ~StartOK(h) /\ ~Register(h)
    <3>1. /\ pc[h] \notin {"idle", "waiting", "registering"} /\ watched' = watched
          /\ \E l \in Phases : Goto(h, l)
          /\ \A e \in Engines : proc'[e] # "none" => proc[e] # "none"
      BY <1>3, <2>3, <1>s DEF HandlerStep, LoadRejected, LoadModel, UnloadModel, RestartEngine,
         InferRefused, InferRestarts, InferDirectly, Claim, InferEnd, LaunchStep,
         LaunchBegin, StartFails, HealthOK, HealthError,
         LaunchReady, AfterFailure, EnterLaunch, ReturnUnchanged, Return, Leave,
         Phases, LaunchPhases
    <3>2. \A g \in Handlers : pc[g] # "registering"
      BY <3>1, <2>0
    <3> QED BY <3>1, <3>2, <1>1
  <2> QED BY <2>1, <2>2, <2>3
<1>4. ASSUME NEW e \in Engines, EngineDies(e) \/ Reap(e) PROVE Reaped'
  <2>1. CASE EngineDies(e)
    BY <2>1 DEF EngineDies, Reaped, Typed, TypeOK
  <2>2. CASE Reap(e)
    <3>1. /\ proc'[e] = "none" /\ watched' = watched \ {e}
          /\ \A f \in Engines \ {e} : proc'[f] = proc[f]
          /\ UNCHANGED <<pc, started>>
      BY <2>2 DEF Reap, Collect, Typed, TypeOK
    <3> QED BY <3>1 DEF Reaped
  <2> QED BY <1>4, <2>1, <2>2
<1>5. CASE CancelInference \/ UNCHANGED vars
  BY <1>5 DEF CancelInference, vars, Reaped
<1>6. CASE Close
  <2>1. UNCHANGED <<pc, started, watched>>
    BY <1>6 DEF Close
  <2>2. \A e \in Engines : proc'[e] # "none" => proc[e] # "none"
    BY <1>6, <1>s DEF Close
  <2> QED BY <2>1, <2>2 DEF Reaped
<1> QED BY <1>2, <1>3, <1>4, <1>5, <1>6 DEF Next, Exited

\* The ready status is written with an engine registered, or after the reaper ran behind
\* the back of the handler that writes it.
LEMMA NextReady ==
  Typed /\ Gate /\ EngineInv /\ ReadyInv /\ [Next]_vars => ReadyInv'
<1> SUFFICES ASSUME Typed, Gate, EngineInv, ReadyInv, [Next]_vars PROVE ReadyInv'
  OBVIOUS
<1> USE DEF At, controller, handlers, launch, processes, ReadyInv, ReadyMeansEngine
<1>1. ASSUME NEW h \in Handlers,
             \/ \E b \in Bodies : Arrive(h, b)
             \/ acquireModel(h) \/ Entered(h) \/ GiveUp(h)
      PROVE  ReadyInv'
  <2>1. /\ UNCHANGED <<status, engineCmd, closed, unseen>>
        /\ \A g \in Handlers \ {h} : pc'[g] = pc[g]
        /\ pc'[h] \notin {"healthy", "claim"}
    BY <1>1 DEF Arrive, acquireModel, Entered, GiveUp, Leave, Goto, Typed, TypeOK
  <2>2. PastLastLook' => PastLastLook
    BY <2>1 DEF PastLastLook
  <2> QED BY <2>1, <2>2
<1>2. ASSUME NEW h \in Handlers, HandlerStep(h)
      PROVE  ReadyInv'
  <2> USE DEF Return, Leave
  <2>0. pc[h] \notin {"idle", "waiting"} => \A g \in Handlers \ {h} : pc[g] \in {"idle", "waiting"}
    BY Alone
  <2>p. ASSUME NEW l \in Phases, Goto(h, l), pc[h] \notin {"idle", "waiting"}
        PROVE  PastLastLook' <=> l \in {"healthy", "claim"}
    BY <2>p, <2>0 DEF PastLastLook, Goto, Typed, TypeOK
  <2>1. CASE \/ LoadRejected(h) \/ LoadModel(h) \/ RestartEngine(h)
             \/ InferRefused(h) \/ InferRestarts(h)
    <3>1. /\ UNCHANGED <<status, engineCmd, unseen>> /\ pc[h] = "entered"
          /\ Goto(h, "idle") \/ Goto(h, "launch")
      BY <2>1 DEF LoadRejected, LoadModel, RestartEngine, InferRefused, InferRestarts,
           EnterLaunch, ReturnUnchanged
    <3>2. "idle" \in Phases /\ "launch" \in Phases
      BY DEF Phases, LaunchPhases
    <3> QED BY <3>1, <3>2, <2>p
  <2>2. CASE InferDirectly(h)
    <3>1. UNCHANGED <<status, engineCmd, unseen>> /\ status = "ready"
      BY <2>2 DEF InferDirectly, Servable
    <3> QED BY <3>1
  <2>3. CASE Claim(h) \/ InferEnd(h)
    <3>1. /\ UNCHANGED <<engineCmd, unseen, closed>> /\ ~closed
          /\ pc[h] \in {"claim", "busy"}
          /\ Goto(h, "busy") \/ Goto(h, "idle")
          /\ status' \in {"ready", "busy"} => pc[h] = "claim" \/ status \in {"ready", "busy"}
      BY <2>3 DEF Claim, InferEnd
    <3>2. "idle" \in Phases /\ "busy" \in Phases
      BY DEF Phases
    <3>3. pc[h] = "claim" => PastLastLook
      BY DEF PastLastLook
    <3> QED BY <3>1, <3>2, <3>3, <2>p
  <2>4. CASE UnloadModel(h) \/ LaunchBegin(h)
    <3>1. /\ status' \in {"idle", "loading"} /\ pc[h] \in {"entered", "launch"}
          /\ Goto(h, "idle") \/ Goto(h, "starting")
      BY <2>4 DEF UnloadModel, LaunchBegin
    <3>2. "idle" \in Phases /\ "starting" \in Phases
      BY DEF Phases, LaunchPhases
    <3> QED BY <3>1, <3>2, <2>p
  <2>5. CASE StartFails(h) \/ HealthError(h)
    <3>1. /\ status' = "error" /\ pc[h] \in {"starting", "polling"}
          /\ Goto(h, "idle") \/ Goto(h, "launch")
      BY <2>5 DEF StartFails, HealthError, AfterFailure
    <3>2. "idle" \in Phases /\ "launch" \in Phases
      BY DEF Phases, LaunchPhases
    <3> QED BY <3>1, <3>2, <2>p
  <2>6. CASE StartOK(h)
    <3>1. UNCHANGED <<status, engineCmd, unseen>> /\ pc[h] = "starting" /\ Goto(h, "registering")
      BY <2>6 DEF StartOK
    <3>2. "registering" \in Phases
      BY DEF Phases, LaunchPhases
    <3> QED BY <3>1, <3>2, <2>p
  <2>7. CASE Register(h)
    <3>1. engineCmd' = started /\ pc[h] = "registering"
      BY <2>7 DEF Register
    <3>2. started # NoEngine
      BY <3>1 DEF Typed, WellFormed, StartedPhases
    <3> QED BY <3>1, <3>2
  <2>8. CASE HealthOK(h)
    <3>1. /\ UNCHANGED <<engineCmd>> /\ pc[h] = "polling" /\ proc[started] = "running"
      BY <2>8 DEF HealthOK
    <3>2. started \in Engines /\ \A g \in Handlers : pc[g] # "registering"
      BY <3>1, <2>0 DEF Typed, WellFormed, StartedPhases
    <3>3. engineCmd = started
      BY <3>1, <3>2 DEF EngineInv, Known, Running
    <3> QED BY <3>1, <3>2, <3>3
  <2>9. CASE LaunchReady(h)
    <3>1. UNCHANGED <<engineCmd, unseen, closed>> /\ pc[h] = "healthy" /\ ~closed
      BY <2>9 DEF LaunchReady
    <3>2. PastLastLook
      BY <3>1 DEF PastLastLook
    <3> QED BY <3>1, <3>2
  <2> QED BY <1>2, <2>1, <2>2, <2>3, <2>4, <2>5, <2>6, <2>7, <2>8, <2>9 DEF HandlerStep, LaunchStep
<1>3. ASSUME NEW e \in Engines, EngineDies(e) PROVE ReadyInv'
  BY <1>3 DEF EngineDies, PastLastLook
<1>4. ASSUME NEW e \in Engines, Reap(e) PROVE ReadyInv'
  <2>1. PastLastLook' <=> PastLastLook
    BY <1>4 DEF Reap, PastLastLook
  <2>2. CASE engineCmd # e
    BY <1>4, <2>1, <2>2 DEF Reap
  <2>3. CASE engineCmd = e
    BY <1>4, <2>1, <2>3 DEF Reap
  <2> QED BY <2>2, <2>3
<1>5. CASE CancelInference \/ UNCHANGED vars
  BY <1>5 DEF CancelInference, vars, PastLastLook
<1>6. CASE Close
  BY <1>6 DEF Close
<1> QED BY <1>1, <1>2, <1>3, <1>4, <1>5, <1>6 DEF Next, Exited

-----------------------------------------------------------------------------
\* The invariants hold before the first request.
LEMMA InitInv == Init => RunnerInv /\ ServedInv
<1> SUFFICES ASSUME Init PROVE RunnerInv /\ ServedInv
  OBVIOUS
<1> USE DEF Init
<1>1. Typed
  BY DEF Typed, TypeOK, WellFormed, Phases, LaunchPhases, StartedPhases
<1>2. Waiters = {} /\ Running = {}
  BY DEF Waiters, Running
<1>3. Gate
  BY <1>2, FS_EmptySet DEF Gate
<1>4. EngineInv /\ CancelInv /\ StatusInv /\ Reaped /\ ReadyInv
  BY <1>2 DEF Reaped, ReadyInv, ReadyMeansEngine, PastLastLook, EngineInv, OneEngine, Known, EnginePhases, LoadedPhases, Suits, CancelInv,
       CancelHitsActive, StatusInv, StatusNotStuck, ErrorMeansNoEngine, LaunchPhases
<1>5. ServedInv
  BY <1>2 DEF ServedInv, MembersIsolated, StartedPhases
<1> QED BY <1>1, <1>3, <1>4, <1>5 DEF RunnerInv

\* RunnerInv is an invariant of the runner.
THEOREM Invariance == Spec => []RunnerInv
<1>1. Init => RunnerInv
  BY InitInv
<1>2. RunnerInv /\ [Next]_vars => RunnerInv'
  <2> SUFFICES ASSUME RunnerInv, [Next]_vars PROVE RunnerInv'
    OBVIOUS
  <2>1. Gate'
    BY NextGate DEF RunnerInv
  <2>2. Typed'
    BY <2>1, NextType DEF RunnerInv, EngineInv
  <2> QED BY <2>1, <2>2, NextEngine, NextReaped, NextCancel, NextStatus, NextReady DEF RunnerInv
<1> QED BY <1>1, <1>2, PTL DEF Spec

\* Every field of the Controller and every handler keeps its type; the counter
\* of waiting requests never goes below zero.
THEOREM TypeCorrect == Spec => []TypeOK
<1>1. RunnerInv => TypeOK
  BY DEF RunnerInv, Typed
<1> QED BY <1>1, Invariance, PTL

\* modelMu is held by exactly the handler past acquireModel, and
\* pendingRequests is the number of inference requests that wait for it: no
\* return path of a handler leaks the semaphore or the count.
THEOREM LockExact == Spec => []ModelMuExact
<1>1. RunnerInv => ModelMuExact
  BY DEF RunnerInv, Gate, ModelMuExact, Waiters
<1> QED BY <1>1, Invariance, PTL

\* At most one engine process has not been told to stop, the controller can
\* stop it, and every process has a reaper, however long a killed one takes to
\* die beside its successor and whenever the reapers run.
THEOREM EngineAlwaysOwned == Spec => []EngineOwned
<1>1. RunnerInv => EngineOwned
  BY DEF RunnerInv, EngineInv, EngineOwned, Known, NoLostEngine, Reaped, EveryProcessReaped
<1> QED BY <1>1, Invariance, PTL

\* The status the health endpoint reports is never stuck, reports an error only
\* when no engine runs and ready or busy only with an engine registered or lost
\* unseen in the visit that wrote it, and names what the engine was started with.
THEOREM StatusAlwaysTruthful == Spec => []StatusTruthful
<1>1. RunnerInv => StatusTruthful
  BY DEF RunnerInv, EngineInv, LoadedPhases, Suits, StatusInv, ReadyInv, StatusTruthful,
         LoadedMatchesEngine
<1> QED BY <1>1, Invariance, PTL

-----------------------------------------------------------------------------
(* Isolation of members. *)

\* Only a process that runs when a request is claimed serves a member.
LEMMA ServedSame ==
  ASSUME Typed, Gate, ServedInv, NEW h \in Handlers, NEW l \in Phases, Goto(h, l),
         pc[h] \notin {"idle", "waiting"}, l # "waiting",
         l # "idle" => req' = req,
         \A g \in Handlers \ {h} : req'[g] = req[g],
         UNCHANGED <<served, lastRequester>>, Running' \subseteq Running,
         l \in StartedPhases => pc[h] \in StartedPhases,
         l = "claim" => lastRequester \in {Anonymous, req[h].member}
  PROVE  ServedInv'
<1>1. /\ \A g \in Handlers \ {h} : pc[g] \in {"idle", "waiting"} /\ pc'[g] = pc[g]
      /\ pc'[h] = l
  BY Alone DEF Goto, Typed, TypeOK
<1> QED BY <1>1 DEF ServedInv, MembersIsolated, Infers, StartedPhases

\* An engine is handed to a member only if it served no other.
LEMMA NextServed ==
  ASSUME Named, RunnerInv, ServedInv, [Next]_vars
  PROVE  ServedInv'
<1> USE DEF At, controller, handlers, launch, processes, RunnerInv
<1>k. Known
  BY DEF EngineInv
<1>1. ASSUME NEW h \in Handlers,
             \/ \E b \in Bodies : Arrive(h, b)
             \/ acquireModel(h) \/ Entered(h) \/ GiveUp(h)
      PROVE  ServedInv'
  <2>1. /\ UNCHANGED <<served, lastRequester, proc>>
        /\ \A g \in Handlers \ {h} : pc'[g] = pc[g] /\ req'[g] = req[g]
        /\ pc'[h] \in {"idle", "waiting", "acquired", "entered"}
        /\ \/ pc'[h] = "idle"
           \/ req'[h] \in Bodies
           \/ pc[h] # "idle" /\ req'[h] = req[h]
    BY <1>1 DEF Arrive, acquireModel, Entered, GiveUp, Leave, Goto, Typed, TypeOK
  <2>2. Running' = Running
    BY <2>1 DEF Running
  <2>3. (\A g \in Handlers : pc[g] # "idle" /\ Infers(g) => req[g].member \in Members)'
    BY <2>1 DEF ServedInv, Named, Infers
  <2> QED BY <2>1, <2>2, <2>3 DEF ServedInv, MembersIsolated, StartedPhases
<1>2. ASSUME NEW h \in Handlers, HandlerStep(h)
      PROVE  ServedInv'
  <2> USE DEF Return, Leave
  <2>0. pc[h] \notin {"idle", "waiting"} => \A g \in Handlers \ {h} : pc[g] \in {"idle", "waiting"}
    BY Alone
  <2>e. \A g \in Handlers \ {h} : [req EXCEPT ![h] = NoBody][g] = req[g]
    BY DEF Typed, TypeOK
  <2>1. CASE \/ LoadRejected(h) \/ LoadModel(h) \/ RestartEngine(h)
             \/ InferRefused(h) \/ InferRestarts(h)
    <3>1. PICK l \in {"idle", "launch"} :
            /\ Goto(h, l) /\ pc[h] = "entered"
            /\ l # "idle" => req' = req
            /\ \A g \in Handlers \ {h} : req'[g] = req[g]
            /\ UNCHANGED <<served, lastRequester, proc>>
      BY <2>1, <2>e DEF LoadRejected, LoadModel, RestartEngine, InferRefused, InferRestarts,
           EnterLaunch, ReturnUnchanged
    <3> QED BY <3>1, ServedSame DEF Phases, LaunchPhases, StartedPhases, Running
  <2>2. CASE InferDirectly(h)
    <3>1. /\ Goto(h, "claim") /\ pc[h] = "entered" /\ UNCHANGED <<req, served, lastRequester, proc>>
          /\ Infers(h) /\ ~NeedsRestart(h)
      BY <2>2 DEF InferDirectly
    <3>2. req[h].member \in Members
      BY <3>1 DEF ServedInv
    <3>3. lastRequester \in {Anonymous, req[h].member}
      BY <3>1, <3>2 DEF NeedsRestart
    <3> QED BY <3>1, <3>3, ServedSame DEF Phases, LaunchPhases, StartedPhases, Running
  <2>3. CASE UnloadModel(h)
    <3>1. Running' = {}
      BY <2>3, <2>0, <1>k, Stopped DEF UnloadModel
    <3>2. /\ pc'[h] = "idle" /\ served' = served
          /\ \A g \in Handlers \ {h} : pc'[g] = pc[g] /\ req'[g] = req[g]
      BY <2>3, <2>e DEF UnloadModel, Goto, Typed, TypeOK
    <3>3. pc[h] = "entered"
      BY <2>3 DEF UnloadModel
    <3> QED BY <2>0, <3>1, <3>2, <3>3 DEF ServedInv, MembersIsolated, Infers, StartedPhases
  <2>4. CASE Claim(h)
    <3>1. /\ pc[h] = "claim" /\ Goto(h, "busy") /\ req' = req
          /\ lastRequester' = req[h].member /\ Running' = Running
          /\ \A e \in Engines : served'[e] =
               IF e \in Running THEN served[e] \cup {req[h].member} ELSE served[e]
      BY <2>4 DEF Claim, Running
    <3>2. req[h].member \in Members /\ lastRequester \in {Anonymous, req[h].member}
      BY <3>1 DEF ServedInv, Typed, WellFormed
    <3>3. pc'[h] = "busy" /\ \A g \in Handlers \ {h} : pc'[g] = pc[g] /\ pc[g] \in {"idle", "waiting"}
      BY <2>0, <3>1 DEF Goto, Typed, TypeOK
    <3>4. \A e \in Running : served'[e] \subseteq {lastRequester'} \cap Members
      BY <3>1, <3>2 DEF ServedInv, Running
    <3>5. MembersIsolated'
      <4> SUFFICES ASSUME NEW e \in Engines, NEW m \in served'[e] \ {Anonymous},
                          NEW n \in served'[e] \ {Anonymous}
                   PROVE  m = n
        BY DEF MembersIsolated
      <4>1. CASE e \in Running
        BY <3>4, <4>1
      <4>2. CASE e \notin Running
        BY <3>1, <4>2 DEF ServedInv, MembersIsolated
      <4> QED BY <4>1, <4>2
    <3> QED BY <3>1, <3>3, <3>4, <3>5 DEF ServedInv, Infers, StartedPhases
  <2>5. CASE InferEnd(h) \/ HealthOK(h) \/ Register(h)
    <3>1. PICK l \in {"idle", "healthy", "polling"} :
            /\ Goto(h, l) /\ pc[h] \in {"busy"} \cup StartedPhases
            /\ l # "idle" => req' = req
            /\ l # "idle" => pc[h] \in StartedPhases
            /\ \A g \in Handlers \ {h} : req'[g] = req[g]
            /\ UNCHANGED <<served, lastRequester, proc>>
      BY <2>5, <2>e DEF InferEnd, HealthOK, Register, StartedPhases
    <3> QED BY <3>1, ServedSame DEF Phases, LaunchPhases, StartedPhases, Running
  <2>6. CASE LaunchReady(h)
    <3>1. PICK l \in {"idle", "claim"} :
            /\ Goto(h, l) /\ pc[h] = "healthy"
            /\ l # "idle" => req' = req
            /\ \A g \in Handlers \ {h} : req'[g] = req[g]
            /\ lastRequester' = Anonymous /\ UNCHANGED <<served, proc>>
      BY <2>6, <2>e DEF LaunchReady
    <3>2. \A e \in Running : served[e] = {}
      BY <3>1 DEF ServedInv, StartedPhases
    <3>3. pc'[h] = l /\ \A g \in Handlers \ {h} : pc'[g] = pc[g] /\ pc[g] \in {"idle", "waiting"}
      BY <2>0, <3>1 DEF Goto, Typed, TypeOK
    <3>4. Running' = Running
      BY <3>1 DEF Running
    <3> QED BY <3>1, <3>2, <3>3, <3>4 DEF ServedInv, MembersIsolated, Infers, StartedPhases
  <2>7. CASE LaunchBegin(h) \/ StartFails(h) \/ HealthError(h)
    <3>1. Running' \subseteq Running
      BY <2>7, <1>k, Stopped DEF LaunchBegin, StartFails, HealthError, Running
    <3>2. PICK l \in {"idle", "launch", "starting"} :
            /\ Goto(h, l) /\ pc[h] \in LaunchPhases
            /\ l # "idle" => req' = req
            /\ \A g \in Handlers \ {h} : req'[g] = req[g]
            /\ UNCHANGED <<served, lastRequester>>
      BY <2>7, <2>e DEF LaunchBegin, StartFails, HealthError, AfterFailure, LaunchPhases
    <3> QED BY <3>1, <3>2, ServedSame DEF Phases, LaunchPhases, StartedPhases
  <2>8. CASE StartOK(h)
    <3>1. PICK e \in Engines :
            /\ proc' = [proc EXCEPT ![e] = "running"]
            /\ served' = [served EXCEPT ![e] = {}]
      BY <2>8 DEF StartOK
    <3>2. /\ pc[h] = "starting" /\ Goto(h, "registering") /\ UNCHANGED <<req, lastRequester>>
      BY <2>8 DEF StartOK
    <3>3. Running = {}
      BY <3>2 DEF EngineInv, EnginePhases
    <3>4. Running' = {e} /\ served'[e] = {} /\ \A f \in Engines \ {e} : served'[f] = served[f]
      BY <3>1, <3>3 DEF Running, Typed, TypeOK
    <3>5. pc'[h] = "registering" /\ \A g \in Handlers \ {h} : pc'[g] = pc[g] /\ pc[g] \in {"idle", "waiting"}
      BY <2>0, <3>2 DEF Goto, Typed, TypeOK
    <3> QED BY <3>2, <3>4, <3>5 DEF ServedInv, MembersIsolated, Infers, StartedPhases
  <2> QED BY <1>2, <2>1, <2>2, <2>3, <2>4, <2>5, <2>6, <2>7, <2>8 DEF HandlerStep, LaunchStep
<1>3. ASSUME NEW e \in Engines, EngineDies(e) \/ Reap(e) PROVE ServedInv'
  <2>1. /\ Running' = Running \ {e}
        /\ \A f \in Engines \ {e} : served'[f] = served[f]
        /\ served'[e] \in {{}, served[e]}
        /\ UNCHANGED <<pc, req, lastRequester>>
    BY <1>3 DEF EngineDies, Reap, Collect, Running, Typed, TypeOK
  <2>2. \A f \in Running' : f \in Running /\ f \in Engines /\ f # e
    BY <2>1 DEF Running
  <2>3. MembersIsolated'
    BY <2>1 DEF ServedInv, MembersIsolated
  <2> QED BY <2>1, <2>2, <2>3 DEF ServedInv, Infers
<1>4. CASE CancelInference \/ UNCHANGED vars
  BY <1>4 DEF CancelInference, vars, ServedInv, MembersIsolated, Running, Infers
<1>5. CASE Close
  <2>1. Running' \subseteq Running /\ UNCHANGED <<pc, req, served, lastRequester>>
    BY <1>5, <1>k, Stopped DEF Close
  <2> QED BY <2>1 DEF ServedInv, MembersIsolated, Infers
<1> QED BY <1>1, <1>2, <1>3, <1>4, <1>5 DEF Next, Exited

\* If every inference request names its member, a request is served by an engine
\* that runs its model and has served no other member, and a cancel request ends
\* only the request being served.  A request without a member makes handleInference
\* forget whom the engine served, so the hypothesis is needed.
THEOREM RequestsAlwaysIsolated ==
  ASSUME Named
  PROVE  Spec => []RequestsIsolated
<1>1. Init => ServedInv
  BY InitInv
<1>2. RunnerInv /\ ServedInv /\ [Next]_vars => ServedInv'
  BY NextServed
<1>3. RunnerInv /\ ServedInv => RequestsIsolated
  BY DEF RunnerInv, EngineInv, LoadedPhases, Suits, CancelInv, ServedInv, RequestsIsolated,
         ServesRequestedModel
<1> QED BY <1>1, <1>2, <1>3, Invariance, PTL DEF Spec

=============================================================================
