----------------------------- MODULE MCProgress -----------------------------
(* What must happen in the end, one component at a time.  scenario says    *)
(* which one runs, the variables of the others are None; the fairness is   *)
(* that of the component's module.                                         *)
EXTENDS Naturals, Sequences, TLC
CONSTANTS
  None,
  Shared, o1, o2  \* sources of frames

VARIABLES
  scenario,  \* the component that runs
  \* Agent
  current, agentTask, cancelled, cleanup, launch, agentLock, handler, hook,
  quit, suppressed, tracker, agentMonitor, restart, container, agentMade,
  agentValue, agentBudget,
  \* HeadNodeClient
  cluster, subscriber, headProcess, queue, client, head, connected,
  headBudget,
  \* KeyValueLoop
  loopValue, store, wire, linked, loopRunning, loopEvent, bucket, loopPc,
  loopBudget,
  \* Operator
  life, kernelEvent, kernelPc, kernelLock, kernels, errorState, errorCount,
  status, kernelErrors, opened,
  \* Parameters
  parameterUpdates, parameterProcess, next, first, held, acks, shown, missed,
  parameterBudget,
  \* Messenger
  starts, published, stage, addressMap, connections, connectedTo, watched,
  messengerUpdates, state, msg,
  \* Dataflow
  flowMade, channel, flowTaken, recvQueue, kernel, outbox, handed,
  \* FrameEmitter
  emitterSocket, emitterInbox, parameters, emitterCache, active, sent,
  emitterRunning, sources, changes, emitterTaken,
  \* PipelineRevisions
  pipelines, revisions, used, revisionLock, requests, reader,
  \* Launcher
  request, consumer, launcherTask, job, launcherMonitor, launcherErrors,
  apiErrors, slow, losses,
  \* CameraFrames
  port, cameraSocket, cameraInbox, cameraCache, assembled, lost

agentVars ==
  <<current, agentTask, cancelled, cleanup, launch, agentLock, handler, hook,
    quit, suppressed, tracker, agentMonitor, restart, container, agentMade,
    agentValue, agentBudget>>
headVars ==
  <<cluster, subscriber, headProcess, queue, client, head, connected,
    headBudget>>
loopVars ==
  <<loopValue, store, wire, linked, loopRunning, loopEvent, bucket, loopPc,
    loopBudget>>
kernelVars ==
  <<life, kernelEvent, kernelPc, kernelLock, kernels, errorState, errorCount,
    status, kernelErrors, opened>>
parameterVars ==
  <<parameterUpdates, parameterProcess, next, first, held, acks, shown,
    missed, parameterBudget>>
messengerVars ==
  <<starts, published, stage, addressMap, connections, connectedTo, watched,
    messengerUpdates, state, msg>>
flowVars == <<flowMade, channel, flowTaken, recvQueue, kernel, outbox, handed>>
emitterVars ==
  <<emitterSocket, emitterInbox, parameters, emitterCache, active, sent,
    emitterRunning, sources, changes, emitterTaken>>
revisionVars == <<pipelines, revisions, used, revisionLock, requests, reader>>
launcherVars ==
  <<request, consumer, launcherTask, job, launcherMonitor, launcherErrors,
    apiErrors, slow, losses>>
cameraVars == <<port, cameraSocket, cameraInbox, cameraCache, assembled, lost>>
vars ==
  <<scenario, agentVars, headVars, loopVars, kernelVars, parameterVars,
    messengerVars, flowVars, emitterVars, revisionVars, launcherVars,
    cameraVars>>

-----------------------------------------------------------------------------
Ends == INSTANCE Agent WITH
  Deployments <- {"d1", "d2"}, Slots <- {1}, MAX_RESTARTS <- 1,
  MaxExits <- 1, MaxRemounts <- 0, MaxOperatorRestarts <- 0, MaxStops <- 1,
  MaxErrors <- 1, task <- agentTask, lock <- agentLock,
  monitor <- agentMonitor, made <- agentMade, value <- agentValue,
  budget <- agentBudget

Switch == INSTANCE HeadNodeClient WITH
  Nodes <- {"n1", "n2"}, Addresses <- {"p1", "p2"}, Unusable <- {"p2"},
  Limit <- 2, MaxChanges <- 0, MaxSwitches <- 2, MaxBindErrors <- 1,
  process <- headProcess, budget <- headBudget

Following == INSTANCE HeadNodeClient WITH
  Nodes <- {"n1", "n2"}, Addresses <- {"p1"}, Unusable <- {}, Limit <- 2,
  MaxChanges <- 1, MaxSwitches <- 0, MaxBindErrors <- 0,
  process <- headProcess, budget <- headBudget

Keys == INSTANCE KeyValueLoop WITH
  Callers <- {"c1"}, Impatient <- {"c1"}, MaxValue <- 2, MaxOutages <- 2,
  MaxRefreshes <- 1, MaxLostReplies <- 1, MaxUpdates <- 1, ATTEMPTS <- 2,
  MayStop <- FALSE, MayEnd <- TRUE, value <- loopValue,
  running <- loopRunning, event <- loopEvent, pc <- loopPc,
  budget <- loopBudget

Async == INSTANCE Operator WITH
  Triggers <- {"t1", "t2"}, Drains <- {"t2"}, Unknown <- {},
  HasInputs <- BOOLEAN, IsAsync <- TRUE, MaxRetries <- 2, MayFail <- TRUE,
  event <- kernelEvent, pc <- kernelPc, lock <- kernelLock,
  errors <- kernelErrors

Params == INSTANCE Parameters WITH
  Replicas <- {"i1", "i2"}, MaxUpdates <- 2, Invalid <- {}, MaxDeaths <- 1,
  MaxBreaks <- 1, MaxRepeats <- 1, updates <- parameterUpdates,
  process <- parameterProcess, budget <- parameterBudget

Moving == INSTANCE Messenger WITH
  Upstreams <- {1, 2}, MaxStarts <- 3, MayMoveEarly <- FALSE,
  MayTimeOut <- FALSE, updates <- messengerUpdates

(* A source feeds two branches that meet in an operator with two inputs.   *)
DiamondOwner ==
  "so1" :> "s" @@ "so2" :> "s" @@ "ai" :> "a" @@ "ao" :> "a" @@ "bi" :> "b" @@ "bo" :> "b"
    @@ "j1" :> "j" @@ "j2" :> "j"

Diamond == INSTANCE Dataflow WITH
  Operators <- {"s", "a", "b", "j"}, InPorts <- {"ai", "bi", "j1", "j2"},
  OutPorts <- {"so1", "so2", "ao", "bo"}, Owner <- DiamondOwner,
  Edges <- {<<"so1", "ai">>, <<"so2", "bi">>, <<"ao", "j1">>, <<"bo", "j2">>},
  HighWaterMark <- 2, Messages <- 4, made <- flowMade, taken <- flowTaken

(* One output port of the source feeds two replicas, as the expansion of a *)
(* parallel operator connects them, and both feed one input port.          *)
ReplicaOwner ==
  "so1" :> "s" @@ "ai" :> "a" @@ "ao" :> "a" @@ "bi" :> "b" @@ "bo" :> "b" @@ "j1" :> "j"

Replicas == INSTANCE Dataflow WITH
  Operators <- {"s", "a", "b", "j"}, InPorts <- {"ai", "bi", "j1"},
  OutPorts <- {"so1", "ao", "bo"}, Owner <- ReplicaOwner,
  Edges <- {<<"so1", "ai">>, <<"so1", "bi">>, <<"ao", "j1">>, <<"bo", "j1">>},
  HighWaterMark <- 1, Messages <- 4, made <- flowMade, taken <- flowTaken

FewRaw == {[kind |-> "live"], [kind |-> "junk"]} \cup [kind : {"dataset"}, sizes : {<<2>>, <<2, 2>>}]

Emitter == INSTANCE FrameEmitter WITH
  Overrides <- {o1, o2}, Raw <- FewRaw, Limit <- 3, MaxMessages <- 2,
  MaxChanges <- 2, socket <- emitterSocket, inbox <- emitterInbox,
  cache <- emitterCache, running <- emitterRunning, taken <- emitterTaken

Table == INSTANCE PipelineRevisions WITH
  Pipelines <- {"p"}, Owner <- "owner", Guest <- "guest", Admin <- "admin",
  Operators <- {"o"}, Places <- {"x"}, Requests <- {"r1", "r2", "r3"},
  Kinds <- {"add", "rename", "delete"}, PageSize <- 1, lock <- revisionLock

Jobs == INSTANCE Launcher WITH
  Requests <- {"a", "bad"}, Invalid <- {"bad"}, MaxTasks <- 4,
  MaxApiErrors <- 2, MaxSlow <- 1, MaxLosses <- 1, task <- launcherTask,
  monitor <- launcherMonitor, errors <- launcherErrors

ThreeFrames == {[scan |-> 1, number |-> 1], [scan |-> 1, number |-> 2], [scan |-> 2, number |-> 1]}

Camera == INSTANCE CameraFrames WITH
  Frames <- ThreeFrames, Modules <- {0, 1}, MaxLost <- 1, MaxInbox <- 1,
  socket <- cameraSocket, inbox <- cameraInbox, cache <- cameraCache

-----------------------------------------------------------------------------
ASSUME ConstantsAssumption ==
  /\ Ends!AgentAssumption /\ Switch!ClientAssumption /\ Following!ClientAssumption
  /\ Keys!LoopAssumption /\ Async!OperatorAssumption /\ Params!ParametersAssumption
  /\ Moving!MessengerAssumption /\ Diamond!DataflowAssumption /\ Replicas!DataflowAssumption
  /\ Emitter!EmitterAssumption /\ Table!RevisionsAssumption /\ Jobs!LauncherAssumption
  /\ Camera!CameraAssumption

Init ==
  /\ scenario \in {"agent", "switch", "following", "keys", "operator", "parameters",
                   "sockets", "diamond", "replicas", "emitter", "revisions", "jobs",
                   "camera"}
  /\ CASE scenario = "agent" -> Ends!Init
       [] OTHER ->
          /\ current = None /\ agentTask = None /\ cancelled = None
          /\ cleanup = None /\ launch = None /\ agentLock = None
          /\ handler = None /\ hook = None /\ quit = None
          /\ suppressed = None /\ tracker = None /\ agentMonitor = None
          /\ restart = None /\ container = None /\ agentMade = None
          /\ agentValue = None /\ agentBudget = None
  /\ CASE scenario = "switch" -> Switch!Init
       [] scenario = "following" -> Following!Init
       [] OTHER ->
          /\ cluster = None /\ subscriber = None /\ headProcess = None
          /\ queue = None /\ client = None /\ head = None
          /\ connected = None /\ headBudget = None
  /\ CASE scenario = "keys" -> Keys!Init
       [] OTHER ->
          /\ loopValue = None /\ store = None /\ wire = None
          /\ linked = None /\ loopRunning = None /\ loopEvent = None
          /\ bucket = None /\ loopPc = None /\ loopBudget = None
  /\ CASE scenario = "operator" -> Async!Init
       [] OTHER ->
          /\ life = None /\ kernelEvent = None /\ kernelPc = None
          /\ kernelLock = None /\ kernels = None /\ errorState = None
          /\ errorCount = None /\ status = None /\ kernelErrors = None
          /\ opened = None
  /\ CASE scenario = "parameters" -> Params!Init
       [] OTHER ->
          /\ parameterUpdates = None /\ parameterProcess = None
          /\ next = None /\ first = None /\ held = None /\ acks = None
          /\ shown = None /\ missed = None /\ parameterBudget = None
  /\ CASE scenario = "sockets" -> Moving!Init
       [] OTHER ->
          /\ starts = None /\ published = None /\ stage = None
          /\ addressMap = None /\ connections = None /\ connectedTo = None
          /\ watched = None /\ messengerUpdates = None /\ state = None
          /\ msg = None
  /\ CASE scenario = "diamond" -> Diamond!Init
       [] scenario = "replicas" -> Replicas!Init
       [] OTHER ->
          /\ flowMade = None /\ channel = None /\ flowTaken = None
          /\ recvQueue = None /\ kernel = None /\ outbox = None
          /\ handed = None
  /\ CASE scenario = "emitter" -> Emitter!Init
       [] OTHER ->
          /\ emitterSocket = None /\ emitterInbox = None
          /\ parameters = None /\ emitterCache = None /\ active = None
          /\ sent = None /\ emitterRunning = None /\ sources = None
          /\ changes = None /\ emitterTaken = None
  /\ CASE scenario = "revisions" -> Table!Init
       [] OTHER ->
          /\ pipelines = None /\ revisions = None /\ used = None
          /\ revisionLock = None /\ requests = None /\ reader = None
  /\ CASE scenario = "jobs" -> Jobs!Init
       [] OTHER ->
          /\ request = None /\ consumer = None /\ launcherTask = None
          /\ job = None /\ launcherMonitor = None /\ launcherErrors = None
          /\ apiErrors = None /\ slow = None /\ losses = None
  /\ CASE scenario = "camera" -> Camera!Init
       [] OTHER ->
          /\ port = None /\ cameraSocket = None /\ cameraInbox = None
          /\ cameraCache = None /\ assembled = None /\ lost = None

(* A step of one component: all the others rest.                           *)
Only(component) ==
  /\ UNCHANGED scenario
  /\ component # "agent" => UNCHANGED agentVars
  /\ component # "head" => UNCHANGED headVars
  /\ component # "loop" => UNCHANGED loopVars
  /\ component # "kernel" => UNCHANGED kernelVars
  /\ component # "parameter" => UNCHANGED parameterVars
  /\ component # "messenger" => UNCHANGED messengerVars
  /\ component # "flow" => UNCHANGED flowVars
  /\ component # "emitter" => UNCHANGED emitterVars
  /\ component # "revision" => UNCHANGED revisionVars
  /\ component # "launcher" => UNCHANGED launcherVars
  /\ component # "camera" => UNCHANGED cameraVars

Next ==
  \/ scenario = "agent" /\ Ends!Next /\ Only("agent")
  \/ scenario = "switch" /\ Switch!Next /\ Only("head")
  \/ scenario = "following" /\ Following!Next /\ Only("head")
  \/ scenario = "keys" /\ Keys!Next /\ Only("loop")
  \/ scenario = "operator" /\ Async!Next /\ Only("kernel")
  \/ scenario = "parameters" /\ Params!Next /\ Only("parameter")
  \/ scenario = "sockets" /\ Moving!Next /\ Only("messenger")
  \/ scenario = "diamond" /\ Diamond!Next /\ Only("flow")
  \/ scenario = "replicas" /\ Replicas!Next /\ Only("flow")
  \/ scenario = "emitter" /\ Emitter!Next /\ Only("emitter")
  \/ scenario = "revisions" /\ Table!Next /\ Only("revision")
  \/ scenario = "jobs" /\ Jobs!Next /\ Only("launcher")
  \/ scenario = "camera" /\ Camera!Next /\ Only("camera")

-----------------------------------------------------------------------------
(* Tasks of the event loop go on while they can, and podman answers.       *)
FairAgent ==
  /\ \A d \in {"d1", "d2"} :
       WF_agentVars(scenario = "agent" /\ Ends!DeploymentStep(d))
  /\ \A o \in Ends!Operators :
       WF_agentVars(scenario = "agent" /\ Ends!OperatorStep(o))
  /\ \A c \in Ends!Cleaners :
       WF_agentVars(scenario = "agent" /\ Ends!CleanupStep(c))
  /\ WF_agentVars(scenario = "agent" /\ Ends!HandlerStep)
  /\ WF_agentVars(scenario = "agent" /\ Ends!HookStep)
  /\ \A x \in {Ends!Handler, Ends!Monitor} :
       WF_agentVars(scenario = "agent" /\ Ends!RestartStep(x))

(* The publisher repeats its state, the background process and the operator*)
(* run, and a join has a timeout.                                          *)
FairClient ==
  /\ SF_headVars(\/ scenario = "switch" /\ Switch!PublishesState
                 \/ scenario = "following" /\ Following!PublishesState)
  /\ WF_headVars(\/ scenario = "switch" /\ Switch!Background
                 \/ scenario = "following" /\ Following!Background)
  /\ WF_headVars(\/ scenario = "switch" /\ Switch!GetsDataSocket
                 \/ scenario = "following" /\ Following!GetsDataSocket)
  /\ WF_headVars(\/ scenario = "switch" /\ Switch!Shutdown
                 \/ scenario = "following" /\ Following!Shutdown)

(* The server serves, tasks run, and no outage lasts for ever.             *)
FairKeys ==
  /\ WF_loopVars(scenario = "keys" /\ Keys!Reconnects)
  /\ WF_loopVars(scenario = "keys" /\ Keys!Serves)
  /\ WF_loopVars(scenario = "keys" /\ Keys!Interval)
  /\ WF_loopVars(scenario = "keys" /\ Keys!LoopEnds)
  /\ \A t \in Keys!Tasks :
       WF_loopVars(scenario = "keys" /\ Keys!Handle(t))

(* The process runs and every kernel returns; an input may never come.     *)
FairOperator ==
  /\ WF_kernelVars(scenario = "operator" /\ Async!Starting)
  /\ WF_kernelVars(scenario = "operator" /\ Async!Shutdown)
  /\ WF_kernelVars(/\ scenario = "operator"
                   /\ \/ Async!Checks
                      \/ Async!KernelFails
                      \/ Async!KernelGives
                      \/ Async!KernelGivesNothing
                      \/ Async!Sent)
  /\ \A t \in Async!Tasks :
       /\ WF_kernelVars(scenario = "operator" /\ Async!BeginsKernel(t))
       /\ WF_kernelVars(scenario = "operator" /\ Async!AbandonedReturns(t))
  /\ \A t \in {"t1", "t2"} :
       WF_kernelVars(scenario = "operator" /\ Async!Trigger(t))

(* Processes run and are restarted, and the server delivers; users need not*)
(* update anything.                                                        *)
FairParameters ==
  /\ \A r \in {"i1", "i2"} :
       /\ WF_parameterVars(scenario = "parameters" /\ Params!Works(r))
       /\ WF_parameterVars(scenario = "parameters" /\ Params!PublishAck(r))

(* Messengers run; nobody need be restarted.                               *)
FairSockets ==
  /\ \A u \in {1, 2} :
       /\ WF_messengerVars(scenario = "sockets" /\ Moving!SetupOutputs(u))
       /\ WF_messengerVars(scenario = "sockets" /\ Moving!SetupInput(u))
       /\ WF_messengerVars(scenario = "sockets" /\ Moving!Watch(u))
       /\ WF_messengerVars(scenario = "sockets" /\ Moving!HandleUpdate(u))

(* Every operator works while it can.                                      *)
FairDataflow ==
  \A o \in {"s", "a", "b", "j"} :
    WF_flowVars(\/ scenario = "diamond" /\ Diamond!Works(o)
                \/ scenario = "replicas" /\ Replicas!Works(o))

(* The operator's kernel is called again and again.                        *)
FairEmitter ==
  /\ WF_emitterVars(scenario = "emitter" /\ Emitter!Kernel)

(* A thread that serves a request goes on with it.                         *)
FairRevisions ==
  /\ \A r \in {"r1", "r2", "r3"} :
       WF_revisionVars(scenario = "revisions" /\ Table!Serves(r))

(* Messages are delivered, tasks go on, and jobs do not last for ever.     *)
FairJobs ==
  /\ \A r \in {"a", "bad"} :
       /\ WF_launcherVars(scenario = "jobs" /\ Jobs!Delivers(r))
       /\ WF_launcherVars(scenario = "jobs" /\ Jobs!Redelivers(r))
  /\ \A t \in Jobs!Tasks :
       /\ WF_launcherVars(scenario = "jobs" /\ Jobs!Works(t))
       /\ WF_launcherVars(scenario = "jobs" /\ Jobs!JobChanges(t))
       /\ WF_launcherVars(scenario = "jobs" /\ Jobs!Monitors(t))

(* Parts are read and assembled; none is held for ever.                    *)
FairCamera ==
  /\ WF_cameraVars(scenario = "camera" /\ Camera!Next)

FairSpec ==
  /\ Init /\ [][Next]_vars
  /\ FairAgent /\ FairClient /\ FairKeys /\ FairOperator /\ FairParameters
  /\ FairSockets /\ FairDataflow /\ FairEmitter /\ FairRevisions /\ FairJobs
  /\ FairCamera

-----------------------------------------------------------------------------
(* A signal or a command ends what it should: every command that waits for *)
(* a task of the agent gets its turn; a shutdown ends the agent, a signal  *)
(* the operator's process, whatever their tasks wait for; and a request    *)
(* that waits for the kernel gets it, or the process ends.                 *)
NobodyWaitsForEver ==
  \A t \in {"t1", "t2"} :
    []<>(/\ scenario = "agent" => Ends!HandlerFree /\ Ends!LeftIfAsked
         /\ scenario = "operator" => Async!EndedIfSignalled /\ kernelPc[t] # "waiting")

(* Who follows a published value catches up with it: the head node and the *)
(* data socket become those of the publisher that is followed, although    *)
(* messages are dropped at full queues, nothing of an earlier publisher is *)
(* delivered late, and a change of the publisher ends; while the loop runs *)
(* the bucket comes to hold the value; every replica that kept its consumer*)
(* comes to hold the last update, and what is shown is what one holds;     *)
(* inputs follow the ports upstream that move.                             *)
FollowersCatchUp ==
  /\ [][scenario = "switch" => Switch!TakesPublished]_vars
  /\ []<>(scenario = "switch" => Switch!Settled)
  /\ <>[](/\ scenario = "following" => Following!UpToDate
          /\ scenario = "keys" => Keys!Fresh
          /\ scenario = "parameters" => Params!AllHoldLast /\ Params!SomeHoldsShown
          /\ scenario = "sockets" => Moving!AllConnected)

(* Data arrive: fan-out, bounded sockets, joins and replicas neither block *)
(* one another for ever nor lose anything; a dataset that was taken is sent*)
(* to its last position unless the operator ends, and messages in the      *)
(* selected socket do not wait for ever; each frame is sent on unless a    *)
(* part of it is lost.                                                     *)
AllArrive ==
  /\ []<>(/\ scenario = "diamond" => Diamond!Arrived
          /\ scenario = "replicas" => Replicas!Arrived
          /\ scenario = "emitter" => Emitter!TakenAreSent
          /\ scenario = "camera" => \A f \in ThreeFrames : Camera!Ended(f))
  /\ <>[](scenario = "emitter" => Emitter!SelectedIsEmpty)

(* Requests are answered: each that changes revisions, although some wait  *)
(* for the row; a job's is not delivered for ever, and the end of each job *)
(* is published, also of one that never ran, unless the launcher was       *)
(* restarted meanwhile.                                                    *)
RequestsEnd ==
  \A r \in {"a", "bad"} :
    []<>(/\ scenario = "revisions" => \A q \in {"r1", "r2", "r3"} : Table!Answered(q)
         /\ scenario = "jobs" => request[r] # "delivered" /\ Jobs!Concluded)
=============================================================================
