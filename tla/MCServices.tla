----------------------------- MODULE MCServices -----------------------------
(* The services of the control plane, one at a time: the agent, the loop   *)
(* that keeps its keys, the operator with its parameters and messenger, the*)
(* launcher, and the tables and the catalogue of the app.  They share no   *)
(* variable: scenario says which one runs, those of the others are None, so*)
(* a property of a component is checked on all that it does.               *)
EXTENDS Naturals, FiniteSets, TLC
CONSTANTS
  None, Unset,
  a, b, c,       \* deployments, pipelines, users or images
  r1, r2, r3     \* requests of the app

VARIABLES
  scenario,  \* the component that runs
  \* Agent
  current, agentTask, cancelled, cleanup, launch, agentLock, handler, hook,
  quit, suppressed, tracker, agentMonitor, restart, container, made,
  agentValue, agentBudget,
  \* KeyValueLoop
  loopValue, store, wire, linked, running, loopEvent, bucket, loopPc,
  loopBudget,
  \* Operator
  life, kernelEvent, kernelPc, kernelLock, kernels, errorState, errorCount,
  status, kernelErrors, opened,
  \* Parameters
  parameterUpdates, process, next, first, held, acks, parameterShown, missed,
  parameterBudget,
  \* Messenger
  messengerStarts, published, stage, addressMap, connections, connectedTo,
  watched, messengerUpdates, state, msg,
  \* Launcher
  request, consumer, launcherTask, job, launcherMonitor, launcherErrors,
  apiErrors, slow, losses,
  \* PipelineRevisions
  revisionPipelines, revisions, revisionUsed, revisionLock, revisionRequests,
  reader,
  \* Accounts
  users, accountPipelines, accountUsed, accountRequests, accountStarts,
  \* OperatorCatalogue
  registry, local, cache, catalogueRequests, catalogueShown, catalogueErrors

Pair == {a, b}
Requests == {r1, r2, r3}

(* The agent's deployments, the pipelines or users to be made and the      *)
(* images may be permuted, and so may the requests.                        *)
Symmetry == Permutations(Pair) \cup Permutations(Requests)

agentVars ==
  <<current, agentTask, cancelled, cleanup, launch, agentLock, handler, hook,
    quit, suppressed, tracker, agentMonitor, restart, container, made,
    agentValue, agentBudget>>
loopVars ==
  <<loopValue, store, wire, linked, running, loopEvent, bucket, loopPc,
    loopBudget>>
kernelVars ==
  <<life, kernelEvent, kernelPc, kernelLock, kernels, errorState, errorCount,
    status, kernelErrors, opened>>
parameterVars ==
  <<parameterUpdates, process, next, first, held, acks, parameterShown,
    missed, parameterBudget>>
messengerVars ==
  <<messengerStarts, published, stage, addressMap, connections, connectedTo,
    watched, messengerUpdates, state, msg>>
launcherVars ==
  <<request, consumer, launcherTask, job, launcherMonitor, launcherErrors,
    apiErrors, slow, losses>>
revisionVars ==
  <<revisionPipelines, revisions, revisionUsed, revisionLock,
    revisionRequests, reader>>
accountVars ==
  <<users, accountPipelines, accountUsed, accountRequests, accountStarts>>
catalogueVars ==
  <<registry, local, cache, catalogueRequests, catalogueShown,
    catalogueErrors>>
vars ==
  <<scenario, agentVars, loopVars, kernelVars, parameterVars, messengerVars,
    launcherVars, revisionVars, accountVars, catalogueVars>>

-----------------------------------------------------------------------------
Tasks == INSTANCE Agent_proofs WITH
  Deployments <- Pair, Slots <- {1, 2}, MAX_RESTARTS <- 1, MaxExits <- 1,
  MaxRemounts <- 0, MaxOperatorRestarts <- 0, MaxStops <- 0, MaxErrors <- 0,
  task <- agentTask, lock <- agentLock, monitor <- agentMonitor,
  value <- agentValue, budget <- agentBudget

Cleaning == INSTANCE Agent_proofs WITH
  Deployments <- Pair, Slots <- {1, 2}, MAX_RESTARTS <- 1, MaxExits <- 0,
  MaxRemounts <- 0, MaxOperatorRestarts <- 0, MaxStops <- 1, MaxErrors <- 2,
  task <- agentTask, lock <- agentLock, monitor <- agentMonitor,
  value <- agentValue, budget <- agentBudget

Restarts == INSTANCE Agent_proofs WITH
  Deployments <- {"d"}, Slots <- {1}, MAX_RESTARTS <- 1, MaxExits <- 2,
  MaxRemounts <- 1, MaxOperatorRestarts <- 1, MaxStops <- 0, MaxErrors <- 0,
  task <- agentTask, lock <- agentLock, monitor <- agentMonitor,
  value <- agentValue, budget <- agentBudget

Loop == INSTANCE KeyValueLoop WITH
  Callers <- {"caller"}, Impatient <- {"loop", "caller"}, MaxValue <- 2,
  MaxOutages <- 2, MaxRefreshes <- 1, MaxLostReplies <- 1, MaxUpdates <- 1,
  ATTEMPTS <- 2, MayStop <- TRUE, MayEnd <- FALSE, value <- loopValue,
  event <- loopEvent, pc <- loopPc, budget <- loopBudget

Kernels == INSTANCE Operator WITH
  Triggers <- {"t1", "t2", "t3"}, Drains <- {"t2"}, Unknown <- {"t3"},
  HasInputs <- BOOLEAN, IsAsync <- FALSE, MaxRetries <- 3, MayFail <- TRUE,
  event <- kernelEvent, pc <- kernelPc, lock <- kernelLock,
  errors <- kernelErrors

Async == INSTANCE Operator WITH
  Triggers <- {"t1", "t2"}, Drains <- {"t2"}, Unknown <- {},
  HasInputs <- BOOLEAN, IsAsync <- TRUE, MaxRetries <- 2, MayFail <- TRUE,
  event <- kernelEvent, pc <- kernelPc, lock <- kernelLock,
  errors <- kernelErrors

Params == INSTANCE Parameters WITH
  Replicas <- {"i1", "i2"}, MaxUpdates <- 3, Invalid <- {2}, MaxDeaths <- 0,
  MaxBreaks <- 1, MaxRepeats <- 1, updates <- parameterUpdates,
  shown <- parameterShown, budget <- parameterBudget

Sockets == INSTANCE Messenger WITH
  Upstreams <- {1, 2}, MaxStarts <- 3, MayMoveEarly <- TRUE,
  MayTimeOut <- TRUE, starts <- messengerStarts, updates <- messengerUpdates

Jobs == INSTANCE Launcher WITH
  Requests <- {"a", "bad"}, Invalid <- {"bad"}, MaxTasks <- 4,
  MaxApiErrors <- 2, MaxSlow <- 2, MaxLosses <- 1, task <- launcherTask,
  monitor <- launcherMonitor, errors <- launcherErrors

Numbers == INSTANCE Revisions_proofs WITH
  Pipelines <- Pair \cup {c}, Owner <- "owner", Guest <- "guest",
  Admin <- "admin", Operators <- {"o"}, Places <- {"x"},
  Kinds <- {"create", "add", "rename", "delete", "duplicate"}, PageSize <- 1,
  pipelines <- revisionPipelines, used <- revisionUsed, lock <- revisionLock,
  requests <- revisionRequests

Agree == INSTANCE Revisions_proofs WITH
  Pipelines <- Pair, Owner <- "owner", Guest <- "guest", Admin <- "admin",
  Operators <- {"o", "p"}, Places <- {"x"},
  Kinds <- {"add", "rename", "duplicate"}, PageSize <- 1,
  pipelines <- revisionPipelines, used <- revisionUsed, lock <- revisionLock,
  requests <- revisionRequests

Pages == INSTANCE Revisions_proofs WITH
  Pipelines <- {"p"}, Owner <- "owner", Guest <- "guest", Admin <- "admin",
  Operators <- {"o"}, Places <- {"x"},
  Kinds <- {"add", "delete", "tag", "move", "read"}, PageSize <- 1,
  pipelines <- revisionPipelines, used <- revisionUsed, lock <- revisionLock,
  requests <- revisionRequests

People == INSTANCE Accounts WITH
  Ids <- Pair \cup {"root", "member"}, Root <- "root", Member <- "member",
  Names <- {"root", "member", "guest_external"}, RootName <- "root",
  MemberName <- "member", ExternalName <- "guest_external",
  Pipelines <- {"hello", "p"}, Hello <- "hello",
  Kinds <- {"create", "rename", "leave", "remove", "pipeline", "external"},
  MaxStarts <- 1, pipelines <- accountPipelines, used <- accountUsed,
  requests <- accountRequests, starts <- accountStarts

Changes == INSTANCE Accounts WITH
  Ids <- Pair \cup {"root", "member"}, Root <- "root", Member <- "member",
  Names <- {"root", "member", "guest_external"}, RootName <- "root",
  MemberName <- "member", ExternalName <- "guest_external",
  Pipelines <- {"hello", "p"}, Hello <- "hello",
  Kinds <- {"rename", "update", "remove"}, MaxStarts <- 0,
  pipelines <- accountPipelines, used <- accountUsed,
  requests <- accountRequests, starts <- accountStarts

Catalogue == INSTANCE OperatorCatalogue WITH
  Images <- Pair, Workers <- {"w"}, Requests <- {"r1", "r2"},
  MaxVersion <- 1, MaxFiles <- 1, MaxErrors <- 1,
  requests <- catalogueRequests, shown <- catalogueShown,
  errors <- catalogueErrors

-----------------------------------------------------------------------------
ASSUME ConstantsAssumption ==
  /\ Tasks!AgentAssumption /\ Cleaning!AgentAssumption /\ Restarts!AgentAssumption
  /\ Loop!LoopAssumption /\ Kernels!OperatorAssumption /\ Async!OperatorAssumption /\ Params!ParametersAssumption
  /\ Sockets!MessengerAssumption /\ Jobs!LauncherAssumption
  /\ Numbers!RevisionsAssumption /\ Agree!RevisionsAssumption /\ Pages!RevisionsAssumption
  /\ People!AccountsAssumption /\ Changes!AccountsAssumption
  /\ Catalogue!CatalogueAssumption

Init ==
  /\ scenario \in {"tasks", "cleaning", "restarts", "loop", "kernels", "async", "params", "sockets",
                   "jobs", "numbers", "agree", "pages", "people", "changes",
                   "catalogue"}
  /\ CASE scenario = "tasks" -> Tasks!Init
       [] scenario = "cleaning" -> Cleaning!Init
       [] scenario = "restarts" -> Restarts!Init
       [] OTHER ->
          /\ current = None /\ agentTask = None /\ cancelled = None
          /\ cleanup = None /\ launch = None /\ agentLock = None
          /\ handler = None /\ hook = None /\ quit = None
          /\ suppressed = None /\ tracker = None /\ agentMonitor = None
          /\ restart = None /\ container = None /\ made = None
          /\ agentValue = None /\ agentBudget = None
  /\ CASE scenario = "loop" -> Loop!Init
       [] OTHER ->
          /\ loopValue = None /\ store = None /\ wire = None
          /\ linked = None /\ running = None /\ loopEvent = None
          /\ bucket = None /\ loopPc = None /\ loopBudget = None
  /\ CASE scenario = "kernels" -> Kernels!Init
       [] scenario = "async" -> Async!Init
       [] OTHER ->
          /\ life = None /\ kernelEvent = None /\ kernelPc = None
          /\ kernelLock = None /\ kernels = None /\ errorState = None
          /\ errorCount = None /\ status = None /\ kernelErrors = None
          /\ opened = None
  /\ CASE scenario = "params" -> Params!Init
       [] OTHER ->
          /\ parameterUpdates = None /\ process = None /\ next = None
          /\ first = None /\ held = None /\ acks = None
          /\ parameterShown = None /\ missed = None
          /\ parameterBudget = None
  /\ CASE scenario = "sockets" -> Sockets!Init
       [] OTHER ->
          /\ messengerStarts = None /\ published = None /\ stage = None
          /\ addressMap = None /\ connections = None /\ connectedTo = None
          /\ watched = None /\ messengerUpdates = None /\ state = None
          /\ msg = None
  /\ CASE scenario = "jobs" -> Jobs!Init
       [] OTHER ->
          /\ request = None /\ consumer = None /\ launcherTask = None
          /\ job = None /\ launcherMonitor = None /\ launcherErrors = None
          /\ apiErrors = None /\ slow = None /\ losses = None
  /\ CASE scenario = "numbers" -> Numbers!Init
       [] scenario = "agree" -> Agree!Init
       [] scenario = "pages" -> Pages!Init
       [] OTHER ->
          /\ revisionPipelines = None /\ revisions = None
          /\ revisionUsed = None /\ revisionLock = None
          /\ revisionRequests = None /\ reader = None
  /\ CASE scenario = "people" -> People!Init
       [] scenario = "changes" -> Changes!Init
       [] OTHER ->
          /\ users = None /\ accountPipelines = None /\ accountUsed = None
          /\ accountRequests = None /\ accountStarts = None
  /\ CASE scenario = "catalogue" -> Catalogue!Init
       [] OTHER ->
          /\ registry = None /\ local = None /\ cache = None
          /\ catalogueRequests = None /\ catalogueShown = None
          /\ catalogueErrors = None

(* A step of one component: all the others rest.                           *)
Only(component) ==
  /\ UNCHANGED scenario
  /\ component # "agent" => UNCHANGED agentVars
  /\ component # "loop" => UNCHANGED loopVars
  /\ component # "operator" => UNCHANGED kernelVars
  /\ component # "parameters" => UNCHANGED parameterVars
  /\ component # "messenger" => UNCHANGED messengerVars
  /\ component # "launcher" => UNCHANGED launcherVars
  /\ component # "revisions" => UNCHANGED revisionVars
  /\ component # "accounts" => UNCHANGED accountVars
  /\ component # "catalogue" => UNCHANGED catalogueVars

Next ==
  \/ scenario = "tasks" /\ Tasks!Next /\ Only("agent")
  \/ scenario = "cleaning" /\ Cleaning!Next /\ Only("agent")
  \/ scenario = "restarts" /\ Restarts!Next /\ Only("agent")
  \/ scenario = "loop" /\ Loop!Next /\ Only("loop")
  \/ scenario = "kernels" /\ Kernels!Next /\ Only("operator")
  \/ scenario = "async" /\ Async!Next /\ Only("operator")
  \/ scenario = "params" /\ Params!Next /\ Only("parameters")
  \/ scenario = "sockets" /\ Sockets!Next /\ Only("messenger")
  \/ scenario = "jobs" /\ Jobs!Next /\ Only("launcher")
  \/ scenario = "numbers" /\ Numbers!Next /\ Only("revisions")
  \/ scenario = "agree" /\ Agree!Next /\ Only("revisions")
  \/ scenario = "pages" /\ Pages!Next /\ Only("revisions")
  \/ scenario = "people" /\ People!Next /\ Only("accounts")
  \/ scenario = "changes" /\ Changes!Next /\ Only("accounts")
  \/ scenario = "catalogue" /\ Catalogue!Next /\ Only("catalogue")

Spec == Init /\ [][Next]_vars

-----------------------------------------------------------------------------
(* Each component keeps its types while it runs.                           *)
TypeOK ==
  /\ scenario = "restarts" => Restarts!AgentTypeOK
  /\ scenario = "loop" => Loop!LoopTypeOK
  /\ scenario = "kernels" => Kernels!TypeOK
  /\ scenario = "params" => Params!TypeOK
  /\ scenario = "sockets" => Sockets!TypeOK
  /\ scenario = "jobs" => Jobs!LauncherTypeOK
  /\ scenario = "numbers" => Numbers!RevisionsTypeOK
  /\ scenario \in {"people", "changes"} => People!AccountsTypeOK
  /\ scenario = "catalogue" => Catalogue!CatalogueTypeOK

(* One deployment at a time has the agent: its task begins when the task   *)
(* before it is over with its teardown, and a tracker that is listed is of *)
(* the deployment whose task is there, or of one whose teardown failed.    *)
(* Where nothing is restarted, so are the containers that run, also when a *)
(* start fails half-way or is cancelled while podman works.  A restart that*)
(* is in hand when a cleanup clears the trackers may start another.        *)
OneDeploymentAtATime ==
  /\ scenario \in {"tasks", "cleaning"} => Tasks!OneTaskAtATime /\ Tasks!TrackedIsCurrent
  /\ scenario = "cleaning" => Cleaning!NoStrays

(* The monitor, a mount update and a restart that is asked for never start *)
(* more containers of one operator than they have reasons to.              *)
RestartsAreBounded == scenario = "restarts" => Restarts!RestartsAreBounded

(* Who has ended leaves nothing behind: where nothing is restarted, no     *)
(* container runs once the agent is gone, what teardowns that failed left  *)
(* included, unless podman fails in the cleanup of the shutdown itself; and*)
(* no put that was under way brings a key back after stop.                 *)
LeavesNothing ==
  /\ scenario = "cleaning" => Cleaning!LeavesNothing
  /\ scenario = "loop" => Loop!CleanAfterStop

(* Until the operator ends, the main loop and the requests never run two   *)
(* kernels at the same time, and a main loop whose last kernel failed shows*)
(* an error.  A kernel that can be cancelled no longer runs when the       *)
(* resources of the dependencies are given back.                           *)
KernelsAccountedFor ==
  /\ scenario = "kernels" => Kernels!OneKernelWhileRunning /\ Kernels!FailuresShow
  /\ scenario = "async" => Async!LoopOverBeforeTeardown

(* An input is connected at the address it has for each upstream port and  *)
(* at none that the port has left, wherever that moves and however often   *)
(* the setup connected it there.                                           *)
OneAddressEach == scenario = "sockets" => Sockets!OneAddressEach

(* A request starts one job at most, although it is delivered again, and   *)
(* one more for each time its ack wait ended while a task waited for the   *)
(* API; the server forgets it only when a job was submitted, an error was  *)
(* published or the request made no sense.                                 *)
JobsAccountedFor ==
  scenario = "jobs" => Jobs!OneJobEach /\ Jobs!ForgottenForAReason

(* The revisions of a pipeline are consistent for every order of requests  *)
(* that add, rename, duplicate and delete: numbers have no gap and no      *)
(* revision is left of a deleted pipeline; as long as none is deleted, the *)
(* data of the pipeline is that of its current revision and no request to  *)
(* add fails; and a list in pages shows every revision that was there when *)
(* it began.                                                               *)
RevisionsConsistent ==
  /\ scenario = "numbers" => Numbers!NumberedWithoutGap /\ Numbers!NoneWithoutPipeline
  /\ scenario = "agree" => Agree!CurrentAgrees /\ Agree!NoAddFails
  /\ scenario = "pages" => Pages!PagesShowAll

(* Every pipeline has an owner, also one created while a user is deleted,  *)
(* and no two users have one name, however they are created or renamed.    *)
UsersConsistent ==
  scenario \in {"people", "changes"} => People!OwnersExist /\ People!NamesApart

(* What answers a refresh is no older than what there was when it was      *)
(* asked, although fetches overlap.                                        *)
RefreshIsFresh == scenario = "catalogue" => Catalogue!RefreshIsFresh

(* Nothing that is stored goes back to what it was: no put replaces a value*)
(* in the bucket by an older one, no process its parameter by an older     *)
(* update that is delivered again, no rename or duplicate loses a revision,*)
(* and no request overwrites a user's field that it does not change.       *)
NothingGoesBack ==
  [][/\ scenario = "loop" => Loop!NotOlder
     /\ scenario = "params" => Params!HeldNotOlder
     /\ scenario = "agree" => Agree!KeepsRevisions
     /\ (scenario \in {"people", "changes"}) => People!ChangesAsAsked]_vars
=============================================================================
