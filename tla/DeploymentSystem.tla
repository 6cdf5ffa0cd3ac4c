--------------------------- MODULE DeploymentSystem ---------------------------
(***************************************************************************)
(* The app, the orchestrator and the agents, composed over the DEPLOYMENTS *)
(* stream and the agents' keys.  What users ask for and what goes wrong is *)
(* bounded: every request, crash and failure takes one from its budget.    *)
(***************************************************************************)
EXTENDS Orchestrator, AgentReports, App

CONSTANTS
  MaxStops,      \* cancellations users ask for
  MaxEdits,      \* other states users set
  MaxRestarts,   \* operator restarts users ask for
  MaxShutdowns,  \* agents asked to shut down
  MaxDeaths,     \* agents killed
  MaxCrashes,    \* crashes of the orchestrator
  MaxFailures,   \* publishes that fail, and restarts of the app
  MaxErrors,     \* deployments that fail on an agent
  Conflation     \* the watch may miss a value that is overwritten

ASSUME BoundsAssumption ==
  /\ {MaxStops, MaxEdits, MaxRestarts, MaxShutdowns, MaxDeaths, MaxCrashes,
      MaxFailures, MaxErrors} \subseteq Nat
  /\ Conflation \in BOOLEAN

VARIABLE budget

Budgets == {"stop", "edit", "restart", "shutdown", "death", "crash",
            "failure", "error"}

vars == <<streamVars, orchestratorVars, agent, db, budget>>

Init ==
  /\ StreamsInit
  /\ OrchestratorInit
  /\ AgentsInit
  /\ AppInit
  /\ budget = [stop |-> MaxStops, edit |-> MaxEdits, restart |-> MaxRestarts,
               shutdown |-> MaxShutdowns, death |-> MaxDeaths,
               crash |-> MaxCrashes, failure |-> MaxFailures,
               error |-> MaxErrors]

Spend(k) == budget[k] > 0 /\ budget' = [budget EXCEPT ![k] = @ - 1]
Free == UNCHANGED budget

OfOrchestrator(A) == A /\ UNCHANGED <<agent, db>>
OfAgents(A)       == A /\ UNCHANGED <<orchestratorVars, db>>
OfApp(A)          == A /\ UNCHANGED <<orchestratorVars, agent>>

Request ==
  \E d \in Deployments : OfApp(
    \/ CreateDeployment(d) /\ Free
    \/ UpdateDeployment(d, "CANCELLED") /\ Spend("stop")
    \/ (\E s \in States \ {"CANCELLED"} : UpdateDeployment(d, s)) /\ Spend("edit")
    \/ RestartOperator(d) /\ Spend("restart"))

Consume == OfApp(ConsumeUpdate /\ Free)

Orchestrate == OfOrchestrator(OrchestratorStep /\ Free)

AgentWorks(a) == OfAgents((CommandStep(a) \/ DeploymentStep(a) \/ Heartbeat(a)
                           \/ LeavingStep(a)) /\ Free)

AgentJoins(a) == OfAgents(Connect(a) /\ Free)

AgentTrouble(a) == OfAgents(
  \/ RequestShutdown(a) /\ Spend("shutdown")
  \/ Dies(a) /\ Spend("death")
  \/ (Errors(a) \/ Collapses(a)) /\ Spend("error"))

Trouble ==
  \/ OfOrchestrator(Crash /\ Spend("crash"))
  \/ OfOrchestrator((EventFails \/ EntryFails) /\ Spend("failure"))
  \/ OfApp((RestartApp \/ \E d \in Deployments : CreateLost(d) \/ UpdateLost(d)) /\ Spend("failure"))

Overwrite ==
  /\ Conflation
  /\ \E a \in Agents : Supersede(a)
  /\ UNCHANGED <<orchestratorVars, agent, db, budget>>

Next ==
  \/ Request \/ Consume \/ Orchestrate \/ Trouble \/ Overwrite
  \/ \E a \in Agents : AgentWorks(a) \/ AgentJoins(a) \/ AgentTrouble(a)

Spec == Init /\ [][Next]_vars

(* Every variable keeps its shape.                                         *)
TypeOK ==
  /\ StreamsTypeOK
  /\ OrchestratorTypeOK
  /\ AgentsTypeOK
  /\ AppTypeOK
  /\ budget \in [Budgets -> Nat]

(* Fairness: the app's consumer, the orchestrator and the agents are event *)
(* loops that run while they have something to do; nothing is fair about   *)
(* what users ask for or what goes wrong.                                  *)
Fairness ==
  /\ WF_vars(Consume)
  /\ WF_vars(Orchestrate)
  /\ \A a \in Agents : WF_vars(AgentWorks(a))

FairSpec == Spec /\ Fairness

------------------------------------------------------------------------------
(* Nothing is under way: every message is taken, every key is up to date   *)
(* and every agent waits.                                                  *)
Quiescent ==
  /\ boot = "ready"
  /\ events = <<>> /\ updates = <<>>
  /\ handler.pc = "idle" /\ watcher.pc = "idle"
  /\ \A t \in Tasks : Published(t)
  /\ \A a \in Agents :
       /\ commands[a] = <<>> /\ watch[a] = <<>>
       /\ agent[a].phase \in {"new", "idle", "running", "gone"} /\ ~agent[a].quit
       /\ kv[a] = IF agent[a].phase \in {"new", "gone"} THEN None
                  ELSE ValueOf(agent[a])

(* The agents that carry the deployment out or are still taking it down.   *)
Serving(d) ==
  {a \in Agents : agent[a].depl = d /\ agent[a].phase \in Live \cup {"teardown"}}

(***************************************************************************)
(* The system implements Lifecycle: the states published on                *)
(* depl.pipe.<id>.upd only move forward and never leave a terminal state   *)
(* (the "final" states of machine.py), and an agent starts only what the   *)
(* orchestrator has published as assigned, one deployment after the other  *)
(* (the wait for the running task in receive_assignment).                  *)
(***************************************************************************)
Promise == INSTANCE Lifecycle WITH
  announced <- lastUpdate,
  serves    <- [a \in Agents |->
                  IF a \in Serving(agent[a].depl) THEN agent[a].depl ELSE None]

ImplementsLifecycle == Promise!Spec

(* The published state of a deployment only moves forward, and a terminal  *)
(* one is never left, as the "final" states of machine.py say.             *)
UpdatesMoveForward ==
  [][\A d \in Deployments : lastUpdate'[d] # lastUpdate[d] =>
       \/ lastUpdate[d] = None
       \/ lastUpdate'[d] \in Later[lastUpdate[d]]]_lastUpdate

(* Two tasks fire triggers on a machine and each accepted trigger cancels  *)
(* the other's publication: when all is quiet the last state published is  *)
(* nevertheless the one the machine is in.                                 *)
PublishedAgrees ==
  Quiescent => \A d \in Deployments : sm[d] # None => sm[d] = lastUpdate[d]

(* consumer.py calls the orchestrator the source of truth of the states in *)
(* the database: a PATCH that sets the column on its own, and an update    *)
(* that was under way meanwhile, leave it in the state last published.     *)
DatabaseAgrees ==
  Quiescent => \A d \in Deployments :
    \/ db[d] = lastUpdate[d]
    \/ {db[d], lastUpdate[d]} \subseteq Terminal

(* A deployment that the orchestrator has given up as FAILED_TO_START is   *)
(* not carried out by an agent ("we get here if our pipeline handling      *)
(* failed", says the middleware that gives it up).                         *)
FailedIsNotServed ==
  \A d \in Deployments : sm[d] = "FAILED_TO_START" => Serving(d) = {}

(* An agent has one current deployment: of two deployments assigned or     *)
(* running, the one that lost its agents to the other does not stay so in  *)
(* the orchestrator (the cancel of _handle_deployment_change).             *)
OnePipelineAtATime ==
  Quiescent => \A d, e \in Deployments :
    {sm[d], sm[e]} \subseteq {"AGENTS_ASSIGNED", "RUNNING"} => d = e

(* The trackers and the store of agents are updated by one entry, with     *)
(* awaits between the two: once the entry is dealt with, an agent is       *)
(* tracked exactly while it is known, and credits no deployment but the    *)
(* one it last reported.                                                   *)
TrackersFollowStore ==
  watcher.pc = "idle" => \A a \in Agents :
    IF store[a] = None THEN tracker[a] = Absent
    ELSE tracker[a] \in {None, store[a].depl}

(* A deployment starts to run only when an agent reports that this very    *)
(* deployment runs: a status is never credited to the deployment that the  *)
(* agent served before.                                                    *)
StatusCredited ==
  [][\A d \in Deployments :
       (sm[d] # "RUNNING" /\ sm'[d] = "RUNNING" /\ boot = "ready") =>
         \E a \in Agents :
           store'[a] = [status |-> "DEPLOYMENT_RUNNING", depl |-> d]]_sm

(* Once a user has cancelled a deployment and all is quiet, no agent       *)
(* serves it, wherever the stop found the assignment: still being sent, in *)
(* an agent's queue, or taken ("anything can be cancelled").               *)
StoppedMeansStopped ==
  Quiescent => \A d \in Deployments : retained[d] = "STOP" => Serving(d) = {}

(* No START of a deployment is on its way to an agent before the           *)
(* orchestrator has published that the deployment is assigned: what a      *)
(* replay after a crash finds without an update was never started.         *)
StartsAreAnnounced ==
  \A a \in Agents : \A i \in DOMAIN commands[a] :
    commands[a][i].type = "START" => lastUpdate[commands[a][i].depl] # None

(* A deployment is announced once the orchestrator has published a state   *)
(* of it; it stays so.                                                     *)
Announced(d) == d \in Deployments => lastUpdate[d] # None

AgentsAnnounced ==
  \A a \in Agents : Announced(agent[a].depl) /\ Announced(agent[a].next)

ValueAnnounced(v) == v # None => Announced(v.depl)

KeysAnnounced ==
  \A a \in Agents : /\ ValueAnnounced(kv[a])
                    /\ \A i \in DOMAIN watch[a] : ValueAnnounced(watch[a][i])

TrackingAnnounced ==
  /\ \A a \in Agents : ValueAnnounced(store[a]) /\ Announced(tracker[a])
  /\ watcher.pc = "relinking" =>
       Announced(watcher.val.depl) /\ Announced(watcher.old.depl)

HandlerAnnounced ==
  handler.pc = "assigned" =>
    \/ Announced(handler.ev.depl)
    \/ pending[Events] # None /\ pending[Events].depl = handler.ev.depl

(* Whatever an agent, its key or the orchestrator's own tracking names has *)
(* been announced, and an assignment that is not yet announced is about to *)
(* be: the second task can cancel its publication only through a           *)
(* deployment that some agent has reported.                                *)
OnlyAnnounced ==
  /\ StartsAreAnnounced
  /\ AgentsAnnounced
  /\ KeysAnnounced
  /\ TrackingAnnounced
  /\ HandlerAnnounced

(* No deployment is left in PENDING: every run request is assigned,        *)
(* rejected, cancelled or, when the orchestrator died with it, marked by   *)
(* the replay at the next start.                                           *)
NoneLeftPending ==
  Quiescent => \A d \in Deployments : db[d] # "PENDING"

(* A deployment that the orchestrator takes for running is served by an    *)
(* agent: an agent that leaves, is killed or changes over takes its        *)
(* deployment with it.                                                     *)
RunningIsServed ==
  Quiescent => \A d \in Deployments : sm[d] = "RUNNING" => Serving(d) # {}

------------------------------------------------------------------------------
(* An assignment is not left open: it becomes running, fails, or is        *)
(* cancelled, by the user or because the agents went to another.           *)
AssignmentsResolve ==
  \A d \in Deployments : sm[d] = "AGENTS_ASSIGNED" ~> sm[d] # "AGENTS_ASSIGNED"

(* A cancelled deployment is eventually served by no agent, and stays so:  *)
(* no handler waits for a task that waits for it, and no START overtakes.  *)
StopsTakeEffect ==
  \A d \in Deployments : retained[d] = "STOP" ~> [](Serving(d) = {})
==============================================================================
