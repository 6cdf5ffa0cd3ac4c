----------------------------- MODULE AgentReports -----------------------------
(***************************************************************************)
(* An agent as the orchestrator knows it: the commands it takes and the    *)
(* values it puts under its key while a deployment goes through its        *)
(* life.  Containers, the monitor and the lock are not here; a step of     *)
(* this module is what happens between two puts.                           *)
(***************************************************************************)
EXTENDS Streams

VARIABLE agent   \* per agent [phase, status, depl, goal, next, quit]

(* phase: where the agent is.  status: agent_val.status.  depl:            *)
(* _current_deployment.  goal: what the holder of the deployment lock does *)
(* once the running task has finished (stay: nobody waits for it), next:   *)
(* the deployment it starts then.  quit: _shutdown_event is set.           *)
Phases == {"new", "idle", "assigned", "cleaning", "starting", "running",
           "error", "teardown", "replacing", "leaving", "gone"}

(* The phases in which _deployment_task is neither done nor tearing down.  *)
Live == {"assigned", "cleaning", "starting", "running", "error"}

AgentState == [phase : Phases, status : AgentStatuses,
               depl : Deployments \cup {None},
               goal : {"stay", "stop", "start", "shutdown"},
               next : Deployments \cup {None}, quit : BOOLEAN]

AgentsTypeOK == agent \in [Agents -> AgentState]

At(phase) == [phase |-> phase, status |-> "IDLE", depl |-> None,
              goal |-> "stay", next |-> None, quit |-> FALSE]

AgentsInit == agent = [a \in Agents |-> At("new")]

(* The value a put writes: _update_agent_state runs before each, so the    *)
(* deployment is the current one whatever was assigned to it.              *)
ValueOf(r) == [status |-> r.status, depl |-> r.depl]

(* The agent becomes r and puts its value.                                 *)
Become(a, r) ==
  /\ agent' = [agent EXCEPT ![a] = r]
  /\ SetKey(a, ValueOf(r))

Quiet == UNCHANGED <<events, retained, assigned, updates, lastUpdate, watching>>

Connect(a) ==
  /\ agent[a].phase = "new"
  /\ Become(a, [agent[a] EXCEPT !.phase = "idle"])
  /\ UNCHANGED commands /\ Quiet

------------------------------------------------------------------------------
(* One command at a time: the next is not taken while the handler of this  *)
(* one, or shutdown, holds the deployment lock and waits for the task.     *)
TakeCommand(a, type) ==
  /\ agent[a].goal = "stay"
  /\ agent[a].phase \in Live \cup {"idle", "teardown"}
  /\ commands[a] # <<>>
  /\ Head(commands[a]).type = type
  /\ commands' = [commands EXCEPT ![a] = Tail(@)]
  /\ Quiet

(* receive_assignment without a running task.  The first put of the task   *)
(* comes later.                                                            *)
StartDeployment(a) ==
  /\ TakeCommand(a, "START")
  /\ agent[a].phase = "idle"
  /\ ~agent[a].quit
  /\ agent' = [agent EXCEPT ![a].phase = "assigned",
                            ![a].depl = Head(commands[a]).depl]
  /\ UNCHANGED <<kv, watch>>

(* The task is cancelled, which begins its teardown, and is waited for.    *)
TearDown(r, goal) ==
  [r EXCEPT !.phase = "teardown", !.status = "CLEANING_OPERATORS", !.goal = goal]

(* A task that is tearing down already is only waited for.                 *)
CancelAndWait(a, goal, next) ==
  LET r == [agent[a] EXCEPT !.goal = goal, !.next = next] IN
  \/ agent[a].phase \in Live /\ Become(a, TearDown(r, goal))
  \/ /\ agent[a].phase = "teardown"
     /\ agent' = [agent EXCEPT ![a] = r]
     /\ UNCHANGED <<kv, watch>>

(* Mutant of ReplaceDeployment: the running task is not waited for.        *)
ReplaceAtOnce(a) ==
  /\ TakeCommand(a, "START")
  /\ agent[a].phase \in Live
  /\ agent' = [agent EXCEPT ![a].phase = "assigned",
                            ![a].depl = Head(commands[a]).depl]
  /\ UNCHANGED <<kv, watch>>

(* receive_assignment with one.                                            *)
ReplaceDeployment(a) ==
  /\ TakeCommand(a, "START")
  /\ ~agent[a].quit
  /\ CancelAndWait(a, "start", Head(commands[a]).depl)

(* receive_cancellation of the current deployment.  When its task is done  *)
(* it is only forgotten, and no put says so.                               *)
StopDeployment(a) ==
  /\ TakeCommand(a, "STOP")
  /\ agent[a].depl = Head(commands[a]).depl
  /\ \/ CancelAndWait(a, "stop", None)
     \/ /\ agent[a].phase = "idle"
        /\ agent' = [agent EXCEPT ![a].depl = None]
        /\ UNCHANGED <<kv, watch>>

(* Mutant of IgnoreCommand: a stop is ignored until operators start.       *)
IgnoreEarlyStop(a) ==
  /\ \/ TakeCommand(a, "RESTART_OPERATOR")
     \/ TakeCommand(a, "START") /\ agent[a].quit
     \/ /\ TakeCommand(a, "STOP")
        /\ \/ agent[a].depl # Head(commands[a]).depl
           \/ agent[a].phase = "cleaning"
  /\ UNCHANGED <<agent, kv, watch>>

(* A stop for another deployment, an assignment once the agent shuts down, *)
(* and a restart of operators, which does not show in the agent's value.   *)
IgnoreCommand(a) ==
  /\ \/ TakeCommand(a, "RESTART_OPERATOR")
     \/ TakeCommand(a, "START") /\ agent[a].quit
     \/ TakeCommand(a, "STOP") /\ agent[a].depl # Head(commands[a]).depl
  /\ UNCHANGED <<agent, kv, watch>>

------------------------------------------------------------------------------
(* _run_deployment, from one put to the next.                              *)
Step(a, from, to, status) ==
  /\ agent[a].phase = from
  /\ Become(a, [agent[a] EXCEPT !.phase = to, !.status = status])
  /\ UNCHANGED commands /\ Quiet

Cleans(a)   == Step(a, "assigned", "cleaning", "CLEANING_OPERATORS")
Starts(a)   == Step(a, "cleaning", "starting", "OPERATORS_STARTING")
Runs(a)     == Step(a, "starting", "running", "DEPLOYMENT_RUNNING")
Errors(a)   == \E from \in {"assigned", "cleaning", "starting"} :
                 Step(a, from, "error", "DEPLOYMENT_ERROR")
Recovers(a) == Step(a, "error", "teardown", "CLEANING_OPERATORS")

(* A task of the running deployment's group raises: the group is cancelled *)
(* and the deployment torn down without a DEPLOYMENT_ERROR.                *)
Collapses(a) == Step(a, "running", "teardown", "CLEANING_OPERATORS")

(* The teardown's IDLE is put while the deployment is still the current    *)
(* one; then whoever waits for the task goes on.                           *)
TornDown(a) ==
  LET r == [agent[a] EXCEPT !.phase = "idle", !.status = "IDLE"] IN
  /\ agent[a].phase = "teardown"
  /\ SetKey(a, ValueOf(r))
  /\ agent' = [agent EXCEPT ![a] =
       CASE r.goal = "stay"  -> r
         [] r.goal = "start" -> [r EXCEPT !.phase = "replacing"]
         [] r.goal \in {"stop", "shutdown"} ->
              [r EXCEPT !.depl = None, !.goal = "stay"]]
  /\ UNCHANGED commands /\ Quiet

BeginNext(a) ==
  /\ agent[a].phase = "replacing"
  /\ agent' = [agent EXCEPT ![a].phase = "assigned", ![a].depl = agent[a].next,
                            ![a].goal = "stay", ![a].next = None]
  /\ UNCHANGED <<commands, kv, watch>> /\ Quiet

(* The loop of the agent's KeyValueLoop, when its value has changed since  *)
(* the last put.                                                           *)
Heartbeat(a) ==
  /\ agent[a].phase \notin {"new", "gone"}
  /\ kv[a] # ValueOf(agent[a])
  /\ SetKey(a, ValueOf(agent[a]))
  /\ UNCHANGED <<agent, commands>> /\ Quiet

------------------------------------------------------------------------------
(* A shutdown control event: request_shutdown.  Whatever runs goes on      *)
(* until the application's shutdown hook has the deployment lock.          *)
RequestShutdown(a) ==
  /\ ~agent[a].quit
  /\ agent[a].phase \notin {"new", "gone"}
  /\ Become(a, [agent[a] EXCEPT !.status = "SHUTTING_DOWN", !.quit = TRUE])
  /\ UNCHANGED commands /\ Quiet

(* shutdown has the lock: it waits for the running task, if there is one,  *)
(* and cleans up.                                                          *)
ShutDown(a) ==
  /\ agent[a].quit
  /\ agent[a].goal = "stay"
  /\ \/ CancelAndWait(a, "shutdown", None)
     \/ /\ agent[a].phase = "idle"
        /\ Become(a, [agent[a] EXCEPT !.phase = "leaving", !.depl = None,
                                      !.status = "CLEANING_OPERATORS"])
  /\ UNCHANGED commands /\ Quiet

Gone(a, key) ==
  /\ agent' = [agent EXCEPT ![a] = At("gone")]
  /\ commands' = [commands EXCEPT ![a] = <<>>]
  /\ key
  /\ Quiet

(* The key is deleted last.                                                *)
Leave(a) == agent[a].phase = "leaving" /\ Gone(a, SetKey(a, None))

(* The agent is killed: nothing is put, and the key expires.               *)
Dies(a) ==
  /\ agent[a].phase \notin {"new", "gone"}
  /\ Gone(a, UNCHANGED <<kv, watch>>)

Expires(a) ==
  /\ agent[a].phase = "gone"
  /\ kv[a] # None
  /\ SetKey(a, None)
  /\ UNCHANGED <<agent, commands>> /\ Quiet

------------------------------------------------------------------------------
DeploymentStep(a) == Cleans(a) \/ Starts(a) \/ Runs(a) \/ Recovers(a)
                     \/ TornDown(a) \/ BeginNext(a)

CommandStep(a) == StartDeployment(a) \/ ReplaceDeployment(a)
                  \/ StopDeployment(a) \/ IgnoreCommand(a)

LeavingStep(a) == ShutDown(a) \/ Leave(a) \/ Expires(a)
==============================================================================
