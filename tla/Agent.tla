-------------------------------- MODULE Agent --------------------------------
(***************************************************************************)
(* The agent process: the tasks that work on its containers.  They are the *)
(* handler of commands (one at a time), the task of a deployment, the      *)
(* container monitor, and the shutdown hook.  A step is what happens from  *)
(* one await to the next, together with the call to podman that the await  *)
(* stands for.  AgentReports is the same process seen through its key.     *)
(***************************************************************************)
EXTENDS Naturals, FiniteSets

CONSTANTS
  Deployments,
  Slots,          \* one operator of a deployment per slot
  None,
  MAX_RESTARTS    \* ContainerTracker.MAX_RESTARTS

(* What users ask for and what goes wrong is bounded.                      *)
CONSTANTS MaxExits, MaxRemounts, MaxOperatorRestarts, MaxStops, MaxErrors

Operators == Deployments \X Slots
Of(d) == {d} \X Slots

Handler == "handler"
Monitor == "monitor"
Hook    == "hook"

(* podman's containers by their identifiers, and the agent's trackers.     *)
Containers == [id : Nat, state : {"created", "up", "exited"}, mount : Nat]
Trackers   == [id : Nat, marked : BOOLEAN, restarts : Nat, listed : BOOLEAN]

AgentAssumption ==
  /\ {None, Hook} \cap Deployments = {}
  /\ None \notin Containers \cup Trackers \cup Operators \cup {Handler, Hook}
  /\ {MAX_RESTARTS, MaxExits, MaxRemounts, MaxOperatorRestarts, MaxStops, MaxErrors}
       \subseteq Nat

VARIABLES
  current,     \* _current_deployment
  task,        \* per deployment, the phase of its _deployment_task
  cancelled,   \* deployments whose context has been cancelled
  cleanup,     \* per deployment and for Hook, its _cleanup_containers
  launch,      \* per operator, its _start_and_track_operator
  lock,        \* holder of _deployment_lock
  handler,     \* the command under way
  hook,        \* shutdown
  quit,        \* _shutdown_event
  suppressed,  \* _suppress_monitor
  tracker,     \* per operator, its ContainerTracker; listed: in container_trackers
  monitor,     \* monitor_containers
  restart,     \* restart_operator of the handler and of the monitor
  container,   \* podman's container of that name
  made,        \* containers made for an operator so far, and their identifiers
  value,       \* the mount parameter of an operator: updates taken so far
  budget

(* What the tasks share, what a restart changes, and the rest.             *)
taskVars  == <<current, task, cancelled, cleanup, launch>>
lockVars  == <<lock, handler, hook, quit>>
podmanVars == <<container, made>>
vars == <<taskVars, lockVars, suppressed, tracker, monitor, restart, podmanVars,
          value, budget>>

Live == {"cleaning", "launching", "running"}
Cleaners == Deployments \cup {Hook}

NoCleanup == [pc |-> "off", left |-> {}]
NoRestart == [pc |-> "off"]
Resting   == [pc |-> "sleeping", left |-> {}, op |-> None]
Waiting   == [pc |-> "idle", depl |-> None, left |-> {}]

AgentTypeOK ==
  /\ current \in Deployments \cup {None}
  /\ task \in [Deployments -> Live \cup {"none", "closing", "done", "failed"}]
  /\ cancelled \subseteq Deployments
  /\ cleanup \in [Cleaners -> [pc : {"off", "clearing", "listing", "removing"},
                               left : SUBSET (Operators \X Nat)]]
  /\ launch \in [Operators -> {"off", "creating", "starting", "done"}]
  /\ lock \in {None, Handler, Hook}
  /\ handler \in [pc : {"idle", "stopping", "replacing", "restarting"},
                  depl : Deployments \cup {None}, left : SUBSET Operators]
  /\ hook \in {"off", "locking", "waiting", "cleaning", "gone", "failed"}
  /\ quit \in BOOLEAN
  /\ suppressed \in BOOLEAN
  /\ tracker \in [Operators -> {None} \cup Trackers]
  /\ monitor \in [pc : {"sleeping", "walking", "checking", "remounting",
                        "restarting", "reporting", "ended", "dead"},
                  left : SUBSET Operators, op : Operators \cup {None}]
  /\ restart \in [{Handler, Monitor} -> {NoRestart} \cup
       [pc : {"removing", "creating", "starting", "linking"},
        op : Operators, id : Nat]]
  /\ container \in [Operators -> {None} \cup Containers]
  /\ made \in [Operators -> Nat]
  /\ value \in [Operators -> Nat]
  /\ budget \in [{"exit", "remount", "restart", "stop", "error"} -> Nat]

Init ==
  /\ current = None
  /\ task = [d \in Deployments |-> "none"]
  /\ cancelled = {}
  /\ cleanup = [c \in Cleaners |-> NoCleanup]
  /\ launch = [o \in Operators |-> "off"]
  /\ lock = None
  /\ handler = Waiting
  /\ hook = "off"
  /\ quit = FALSE
  /\ suppressed = FALSE
  /\ tracker = [o \in Operators |-> None]
  /\ monitor = Resting
  /\ restart = [x \in {Handler, Monitor} |-> NoRestart]
  /\ container = [o \in Operators |-> None]
  /\ made = [o \in Operators |-> 0]
  /\ value = [o \in Operators |-> 0]
  /\ budget = [exit |-> MaxExits, remount |-> MaxRemounts,
               restart |-> MaxOperatorRestarts, stop |-> MaxStops,
               error |-> MaxErrors]

Up == hook \notin {"gone", "failed"}
Spend(k) == budget[k] > 0 /\ budget' = [budget EXCEPT ![k] = @ - 1]
Free == UNCHANGED budget

Listed == {o \in Operators : tracker[o] # None /\ tracker[o].listed}
IsUp(o) == container[o] # None /\ container[o].state = "up"
Holds(o, id) == container[o] # None /\ container[o].id = id

(* stop_and_remove_container: one that is not there is not an error.       *)
Remove(o, id) ==
  container' = IF Holds(o, id) THEN [container EXCEPT ![o] = None] ELSE container

(* create_container: a container of that name is removed first (the retry  *)
(* of handle_name_conflict).                                               *)
Create(o) ==
  /\ made' = [made EXCEPT ![o] = @ + 1]
  /\ container' = [container EXCEPT ![o] =
       [id |-> made[o] + 1, state |-> "created", mount |-> value[o]]]

StartContainer(o) == container' = [container EXCEPT ![o].state = "up"]

------------------------------------------------------------------------------
(* The task of a deployment begins with the cleanup of what is left of     *)
(* earlier ones; its context is entered in its first step, before any      *)
(* other task can run.                                                     *)
Begin(d) ==
  /\ current' = d
  /\ task' = [task EXCEPT ![d] = "cleaning"]
  /\ cleanup' = [cleanup EXCEPT ![d].pc = "clearing"]
  /\ suppressed' = TRUE

(* _cleanup_containers, after its put.  The monitor is suppressed, and the *)
(* trackers are cleared first.                                             *)
Clear(c) ==
  /\ Up
  /\ cleanup[c].pc = "clearing"
  /\ suppressed' = TRUE
  /\ tracker' = [o \in Operators |->
       IF o \in Listed THEN [tracker[o] EXCEPT !.listed = FALSE] ELSE tracker[o]]
  /\ cleanup' = [cleanup EXCEPT ![c].pc = "listing"]
  /\ UNCHANGED <<current, task, cancelled, launch, lockVars, monitor, restart,
                 podmanVars, value>> /\ Free

(* Only running containers are listed.                                     *)
List(c) ==
  /\ Up
  /\ cleanup[c].pc = "listing"
  /\ cleanup' = [cleanup EXCEPT ![c] =
       [pc |-> "removing",
        left |-> {<<o, container[o].id>> : o \in {p \in Operators : IsUp(p)}}]]
  /\ UNCHANGED <<current, task, cancelled, launch, lockVars, suppressed, tracker,
                 monitor, restart, podmanVars, value>> /\ Free

RemoveListed(c) ==
  /\ Up
  /\ \E x \in cleanup[c].left :
       /\ Remove(x[1], x[2])
       /\ cleanup' = [cleanup EXCEPT ![c].left = @ \ {x}]
  /\ UNCHANGED <<current, task, cancelled, launch, lockVars, suppressed, tracker,
                 monitor, restart, made, value>> /\ Free

CleanedUp(c) == cleanup[c].pc = "removing" /\ cleanup[c].left = {}

------------------------------------------------------------------------------
(* _run_deployment: the operators are started concurrently once all is     *)
(* clean.                                                                  *)
Launch(d) ==
  /\ Up
  /\ task[d] = "cleaning" /\ CleanedUp(d)
  /\ d \notin cancelled
  /\ task' = [task EXCEPT ![d] = "launching"]
  /\ cleanup' = [cleanup EXCEPT ![d] = NoCleanup]
  /\ suppressed' = FALSE
  /\ launch' = [o \in Operators |-> IF o \in Of(d) THEN "creating" ELSE launch[o]]
  /\ UNCHANGED <<current, cancelled, lockVars, tracker, monitor, restart,
                 podmanVars, value>> /\ Free

LaunchCreate(o) ==
  /\ Up
  /\ launch[o] = "creating"
  /\ Create(o)
  /\ launch' = [launch EXCEPT ![o] = "starting"]
  /\ UNCHANGED <<current, task, cancelled, cleanup, lockVars, suppressed, tracker,
                 monitor, restart, value>> /\ Free

(* The tracker is set when the start has returned.                         *)
LaunchStart(o) ==
  /\ Up
  /\ launch[o] = "starting"
  /\ StartContainer(o)
  /\ tracker' = [tracker EXCEPT ![o] =
       [id |-> container[o].id, marked |-> FALSE, restarts |-> 0, listed |-> TRUE]]
  /\ launch' = [launch EXCEPT ![o] = "done"]
  /\ UNCHANGED <<current, task, cancelled, cleanup, lockVars, suppressed, monitor,
                 restart, made, value>> /\ Free

Runs(d) ==
  /\ Up
  /\ task[d] = "launching"
  /\ \A o \in Of(d) : launch[o] = "done"
  /\ task' = [task EXCEPT ![d] = "running"]
  /\ UNCHANGED <<current, cancelled, cleanup, launch, lockVars, suppressed, tracker,
                 monitor, restart, podmanVars, value>> /\ Free

(* The cancellation is delivered, or an exception leaves the context: what *)
(* was being started is abandoned and the shielded teardown begins.        *)
Unwind(d) ==
  /\ Up
  /\ task[d] \in Live
  /\ task' = [task EXCEPT ![d] = "closing"]
  /\ cleanup' = [cleanup EXCEPT ![d] = [pc |-> "clearing", left |-> {}]]
  /\ launch' = [o \in Operators |-> IF o \in Of(d) THEN "off" ELSE launch[o]]
  /\ suppressed' = (suppressed /\ ~(task[d] = "cleaning" /\ cleanup[d].pc # "clearing"))
  /\ UNCHANGED <<current, cancelled, lockVars, tracker, monitor, restart,
                 podmanVars, value>>

Interrupted(d) == d \in cancelled /\ Unwind(d) /\ Free
Fails(d)       == Unwind(d) /\ Spend("error")

Ends(d) ==
  /\ Up
  /\ task[d] = "closing" /\ CleanedUp(d)
  /\ task' = [task EXCEPT ![d] = "done"]
  /\ cleanup' = [cleanup EXCEPT ![d] = NoCleanup]
  /\ suppressed' = FALSE
  /\ UNCHANGED <<current, cancelled, launch, lockVars, tracker, monitor, restart,
                 podmanVars, value>> /\ Free

(* The cleanup of a teardown raises: its put fails before anything is      *)
(* cleared, or podman does.  The task ends with the exception, which who   *)
(* waits for it logs, and what was not removed stays.                      *)
TeardownFails(d) ==
  /\ Up
  /\ task[d] = "closing" /\ cleanup[d].pc \in {"clearing", "listing", "removing"}
  /\ task' = [task EXCEPT ![d] = "failed"]
  /\ cleanup' = [cleanup EXCEPT ![d] = NoCleanup]
  /\ suppressed' = (suppressed /\ cleanup[d].pc = "clearing")
  /\ UNCHANGED <<current, cancelled, launch, lockVars, tracker, monitor, restart,
                 podmanVars, value>> /\ Spend("error")

Running(d) == d # None /\ task[d] \in Live \cup {"closing"}

------------------------------------------------------------------------------
(* The commands.  cancel marks the context; the task unwinds later.        *)
Cancel(d) == cancelled' = cancelled \cup {d}

(* Mutant of Assign: the running task is cancelled and not waited for.     *)
AssignAtOnce(d) ==
  /\ Up /\ handler.pc = "idle" /\ lock = None /\ ~quit
  /\ task[d] = "none"
  /\ Begin(d)
  /\ IF Running(current) THEN Cancel(current) ELSE UNCHANGED cancelled
  /\ UNCHANGED <<lockVars, launch, tracker, monitor, restart, podmanVars, value>>
  /\ Free

(* receive_assignment, up to its wait for the running task.                *)
Assign(d) ==
  /\ Up /\ handler.pc = "idle" /\ lock = None /\ ~quit
  /\ task[d] = "none"
  /\ IF Running(current)
     THEN /\ Cancel(current)
          /\ lock' = Handler
          /\ handler' = [handler EXCEPT !.pc = "replacing", !.depl = d]
          /\ UNCHANGED <<current, task, cleanup, suppressed>>
     ELSE /\ Begin(d)
          /\ UNCHANGED <<cancelled, lock, handler>>
  /\ UNCHANGED <<launch, hook, quit, tracker, monitor, restart, podmanVars, value>>
  /\ Free

Replace ==
  /\ Up /\ handler.pc = "replacing"
  /\ ~Running(current)
  /\ Begin(handler.depl)
  /\ lock' = None
  /\ handler' = Waiting
  /\ UNCHANGED <<cancelled, launch, hook, quit, tracker, monitor, restart,
                 podmanVars, value>> /\ Free

(* Mutant of Stop: the task is waited for and not cancelled.               *)
StopAndWait ==
  /\ Up /\ handler.pc = "idle" /\ lock = None
  /\ current # None
  /\ lock' = Handler
  /\ handler' = [handler EXCEPT !.pc = "stopping"]
  /\ UNCHANGED <<taskVars, hook, quit, suppressed, tracker, monitor, restart,
                 podmanVars, value>> /\ Spend("stop")

(* receive_cancellation of the current deployment; any other is ignored.   *)
Stop ==
  /\ Up /\ handler.pc = "idle" /\ lock = None
  /\ current # None
  /\ Cancel(current)
  /\ lock' = Handler
  /\ handler' = [handler EXCEPT !.pc = "stopping"]
  /\ UNCHANGED <<current, task, cleanup, launch, hook, quit, suppressed, tracker,
                 monitor, restart, podmanVars, value>> /\ Spend("stop")

Stopped ==
  /\ Up /\ handler.pc = "stopping"
  /\ ~Running(current)
  /\ current' = None
  /\ lock' = None
  /\ handler' = Waiting
  /\ UNCHANGED <<task, cancelled, cleanup, launch, hook, quit, suppressed, tracker,
                 monitor, restart, podmanVars, value>> /\ Free

(* restart_canonical_operator: there are trackers only while the pipeline  *)
(* is there, from the first step of the task to the end of a teardown that *)
(* does not fail.  The lock is not taken.                                  *)
RestartCommand ==
  /\ Up /\ handler.pc = "idle" /\ ~quit
  /\ current # None
  /\ \E S \in SUBSET Listed : S # {} /\ handler' = [Waiting EXCEPT !.pc = "restarting", !.left = S]
  /\ suppressed' = TRUE
  /\ UNCHANGED <<taskVars, lock, hook, quit, tracker, monitor, restart, podmanVars,
                 value>> /\ Spend("restart")

BeginRestart(x, o) ==
  restart' = [restart EXCEPT ![x] = [pc |-> "removing", op |-> o, id |-> tracker[o].id]]

RestartNext ==
  /\ Up /\ handler.pc = "restarting" /\ restart[Handler] = NoRestart
  /\ \E o \in handler.left :
       /\ BeginRestart(Handler, o)
       /\ handler' = [handler EXCEPT !.left = @ \ {o}]
  /\ UNCHANGED <<taskVars, lock, hook, quit, suppressed, tracker, monitor,
                 podmanVars, value>> /\ Free

RestartsDone ==
  /\ Up /\ handler.pc = "restarting" /\ restart[Handler] = NoRestart
  /\ handler.left = {}
  /\ handler' = Waiting
  /\ suppressed' = FALSE
  /\ UNCHANGED <<taskVars, lock, hook, quit, tracker, monitor, restart, podmanVars,
                 value>> /\ Free

------------------------------------------------------------------------------
(* A pass of the monitor over the trackers it finds when it wakes up.  The *)
(* shutdown event is looked at between passes.                             *)
NextPass == IF quit THEN [Resting EXCEPT !.pc = "ended"] ELSE Resting
NextTracker == [monitor EXCEPT !.pc = "walking", !.op = None]
Dead == [Resting EXCEPT !.pc = "dead"]

MonitorIs(m) ==
  /\ monitor' = m
  /\ UNCHANGED <<taskVars, lockVars, suppressed, podmanVars, value>> /\ Free

Wake ==
  /\ Up /\ monitor.pc = "sleeping"
  /\ MonitorIs(IF suppressed THEN NextPass
               ELSE [Resting EXCEPT !.pc = "walking", !.left = Listed])
  /\ UNCHANGED <<tracker, restart>>

PassDone ==
  /\ Up /\ monitor.pc = "walking" /\ monitor.left = {}
  /\ MonitorIs(NextPass)
  /\ UNCHANGED <<tracker, restart>>

Look(o) ==
  /\ Up /\ monitor.pc = "walking" /\ o \in monitor.left
  /\ MonitorIs([pc |-> IF tracker[o].marked THEN "remounting" ELSE "checking",
                left |-> monitor.left \ {o}, op |-> o])
  /\ IF tracker[o].marked THEN BeginRestart(Monitor, o) ELSE UNCHANGED restart
  /\ UNCHANGED tracker

(* del container_trackers[...] raises KeyError when a cleanup has cleared  *)
(* them meanwhile.                                                         *)
Delete(o, ifAbsent) ==
  IF tracker[o].listed
  THEN tracker' = [tracker EXCEPT ![o].listed = FALSE] /\ MonitorIs(NextTracker)
  ELSE UNCHANGED tracker /\ MonitorIs(ifAbsent)

(* The reload of the container in hand: up, gone, or stopped.              *)
CheckUp ==
  /\ Up /\ monitor.pc = "checking"
  /\ Holds(monitor.op, tracker[monitor.op].id) /\ IsUp(monitor.op)
  /\ MonitorIs(NextTracker)
  /\ UNCHANGED <<tracker, restart>>

CheckGone ==
  /\ Up /\ monitor.pc = "checking"
  /\ ~Holds(monitor.op, tracker[monitor.op].id)
  /\ Delete(monitor.op, Dead)
  /\ UNCHANGED restart

CheckStopped ==
  /\ Up /\ monitor.pc = "checking"
  /\ Holds(monitor.op, tracker[monitor.op].id) /\ ~IsUp(monitor.op)
  /\ IF tracker[monitor.op].restarts >= MAX_RESTARTS
     THEN MonitorIs([monitor EXCEPT !.pc = "reporting"]) /\ UNCHANGED restart
     ELSE /\ MonitorIs([monitor EXCEPT !.pc = "restarting"])
          /\ BeginRestart(Monitor, monitor.op)
  /\ UNCHANGED tracker

(* The error is published; the tracker goes, and a KeyError is logged.     *)
Report ==
  /\ Up /\ monitor.pc = "reporting"
  /\ Delete(monitor.op, NextTracker)
  /\ UNCHANGED restart

------------------------------------------------------------------------------
(* restart_operator, on behalf of x.                                       *)
Restarting(x, pc) == Up /\ restart[x].pc = pc

RestartRemove(x) ==
  /\ Restarting(x, "removing")
  /\ Remove(restart[x].op, restart[x].id)
  /\ restart' = [restart EXCEPT ![x].pc = "creating"]
  /\ UNCHANGED <<taskVars, lockVars, suppressed, tracker, monitor, made, value>> /\ Free

(* Whatever the deployment is now, if there is one.                        *)
RestartCreate(x) ==
  /\ Restarting(x, "creating")
  /\ current # None
  /\ Create(restart[x].op)
  /\ restart' = [restart EXCEPT ![x].pc = "starting",
                                ![x].id = made[restart[x].op] + 1]
  /\ UNCHANGED <<taskVars, lockVars, suppressed, tracker, monitor, value>> /\ Free

RestartStart(x) ==
  /\ Restarting(x, "starting")
  /\ Holds(restart[x].op, restart[x].id)
  /\ StartContainer(restart[x].op)
  /\ restart' = [restart EXCEPT ![x].pc = "linking"]
  /\ UNCHANGED <<taskVars, lockVars, suppressed, tracker, monitor, made, value>> /\ Free

(* Mutant of RestartLink: a new tracker, which has counted no restart.     *)
RestartTracksAnew(x) ==
  /\ Restarting(x, "linking")
  /\ tracker[restart[x].op].listed
  /\ tracker' = [tracker EXCEPT ![restart[x].op] =
       [id |-> restart[x].id, marked |-> FALSE, restarts |-> 0, listed |-> TRUE]]
  /\ restart' = [restart EXCEPT ![x] = NoRestart]
  /\ monitor' = IF x = Monitor THEN NextTracker ELSE monitor
  /\ UNCHANGED <<taskVars, lockVars, suppressed, podmanVars, value>> /\ Free

(* The tracker in container_trackers gets the new container; then the      *)
(* monitor takes its mark away, or counts the restart.                     *)
RestartLink(x) ==
  /\ Restarting(x, "linking")
  /\ LET o == restart[x].op
         linked == [tracker[o] EXCEPT !.id = restart[x].id]
     IN /\ tracker[o].listed
        /\ tracker' = [tracker EXCEPT ![o] =
             IF x = Handler THEN linked
             ELSE IF monitor.pc = "remounting" THEN [linked EXCEPT !.marked = FALSE]
             ELSE [linked EXCEPT !.restarts = @ + 1]]
  /\ restart' = [restart EXCEPT ![x] = NoRestart]
  /\ monitor' = IF x = Monitor THEN NextTracker ELSE monitor
  /\ UNCHANGED <<taskVars, lockVars, suppressed, podmanVars, value>> /\ Free

(* The restart raises.  The handler and the monitor's restart of a stopped *)
(* container log it, except that a container that is not found deletes the *)
(* tracker; the monitor's restart of a marked tracker ends the monitor.    *)
Raises(x, ifRestarting) ==
  /\ restart' = [restart EXCEPT ![x] = NoRestart]
  /\ IF x = Handler
     THEN UNCHANGED <<taskVars, lockVars, suppressed, podmanVars, value, monitor,
                      tracker, budget>>
     ELSE IF monitor.pc = "remounting" THEN MonitorIs(Dead) /\ UNCHANGED tracker
     ELSE ifRestarting

RestartRaises(x) ==
  /\ \/ Restarting(x, "creating") /\ current = None
     \/ Restarting(x, "linking") /\ ~tracker[restart[x].op].listed
  /\ Raises(x, MonitorIs(NextTracker) /\ UNCHANGED tracker)

RestartFindsNone(x) ==
  /\ Restarting(x, "starting")
  /\ ~Holds(restart[x].op, restart[x].id)
  /\ Raises(x, Delete(restart[x].op, Dead))

------------------------------------------------------------------------------
(* A container exits; podman removes it a little later.                    *)
Exit(o) ==
  /\ IsUp(o)
  /\ container' = [container EXCEPT ![o].state = "exited"]
  /\ UNCHANGED <<taskVars, lockVars, suppressed, tracker, monitor, restart, made,
                 value>> /\ Spend("exit")

AutoRemove(o) ==
  /\ container[o] # None /\ container[o].state = "exited"
  /\ container' = [container EXCEPT ![o] = None]
  /\ UNCHANGED <<taskVars, lockVars, suppressed, tracker, monitor, restart, made,
                 value>> /\ Free

(* handle_parameter_update of a remount task, which lives as long as its   *)
(* deployment's context.                                                   *)
Remount(o) ==
  /\ Up /\ launch[o] = "done"
  /\ value' = [value EXCEPT ![o] = @ + 1]
  /\ tracker' = [tracker EXCEPT ![o].marked = TRUE]
  /\ UNCHANGED <<taskVars, lockVars, suppressed, monitor, restart, podmanVars>>
  /\ Spend("remount")

------------------------------------------------------------------------------
(* request_shutdown, and the shutdown hook that app.exit leads to.         *)
RequestShutdown ==
  /\ ~quit
  /\ quit' = TRUE
  /\ hook' = "locking"
  /\ UNCHANGED <<taskVars, lock, handler, suppressed, tracker, monitor, restart,
                 podmanVars, value>> /\ Free

(* Mutant of HookLocks: no wait for the deployment.                         *)
HookCleansAtOnce ==
  /\ hook = "locking" /\ lock = None
  /\ hook' = "cleaning"
  /\ cleanup' = [cleanup EXCEPT ![Hook].pc = "clearing"]
  /\ UNCHANGED <<current, task, cancelled, launch, lock, handler, quit, suppressed,
                 tracker, monitor, restart, podmanVars, value>> /\ Free

HookLocks ==
  /\ hook = "locking" /\ lock = None
  /\ IF current = None
     THEN /\ hook' = "cleaning"
          /\ cleanup' = [cleanup EXCEPT ![Hook].pc = "clearing"]
          /\ UNCHANGED <<cancelled, lock>>
     ELSE /\ Cancel(current)
          /\ lock' = Hook
          /\ hook' = "waiting"
          /\ UNCHANGED cleanup
  /\ UNCHANGED <<current, task, launch, handler, quit, suppressed, tracker, monitor,
                 restart, podmanVars, value>> /\ Free

HookCleans ==
  /\ hook = "waiting"
  /\ ~Running(current)
  /\ current' = None
  /\ lock' = None
  /\ hook' = "cleaning"
  /\ cleanup' = [cleanup EXCEPT ![Hook].pc = "clearing"]
  /\ UNCHANGED <<task, cancelled, launch, handler, quit, suppressed, tracker,
                 monitor, restart, podmanVars, value>> /\ Free

(* The process ends, whatever its other tasks were doing.                  *)
HookEnds ==
  /\ hook = "cleaning" /\ CleanedUp(Hook)
  /\ hook' = "gone"
  /\ cleanup' = [cleanup EXCEPT ![Hook] = NoCleanup]
  /\ suppressed' = FALSE
  /\ UNCHANGED <<current, task, cancelled, launch, lock, handler, quit, tracker,
                 monitor, restart, podmanVars, value>> /\ Free

(* Podman fails in that cleanup: the exception leaves the hook and ends the*)
(* process.  A put that fails is only logged by now.                       *)
HookFails ==
  /\ hook = "cleaning" /\ cleanup[Hook].pc \in {"listing", "removing"}
  /\ hook' = "failed"
  /\ cleanup' = [cleanup EXCEPT ![Hook] = NoCleanup]
  /\ suppressed' = FALSE
  /\ UNCHANGED <<current, task, cancelled, launch, lock, handler, quit, tracker,
                 monitor, restart, podmanVars, value>> /\ Spend("error")

------------------------------------------------------------------------------
DeploymentStep(d) == Launch(d) \/ Runs(d) \/ Interrupted(d) \/ Ends(d)
OperatorStep(o)   == LaunchCreate(o) \/ LaunchStart(o)
CleanupStep(c)    == Clear(c) \/ List(c) \/ RemoveListed(c)
HandlerStep       == Replace \/ Stopped \/ RestartNext \/ RestartsDone
MonitorStep       == Wake \/ PassDone \/ (\E o \in Operators : Look(o))
                     \/ CheckUp \/ CheckGone \/ CheckStopped \/ Report
RestartStep(x)    == RestartRemove(x) \/ RestartCreate(x) \/ RestartStart(x)
                     \/ RestartLink(x) \/ RestartRaises(x) \/ RestartFindsNone(x)
HookStep          == HookLocks \/ HookCleans \/ HookEnds

Command == (\E d \in Deployments : Assign(d)) \/ Stop \/ RestartCommand
           \/ RequestShutdown
Trouble == \/ \E d \in Deployments : Fails(d) \/ TeardownFails(d)
           \/ HookFails
           \/ \E o \in Operators : Exit(o) \/ AutoRemove(o) \/ Remount(o)

Works ==
  \/ \E d \in Deployments : DeploymentStep(d)
  \/ \E o \in Operators : OperatorStep(o)
  \/ \E c \in Cleaners : CleanupStep(c)
  \/ HandlerStep \/ MonitorStep \/ HookStep
  \/ \E x \in {Handler, Monitor} : RestartStep(x)

Next == Works \/ Command \/ Trouble

Spec == Init /\ [][Next]_vars

(* Every task of the event loop goes on while it can, and podman answers.  *)
Fairness ==
  /\ \A d \in Deployments : WF_vars(DeploymentStep(d))
  /\ \A o \in Operators : WF_vars(OperatorStep(o))
  /\ \A c \in Cleaners : WF_vars(CleanupStep(c))
  /\ WF_vars(HandlerStep) /\ WF_vars(HookStep)
  /\ \A x \in {Handler, Monitor} : WF_vars(RestartStep(x))

FairSpec == Spec /\ Fairness

------------------------------------------------------------------------------
(* A deployment task is over, its teardown included, before the next one   *)
(* begins: receive_assignment waits for it while it holds the lock.        *)
OneTaskAtATime ==
  \A d, e \in Deployments : Running(d) /\ Running(e) => d = e

(* container_trackers holds operators of the deployment whose task is      *)
(* there, and of one whose teardown failed.                                *)
TrackedIsCurrent ==
  \A o \in Listed : (o[1] = current /\ Running(current)) \/ task[o[1]] = "failed"

(* Without restarts, what runs belongs to the deployment whose task is     *)
(* there ("Clear trackers first to avoid restarts", says the cleanup), or  *)
(* to one whose teardown failed, and that only until the next deployment   *)
(* has been cleaned up for.                                                *)
NoStrays ==
  \A o \in Operators : IsUp(o) =>
    \/ o[1] = current /\ Running(current)
    \/ /\ task[o[1]] = "failed"
       /\ current # None => task[current] \notin {"launching", "running"}

(* The agent leaves no running container behind: what a teardown that      *)
(* failed could not remove is removed by the shutdown, if that succeeds.   *)
LeavesNothing == hook = "gone" => \A o \in Operators : ~IsUp(o)

(* A tracked container that stays up has the mounts last asked for, or is  *)
(* about to be restarted ("Mark for restart").                             *)
(* Promised and not kept: see the README, further divergences.             *)
MountsApplied ==
  \A o \in Listed :
    \/ ~IsUp(o) \/ container[o].mount = value[o]
    \/ tracker[o].marked
    \/ \E x \in {Handler, Monitor} : restart[x] # NoRestart /\ restart[x].op = o

(* The monitor ends only when the agent shuts down: a container that is    *)
(* not found costs its tracker ("Remove the tracker if the container is    *)
(* not found"), not the monitor.                                           *)
(* Promised and not kept: see the README, further divergences.             *)
MonitorLives == monitor.pc # "dead"

(* Containers do not multiply: beside the first there is one for each      *)
(* mount update and each restart asked for, and for what exits on its own  *)
(* MAX_RESTARTS at most, however the three overlap.                        *)
RestartsAreBounded ==
  \A o \in Operators :
    made[o] <= 1 + MAX_RESTARTS + value[o] + (MaxOperatorRestarts - budget.restart)

(* Every command that waits for a task gets its turn, and a shutdown ends  *)
(* the agent: nobody waits for a task that waits for the lock.             *)
HandlerFree == handler.pc = "idle" \/ ~Up
CommandsEnd == []<>HandlerFree

LeftIfAsked == quit => ~Up
ShutdownEnds == []<>LeftIfAsked
==============================================================================
