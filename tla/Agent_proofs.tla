----------------------------- MODULE Agent_proofs -----------------------------
(***************************************************************************)
(* The agent has one deployment at a time, leaves no container behind, and *)
(* makes no more of them than it has reasons to, for any deployments and   *)
(* operators and any budget of exits, mount updates, restarts, stops and   *)
(* errors.                                                                 *)
(***************************************************************************)
EXTENDS Agent, FiniteSetTheorems, SequenceTheorems, TLAPS

------------------------------------------------------------------------------
(* The tasks of the agent.                                                 *)
AgentOperators == Operators
AgentTracker == [id : Nat, marked : BOOLEAN, restarts : Nat, listed : BOOLEAN]
AgentContainer == [id : Nat, state : {"created", "up", "exited"}, mount : Nat]
AgentCleanup ==
  [pc : {"off", "clearing", "listing", "removing"}, left : SUBSET (AgentOperators \X Nat)]
AgentHandler ==
  [pc : {"idle", "stopping", "replacing", "restarting"}, depl : Deployments \cup {None},
   left : SUBSET AgentOperators]
AgentMonitor ==
  [pc : {"sleeping", "walking", "checking", "remounting", "restarting", "reporting", "ended",
         "dead"},
   left : SUBSET AgentOperators, op : AgentOperators \cup {None}]
AgentRestart ==
  [pc : {"removing", "creating", "starting", "linking"}, op : AgentOperators, id : Nat]

TasksTyped ==
  /\ current \in Deployments \cup {None}
  /\ task \in [Deployments ->
       {"none", "cleaning", "launching", "running", "closing", "done", "failed"}]
  /\ cleanup \in [Deployments \cup {"hook"} -> AgentCleanup]
  /\ launch \in [AgentOperators -> {"off", "creating", "starting", "done"}]
  /\ handler \in AgentHandler
TrackersTyped ==
  /\ tracker \in [AgentOperators -> {None} \cup AgentTracker]
  /\ monitor \in AgentMonitor
  /\ restart \in [{"handler", "monitor"} -> {[pc |-> "off"]} \cup AgentRestart]
PodmanTyped ==
  /\ container \in [AgentOperators -> {None} \cup AgentContainer]
  /\ made \in [AgentOperators -> Nat]
  /\ value \in [AgentOperators -> Nat]

(* A task that is there is the one of the current deployment.              *)
RunsCurrent == \A d \in Deployments : Running(d) => d = current

(* Who has the lock: a command that waits for a task, or the shutdown.     *)
LockHeld ==
  /\ handler.pc = "replacing" =>
       /\ lock = "handler" /\ handler.depl \in Deployments
       /\ task[handler.depl] = "none"
  /\ handler.pc = "stopping" => lock = "handler"
  /\ hook = "waiting" => lock = "hook"
  /\ hook # "off" => quit
  /\ hook \in {"cleaning", "gone", "failed"} =>
       handler.pc # "replacing" /\ \A d \in Deployments : ~Running(d)

(* Operators are started by the task of their deployment, once all is clean*)
LaunchedByTask ==
  \A o \in AgentOperators :
    /\ launch[o] # "off" => task[o[1]] \in {"launching", "running"}
    /\ launch[o] \in {"creating", "starting"} => task[o[1]] = "launching"
CleanedByTask ==
  /\ \A d \in Deployments :
       /\ cleanup[d].pc # "off" => task[d] \in {"cleaning", "closing"}
       /\ cleanup[d].left # {} => cleanup[d].pc = "removing"
  /\ cleanup["hook"].pc # "off" => hook = "cleaning"
  /\ cleanup["hook"].left # {} => cleanup["hook"].pc = "removing"

(* Whoever has an operator's tracker in hand finds one, which was made when*)
(* the container first started.                                            *)
Tracked ==
  /\ \A o \in AgentOperators :
       /\ tracker[o] # None =>
            task[o[1]] \notin {"none", "cleaning"} /\ launch[o] \notin {"creating", "starting"}
       /\ launch[o] = "done" => tracker[o] # None
  /\ \A o \in monitor.left \cup handler.left : tracker[o] # None
  /\ monitor.op # None => tracker[monitor.op] # None
  /\ \A x \in {"handler", "monitor"} :
       restart[x].pc # "off" => tracker[restart[x].op] # None
InHand ==
  /\ monitor.op \notin monitor.left
  /\ monitor.op = None <=> monitor.pc \in {"sleeping", "walking", "ended", "dead"}
  /\ restart["monitor"].pc # "off" <=> monitor.pc \in {"remounting", "restarting"}
  /\ restart["monitor"].pc # "off" => restart["monitor"].op = monitor.op
  /\ restart["handler"].pc # "off" =>
       handler.pc = "restarting" /\ restart["handler"].op \notin handler.left
Started ==
  \A o \in AgentOperators :
    launch[o] = "starting" => container[o] # None /\ container[o].state = "created"

(* A teardown that has cleared the trackers finds none again.              *)
ClearedStays ==
  \A d \in Deployments :
    task[d] = "closing" /\ cleanup[d].pc \in {"listing", "removing"} => Listed = {}

AgentInv ==
  /\ TasksTyped /\ TrackersTyped /\ PodmanTyped
  /\ RunsCurrent /\ LockHeld /\ LaunchedByTask /\ CleanedByTask
  /\ Tracked /\ InHand /\ Started /\ ClearedStays /\ TrackedIsCurrent

(* Without restarts: what a tracker follows was started, what is up belongs*)
(* to the task that is there or to one whose teardown failed, only to the  *)
(* first once that one launches, and a cleanup has still to remove it.     *)
BudgetTyped == budget \in [{"exit", "remount", "restart", "stop", "error"} -> Nat]
NoRestarts ==
  /\ BudgetTyped
  /\ restart = [x \in {"handler", "monitor"} |-> [pc |-> "off"]]
  /\ budget["exit"] = 0 /\ budget["remount"] = 0 /\ budget["restart"] = 0
  /\ \A o \in AgentOperators : tracker[o] # None =>
       /\ ~tracker[o].marked
       /\ Holds(o, tracker[o].id) => IsUp(o)
  /\ handler.pc # "restarting"
UpIsAccounted ==
  /\ \A o \in AgentOperators : IsUp(o) => Running(o[1]) \/ task[o[1]] = "failed"
  /\ \A o \in AgentOperators, d \in Deployments :
       IsUp(o) /\ task[d] \in {"launching", "running"} => o[1] = d
  /\ \A c \in Deployments \cup {"hook"} : cleanup[c].pc = "removing" =>
       \A o \in AgentOperators : IsUp(o) => <<o, container[o].id>> \in cleanup[c].left
  /\ hook = "gone" => \A o \in AgentOperators : ~IsUp(o)

(* What may still be made of an operator: its first container, one for the *)
(* restart command under way, one for a mount update that is not applied   *)
(* yet, and what is left of its MAX_RESTARTS.                              *)
InRestart(x, o, pcs) == restart[x].pc \in pcs /\ restart[x].op = o
OwedByLaunch(o) ==
  IF task[o[1]] \in {"none", "cleaning"} \/ launch[o] = "creating" THEN 1 ELSE 0
OwedByHandler(o) ==
  IF o \in handler.left \/ InRestart("handler", o, {"removing", "creating"}) THEN 1 ELSE 0
OwedByRemount(o) ==
  IF /\ tracker[o] # None /\ tracker[o].marked /\ monitor.pc # "dead"
     /\ ~(monitor.pc = "remounting" /\ InRestart("monitor", o, {"starting", "linking"}))
  THEN 1 ELSE 0
Watched(o) ==
  /\ monitor.pc # "dead"
  /\ tracker[o].listed \/ o \in monitor.left \/ monitor.op = o
OwedByMonitor(o) ==
  IF tracker[o] = None THEN MAX_RESTARTS
  ELSE IF monitor.pc = "restarting" /\ InRestart("monitor", o, {"starting", "linking"})
       THEN MAX_RESTARTS - (tracker[o].restarts + 1)
  ELSE IF Watched(o) THEN MAX_RESTARTS - tracker[o].restarts
  ELSE 0
Owed(o) == OwedByLaunch(o) + OwedByHandler(o) + OwedByRemount(o) + OwedByMonitor(o)

Counted ==
  /\ BudgetTyped
  /\ budget["restart"] <= MaxOperatorRestarts
  /\ \A o \in AgentOperators : tracker[o] # None => tracker[o].restarts <= MAX_RESTARTS
  /\ monitor.pc = "remounting" => tracker[monitor.op].marked
  /\ monitor.pc = "restarting" => tracker[monitor.op].restarts < MAX_RESTARTS
MadeIsBounded ==
  \A o \in AgentOperators :
    made[o] + Owed(o)
      <= 1 + MAX_RESTARTS + value[o] + (MaxOperatorRestarts - budget["restart"])

CleaningInv == AgentInv /\ NoRestarts /\ UpIsAccounted
RestartsInv == AgentInv /\ Counted /\ MadeIsBounded

(* The absent value is none of the others.                                 *)
LEMMA NoneIsNothing ==
  ASSUME AgentAssumption
  PROVE  /\ None \notin AgentTracker /\ None \notin AgentContainer
         /\ None \notin AgentOperators /\ None \notin Deployments
         /\ None # "handler" /\ None # "hook" /\ "hook" \notin Deployments
BY DEF AgentAssumption, Trackers, Containers, AgentTracker,
  AgentContainer, AgentOperators, Handler, Hook

(* A task ends, or its teardown raises; the shutdown hook ends, or raises.  *)
Finishes(d) == Ends(d) \/ TeardownFails(d)
HookFinishes == HookEnds \/ HookFails

(* The steps of the agent, one by one.                                     *)
LEMMA AgentNextCases ==
  ASSUME [Next]_vars
  PROVE  \/ \E d \in Deployments : Launch(d)
         \/ \E d \in Deployments : Runs(d)
         \/ \E d \in Deployments : Interrupted(d)
         \/ \E d \in Deployments : Fails(d)
         \/ \E d \in Deployments : Finishes(d)
         \/ \E d \in Deployments : Assign(d)
         \/ Replace
         \/ Stopped
         \/ Stop
         \/ \E o \in AgentOperators : LaunchCreate(o)
         \/ \E o \in AgentOperators : LaunchStart(o)
         \/ \E c \in Deployments \cup {"hook"} : Clear(c)
         \/ \E c \in Deployments \cup {"hook"} : List(c)
         \/ \E c \in Deployments \cup {"hook"} : RemoveListed(c)
         \/ RestartCommand
         \/ RestartNext
         \/ RestartsDone
         \/ Wake
         \/ PassDone
         \/ \E o \in AgentOperators : Look(o)
         \/ CheckUp
         \/ CheckGone
         \/ CheckStopped
         \/ Report
         \/ \E x \in {"handler", "monitor"} : RestartRemove(x)
         \/ \E x \in {"handler", "monitor"} : RestartCreate(x)
         \/ \E x \in {"handler", "monitor"} : RestartStart(x)
         \/ \E x \in {"handler", "monitor"} : RestartLink(x)
         \/ \E x \in {"handler", "monitor"} : RestartRaises(x)
         \/ \E x \in {"handler", "monitor"} : RestartFindsNone(x)
         \/ \E o \in AgentOperators : Exit(o)
         \/ \E o \in AgentOperators : AutoRemove(o)
         \/ \E o \in AgentOperators : Remount(o)
         \/ RequestShutdown
         \/ HookLocks
         \/ HookCleans
         \/ HookFinishes
         \/ UNCHANGED vars
BY DEF AgentOperators, Next, Works, Command, Trouble,
  DeploymentStep, OperatorStep, CleanupStep, HandlerStep,
  MonitorStep, RestartStep, HookStep, Cleaners,
  Operators, Handler, Monitor, Hook, Finishes, HookFinishes

(* Who changes what.                                                       *)
LEMMA TasksFrame ==
  ASSUME [Next]_vars
  PROVE  \/ UNCHANGED <<current, task, cancelled, cleanup, launch, lock, handler, hook, quit>>
         \/ \E d \in Deployments : Launch(d)
         \/ \E d \in Deployments : Runs(d)
         \/ \E d \in Deployments : Interrupted(d)
         \/ \E d \in Deployments : Fails(d)
         \/ \E d \in Deployments : Finishes(d)
         \/ \E d \in Deployments : Assign(d)
         \/ Replace
         \/ Stopped
         \/ Stop
         \/ \E o \in AgentOperators : LaunchCreate(o)
         \/ \E o \in AgentOperators : LaunchStart(o)
         \/ \E c \in Deployments \cup {"hook"} : Clear(c)
         \/ \E c \in Deployments \cup {"hook"} : List(c)
         \/ \E c \in Deployments \cup {"hook"} : RemoveListed(c)
         \/ RestartCommand
         \/ RestartNext
         \/ RestartsDone
         \/ RequestShutdown
         \/ HookLocks
         \/ HookCleans
         \/ HookFinishes
<1>1. CASE \/ Wake
           \/ PassDone
           \/ \E o \in AgentOperators : Look(o)
           \/ CheckUp
           \/ CheckGone
  BY <1>1 DEF Wake, Up, MonitorIs, NextPass, Resting,
    Free, vars, taskVars, lockVars, podmanVars,
    PassDone, Look, BeginRestart, Monitor, CheckUp,
    NextTracker, Holds, IsUp, CheckGone, Delete,
    Dead
<1>2. CASE \/ CheckStopped
           \/ Report
           \/ \E x \in {"handler", "monitor"} : RestartRemove(x)
           \/ \E x \in {"handler", "monitor"} : RestartCreate(x)
           \/ \E x \in {"handler", "monitor"} : RestartStart(x)
  BY <1>2 DEF CheckStopped, Up, MonitorIs, Holds, IsUp,
    BeginRestart, Monitor, Free, vars, taskVars,
    lockVars, podmanVars, Report, NextTracker, Delete,
    RestartRemove, Restarting, Remove, RestartCreate,
    Create, RestartStart, StartContainer
<1>3. CASE \/ \E x \in {"handler", "monitor"} : RestartLink(x)
           \/ \E x \in {"handler", "monitor"} : RestartRaises(x)
           \/ \E x \in {"handler", "monitor"} : RestartFindsNone(x)
           \/ \E o \in AgentOperators : Exit(o)
           \/ \E o \in AgentOperators : AutoRemove(o)
  BY <1>3 DEF RestartLink, Restarting, Up, Handler,
    Monitor, NoRestart, NextTracker, Free, vars,
    taskVars, lockVars, podmanVars, RestartRaises,
    Raises, MonitorIs, Dead, Resting, RestartFindsNone,
    Holds, Delete, Exit, IsUp, Spend, AutoRemove
<1>4. CASE \/ \E o \in AgentOperators : Remount(o)
  BY <1>4 DEF Remount, Up, Spend, vars, taskVars,
    lockVars, podmanVars
<1>5. CASE UNCHANGED vars
  BY <1>5 DEF vars, taskVars, lockVars, podmanVars
<1>6. QED
  BY <1>1, <1>2, <1>3, <1>4, <1>5, AgentNextCases

LEMMA TrackersFrame ==
  ASSUME [Next]_vars
  PROVE  \/ UNCHANGED <<tracker, monitor, restart>>
         \/ \E o \in AgentOperators : LaunchStart(o)
         \/ \E c \in Deployments \cup {"hook"} : Clear(c)
         \/ RestartNext
         \/ Wake
         \/ PassDone
         \/ \E o \in AgentOperators : Look(o)
         \/ CheckUp
         \/ CheckGone
         \/ CheckStopped
         \/ Report
         \/ \E x \in {"handler", "monitor"} : RestartRemove(x)
         \/ \E x \in {"handler", "monitor"} : RestartCreate(x)
         \/ \E x \in {"handler", "monitor"} : RestartStart(x)
         \/ \E x \in {"handler", "monitor"} : RestartLink(x)
         \/ \E x \in {"handler", "monitor"} : RestartRaises(x)
         \/ \E x \in {"handler", "monitor"} : RestartFindsNone(x)
         \/ \E o \in AgentOperators : Remount(o)
<1>1. CASE \/ \E d \in Deployments : Launch(d)
           \/ \E d \in Deployments : Runs(d)
           \/ \E d \in Deployments : Interrupted(d)
           \/ \E d \in Deployments : Fails(d)
           \/ \E d \in Deployments : Finishes(d)
  BY <1>1 DEF Launch, Up, CleanedUp, NoCleanup, Of, Free, vars,
    taskVars, lockVars, podmanVars, Runs, Interrupted, Unwind,
    Live, Fails, Spend, Finishes, Ends, TeardownFails
<1>2. CASE \/ \E d \in Deployments : Assign(d)
           \/ Replace
           \/ Stopped
           \/ Stop
           \/ \E o \in AgentOperators : LaunchCreate(o)
  BY <1>2 DEF Assign, Up, Running, Live, Cancel,
    Begin, Handler, Free, vars, taskVars,
    lockVars, podmanVars, Replace, Waiting, Stopped,
    Stop, Spend, LaunchCreate, Create
<1>3. CASE \/ \E c \in Deployments \cup {"hook"} : List(c)
           \/ \E c \in Deployments \cup {"hook"} : RemoveListed(c)
           \/ RestartCommand
           \/ RestartsDone
           \/ \E o \in AgentOperators : Exit(o)
  BY <1>3 DEF List, Up, Free, vars, taskVars,
    lockVars, podmanVars, RemoveListed, Remove, Holds,
    RestartCommand, Running, Live, Waiting, Spend,
    RestartsDone, Handler, NoRestart, Exit, IsUp
<1>4. CASE \/ \E o \in AgentOperators : AutoRemove(o)
           \/ RequestShutdown
           \/ HookLocks
           \/ HookCleans
           \/ HookFinishes
  BY <1>4 DEF AutoRemove, Free, vars, taskVars, lockVars,
    podmanVars, RequestShutdown, HookLocks, Cancel, Hook,
    HookCleans, Running, Live, HookFinishes, HookEnds,
    HookFails, Spend, CleanedUp, NoCleanup
<1>5. CASE UNCHANGED vars
  BY <1>5 DEF vars, taskVars, lockVars, podmanVars
<1>6. QED
  BY <1>1, <1>2, <1>3, <1>4, <1>5, AgentNextCases

LEMMA PodmanFrame ==
  ASSUME [Next]_vars
  PROVE  \/ UNCHANGED <<container, made, value>>
         \/ \E o \in AgentOperators : LaunchCreate(o)
         \/ \E o \in AgentOperators : LaunchStart(o)
         \/ \E c \in Deployments \cup {"hook"} : RemoveListed(c)
         \/ \E x \in {"handler", "monitor"} : RestartRemove(x)
         \/ \E x \in {"handler", "monitor"} : RestartCreate(x)
         \/ \E x \in {"handler", "monitor"} : RestartStart(x)
         \/ \E o \in AgentOperators : Exit(o)
         \/ \E o \in AgentOperators : AutoRemove(o)
         \/ \E o \in AgentOperators : Remount(o)
<1>1. CASE \/ \E d \in Deployments : Launch(d)
           \/ \E d \in Deployments : Runs(d)
           \/ \E d \in Deployments : Interrupted(d)
           \/ \E d \in Deployments : Fails(d)
           \/ \E d \in Deployments : Finishes(d)
  BY <1>1 DEF Launch, Up, CleanedUp, NoCleanup, Of, Free, vars,
    taskVars, lockVars, podmanVars, Runs, Interrupted, Unwind,
    Live, Fails, Spend, Finishes, Ends, TeardownFails
<1>2. CASE \/ \E d \in Deployments : Assign(d)
           \/ Replace
           \/ Stopped
           \/ Stop
           \/ \E c \in Deployments \cup {"hook"} : Clear(c)
  BY <1>2 DEF Assign, Up, Running, Live, Cancel,
    Begin, Handler, Free, vars, taskVars,
    lockVars, podmanVars, Replace, Waiting, Stopped,
    Stop, Spend, Clear
<1>3. CASE \/ \E c \in Deployments \cup {"hook"} : List(c)
           \/ RestartCommand
           \/ RestartNext
           \/ RestartsDone
           \/ Wake
  BY <1>3 DEF List, Up, Free, vars, taskVars,
    lockVars, podmanVars, RestartCommand, Running, Live,
    Waiting, Spend, RestartNext, BeginRestart, Handler,
    NoRestart, RestartsDone, Wake, MonitorIs, NextPass,
    Resting
<1>4. CASE \/ PassDone
           \/ \E o \in AgentOperators : Look(o)
           \/ CheckUp
           \/ CheckGone
           \/ CheckStopped
  BY <1>4 DEF PassDone, Up, MonitorIs, NextPass, Resting,
    Free, vars, taskVars, lockVars, podmanVars,
    Look, BeginRestart, Monitor, CheckUp, NextTracker,
    Holds, IsUp, CheckGone, Delete, Dead,
    CheckStopped
<1>5. CASE \/ Report
           \/ \E x \in {"handler", "monitor"} : RestartLink(x)
           \/ \E x \in {"handler", "monitor"} : RestartRaises(x)
           \/ \E x \in {"handler", "monitor"} : RestartFindsNone(x)
           \/ RequestShutdown
  BY <1>5 DEF Report, Up, MonitorIs, NextTracker, Delete,
    Free, vars, taskVars, lockVars, podmanVars,
    RestartLink, Restarting, Handler, Monitor, NoRestart,
    RestartRaises, Raises, Dead, Resting,
    RestartFindsNone, Holds, RequestShutdown
<1>6. CASE \/ HookLocks
           \/ HookCleans
           \/ HookFinishes
  BY <1>6 DEF HookLocks, Cancel, Hook, Free, vars, taskVars,
    lockVars, podmanVars, HookCleans, Running, Live,
    HookFinishes, HookEnds, HookFails, Spend, CleanedUp,
    NoCleanup
<1>7. CASE UNCHANGED vars
  BY <1>7 DEF vars, taskVars, lockVars, podmanVars
<1>8. QED
  BY <1>1, <1>2, <1>3, <1>4, <1>5, <1>6, <1>7, AgentNextCases

LEMMA TasksTypedStep ==
  ASSUME TasksTyped, PodmanTyped, LockHeld, [Next]_vars
  PROVE  TasksTyped'
<1>1. CASE \E d \in Deployments : Launch(d)
  BY <1>1 DEF Launch, Up, CleanedUp, NoCleanup, Of,
    Free, vars, taskVars, lockVars, podmanVars,
    TasksTyped, PodmanTyped, AgentCleanup, AgentHandler, AgentOperators
<1>2. CASE \E d \in Deployments : Runs(d)
  BY <1>2 DEF Runs, Up, Of, Free, vars, taskVars,
    lockVars, podmanVars, TasksTyped, PodmanTyped, AgentCleanup,
    AgentHandler, AgentOperators
<1>3. CASE \E d \in Deployments : Interrupted(d)
  BY <1>3 DEF Interrupted, Unwind, Up, Live, Of,
    Free, vars, taskVars, lockVars, podmanVars,
    TasksTyped, PodmanTyped, AgentCleanup, AgentHandler, AgentOperators
<1>4. CASE \E d \in Deployments : Fails(d)
  BY <1>4 DEF Fails, Unwind, Up, Live, Of, Spend,
    vars, taskVars, lockVars, podmanVars, TasksTyped,
    PodmanTyped, AgentCleanup, AgentHandler, AgentOperators
<1>5. CASE \E d \in Deployments : Finishes(d)
  BY <1>5 DEF Finishes, Ends, TeardownFails, Spend, Up,
    CleanedUp, NoCleanup, Free, vars, taskVars, lockVars,
    podmanVars, TasksTyped, PodmanTyped, AgentCleanup,
    AgentHandler, AgentOperators
<1>6. CASE \E d \in Deployments : Assign(d)
  <2>1. PICK d \in Deployments : Assign(d)
    BY <1>6
  <2>2. CASE Running(current)
    <3>1. handler' = [handler EXCEPT !.pc = "replacing", !.depl = d]
      BY <2>1, <2>2 DEF Assign
    <3>2. handler' \in AgentHandler
      BY <3>1 DEF TasksTyped, AgentHandler
    <3>3. UNCHANGED <<current, task, cleanup, launch>>
      BY <2>1, <2>2 DEF Assign
    <3>4. QED
      BY <3>2, <3>3 DEF TasksTyped
  <2>3. CASE ~Running(current)
    <3>1. Begin(d) /\ UNCHANGED <<handler, launch>>
      BY <2>1, <2>3 DEF Assign
    <3>2. QED
      BY <3>1 DEF TasksTyped, Begin, AgentCleanup
  <2>4. QED
    BY <2>2, <2>3
<1>7. CASE Replace
  <2>1. handler.depl \in Deployments
    BY <1>7 DEF LockHeld, Replace
  <2>2. Begin(handler.depl) /\ handler' = Waiting /\ UNCHANGED launch
    BY <1>7 DEF Replace
  <2>3. handler' \in AgentHandler
    BY <2>2 DEF AgentHandler, Waiting
  <2>4. QED
    BY <2>1, <2>2, <2>3 DEF TasksTyped, Begin, AgentCleanup
<1>8. CASE Stopped
  BY <1>8 DEF Stopped, Up, Running, Live, Waiting,
    Free, vars, taskVars, lockVars, podmanVars,
    TasksTyped, PodmanTyped, AgentCleanup, AgentHandler, AgentOperators
<1>9. CASE Stop
  BY <1>9 DEF Stop, Up, Cancel, Handler, Spend,
    vars, taskVars, lockVars, podmanVars, TasksTyped,
    PodmanTyped, AgentCleanup, AgentHandler, AgentOperators
<1>10. CASE \E o \in AgentOperators : LaunchCreate(o)
  BY <1>10 DEF LaunchCreate, Up, Create, Free, vars,
    taskVars, lockVars, podmanVars, TasksTyped, PodmanTyped,
    AgentCleanup, AgentHandler, AgentOperators
<1>11. CASE \E o \in AgentOperators : LaunchStart(o)
  BY <1>11 DEF LaunchStart, Up, StartContainer, Free,
    vars, taskVars, lockVars, podmanVars, TasksTyped,
    PodmanTyped, AgentCleanup, AgentHandler, AgentOperators
<1>12. CASE \E c \in Deployments \cup {"hook"} : Clear(c)
  BY <1>12 DEF Clear, Up, Free, vars, taskVars,
    lockVars, podmanVars, TasksTyped, PodmanTyped, AgentCleanup,
    AgentHandler, AgentOperators
<1>13. CASE \E c \in Deployments \cup {"hook"} : List(c)
  <2>1. PICK c \in Deployments \cup {"hook"} : List(c)
    BY <1>13
  <2> DEFINE left == {<<o, container[o].id>> : o \in {p \in Operators : IsUp(p)}}
  <2>2. \A o \in Operators : IsUp(o) => container[o].id \in Nat
    BY DEF PodmanTyped, AgentOperators, AgentContainer, IsUp
  <2>3. left \subseteq Operators \X Nat
    BY <2>2
  <2>4. cleanup' = [cleanup EXCEPT ![c] = [pc |-> "removing", left |-> left]]
    BY <2>1 DEF List
  <2> HIDE DEF left
  <2>5. cleanup' \in [Deployments \cup {"hook"} -> AgentCleanup]
    BY <2>3, <2>4 DEF TasksTyped, AgentCleanup, AgentOperators
  <2>6. UNCHANGED <<current, task, launch, handler>>
    BY <2>1 DEF List, lockVars
  <2>7. QED
    BY <2>5, <2>6 DEF TasksTyped
<1>14. CASE \E c \in Deployments \cup {"hook"} : RemoveListed(c)
  BY <1>14 DEF RemoveListed, Up, Remove, Holds, Free,
    vars, taskVars, lockVars, podmanVars, TasksTyped,
    PodmanTyped, AgentCleanup, AgentHandler, AgentOperators
<1>15. CASE RestartCommand
  <2>1. PICK S \in SUBSET Listed :
          handler' = [Waiting EXCEPT !.pc = "restarting", !.left = S]
    BY <1>15 DEF RestartCommand
  <2>2. S \in SUBSET AgentOperators
    BY DEF Listed, AgentOperators
  <2>3. handler' \in AgentHandler
    BY <2>1, <2>2 DEF Waiting, AgentHandler
  <2>4. UNCHANGED <<current, task, cleanup, launch>>
    BY <1>15 DEF RestartCommand, taskVars
  <2>5. QED
    BY <2>3, <2>4 DEF TasksTyped
<1>16. CASE RestartNext
  <2>1. PICK o \in handler.left : handler' = [handler EXCEPT !.left = @ \ {o}]
    BY <1>16 DEF RestartNext
  <2>2. handler' \in AgentHandler
    BY <2>1 DEF TasksTyped, AgentHandler
  <2>3. UNCHANGED <<current, task, cleanup, launch>>
    BY <1>16 DEF RestartNext, taskVars
  <2>4. QED
    BY <2>2, <2>3 DEF TasksTyped
<1>17. CASE RestartsDone
  BY <1>17 DEF RestartsDone, Up, Waiting, Handler,
    NoRestart, Free, vars, taskVars, lockVars,
    podmanVars, TasksTyped, PodmanTyped, AgentCleanup, AgentHandler,
    AgentOperators
<1>18. CASE RequestShutdown
  BY <1>18 DEF RequestShutdown, Free, vars, taskVars,
    lockVars, podmanVars, TasksTyped, PodmanTyped, AgentCleanup,
    AgentHandler, AgentOperators
<1>19. CASE HookLocks
  BY <1>19 DEF HookLocks, Cancel, Hook, Free, vars,
    taskVars, lockVars, podmanVars, TasksTyped, PodmanTyped,
    AgentCleanup, AgentHandler, AgentOperators
<1>20. CASE HookCleans
  BY <1>20 DEF HookCleans, Running, Live, Hook, Free,
    vars, taskVars, lockVars, podmanVars, TasksTyped,
    PodmanTyped, AgentCleanup, AgentHandler, AgentOperators
<1>21. CASE HookFinishes
  BY <1>21 DEF HookFinishes, HookEnds, HookFails, Spend,
    CleanedUp, Hook, NoCleanup, Free, vars, taskVars, lockVars,
    podmanVars, TasksTyped, PodmanTyped, AgentCleanup,
    AgentHandler, AgentOperators
<1>22. CASE UNCHANGED <<current, task, cancelled, cleanup, launch, lock, handler, hook, quit>>
  BY <1>22 DEF TasksTyped, PodmanTyped, AgentCleanup, AgentHandler, AgentOperators
<1>23. QED
  BY <1>1, <1>2, <1>3, <1>4, <1>5, <1>6, <1>7, <1>8, <1>9, <1>10, <1>11, <1>12, <1>13,
    <1>14, <1>15, <1>16, <1>17, <1>18, <1>19, <1>20, <1>21, <1>22, TasksFrame

(* A tracker with another value in one of its fields.                      *)
LEMMA TrackerFields ==
  ASSUME NEW t \in AgentTracker, NEW n \in Nat, NEW b \in BOOLEAN
  PROVE  /\ [t EXCEPT !.id = n] \in AgentTracker
         /\ [t EXCEPT !.marked = b] \in AgentTracker
         /\ [t EXCEPT !.listed = b] \in AgentTracker
         /\ [t EXCEPT !.restarts = @ + 1] \in AgentTracker
BY DEF AgentTracker

LEMMA TrackersTypedStep ==
  ASSUME AgentInv, [Next]_vars
  PROVE  TrackersTyped'
<1>1. CASE \E o \in AgentOperators : LaunchStart(o)
  BY <1>1 DEF LaunchStart, Up, StartContainer, Free,
    vars, taskVars, lockVars, podmanVars, AgentInv, Started,
    Tracked, InHand, TasksTyped, TrackersTyped, PodmanTyped, AgentTracker, AgentContainer,
    AgentMonitor, AgentRestart, AgentHandler, AgentOperators
<1>2. CASE \E c \in Deployments \cup {"hook"} : Clear(c)
  <2>1. PICK c \in Deployments \cup {"hook"} : Clear(c)
    BY <1>2
  <2>2. \A o \in AgentOperators : tracker'[o] =
          IF o \in Listed THEN [tracker[o] EXCEPT !.listed = FALSE] ELSE tracker[o]
    BY <2>1 DEF Clear, AgentOperators
  <2>3. \A o \in AgentOperators : tracker'[o] \in {None} \cup AgentTracker
    <3> TAKE o \in AgentOperators
    <3>1. CASE o \in Listed
      <4>1. tracker[o] \in AgentTracker
        BY <3>1 DEF AgentInv, TrackersTyped, Listed
      <4>2. [tracker[o] EXCEPT !.listed = FALSE] \in AgentTracker
        BY <4>1 DEF AgentTracker
      <4>3. QED
        BY <2>2, <3>1, <4>2
    <3>2. CASE o \notin Listed
      BY <2>2, <3>2 DEF AgentInv, TrackersTyped
    <3>3. QED
      BY <3>1, <3>2
  <2>4. tracker' \in [AgentOperators -> {None} \cup AgentTracker]
    BY <2>1, <2>3 DEF Clear, AgentOperators
  <2>5. UNCHANGED <<monitor, restart>>
    BY <2>1 DEF Clear
  <2>6. QED
    BY <2>4, <2>5 DEF TrackersTyped, AgentInv
<1>3. CASE RestartNext
  <2>1. PICK o \in handler.left : BeginRestart(Handler, o)
    BY <1>3 DEF RestartNext
  <2>2. o \in AgentOperators /\ tracker[o] \in AgentTracker
    BY DEF AgentInv, TasksTyped, AgentHandler, Tracked, TrackersTyped
  <2>3. restart' \in [{"handler", "monitor"} -> {[pc |-> "off"]} \cup AgentRestart]
    BY <2>1, <2>2 DEF TrackersTyped, BeginRestart, Handler, AgentRestart,
      AgentTracker, AgentInv
  <2>4. UNCHANGED <<tracker, monitor>>
    BY <1>3 DEF RestartNext
  <2>5. QED
    BY <2>3, <2>4 DEF TrackersTyped, AgentInv
<1>4. CASE Wake
  <2>1. Listed \in SUBSET AgentOperators
    BY DEF Listed, AgentOperators
  <2>2. monitor' \in {Resting, [Resting EXCEPT !.pc = "ended"],
          [Resting EXCEPT !.pc = "walking", !.left = Listed]}
    BY <1>4 DEF Wake, MonitorIs, NextPass
  <2>6. \A S \in SUBSET AgentOperators :
          /\ Resting \in AgentMonitor
          /\ [Resting EXCEPT !.pc = "ended"] \in AgentMonitor
          /\ [Resting EXCEPT !.pc = "walking", !.left = S] \in AgentMonitor
    BY DEF Resting, AgentMonitor
  <2>3. monitor' \in AgentMonitor
    BY <2>1, <2>2, <2>6
  <2>4. UNCHANGED <<tracker, restart>>
    BY <1>4 DEF Wake
  <2>5. QED
    BY <2>3, <2>4 DEF TrackersTyped, AgentInv
<1>5. CASE PassDone
  BY <1>5 DEF PassDone, Up, MonitorIs, NextPass, Resting,
    Free, vars, taskVars, lockVars, podmanVars,
    AgentInv, Started, Tracked, InHand, TasksTyped, TrackersTyped, PodmanTyped,
    AgentTracker, AgentContainer, AgentMonitor, AgentRestart, AgentHandler,
    AgentOperators
<1>6. CASE \E o \in AgentOperators : Look(o)
  BY <1>6 DEF Look, Up, MonitorIs, BeginRestart, Monitor,
    Free, vars, taskVars, lockVars, podmanVars,
    AgentInv, Started, Tracked, InHand, TasksTyped, TrackersTyped, PodmanTyped,
    AgentTracker, AgentContainer, AgentMonitor, AgentRestart, AgentHandler,
    AgentOperators
<1>7. CASE CheckUp
  BY <1>7 DEF CheckUp, Up, MonitorIs, NextTracker, Holds,
    IsUp, Free, vars, taskVars, lockVars,
    podmanVars, AgentInv, Started, Tracked, InHand, TasksTyped, TrackersTyped,
    PodmanTyped, AgentTracker, AgentContainer, AgentMonitor, AgentRestart,
    AgentHandler, AgentOperators
<1>8. CASE CheckGone
  <2>1. monitor.op \in AgentOperators /\ tracker[monitor.op] \in AgentTracker /\ TrackersTyped
    BY <1>8 DEF AgentInv, InHand, Tracked, TrackersTyped, CheckGone, AgentMonitor
  <2>2. Delete(monitor.op, Dead)
    BY <1>8 DEF CheckGone
  <2>3. UNCHANGED restart
    BY <1>8 DEF CheckGone
  <2>4. QED
    <3>1. CASE tracker[monitor.op].listed
      <4>1. tracker' = [tracker EXCEPT ![monitor.op].listed = FALSE]
        BY <2>2, <3>1 DEF Delete
      <4>2. tracker' \in [AgentOperators -> {None} \cup AgentTracker]
        BY <2>1, <4>1 DEF TrackersTyped, AgentTracker
      <4>3. monitor' = NextTracker
        BY <2>2, <3>1 DEF Delete, MonitorIs
      <4>4. QED
        BY <2>1, <4>2, <4>3, <2>3 DEF TrackersTyped, AgentMonitor, NextTracker
    <3>2. CASE ~tracker[monitor.op].listed
      <4>1. UNCHANGED tracker /\ monitor' = Dead
        BY <2>2, <3>2 DEF Delete, MonitorIs
      <4>2. QED
        BY <2>1, <4>1, <2>3 DEF TrackersTyped, AgentMonitor, NextTracker, Dead,
          Resting
    <3>3. QED
      BY <3>1, <3>2
<1>9. CASE CheckStopped
  BY <1>9 DEF CheckStopped, Up, MonitorIs, Holds, IsUp,
    BeginRestart, Monitor, Free, vars, taskVars,
    lockVars, podmanVars, AgentInv, Started, Tracked, InHand, TasksTyped,
    TrackersTyped, PodmanTyped, AgentTracker, AgentContainer, AgentMonitor,
    AgentRestart, AgentHandler, AgentOperators
<1>10. CASE Report
  <2>1. monitor.op \in AgentOperators /\ tracker[monitor.op] \in AgentTracker /\ TrackersTyped
    BY <1>10 DEF AgentInv, InHand, Tracked, TrackersTyped, Report, AgentMonitor
  <2>2. Delete(monitor.op, NextTracker)
    BY <1>10 DEF Report
  <2>3. UNCHANGED restart
    BY <1>10 DEF Report
  <2>4. QED
    <3>1. CASE tracker[monitor.op].listed
      <4>1. tracker' = [tracker EXCEPT ![monitor.op].listed = FALSE]
        BY <2>2, <3>1 DEF Delete
      <4>2. tracker' \in [AgentOperators -> {None} \cup AgentTracker]
        BY <2>1, <4>1 DEF TrackersTyped, AgentTracker
      <4>3. monitor' = NextTracker
        BY <2>2, <3>1 DEF Delete, MonitorIs
      <4>4. QED
        BY <2>1, <4>2, <4>3, <2>3 DEF TrackersTyped, AgentMonitor, NextTracker
    <3>2. CASE ~tracker[monitor.op].listed
      <4>1. UNCHANGED tracker /\ monitor' = NextTracker
        BY <2>2, <3>2 DEF Delete, MonitorIs
      <4>2. QED
        BY <2>1, <4>1, <2>3 DEF TrackersTyped, AgentMonitor, NextTracker, Dead,
          Resting
    <3>3. QED
      BY <3>1, <3>2
<1>11. CASE \E x \in {"handler", "monitor"} : RestartRemove(x)
  BY <1>11 DEF RestartRemove, Restarting, Up, Remove,
    Holds, Free, vars, taskVars, lockVars,
    podmanVars, AgentInv, Started, Tracked, InHand, TasksTyped, TrackersTyped,
    PodmanTyped, AgentTracker, AgentContainer, AgentMonitor, AgentRestart,
    AgentHandler, AgentOperators
<1>12. CASE \E x \in {"handler", "monitor"} : RestartCreate(x)
  BY <1>12 DEF RestartCreate, Restarting, Up, Create,
    Free, vars, taskVars, lockVars, podmanVars,
    AgentInv, Started, Tracked, InHand, TasksTyped, TrackersTyped, PodmanTyped,
    AgentTracker, AgentContainer, AgentMonitor, AgentRestart, AgentHandler,
    AgentOperators
<1>13. CASE \E x \in {"handler", "monitor"} : RestartStart(x)
  BY <1>13 DEF RestartStart, Restarting, Up, Holds,
    StartContainer, Free, vars, taskVars, lockVars,
    podmanVars, AgentInv, Started, Tracked, InHand, TasksTyped, TrackersTyped,
    PodmanTyped, AgentTracker, AgentContainer, AgentMonitor, AgentRestart,
    AgentHandler, AgentOperators
<1>14. CASE \E x \in {"handler", "monitor"} : RestartLink(x)
  <2>0. PICK x \in {"handler", "monitor"} : RestartLink(x)
    BY <1>14
  <2> DEFINE o == restart[x].op
  <2>1. o \in AgentOperators /\ tracker[o] \in AgentTracker /\ TrackersTyped
        /\ restart[x] \in AgentRestart
    BY <2>0 DEF AgentInv, Tracked, TrackersTyped, RestartLink, AgentRestart,
      Restarting
  <2>2. tracker' = [tracker EXCEPT ![o] =
          IF x = "handler" THEN [tracker[o] EXCEPT !.id = restart[x].id]
          ELSE IF monitor.pc = "remounting"
          THEN [[tracker[o] EXCEPT !.id = restart[x].id] EXCEPT !.marked = FALSE]
          ELSE [[tracker[o] EXCEPT !.id = restart[x].id] EXCEPT !.restarts = @ + 1]]
    BY <2>0 DEF RestartLink, Handler
  <2>3. tracker' \in [AgentOperators -> {None} \cup AgentTracker]
    <3>0. restart[x].id \in Nat
      BY <2>1 DEF AgentRestart
    <3> DEFINE linked == [tracker[o] EXCEPT !.id = restart[x].id]
    <3>3. /\ linked \in AgentTracker
          /\ [linked EXCEPT !.marked = FALSE] \in AgentTracker
          /\ [linked EXCEPT !.restarts = @ + 1] \in AgentTracker
      <4>1. linked \in AgentTracker
        BY <2>1, <3>0, TrackerFields
      <4> HIDE DEF linked
      <4>2. QED
        BY <4>1, TrackerFields
    <3>1. tracker'[o] \in AgentTracker
      BY <2>1, <2>2, <3>3 DEF TrackersTyped
    <3>2. QED
      BY <2>1, <2>2, <3>1 DEF TrackersTyped
  <2>4. restart' = [restart EXCEPT ![x] = NoRestart]
    BY <2>0 DEF RestartLink
  <2>5. monitor' = NextTracker \/ UNCHANGED monitor
    BY <2>0 DEF RestartLink
  <2>6. monitor' \in AgentMonitor
    BY <2>1, <2>5 DEF TrackersTyped, AgentMonitor, NextTracker
  <2>7. QED
    BY <2>1, <2>3, <2>4, <2>6 DEF TrackersTyped, NoRestart
<1>15. CASE \E x \in {"handler", "monitor"} : RestartRaises(x)
  <2>1. PICK x \in {"handler", "monitor"} :
          Raises(x, MonitorIs(NextTracker) /\ UNCHANGED tracker)
    BY <1>15 DEF RestartRaises
  <2>2. restart' = [restart EXCEPT ![x] = NoRestart] /\ UNCHANGED tracker
    BY <2>1 DEF Raises
  <2>3. monitor' \in {NextTracker, Dead, monitor}
    BY <2>1 DEF Raises, MonitorIs
  <2>4. monitor' \in AgentMonitor
    BY <2>3 DEF AgentInv, TrackersTyped, AgentMonitor, NextTracker, Dead,
      Resting
  <2>5. QED
    BY <2>2, <2>4 DEF AgentInv, TrackersTyped, NoRestart
<1>16. CASE \E x \in {"handler", "monitor"} : RestartFindsNone(x)
  <2>0. PICK x \in {"handler", "monitor"} : RestartFindsNone(x)
    BY <1>16
  <2> DEFINE o == restart[x].op
  <2>1. o \in AgentOperators /\ tracker[o] \in AgentTracker /\ TrackersTyped
    BY <2>0 DEF AgentInv, Tracked, TrackersTyped, RestartFindsNone, AgentRestart,
      Restarting
  <2>5. restart' = [restart EXCEPT ![x] = NoRestart]
    BY <2>0 DEF RestartFindsNone, Raises
  <2>3. restart' \in [{"handler", "monitor"} -> {[pc |-> "off"]} \cup AgentRestart]
    BY <2>5, <2>1 DEF TrackersTyped, NoRestart
  <2>6. \/ UNCHANGED <<monitor, tracker>>
        \/ monitor' = Dead /\ UNCHANGED tracker
        \/ Delete(o, Dead)
    BY <2>0 DEF RestartFindsNone, Raises, MonitorIs
  <2>7. CASE UNCHANGED <<monitor, tracker>> \/ (monitor' = Dead /\ UNCHANGED tracker)
    BY <2>1, <2>3, <2>7 DEF TrackersTyped, AgentMonitor, Dead, Resting
  <2>2. CASE Delete(o, Dead)
    <3>1. CASE tracker[o].listed
      <4>1. tracker' = [tracker EXCEPT ![o].listed = FALSE]
        BY <2>2, <3>1 DEF Delete
      <4>2. tracker' \in [AgentOperators -> {None} \cup AgentTracker]
        BY <2>1, <4>1 DEF TrackersTyped, AgentTracker
      <4>3. monitor' = NextTracker
        BY <2>2, <3>1 DEF Delete, MonitorIs
      <4>4. QED
        BY <2>1, <4>2, <4>3, <2>3 DEF TrackersTyped, AgentMonitor, NextTracker
    <3>2. CASE ~tracker[o].listed
      <4>1. UNCHANGED tracker /\ monitor' = Dead
        BY <2>2, <3>2 DEF Delete, MonitorIs
      <4>2. QED
        BY <2>1, <4>1, <2>3 DEF TrackersTyped, AgentMonitor, NextTracker, Dead,
          Resting
    <3>3. QED
      BY <3>1, <3>2
  <2>9. QED
    BY <2>2, <2>6, <2>7
<1>17. CASE \E o \in AgentOperators : Remount(o)
  <2>1. PICK o \in AgentOperators : Remount(o)
    BY <1>17
  <2>2. tracker[o] \in AgentTracker
    BY <2>1 DEF AgentInv, Tracked, TrackersTyped, Remount
  <2>3. tracker' = [tracker EXCEPT ![o].marked = TRUE]
    BY <2>1 DEF Remount
  <2>4. tracker' \in [AgentOperators -> {None} \cup AgentTracker]
    BY <2>2, <2>3 DEF AgentInv, TrackersTyped, AgentTracker
  <2>5. UNCHANGED <<monitor, restart>>
    BY <2>1 DEF Remount
  <2>6. QED
    BY <2>4, <2>5 DEF AgentInv, TrackersTyped
<1>18. CASE UNCHANGED <<tracker, monitor, restart>>
  BY <1>18 DEF AgentInv, Started, Tracked, InHand, TasksTyped, TrackersTyped, PodmanTyped,
    AgentTracker, AgentContainer, AgentMonitor, AgentRestart, AgentHandler,
    AgentOperators
<1>19. QED
  BY <1>1, <1>2, <1>3, <1>4, <1>5, <1>6, <1>7, <1>8, <1>9, <1>10, <1>11, <1>12, <1>13,
    <1>14, <1>15, <1>16, <1>17, <1>18, TrackersFrame


LEMMA PodmanTypedStep ==
  ASSUME AgentInv, [Next]_vars
  PROVE  PodmanTyped'
<1>1. CASE \E o \in AgentOperators : LaunchCreate(o)
  BY <1>1 DEF LaunchCreate, Up, Create, Free, vars,
    taskVars, lockVars, podmanVars, AgentInv, Started, Tracked,
    InHand, TasksTyped, TrackersTyped, PodmanTyped, AgentTracker, AgentContainer,
    AgentRestart, AgentOperators
<1>2. CASE \E o \in AgentOperators : LaunchStart(o)
  <2>1. PICK o \in AgentOperators : LaunchStart(o)
    BY <1>2
  <2>2. container' = [container EXCEPT ![o].state = "up"] /\ UNCHANGED <<made, value>>
    BY <2>1 DEF LaunchStart, StartContainer
  <2>3. container[o] \in AgentContainer /\ PodmanTyped
    BY <2>1 DEF LaunchStart, AgentInv, Started, PodmanTyped
  <2>4. [container[o] EXCEPT !.state = "up"] \in AgentContainer
    BY <2>3 DEF AgentContainer
  <2>5. QED
    BY <2>2, <2>3, <2>4 DEF PodmanTyped
<1>3. CASE \E c \in Deployments \cup {"hook"} : RemoveListed(c)
  <2>1. PICK c \in Deployments \cup {"hook"} : RemoveListed(c)
    BY <1>3
  <2>2. UNCHANGED <<made, value>>
    BY <2>1 DEF RemoveListed
  <2>3. \/ UNCHANGED container
        \/ \E o \in AgentOperators : container' = [container EXCEPT ![o] = None]
    <3>1. cleanup[c].left \subseteq AgentOperators \X Nat
      BY <2>1 DEF AgentInv, TasksTyped, AgentCleanup
    <3>2. QED
      BY <2>1, <3>1 DEF RemoveListed, Remove
  <2>4. QED
    BY <2>2, <2>3 DEF AgentInv, PodmanTyped
<1>4. CASE \E x \in {"handler", "monitor"} : RestartRemove(x)
  BY <1>4 DEF RestartRemove, Restarting, Up, Remove,
    Holds, Free, vars, taskVars, lockVars,
    podmanVars, AgentInv, Started, Tracked, InHand, TasksTyped, TrackersTyped,
    PodmanTyped, AgentTracker, AgentContainer, AgentRestart, AgentOperators
<1>5. CASE \E x \in {"handler", "monitor"} : RestartCreate(x)
  BY <1>5 DEF RestartCreate, Restarting, Up, Create,
    Free, vars, taskVars, lockVars, podmanVars,
    AgentInv, Started, Tracked, InHand, TasksTyped, TrackersTyped, PodmanTyped,
    AgentTracker, AgentContainer, AgentRestart, AgentOperators
<1>6. CASE \E x \in {"handler", "monitor"} : RestartStart(x)
  BY <1>6 DEF RestartStart, Restarting, Up, Holds,
    StartContainer, Free, vars, taskVars, lockVars,
    podmanVars, AgentInv, Started, Tracked, InHand, TasksTyped, TrackersTyped,
    PodmanTyped, AgentTracker, AgentContainer, AgentRestart, AgentOperators
<1>7. CASE \E o \in AgentOperators : Exit(o)
  BY <1>7 DEF Exit, IsUp, Spend, vars, taskVars,
    lockVars, podmanVars, AgentInv, Started, Tracked, InHand, TasksTyped,
    TrackersTyped, PodmanTyped, AgentTracker, AgentContainer, AgentRestart,
    AgentOperators
<1>8. CASE \E o \in AgentOperators : AutoRemove(o)
  BY <1>8 DEF AutoRemove, Free, vars, taskVars, lockVars,
    podmanVars, AgentInv, Started, Tracked, InHand, TasksTyped, TrackersTyped,
    PodmanTyped, AgentTracker, AgentContainer, AgentRestart, AgentOperators
<1>9. CASE \E o \in AgentOperators : Remount(o)
  BY <1>9 DEF Remount, Up, Spend, vars, taskVars,
    lockVars, podmanVars, AgentInv, Started, Tracked, InHand, TasksTyped,
    TrackersTyped, PodmanTyped, AgentTracker, AgentContainer, AgentRestart,
    AgentOperators
<1>10. CASE UNCHANGED <<container, made, value>>
  BY <1>10 DEF AgentInv, Started, Tracked, InHand, TasksTyped, TrackersTyped, PodmanTyped,
    AgentTracker, AgentContainer, AgentRestart, AgentOperators
<1>11. QED
  BY <1>1, <1>2, <1>3, <1>4, <1>5, <1>6, <1>7, <1>8, <1>9, <1>10, PodmanFrame

LEMMA RunsCurrentStep ==
  ASSUME AgentAssumption, TasksTyped, RunsCurrent, LockHeld, [Next]_vars
  PROVE  RunsCurrent'
<1>1. CASE \E d \in Deployments : Launch(d)
  BY <1>1 DEF Launch, Up, CleanedUp, NoCleanup, Of,
    Free, vars, taskVars, lockVars, podmanVars,
    TasksTyped, RunsCurrent, LockHeld, Running, Live, AgentAssumption
<1>2. CASE \E d \in Deployments : Runs(d)
  BY <1>2 DEF Runs, Up, Of, Free, vars, taskVars,
    lockVars, podmanVars, TasksTyped, RunsCurrent, LockHeld, Running,
    Live, AgentAssumption
<1>3. CASE \E d \in Deployments : Interrupted(d)
  BY <1>3 DEF Interrupted, Unwind, Up, Live, Of,
    Free, vars, taskVars, lockVars, podmanVars,
    TasksTyped, RunsCurrent, LockHeld, Running, Live, AgentAssumption
<1>4. CASE \E d \in Deployments : Fails(d)
  BY <1>4 DEF Fails, Unwind, Up, Live, Of, Spend,
    vars, taskVars, lockVars, podmanVars, TasksTyped,
    RunsCurrent, LockHeld, Running, Live, AgentAssumption
<1>5. CASE \E d \in Deployments : Finishes(d)
  BY <1>5 DEF Finishes, Ends, TeardownFails, Spend, Up,
    CleanedUp, NoCleanup, Free, vars, taskVars, lockVars,
    podmanVars, TasksTyped, RunsCurrent, LockHeld, Running,
    Live, AgentAssumption
<1>6. CASE \E d \in Deployments : Assign(d)
  BY <1>6 DEF Assign, Up, Running, Live, Cancel,
    Begin, Handler, Free, vars, taskVars,
    lockVars, podmanVars, TasksTyped, RunsCurrent, LockHeld, Running,
    Live, AgentAssumption
<1>7. CASE Replace
  BY <1>7 DEF Replace, Up, Running, Live, Begin,
    Waiting, Free, vars, taskVars, lockVars,
    podmanVars, TasksTyped, RunsCurrent, LockHeld, Running, Live,
    AgentAssumption
<1>8. CASE Stopped
  BY <1>8 DEF Stopped, Up, Running, Live, Waiting,
    Free, vars, taskVars, lockVars, podmanVars,
    TasksTyped, RunsCurrent, LockHeld, Running, Live, AgentAssumption
<1>9. CASE Stop
  BY <1>9 DEF Stop, Up, Cancel, Handler, Spend,
    vars, taskVars, lockVars, podmanVars, TasksTyped,
    RunsCurrent, LockHeld, Running, Live, AgentAssumption
<1>10. CASE \E o \in AgentOperators : LaunchCreate(o)
  BY <1>10 DEF LaunchCreate, Up, Create, Free, vars,
    taskVars, lockVars, podmanVars, TasksTyped, RunsCurrent, LockHeld,
    Running, Live, AgentAssumption
<1>11. CASE \E o \in AgentOperators : LaunchStart(o)
  BY <1>11 DEF LaunchStart, Up, StartContainer, Free,
    vars, taskVars, lockVars, podmanVars, TasksTyped,
    RunsCurrent, LockHeld, Running, Live, AgentAssumption
<1>12. CASE \E c \in Deployments \cup {"hook"} : Clear(c)
  BY <1>12 DEF Clear, Up, Free, vars, taskVars,
    lockVars, podmanVars, TasksTyped, RunsCurrent, LockHeld, Running,
    Live, AgentAssumption
<1>13. CASE \E c \in Deployments \cup {"hook"} : List(c)
  BY <1>13 DEF List, Up, Free, vars, taskVars,
    lockVars, podmanVars, TasksTyped, RunsCurrent, LockHeld, Running,
    Live, AgentAssumption
<1>14. CASE \E c \in Deployments \cup {"hook"} : RemoveListed(c)
  BY <1>14 DEF RemoveListed, Up, Remove, Holds, Free,
    vars, taskVars, lockVars, podmanVars, TasksTyped,
    RunsCurrent, LockHeld, Running, Live, AgentAssumption
<1>15. CASE RestartCommand
  BY <1>15 DEF RestartCommand, Up, Running, Live,
    Waiting, Spend, vars, taskVars, lockVars,
    podmanVars, TasksTyped, RunsCurrent, LockHeld, Running, Live,
    AgentAssumption
<1>16. CASE RestartNext
  BY <1>16 DEF RestartNext, Up, BeginRestart, Handler,
    NoRestart, Free, vars, taskVars, lockVars,
    podmanVars, TasksTyped, RunsCurrent, LockHeld, Running, Live,
    AgentAssumption
<1>17. CASE RestartsDone
  BY <1>17 DEF RestartsDone, Up, Waiting, Handler,
    NoRestart, Free, vars, taskVars, lockVars,
    podmanVars, TasksTyped, RunsCurrent, LockHeld, Running, Live,
    AgentAssumption
<1>18. CASE RequestShutdown
  BY <1>18 DEF RequestShutdown, Free, vars, taskVars,
    lockVars, podmanVars, TasksTyped, RunsCurrent, LockHeld, Running,
    Live, AgentAssumption
<1>19. CASE HookLocks
  BY <1>19 DEF HookLocks, Cancel, Hook, Free, vars,
    taskVars, lockVars, podmanVars, TasksTyped, RunsCurrent, LockHeld,
    Running, Live, AgentAssumption
<1>20. CASE HookCleans
  BY <1>20 DEF HookCleans, Running, Live, Hook, Free,
    vars, taskVars, lockVars, podmanVars, TasksTyped,
    RunsCurrent, LockHeld, Running, Live, AgentAssumption
<1>21. CASE HookFinishes
  BY <1>21 DEF HookFinishes, HookEnds, HookFails, Spend,
    CleanedUp, Hook, NoCleanup, Free, vars, taskVars, lockVars,
    podmanVars, TasksTyped, RunsCurrent, LockHeld, Running,
    Live, AgentAssumption
<1>22. CASE UNCHANGED <<current, task, cancelled, cleanup, launch, lock, handler, hook, quit>>
  BY <1>22 DEF TasksTyped, RunsCurrent, LockHeld, Running, Live,
    AgentAssumption
<1>23. QED
  BY <1>1, <1>2, <1>3, <1>4, <1>5, <1>6, <1>7, <1>8, <1>9, <1>10, <1>11, <1>12, <1>13,
    <1>14, <1>15, <1>16, <1>17, <1>18, <1>19, <1>20, <1>21, <1>22, TasksFrame


LEMMA LockHeldStep ==
  ASSUME AgentAssumption, TasksTyped, RunsCurrent, LockHeld, [Next]_vars
  PROVE  LockHeld'
<1>1. CASE \E d \in Deployments : Launch(d)
  BY <1>1 DEF Launch, Up, CleanedUp, NoCleanup, Of,
    Free, vars, taskVars, lockVars, podmanVars,
    TasksTyped, RunsCurrent, LockHeld, AgentHandler, Hook, Handler,
    Running, Live, AgentAssumption
<1>2. CASE \E d \in Deployments : Runs(d)
  BY <1>2 DEF Runs, Up, Of, Free, vars, taskVars,
    lockVars, podmanVars, TasksTyped, RunsCurrent, LockHeld, AgentHandler,
    Hook, Handler, Running, Live, AgentAssumption
<1>3. CASE \E d \in Deployments : Interrupted(d)
  BY <1>3 DEF Interrupted, Unwind, Up, Live, Of,
    Free, vars, taskVars, lockVars, podmanVars,
    TasksTyped, RunsCurrent, LockHeld, AgentHandler, Hook, Handler,
    Running, Live, AgentAssumption
<1>4. CASE \E d \in Deployments : Fails(d)
  BY <1>4 DEF Fails, Unwind, Up, Live, Of, Spend,
    vars, taskVars, lockVars, podmanVars, TasksTyped,
    RunsCurrent, LockHeld, AgentHandler, Hook, Handler, Running,
    Live, AgentAssumption
<1>5. CASE \E d \in Deployments : Finishes(d)
  BY <1>5 DEF Finishes, Ends, TeardownFails, Spend, Up,
    CleanedUp, NoCleanup, Free, vars, taskVars, lockVars,
    podmanVars, TasksTyped, RunsCurrent, LockHeld, AgentHandler,
    Hook, Handler, Running, Live, AgentAssumption
<1>6. CASE \E d \in Deployments : Assign(d)
  BY <1>6 DEF Assign, Up, Running, Live, Cancel,
    Begin, Handler, Free, vars, taskVars,
    lockVars, podmanVars, TasksTyped, RunsCurrent, LockHeld, AgentHandler,
    Hook, Handler, Running, Live, AgentAssumption
<1>7. CASE Replace
  BY <1>7 DEF Replace, Up, Running, Live, Begin,
    Waiting, Free, vars, taskVars, lockVars,
    podmanVars, TasksTyped, RunsCurrent, LockHeld, AgentHandler, Hook,
    Handler, Running, Live, AgentAssumption
<1>8. CASE Stopped
  BY <1>8 DEF Stopped, Up, Running, Live, Waiting,
    Free, vars, taskVars, lockVars, podmanVars,
    TasksTyped, RunsCurrent, LockHeld, AgentHandler, Hook, Handler,
    Running, Live, AgentAssumption
<1>9. CASE Stop
  BY <1>9 DEF Stop, Up, Cancel, Handler, Spend,
    vars, taskVars, lockVars, podmanVars, TasksTyped,
    RunsCurrent, LockHeld, AgentHandler, Hook, Handler, Running,
    Live, AgentAssumption
<1>10. CASE \E o \in AgentOperators : LaunchCreate(o)
  BY <1>10 DEF LaunchCreate, Up, Create, Free, vars,
    taskVars, lockVars, podmanVars, TasksTyped, RunsCurrent, LockHeld,
    AgentHandler, Hook, Handler, Running, Live,
    AgentAssumption
<1>11. CASE \E o \in AgentOperators : LaunchStart(o)
  BY <1>11 DEF LaunchStart, Up, StartContainer, Free,
    vars, taskVars, lockVars, podmanVars, TasksTyped,
    RunsCurrent, LockHeld, AgentHandler, Hook, Handler, Running,
    Live, AgentAssumption
<1>12. CASE \E c \in Deployments \cup {"hook"} : Clear(c)
  BY <1>12 DEF Clear, Up, Free, vars, taskVars,
    lockVars, podmanVars, TasksTyped, RunsCurrent, LockHeld, AgentHandler,
    Hook, Handler, Running, Live, AgentAssumption
<1>13. CASE \E c \in Deployments \cup {"hook"} : List(c)
  BY <1>13 DEF List, Up, Free, vars, taskVars,
    lockVars, podmanVars, TasksTyped, RunsCurrent, LockHeld, AgentHandler,
    Hook, Handler, Running, Live, AgentAssumption
<1>14. CASE \E c \in Deployments \cup {"hook"} : RemoveListed(c)
  BY <1>14 DEF RemoveListed, Up, Remove, Holds, Free,
    vars, taskVars, lockVars, podmanVars, TasksTyped,
    RunsCurrent, LockHeld, AgentHandler, Hook, Handler, Running,
    Live, AgentAssumption
<1>15. CASE RestartCommand
  BY <1>15 DEF RestartCommand, Up, Running, Live,
    Waiting, Spend, vars, taskVars, lockVars,
    podmanVars, TasksTyped, RunsCurrent, LockHeld, AgentHandler, Hook,
    Handler, Running, Live, AgentAssumption
<1>16. CASE RestartNext
  BY <1>16 DEF RestartNext, Up, BeginRestart, Handler,
    NoRestart, Free, vars, taskVars, lockVars,
    podmanVars, TasksTyped, RunsCurrent, LockHeld, AgentHandler, Hook,
    Handler, Running, Live, AgentAssumption
<1>17. CASE RestartsDone
  BY <1>17 DEF RestartsDone, Up, Waiting, Handler,
    NoRestart, Free, vars, taskVars, lockVars,
    podmanVars, TasksTyped, RunsCurrent, LockHeld, AgentHandler, Hook,
    Handler, Running, Live, AgentAssumption
<1>18. CASE RequestShutdown
  BY <1>18 DEF RequestShutdown, Free, vars, taskVars,
    lockVars, podmanVars, TasksTyped, RunsCurrent, LockHeld, AgentHandler,
    Hook, Handler, Running, Live, AgentAssumption
<1>19. CASE HookLocks
  BY <1>19 DEF HookLocks, Cancel, Hook, Free, vars,
    taskVars, lockVars, podmanVars, TasksTyped, RunsCurrent, LockHeld,
    AgentHandler, Hook, Handler, Running, Live,
    AgentAssumption
<1>20. CASE HookCleans
  BY <1>20 DEF HookCleans, Running, Live, Hook, Free,
    vars, taskVars, lockVars, podmanVars, TasksTyped,
    RunsCurrent, LockHeld, AgentHandler, Hook, Handler, Running,
    Live, AgentAssumption
<1>21. CASE HookFinishes
  BY <1>21 DEF HookFinishes, HookEnds, HookFails, Spend,
    CleanedUp, Hook, NoCleanup, Free, vars, taskVars, lockVars,
    podmanVars, TasksTyped, RunsCurrent, LockHeld, AgentHandler,
    Handler, Running, Live, AgentAssumption
<1>22. CASE UNCHANGED <<current, task, cancelled, cleanup, launch, lock, handler, hook, quit>>
  BY <1>22 DEF TasksTyped, RunsCurrent, LockHeld, AgentHandler, Hook,
    Handler, Running, Live, AgentAssumption
<1>23. QED
  BY <1>1, <1>2, <1>3, <1>4, <1>5, <1>6, <1>7, <1>8, <1>9, <1>10, <1>11, <1>12, <1>13,
    <1>14, <1>15, <1>16, <1>17, <1>18, <1>19, <1>20, <1>21, <1>22, TasksFrame


LEMMA LaunchedByTaskStep ==
  ASSUME TasksTyped, LockHeld, LaunchedByTask, [Next]_vars
  PROVE  LaunchedByTask'
<1>1. CASE \E d \in Deployments : Launch(d)
  BY <1>1 DEF Launch, Up, CleanedUp, NoCleanup, Of,
    Free, vars, taskVars, lockVars, podmanVars,
    TasksTyped, LockHeld, LaunchedByTask, AgentOperators, Operators, Of,
    Live
<1>2. CASE \E d \in Deployments : Runs(d)
  BY <1>2 DEF Runs, Up, Of, Free, vars, taskVars,
    lockVars, podmanVars, TasksTyped, LockHeld, LaunchedByTask,
    AgentOperators, Operators, Of, Live
<1>3. CASE \E d \in Deployments : Interrupted(d)
  BY <1>3 DEF Interrupted, Unwind, Up, Live, Of,
    Free, vars, taskVars, lockVars, podmanVars,
    TasksTyped, LockHeld, LaunchedByTask, AgentOperators, Operators, Of,
    Live
<1>4. CASE \E d \in Deployments : Fails(d)
  BY <1>4 DEF Fails, Unwind, Up, Live, Of, Spend,
    vars, taskVars, lockVars, podmanVars, TasksTyped, LockHeld,
    LaunchedByTask, AgentOperators, Operators, Of, Live
<1>5. CASE \E d \in Deployments : Finishes(d)
  BY <1>5 DEF Finishes, Ends, TeardownFails, Spend, Up,
    CleanedUp, NoCleanup, Free, vars, taskVars, lockVars,
    podmanVars, TasksTyped, LockHeld, LaunchedByTask,
    AgentOperators, Operators, Of, Live
<1>6. CASE \E d \in Deployments : Assign(d)
  BY <1>6 DEF Assign, Up, Running, Live, Cancel,
    Begin, Handler, Free, vars, taskVars,
    lockVars, podmanVars, TasksTyped, LockHeld, LaunchedByTask,
    AgentOperators, Operators, Of, Live
<1>7. CASE Replace
  BY <1>7 DEF Replace, Up, Running, Live, Begin,
    Waiting, Free, vars, taskVars, lockVars,
    podmanVars, TasksTyped, LockHeld, LaunchedByTask, AgentOperators,
    Operators, Of, Live
<1>8. CASE Stopped
  BY <1>8 DEF Stopped, Up, Running, Live, Waiting,
    Free, vars, taskVars, lockVars, podmanVars,
    TasksTyped, LockHeld, LaunchedByTask, AgentOperators, Operators, Of,
    Live
<1>9. CASE Stop
  BY <1>9 DEF Stop, Up, Cancel, Handler, Spend,
    vars, taskVars, lockVars, podmanVars, TasksTyped, LockHeld,
    LaunchedByTask, AgentOperators, Operators, Of, Live
<1>10. CASE \E o \in AgentOperators : LaunchCreate(o)
  BY <1>10 DEF LaunchCreate, Up, Create, Free, vars,
    taskVars, lockVars, podmanVars, TasksTyped, LockHeld,
    LaunchedByTask, AgentOperators, Operators, Of, Live
<1>11. CASE \E o \in AgentOperators : LaunchStart(o)
  BY <1>11 DEF LaunchStart, Up, StartContainer, Free,
    vars, taskVars, lockVars, podmanVars, TasksTyped, LockHeld,
    LaunchedByTask, AgentOperators, Operators, Of, Live
<1>12. CASE \E c \in Deployments \cup {"hook"} : Clear(c)
  BY <1>12 DEF Clear, Up, Free, vars, taskVars,
    lockVars, podmanVars, TasksTyped, LockHeld, LaunchedByTask,
    AgentOperators, Operators, Of, Live
<1>13. CASE \E c \in Deployments \cup {"hook"} : List(c)
  BY <1>13 DEF List, Up, Free, vars, taskVars,
    lockVars, podmanVars, TasksTyped, LockHeld, LaunchedByTask,
    AgentOperators, Operators, Of, Live
<1>14. CASE \E c \in Deployments \cup {"hook"} : RemoveListed(c)
  BY <1>14 DEF RemoveListed, Up, Remove, Holds, Free,
    vars, taskVars, lockVars, podmanVars, TasksTyped, LockHeld,
    LaunchedByTask, AgentOperators, Operators, Of, Live
<1>15. CASE RestartCommand
  BY <1>15 DEF RestartCommand, Up, Running, Live,
    Waiting, Spend, vars, taskVars, lockVars,
    podmanVars, TasksTyped, LockHeld, LaunchedByTask, AgentOperators,
    Operators, Of, Live
<1>16. CASE RestartNext
  BY <1>16 DEF RestartNext, Up, BeginRestart, Handler,
    NoRestart, Free, vars, taskVars, lockVars,
    podmanVars, TasksTyped, LockHeld, LaunchedByTask, AgentOperators,
    Operators, Of, Live
<1>17. CASE RestartsDone
  BY <1>17 DEF RestartsDone, Up, Waiting, Handler,
    NoRestart, Free, vars, taskVars, lockVars,
    podmanVars, TasksTyped, LockHeld, LaunchedByTask, AgentOperators,
    Operators, Of, Live
<1>18. CASE RequestShutdown
  BY <1>18 DEF RequestShutdown, Free, vars, taskVars,
    lockVars, podmanVars, TasksTyped, LockHeld, LaunchedByTask,
    AgentOperators, Operators, Of, Live
<1>19. CASE HookLocks
  BY <1>19 DEF HookLocks, Cancel, Hook, Free, vars,
    taskVars, lockVars, podmanVars, TasksTyped, LockHeld,
    LaunchedByTask, AgentOperators, Operators, Of, Live
<1>20. CASE HookCleans
  BY <1>20 DEF HookCleans, Running, Live, Hook, Free,
    vars, taskVars, lockVars, podmanVars, TasksTyped, LockHeld,
    LaunchedByTask, AgentOperators, Operators, Of, Live
<1>21. CASE HookFinishes
  BY <1>21 DEF HookFinishes, HookEnds, HookFails, Spend,
    CleanedUp, Hook, NoCleanup, Free, vars, taskVars, lockVars,
    podmanVars, TasksTyped, LockHeld, LaunchedByTask,
    AgentOperators, Operators, Of, Live
<1>22. CASE UNCHANGED <<current, task, cancelled, cleanup, launch, lock, handler, hook, quit>>
  BY <1>22 DEF TasksTyped, LockHeld, LaunchedByTask, AgentOperators, Operators,
    Of, Live
<1>23. QED
  BY <1>1, <1>2, <1>3, <1>4, <1>5, <1>6, <1>7, <1>8, <1>9, <1>10, <1>11, <1>12, <1>13,
    <1>14, <1>15, <1>16, <1>17, <1>18, <1>19, <1>20, <1>21, <1>22, TasksFrame


LEMMA CleanedByTaskStep ==
  ASSUME AgentAssumption, TasksTyped, LockHeld, CleanedByTask, [Next]_vars
  PROVE  CleanedByTask'
<1>1. CASE \E d \in Deployments : Launch(d)
  BY <1>1 DEF Launch, Up, CleanedUp, NoCleanup, Of,
    Free, vars, taskVars, lockVars, podmanVars,
    TasksTyped, AgentCleanup, LockHeld, CleanedByTask, Hook, Live,
    AgentAssumption
<1>2. CASE \E d \in Deployments : Runs(d)
  BY <1>2 DEF Runs, Up, Of, Free, vars, taskVars,
    lockVars, podmanVars, TasksTyped, AgentCleanup, LockHeld, CleanedByTask,
    Hook, Live, AgentAssumption
<1>3. CASE \E d \in Deployments : Interrupted(d)
  BY <1>3 DEF Interrupted, Unwind, Up, Live, Of,
    Free, vars, taskVars, lockVars, podmanVars,
    TasksTyped, AgentCleanup, LockHeld, CleanedByTask, Hook, Live,
    AgentAssumption
<1>4. CASE \E d \in Deployments : Fails(d)
  BY <1>4 DEF Fails, Unwind, Up, Live, Of, Spend,
    vars, taskVars, lockVars, podmanVars, TasksTyped,
    AgentCleanup, LockHeld, CleanedByTask, Hook, Live, AgentAssumption
<1>5. CASE \E d \in Deployments : Finishes(d)
  BY <1>5 DEF Finishes, Ends, TeardownFails, Spend, Up,
    CleanedUp, NoCleanup, Free, vars, taskVars, lockVars,
    podmanVars, TasksTyped, AgentCleanup, LockHeld,
    CleanedByTask, Hook, Live, AgentAssumption
<1>6. CASE \E d \in Deployments : Assign(d)
  BY <1>6 DEF Assign, Up, Running, Live, Cancel,
    Begin, Handler, Free, vars, taskVars,
    lockVars, podmanVars, TasksTyped, AgentCleanup, LockHeld, CleanedByTask,
    Hook, Live, AgentAssumption
<1>7. CASE Replace
  BY <1>7 DEF Replace, Up, Running, Live, Begin,
    Waiting, Free, vars, taskVars, lockVars,
    podmanVars, TasksTyped, AgentCleanup, LockHeld, CleanedByTask, Hook,
    Live, AgentAssumption
<1>8. CASE Stopped
  BY <1>8 DEF Stopped, Up, Running, Live, Waiting,
    Free, vars, taskVars, lockVars, podmanVars,
    TasksTyped, AgentCleanup, LockHeld, CleanedByTask, Hook, Live,
    AgentAssumption
<1>9. CASE Stop
  BY <1>9 DEF Stop, Up, Cancel, Handler, Spend,
    vars, taskVars, lockVars, podmanVars, TasksTyped,
    AgentCleanup, LockHeld, CleanedByTask, Hook, Live, AgentAssumption
<1>10. CASE \E o \in AgentOperators : LaunchCreate(o)
  BY <1>10 DEF LaunchCreate, Up, Create, Free, vars,
    taskVars, lockVars, podmanVars, TasksTyped, AgentCleanup,
    LockHeld, CleanedByTask, Hook, Live, AgentAssumption
<1>11. CASE \E o \in AgentOperators : LaunchStart(o)
  BY <1>11 DEF LaunchStart, Up, StartContainer, Free,
    vars, taskVars, lockVars, podmanVars, TasksTyped,
    AgentCleanup, LockHeld, CleanedByTask, Hook, Live, AgentAssumption
<1>12. CASE \E c \in Deployments \cup {"hook"} : Clear(c)
  BY <1>12 DEF Clear, Up, Free, vars, taskVars,
    lockVars, podmanVars, TasksTyped, AgentCleanup, LockHeld, CleanedByTask,
    Hook, Live, AgentAssumption
<1>13. CASE \E c \in Deployments \cup {"hook"} : List(c)
  BY <1>13 DEF List, Up, Free, vars, taskVars,
    lockVars, podmanVars, TasksTyped, AgentCleanup, LockHeld, CleanedByTask,
    Hook, Live, AgentAssumption
<1>14. CASE \E c \in Deployments \cup {"hook"} : RemoveListed(c)
  BY <1>14 DEF RemoveListed, Up, Remove, Holds, Free,
    vars, taskVars, lockVars, podmanVars, TasksTyped,
    AgentCleanup, LockHeld, CleanedByTask, Hook, Live, AgentAssumption
<1>15. CASE RestartCommand
  BY <1>15 DEF RestartCommand, Up, Running, Live,
    Waiting, Spend, vars, taskVars, lockVars,
    podmanVars, TasksTyped, AgentCleanup, LockHeld, CleanedByTask, Hook,
    Live, AgentAssumption
<1>16. CASE RestartNext
  BY <1>16 DEF RestartNext, Up, BeginRestart, Handler,
    NoRestart, Free, vars, taskVars, lockVars,
    podmanVars, TasksTyped, AgentCleanup, LockHeld, CleanedByTask, Hook,
    Live, AgentAssumption
<1>17. CASE RestartsDone
  BY <1>17 DEF RestartsDone, Up, Waiting, Handler,
    NoRestart, Free, vars, taskVars, lockVars,
    podmanVars, TasksTyped, AgentCleanup, LockHeld, CleanedByTask, Hook,
    Live, AgentAssumption
<1>18. CASE RequestShutdown
  BY <1>18 DEF RequestShutdown, Free, vars, taskVars,
    lockVars, podmanVars, TasksTyped, AgentCleanup, LockHeld, CleanedByTask,
    Hook, Live, AgentAssumption
<1>19. CASE HookLocks
  BY <1>19 DEF HookLocks, Cancel, Hook, Free, vars,
    taskVars, lockVars, podmanVars, TasksTyped, AgentCleanup,
    LockHeld, CleanedByTask, Hook, Live, AgentAssumption
<1>20. CASE HookCleans
  BY <1>20 DEF HookCleans, Running, Live, Hook, Free,
    vars, taskVars, lockVars, podmanVars, TasksTyped,
    AgentCleanup, LockHeld, CleanedByTask, Hook, Live, AgentAssumption
<1>21. CASE HookFinishes
  BY <1>21 DEF HookFinishes, HookEnds, HookFails, Spend,
    CleanedUp, Hook, NoCleanup, Free, vars, taskVars, lockVars,
    podmanVars, TasksTyped, AgentCleanup, LockHeld,
    CleanedByTask, Live, AgentAssumption
<1>22. CASE UNCHANGED <<current, task, cancelled, cleanup, launch, lock, handler, hook, quit>>
  BY <1>22 DEF TasksTyped, AgentCleanup, LockHeld, CleanedByTask, Hook, Live,
    AgentAssumption
<1>23. QED
  BY <1>1, <1>2, <1>3, <1>4, <1>5, <1>6, <1>7, <1>8, <1>9, <1>10, <1>11, <1>12, <1>13,
    <1>14, <1>15, <1>16, <1>17, <1>18, <1>19, <1>20, <1>21, <1>22, TasksFrame

LEMMA HandFrame ==
  ASSUME [Next]_vars
  PROVE  \/ UNCHANGED <<handler, monitor, restart>>
         \/ \E d \in Deployments : Assign(d)
         \/ Replace
         \/ Stopped
         \/ Stop
         \/ RestartCommand
         \/ RestartNext
         \/ RestartsDone
         \/ Wake
         \/ PassDone
         \/ \E o \in AgentOperators : Look(o)
         \/ CheckUp
         \/ CheckGone
         \/ CheckStopped
         \/ Report
         \/ \E x \in {"handler", "monitor"} : RestartRemove(x)
         \/ \E x \in {"handler", "monitor"} : RestartCreate(x)
         \/ \E x \in {"handler", "monitor"} : RestartStart(x)
         \/ \E x \in {"handler", "monitor"} : RestartLink(x)
         \/ \E x \in {"handler", "monitor"} : RestartRaises(x)
         \/ \E x \in {"handler", "monitor"} : RestartFindsNone(x)
<1>1. CASE \/ \E d \in Deployments : Launch(d)
           \/ \E d \in Deployments : Runs(d)
           \/ \E d \in Deployments : Interrupted(d)
           \/ \E d \in Deployments : Fails(d)
           \/ \E d \in Deployments : Finishes(d)
  BY <1>1 DEF Launch, Up, CleanedUp, NoCleanup, Of, Free, vars,
    taskVars, lockVars, podmanVars, Runs, Interrupted, Unwind,
    Live, Fails, Spend, Finishes, Ends, TeardownFails
<1>2. CASE \/ \E o \in AgentOperators : LaunchCreate(o)
           \/ \E o \in AgentOperators : LaunchStart(o)
           \/ \E c \in Deployments \cup {"hook"} : Clear(c)
           \/ \E c \in Deployments \cup {"hook"} : List(c)
           \/ \E c \in Deployments \cup {"hook"} : RemoveListed(c)
  BY <1>2 DEF LaunchCreate, Up, Create, Free, vars,
    taskVars, lockVars, podmanVars, LaunchStart,
    StartContainer, Clear, List, RemoveListed, Remove,
    Holds
<1>3. CASE \/ \E o \in AgentOperators : Exit(o)
           \/ \E o \in AgentOperators : AutoRemove(o)
           \/ \E o \in AgentOperators : Remount(o)
           \/ RequestShutdown
           \/ HookLocks
  BY <1>3 DEF Exit, IsUp, Spend, vars, taskVars,
    lockVars, podmanVars, AutoRemove, Free, Remount,
    Up, RequestShutdown, HookLocks, Cancel, Hook
<1>4. CASE \/ HookCleans
           \/ HookFinishes
  BY <1>4 DEF HookCleans, Running, Live, Hook, Free, vars,
    taskVars, lockVars, podmanVars, HookFinishes, HookEnds,
    HookFails, Spend, CleanedUp, NoCleanup
<1>5. CASE UNCHANGED vars
  BY <1>5 DEF vars, taskVars, lockVars, podmanVars
<1>6. QED
  BY <1>1, <1>2, <1>3, <1>4, <1>5, AgentNextCases


LEMMA InHandStep ==
  ASSUME AgentAssumption, AgentInv, [Next]_vars
  PROVE  InHand'
<1>1. CASE \E d \in Deployments : Assign(d)
  BY <1>1 DEF Assign, Up, Running, Live, Cancel,
    Begin, Handler, Free, vars, taskVars,
    lockVars, podmanVars, AgentInv, TasksTyped, TrackersTyped, InHand,
    LockHeld, AgentHandler, AgentMonitor, AgentRestart, AgentOperators,
    AgentAssumption
<1>2. CASE Replace
  BY <1>2 DEF Replace, Up, Running, Live, Begin,
    Waiting, Free, vars, taskVars, lockVars,
    podmanVars, AgentInv, TasksTyped, TrackersTyped, InHand, LockHeld,
    AgentHandler, AgentMonitor, AgentRestart, AgentOperators, AgentAssumption
<1>3. CASE Stopped
  BY <1>3 DEF Stopped, Up, Running, Live, Waiting,
    Free, vars, taskVars, lockVars, podmanVars,
    AgentInv, TasksTyped, TrackersTyped, InHand, LockHeld, AgentHandler, AgentMonitor,
    AgentRestart, AgentOperators, AgentAssumption
<1>4. CASE Stop
  BY <1>4 DEF Stop, Up, Cancel, Handler, Spend,
    vars, taskVars, lockVars, podmanVars, AgentInv, TasksTyped,
    TrackersTyped, InHand, LockHeld, AgentHandler, AgentMonitor, AgentRestart,
    AgentOperators, AgentAssumption
<1>5. CASE RestartCommand
  BY <1>5 DEF RestartCommand, Up, Running, Live, Waiting,
    Spend, vars, taskVars, lockVars, podmanVars,
    AgentInv, TasksTyped, TrackersTyped, InHand, LockHeld, AgentHandler, AgentMonitor,
    AgentRestart, AgentOperators, AgentAssumption
<1>6. CASE RestartNext
  BY <1>6 DEF RestartNext, Up, BeginRestart, Handler,
    NoRestart, Free, vars, taskVars, lockVars,
    podmanVars, AgentInv, TasksTyped, TrackersTyped, InHand, LockHeld,
    AgentHandler, AgentMonitor, AgentRestart, AgentOperators, AgentAssumption
<1>7. CASE RestartsDone
  BY <1>7 DEF RestartsDone, Up, Waiting, Handler,
    NoRestart, Free, vars, taskVars, lockVars,
    podmanVars, AgentInv, TasksTyped, TrackersTyped, InHand, LockHeld,
    AgentHandler, AgentMonitor, AgentRestart, AgentOperators, AgentAssumption
<1>8. CASE Wake
  <2>1. \/ monitor' = NextPass
        \/ monitor' = [Resting EXCEPT !.pc = "walking", !.left = Listed]
    <3> DEFINE walk == [Resting EXCEPT !.pc = "walking", !.left = Listed]
    <3>1. MonitorIs(IF suppressed THEN NextPass ELSE walk)
      BY <1>8 DEF Wake
    <3> HIDE DEF walk
    <3>2. monitor' = NextPass \/ monitor' = walk
      BY <3>1 DEF MonitorIs
    <3>3. QED
      BY <3>2 DEF walk
  <2>2. None \notin Listed
    BY NoneIsNothing DEF Listed, AgentOperators
  <2>3. monitor'.op = None /\ monitor'.pc \in {"sleeping", "ended", "walking"}
        /\ (monitor'.left = {} \/ monitor'.left = Listed)
    <3>1. CASE monitor' = NextPass
      BY <3>1 DEF NextPass, Resting
    <3>2. CASE monitor' = [Resting EXCEPT !.pc = "walking", !.left = Listed]
      BY <3>2 DEF Resting
    <3>3. QED
      BY <2>1, <3>1, <3>2
  <2>4. UNCHANGED <<restart, handler>> /\ monitor.pc = "sleeping"
    BY <1>8 DEF Wake, MonitorIs, lockVars
  <2>5. QED
    BY <2>2, <2>3, <2>4 DEF AgentInv, InHand
<1>9. CASE PassDone
  BY <1>9 DEF PassDone, Up, MonitorIs, NextPass, Resting,
    Free, vars, taskVars, lockVars, podmanVars,
    AgentInv, TasksTyped, TrackersTyped, InHand, LockHeld, AgentHandler, AgentMonitor,
    AgentRestart, AgentOperators, AgentAssumption
<1>10. CASE \E o \in AgentOperators : Look(o)
  BY <1>10 DEF Look, Up, MonitorIs, BeginRestart,
    Monitor, Free, vars, taskVars, lockVars,
    podmanVars, AgentInv, TasksTyped, TrackersTyped, InHand, LockHeld,
    AgentHandler, AgentMonitor, AgentRestart, AgentOperators, AgentAssumption
<1>11. CASE CheckUp
  BY <1>11 DEF CheckUp, Up, MonitorIs, NextTracker,
    Holds, IsUp, Free, vars, taskVars, lockVars,
    podmanVars, AgentInv, TasksTyped, TrackersTyped, InHand, LockHeld,
    AgentHandler, AgentMonitor, AgentRestart, AgentOperators, AgentAssumption
<1>12. CASE CheckGone
  <2>1. monitor' = NextTracker \/ monitor' = Dead
    BY <1>12 DEF CheckGone, MonitorIs, Delete
  <2>2. monitor'.op = None /\ monitor'.pc \in {"walking", "dead"}
        /\ (monitor'.left = monitor.left \/ monitor'.left = {})
    BY <2>1 DEF AgentInv, TrackersTyped, AgentMonitor, NextTracker, Dead,
      Resting
  <2>3. None \notin monitor.left
    BY NoneIsNothing DEF AgentInv, TrackersTyped, AgentMonitor
  <2>4. UNCHANGED <<restart, handler>> /\ monitor.pc = "checking"
    BY <1>12 DEF CheckGone, MonitorIs, Delete, lockVars
  <2>5. QED
    BY <2>2, <2>3, <2>4 DEF AgentInv, InHand
<1>13. CASE CheckStopped
  BY <1>13 DEF CheckStopped, Up, MonitorIs, Holds, IsUp,
    BeginRestart, Monitor, Free, vars, taskVars,
    lockVars, podmanVars, AgentInv, TasksTyped, TrackersTyped, InHand,
    LockHeld, AgentHandler, AgentMonitor, AgentRestart, AgentOperators,
    AgentAssumption
<1>14. CASE Report
  BY <1>14 DEF Report, Up, MonitorIs, NextTracker,
    Delete, Free, vars, taskVars, lockVars,
    podmanVars, AgentInv, TasksTyped, TrackersTyped, InHand, LockHeld,
    AgentHandler, AgentMonitor, AgentRestart, AgentOperators, AgentAssumption
<1>15. CASE \E x \in {"handler", "monitor"} : RestartRemove(x)
  BY <1>15 DEF RestartRemove, Restarting, Up, Remove,
    Holds, Free, vars, taskVars, lockVars,
    podmanVars, AgentInv, TasksTyped, TrackersTyped, InHand, LockHeld,
    AgentHandler, AgentMonitor, AgentRestart, AgentOperators, AgentAssumption
<1>16. CASE \E x \in {"handler", "monitor"} : RestartCreate(x)
  BY <1>16 DEF RestartCreate, Restarting, Up, Create,
    Free, vars, taskVars, lockVars, podmanVars,
    AgentInv, TasksTyped, TrackersTyped, InHand, LockHeld, AgentHandler, AgentMonitor,
    AgentRestart, AgentOperators, AgentAssumption
<1>17. CASE \E x \in {"handler", "monitor"} : RestartStart(x)
  BY <1>17 DEF RestartStart, Restarting, Up, Holds,
    StartContainer, Free, vars, taskVars, lockVars,
    podmanVars, AgentInv, TasksTyped, TrackersTyped, InHand, LockHeld,
    AgentHandler, AgentMonitor, AgentRestart, AgentOperators, AgentAssumption
<1>18. CASE \E x \in {"handler", "monitor"} : RestartLink(x)
  BY <1>18 DEF RestartLink, Restarting, Up, Handler,
    Monitor, NoRestart, NextTracker, Free, vars,
    taskVars, lockVars, podmanVars, AgentInv, TasksTyped,
    TrackersTyped, InHand, LockHeld, AgentHandler, AgentMonitor, AgentRestart,
    AgentOperators, AgentAssumption
<1>19. CASE \E x \in {"handler", "monitor"} : RestartRaises(x)
  <2>1. PICK x \in {"handler", "monitor"} : RestartRaises(x)
    BY <1>19
  <2>2. restart' = [restart EXCEPT ![x] = NoRestart] /\ restart[x].pc # "off"
    BY <2>1 DEF RestartRaises, Restarting, Raises
  <2>3. UNCHANGED handler
    BY <2>1 DEF RestartRaises, Raises, MonitorIs, Delete, lockVars
  <2>4. CASE x = "handler"
    <3>1. UNCHANGED monitor
      BY <2>1, <2>4 DEF RestartRaises, Raises, Handler
    <3>2. QED
      BY <2>2, <2>3, <2>4, <3>1 DEF AgentInv, InHand, TrackersTyped, NoRestart
  <2>5. CASE x = "monitor"
    <3>1. monitor' = NextTracker \/ monitor' = Dead
      BY <2>1, <2>5 DEF RestartRaises, Raises, Handler, MonitorIs,
        Delete
    <3>2. monitor'.op = None /\ monitor'.pc \in {"walking", "dead"}
          /\ (monitor'.left = monitor.left \/ monitor'.left = {})
      BY <3>1 DEF AgentInv, TrackersTyped, AgentMonitor, NextTracker, Dead,
        Resting
    <3>3. None \notin monitor.left
      BY NoneIsNothing DEF AgentInv, TrackersTyped, AgentMonitor
    <3>4. QED
      BY <2>2, <2>3, <2>5, <3>2, <3>3 DEF AgentInv, InHand, TrackersTyped, NoRestart
  <2>6. QED
    BY <2>4, <2>5
<1>20. CASE \E x \in {"handler", "monitor"} : RestartFindsNone(x)
  <2>1. PICK x \in {"handler", "monitor"} : RestartFindsNone(x)
    BY <1>20
  <2>2. restart' = [restart EXCEPT ![x] = NoRestart] /\ restart[x].pc # "off"
    BY <2>1 DEF RestartFindsNone, Restarting, Raises
  <2>3. UNCHANGED handler
    BY <2>1 DEF RestartFindsNone, Raises, MonitorIs, Delete, lockVars
  <2>4. CASE x = "handler"
    <3>1. UNCHANGED monitor
      BY <2>1, <2>4 DEF RestartFindsNone, Raises, Handler
    <3>2. QED
      BY <2>2, <2>3, <2>4, <3>1 DEF AgentInv, InHand, TrackersTyped, NoRestart
  <2>5. CASE x = "monitor"
    <3>1. monitor' = NextTracker \/ monitor' = Dead
      BY <2>1, <2>5 DEF RestartFindsNone, Raises, Handler, MonitorIs,
        Delete
    <3>2. monitor'.op = None /\ monitor'.pc \in {"walking", "dead"}
          /\ (monitor'.left = monitor.left \/ monitor'.left = {})
      BY <3>1 DEF AgentInv, TrackersTyped, AgentMonitor, NextTracker, Dead,
        Resting
    <3>3. None \notin monitor.left
      BY NoneIsNothing DEF AgentInv, TrackersTyped, AgentMonitor
    <3>4. QED
      BY <2>2, <2>3, <2>5, <3>2, <3>3 DEF AgentInv, InHand, TrackersTyped, NoRestart
  <2>6. QED
    BY <2>4, <2>5
<1>21. CASE UNCHANGED <<handler, monitor, restart>>
  BY <1>21 DEF AgentInv, TasksTyped, TrackersTyped, InHand, LockHeld, AgentHandler,
    AgentMonitor, AgentRestart, AgentOperators, AgentAssumption
<1>22. QED
  BY <1>1, <1>2, <1>3, <1>4, <1>5, <1>6, <1>7, <1>8, <1>9, <1>10, <1>11, <1>12, <1>13,
    <1>14, <1>15, <1>16, <1>17, <1>18, <1>19, <1>20, <1>21, HandFrame


LEMMA TrackersChange ==
  ASSUME TrackersTyped, Tracked, InHand, [Next]_vars
  PROVE  \A o \in AgentOperators :
           \/ tracker'[o] = tracker[o]
           \/ LaunchStart(o)
           \/ tracker'[o] = [tracker[o] EXCEPT !.listed = FALSE] /\ tracker[o].listed /\ tracker[o] # None
           \/ Remount(o)
           \/ \E x \in {"handler", "monitor"} : RestartLink(x) /\ restart[x].op = o
<1>1. CASE \E o \in AgentOperators : LaunchStart(o)
  BY <1>1 DEF LaunchStart, Up, StartContainer, Free,
    vars, taskVars, lockVars, podmanVars, TrackersTyped,
    Tracked, InHand, AgentMonitor, AgentRestart, AgentOperators, Listed
<1>2. CASE \E c \in Deployments \cup {"hook"} : Clear(c)
  BY <1>2 DEF Clear, Up, Free, vars, taskVars,
    lockVars, podmanVars, TrackersTyped, Tracked, InHand, AgentMonitor,
    AgentRestart, AgentOperators, Listed
<1>3. CASE RestartNext
  BY <1>3 DEF RestartNext, Up, BeginRestart, Handler,
    NoRestart, Free, vars, taskVars, lockVars,
    podmanVars, TrackersTyped, Tracked, InHand, AgentMonitor, AgentRestart,
    AgentOperators, Listed
<1>4. CASE Wake
  BY <1>4 DEF Wake, Up, MonitorIs, NextPass, Resting,
    Free, vars, taskVars, lockVars, podmanVars,
    TrackersTyped, Tracked, InHand, AgentMonitor, AgentRestart, AgentOperators,
    Listed
<1>5. CASE PassDone
  BY <1>5 DEF PassDone, Up, MonitorIs, NextPass, Resting,
    Free, vars, taskVars, lockVars, podmanVars,
    TrackersTyped, Tracked, InHand, AgentMonitor, AgentRestart, AgentOperators,
    Listed
<1>6. CASE \E o \in AgentOperators : Look(o)
  BY <1>6 DEF Look, Up, MonitorIs, BeginRestart, Monitor,
    Free, vars, taskVars, lockVars, podmanVars,
    TrackersTyped, Tracked, InHand, AgentMonitor, AgentRestart, AgentOperators,
    Listed
<1>7. CASE CheckUp
  BY <1>7 DEF CheckUp, Up, MonitorIs, NextTracker, Holds,
    IsUp, Free, vars, taskVars, lockVars,
    podmanVars, TrackersTyped, Tracked, InHand, AgentMonitor, AgentRestart,
    AgentOperators, Listed
<1>8. CASE CheckGone
  <2>1. tracker[monitor.op] # None
    BY <1>8 DEF Tracked, InHand, CheckGone
  <2>2. \/ UNCHANGED tracker
        \/ /\ tracker[monitor.op].listed
           /\ tracker' = [tracker EXCEPT ![monitor.op].listed = FALSE]
    BY <1>8 DEF CheckGone, Delete
  <2>3. QED
    BY <2>1, <2>2 DEF TrackersTyped
<1>9. CASE CheckStopped
  BY <1>9 DEF CheckStopped, Up, MonitorIs, Holds, IsUp,
    BeginRestart, Monitor, Free, vars, taskVars,
    lockVars, podmanVars, TrackersTyped, Tracked, InHand, AgentMonitor,
    AgentRestart, AgentOperators, Listed
<1>10. CASE Report
  <2>1. tracker[monitor.op] # None
    BY <1>10 DEF Tracked, InHand, Report
  <2>2. \/ UNCHANGED tracker
        \/ /\ tracker[monitor.op].listed
           /\ tracker' = [tracker EXCEPT ![monitor.op].listed = FALSE]
    BY <1>10 DEF Report, Delete
  <2>3. QED
    BY <2>1, <2>2 DEF TrackersTyped
<1>11. CASE \E x \in {"handler", "monitor"} : RestartRemove(x)
  BY <1>11 DEF RestartRemove, Restarting, Up, Remove,
    Holds, Free, vars, taskVars, lockVars,
    podmanVars, TrackersTyped, Tracked, InHand, AgentMonitor, AgentRestart,
    AgentOperators, Listed
<1>12. CASE \E x \in {"handler", "monitor"} : RestartCreate(x)
  BY <1>12 DEF RestartCreate, Restarting, Up, Create,
    Free, vars, taskVars, lockVars, podmanVars,
    TrackersTyped, Tracked, InHand, AgentMonitor, AgentRestart, AgentOperators,
    Listed
<1>13. CASE \E x \in {"handler", "monitor"} : RestartStart(x)
  BY <1>13 DEF RestartStart, Restarting, Up, Holds,
    StartContainer, Free, vars, taskVars, lockVars,
    podmanVars, TrackersTyped, Tracked, InHand, AgentMonitor, AgentRestart,
    AgentOperators, Listed
<1>14. CASE \E x \in {"handler", "monitor"} : RestartLink(x)
  BY <1>14 DEF RestartLink, Restarting, Up, Handler,
    Monitor, NoRestart, NextTracker, Free, vars,
    taskVars, lockVars, podmanVars, TrackersTyped, Tracked, InHand,
    AgentMonitor, AgentRestart, AgentOperators, Listed
<1>15. CASE \E x \in {"handler", "monitor"} : RestartRaises(x)
  BY <1>15 DEF RestartRaises, Restarting, Up, Raises,
    MonitorIs, NoRestart, NextTracker, Dead, Resting,
    Handler, Free, vars, taskVars, lockVars,
    podmanVars, TrackersTyped, Tracked, InHand, AgentMonitor, AgentRestart,
    AgentOperators, Listed
<1>16. CASE \E x \in {"handler", "monitor"} : RestartFindsNone(x)
  <2>0. PICK x \in {"handler", "monitor"} : RestartFindsNone(x)
    BY <1>16
  <2>1. tracker[restart[x].op] # None
    BY <2>0 DEF Tracked, RestartFindsNone, Restarting
  <2>2. \/ UNCHANGED tracker
        \/ /\ tracker[restart[x].op].listed
           /\ tracker' = [tracker EXCEPT ![restart[x].op].listed = FALSE]
    BY <2>0 DEF RestartFindsNone, Raises, Delete
  <2>3. QED
    BY <2>1, <2>2 DEF TrackersTyped
<1>17. CASE \E o \in AgentOperators : Remount(o)
  BY <1>17 DEF Remount, Up, Spend, vars, taskVars,
    lockVars, podmanVars, TrackersTyped, Tracked, InHand, AgentMonitor,
    AgentRestart, AgentOperators, Listed
<1>18. CASE UNCHANGED <<tracker, monitor, restart>>
  BY <1>18 DEF TrackersTyped, Tracked, InHand, AgentMonitor, AgentRestart,
    AgentOperators, Listed
<1>19. QED
  BY <1>1, <1>2, <1>3, <1>4, <1>5, <1>6, <1>7, <1>8, <1>9, <1>10, <1>11, <1>12, <1>13,
    <1>14, <1>15, <1>16, <1>17, <1>18, TrackersFrame


LEMMA ContainersChange ==
  ASSUME PodmanTyped, [Next]_vars
  PROVE  \A o \in AgentOperators :
           \/ container'[o] = container[o] /\ made'[o] = made[o]
           \/ LaunchCreate(o)
           \/ LaunchStart(o)
           \/ \E c \in Deployments \cup {"hook"} :
                RemoveListed(c) /\ cleanup[c].left # {} /\ container'[o] = None
           \/ \E x \in {"handler", "monitor"} :
                /\ RestartRemove(x) \/ RestartCreate(x) \/ RestartStart(x)
                /\ restart[x].op = o
           \/ Exit(o)
           \/ AutoRemove(o)
<1>1. CASE \E o \in AgentOperators : LaunchCreate(o)
  BY <1>1 DEF LaunchCreate, Up, Create, Free, vars,
    taskVars, lockVars, podmanVars, PodmanTyped, AgentOperators
<1>2. CASE \E o \in AgentOperators : LaunchStart(o)
  BY <1>2 DEF LaunchStart, Up, StartContainer, Free,
    vars, taskVars, lockVars, podmanVars, PodmanTyped,
    AgentOperators
<1>3. CASE \E c \in Deployments \cup {"hook"} : RemoveListed(c)
  BY <1>3 DEF RemoveListed, Up, Remove, Holds, Free,
    vars, taskVars, lockVars, podmanVars, PodmanTyped,
    AgentOperators
<1>4. CASE \E x \in {"handler", "monitor"} : RestartRemove(x)
  BY <1>4 DEF RestartRemove, Restarting, Up, Remove,
    Holds, Free, vars, taskVars, lockVars,
    podmanVars, PodmanTyped, AgentOperators
<1>5. CASE \E x \in {"handler", "monitor"} : RestartCreate(x)
  BY <1>5 DEF RestartCreate, Restarting, Up, Create,
    Free, vars, taskVars, lockVars, podmanVars,
    PodmanTyped, AgentOperators
<1>6. CASE \E x \in {"handler", "monitor"} : RestartStart(x)
  BY <1>6 DEF RestartStart, Restarting, Up, Holds,
    StartContainer, Free, vars, taskVars, lockVars,
    podmanVars, PodmanTyped, AgentOperators
<1>7. CASE \E o \in AgentOperators : Exit(o)
  BY <1>7 DEF Exit, IsUp, Spend, vars, taskVars,
    lockVars, podmanVars, PodmanTyped, AgentOperators
<1>8. CASE \E o \in AgentOperators : AutoRemove(o)
  BY <1>8 DEF AutoRemove, Free, vars, taskVars, lockVars,
    podmanVars, PodmanTyped, AgentOperators
<1>9. CASE \E o \in AgentOperators : Remount(o)
  BY <1>9 DEF Remount, Up, Spend, vars, taskVars,
    lockVars, podmanVars, PodmanTyped, AgentOperators
<1>10. CASE UNCHANGED <<container, made, value>>
  BY <1>10 DEF PodmanTyped, AgentOperators
<1>11. QED
  BY <1>1, <1>2, <1>3, <1>4, <1>5, <1>6, <1>7, <1>8, <1>9, <1>10, PodmanFrame

LEMMA LaunchFrame ==
  ASSUME [Next]_vars
  PROVE  \/ UNCHANGED <<launch>>
         \/ \E d \in Deployments : Launch(d)
         \/ \E d \in Deployments : Interrupted(d)
         \/ \E d \in Deployments : Fails(d)
         \/ \E o \in AgentOperators : LaunchCreate(o)
         \/ \E o \in AgentOperators : LaunchStart(o)
<1>1. CASE \/ \E d \in Deployments : Runs(d)
           \/ \E d \in Deployments : Finishes(d)
           \/ \E d \in Deployments : Assign(d)
           \/ Replace
           \/ Stopped
  BY <1>1 DEF Runs, Up, Of, Free, vars, taskVars, lockVars,
    podmanVars, Finishes, Ends, TeardownFails, Spend, CleanedUp,
    NoCleanup, Assign, Running, Live, Cancel, Begin, Handler,
    Replace, Waiting, Stopped
<1>2. CASE \/ Stop
           \/ \E c \in Deployments \cup {"hook"} : Clear(c)
           \/ \E c \in Deployments \cup {"hook"} : List(c)
           \/ \E c \in Deployments \cup {"hook"} : RemoveListed(c)
           \/ RestartCommand
  BY <1>2 DEF Stop, Up, Cancel, Handler, Spend,
    vars, taskVars, lockVars, podmanVars, Clear,
    Free, List, RemoveListed, Remove, Holds,
    RestartCommand, Running, Live, Waiting
<1>3. CASE \/ RestartNext
           \/ RestartsDone
           \/ Wake
           \/ PassDone
           \/ \E o \in AgentOperators : Look(o)
  BY <1>3 DEF RestartNext, Up, BeginRestart, Handler,
    NoRestart, Free, vars, taskVars, lockVars,
    podmanVars, RestartsDone, Waiting, Wake, MonitorIs,
    NextPass, Resting, PassDone, Look, Monitor
<1>4. CASE \/ CheckUp
           \/ CheckGone
           \/ CheckStopped
           \/ Report
           \/ \E x \in {"handler", "monitor"} : RestartRemove(x)
  BY <1>4 DEF CheckUp, Up, MonitorIs, NextTracker, Holds,
    IsUp, Free, vars, taskVars, lockVars,
    podmanVars, CheckGone, Delete, Dead, Resting,
    CheckStopped, BeginRestart, Monitor, Report,
    RestartRemove, Restarting, Remove
<1>5. CASE \/ \E x \in {"handler", "monitor"} : RestartCreate(x)
           \/ \E x \in {"handler", "monitor"} : RestartStart(x)
           \/ \E x \in {"handler", "monitor"} : RestartLink(x)
           \/ \E x \in {"handler", "monitor"} : RestartRaises(x)
           \/ \E x \in {"handler", "monitor"} : RestartFindsNone(x)
  BY <1>5 DEF RestartCreate, Restarting, Up, Create,
    Free, vars, taskVars, lockVars, podmanVars,
    RestartStart, Holds, StartContainer, RestartLink,
    Handler, Monitor, NoRestart, NextTracker,
    RestartRaises, Raises, MonitorIs, Dead, Resting,
    RestartFindsNone, Delete
<1>6. CASE \/ \E o \in AgentOperators : Exit(o)
           \/ \E o \in AgentOperators : AutoRemove(o)
           \/ \E o \in AgentOperators : Remount(o)
           \/ RequestShutdown
           \/ HookLocks
  BY <1>6 DEF Exit, IsUp, Spend, vars, taskVars,
    lockVars, podmanVars, AutoRemove, Free, Remount,
    Up, RequestShutdown, HookLocks, Cancel, Hook
<1>7. CASE \/ HookCleans
           \/ HookFinishes
  BY <1>7 DEF HookCleans, Running, Live, Hook, Free, vars,
    taskVars, lockVars, podmanVars, HookFinishes, HookEnds,
    HookFails, Spend, CleanedUp, NoCleanup
<1>8. CASE UNCHANGED vars
  BY <1>8 DEF vars, taskVars, lockVars, podmanVars
<1>9. QED
  BY <1>1, <1>2, <1>3, <1>4, <1>5, <1>6, <1>7, <1>8, AgentNextCases

LEMMA LaunchChange ==
  ASSUME TasksTyped, [Next]_vars
  PROVE  \A o \in AgentOperators :
           \/ launch'[o] = launch[o]
           \/ launch'[o] = "off"
           \/ launch'[o] = "creating" /\ Launch(o[1]) /\ o[1] \in Deployments
           \/ LaunchCreate(o) /\ launch'[o] = "starting"
           \/ LaunchStart(o) /\ launch'[o] = "done"
<1>1. CASE \E d \in Deployments : Launch(d)
  <2>1. PICK d \in Deployments : Launch(d)
    BY <1>1
  <2>2. launch' = [o \in AgentOperators |-> IF o \in Of(d) THEN "creating" ELSE launch[o]]
    BY <2>1 DEF Launch, AgentOperators
  <2>3. \A o \in AgentOperators : o \in Of(d) => o[1] = d
    BY DEF Of
  <2>4. QED
    BY <2>1, <2>2, <2>3
<1>2. CASE \E d \in Deployments : Interrupted(d)
  BY <1>2 DEF Interrupted, Unwind, Up, Live, Of,
    Free, vars, taskVars, lockVars, podmanVars,
    TasksTyped, AgentOperators
<1>3. CASE \E d \in Deployments : Fails(d)
  BY <1>3 DEF Fails, Unwind, Up, Live, Of, Spend,
    vars, taskVars, lockVars, podmanVars, TasksTyped,
    AgentOperators
<1>4. CASE \E o \in AgentOperators : LaunchCreate(o)
  BY <1>4 DEF LaunchCreate, Up, Create, Free, vars,
    taskVars, lockVars, podmanVars, TasksTyped, AgentOperators
<1>5. CASE \E o \in AgentOperators : LaunchStart(o)
  BY <1>5 DEF LaunchStart, Up, StartContainer, Free,
    vars, taskVars, lockVars, podmanVars, TasksTyped,
    AgentOperators
<1>6. CASE UNCHANGED <<launch>>
  BY <1>6 DEF TasksTyped, AgentOperators
<1>7. QED
  BY <1>1, <1>2, <1>3, <1>4, <1>5, <1>6, LaunchFrame

LEMMA TaskFrame ==
  ASSUME [Next]_vars
  PROVE  \/ UNCHANGED <<current, task>>
         \/ \E d \in Deployments : Launch(d)
         \/ \E d \in Deployments : Runs(d)
         \/ \E d \in Deployments : Interrupted(d)
         \/ \E d \in Deployments : Fails(d)
         \/ \E d \in Deployments : Finishes(d)
         \/ \E d \in Deployments : Assign(d)
         \/ Replace
         \/ Stopped
         \/ HookCleans
<1>1. CASE \/ Stop
           \/ \E o \in AgentOperators : LaunchCreate(o)
           \/ \E o \in AgentOperators : LaunchStart(o)
           \/ \E c \in Deployments \cup {"hook"} : Clear(c)
           \/ \E c \in Deployments \cup {"hook"} : List(c)
  BY <1>1 DEF Stop, Up, Cancel, Handler, Spend,
    vars, taskVars, lockVars, podmanVars, LaunchCreate,
    Create, Free, LaunchStart, StartContainer, Clear,
    List
<1>2. CASE \/ \E c \in Deployments \cup {"hook"} : RemoveListed(c)
           \/ RestartCommand
           \/ RestartNext
           \/ RestartsDone
           \/ Wake
  BY <1>2 DEF RemoveListed, Up, Remove, Holds, Free,
    vars, taskVars, lockVars, podmanVars, RestartCommand,
    Running, Live, Waiting, Spend, RestartNext,
    BeginRestart, Handler, NoRestart, RestartsDone, Wake,
    MonitorIs, NextPass, Resting
<1>3. CASE \/ PassDone
           \/ \E o \in AgentOperators : Look(o)
           \/ CheckUp
           \/ CheckGone
           \/ CheckStopped
  BY <1>3 DEF PassDone, Up, MonitorIs, NextPass, Resting,
    Free, vars, taskVars, lockVars, podmanVars,
    Look, BeginRestart, Monitor, CheckUp, NextTracker,
    Holds, IsUp, CheckGone, Delete, Dead,
    CheckStopped
<1>4. CASE \/ Report
           \/ \E x \in {"handler", "monitor"} : RestartRemove(x)
           \/ \E x \in {"handler", "monitor"} : RestartCreate(x)
           \/ \E x \in {"handler", "monitor"} : RestartStart(x)
           \/ \E x \in {"handler", "monitor"} : RestartLink(x)
  BY <1>4 DEF Report, Up, MonitorIs, NextTracker, Delete,
    Free, vars, taskVars, lockVars, podmanVars,
    RestartRemove, Restarting, Remove, Holds,
    RestartCreate, Create, RestartStart, StartContainer,
    RestartLink, Handler, Monitor, NoRestart
<1>5. CASE \/ \E x \in {"handler", "monitor"} : RestartRaises(x)
           \/ \E x \in {"handler", "monitor"} : RestartFindsNone(x)
           \/ \E o \in AgentOperators : Exit(o)
           \/ \E o \in AgentOperators : AutoRemove(o)
           \/ \E o \in AgentOperators : Remount(o)
  BY <1>5 DEF RestartRaises, Restarting, Up, Raises,
    MonitorIs, NoRestart, NextTracker, Dead, Resting,
    Handler, Free, vars, taskVars, lockVars,
    podmanVars, RestartFindsNone, Holds, Delete, Exit,
    IsUp, Spend, AutoRemove, Remount
<1>6. CASE \/ RequestShutdown
           \/ HookLocks
           \/ HookFinishes
  BY <1>6 DEF RequestShutdown, Free, vars, taskVars, lockVars,
    podmanVars, HookLocks, Cancel, Hook, HookFinishes, HookEnds,
    HookFails, Spend, CleanedUp, NoCleanup
<1>7. CASE UNCHANGED vars
  BY <1>7 DEF vars, taskVars, lockVars, podmanVars
<1>8. QED
  BY <1>1, <1>2, <1>3, <1>4, <1>5, <1>6, <1>7, AgentNextCases

LEMMA TaskChange ==
  ASSUME TasksTyped, LockHeld, [Next]_vars
  PROVE  /\ \A d \in Deployments :
              \/ task'[d] = task[d]
              \/ task[d] = "none" /\ task'[d] = "cleaning"
              \/ Launch(d) /\ task'[d] = "launching"
              \/ Runs(d) /\ task'[d] = "running"
              \/ Unwind(d) /\ task'[d] = "closing"
              \/ Ends(d) /\ task'[d] = "done"
              \/ TeardownFails(d) /\ task'[d] = "failed"
         /\ current' = current \/ ~Running(current)
<1>1. CASE \E d \in Deployments : Launch(d)
  <2>1. PICK d \in Deployments : Launch(d)
    BY <1>1
  <2>2. task' = [task EXCEPT ![d] = "launching"] /\ UNCHANGED current
    BY <2>1 DEF Launch
  <2>3. QED
    BY <2>1, <2>2 DEF TasksTyped
<1>2. CASE \E d \in Deployments : Runs(d)
  BY <1>2 DEF Runs, Up, Of, Free, vars, taskVars,
    lockVars, podmanVars, TasksTyped, LockHeld
<1>3. CASE \E d \in Deployments : Interrupted(d)
  <2>1. PICK d \in Deployments : Unwind(d)
    BY <1>3 DEF Interrupted
  <2>2. task' = [task EXCEPT ![d] = "closing"] /\ UNCHANGED current
    BY <2>1 DEF Unwind
  <2>3. QED
    BY <2>1, <2>2 DEF TasksTyped
<1>4. CASE \E d \in Deployments : Fails(d)
  <2>1. PICK d \in Deployments : Unwind(d)
    BY <1>4 DEF Fails
  <2>2. task' = [task EXCEPT ![d] = "closing"] /\ UNCHANGED current
    BY <2>1 DEF Unwind
  <2>3. QED
    BY <2>1, <2>2 DEF TasksTyped
<1>5. CASE \E d \in Deployments : Finishes(d)
  <2>1. PICK d \in Deployments : Finishes(d)
    BY <1>5
  <2>2. CASE Ends(d)
    <3>1. task' = [task EXCEPT ![d] = "done"] /\ UNCHANGED current
      BY <2>2 DEF Ends
    <3>2. QED
      BY <2>2, <3>1 DEF TasksTyped
  <2>3. CASE TeardownFails(d)
    <3>1. task' = [task EXCEPT ![d] = "failed"] /\ UNCHANGED current
      BY <2>3 DEF TeardownFails
    <3>2. QED
      BY <2>3, <3>1 DEF TasksTyped
  <2>4. QED
    BY <2>1, <2>2, <2>3 DEF Finishes
<1>6. CASE \E d \in Deployments : Assign(d)
  BY <1>6 DEF Assign, Up, Running, Live, Cancel,
    Begin, Handler, Free, vars, taskVars,
    lockVars, podmanVars, TasksTyped, LockHeld
<1>7. CASE Replace
  BY <1>7 DEF Replace, Up, Running, Live, Begin,
    Waiting, Free, vars, taskVars, lockVars,
    podmanVars, TasksTyped, LockHeld
<1>8. CASE Stopped
  BY <1>8 DEF Stopped, Up, Running, Live, Waiting,
    Free, vars, taskVars, lockVars, podmanVars,
    TasksTyped, LockHeld
<1>9. CASE HookCleans
  BY <1>9 DEF HookCleans, Running, Live, Hook, Free,
    vars, taskVars, lockVars, podmanVars, TasksTyped, LockHeld
<1>10. CASE UNCHANGED <<current, task>>
  BY <1>10 DEF TasksTyped, LockHeld
<1>11. QED
  BY <1>1, <1>2, <1>3, <1>4, <1>5, <1>6, <1>7, <1>8, <1>9, <1>10, TaskFrame

LEMMA CleanupFrame ==
  ASSUME [Next]_vars
  PROVE  \/ UNCHANGED <<cleanup>>
         \/ \E d \in Deployments : Launch(d)
         \/ \E d \in Deployments : Interrupted(d)
         \/ \E d \in Deployments : Fails(d)
         \/ \E d \in Deployments : Finishes(d)
         \/ \E d \in Deployments : Assign(d)
         \/ Replace
         \/ \E c \in Deployments \cup {"hook"} : Clear(c)
         \/ \E c \in Deployments \cup {"hook"} : List(c)
         \/ \E c \in Deployments \cup {"hook"} : RemoveListed(c)
         \/ HookLocks
         \/ HookCleans
         \/ HookFinishes
<1>1. CASE \/ \E d \in Deployments : Runs(d)
           \/ Stopped
           \/ Stop
           \/ \E o \in AgentOperators : LaunchCreate(o)
           \/ \E o \in AgentOperators : LaunchStart(o)
  BY <1>1 DEF Runs, Up, Of, Free, vars, taskVars,
    lockVars, podmanVars, Stopped, Running, Live,
    Waiting, Stop, Cancel, Handler, Spend,
    LaunchCreate, Create, LaunchStart, StartContainer
<1>2. CASE \/ RestartCommand
           \/ RestartNext
           \/ RestartsDone
           \/ Wake
           \/ PassDone
  BY <1>2 DEF RestartCommand, Up, Running, Live, Waiting,
    Spend, vars, taskVars, lockVars, podmanVars,
    RestartNext, BeginRestart, Handler, NoRestart, Free,
    RestartsDone, Wake, MonitorIs, NextPass, Resting,
    PassDone
<1>3. CASE \/ \E o \in AgentOperators : Look(o)
           \/ CheckUp
           \/ CheckGone
           \/ CheckStopped
           \/ Report
  BY <1>3 DEF Look, Up, MonitorIs, BeginRestart, Monitor,
    Free, vars, taskVars, lockVars, podmanVars,
    CheckUp, NextTracker, Holds, IsUp, CheckGone,
    Delete, Dead, Resting, CheckStopped, Report
<1>4. CASE \/ \E x \in {"handler", "monitor"} : RestartRemove(x)
           \/ \E x \in {"handler", "monitor"} : RestartCreate(x)
           \/ \E x \in {"handler", "monitor"} : RestartStart(x)
           \/ \E x \in {"handler", "monitor"} : RestartLink(x)
           \/ \E x \in {"handler", "monitor"} : RestartRaises(x)
  BY <1>4 DEF RestartRemove, Restarting, Up, Remove,
    Holds, Free, vars, taskVars, lockVars,
    podmanVars, RestartCreate, Create, RestartStart,
    StartContainer, RestartLink, Handler, Monitor,
    NoRestart, NextTracker, RestartRaises, Raises,
    MonitorIs, Dead, Resting
<1>5. CASE \/ \E x \in {"handler", "monitor"} : RestartFindsNone(x)
           \/ \E o \in AgentOperators : Exit(o)
           \/ \E o \in AgentOperators : AutoRemove(o)
           \/ \E o \in AgentOperators : Remount(o)
           \/ RequestShutdown
  BY <1>5 DEF RestartFindsNone, Restarting, Up, Holds,
    Raises, Delete, MonitorIs, NoRestart, NextTracker,
    Dead, Resting, Handler, Free, vars, taskVars,
    lockVars, podmanVars, Exit, IsUp, Spend,
    AutoRemove, Remount, RequestShutdown
<1>6. CASE UNCHANGED vars
  BY <1>6 DEF vars, taskVars, lockVars, podmanVars
<1>7. QED
  BY <1>1, <1>2, <1>3, <1>4, <1>5, <1>6, AgentNextCases

LEMMA CleanupChange ==
  ASSUME TasksTyped, [Next]_vars
  PROVE  \A c \in Deployments \cup {"hook"} :
           cleanup'[c].pc \in {"listing", "removing"} =>
             cleanup[c].pc \in {"listing", "removing"} \/ Clear(c)
<1>1. CASE \E d \in Deployments : Launch(d)
  BY <1>1 DEF Launch, Up, CleanedUp, NoCleanup, Of,
    Free, vars, taskVars, lockVars, podmanVars,
    TasksTyped, AgentCleanup
<1>2. CASE \E d \in Deployments : Interrupted(d)
  BY <1>2 DEF Interrupted, Unwind, Up, Live, Of,
    Free, vars, taskVars, lockVars, podmanVars,
    TasksTyped, AgentCleanup
<1>3. CASE \E d \in Deployments : Fails(d)
  BY <1>3 DEF Fails, Unwind, Up, Live, Of, Spend,
    vars, taskVars, lockVars, podmanVars, TasksTyped,
    AgentCleanup
<1>4. CASE \E d \in Deployments : Finishes(d)
  BY <1>4 DEF Finishes, Ends, TeardownFails, Spend, Up,
    CleanedUp, NoCleanup, Free, vars, taskVars, lockVars,
    podmanVars, TasksTyped, AgentCleanup
<1>5. CASE \E d \in Deployments : Assign(d)
  BY <1>5 DEF Assign, Up, Running, Live, Cancel,
    Begin, Handler, Free, vars, taskVars,
    lockVars, podmanVars, TasksTyped, AgentCleanup
<1>6. CASE Replace
  BY <1>6 DEF Replace, Up, Running, Live, Begin,
    Waiting, Free, vars, taskVars, lockVars,
    podmanVars, TasksTyped, AgentCleanup
<1>7. CASE \E c \in Deployments \cup {"hook"} : Clear(c)
  BY <1>7 DEF Clear, Up, Free, vars, taskVars,
    lockVars, podmanVars, TasksTyped, AgentCleanup
<1>8. CASE \E c \in Deployments \cup {"hook"} : List(c)
  BY <1>8 DEF List, Up, Free, vars, taskVars,
    lockVars, podmanVars, TasksTyped, AgentCleanup
<1>9. CASE \E c \in Deployments \cup {"hook"} : RemoveListed(c)
  BY <1>9 DEF RemoveListed, Up, Remove, Holds, Free,
    vars, taskVars, lockVars, podmanVars, TasksTyped,
    AgentCleanup
<1>10. CASE HookLocks
  BY <1>10 DEF HookLocks, Cancel, Hook, Free, vars,
    taskVars, lockVars, podmanVars, TasksTyped, AgentCleanup
<1>11. CASE HookCleans
  BY <1>11 DEF HookCleans, Running, Live, Hook, Free,
    vars, taskVars, lockVars, podmanVars, TasksTyped,
    AgentCleanup
<1>12. CASE HookFinishes
  BY <1>12 DEF HookFinishes, HookEnds, HookFails, Spend,
    CleanedUp, Hook, NoCleanup, Free, vars, taskVars, lockVars,
    podmanVars, TasksTyped, AgentCleanup
<1>13. CASE UNCHANGED <<cleanup>>
  BY <1>13 DEF TasksTyped, AgentCleanup
<1>14. QED
  BY <1>1, <1>2, <1>3, <1>4, <1>5, <1>6, <1>7, <1>8, <1>9, <1>10, <1>11, <1>12, <1>13,
    CleanupFrame

LEMMA HandChange ==
  ASSUME TasksTyped, TrackersTyped, [Next]_vars
  PROVE  /\ monitor'.left \subseteq monitor.left \cup Listed
         /\ handler'.left \subseteq handler.left \cup Listed
         /\ monitor'.op \in {None, monitor.op} \cup monitor.left
         /\ \A x \in {"handler", "monitor"} : restart'[x].pc # "off" =>
              \/ restart[x].pc # "off" /\ restart'[x].op = restart[x].op
              \/ restart'[x].op \in handler.left \cup monitor.left
              \/ restart'[x].op = monitor.op /\ monitor.pc = "checking"
<1>1. CASE \E d \in Deployments : Assign(d)
  <2>1. UNCHANGED <<monitor, restart>>
    BY <1>1 DEF Assign
  <2>2. handler'.left = handler.left
    BY <1>1 DEF Assign, TasksTyped, AgentHandler
  <2>3. QED
    BY <2>1, <2>2
<1>2. CASE Replace
  BY <1>2 DEF Replace, Up, Running, Live, Begin,
    Waiting, Free, vars, taskVars, lockVars,
    podmanVars, TasksTyped, TrackersTyped, AgentHandler, AgentMonitor,
    AgentRestart
<1>3. CASE Stopped
  BY <1>3 DEF Stopped, Up, Running, Live, Waiting,
    Free, vars, taskVars, lockVars, podmanVars,
    TasksTyped, TrackersTyped, AgentHandler, AgentMonitor, AgentRestart
<1>4. CASE Stop
  BY <1>4 DEF Stop, Up, Cancel, Handler, Spend,
    vars, taskVars, lockVars, podmanVars, TasksTyped,
    TrackersTyped, AgentHandler, AgentMonitor, AgentRestart
<1>5. CASE RestartCommand
  BY <1>5 DEF RestartCommand, Up, Running, Live, Waiting,
    Spend, vars, taskVars, lockVars, podmanVars,
    TasksTyped, TrackersTyped, AgentHandler, AgentMonitor, AgentRestart
<1>6. CASE RestartNext
  BY <1>6 DEF RestartNext, Up, BeginRestart, Handler,
    NoRestart, Free, vars, taskVars, lockVars,
    podmanVars, TasksTyped, TrackersTyped, AgentHandler, AgentMonitor,
    AgentRestart
<1>7. CASE RestartsDone
  BY <1>7 DEF RestartsDone, Up, Waiting, Handler,
    NoRestart, Free, vars, taskVars, lockVars,
    podmanVars, TasksTyped, TrackersTyped, AgentHandler, AgentMonitor,
    AgentRestart
<1>8. CASE Wake
  BY <1>8 DEF Wake, Up, MonitorIs, NextPass, Resting,
    Free, vars, taskVars, lockVars, podmanVars,
    TasksTyped, TrackersTyped, AgentHandler, AgentMonitor, AgentRestart
<1>9. CASE PassDone
  BY <1>9 DEF PassDone, Up, MonitorIs, NextPass, Resting,
    Free, vars, taskVars, lockVars, podmanVars,
    TasksTyped, TrackersTyped, AgentHandler, AgentMonitor, AgentRestart
<1>10. CASE \E o \in AgentOperators : Look(o)
  BY <1>10 DEF Look, Up, MonitorIs, BeginRestart,
    Monitor, Free, vars, taskVars, lockVars,
    podmanVars, TasksTyped, TrackersTyped, AgentHandler, AgentMonitor,
    AgentRestart
<1>11. CASE CheckUp
  BY <1>11 DEF CheckUp, Up, MonitorIs, NextTracker,
    Holds, IsUp, Free, vars, taskVars, lockVars,
    podmanVars, TasksTyped, TrackersTyped, AgentHandler, AgentMonitor,
    AgentRestart
<1>12. CASE CheckGone
  <2>1. monitor' = NextTracker \/ monitor' = Dead
    BY <1>12 DEF CheckGone, Delete, MonitorIs
  <2>2. UNCHANGED <<handler, restart>>
    BY <1>12 DEF CheckGone, Delete, MonitorIs, lockVars
  <2>3. monitor'.op = None
        /\ (monitor'.left = monitor.left \/ monitor'.left = {})
    BY <2>1 DEF TrackersTyped, AgentMonitor, NextTracker, Dead, Resting
  <2>4. QED
    BY <2>2, <2>3
<1>13. CASE CheckStopped
  BY <1>13 DEF CheckStopped, Up, MonitorIs, Holds, IsUp,
    BeginRestart, Monitor, Free, vars, taskVars,
    lockVars, podmanVars, TasksTyped, TrackersTyped, AgentHandler,
    AgentMonitor, AgentRestart
<1>14. CASE Report
  <2>1. monitor' = NextTracker \/ monitor' = Dead
    BY <1>14 DEF Report, Delete, MonitorIs
  <2>2. UNCHANGED <<handler, restart>>
    BY <1>14 DEF Report, Delete, MonitorIs, lockVars
  <2>3. monitor'.op = None
        /\ (monitor'.left = monitor.left \/ monitor'.left = {})
    BY <2>1 DEF TrackersTyped, AgentMonitor, NextTracker, Dead, Resting
  <2>4. QED
    BY <2>2, <2>3
<1>15. CASE \E x \in {"handler", "monitor"} : RestartRemove(x)
  BY <1>15 DEF RestartRemove, Restarting, Up, Remove,
    Holds, Free, vars, taskVars, lockVars,
    podmanVars, TasksTyped, TrackersTyped, AgentHandler, AgentMonitor,
    AgentRestart
<1>16. CASE \E x \in {"handler", "monitor"} : RestartCreate(x)
  BY <1>16 DEF RestartCreate, Restarting, Up, Create,
    Free, vars, taskVars, lockVars, podmanVars,
    TasksTyped, TrackersTyped, AgentHandler, AgentMonitor, AgentRestart
<1>17. CASE \E x \in {"handler", "monitor"} : RestartStart(x)
  BY <1>17 DEF RestartStart, Restarting, Up, Holds,
    StartContainer, Free, vars, taskVars, lockVars,
    podmanVars, TasksTyped, TrackersTyped, AgentHandler, AgentMonitor,
    AgentRestart
<1>18. CASE \E x \in {"handler", "monitor"} : RestartLink(x)
  BY <1>18 DEF RestartLink, Restarting, Up, Handler,
    Monitor, NoRestart, NextTracker, Free, vars,
    taskVars, lockVars, podmanVars, TasksTyped, TrackersTyped,
    AgentHandler, AgentMonitor, AgentRestart
<1>19. CASE \E x \in {"handler", "monitor"} : RestartRaises(x)
  <2>1. PICK x \in {"handler", "monitor"} : RestartRaises(x)
    BY <1>19
  <2>2. restart' = [restart EXCEPT ![x] = NoRestart] /\ UNCHANGED handler
    BY <2>1 DEF RestartRaises, Raises, MonitorIs, Delete, lockVars
  <2>3. monitor' \in {monitor, NextTracker, Dead}
    BY <2>1 DEF RestartRaises, Raises, MonitorIs, Delete
  <2>4. monitor'.op \in {None, monitor.op}
        /\ (monitor'.left = monitor.left \/ monitor'.left = {})
    BY <2>3 DEF TrackersTyped, AgentMonitor, NextTracker, Dead, Resting
  <2>5. QED
    BY <2>2, <2>4 DEF TrackersTyped, NoRestart
<1>20. CASE \E x \in {"handler", "monitor"} : RestartFindsNone(x)
  <2>1. PICK x \in {"handler", "monitor"} : RestartFindsNone(x)
    BY <1>20
  <2>2. restart' = [restart EXCEPT ![x] = NoRestart] /\ UNCHANGED handler
    BY <2>1 DEF RestartFindsNone, Raises, MonitorIs, Delete, lockVars
  <2>3. monitor' \in {monitor, NextTracker, Dead}
    BY <2>1 DEF RestartFindsNone, Raises, MonitorIs, Delete
  <2>4. monitor'.op \in {None, monitor.op}
        /\ (monitor'.left = monitor.left \/ monitor'.left = {})
    BY <2>3 DEF TrackersTyped, AgentMonitor, NextTracker, Dead, Resting
  <2>5. QED
    BY <2>2, <2>4 DEF TrackersTyped, NoRestart
<1>21. CASE UNCHANGED <<handler, monitor, restart>>
  BY <1>21 DEF TasksTyped, TrackersTyped, AgentHandler, AgentMonitor, AgentRestart
<1>22. QED
  BY <1>1, <1>2, <1>3, <1>4, <1>5, <1>6, <1>7, <1>8, <1>9, <1>10, <1>11, <1>12, <1>13,
    <1>14, <1>15, <1>16, <1>17, <1>18, <1>19, <1>20, <1>21, HandFrame

(* While an operator is being started, nobody cleans up or restarts it.    *)
LEMMA StartingAlone ==
  ASSUME AgentAssumption, AgentInv, NEW o \in AgentOperators,
         launch[o] \in {"creating", "starting"}
  PROVE  /\ \A c \in Deployments \cup {"hook"} : cleanup[c].left = {} /\ cleanup[c].pc = "off"
         /\ \A x \in {"handler", "monitor"} : restart[x].pc # "off" => restart[x].op # o
<1>1. o[1] \in Deployments /\ task[o[1]] = "launching"
  BY DEF AgentInv, LaunchedByTask, AgentOperators, Operators
<1>2. o[1] = current /\ Running(o[1])
  BY <1>1, NoneIsNothing DEF AgentInv, RunsCurrent, Running, Live
<1>3. \A d \in Deployments : task[d] \notin {"cleaning", "closing"}
  <2>1. SUFFICES ASSUME NEW d \in Deployments, task[d] \in {"cleaning", "closing"}
                 PROVE  FALSE
    OBVIOUS
  <2>2. d = current
    BY <2>1, NoneIsNothing DEF AgentInv, RunsCurrent, Running, Live
  <2>3. QED
    BY <1>1, <1>2, <2>1, <2>2
<1>4. hook # "cleaning"
  BY <1>1, <1>2 DEF AgentInv, LockHeld
<1>5. cleanup \in [Deployments \cup {"hook"} -> AgentCleanup]
  BY DEF AgentInv, TasksTyped
<1>6. \A c \in Deployments \cup {"hook"} : cleanup[c].pc = "off" /\ cleanup[c].left = {}
  BY <1>3, <1>4, <1>5 DEF AgentInv, CleanedByTask
<1>7. \A x \in {"handler", "monitor"} : restart[x].pc # "off" => restart[x].op # o
  BY DEF AgentInv, Tracked
<1>8. QED
  BY <1>6, <1>7

LEMMA StartedStep ==
  ASSUME AgentAssumption, AgentInv, [Next]_vars
  PROVE  Started'
<1>1. SUFFICES ASSUME NEW o \in AgentOperators, launch'[o] = "starting"
               PROVE  container'[o] # None /\ container'[o].state = "created"
  BY DEF Started
<1>2. launch[o] = "starting" \/ LaunchCreate(o)
  <2>1. launch'[o] = launch[o] \/ launch'[o] \in {"off", "creating", "done"}
        \/ LaunchCreate(o)
    BY LaunchChange DEF AgentInv
  <2>2. QED
    BY <1>1, <2>1
<1>3. CASE LaunchCreate(o)
  <2>1. container'[o] = [id |-> made[o] + 1, state |-> "created", mount |-> value[o]]
    BY <1>3 DEF LaunchCreate, Create, AgentInv, PodmanTyped
  <2>2. container'[o] \in AgentContainer
    BY <2>1 DEF AgentInv, PodmanTyped, AgentContainer
  <2>3. QED
    BY <2>1, <2>2, NoneIsNothing
<1>4. CASE launch[o] = "starting"
  <2>1. container[o] # None /\ container[o].state = "created"
    BY <1>4 DEF AgentInv, Started
  <2>2. ~LaunchCreate(o) /\ ~Exit(o) /\ ~AutoRemove(o)
    BY <1>4, <2>1 DEF LaunchCreate, Exit, IsUp, AutoRemove
  <2>3. ~LaunchStart(o)
    BY <1>1, <1>4 DEF LaunchStart, AgentInv, TasksTyped
  <2>4. \A x \in {"handler", "monitor"} : restart[x].op = o =>
          ~(RestartRemove(x) \/ RestartCreate(x) \/ RestartStart(x))
    BY <1>4, StartingAlone DEF RestartRemove, RestartCreate, RestartStart,
      Restarting
  <2>5. \A c \in Deployments \cup {"hook"} : cleanup[c].left = {}
    BY <1>4, StartingAlone
  <2>6. container'[o] = container[o]
    BY <2>2, <2>3, <2>4, <2>5, ContainersChange DEF AgentInv
  <2>7. QED
    BY <2>1, <2>6
<1>5. QED
  BY <1>2, <1>3, <1>4

(* A tracker never goes; a new one comes from a container's first start.   *)
LEMMA TrackersKept ==
  ASSUME AgentAssumption, AgentInv, [Next]_vars
  PROVE  \A o \in AgentOperators :
           /\ tracker[o] # None => tracker'[o] # None
           /\ tracker'[o] # None => tracker[o] # None \/ LaunchStart(o)
           /\ o \in Listed' => o \in Listed \/ LaunchStart(o)
<1> SUFFICES ASSUME NEW o \in AgentOperators
             PROVE  /\ tracker[o] # None => tracker'[o] # None
                    /\ tracker'[o] # None => tracker[o] # None \/ LaunchStart(o)
                    /\ o \in Listed' => o \in Listed \/ LaunchStart(o)
  OBVIOUS
<1>1. tracker[o] \in {None} \cup AgentTracker /\ (tracker[o] # None => tracker[o] \in AgentTracker)
  BY DEF AgentInv, TrackersTyped
<1>2. TrackersTyped /\ Tracked /\ InHand
  BY DEF AgentInv
<1>3. CASE tracker'[o] = tracker[o]
  BY <1>3 DEF Listed
<1>4. CASE LaunchStart(o)
  <2>1. tracker'[o] = [id |-> container[o].id, marked |-> FALSE, restarts |-> 0, listed |-> TRUE]
    BY <1>2, <1>4 DEF LaunchStart, TrackersTyped
  <2>2. container[o].id \in Nat
    BY <1>4 DEF AgentInv, Started, PodmanTyped, LaunchStart, AgentContainer
  <2>3. tracker'[o] \in AgentTracker
    BY <2>1, <2>2 DEF AgentTracker
  <2>4. QED
    BY <1>4, <2>3, NoneIsNothing
<1>5. CASE tracker'[o] = [tracker[o] EXCEPT !.listed = FALSE] /\ tracker[o].listed /\ tracker[o] # None
  <2>1. tracker'[o] \in AgentTracker /\ ~tracker'[o].listed
    BY <1>1, <1>5 DEF AgentTracker
  <2>2. QED
    BY <1>5, <2>1, NoneIsNothing DEF Listed
<1>6. CASE Remount(o)
  <2>1. tracker[o] # None
    BY <1>2, <1>6 DEF Tracked, Remount
  <2>2. tracker'[o] = [tracker[o] EXCEPT !.marked = TRUE]
    BY <1>2, <1>6 DEF Remount, TrackersTyped
  <2>3. tracker'[o] \in AgentTracker /\ tracker'[o].listed = tracker[o].listed
    BY <1>1, <2>1, <2>2 DEF AgentTracker
  <2>4. QED
    BY <2>1, <2>3, NoneIsNothing DEF Listed, AgentOperators
<1>7. CASE \E x \in {"handler", "monitor"} : RestartLink(x) /\ restart[x].op = o
  <2>1. PICK x \in {"handler", "monitor"} : RestartLink(x) /\ restart[x].op = o
    BY <1>7
  <2>2. tracker[o] # None /\ tracker[o].listed
    BY <1>2, <2>1 DEF Tracked, RestartLink, Restarting
  <2>3. TrackersTyped'
    BY TrackersTypedStep
  <2>4. o \in Listed
    BY <2>2 DEF Listed, AgentOperators
  <2>5. restart[x].id \in Nat
    BY <1>2, <2>1 DEF TrackersTyped, RestartLink, Restarting, AgentRestart
  <2>6. tracker'[o] \in {[tracker[o] EXCEPT !.id = restart[x].id],
          [[tracker[o] EXCEPT !.id = restart[x].id] EXCEPT !.marked = FALSE],
          [[tracker[o] EXCEPT !.id = restart[x].id] EXCEPT !.restarts = @ + 1]}
    BY <1>2, <2>1 DEF RestartLink, TrackersTyped
  <2>7. tracker'[o] \in AgentTracker
    <3> DEFINE linked == [tracker[o] EXCEPT !.id = restart[x].id]
    <3>1. linked \in AgentTracker
      BY <1>1, <2>2, <2>5, TrackerFields
    <3> HIDE DEF linked
    <3>2. /\ [linked EXCEPT !.marked = FALSE] \in AgentTracker
          /\ [linked EXCEPT !.restarts = @ + 1] \in AgentTracker
      BY <3>1, TrackerFields
    <3>3. tracker'[o] \in {linked, [linked EXCEPT !.marked = FALSE],
            [linked EXCEPT !.restarts = @ + 1]}
      BY <2>6 DEF linked
    <3>4. QED
      BY <3>1, <3>2, <3>3
  <2>8. QED
    BY <2>2, <2>4, <2>7, NoneIsNothing
<1>8. QED
  BY <1>2, <1>3, <1>4, <1>5, <1>6, <1>7, TrackersChange

LEMMA TrackedStep ==
  ASSUME AgentAssumption, AgentInv, [Next]_vars
  PROVE  Tracked'
<1>1. ASSUME NEW o \in AgentOperators
      PROVE  /\ tracker'[o] # None =>
                  task'[o[1]] \notin {"none", "cleaning"}
                  /\ launch'[o] \notin {"creating", "starting"}
             /\ launch'[o] = "done" => tracker'[o] # None
  <2>1. o[1] \in Deployments
    BY <1>1 DEF AgentOperators, Operators
  <2>2. CASE tracker[o] # None
    <3>1. task[o[1]] \notin {"none", "cleaning"} /\ launch[o] \notin {"creating", "starting"}
      BY <1>1, <2>2 DEF AgentInv, Tracked
    <3>2. ~Launch(o[1]) /\ ~LaunchCreate(o) /\ ~LaunchStart(o)
      BY <3>1 DEF Launch, LaunchCreate, LaunchStart
    <3>3. task'[o[1]] \notin {"none", "cleaning"}
      BY <2>1, <3>1, TaskChange DEF AgentInv
    <3>4. launch'[o] \notin {"creating", "starting"}
      BY <1>1, <3>1, <3>2, LaunchChange DEF AgentInv
    <3>5. tracker'[o] # None
      BY <1>1, <2>2, TrackersKept
    <3>6. QED
      BY <3>3, <3>4, <3>5
  <2>3. CASE LaunchStart(o)
    <3>1. launch[o] = "starting" /\ launch'[o] = "done" /\ UNCHANGED task
      BY <1>1, <2>3 DEF LaunchStart, AgentInv, TasksTyped
    <3>2. task[o[1]] = "launching"
      BY <1>1, <3>1 DEF AgentInv, LaunchedByTask
    <3>3. tracker'[o] # None
      <4>1. tracker'[o] = [id |-> container[o].id, marked |-> FALSE, restarts |-> 0, listed |-> TRUE]
        BY <1>1, <2>3 DEF LaunchStart, AgentInv, TrackersTyped
      <4>2. container[o].id \in Nat
        BY <1>1, <2>3 DEF AgentInv, Started, PodmanTyped, LaunchStart, AgentContainer
      <4>3. tracker'[o] \in AgentTracker
        BY <4>1, <4>2 DEF AgentTracker
      <4>4. QED
        BY <4>3, NoneIsNothing
    <3>4. QED
      BY <3>1, <3>2, <3>3
  <2>4. CASE tracker[o] = None /\ ~LaunchStart(o)
    <3>1. tracker'[o] = None
      BY <1>1, <2>4, TrackersKept
    <3>2. launch[o] # "done"
      BY <1>1, <2>4 DEF AgentInv, Tracked
    <3>3. launch'[o] # "done"
      BY <1>1, <2>4, <3>2, LaunchChange DEF AgentInv
    <3>4. QED
      BY <3>1, <3>3
  <2>5. QED
    BY <2>2, <2>3, <2>4
<1>2. TasksTyped /\ TrackersTyped /\ Tracked /\ InHand
  BY DEF AgentInv
<1>3. Listed \subseteq AgentOperators /\ \A o \in Listed : tracker[o] # None
  BY DEF Listed, AgentOperators
<1>4. monitor.left \subseteq AgentOperators /\ handler.left \subseteq AgentOperators
      /\ monitor.op \in AgentOperators \cup {None}
      /\ \A x \in {"handler", "monitor"} : restart[x].pc # "off" => restart[x].op \in AgentOperators
  BY <1>2 DEF TasksTyped, TrackersTyped, AgentHandler, AgentMonitor, AgentRestart
<1>5. \A o \in AgentOperators : tracker[o] # None => tracker'[o] # None
  BY TrackersKept
<1>6. \A o \in monitor'.left \cup handler'.left : tracker'[o] # None
  BY <1>2, <1>3, <1>4, <1>5, HandChange DEF Tracked
<1>7. monitor'.op # None => tracker'[monitor'.op] # None
  <2>1. monitor'.op \in {None, monitor.op} \cup monitor.left
    BY <1>2, HandChange
  <2>2. QED
    BY <2>1, <1>2, <1>4, <1>5 DEF Tracked
<1>8. ASSUME NEW x \in {"handler", "monitor"}, restart'[x].pc # "off"
      PROVE  tracker'[restart'[x].op] # None
  <2>1. \/ restart[x].pc # "off" /\ restart'[x].op = restart[x].op
        \/ restart'[x].op \in handler.left \cup monitor.left
        \/ restart'[x].op = monitor.op /\ monitor.pc = "checking"
    BY <1>2, <1>8, HandChange
  <2>2. monitor.pc = "checking" => monitor.op # None
    BY <1>2 DEF InHand
  <2>3. QED
    BY <2>1, <2>2, <1>2, <1>4, <1>5 DEF Tracked
<1>9. QED
  BY <1>1, <1>6, <1>7, <1>8 DEF Tracked

(* The trackers that a cleanup has cleared.                                *)
LEMMA ClearEmpties ==
  ASSUME AgentAssumption, AgentInv, NEW c \in Deployments \cup {"hook"}, Clear(c)
  PROVE  Listed' = {}
<1>1. SUFFICES ASSUME NEW o \in AgentOperators, o \in Listed' PROVE FALSE
  BY DEF Listed, AgentOperators
<1>2. tracker'[o] = IF o \in Listed THEN [tracker[o] EXCEPT !.listed = FALSE] ELSE tracker[o]
  BY <1>1 DEF Clear, AgentOperators
<1>3. CASE o \in Listed
  <2>1. tracker[o] \in AgentTracker
    BY <1>1, <1>3 DEF AgentInv, TrackersTyped, Listed
  <2>2. ~tracker'[o].listed
    BY <1>2, <1>3, <2>1 DEF AgentTracker
  <2>3. QED
    BY <1>1, <2>2 DEF Listed
<1>4. CASE o \notin Listed
  BY <1>1, <1>2, <1>4 DEF Listed
<1>5. QED
  BY <1>3, <1>4

LEMMA ClearedStaysStep ==
  ASSUME AgentAssumption, AgentInv, [Next]_vars
  PROVE  ClearedStays'
<1>1. SUFFICES ASSUME NEW d \in Deployments, task'[d] = "closing",
                      cleanup'[d].pc \in {"listing", "removing"}
               PROVE  Listed' = {}
  BY DEF ClearedStays
<1>2. TasksTyped /\ LockHeld /\ TasksTyped'
  BY TasksTypedStep DEF AgentInv
<1>3. cleanup[d].pc \in {"listing", "removing"} \/ Clear(d)
  BY <1>1, <1>2, CleanupChange
<1>4. CASE Clear(d)
  BY <1>4, ClearEmpties
<1>5. CASE cleanup[d].pc \in {"listing", "removing"}
  <2>1. ~Unwind(d)
    <3>1. SUFFICES ASSUME Unwind(d) PROVE FALSE
      OBVIOUS
    <3>2. cleanup'[d] = [pc |-> "clearing", left |-> {}]
      BY <1>2, <3>1 DEF Unwind, TasksTyped
    <3>3. QED
      BY <1>1, <3>2
  <2>2. task[d] = "closing"
    BY <1>1, <1>2, <2>1, TaskChange
  <2>3. Listed = {}
    BY <1>5, <2>2 DEF AgentInv, ClearedStays
  <2>4. \A o \in AgentOperators : ~LaunchStart(o)
    <3>1. SUFFICES ASSUME NEW o \in AgentOperators, LaunchStart(o) PROVE FALSE
      OBVIOUS
    <3>2. launch[o] = "starting"
      BY <3>1 DEF LaunchStart
    <3>3. cleanup[d].pc = "off"
      BY <3>2, StartingAlone
    <3>4. QED
      BY <1>5, <3>3
  <2>5. \A o \in AgentOperators : o \notin Listed'
    BY <2>3, <2>4, TrackersKept
  <2>6. QED
    BY <2>5 DEF Listed, AgentOperators
<1>6. QED
  BY <1>3, <1>4, <1>5

(* The trackers are those of the deployment whose task is there.           *)
LEMMA TrackedIsCurrentStep ==
  ASSUME AgentAssumption, AgentInv, [Next]_vars
  PROVE  TrackedIsCurrent'
<1>1. SUFFICES ASSUME NEW o \in AgentOperators, o \in Listed'
               PROVE  (o[1] = current' /\ Running(current)') \/ task'[o[1]] = "failed"
  BY DEF TrackedIsCurrent, Listed, AgentOperators
<1>2. TasksTyped /\ LockHeld /\ TrackersTyped
  BY DEF AgentInv
<1>3. o[1] \in Deployments /\ None \notin Deployments
  BY NoneIsNothing DEF AgentOperators, Operators
<1>4. CASE LaunchStart(o)
  <2>1. launch[o] = "starting" /\ UNCHANGED <<task, current>>
    BY <1>4 DEF LaunchStart
  <2>2. task[o[1]] = "launching"
    BY <2>1 DEF AgentInv, LaunchedByTask
  <2>3. o[1] = current
    BY <1>3, <2>2 DEF AgentInv, RunsCurrent, Running, Live
  <2>4. QED
    BY <1>3, <2>1, <2>2, <2>3 DEF Running, Live
<1>5. CASE o \in Listed /\ task[o[1]] = "failed"
  <2>1. task'[o[1]] = "failed"
    BY <1>2, <1>3, <1>5, TaskChange DEF Launch, Runs, Unwind, Live, Ends, TeardownFails
  <2>2. QED
    BY <2>1
<1>6. CASE o \in Listed /\ task[o[1]] # "failed"
  <2>1. o[1] = current /\ Running(current)
    BY <1>6 DEF AgentInv, TrackedIsCurrent, AgentOperators, Listed
  <2>2. current' = current
    BY <1>2, <2>1, TaskChange
  <2>3. ~Ends(current)
    <3>1. SUFFICES ASSUME Ends(current) PROVE FALSE
      OBVIOUS
    <3>2. task[current] = "closing" /\ cleanup[current].pc = "removing"
      BY <3>1 DEF Ends, CleanedUp
    <3>3. Listed = {}
      BY <1>3, <2>1, <3>2 DEF AgentInv, ClearedStays
    <3>4. QED
      BY <1>6, <3>3
  <2>4. task[current] \notin {"none", "done"}
    BY <1>3, <2>1 DEF Running, Live
  <2>5. task'[current] \in {"cleaning", "launching", "running", "closing", "failed"}
    BY <1>2, <1>3, <2>1, <2>3, <2>4, TaskChange DEF TasksTyped
  <2>6. QED
    BY <1>3, <2>1, <2>2, <2>5 DEF Running, Live
<1>7. QED
  BY <1>1, <1>4, <1>5, <1>6, TrackersKept

LEMMA AgentInvStep ==
  ASSUME AgentAssumption, AgentInv, [Next]_vars
  PROVE  AgentInv'
BY TasksTypedStep, TrackersTypedStep, PodmanTypedStep, RunsCurrentStep, LockHeldStep,
  LaunchedByTaskStep, CleanedByTaskStep, TrackedStep, InHandStep, StartedStep,
  ClearedStaysStep, TrackedIsCurrentStep DEF AgentInv

LEMMA AgentInvInit ==
  ASSUME AgentAssumption, Init
  PROVE  AgentInv
<1>1. TasksTyped
  BY DEF Init, TasksTyped, AgentCleanup, AgentHandler, AgentOperators, Cleaners,
    Hook, NoCleanup, Waiting
<1>2. TrackersTyped
  BY DEF Init, TrackersTyped, AgentMonitor, AgentOperators, Resting,
    NoRestart, Handler, Monitor
<1>3. PodmanTyped
  BY DEF Init, PodmanTyped, AgentOperators
<1>4. RunsCurrent /\ LockHeld /\ LaunchedByTask /\ CleanedByTask
  BY DEF Init, RunsCurrent, LockHeld, LaunchedByTask, CleanedByTask, Running,
    Live, Waiting, Cleaners, Hook, NoCleanup, AgentOperators
<1>5. Tracked /\ InHand /\ Started
  BY DEF Init, Tracked, InHand, Started, Resting, Waiting, NoRestart,
    Handler, Monitor, AgentOperators
<1>6. Listed = {}
  BY DEF Init, Listed
<1>7. ClearedStays /\ TrackedIsCurrent
  BY <1>6 DEF ClearedStays, TrackedIsCurrent
<1>8. QED
  BY <1>1, <1>2, <1>3, <1>4, <1>5, <1>7 DEF AgentInv

LEMMA OneTaskSuffices == AgentInv => OneTaskAtATime /\ TrackedIsCurrent
BY DEF AgentInv, RunsCurrent, OneTaskAtATime

(* One deployment's task at a time, and only operators of its deployment,  *)
(* or of one whose teardown failed, are tracked.                           *)
THEOREM AgentHasOneTask ==
  ASSUME AgentAssumption
  PROVE  Spec => [](OneTaskAtATime /\ TrackedIsCurrent)
<1>1. Init => AgentInv
  BY AgentInvInit
<1>2. AgentInv /\ [Next]_vars => AgentInv'
  BY AgentInvStep
<1>3. QED
  BY <1>1, <1>2, OneTaskSuffices, PTL DEF Spec

LEMMA BudgetFrame ==
  ASSUME [Next]_vars
  PROVE  \/ UNCHANGED <<budget>>
         \/ \E d \in Deployments : Fails(d)
         \/ \E d \in Deployments : TeardownFails(d)
         \/ HookFails
         \/ Stop
         \/ RestartCommand
         \/ \E o \in AgentOperators : Exit(o)
         \/ \E o \in AgentOperators : Remount(o)
<1>1. CASE \/ \E d \in Deployments : Launch(d)
           \/ \E d \in Deployments : Runs(d)
           \/ \E d \in Deployments : Interrupted(d)
           \/ \E d \in Deployments : Finishes(d)
           \/ \E d \in Deployments : Assign(d)
  BY <1>1 DEF Launch, Up, CleanedUp, NoCleanup, Of, Free, vars,
    taskVars, lockVars, podmanVars, Runs, Interrupted, Unwind,
    Live, Finishes, Ends, Assign, Running,
    Cancel, Begin, Handler
<1>2. CASE \/ Replace
           \/ Stopped
           \/ \E o \in AgentOperators : LaunchCreate(o)
           \/ \E o \in AgentOperators : LaunchStart(o)
           \/ \E c \in Deployments \cup {"hook"} : Clear(c)
  BY <1>2 DEF Replace, Up, Running, Live, Begin,
    Waiting, Free, vars, taskVars, lockVars,
    podmanVars, Stopped, LaunchCreate, Create,
    LaunchStart, StartContainer, Clear
<1>3. CASE \/ \E c \in Deployments \cup {"hook"} : List(c)
           \/ \E c \in Deployments \cup {"hook"} : RemoveListed(c)
           \/ RestartNext
           \/ RestartsDone
           \/ Wake
  BY <1>3 DEF List, Up, Free, vars, taskVars,
    lockVars, podmanVars, RemoveListed, Remove, Holds,
    RestartNext, BeginRestart, Handler, NoRestart,
    RestartsDone, Waiting, Wake, MonitorIs, NextPass,
    Resting
<1>4. CASE \/ PassDone
           \/ \E o \in AgentOperators : Look(o)
           \/ CheckUp
           \/ CheckGone
           \/ CheckStopped
  BY <1>4 DEF PassDone, Up, MonitorIs, NextPass, Resting,
    Free, vars, taskVars, lockVars, podmanVars,
    Look, BeginRestart, Monitor, CheckUp, NextTracker,
    Holds, IsUp, CheckGone, Delete, Dead,
    CheckStopped
<1>5. CASE \/ Report
           \/ \E x \in {"handler", "monitor"} : RestartRemove(x)
           \/ \E x \in {"handler", "monitor"} : RestartCreate(x)
           \/ \E x \in {"handler", "monitor"} : RestartStart(x)
           \/ \E x \in {"handler", "monitor"} : RestartLink(x)
  BY <1>5 DEF Report, Up, MonitorIs, NextTracker, Delete,
    Free, vars, taskVars, lockVars, podmanVars,
    RestartRemove, Restarting, Remove, Holds,
    RestartCreate, Create, RestartStart, StartContainer,
    RestartLink, Handler, Monitor, NoRestart
<1>6. CASE \/ \E x \in {"handler", "monitor"} : RestartRaises(x)
           \/ \E x \in {"handler", "monitor"} : RestartFindsNone(x)
           \/ \E o \in AgentOperators : AutoRemove(o)
           \/ RequestShutdown
           \/ HookLocks
  BY <1>6 DEF RestartRaises, Restarting, Up, Raises,
    MonitorIs, NoRestart, NextTracker, Dead, Resting,
    Handler, Free, vars, taskVars, lockVars,
    podmanVars, RestartFindsNone, Holds, Delete,
    AutoRemove, RequestShutdown, HookLocks, Cancel, Hook
<1>7. CASE \/ HookCleans
           \/ HookFinishes
  BY <1>7 DEF HookCleans, Running, Live, Hook, Free, vars,
    taskVars, lockVars, podmanVars, HookFinishes, HookEnds,
    CleanedUp, NoCleanup
<1>8. CASE UNCHANGED vars
  BY <1>8 DEF vars, taskVars, lockVars, podmanVars
<1>9. QED
  BY <1>1, <1>2, <1>3, <1>4, <1>5, <1>6, <1>7, <1>8, AgentNextCases


LEMMA BudgetChange ==
  ASSUME BudgetTyped, [Next]_vars
  PROVE  /\ BudgetTyped'
         /\ \A k \in {"exit", "remount", "restart", "stop", "error"} :
              budget'[k] <= budget[k]
         /\ \/ budget'["restart"] = budget["restart"]
            \/ RestartCommand /\ budget'["restart"] = budget["restart"] - 1
               /\ budget["restart"] > 0
<1>1. CASE UNCHANGED <<budget>>
  BY <1>1 DEF BudgetTyped
<1>2. ASSUME NEW k \in {"exit", "remount", "stop", "error"}, Spend(k)
      PROVE  /\ BudgetTyped'
             /\ \A j \in {"exit", "remount", "restart", "stop", "error"} :
                  budget'[j] <= budget[j]
             /\ budget'["restart"] = budget["restart"]
  BY <1>2 DEF BudgetTyped, Spend
<1>3. CASE RestartCommand
  <2>1. Spend("restart")
    BY <1>3 DEF RestartCommand
  <2>2. budget["restart"] > 0 /\ budget' = [budget EXCEPT !["restart"] = @ - 1]
    BY <2>1 DEF Spend
  <2>3. budget'["restart"] = budget["restart"] - 1 /\ budget["restart"] \in Nat
    BY <2>2 DEF BudgetTyped
  <2>4. QED
    BY <1>3, <2>2, <2>3 DEF BudgetTyped
<1>4. CASE \E d \in Deployments : Fails(d)
  BY <1>2, <1>4 DEF Fails
<1>5. CASE Stop
  BY <1>2, <1>5 DEF Stop
<1>6. CASE \E o \in AgentOperators : Exit(o)
  BY <1>2, <1>6 DEF Exit
<1>7. CASE \E o \in AgentOperators : Remount(o)
  BY <1>2, <1>7 DEF Remount
<1>8. CASE (\E d \in Deployments : TeardownFails(d)) \/ HookFails
  BY <1>2, <1>8 DEF TeardownFails, HookFails
<1>9. QED
  BY <1>1, <1>3, <1>4, <1>5, <1>6, <1>7, <1>8, BudgetFrame

LEMMA HandlerFrame ==
  ASSUME [Next]_vars
  PROVE  \/ UNCHANGED <<handler>>
         \/ \E d \in Deployments : Assign(d)
         \/ Replace
         \/ Stopped
         \/ Stop
         \/ RestartCommand
         \/ RestartNext
         \/ RestartsDone
<1>1. CASE \/ \E d \in Deployments : Launch(d)
           \/ \E d \in Deployments : Runs(d)
           \/ \E d \in Deployments : Interrupted(d)
           \/ \E d \in Deployments : Fails(d)
           \/ \E d \in Deployments : Finishes(d)
  BY <1>1 DEF Launch, Up, CleanedUp, NoCleanup, Of, Free, vars,
    taskVars, lockVars, podmanVars, Runs, Interrupted, Unwind,
    Live, Fails, Spend, Finishes, Ends, TeardownFails
<1>2. CASE \/ \E o \in AgentOperators : LaunchCreate(o)
           \/ \E o \in AgentOperators : LaunchStart(o)
           \/ \E c \in Deployments \cup {"hook"} : Clear(c)
           \/ \E c \in Deployments \cup {"hook"} : List(c)
           \/ \E c \in Deployments \cup {"hook"} : RemoveListed(c)
  BY <1>2 DEF LaunchCreate, Up, Create, Free, vars,
    taskVars, lockVars, podmanVars, LaunchStart,
    StartContainer, Clear, List, RemoveListed, Remove,
    Holds
<1>3. CASE \/ Wake
           \/ PassDone
           \/ \E o \in AgentOperators : Look(o)
           \/ CheckUp
           \/ CheckGone
  BY <1>3 DEF Wake, Up, MonitorIs, NextPass, Resting,
    Free, vars, taskVars, lockVars, podmanVars,
    PassDone, Look, BeginRestart, Monitor, CheckUp,
    NextTracker, Holds, IsUp, CheckGone, Delete,
    Dead
<1>4. CASE \/ CheckStopped
           \/ Report
           \/ \E x \in {"handler", "monitor"} : RestartRemove(x)
           \/ \E x \in {"handler", "monitor"} : RestartCreate(x)
           \/ \E x \in {"handler", "monitor"} : RestartStart(x)
  BY <1>4 DEF CheckStopped, Up, MonitorIs, Holds, IsUp,
    BeginRestart, Monitor, Free, vars, taskVars,
    lockVars, podmanVars, Report, NextTracker, Delete,
    RestartRemove, Restarting, Remove, RestartCreate,
    Create, RestartStart, StartContainer
<1>5. CASE \/ \E x \in {"handler", "monitor"} : RestartLink(x)
           \/ \E x \in {"handler", "monitor"} : RestartRaises(x)
           \/ \E x \in {"handler", "monitor"} : RestartFindsNone(x)
           \/ \E o \in AgentOperators : Exit(o)
           \/ \E o \in AgentOperators : AutoRemove(o)
  BY <1>5 DEF RestartLink, Restarting, Up, Handler,
    Monitor, NoRestart, NextTracker, Free, vars,
    taskVars, lockVars, podmanVars, RestartRaises,
    Raises, MonitorIs, Dead, Resting, RestartFindsNone,
    Holds, Delete, Exit, IsUp, Spend, AutoRemove
<1>6. CASE \/ \E o \in AgentOperators : Remount(o)
           \/ RequestShutdown
           \/ HookLocks
           \/ HookCleans
           \/ HookFinishes
  BY <1>6 DEF Remount, Up, Spend, vars, taskVars, lockVars,
    podmanVars, RequestShutdown, Free, HookLocks, Cancel, Hook,
    HookCleans, Running, Live, HookFinishes, HookEnds,
    HookFails, CleanedUp, NoCleanup
<1>7. CASE UNCHANGED vars
  BY <1>7 DEF vars, taskVars, lockVars, podmanVars
<1>8. QED
  BY <1>1, <1>2, <1>3, <1>4, <1>5, <1>6, <1>7, AgentNextCases

LEMMA HandlerPcFrame ==
  ASSUME TasksTyped, [Next]_vars
  PROVE  handler'.pc = "restarting" => handler.pc = "restarting" \/ RestartCommand
<1>1. CASE \E d \in Deployments : Assign(d)
  BY <1>1 DEF Assign, Up, Running, Live, Cancel,
    Begin, Handler, Free, vars, taskVars,
    lockVars, podmanVars, TasksTyped, AgentHandler
<1>2. CASE Replace
  BY <1>2 DEF Replace, Up, Running, Live, Begin,
    Waiting, Free, vars, taskVars, lockVars,
    podmanVars, TasksTyped, AgentHandler
<1>3. CASE Stopped
  BY <1>3 DEF Stopped, Up, Running, Live, Waiting,
    Free, vars, taskVars, lockVars, podmanVars,
    TasksTyped, AgentHandler
<1>4. CASE Stop
  BY <1>4 DEF Stop, Up, Cancel, Handler, Spend,
    vars, taskVars, lockVars, podmanVars, TasksTyped,
    AgentHandler
<1>5. CASE RestartCommand
  BY <1>5 DEF RestartCommand, Up, Running, Live, Waiting,
    Spend, vars, taskVars, lockVars, podmanVars,
    TasksTyped, AgentHandler
<1>6. CASE RestartNext
  BY <1>6 DEF RestartNext, Up, BeginRestart, Handler,
    NoRestart, Free, vars, taskVars, lockVars,
    podmanVars, TasksTyped, AgentHandler
<1>7. CASE RestartsDone
  BY <1>7 DEF RestartsDone, Up, Waiting, Handler,
    NoRestart, Free, vars, taskVars, lockVars,
    podmanVars, TasksTyped, AgentHandler
<1>8. CASE UNCHANGED <<handler>>
  BY <1>8 DEF TasksTyped, AgentHandler
<1>9. QED
  BY <1>1, <1>2, <1>3, <1>4, <1>5, <1>6, <1>7, <1>8, HandlerFrame

LEMMA RestartFrame ==
  ASSUME [Next]_vars
  PROVE  \/ UNCHANGED <<restart>>
         \/ RestartNext
         \/ \E o \in AgentOperators : Look(o)
         \/ CheckStopped
         \/ \E x \in {"handler", "monitor"} : RestartRemove(x)
         \/ \E x \in {"handler", "monitor"} : RestartCreate(x)
         \/ \E x \in {"handler", "monitor"} : RestartStart(x)
         \/ \E x \in {"handler", "monitor"} : RestartLink(x)
         \/ \E x \in {"handler", "monitor"} : RestartRaises(x)
         \/ \E x \in {"handler", "monitor"} : RestartFindsNone(x)
<1>1. CASE \/ \E d \in Deployments : Launch(d)
           \/ \E d \in Deployments : Runs(d)
           \/ \E d \in Deployments : Interrupted(d)
           \/ \E d \in Deployments : Fails(d)
           \/ \E d \in Deployments : Finishes(d)
  BY <1>1 DEF Launch, Up, CleanedUp, NoCleanup, Of, Free, vars,
    taskVars, lockVars, podmanVars, Runs, Interrupted, Unwind,
    Live, Fails, Spend, Finishes, Ends, TeardownFails
<1>2. CASE \/ \E d \in Deployments : Assign(d)
           \/ Replace
           \/ Stopped
           \/ Stop
           \/ \E o \in AgentOperators : LaunchCreate(o)
  BY <1>2 DEF Assign, Up, Running, Live, Cancel,
    Begin, Handler, Free, vars, taskVars,
    lockVars, podmanVars, Replace, Waiting, Stopped,
    Stop, Spend, LaunchCreate, Create
<1>3. CASE \/ \E o \in AgentOperators : LaunchStart(o)
           \/ \E c \in Deployments \cup {"hook"} : Clear(c)
           \/ \E c \in Deployments \cup {"hook"} : List(c)
           \/ \E c \in Deployments \cup {"hook"} : RemoveListed(c)
           \/ RestartCommand
  BY <1>3 DEF LaunchStart, Up, StartContainer, Free,
    vars, taskVars, lockVars, podmanVars, Clear,
    List, RemoveListed, Remove, Holds, RestartCommand,
    Running, Live, Waiting, Spend
<1>4. CASE \/ RestartsDone
           \/ Wake
           \/ PassDone
           \/ CheckUp
           \/ CheckGone
  BY <1>4 DEF RestartsDone, Up, Waiting, Handler,
    NoRestart, Free, vars, taskVars, lockVars,
    podmanVars, Wake, MonitorIs, NextPass, Resting,
    PassDone, CheckUp, NextTracker, Holds, IsUp,
    CheckGone, Delete, Dead
<1>5. CASE \/ Report
           \/ \E o \in AgentOperators : Exit(o)
           \/ \E o \in AgentOperators : AutoRemove(o)
           \/ \E o \in AgentOperators : Remount(o)
           \/ RequestShutdown
  BY <1>5 DEF Report, Up, MonitorIs, NextTracker, Delete,
    Free, vars, taskVars, lockVars, podmanVars,
    Exit, IsUp, Spend, AutoRemove, Remount,
    RequestShutdown
<1>6. CASE \/ HookLocks
           \/ HookCleans
           \/ HookFinishes
  BY <1>6 DEF HookLocks, Cancel, Hook, Free, vars, taskVars,
    lockVars, podmanVars, HookCleans, Running, Live,
    HookFinishes, HookEnds, HookFails, Spend, CleanedUp,
    NoCleanup
<1>7. CASE UNCHANGED vars
  BY <1>7 DEF vars, taskVars, lockVars, podmanVars
<1>8. QED
  BY <1>1, <1>2, <1>3, <1>4, <1>5, <1>6, <1>7, AgentNextCases


(* What happens while nothing is restarted.                                *)
LEMMA RestartsStayOff ==
  ASSUME AgentAssumption, AgentInv, NoRestarts, [Next]_vars
  PROVE  /\ UNCHANGED restart /\ handler'.pc # "restarting"
         /\ \A o \in AgentOperators : ~Exit(o) /\ ~Remount(o)
         /\ \A x \in {"handler", "monitor"} : restart[x].pc = "off"
         /\ ~RestartCommand
<1>1. \A x \in {"handler", "monitor"} : restart[x].pc = "off"
  BY DEF NoRestarts
<1>2. \A o \in AgentOperators : ~Exit(o) /\ ~Remount(o)
  BY DEF NoRestarts, Exit, Remount, Spend
<1>3. ~RestartCommand /\ ~RestartNext
  BY DEF NoRestarts, RestartCommand, RestartNext, Spend
<1>4. \A x \in {"handler", "monitor"} :
        /\ ~RestartRemove(x) /\ ~RestartCreate(x) /\ ~RestartStart(x)
        /\ ~RestartLink(x) /\ ~RestartRaises(x) /\ ~RestartFindsNone(x)
  BY <1>1 DEF RestartRemove, RestartCreate, RestartStart, RestartLink,
    RestartRaises, RestartFindsNone, Restarting
<1>5. ASSUME NEW o \in AgentOperators, Look(o) PROVE UNCHANGED restart
  <2>1. o \in monitor.left
    BY <1>5 DEF Look
  <2>2. ~tracker[o].marked
    BY <1>5, <2>1 DEF NoRestarts, AgentInv, Tracked
  <2>3. QED
    BY <1>5, <2>2 DEF Look
<1>6. ~CheckStopped
  <2>1. SUFFICES ASSUME CheckStopped PROVE FALSE
    OBVIOUS
  <2>2. monitor.op # None /\ monitor.op \in AgentOperators
    BY <2>1 DEF AgentInv, InHand, TrackersTyped, AgentMonitor, CheckStopped
  <2>3. QED
    BY <2>1, <2>2 DEF NoRestarts, AgentInv, Tracked, CheckStopped
<1>7. UNCHANGED restart
  BY <1>3, <1>4, <1>5, <1>6, RestartFrame
<1>8. handler'.pc # "restarting"
  BY <1>3, HandlerPcFrame DEF NoRestarts, AgentInv
<1>9. QED
  BY <1>1, <1>2, <1>3, <1>7, <1>8

(* What a cleanup still has to remove.                                     *)
LEMMA LeftChange ==
  ASSUME TasksTyped, LockHeld, [Next]_vars
  PROVE  \A d \in Deployments \cup {"hook"} :
           cleanup[d].pc \in {"listing", "removing"} /\ cleanup'[d].pc = "removing" =>
             \/ cleanup'[d].left = {<<p, container[p].id>> : p \in {q \in Operators : IsUp(q)}}
             \/ cleanup[d].pc = "removing" /\ cleanup'[d].left = cleanup[d].left
             \/ /\ cleanup[d].pc = "removing"
                /\ \E x \in cleanup[d].left :
                     Remove(x[1], x[2]) /\ cleanup'[d].left = cleanup[d].left \ {x}
<1>1. CASE \E d \in Deployments : Launch(d)
  BY <1>1 DEF Launch, Up, CleanedUp, NoCleanup, Of,
    Free, vars, taskVars, lockVars, podmanVars,
    TasksTyped, AgentCleanup, LockHeld
<1>2. CASE \E d \in Deployments : Interrupted(d)
  BY <1>2 DEF Interrupted, Unwind, Up, Live, Of,
    Free, vars, taskVars, lockVars, podmanVars,
    TasksTyped, AgentCleanup, LockHeld
<1>3. CASE \E d \in Deployments : Fails(d)
  BY <1>3 DEF Fails, Unwind, Up, Live, Of, Spend,
    vars, taskVars, lockVars, podmanVars, TasksTyped,
    AgentCleanup, LockHeld
<1>4. CASE \E d \in Deployments : Finishes(d)
  BY <1>4 DEF Finishes, Ends, TeardownFails, Spend, Up,
    CleanedUp, NoCleanup, Free, vars, taskVars, lockVars,
    podmanVars, TasksTyped, AgentCleanup, LockHeld
<1>5. CASE \E d \in Deployments : Assign(d)
  BY <1>5 DEF Assign, Up, Running, Live, Cancel,
    Begin, Handler, Free, vars, taskVars,
    lockVars, podmanVars, TasksTyped, AgentCleanup, LockHeld
<1>6. CASE Replace
  BY <1>6 DEF Replace, Up, Running, Live, Begin,
    Waiting, Free, vars, taskVars, lockVars,
    podmanVars, TasksTyped, AgentCleanup, LockHeld
<1>7. CASE \E c \in Deployments \cup {"hook"} : Clear(c)
  BY <1>7 DEF Clear, Up, Free, vars, taskVars,
    lockVars, podmanVars, TasksTyped, AgentCleanup, LockHeld
<1>8. CASE \E c \in Deployments \cup {"hook"} : List(c)
  <2>1. PICK c \in Deployments \cup {"hook"} : List(c)
    BY <1>8
  <2> DEFINE left == {<<p, container[p].id>> : p \in {q \in Operators : IsUp(q)}}
  <2>2. cleanup' = [cleanup EXCEPT ![c] = [pc |-> "removing", left |-> left]]
    BY <2>1 DEF List
  <2>3. SUFFICES ASSUME NEW d \in Deployments \cup {"hook"}, cleanup'[d].pc = "removing",
                        cleanup[d].pc \in {"listing", "removing"}
                 PROVE  \/ cleanup'[d].left = left
                        \/ cleanup[d].pc = "removing" /\ cleanup'[d].left = cleanup[d].left
    OBVIOUS
  <2> HIDE DEF left
  <2>4. CASE d = c
    BY <2>2, <2>4 DEF TasksTyped
  <2>5. CASE d # c
    BY <2>2, <2>3, <2>5 DEF TasksTyped
  <2>6. QED
    BY <2>4, <2>5
<1>9. CASE \E c \in Deployments \cup {"hook"} : RemoveListed(c)
  <2>1. PICK c \in Deployments \cup {"hook"} : RemoveListed(c)
    BY <1>9
  <2>2. PICK x \in cleanup[c].left :
          Remove(x[1], x[2]) /\ cleanup' = [cleanup EXCEPT ![c].left = @ \ {x}]
    BY <2>1 DEF RemoveListed
  <2>3. SUFFICES ASSUME NEW d \in Deployments \cup {"hook"}, cleanup'[d].pc = "removing"
                 PROVE  \/ cleanup[d].pc = "removing" /\ cleanup'[d].left = cleanup[d].left
                        \/ /\ cleanup[d].pc = "removing"
                           /\ d = c /\ cleanup'[d].left = cleanup[d].left \ {x}
    BY <2>2
  <2>4. CASE d = c
    BY <2>2, <2>3, <2>4 DEF TasksTyped, AgentCleanup
  <2>5. CASE d # c
    BY <2>2, <2>3, <2>5 DEF TasksTyped
  <2>6. QED
    BY <2>4, <2>5
<1>10. CASE HookLocks
  BY <1>10 DEF HookLocks, Cancel, Hook, Free, vars,
    taskVars, lockVars, podmanVars, TasksTyped, AgentCleanup, LockHeld
<1>11. CASE HookCleans
  BY <1>11 DEF HookCleans, Running, Live, Hook, Free,
    vars, taskVars, lockVars, podmanVars, TasksTyped,
    AgentCleanup, LockHeld
<1>12. CASE HookFinishes
  BY <1>12 DEF HookFinishes, HookEnds, HookFails, Spend,
    CleanedUp, Hook, NoCleanup, Free, vars, taskVars, lockVars,
    podmanVars, TasksTyped, AgentCleanup, LockHeld
<1>13. CASE UNCHANGED <<cleanup>>
  BY <1>13 DEF TasksTyped, AgentCleanup, LockHeld
<1>14. QED
  BY <1>1, <1>2, <1>3, <1>4, <1>5, <1>6, <1>7, <1>8, <1>9, <1>10, <1>11, <1>12, <1>13,
    CleanupFrame

LEMMA NoRestartsStep ==
  ASSUME AgentAssumption, AgentInv, NoRestarts, [Next]_vars
  PROVE  NoRestarts'
<1>1. UNCHANGED restart /\ handler'.pc # "restarting"
  BY RestartsStayOff
<1>2. BudgetTyped' /\ budget'["exit"] = 0 /\ budget'["remount"] = 0
      /\ budget'["restart"] = 0
  <2>1. BudgetTyped /\ budget["exit"] = 0 /\ budget["remount"] = 0
        /\ budget["restart"] = 0
    BY DEF NoRestarts
  <2>2. BudgetTyped' /\ budget'["exit"] <= 0 /\ budget'["remount"] <= 0
        /\ budget'["restart"] <= 0
    BY <2>1, BudgetChange
  <2>3. budget'["exit"] \in Nat /\ budget'["remount"] \in Nat
        /\ budget'["restart"] \in Nat
    BY <2>2 DEF BudgetTyped
  <2>4. QED
    BY <2>2, <2>3
<1>3. ASSUME NEW o \in AgentOperators, tracker'[o] # None
      PROVE  ~tracker'[o].marked /\ (Holds(o, tracker[o].id)' => IsUp(o)')
  <2>0. TrackersTyped /\ Tracked /\ InHand /\ PodmanTyped /\ Started
    BY DEF AgentInv
  <2>1. CASE LaunchStart(o)
    <3>1. tracker'[o] = [id |-> container[o].id, marked |-> FALSE, restarts |-> 0, listed |-> TRUE]
      BY <1>3, <2>0, <2>1 DEF LaunchStart, TrackersTyped
    <3>2. container'[o] = [container[o] EXCEPT !.state = "up"] /\ container[o] \in AgentContainer
      BY <1>3, <2>0, <2>1 DEF LaunchStart, PodmanTyped, StartContainer, Started
    <3>3. container'[o] \in AgentContainer /\ container'[o].state = "up"
      BY <3>2 DEF AgentContainer
    <3>4. QED
      BY <3>1, <3>3, NoneIsNothing DEF IsUp
  <2>2. CASE ~LaunchStart(o)
    <3>1. tracker[o] # None
      BY <1>3, <2>2, TrackersKept
    <3>2. tracker[o] \in AgentTracker /\ ~tracker[o].marked
          /\ (Holds(o, tracker[o].id) => IsUp(o))
      BY <1>3, <2>0, <3>1 DEF NoRestarts, TrackersTyped
    <3>3. ~Remount(o) /\ \A x \in {"handler", "monitor"} : ~RestartLink(x)
      BY <1>3, RestartsStayOff DEF RestartLink, Restarting
    <3>4. tracker'[o] = tracker[o] \/ tracker'[o] = [tracker[o] EXCEPT !.listed = FALSE]
      BY <1>3, <2>0, <2>2, <3>3, TrackersChange
    <3>5. tracker'[o].id = tracker[o].id /\ tracker'[o].marked = tracker[o].marked
      BY <3>2, <3>4 DEF AgentTracker
    <3>6. ~LaunchCreate(o)
      BY <1>3, <2>0, <3>1 DEF Tracked, LaunchCreate
    <3>7. ~Exit(o) /\ \A x \in {"handler", "monitor"} :
            ~RestartRemove(x) /\ ~RestartCreate(x) /\ ~RestartStart(x)
      BY <1>3, RestartsStayOff DEF RestartRemove, RestartCreate,
        RestartStart, Restarting
    <3>8. AutoRemove(o) => container'[o] = None
      BY <1>3, <2>0 DEF AutoRemove, PodmanTyped
    <3>9. container'[o] = container[o] \/ container'[o] = None
      BY <1>3, <2>0, <2>2, <3>6, <3>7, <3>8, ContainersChange
    <3>10. QED
      BY <3>2, <3>5, <3>9 DEF Holds, IsUp
  <2>3. QED
    BY <2>1, <2>2
<1>4. QED
  BY <1>1, <1>2, <1>3 DEF NoRestarts

(* Without restarts, containers come up only where they are started.       *)
LEMMA OnlyStartsBringUp ==
  ASSUME AgentAssumption, AgentInv, NoRestarts, [Next]_vars,
         NEW o \in AgentOperators, IsUp(o)'
  PROVE  LaunchStart(o) \/ (IsUp(o) /\ container'[o] = container[o])
<1>1. PodmanTyped
  BY DEF AgentInv
<1>2. container'[o] # None /\ container'[o].state = "up"
  BY DEF IsUp
<1>3. ~LaunchCreate(o)
  <2>1. SUFFICES ASSUME LaunchCreate(o) PROVE FALSE
    OBVIOUS
  <2>2. container'[o] = [id |-> made[o] + 1, state |-> "created", mount |-> value[o]]
    BY <1>1, <2>1 DEF LaunchCreate, Create, PodmanTyped
  <2>3. QED
    BY <1>2, <2>2
<1>4. ~Exit(o) /\ \A x \in {"handler", "monitor"} :
        ~RestartRemove(x) /\ ~RestartCreate(x) /\ ~RestartStart(x)
  BY RestartsStayOff DEF RestartRemove, RestartCreate, RestartStart,
    Restarting
<1>5. AutoRemove(o) => container'[o] = None
  BY <1>1 DEF AutoRemove, PodmanTyped
<1>6. LaunchStart(o) \/ container'[o] = container[o]
  BY <1>1, <1>2, <1>3, <1>4, <1>5, ContainersChange
<1>7. QED
  BY <1>2, <1>6 DEF IsUp

(* The shutdown ends the agent without an error only where it ends.        *)
LEMMA GoneAtTheEnd ==
  ASSUME [Next]_vars, hook' = "gone"
  PROVE  hook = "gone" \/ HookEnds
<1>1. CASE RequestShutdown \/ HookLocks \/ HookCleans \/ HookFinishes
  BY <1>1 DEF RequestShutdown, HookLocks, HookCleans, HookFinishes, HookFails
<1>2. CASE \/ \E d \in Deployments : Launch(d)
           \/ \E d \in Deployments : Runs(d)
           \/ \E d \in Deployments : Interrupted(d)
           \/ \E d \in Deployments : Fails(d)
           \/ \E d \in Deployments : Finishes(d)
  BY <1>2 DEF Launch, Runs, Interrupted, Fails, Unwind, Finishes, Ends, TeardownFails,
    lockVars
<1>3. CASE \/ \E d \in Deployments : Assign(d)
           \/ Replace
           \/ Stopped
           \/ Stop
           \/ \E o \in AgentOperators : LaunchCreate(o)
           \/ \E o \in AgentOperators : LaunchStart(o)
  BY <1>3 DEF Assign, Replace, Stopped, Stop, LaunchCreate, LaunchStart, lockVars
<1>4. CASE \/ \E c \in Deployments \cup {"hook"} : Clear(c)
           \/ \E c \in Deployments \cup {"hook"} : List(c)
           \/ \E c \in Deployments \cup {"hook"} : RemoveListed(c)
           \/ RestartCommand
           \/ RestartNext
           \/ RestartsDone
  BY <1>4 DEF Clear, List, RemoveListed, RestartCommand, RestartNext, RestartsDone, lockVars
<1>5. QED
  BY <1>1, <1>2, <1>3, <1>4, TasksFrame

LEMMA UpIsAccountedStep ==
  ASSUME AgentAssumption, AgentInv, NoRestarts, UpIsAccounted, [Next]_vars
  PROVE  UpIsAccounted'
<1>0. TasksTyped /\ LockHeld /\ PodmanTyped /\ None \notin Deployments
  BY NoneIsNothing DEF AgentInv
<1>1. ASSUME NEW o \in AgentOperators, IsUp(o)'
      PROVE  Running(o[1])' \/ task'[o[1]] = "failed"
  <2>1. o[1] \in Deployments
    BY <1>1 DEF AgentOperators, Operators
  <2>2. CASE LaunchStart(o)
    <3>1. launch[o] = "starting" /\ UNCHANGED task
      BY <2>2 DEF LaunchStart
    <3>2. task[o[1]] = "launching"
      BY <1>1, <3>1 DEF AgentInv, LaunchedByTask
    <3>3. QED
      BY <1>0, <2>1, <3>1, <3>2 DEF Running, Live
  <2>3. CASE IsUp(o) /\ container'[o] = container[o]
    <3>1. Running(o[1]) \/ task[o[1]] = "failed"
      BY <1>1, <2>3 DEF UpIsAccounted
    <3>2. ~Ends(o[1])
      <4>1. SUFFICES ASSUME Ends(o[1]) PROVE FALSE
        OBVIOUS
      <4>2. cleanup[o[1]].pc = "removing" /\ cleanup[o[1]].left = {}
        BY <4>1 DEF Ends, CleanedUp
      <4>3. <<o, container[o].id>> \in cleanup[o[1]].left
        BY <1>1, <2>1, <2>3, <4>2 DEF UpIsAccounted
      <4>4. QED
        BY <4>2, <4>3
    <3>3. task[o[1]] \in {"cleaning", "launching", "running", "closing", "failed"}
      BY <2>1, <3>1 DEF Running, Live
    <3>4. task'[o[1]] \in {"cleaning", "launching", "running", "closing", "failed"}
      BY <1>0, <2>1, <3>2, <3>3, TaskChange
    <3>5. QED
      BY <1>0, <2>1, <3>4 DEF Running, Live
  <2>4. QED
    BY <1>1, <2>2, <2>3, OnlyStartsBringUp
<1>2. ASSUME NEW o \in AgentOperators, NEW d \in Deployments, IsUp(o)',
             task'[d] \in {"launching", "running"}
      PROVE  o[1] = d
  <2>1. o[1] \in Deployments
    BY <1>2 DEF AgentOperators, Operators
  <2>2. CASE LaunchStart(o)
    <3>1. launch[o] = "starting" /\ UNCHANGED task
      BY <2>2 DEF LaunchStart
    <3>2. task[o[1]] = "launching"
      BY <1>2, <3>1 DEF AgentInv, LaunchedByTask
    <3>3. Running(o[1]) /\ Running(d)
      BY <1>0, <1>2, <2>1, <3>1, <3>2 DEF Running, Live
    <3>4. QED
      BY <1>2, <2>1, <3>3 DEF AgentInv, RunsCurrent
  <2>3. CASE IsUp(o) /\ container'[o] = container[o]
    <3>1. ~Launch(d)
      <4>1. SUFFICES ASSUME Launch(d) PROVE FALSE
        OBVIOUS
      <4>2. cleanup[d].pc = "removing" /\ cleanup[d].left = {}
        BY <4>1 DEF Launch, CleanedUp
      <4>3. <<o, container[o].id>> \in cleanup[d].left
        BY <1>2, <2>3, <4>2 DEF UpIsAccounted
      <4>4. QED
        BY <4>2, <4>3
    <3>2. task[d] \in {"launching", "running"}
      BY <1>0, <1>2, <3>1, TaskChange DEF Runs
    <3>3. QED
      BY <1>2, <2>3, <3>2 DEF UpIsAccounted
  <2>4. QED
    BY <1>2, <2>2, <2>3, OnlyStartsBringUp
<1>3. ASSUME NEW d \in Deployments \cup {"hook"}, cleanup'[d].pc = "removing",
             NEW o \in AgentOperators, IsUp(o)'
      PROVE  <<o, container'[o].id>> \in cleanup'[d].left
  <2>3. cleanup[d].pc \in {"listing", "removing"}
    <3>1. ~Clear(d)
      <4>1. SUFFICES ASSUME Clear(d) PROVE FALSE
        OBVIOUS
      <4>2. cleanup' = [cleanup EXCEPT ![d].pc = "listing"]
        BY <4>1 DEF Clear
      <4>3. cleanup'[d].pc = "listing"
        BY <1>0, <4>2 DEF TasksTyped, AgentCleanup
      <4>4. QED
        BY <1>3, <4>3
    <3>2. QED
      BY <1>0, <1>3, <3>1, CleanupChange
  <2>4. ~LaunchStart(o)
    <3>1. SUFFICES ASSUME LaunchStart(o) PROVE FALSE
      OBVIOUS
    <3>2. launch[o] = "starting"
      BY <3>1 DEF LaunchStart
    <3>3. cleanup[d].pc = "off"
      BY <1>3, <3>2, StartingAlone
    <3>4. QED
      BY <2>3, <3>3
  <2>5. IsUp(o) /\ container'[o] = container[o]
    BY <1>3, <2>4, OnlyStartsBringUp
  <2>6. \/ cleanup'[d].left = {<<p, container[p].id>> : p \in {q \in Operators : IsUp(q)}}
        \/ cleanup[d].pc = "removing" /\ cleanup'[d].left = cleanup[d].left
        \/ /\ cleanup[d].pc = "removing"
           /\ \E x \in cleanup[d].left : Remove(x[1], x[2]) /\ cleanup'[d].left = cleanup[d].left \ {x}
    BY <1>0, <1>3, <2>3, LeftChange
  <2>7. CASE cleanup'[d].left = {<<p, container[p].id>> : p \in {q \in Operators : IsUp(q)}}
    BY <1>3, <2>5, <2>7 DEF AgentOperators
  <2>8. CASE cleanup[d].pc = "removing"
    <3>1. <<o, container[o].id>> \in cleanup[d].left
      BY <1>3, <2>5, <2>8 DEF UpIsAccounted
    <3>2. ASSUME NEW x \in cleanup[d].left, Remove(x[1], x[2])
          PROVE  x # <<o, container[o].id>>
      <4>1. SUFFICES ASSUME x = <<o, container[o].id>> PROVE FALSE
        OBVIOUS
      <4>2. Holds(o, container[o].id)
        BY <2>5 DEF Holds, IsUp
      <4>3. x[1] = o /\ x[2] = container[o].id
        BY <4>1
      <4>4. container' = [container EXCEPT ![o] = None]
        BY <3>2, <4>2, <4>3 DEF Remove
      <4>5. container'[o] = None
        BY <1>0, <1>3, <4>4 DEF PodmanTyped
      <4>6. QED
        BY <1>3, <4>5 DEF IsUp
    <3>3. CASE cleanup'[d].left = cleanup[d].left
      BY <2>5, <3>1, <3>3
    <3>4. CASE \E x \in cleanup[d].left :
                 Remove(x[1], x[2]) /\ cleanup'[d].left = cleanup[d].left \ {x}
      <4>1. PICK x \in cleanup[d].left :
              Remove(x[1], x[2]) /\ cleanup'[d].left = cleanup[d].left \ {x}
        BY <3>4
      <4>2. x # <<o, container[o].id>>
        BY <3>2, <4>1
      <4>3. QED
        BY <2>5, <3>1, <4>1, <4>2
    <3>5. QED
      BY <2>6, <2>7, <3>3, <3>4
  <2>9. QED
    BY <2>6, <2>7, <2>8
<1>4. ASSUME hook' = "gone", NEW o \in AgentOperators, IsUp(o)' PROVE FALSE
  <2>1. CASE hook = "gone"
    <3>1. ~IsUp(o)
      BY <1>4, <2>1 DEF UpIsAccounted
    <3>2. ~LaunchStart(o)
      BY <2>1 DEF LaunchStart, Up
    <3>3. QED
      BY <1>4, <3>1, <3>2, OnlyStartsBringUp
  <2>2. CASE HookEnds
    <3>1. cleanup["hook"].pc = "removing" /\ cleanup["hook"].left = {}
      BY <2>2 DEF HookEnds, CleanedUp, Hook
    <3>2. ~IsUp(o)
      BY <1>4, <3>1 DEF UpIsAccounted
    <3>3. launch[o] # "starting"
      BY <1>4, <3>1, StartingAlone
    <3>4. ~LaunchStart(o)
      BY <3>3 DEF LaunchStart
    <3>5. QED
      BY <1>4, <3>2, <3>4, OnlyStartsBringUp
  <2>3. QED
    BY <1>4, <2>1, <2>2, GoneAtTheEnd
<1>5. QED
  BY <1>1, <1>2, <1>3, <1>4 DEF UpIsAccounted

LEMMA CleaningInvInit ==
  ASSUME AgentAssumption, MaxExits = 0, MaxRemounts = 0, MaxOperatorRestarts = 0, Init
  PROVE  CleaningInv
<1>1. AgentInv
  BY AgentInvInit
<1>2. BudgetTyped /\ budget["exit"] = 0 /\ budget["remount"] = 0 /\ budget["restart"] = 0
  BY DEF Init, AgentAssumption, BudgetTyped
<1>3. NoRestarts
  BY <1>2 DEF Init, NoRestarts, Handler, Monitor, NoRestart,
    Waiting, AgentOperators
<1>4. UpIsAccounted
  BY DEF Init, UpIsAccounted, IsUp, AgentOperators
<1>5. QED
  BY <1>1, <1>3, <1>4 DEF CleaningInv

LEMMA CleaningInvStep ==
  ASSUME AgentAssumption, CleaningInv, [Next]_vars
  PROVE  CleaningInv'
BY AgentInvStep, NoRestartsStep, UpIsAccountedStep DEF CleaningInv

LEMMA CleaningSuffices == AgentAssumption /\ CleaningInv => NoStrays /\ LeavesNothing
<1>1. SUFFICES ASSUME AgentAssumption, CleaningInv, NEW o \in AgentOperators, IsUp(o)
               PROVE  /\ \/ o[1] = current /\ Running(current)
                         \/ /\ task[o[1]] = "failed"
                            /\ current # None => task[current] \notin {"launching", "running"}
                      /\ hook # "gone"
  BY DEF NoStrays, LeavesNothing, AgentOperators
<1>2. o[1] \in Deployments /\ current \in Deployments \cup {None} /\ None \notin Deployments
  BY <1>1, NoneIsNothing DEF CleaningInv, AgentInv, TasksTyped, AgentOperators, Operators
<1>3. UpIsAccounted /\ RunsCurrent
  BY <1>1 DEF CleaningInv, AgentInv
<1>4. hook # "gone"
  BY <1>1, <1>3 DEF UpIsAccounted
<1>5. CASE Running(o[1])
  BY <1>2, <1>3, <1>4, <1>5 DEF RunsCurrent
<1>6. CASE task[o[1]] = "failed" /\ ~Running(o[1])
  <2>1. current # None /\ task[current] \in {"launching", "running"} => o[1] = current
    BY <1>1, <1>2, <1>3 DEF UpIsAccounted
  <2>2. QED
    BY <1>4, <1>6, <2>1
<1>7. QED
  BY <1>1, <1>3, <1>5, <1>6 DEF UpIsAccounted

(* Without restarts, what runs is of the deployment whose task is there, or*)
(* of one whose teardown failed and that until the next one launches; a    *)
(* shutdown that does not fail leaves none, whatever else has failed.      *)
THEOREM AgentLeavesNothing ==
  ASSUME AgentAssumption, MaxExits = 0, MaxRemounts = 0, MaxOperatorRestarts = 0
  PROVE  Spec => [](NoStrays /\ LeavesNothing)
<1>1. Init => CleaningInv
  BY CleaningInvInit
<1>2. CleaningInv /\ [Next]_vars => CleaningInv'
  BY CleaningInvStep
<1>3. AgentAssumption /\ CleaningInv => NoStrays /\ LeavesNothing
  BY CleaningSuffices
<1>4. QED
  BY <1>1, <1>2, <1>3, PTL DEF Spec

(* The monitor, and the restart it waits for.                              *)
LEMMA MonitorFrame ==
  ASSUME [Next]_vars
  PROVE  \/ UNCHANGED <<monitor>>
         \/ Wake
         \/ PassDone
         \/ \E o \in AgentOperators : Look(o)
         \/ CheckUp
         \/ CheckGone
         \/ CheckStopped
         \/ Report
         \/ \E x \in {"handler", "monitor"} : RestartLink(x)
         \/ \E x \in {"handler", "monitor"} : RestartRaises(x)
         \/ \E x \in {"handler", "monitor"} : RestartFindsNone(x)
<1>1. CASE \/ \E d \in Deployments : Launch(d)
           \/ \E d \in Deployments : Runs(d)
           \/ \E d \in Deployments : Interrupted(d)
           \/ \E d \in Deployments : Fails(d)
           \/ \E d \in Deployments : Finishes(d)
  BY <1>1 DEF Launch, Up, CleanedUp, NoCleanup, Of, Free, vars,
    taskVars, lockVars, podmanVars, Runs, Interrupted, Unwind,
    Live, Fails, Spend, Finishes, Ends, TeardownFails
<1>2. CASE \/ \E d \in Deployments : Assign(d)
           \/ Replace
           \/ Stopped
           \/ Stop
           \/ \E o \in AgentOperators : LaunchCreate(o)
  BY <1>2 DEF Assign, Up, Running, Live, Cancel,
    Begin, Handler, Free, vars, taskVars,
    lockVars, podmanVars, Replace, Waiting, Stopped,
    Stop, Spend, LaunchCreate, Create
<1>3. CASE \/ \E o \in AgentOperators : LaunchStart(o)
           \/ \E c \in Deployments \cup {"hook"} : Clear(c)
           \/ \E c \in Deployments \cup {"hook"} : List(c)
           \/ \E c \in Deployments \cup {"hook"} : RemoveListed(c)
           \/ RestartCommand
  BY <1>3 DEF LaunchStart, Up, StartContainer, Free,
    vars, taskVars, lockVars, podmanVars, Clear,
    List, RemoveListed, Remove, Holds, RestartCommand,
    Running, Live, Waiting, Spend
<1>4. CASE \/ RestartNext
           \/ RestartsDone
           \/ \E x \in {"handler", "monitor"} : RestartRemove(x)
           \/ \E x \in {"handler", "monitor"} : RestartCreate(x)
           \/ \E x \in {"handler", "monitor"} : RestartStart(x)
  BY <1>4 DEF RestartNext, Up, BeginRestart, Handler,
    NoRestart, Free, vars, taskVars, lockVars,
    podmanVars, RestartsDone, Waiting, RestartRemove,
    Restarting, Remove, Holds, RestartCreate, Create,
    RestartStart, StartContainer
<1>5. CASE \/ \E o \in AgentOperators : Exit(o)
           \/ \E o \in AgentOperators : AutoRemove(o)
           \/ \E o \in AgentOperators : Remount(o)
           \/ RequestShutdown
           \/ HookLocks
  BY <1>5 DEF Exit, IsUp, Spend, vars, taskVars,
    lockVars, podmanVars, AutoRemove, Free, Remount,
    Up, RequestShutdown, HookLocks, Cancel, Hook
<1>6. CASE \/ HookCleans
           \/ HookFinishes
  BY <1>6 DEF HookCleans, Running, Live, Hook, Free, vars,
    taskVars, lockVars, podmanVars, HookFinishes, HookEnds,
    HookFails, Spend, CleanedUp, NoCleanup
<1>7. CASE UNCHANGED vars
  BY <1>7 DEF vars, taskVars, lockVars, podmanVars
<1>8. QED
  BY <1>1, <1>2, <1>3, <1>4, <1>5, <1>6, <1>7, AgentNextCases

LEMMA DeadStays ==
  ASSUME TrackersTyped, InHand, [Next]_vars
  PROVE  monitor.pc = "dead" => monitor'.pc = "dead"
<1>1. CASE Wake
  BY <1>1 DEF Wake
<1>2. CASE PassDone
  BY <1>2 DEF PassDone
<1>3. CASE \E o \in AgentOperators : Look(o)
  BY <1>3 DEF Look, Up, MonitorIs, BeginRestart, Monitor,
    Free, vars, taskVars, lockVars, podmanVars,
    TrackersTyped, InHand, AgentMonitor
<1>4. CASE CheckUp
  BY <1>4 DEF CheckUp
<1>5. CASE CheckGone
  BY <1>5 DEF CheckGone
<1>6. CASE CheckStopped
  BY <1>6 DEF CheckStopped
<1>7. CASE Report
  BY <1>7 DEF Report
<1>8. CASE \E x \in {"handler", "monitor"} : RestartLink(x)
  <2>1. PICK x \in {"handler", "monitor"} : RestartLink(x)
    BY <1>8
  <2>2. x = "monitor" => monitor.pc # "dead"
    BY <2>1 DEF RestartLink, Restarting, InHand
  <2>3. x = "handler" => UNCHANGED monitor
    BY <2>1 DEF RestartLink, Monitor
  <2>4. QED
    BY <2>2, <2>3
<1>9. CASE \E x \in {"handler", "monitor"} : RestartRaises(x)
  <2>1. PICK x \in {"handler", "monitor"} : RestartRaises(x)
    BY <1>9
  <2>2. x = "monitor" => monitor.pc # "dead"
    BY <2>1 DEF RestartRaises, Restarting, InHand
  <2>3. x = "handler" => UNCHANGED monitor
    BY <2>1 DEF RestartRaises, Raises, Handler
  <2>4. QED
    BY <2>2, <2>3
<1>10. CASE \E x \in {"handler", "monitor"} : RestartFindsNone(x)
  <2>1. PICK x \in {"handler", "monitor"} : RestartFindsNone(x)
    BY <1>10
  <2>2. x = "monitor" => monitor.pc # "dead"
    BY <2>1 DEF RestartFindsNone, Restarting, InHand
  <2>3. x = "handler" => UNCHANGED monitor
    BY <2>1 DEF RestartFindsNone, Raises, Handler
  <2>4. QED
    BY <2>2, <2>3
<1>11. CASE UNCHANGED <<monitor>>
  BY <1>11 DEF TrackersTyped, InHand, AgentMonitor
<1>12. QED
  BY <1>1, <1>2, <1>3, <1>4, <1>5, <1>6, <1>7, <1>8, <1>9, <1>10, <1>11, MonitorFrame

LEMMA MonitorTakesUp ==
  ASSUME TrackersTyped, [Next]_vars
  PROVE  monitor'.pc \in {"remounting", "restarting"} =>
           \/ monitor' = monitor
           \/ /\ UNCHANGED tracker /\ monitor'.pc = "remounting"
              /\ monitor'.op \in monitor.left /\ tracker[monitor'.op].marked
           \/ /\ UNCHANGED tracker /\ monitor'.pc = "restarting"
              /\ monitor'.op = monitor.op /\ monitor.pc = "checking"
              /\ ~(tracker[monitor.op].restarts >= MAX_RESTARTS)
<1>1. CASE Wake
  BY <1>1 DEF Wake, Up, MonitorIs, NextPass, Resting,
    Free, vars, taskVars, lockVars, podmanVars,
    TrackersTyped, AgentMonitor
<1>2. CASE PassDone
  BY <1>2 DEF PassDone, Up, MonitorIs, NextPass, Resting,
    Free, vars, taskVars, lockVars, podmanVars,
    TrackersTyped, AgentMonitor
<1>3. CASE \E o \in AgentOperators : Look(o)
  BY <1>3 DEF Look, Up, MonitorIs, BeginRestart, Monitor,
    Free, vars, taskVars, lockVars, podmanVars,
    TrackersTyped, AgentMonitor
<1>4. CASE CheckUp
  BY <1>4 DEF CheckUp, Up, MonitorIs, NextTracker, Holds,
    IsUp, Free, vars, taskVars, lockVars,
    podmanVars, TrackersTyped, AgentMonitor
<1>5. CASE CheckGone
  BY <1>5 DEF CheckGone, Up, MonitorIs, NextTracker,
    Holds, Delete, Dead, Resting, Free, vars,
    taskVars, lockVars, podmanVars, TrackersTyped, AgentMonitor
<1>6. CASE CheckStopped
  BY <1>6 DEF CheckStopped, Up, MonitorIs, Holds, IsUp,
    BeginRestart, Monitor, Free, vars, taskVars,
    lockVars, podmanVars, TrackersTyped, AgentMonitor
<1>7. CASE Report
  BY <1>7 DEF Report, Up, MonitorIs, NextTracker, Delete,
    Free, vars, taskVars, lockVars, podmanVars,
    TrackersTyped, AgentMonitor
<1>8. CASE \E x \in {"handler", "monitor"} : RestartLink(x)
  BY <1>8 DEF RestartLink, Restarting, Up, Handler,
    Monitor, NoRestart, NextTracker, Free, vars,
    taskVars, lockVars, podmanVars, TrackersTyped, AgentMonitor
<1>9. CASE \E x \in {"handler", "monitor"} : RestartRaises(x)
  BY <1>9 DEF RestartRaises, Restarting, Up, Raises,
    MonitorIs, NoRestart, NextTracker, Dead, Resting,
    Handler, Free, vars, taskVars, lockVars,
    podmanVars, TrackersTyped, AgentMonitor
<1>10. CASE \E x \in {"handler", "monitor"} : RestartFindsNone(x)
  BY <1>10 DEF RestartFindsNone, Restarting, Up, Holds,
    Raises, Delete, MonitorIs, NoRestart, NextTracker,
    Dead, Resting, Handler, Free, vars, taskVars,
    lockVars, podmanVars, TrackersTyped, AgentMonitor
<1>11. CASE UNCHANGED <<monitor>>
  BY <1>11 DEF TrackersTyped, AgentMonitor
<1>12. QED
  BY <1>1, <1>2, <1>3, <1>4, <1>5, <1>6, <1>7, <1>8, <1>9, <1>10, <1>11, MonitorFrame

LEMMA MonitorWaits ==
  ASSUME TrackersTyped, InHand, restart["monitor"].pc \in {"starting", "linking"}, [Next]_vars
  PROVE  monitor' = monitor \/ RestartLink("monitor") \/ RestartRaises("monitor") \/ RestartFindsNone("monitor")
<1>1. CASE Wake
  BY <1>1 DEF Wake, InHand
<1>2. CASE PassDone
  BY <1>2 DEF PassDone, InHand
<1>3. CASE \E o \in AgentOperators : Look(o)
  BY <1>3 DEF Look, InHand
<1>4. CASE CheckUp
  BY <1>4 DEF CheckUp, InHand
<1>5. CASE CheckGone
  BY <1>5 DEF CheckGone, InHand
<1>6. CASE CheckStopped
  BY <1>6 DEF CheckStopped, InHand
<1>7. CASE Report
  BY <1>7 DEF Report, InHand
<1>8. CASE \E x \in {"handler", "monitor"} : RestartLink(x)
  BY <1>8 DEF RestartLink, Monitor
<1>9. CASE \E x \in {"handler", "monitor"} : RestartRaises(x)
  BY <1>9 DEF RestartRaises, Raises, Handler
<1>10. CASE \E x \in {"handler", "monitor"} : RestartFindsNone(x)
  BY <1>10 DEF RestartFindsNone, Raises, Handler
<1>11. CASE UNCHANGED <<monitor>>
  BY <1>11 DEF InHand
<1>12. QED
  BY <1>1, <1>2, <1>3, <1>4, <1>5, <1>6, <1>7, <1>8, <1>9, <1>10, <1>11, MonitorFrame

LEMMA RestartWaits ==
  ASSUME TrackersTyped, InHand, restart["monitor"].pc \in {"starting", "linking"}, [Next]_vars
  PROVE  \/ /\ restart'["monitor"].pc \in {"starting", "linking"}
            /\ restart'["monitor"].op = restart["monitor"].op
         \/ RestartLink("monitor") \/ RestartRaises("monitor") \/ RestartFindsNone("monitor")
<1>1. CASE RestartNext
  BY <1>1 DEF RestartNext, BeginRestart, Handler, TrackersTyped, InHand
<1>2. CASE \E o \in AgentOperators : Look(o)
  BY <1>2 DEF Look, BeginRestart, Handler, TrackersTyped, InHand
<1>3. CASE CheckStopped
  BY <1>3 DEF CheckStopped, BeginRestart, Handler, TrackersTyped, InHand
<1>4. CASE \E x \in {"handler", "monitor"} : RestartRemove(x)
  BY <1>4 DEF RestartRemove, Restarting, TrackersTyped, AgentRestart
<1>5. CASE \E x \in {"handler", "monitor"} : RestartCreate(x)
  BY <1>5 DEF RestartCreate, Restarting, TrackersTyped, AgentRestart
<1>6. CASE \E x \in {"handler", "monitor"} : RestartStart(x)
  BY <1>6 DEF RestartStart, Restarting, TrackersTyped, AgentRestart
<1>7. CASE \E x \in {"handler", "monitor"} : RestartLink(x)
  <2>1. PICK x \in {"handler", "monitor"} : RestartLink(x)
    BY <1>7
  <2>2. restart' = [restart EXCEPT ![x] = NoRestart]
    BY <2>1 DEF RestartLink, Raises
  <2>3. QED
    BY <2>1, <2>2 DEF TrackersTyped
<1>8. CASE \E x \in {"handler", "monitor"} : RestartRaises(x)
  <2>1. PICK x \in {"handler", "monitor"} : RestartRaises(x)
    BY <1>8
  <2>2. restart' = [restart EXCEPT ![x] = NoRestart]
    BY <2>1 DEF RestartRaises, Raises
  <2>3. QED
    BY <2>1, <2>2 DEF TrackersTyped
<1>9. CASE \E x \in {"handler", "monitor"} : RestartFindsNone(x)
  <2>1. PICK x \in {"handler", "monitor"} : RestartFindsNone(x)
    BY <1>9
  <2>2. restart' = [restart EXCEPT ![x] = NoRestart]
    BY <2>1 DEF RestartFindsNone, Raises
  <2>3. QED
    BY <2>1, <2>2 DEF TrackersTyped
<1>10. CASE UNCHANGED <<restart>>
  BY <1>10 DEF InHand, TrackersTyped, AgentRestart
<1>11. QED
  BY <1>1, <1>2, <1>3, <1>4, <1>5, <1>6, <1>7, <1>8, <1>9, <1>10, RestartFrame

LEMMA RestartGoesOn ==
  ASSUME TrackersTyped, InHand, [Next]_vars,
         restart["monitor"].pc \in {"starting", "linking"}
  PROVE  \/ /\ monitor' = monitor
            /\ restart'["monitor"].pc \in {"starting", "linking"}
            /\ restart'["monitor"].op = restart["monitor"].op
         \/ RestartLink("monitor")
         \/ RestartRaises("monitor")
         \/ RestartFindsNone("monitor")
BY MonitorWaits, RestartWaits

LEMMA TwoLinks ==
  ASSUME TrackersTyped, RestartLink("handler")
  PROVE  ~RestartLink("monitor")
<1>1. SUFFICES ASSUME RestartLink("monitor") PROVE FALSE
  OBVIOUS
<1>2. restart' = [restart EXCEPT !["handler"] = NoRestart] /\ restart["handler"].pc = "linking"
  BY DEF RestartLink, Restarting
<1>3. restart' = [restart EXCEPT !["monitor"] = NoRestart]
  BY <1>1 DEF RestartLink
<1>4. restart'["handler"] = NoRestart /\ restart'["handler"] = restart["handler"]
  BY <1>2, <1>3 DEF TrackersTyped
<1>5. QED
  BY <1>2, <1>4 DEF NoRestart

(* What happens to the fields of a tracker.                                *)
LEMMA TrackerFieldsChange ==
  ASSUME AgentAssumption, AgentInv, [Next]_vars,
         NEW o \in AgentOperators, tracker[o] # None
  PROVE  /\ tracker'[o].marked => tracker[o].marked \/ Remount(o)
         /\ tracker[o].marked => tracker'[o].marked \/ (RestartLink("monitor") /\ restart["monitor"].op = o)
         /\ RestartLink("monitor") /\ restart["monitor"].op = o /\ monitor.pc = "remounting" =>
              ~tracker'[o].marked
         /\ \/ tracker'[o].restarts = tracker[o].restarts
            \/ /\ RestartLink("monitor") /\ restart["monitor"].op = o /\ monitor.pc = "restarting"
               /\ tracker'[o].restarts = tracker[o].restarts + 1
         /\ RestartLink("monitor") /\ restart["monitor"].op = o /\ monitor.pc = "restarting" =>
              tracker'[o].restarts = tracker[o].restarts + 1
<1>1. TrackersTyped /\ Tracked /\ InHand /\ tracker[o] \in AgentTracker
  BY DEF AgentInv, TrackersTyped
<1>2. CASE \E x \in {"handler", "monitor"} : RestartLink(x) /\ restart[x].op = o
  <2>1. PICK x \in {"handler", "monitor"} : RestartLink(x) /\ restart[x].op = o
    BY <1>2
  <2> DEFINE linked == [tracker[o] EXCEPT !.id = restart[x].id]
  <2>2. restart[x].id \in Nat
    BY <1>1, <2>1 DEF TrackersTyped, RestartLink, Restarting, AgentRestart
  <2>3. /\ linked \in AgentTracker /\ linked.marked = tracker[o].marked
        /\ linked.restarts = tracker[o].restarts
    BY <1>1, <2>2 DEF AgentTracker
  <2>4. tracker'[o] = IF x = "handler" THEN linked
                      ELSE IF monitor.pc = "remounting" THEN [linked EXCEPT !.marked = FALSE]
                      ELSE [linked EXCEPT !.restarts = @ + 1]
    BY <1>1, <2>1 DEF RestartLink, TrackersTyped, Handler
  <2> HIDE DEF linked
  <2>5. x = "monitor" => monitor.pc \in {"remounting", "restarting"}
    BY <1>1, <2>1 DEF InHand, RestartLink, Restarting
  <2>6. /\ [linked EXCEPT !.marked = FALSE].marked = FALSE
        /\ [linked EXCEPT !.marked = FALSE].restarts = linked.restarts
        /\ [linked EXCEPT !.restarts = @ + 1].marked = linked.marked
        /\ [linked EXCEPT !.restarts = @ + 1].restarts = linked.restarts + 1
    BY <2>3 DEF AgentTracker
  <2>7. CASE x = "handler"
    <3>1. tracker'[o] = linked
      BY <2>4, <2>7
    <3>2. ~RestartLink("monitor") \/ restart["monitor"].op # o
      BY <2>1, <2>7, <1>1, TwoLinks
    <3>3. QED
      BY <2>3, <3>1, <3>2
  <2>8. CASE x = "monitor"
    BY <2>1, <2>3, <2>4, <2>5, <2>6, <2>8
  <2>9. QED
    BY <2>7, <2>8
<1>3. CASE ~\E x \in {"handler", "monitor"} : RestartLink(x) /\ restart[x].op = o
  <2>1. ~LaunchStart(o)
    BY <1>1 DEF Tracked, LaunchStart
  <2>2. CASE tracker'[o] = tracker[o]
    BY <1>3, <2>2
  <2>3. CASE tracker'[o] = [tracker[o] EXCEPT !.listed = FALSE]
    <3>1. tracker'[o].marked = tracker[o].marked /\ tracker'[o].restarts = tracker[o].restarts
      BY <1>1, <2>3 DEF AgentTracker
    <3>2. QED
      BY <1>3, <3>1
  <2>4. CASE Remount(o)
    <3>1. tracker'[o] = [tracker[o] EXCEPT !.marked = TRUE]
      BY <1>1, <2>4 DEF Remount, TrackersTyped
    <3>2. tracker'[o].marked /\ tracker'[o].restarts = tracker[o].restarts
      BY <1>1, <3>1 DEF AgentTracker
    <3>3. QED
      BY <1>3, <2>4, <3>2
  <2>5. QED
    BY <1>1, <1>3, <2>1, <2>2, <2>3, <2>4, TrackersChange
<1>4. QED
  BY <1>2, <1>3

LEMMA HandlerLeft ==
  ASSUME TasksTyped, [Next]_vars
  PROVE  \A o \in handler'.left : o \in handler.left \/ RestartCommand
<1>1. CASE \E d \in Deployments : Assign(d)
  BY <1>1 DEF Assign, Up, Running, Live, Cancel,
    Begin, Handler, Free, vars, taskVars,
    lockVars, podmanVars, TasksTyped, AgentHandler
<1>2. CASE Replace
  BY <1>2 DEF Replace, Up, Running, Live, Begin,
    Waiting, Free, vars, taskVars, lockVars,
    podmanVars, TasksTyped, AgentHandler
<1>3. CASE Stopped
  BY <1>3 DEF Stopped, Up, Running, Live, Waiting,
    Free, vars, taskVars, lockVars, podmanVars,
    TasksTyped, AgentHandler
<1>4. CASE Stop
  BY <1>4 DEF Stop, Up, Cancel, Handler, Spend,
    vars, taskVars, lockVars, podmanVars, TasksTyped,
    AgentHandler
<1>5. CASE RestartCommand
  BY <1>5 DEF RestartCommand, Up, Running, Live, Waiting,
    Spend, vars, taskVars, lockVars, podmanVars,
    TasksTyped, AgentHandler
<1>6. CASE RestartNext
  BY <1>6 DEF RestartNext, Up, BeginRestart, Handler,
    NoRestart, Free, vars, taskVars, lockVars,
    podmanVars, TasksTyped, AgentHandler
<1>7. CASE RestartsDone
  BY <1>7 DEF RestartsDone, Up, Waiting, Handler,
    NoRestart, Free, vars, taskVars, lockVars,
    podmanVars, TasksTyped, AgentHandler
<1>8. CASE UNCHANGED <<handler>>
  BY <1>8 DEF TasksTyped, AgentHandler
<1>9. QED
  BY <1>1, <1>2, <1>3, <1>4, <1>5, <1>6, <1>7, <1>8, HandlerFrame

LEMMA HandlerRestarts ==
  ASSUME TasksTyped, TrackersTyped, [Next]_vars
  PROVE  \A o \in AgentOperators :
           InRestart("handler", o, {"removing", "creating"})' =>
             o \in handler.left \/ InRestart("handler", o, {"removing", "creating"})
<1>1. CASE RestartNext
  <2>1. PICK p \in handler.left : BeginRestart(Handler, p)
    BY <1>1 DEF RestartNext
  <2>2. restart'["handler"].op = p
    BY <2>1 DEF BeginRestart, Handler, TrackersTyped
  <2>3. QED
    BY <2>2 DEF InRestart
<1>2. CASE \E o \in AgentOperators : Look(o)
  BY <1>2 DEF Look, BeginRestart, Monitor, TrackersTyped, InRestart
<1>3. CASE CheckStopped
  BY <1>3 DEF CheckStopped, BeginRestart, Monitor, TrackersTyped, InRestart
<1>4. CASE \E x \in {"handler", "monitor"} : RestartRemove(x)
  BY <1>4 DEF RestartRemove, Restarting, TrackersTyped, AgentRestart, InRestart
<1>5. CASE \E x \in {"handler", "monitor"} : RestartCreate(x)
  BY <1>5 DEF RestartCreate, Restarting, TrackersTyped, AgentRestart, InRestart
<1>6. CASE \E x \in {"handler", "monitor"} : RestartStart(x)
  BY <1>6 DEF RestartStart, Restarting, TrackersTyped, AgentRestart, InRestart
<1>7. CASE \E x \in {"handler", "monitor"} : RestartLink(x)
  <2>1. PICK x \in {"handler", "monitor"} : RestartLink(x)
    BY <1>7
  <2>2. restart' = [restart EXCEPT ![x] = NoRestart]
    BY <2>1 DEF RestartLink, Raises
  <2>3. QED
    BY <2>1, <2>2 DEF TrackersTyped, InRestart, NoRestart
<1>8. CASE \E x \in {"handler", "monitor"} : RestartRaises(x)
  <2>1. PICK x \in {"handler", "monitor"} : RestartRaises(x)
    BY <1>8
  <2>2. restart' = [restart EXCEPT ![x] = NoRestart]
    BY <2>1 DEF RestartRaises, Raises
  <2>3. QED
    BY <2>1, <2>2 DEF TrackersTyped, InRestart, NoRestart
<1>9. CASE \E x \in {"handler", "monitor"} : RestartFindsNone(x)
  <2>1. PICK x \in {"handler", "monitor"} : RestartFindsNone(x)
    BY <1>9
  <2>2. restart' = [restart EXCEPT ![x] = NoRestart]
    BY <2>1 DEF RestartFindsNone, Raises
  <2>3. QED
    BY <2>1, <2>2 DEF TrackersTyped, InRestart, NoRestart
<1>10. CASE UNCHANGED <<restart>>
  BY <1>10 DEF InRestart
<1>11. QED
  BY <1>1, <1>2, <1>3, <1>4, <1>5, <1>6, <1>7, <1>8, <1>9, <1>10, RestartFrame

LEMMA CountedStep ==
  ASSUME AgentAssumption, AgentInv, Counted, [Next]_vars
  PROVE  Counted'
<1>0. TrackersTyped /\ Tracked /\ InHand /\ TrackersTyped' /\ InHand' /\ MAX_RESTARTS \in Nat
      /\ MaxOperatorRestarts \in Nat
  BY TrackersTypedStep, InHandStep DEF AgentInv, AgentAssumption
<1>1. BudgetTyped' /\ budget'["restart"] <= MaxOperatorRestarts
  <2>1. BudgetTyped /\ budget["restart"] <= MaxOperatorRestarts
    BY DEF Counted
  <2>2. BudgetTyped' /\ budget'["restart"] <= budget["restart"]
    BY <2>1, BudgetChange
  <2>3. budget["restart"] \in Nat /\ budget'["restart"] \in Nat
    BY <2>1, <2>2 DEF BudgetTyped
  <2>4. QED
    BY <1>0, <2>1, <2>2, <2>3
<1>2. ASSUME NEW o \in AgentOperators, tracker'[o] # None
      PROVE  tracker'[o].restarts <= MAX_RESTARTS
  <2>1. CASE tracker[o] = None
    <3>1. LaunchStart(o)
      BY <1>2, <2>1, TrackersKept
    <3>2. tracker'[o] = [id |-> container[o].id, marked |-> FALSE, restarts |-> 0, listed |-> TRUE]
      BY <1>0, <1>2, <3>1 DEF LaunchStart, TrackersTyped
    <3>3. QED
      BY <1>0, <3>2
  <2>2. CASE tracker[o] # None
    <3>1. tracker[o].restarts <= MAX_RESTARTS /\ tracker[o].restarts \in Nat
      BY <1>0, <1>2, <2>2 DEF Counted, TrackersTyped, AgentTracker
    <3>2. CASE tracker'[o].restarts = tracker[o].restarts
      BY <3>1, <3>2
    <3>3. CASE /\ RestartLink("monitor") /\ restart["monitor"].op = o /\ monitor.pc = "restarting"
               /\ tracker'[o].restarts = tracker[o].restarts + 1
      <4>1. monitor.op = o
        BY <1>0, <3>3 DEF InHand, RestartLink, Restarting
      <4>2. tracker[o].restarts < MAX_RESTARTS
        BY <3>3, <4>1 DEF Counted
      <4>3. QED
        BY <1>0, <3>1, <3>3, <4>2
    <3>4. QED
      BY <1>2, <2>2, <3>2, <3>3, TrackerFieldsChange
  <2>3. QED
    BY <2>1, <2>2
<1>3. ASSUME monitor'.pc \in {"remounting", "restarting"}
      PROVE  /\ monitor'.pc = "remounting" => tracker'[monitor'.op].marked
             /\ monitor'.pc = "restarting" => tracker'[monitor'.op].restarts < MAX_RESTARTS
  <2>1. CASE monitor' = monitor
    <3>1. monitor.op \in AgentOperators /\ tracker[monitor.op] # None
      BY <1>0, <1>3, <2>1 DEF InHand, Tracked, TrackersTyped, AgentMonitor
    <3>2. ~RestartLink("monitor")
      <4>1. SUFFICES ASSUME RestartLink("monitor") PROVE FALSE
        OBVIOUS
      <4>2. monitor' = NextTracker
        BY <4>1 DEF RestartLink, Monitor
      <4>3. monitor'.pc = "walking"
        BY <1>0, <4>2 DEF TrackersTyped, AgentMonitor, NextTracker
      <4>4. QED
        BY <1>3, <4>3
    <3>3. QED
      BY <2>1, <3>1, <3>2, TrackerFieldsChange DEF Counted
  <2>2. CASE /\ UNCHANGED tracker /\ monitor'.pc = "remounting"
             /\ monitor'.op \in monitor.left /\ tracker[monitor'.op].marked
    BY <2>2
  <2>3. CASE /\ UNCHANGED tracker /\ monitor'.pc = "restarting"
             /\ monitor'.op = monitor.op /\ monitor.pc = "checking"
             /\ ~(tracker[monitor.op].restarts >= MAX_RESTARTS)
    <3>1. monitor.op \in AgentOperators /\ tracker[monitor.op] # None
      BY <1>0, <2>3 DEF InHand, Tracked, TrackersTyped, AgentMonitor
    <3>2. tracker[monitor.op].restarts \in Nat
      BY <1>0, <3>1 DEF TrackersTyped, AgentTracker
    <3>3. QED
      BY <1>0, <2>3, <3>2
  <2>4. QED
    BY <1>0, <1>3, <2>1, <2>2, <2>3, MonitorTakesUp
<1>4. QED
  BY <1>1, <1>2, <1>3 DEF Counted

(* What an operator's task, the handler, a mount update and the monitor may*)
(* still make of it, in one step.                                          *)
LEMMA LaunchOwes ==
  ASSUME AgentAssumption, AgentInv, [Next]_vars, NEW o \in AgentOperators
  PROVE  /\ OwedByLaunch(o)' <= OwedByLaunch(o) /\ OwedByLaunch(o) \in {0, 1} /\ OwedByLaunch(o)' \in {0, 1}
         /\ LaunchCreate(o) => OwedByLaunch(o) = 1 /\ OwedByLaunch(o)' = 0
<1>0. TasksTyped /\ LockHeld /\ o[1] \in Deployments
  BY DEF AgentInv, AgentOperators, Operators
<1>1. OwedByLaunch(o)' = 1 => OwedByLaunch(o) = 1
  <2>1. SUFFICES ASSUME task'[o[1]] \in {"none", "cleaning"} \/ launch'[o] = "creating"
                 PROVE  task[o[1]] \in {"none", "cleaning"} \/ launch[o] = "creating"
    BY DEF OwedByLaunch
  <2>2. CASE task'[o[1]] \in {"none", "cleaning"}
    BY <1>0, <2>2, TaskChange
  <2>3. CASE launch'[o] = "creating"
    <3>1. launch[o] = "creating" \/ Launch(o[1])
      BY <1>0, <2>3, LaunchChange
    <3>2. QED
      BY <3>1 DEF Launch
  <2>4. QED
    BY <2>1, <2>2, <2>3
<1>2. ASSUME LaunchCreate(o) PROVE OwedByLaunch(o) = 1 /\ OwedByLaunch(o)' = 0
  <2>1. launch[o] = "creating" /\ launch' = [launch EXCEPT ![o] = "starting"] /\ UNCHANGED task
    BY <1>2 DEF LaunchCreate
  <2>2. launch'[o] = "starting"
    BY <1>0, <2>1 DEF TasksTyped
  <2>3. task[o[1]] = "launching"
    BY <2>1 DEF AgentInv, LaunchedByTask
  <2>4. QED
    BY <2>1, <2>2, <2>3 DEF OwedByLaunch
<1>3. OwedByLaunch(o) \in {0, 1} /\ OwedByLaunch(o)' \in {0, 1}
  BY DEF OwedByLaunch
<1>4. QED
  BY <1>1, <1>2, <1>3

LEMMA HandlerOwes ==
  ASSUME AgentAssumption, AgentInv, [Next]_vars, NEW o \in AgentOperators
  PROVE  /\ OwedByHandler(o) \in {0, 1} /\ OwedByHandler(o)' \in {0, 1}
         /\ OwedByHandler(o)' = 1 => OwedByHandler(o) = 1 \/ RestartCommand
         /\ RestartCreate("handler") /\ restart["handler"].op = o =>
              OwedByHandler(o) = 1 /\ OwedByHandler(o)' = 0
<1>0. TasksTyped /\ TrackersTyped /\ InHand
  BY DEF AgentInv
<1>1. ASSUME OwedByHandler(o)' = 1, ~RestartCommand PROVE OwedByHandler(o) = 1
  <2>1. o \in handler'.left \/ InRestart("handler", o, {"removing", "creating"})'
    BY <1>1 DEF OwedByHandler
  <2>2. CASE o \in handler'.left
    <3>1. o \in handler.left
      BY <1>0, <1>1, <2>2, HandlerLeft
    <3>2. QED
      BY <3>1 DEF OwedByHandler
  <2>3. CASE InRestart("handler", o, {"removing", "creating"})'
    <3>1. o \in handler.left \/ InRestart("handler", o, {"removing", "creating"})
      BY <1>0, <2>3, HandlerRestarts
    <3>2. QED
      BY <3>1 DEF OwedByHandler
  <2>4. QED
    BY <2>1, <2>2, <2>3
<1>2. ASSUME RestartCreate("handler"), restart["handler"].op = o
      PROVE  OwedByHandler(o) = 1 /\ OwedByHandler(o)' = 0
  <2>1. restart["handler"].pc = "creating" /\ UNCHANGED handler
    BY <1>2 DEF RestartCreate, Restarting, lockVars
  <2>2. o \notin handler.left
    BY <1>0, <1>2, <2>1 DEF InHand
  <2>3. restart'["handler"].pc = "starting"
    BY <1>0, <1>2, <2>1 DEF RestartCreate, TrackersTyped, AgentRestart
  <2>4. QED
    BY <1>2, <2>1, <2>2, <2>3 DEF OwedByHandler, InRestart
<1>3. OwedByHandler(o) \in {0, 1} /\ OwedByHandler(o)' \in {0, 1}
  BY DEF OwedByHandler
<1>4. QED
  BY <1>1, <1>2, <1>3

LEMMA RemountOwes ==
  ASSUME AgentAssumption, AgentInv, Counted, [Next]_vars,
         NEW o \in AgentOperators
  PROVE  /\ OwedByRemount(o) \in {0, 1} /\ OwedByRemount(o)' \in {0, 1}
         /\ OwedByRemount(o)' = 1 => OwedByRemount(o) = 1 \/ Remount(o)
<1>0. TrackersTyped /\ Tracked /\ InHand
  BY DEF AgentInv
<1>1. ASSUME OwedByRemount(o)' = 1, ~Remount(o) PROVE OwedByRemount(o) = 1
  <2>1. /\ tracker'[o] # None /\ tracker'[o].marked /\ monitor'.pc # "dead"
        /\ ~(monitor'.pc = "remounting" /\ InRestart("monitor", o, {"starting", "linking"})')
    BY <1>1 DEF OwedByRemount
  <2>2. ~LaunchStart(o)
    <3>1. SUFFICES ASSUME LaunchStart(o) PROVE FALSE
      OBVIOUS
    <3>2. tracker'[o] = [id |-> container[o].id, marked |-> FALSE, restarts |-> 0, listed |-> TRUE]
      BY <1>0, <3>1 DEF LaunchStart, TrackersTyped
    <3>3. QED
      BY <2>1, <3>2
  <2>3. tracker[o] # None
    BY <2>1, <2>2, TrackersKept
  <2>4. tracker[o].marked
    BY <1>1, <2>1, <2>3, TrackerFieldsChange
  <2>5. monitor.pc # "dead"
    BY <1>0, <2>1, DeadStays
  <2>6. ~(monitor.pc = "remounting" /\ InRestart("monitor", o, {"starting", "linking"}))
    <3>1. SUFFICES ASSUME monitor.pc = "remounting", restart["monitor"].pc \in {"starting", "linking"},
                          restart["monitor"].op = o
                   PROVE  FALSE
      BY DEF InRestart
    <3>2. CASE /\ monitor' = monitor
               /\ restart'["monitor"].pc \in {"starting", "linking"}
               /\ restart'["monitor"].op = restart["monitor"].op
      BY <2>1, <3>1, <3>2 DEF InRestart
    <3>3. CASE RestartLink("monitor")
      BY <2>1, <2>3, <3>1, <3>3, TrackerFieldsChange
    <3>4. CASE RestartRaises("monitor") \/ RestartFindsNone("monitor")
      <4>1. monitor' = Dead
        BY <3>1, <3>4 DEF RestartRaises, RestartFindsNone, Raises,
          Handler, MonitorIs
      <4>2. QED
        BY <2>1, <4>1 DEF Dead, Resting
    <3>5. QED
      BY <1>0, <3>1, <3>2, <3>3, <3>4, RestartGoesOn
  <2>7. QED
    BY <2>3, <2>4, <2>5, <2>6 DEF OwedByRemount
<1>2. OwedByRemount(o) \in {0, 1} /\ OwedByRemount(o)' \in {0, 1}
  BY DEF OwedByRemount
<1>3. QED
  BY <1>1, <1>2

(* The monitor takes up what it watches, and nothing else.                 *)
LEMMA WatchedStays ==
  ASSUME AgentAssumption, AgentInv, [Next]_vars,
         NEW o \in AgentOperators, tracker[o] # None, Watched(o)'
  PROVE  Watched(o)
<1>0. TasksTyped /\ TrackersTyped /\ Tracked /\ InHand /\ None \notin AgentOperators
  BY NoneIsNothing DEF AgentInv
<1>1. monitor.pc # "dead"
  BY <1>0, DeadStays DEF Watched
<1>2. ~LaunchStart(o)
  BY <1>0 DEF Tracked, LaunchStart
<1>3. tracker'[o] # None
  BY TrackersKept
<1>4. CASE tracker'[o].listed
  <2>1. o \in Listed'
    BY <1>3, <1>4 DEF Listed, AgentOperators
  <2>2. o \in Listed
    BY <1>2, <2>1, TrackersKept
  <2>3. QED
    BY <1>1, <2>2 DEF Listed, Watched
<1>5. CASE o \in monitor'.left
  <2>1. o \in monitor.left \/ o \in Listed
    BY <1>0, <1>5, HandChange
  <2>2. QED
    BY <1>1, <2>1 DEF Listed, Watched
<1>6. CASE monitor'.op = o
  <2>1. monitor.op = o \/ o \in monitor.left
    BY <1>0, <1>6, HandChange
  <2>2. QED
    BY <1>1, <2>1 DEF Watched
<1>7. QED
  BY <1>4, <1>5, <1>6 DEF Watched

(* A restart that ends without a container leaves its operator unwatched.  *)
LEMMA RaisedIsUnwatched ==
  ASSUME AgentAssumption, AgentInv, [Next]_vars,
         NEW o \in AgentOperators, restart["monitor"].op = o,
         restart["monitor"].pc \in {"starting", "linking"},
         RestartRaises("monitor") \/ RestartFindsNone("monitor")
  PROVE  ~Watched(o)' /\ monitor'.pc \in {"walking", "dead"}
<1>0. TrackersTyped /\ Tracked /\ InHand /\ None \notin AgentOperators /\ monitor.op = o
  BY NoneIsNothing DEF AgentInv, InHand
<1>1. o \notin monitor.left
  BY <1>0 DEF InHand
<1>2. tracker[o] \in AgentTracker
  BY <1>0 DEF Tracked, TrackersTyped
<1>3. CASE monitor' = Dead
  BY <1>3 DEF Watched, Dead, Resting
<1>4. CASE monitor' = NextTracker /\ ~tracker'[o].listed
  <2>1. monitor'.pc = "walking" /\ monitor'.left = monitor.left /\ monitor'.op = None
    BY <1>0, <1>4 DEF TrackersTyped, AgentMonitor, NextTracker
  <2>2. QED
    BY <1>0, <1>1, <1>4, <2>1 DEF Watched
<1>5. CASE RestartRaises("monitor")
  <2>1. ~tracker[o].listed
    BY <1>5 DEF RestartRaises, Restarting
  <2>2. UNCHANGED tracker
    BY <1>5 DEF RestartRaises, Raises
  <2>3. monitor' = Dead \/ monitor' = NextTracker
    BY <1>5 DEF RestartRaises, Raises, MonitorIs, Handler
  <2>4. QED
    BY <1>3, <1>4, <2>1, <2>2, <2>3
<1>6. CASE RestartFindsNone("monitor")
  <2>1. CASE tracker[o].listed /\ monitor.pc # "remounting"
    <3>1. Delete(o, Dead)
      BY <1>6, <2>1 DEF RestartFindsNone, Raises, Handler
    <3>2. tracker' = [tracker EXCEPT ![o].listed = FALSE] /\ monitor' = NextTracker
      BY <2>1, <3>1 DEF Delete, MonitorIs
    <3>3. ~tracker'[o].listed
      BY <1>0, <1>2, <3>2 DEF TrackersTyped, AgentTracker
    <3>4. QED
      BY <1>4, <3>2, <3>3
  <2>2. CASE ~tracker[o].listed \/ monitor.pc = "remounting"
    <3>1. monitor' = Dead
      BY <1>6, <2>2 DEF RestartFindsNone, Raises, Handler, Delete,
        MonitorIs
    <3>2. QED
      BY <1>3, <3>1
  <2>3. QED
    BY <2>1, <2>2
<1>7. QED
  BY <1>5, <1>6

LEMMA MonitorOwes ==
  ASSUME AgentAssumption, AgentInv, Counted, [Next]_vars,
         NEW o \in AgentOperators
  PROVE  /\ OwedByMonitor(o) \in Nat /\ OwedByMonitor(o)' \in Nat
         /\ OwedByMonitor(o)' <= OwedByMonitor(o)
<1>0. TrackersTyped /\ Tracked /\ InHand /\ MAX_RESTARTS \in Nat /\ TrackersTyped'
  BY TrackersTypedStep DEF AgentInv, AgentAssumption
<1>1. Counted' /\ InHand'
  BY CountedStep, InHandStep
<1>2. tracker[o] # None => tracker[o].restarts \in Nat /\ tracker[o].restarts <= MAX_RESTARTS
  BY <1>0 DEF TrackersTyped, AgentTracker, Counted
<1>3. tracker'[o] # None => tracker'[o].restarts \in Nat /\ tracker'[o].restarts <= MAX_RESTARTS
  BY <1>0, <1>1 DEF TrackersTyped, AgentTracker, Counted
<1> DEFINE busy == monitor.pc = "restarting" /\ InRestart("monitor", o, {"starting", "linking"})
<1>4. busy => monitor.op = o /\ tracker[o] # None /\ tracker[o].restarts < MAX_RESTARTS
  BY <1>0 DEF InHand, InRestart, Counted, Tracked
<1>5. busy' => monitor'.op = o /\ tracker'[o] # None /\ tracker'[o].restarts < MAX_RESTARTS
  <2>1. SUFFICES ASSUME busy'
                 PROVE  monitor'.op = o /\ tracker'[o] # None /\ tracker'[o].restarts < MAX_RESTARTS
    OBVIOUS
  <2>2. monitor'.op = o
    BY <1>1, <2>1 DEF InHand, InRestart
  <2>3. tracker'[o] # None
    <3>1. Tracked'
      BY TrackedStep
    <3>2. QED
      BY <2>1, <3>1 DEF Tracked, InRestart
  <2>4. QED
    BY <1>1, <2>1, <2>2, <2>3 DEF Counted
<1>6. OwedByMonitor(o) = IF tracker[o] = None THEN MAX_RESTARTS
                         ELSE IF busy THEN MAX_RESTARTS - (tracker[o].restarts + 1)
                         ELSE IF Watched(o) THEN MAX_RESTARTS - tracker[o].restarts ELSE 0
  BY DEF OwedByMonitor
<1>7. OwedByMonitor(o)' = IF tracker'[o] = None THEN MAX_RESTARTS
                          ELSE IF busy' THEN MAX_RESTARTS - (tracker'[o].restarts + 1)
                          ELSE IF Watched(o)' THEN MAX_RESTARTS - tracker'[o].restarts ELSE 0
  BY DEF OwedByMonitor
<1> HIDE DEF busy
<1>8. OwedByMonitor(o) \in Nat
  BY <1>0, <1>2, <1>4, <1>6
<1>9. OwedByMonitor(o)' \in Nat /\ OwedByMonitor(o)' <= MAX_RESTARTS
  BY <1>0, <1>3, <1>5, <1>7
<1>10. CASE tracker[o] = None
  BY <1>0, <1>6, <1>8, <1>9, <1>10
<1>11. CASE tracker[o] # None /\ busy
  <2>1. tracker'[o] # None
    BY <1>11, TrackersKept
  <2>2. restart["monitor"].pc \in {"starting", "linking"} /\ restart["monitor"].op = o
        /\ monitor.pc = "restarting"
    BY <1>11 DEF busy, InRestart
  <2>3. CASE /\ monitor' = monitor
             /\ restart'["monitor"].pc \in {"starting", "linking"}
             /\ restart'["monitor"].op = restart["monitor"].op
    <3>1. busy'
      BY <2>2, <2>3 DEF busy, InRestart
    <3>2. ~RestartLink("monitor")
      <4>1. SUFFICES ASSUME RestartLink("monitor") PROVE FALSE
        OBVIOUS
      <4>2. restart' = [restart EXCEPT !["monitor"] = NoRestart]
        BY <4>1 DEF RestartLink
      <4>3. QED
        BY <1>0, <2>3, <4>2 DEF TrackersTyped, NoRestart
    <3>3. tracker'[o].restarts = tracker[o].restarts
      BY <1>11, <3>2, TrackerFieldsChange
    <3>4. QED
      BY <1>6, <1>7, <1>9, <1>8, <1>11, <2>1, <3>1, <3>3
  <2>4. CASE RestartLink("monitor")
    <3>1. tracker'[o].restarts = tracker[o].restarts + 1
      BY <1>11, <2>2, <2>4, TrackerFieldsChange
    <3>2. OwedByMonitor(o)' <= MAX_RESTARTS - tracker'[o].restarts
      BY <1>0, <1>3, <1>7, <2>1
    <3>3. QED
      BY <1>0, <1>2, <1>3, <1>6, <1>9, <1>11, <2>1, <3>1, <3>2
  <2>5. CASE RestartRaises("monitor") \/ RestartFindsNone("monitor")
    <3>1. ~Watched(o)' /\ monitor'.pc \in {"walking", "dead"}
      BY <2>2, <2>5, RaisedIsUnwatched
    <3>2. ~busy'
      BY <3>1 DEF busy
    <3>3. OwedByMonitor(o)' = 0
      BY <1>7, <2>1, <3>1, <3>2
    <3>4. QED
      BY <1>8, <1>9, <3>3
  <2>6. QED
    BY <1>0, <2>2, <2>3, <2>4, <2>5, RestartGoesOn
<1>12. CASE tracker[o] # None /\ ~busy
  <2>1. tracker'[o] # None
    BY <1>12, TrackersKept
  <2>2. tracker'[o].restarts = tracker[o].restarts
        \/ (RestartLink("monitor") /\ restart["monitor"].op = o /\ monitor.pc = "restarting")
    BY <1>12, TrackerFieldsChange
  <2>3. tracker'[o].restarts = tracker[o].restarts
    <3>1. ~(RestartLink("monitor") /\ restart["monitor"].op = o /\ monitor.pc = "restarting")
      BY <1>12 DEF busy, InRestart, RestartLink, Restarting
    <3>2. QED
      BY <2>2, <3>1
  <2>4. CASE Watched(o)
    <3>1. OwedByMonitor(o) = MAX_RESTARTS - tracker[o].restarts
      BY <1>6, <1>12, <2>4
    <3>2. OwedByMonitor(o)' <= MAX_RESTARTS - tracker'[o].restarts
      BY <1>0, <1>3, <1>7, <2>1
    <3>3. QED
      BY <2>3, <3>1, <3>2, <1>8, <1>9, <1>2, <1>12, <1>0
  <2>5. CASE ~Watched(o)
    <3>1. ~Watched(o)'
      BY <1>12, <2>5, WatchedStays
    <3>2. ~busy'
      <4>1. SUFFICES ASSUME busy' PROVE FALSE
        OBVIOUS
      <4>2. monitor'.op = o /\ monitor'.pc = "restarting"
        BY <1>5, <4>1 DEF busy
      <4>3. QED
        BY <3>1, <4>2 DEF Watched
    <3>3. QED
      BY <1>6, <1>7, <1>8, <1>12, <2>1, <2>5, <3>1, <3>2
  <2>6. QED
    BY <2>4, <2>5
<1>13. QED
  BY <1>8, <1>9, <1>10, <1>11, <1>12

LEMMA MadeFrame ==
  ASSUME [Next]_vars
  PROVE  \/ UNCHANGED <<made>>
         \/ \E o \in AgentOperators : LaunchCreate(o)
         \/ \E x \in {"handler", "monitor"} : RestartCreate(x)
<1>1. CASE \/ \E d \in Deployments : Launch(d)
           \/ \E d \in Deployments : Runs(d)
           \/ \E d \in Deployments : Interrupted(d)
           \/ \E d \in Deployments : Fails(d)
           \/ \E d \in Deployments : Finishes(d)
  BY <1>1 DEF Launch, Up, CleanedUp, NoCleanup, Of, Free, vars,
    taskVars, lockVars, podmanVars, Runs, Interrupted, Unwind,
    Live, Fails, Spend, Finishes, Ends, TeardownFails
<1>2. CASE \/ \E d \in Deployments : Assign(d)
           \/ Replace
           \/ Stopped
           \/ Stop
           \/ \E o \in AgentOperators : LaunchStart(o)
  BY <1>2 DEF Assign, Up, Running, Live, Cancel,
    Begin, Handler, Free, vars, taskVars,
    lockVars, podmanVars, Replace, Waiting, Stopped,
    Stop, Spend, LaunchStart, StartContainer
<1>3. CASE \/ \E c \in Deployments \cup {"hook"} : Clear(c)
           \/ \E c \in Deployments \cup {"hook"} : List(c)
           \/ \E c \in Deployments \cup {"hook"} : RemoveListed(c)
           \/ RestartCommand
           \/ RestartNext
  BY <1>3 DEF Clear, Up, Free, vars, taskVars,
    lockVars, podmanVars, List, RemoveListed, Remove,
    Holds, RestartCommand, Running, Live, Waiting,
    Spend, RestartNext, BeginRestart, Handler, NoRestart
<1>4. CASE \/ RestartsDone
           \/ Wake
           \/ PassDone
           \/ \E o \in AgentOperators : Look(o)
           \/ CheckUp
  BY <1>4 DEF RestartsDone, Up, Waiting, Handler,
    NoRestart, Free, vars, taskVars, lockVars,
    podmanVars, Wake, MonitorIs, NextPass, Resting,
    PassDone, Look, BeginRestart, Monitor, CheckUp,
    NextTracker, Holds, IsUp
<1>5. CASE \/ CheckGone
           \/ CheckStopped
           \/ Report
           \/ \E x \in {"handler", "monitor"} : RestartRemove(x)
           \/ \E x \in {"handler", "monitor"} : RestartStart(x)
  BY <1>5 DEF CheckGone, Up, MonitorIs, NextTracker,
    Holds, Delete, Dead, Resting, Free, vars,
    taskVars, lockVars, podmanVars, CheckStopped, IsUp,
    BeginRestart, Monitor, Report, RestartRemove,
    Restarting, Remove, RestartStart, StartContainer
<1>6. CASE \/ \E x \in {"handler", "monitor"} : RestartLink(x)
           \/ \E x \in {"handler", "monitor"} : RestartRaises(x)
           \/ \E x \in {"handler", "monitor"} : RestartFindsNone(x)
           \/ \E o \in AgentOperators : Exit(o)
           \/ \E o \in AgentOperators : AutoRemove(o)
  BY <1>6 DEF RestartLink, Restarting, Up, Handler,
    Monitor, NoRestart, NextTracker, Free, vars,
    taskVars, lockVars, podmanVars, RestartRaises,
    Raises, MonitorIs, Dead, Resting, RestartFindsNone,
    Holds, Delete, Exit, IsUp, Spend, AutoRemove
<1>7. CASE \/ \E o \in AgentOperators : Remount(o)
           \/ RequestShutdown
           \/ HookLocks
           \/ HookCleans
           \/ HookFinishes
  BY <1>7 DEF Remount, Up, Spend, vars, taskVars, lockVars,
    podmanVars, RequestShutdown, Free, HookLocks, Cancel, Hook,
    HookCleans, Running, Live, HookFinishes, HookEnds,
    HookFails, CleanedUp, NoCleanup
<1>8. CASE UNCHANGED vars
  BY <1>8 DEF vars, taskVars, lockVars, podmanVars
<1>9. QED
  BY <1>1, <1>2, <1>3, <1>4, <1>5, <1>6, <1>7, <1>8, AgentNextCases

LEMMA ValueFrame ==
  ASSUME [Next]_vars
  PROVE  \/ UNCHANGED <<value>>
         \/ \E o \in AgentOperators : Remount(o)
<1>1. CASE \/ \E d \in Deployments : Launch(d)
           \/ \E d \in Deployments : Runs(d)
           \/ \E d \in Deployments : Interrupted(d)
           \/ \E d \in Deployments : Fails(d)
           \/ \E d \in Deployments : Finishes(d)
  BY <1>1 DEF Launch, Up, CleanedUp, NoCleanup, Of, Free, vars,
    taskVars, lockVars, podmanVars, Runs, Interrupted, Unwind,
    Live, Fails, Spend, Finishes, Ends, TeardownFails
<1>2. CASE \/ \E d \in Deployments : Assign(d)
           \/ Replace
           \/ Stopped
           \/ Stop
           \/ \E o \in AgentOperators : LaunchCreate(o)
  BY <1>2 DEF Assign, Up, Running, Live, Cancel,
    Begin, Handler, Free, vars, taskVars,
    lockVars, podmanVars, Replace, Waiting, Stopped,
    Stop, Spend, LaunchCreate, Create
<1>3. CASE \/ \E o \in AgentOperators : LaunchStart(o)
           \/ \E c \in Deployments \cup {"hook"} : Clear(c)
           \/ \E c \in Deployments \cup {"hook"} : List(c)
           \/ \E c \in Deployments \cup {"hook"} : RemoveListed(c)
           \/ RestartCommand
  BY <1>3 DEF LaunchStart, Up, StartContainer, Free,
    vars, taskVars, lockVars, podmanVars, Clear,
    List, RemoveListed, Remove, Holds, RestartCommand,
    Running, Live, Waiting, Spend
<1>4. CASE \/ RestartNext
           \/ RestartsDone
           \/ Wake
           \/ PassDone
           \/ \E o \in AgentOperators : Look(o)
  BY <1>4 DEF RestartNext, Up, BeginRestart, Handler,
    NoRestart, Free, vars, taskVars, lockVars,
    podmanVars, RestartsDone, Waiting, Wake, MonitorIs,
    NextPass, Resting, PassDone, Look, Monitor
<1>5. CASE \/ CheckUp
           \/ CheckGone
           \/ CheckStopped
           \/ Report
           \/ \E x \in {"handler", "monitor"} : RestartRemove(x)
  BY <1>5 DEF CheckUp, Up, MonitorIs, NextTracker, Holds,
    IsUp, Free, vars, taskVars, lockVars,
    podmanVars, CheckGone, Delete, Dead, Resting,
    CheckStopped, BeginRestart, Monitor, Report,
    RestartRemove, Restarting, Remove
<1>6. CASE \/ \E x \in {"handler", "monitor"} : RestartCreate(x)
           \/ \E x \in {"handler", "monitor"} : RestartStart(x)
           \/ \E x \in {"handler", "monitor"} : RestartLink(x)
           \/ \E x \in {"handler", "monitor"} : RestartRaises(x)
           \/ \E x \in {"handler", "monitor"} : RestartFindsNone(x)
  BY <1>6 DEF RestartCreate, Restarting, Up, Create,
    Free, vars, taskVars, lockVars, podmanVars,
    RestartStart, Holds, StartContainer, RestartLink,
    Handler, Monitor, NoRestart, NextTracker,
    RestartRaises, Raises, MonitorIs, Dead, Resting,
    RestartFindsNone, Delete
<1>7. CASE \/ \E o \in AgentOperators : Exit(o)
           \/ \E o \in AgentOperators : AutoRemove(o)
           \/ RequestShutdown
           \/ HookLocks
           \/ HookCleans
  BY <1>7 DEF Exit, IsUp, Spend, vars, taskVars,
    lockVars, podmanVars, AutoRemove, Free,
    RequestShutdown, HookLocks, Cancel, Hook, HookCleans,
    Running, Live
<1>8. CASE \/ HookFinishes
  BY <1>8 DEF HookFinishes, HookEnds, HookFails, Spend,
    CleanedUp, Hook, NoCleanup, Free, vars, taskVars, lockVars,
    podmanVars
<1>9. CASE UNCHANGED vars
  BY <1>9 DEF vars, taskVars, lockVars, podmanVars
<1>10. QED
  BY <1>1, <1>2, <1>3, <1>4, <1>5, <1>6, <1>7, <1>8, <1>9, AgentNextCases

(* A container that the monitor's restart makes was owed.                  *)
LEMMA MonitorPays ==
  ASSUME AgentAssumption, AgentInv, Counted, [Next]_vars,
         NEW o \in AgentOperators, RestartCreate("monitor"), restart["monitor"].op = o
  PROVE  \/ OwedByRemount(o) = 1 /\ OwedByRemount(o)' = 0
         \/ OwedByMonitor(o)' <= OwedByMonitor(o) - 1
<1>0. TrackersTyped /\ Tracked /\ InHand /\ MAX_RESTARTS \in Nat
  BY DEF AgentInv, AgentAssumption
<1>1. /\ restart["monitor"].pc = "creating" /\ UNCHANGED <<tracker, monitor>>
      /\ restart'["monitor"].pc = "starting" /\ restart'["monitor"].op = o
  BY <1>0 DEF RestartCreate, Restarting, TrackersTyped, AgentRestart
<1>2. monitor.op = o /\ monitor.pc \in {"remounting", "restarting"} /\ tracker[o] # None
  BY <1>0, <1>1 DEF InHand, Tracked
<1>3. CASE monitor.pc = "remounting"
  <2>1. tracker[o].marked
    BY <1>2, <1>3 DEF Counted
  <2>2. QED
    BY <1>1, <1>2, <1>3, <2>1 DEF OwedByRemount, InRestart
<1>4. CASE monitor.pc = "restarting"
  <2>1. tracker[o].restarts < MAX_RESTARTS /\ tracker[o].restarts \in Nat
    BY <1>0, <1>2, <1>4 DEF Counted, TrackersTyped, AgentTracker
  <2>2. OwedByMonitor(o) = MAX_RESTARTS - tracker[o].restarts
    BY <1>1, <1>2, <1>4 DEF OwedByMonitor, Watched, InRestart
  <2>3. OwedByMonitor(o)' = MAX_RESTARTS - (tracker[o].restarts + 1)
    BY <1>1, <1>2, <1>4 DEF OwedByMonitor, Watched, InRestart
  <2>4. QED
    BY <1>0, <2>1, <2>2, <2>3
<1>5. QED
  BY <1>2, <1>3, <1>4

(* Containers are made by the first start and by restarts.                 *)
LEMMA MadeChange ==
  ASSUME PodmanTyped, [Next]_vars, NEW o \in AgentOperators
  PROVE  \/ made'[o] = made[o]
         \/ /\ made'[o] = made[o] + 1
            /\ LaunchCreate(o)
         \/ /\ made'[o] = made[o] + 1
            /\ \E x \in {"handler", "monitor"} : RestartCreate(x) /\ restart[x].op = o
<1>1. \/ UNCHANGED made
      \/ \E p \in AgentOperators : LaunchCreate(p)
      \/ \E x \in {"handler", "monitor"} : RestartCreate(x)
  BY MadeFrame
<1>2. ASSUME NEW p \in AgentOperators, LaunchCreate(p)
      PROVE  made' = [made EXCEPT ![p] = @ + 1]
  BY <1>2 DEF LaunchCreate, Create
<1>3. ASSUME NEW x \in {"handler", "monitor"}, RestartCreate(x)
      PROVE  made' = [made EXCEPT ![restart[x].op] = @ + 1]
  BY <1>3 DEF RestartCreate, Create
<1>4. QED
  BY <1>1, <1>2, <1>3 DEF PodmanTyped

(* Mount updates are counted.                                              *)
LEMMA ValueChange ==
  ASSUME PodmanTyped, [Next]_vars, NEW o \in AgentOperators
  PROVE  /\ value'[o] >= value[o]
         /\ Remount(o) => value'[o] = value[o] + 1
<1>1. UNCHANGED value \/ \E p \in AgentOperators : Remount(p)
  BY ValueFrame
<1>2. ASSUME NEW p \in AgentOperators, Remount(p)
      PROVE  value' = [value EXCEPT ![p] = @ + 1]
  BY <1>2 DEF Remount
<1>3. value \in [AgentOperators -> Nat]
  BY DEF PodmanTyped
<1>4. Remount(o) => value'[o] = value[o] + 1
  BY <1>2, <1>3
<1>5. value'[o] >= value[o]
  BY <1>1, <1>2, <1>3
<1>6. QED
  BY <1>4, <1>5

LEMMA MadeIsBoundedStep ==
  ASSUME AgentAssumption, AgentInv, Counted, MadeIsBounded, [Next]_vars
  PROVE  MadeIsBounded'
<1> SUFFICES ASSUME NEW o \in AgentOperators
             PROVE  made'[o] + Owed(o)'
                      <= 1 + MAX_RESTARTS + value'[o] + (MaxOperatorRestarts - budget'["restart"])
  BY DEF MadeIsBounded
<1>1. /\ made[o] \in Nat /\ made'[o] \in Nat /\ value[o] \in Nat /\ value'[o] \in Nat
      /\ budget["restart"] \in Nat /\ budget'["restart"] \in Nat
      /\ MAX_RESTARTS \in Nat /\ MaxOperatorRestarts \in Nat
  <2>1. PodmanTyped /\ PodmanTyped' /\ BudgetTyped /\ BudgetTyped'
    BY PodmanTypedStep, BudgetChange DEF AgentInv, Counted
  <2>2. QED
    BY <2>1 DEF PodmanTyped, BudgetTyped, AgentAssumption
<1>2. made[o] + (OwedByLaunch(o) + OwedByHandler(o) + OwedByRemount(o) + OwedByMonitor(o))
        <= 1 + MAX_RESTARTS + value[o] + (MaxOperatorRestarts - budget["restart"])
  BY DEF MadeIsBounded, Owed
<1>3. /\ OwedByLaunch(o) \in {0, 1} /\ OwedByLaunch(o)' \in {0, 1}
      /\ OwedByLaunch(o)' <= OwedByLaunch(o)
      /\ LaunchCreate(o) => OwedByLaunch(o)' = OwedByLaunch(o) - 1
  BY LaunchOwes
<1>4. /\ OwedByHandler(o) \in {0, 1} /\ OwedByHandler(o)' \in {0, 1}
      /\ OwedByHandler(o)' <= OwedByHandler(o) + (budget["restart"] - budget'["restart"])
      /\ budget'["restart"] <= budget["restart"]
      /\ RestartCreate("handler") /\ restart["handler"].op = o =>
           OwedByHandler(o)' = OwedByHandler(o) - 1
  <2>1. BudgetTyped
    BY DEF Counted
  <2>2. /\ budget'["restart"] <= budget["restart"]
        /\ RestartCommand => budget'["restart"] = budget["restart"] - 1
    <3>1. budget'["restart"] <= budget["restart"]
      BY <2>1, BudgetChange
    <3>2. ASSUME RestartCommand PROVE budget'["restart"] = budget["restart"] - 1
      <4>1. budget' = [budget EXCEPT !["restart"] = @ - 1]
        BY <3>2 DEF RestartCommand, Spend
      <4>2. QED
        BY <2>1, <4>1 DEF BudgetTyped
    <3>3. QED
      BY <3>1, <3>2
  <2>3. /\ OwedByHandler(o) \in {0, 1} /\ OwedByHandler(o)' \in {0, 1}
        /\ OwedByHandler(o)' = 1 => OwedByHandler(o) = 1 \/ RestartCommand
        /\ RestartCreate("handler") /\ restart["handler"].op = o =>
             OwedByHandler(o) = 1 /\ OwedByHandler(o)' = 0
    BY HandlerOwes
  <2>4. QED
    BY <1>1, <2>2, <2>3
<1>5. /\ OwedByRemount(o) \in {0, 1} /\ OwedByRemount(o)' \in {0, 1}
      /\ OwedByRemount(o)' <= OwedByRemount(o) + (value'[o] - value[o])
      /\ value'[o] >= value[o]
  <2>1. /\ value'[o] >= value[o]
        /\ Remount(o) => value'[o] = value[o] + 1
    BY ValueChange DEF AgentInv
  <2>2. /\ OwedByRemount(o) \in {0, 1} /\ OwedByRemount(o)' \in {0, 1}
        /\ OwedByRemount(o)' = 1 => OwedByRemount(o) = 1 \/ Remount(o)
    BY RemountOwes
  <2>3. QED
    BY <1>1, <2>1, <2>2
<1>6. OwedByMonitor(o) \in Nat /\ OwedByMonitor(o)' \in Nat /\ OwedByMonitor(o)' <= OwedByMonitor(o)
  BY MonitorOwes
<1>7. RestartCreate("monitor") /\ restart["monitor"].op = o =>
        \/ OwedByRemount(o)' = OwedByRemount(o) - 1
        \/ OwedByMonitor(o)' <= OwedByMonitor(o) - 1
  BY MonitorPays
<1>8. Owed(o)' = OwedByLaunch(o)' + OwedByHandler(o)' + OwedByRemount(o)' + OwedByMonitor(o)'
  BY DEF Owed
<1>9. CASE made'[o] = made[o]
  BY <1>1, <1>2, <1>3, <1>4, <1>5, <1>6, <1>8, <1>9
<1>10. CASE made'[o] = made[o] + 1 /\ LaunchCreate(o)
  BY <1>1, <1>2, <1>3, <1>4, <1>5, <1>6, <1>8, <1>10
<1>11. CASE made'[o] = made[o] + 1 /\ RestartCreate("handler") /\ restart["handler"].op = o
  BY <1>1, <1>2, <1>3, <1>4, <1>5, <1>6, <1>8, <1>11
<1>12. CASE made'[o] = made[o] + 1 /\ RestartCreate("monitor") /\ restart["monitor"].op = o
  BY <1>1, <1>2, <1>3, <1>4, <1>5, <1>6, <1>7, <1>8, <1>12
<1>13. QED
  <2>1. PodmanTyped
    BY DEF AgentInv
  <2>2. QED
    BY <2>1, <1>9, <1>10, <1>11, <1>12, MadeChange

LEMMA RestartsInvInit ==
  ASSUME AgentAssumption, Init
  PROVE  RestartsInv
<1>1. AgentInv
  BY AgentInvInit
<1>2. BudgetTyped /\ budget["restart"] = MaxOperatorRestarts /\ MaxOperatorRestarts \in Nat
      /\ MAX_RESTARTS \in Nat
  BY DEF Init, AgentAssumption, BudgetTyped
<1>3. Counted
  BY <1>2 DEF Counted, Init, AgentOperators, Resting
<1>4. ASSUME NEW o \in AgentOperators
      PROVE  made[o] + Owed(o)
               <= 1 + MAX_RESTARTS + value[o] + (MaxOperatorRestarts - budget["restart"])
  <2>1. made[o] = 0 /\ value[o] = 0 /\ tracker[o] = None
    BY <1>4 DEF Init, AgentOperators
  <2>2. OwedByLaunch(o) \in {0, 1} /\ OwedByRemount(o) = 0 /\ OwedByMonitor(o) = MAX_RESTARTS
    BY <2>1 DEF OwedByLaunch, OwedByRemount, OwedByMonitor
  <2>3. OwedByHandler(o) = 0
    BY DEF Init, OwedByHandler, InRestart, Waiting, NoRestart,
      Handler, Monitor
  <2>4. QED
    BY <1>2, <2>1, <2>2, <2>3 DEF Owed
<1>5. QED
  BY <1>1, <1>3, <1>4 DEF RestartsInv, MadeIsBounded

LEMMA RestartsInvStep ==
  ASSUME AgentAssumption, RestartsInv, [Next]_vars
  PROVE  RestartsInv'
BY AgentInvStep, CountedStep, MadeIsBoundedStep DEF RestartsInv

LEMMA RestartsSuffice ==
  ASSUME AgentAssumption, RestartsInv
  PROVE  RestartsAreBounded
<1>1. SUFFICES ASSUME NEW o \in AgentOperators
               PROVE  made[o] <= 1 + MAX_RESTARTS + value[o]
                                   + (MaxOperatorRestarts - budget["restart"])
  BY DEF RestartsAreBounded, AgentOperators
<1>2. made[o] + Owed(o)
        <= 1 + MAX_RESTARTS + value[o] + (MaxOperatorRestarts - budget["restart"])
  BY <1>1 DEF RestartsInv, MadeIsBounded
<1>3. /\ made[o] \in Nat /\ value[o] \in Nat /\ budget["restart"] \in Nat
      /\ MAX_RESTARTS \in Nat /\ MaxOperatorRestarts \in Nat
  BY <1>1 DEF RestartsInv, AgentInv, PodmanTyped, Counted, BudgetTyped, AgentAssumption
<1>4. Owed(o) \in Nat
  <2>1. tracker[o] # None => tracker[o].restarts \in Nat /\ tracker[o].restarts <= MAX_RESTARTS
    BY <1>1 DEF RestartsInv, AgentInv, TrackersTyped, AgentTracker, Counted
  <2>2. (monitor.pc = "restarting" /\ InRestart("monitor", o, {"starting", "linking"})) =>
          tracker[o].restarts < MAX_RESTARTS
    BY <1>1 DEF RestartsInv, AgentInv, InHand, InRestart, Counted
  <2>3. OwedByMonitor(o) \in Nat
    BY <1>3, <2>1, <2>2 DEF OwedByMonitor
  <2>4. OwedByLaunch(o) \in Nat /\ OwedByHandler(o) \in Nat /\ OwedByRemount(o) \in Nat
    BY DEF OwedByLaunch, OwedByHandler, OwedByRemount
  <2>5. QED
    BY <2>3, <2>4 DEF Owed
<1>5. QED
  BY <1>2, <1>3, <1>4

(* Containers do not multiply, however restarts, updates and exits overlap.*)
THEOREM AgentRestartsAreBounded ==
  ASSUME AgentAssumption
  PROVE  Spec => []RestartsAreBounded
<1>1. Init => RestartsInv
  BY RestartsInvInit
<1>2. RestartsInv /\ [Next]_vars => RestartsInv'
  BY RestartsInvStep
<1>3. RestartsInv => RestartsAreBounded
  BY RestartsSuffice
<1>4. QED
  BY <1>1, <1>2, <1>3, PTL DEF Spec
===============================================================================
