----------------------------- MODULE Orchestrator -----------------------------
(***************************************************************************)
(* The orchestrator process: the deployment state machines, the agent      *)
(* trackers, the handler of the durable deployments consumer, the watch on *)
(* the agents' keys, and the replay of the stream at startup.              *)
(*                                                                         *)
(* Two asyncio tasks work on the machines: Events takes one deployment     *)
(* event at a time, Entries one watch entry at a time.  A trigger changes  *)
(* the state without an await and then awaits publish_state_update; what   *)
(* the other task does in between is what this module is about.  A trigger *)
(* that the machine accepts cancels the callbacks still running for the    *)
(* same machine (transitions.extensions.asyncio), so an update may never   *)
(* be published; the cancelled task goes on with its handler.              *)
(***************************************************************************)
EXTENDS FiniteSets, Streams

VARIABLES
  boot,     \* the life of the process
  replay,   \* updates the startup's own machines have still to publish
  sm,       \* deployment_state_machines: None when there is no machine
  pending,  \* per task, the update its trigger has still to publish
  store,    \* agents: the last AgentVal seen of each agent
  tracker,  \* agent_trackers: Absent, or the deployment linked (None: none)
  handler,  \* what Events is doing
  watcher   \* what Entries is doing

orchestratorVars == <<boot, replay, sm, pending, store, tracker, handler, watcher>>

Events  == "events"
Entries == "entries"
Tasks   == {Events, Entries}
Absent  == "absent"

(* stored is FALSE for a machine that deployment_state_machines no longer  *)
(* holds: no later trigger reaches it.                                     *)
Publication == [depl : Deployments, state : States, stored : BOOLEAN]

ASSUME AbsentAssumption == Absent \notin Deployments /\ None \notin Publication

IdleHandler == [pc |-> "idle", ev |-> None, targets |-> {}]
BusyHandler == [pc : {"assigned", "recording", "rejecting", "stopping", "restarting"},
                ev : Event, targets : SUBSET Agents]
IdleWatcher == [pc |-> "idle"]
Relinking   == [pc : {"relinking"}, agent : Agents, val : AgentVal, old : AgentVal]
Forgetting  == [pc : {"forgetting"}, agent : Agents]

OrchestratorTypeOK ==
  /\ boot \in {"down", "replaying", "cleaning", "ready"}
  /\ replay \in [Deployments -> States \cup {None}]
  /\ sm \in [Deployments -> States \cup {None}]
  /\ pending \in [Tasks -> Publication \cup {None}]
  /\ store \in [Agents -> Entry]
  /\ tracker \in [Agents -> Deployments \cup {None, Absent}]
  /\ handler \in BusyHandler \cup {IdleHandler}
  /\ watcher \in Relinking \cup Forgetting \cup {IdleWatcher}

NoMemory ==
  /\ replay' = [d \in Deployments |-> None]
  /\ sm' = [d \in Deployments |-> None]
  /\ pending' = [t \in Tasks |-> None]
  /\ store' = [a \in Agents |-> None]
  /\ tracker' = [a \in Agents |-> Absent]
  /\ handler' = IdleHandler
  /\ watcher' = IdleWatcher

(* The process is up and its durable consumer exists: the first start on   *)
(* an empty stream has nothing to replay.                                  *)
OrchestratorInit ==
  /\ boot = "ready"
  /\ replay = [d \in Deployments |-> None]
  /\ sm = [d \in Deployments |-> None]
  /\ pending = [t \in Tasks |-> None]
  /\ store = [a \in Agents |-> None]
  /\ tracker = [a \in Agents |-> Absent]
  /\ handler = IdleHandler
  /\ watcher = IdleWatcher

Known == {a \in Agents : store[a] # None}

------------------------------------------------------------------------------
(* get_deployment_sm: a machine that is not there is created in PENDING.   *)
Machine(d) == IF sm[d] = None THEN "PENDING" ELSE sm[d]

(* A trigger the machine accepts: the state changes, the publication of    *)
(* another task for the same machine is cancelled, and this task's begins, *)
(* unless the trigger re-entered the state.                                *)
Fire(task, t, d) ==
  LET s == Target(t, Machine(d)) IN
  /\ Accepts(t, Machine(d))
  /\ sm' = [sm EXCEPT ![d] = s]
  /\ pending' = [k \in Tasks |->
       IF k = task
       THEN IF Reenters(t, Machine(d)) THEN None
            ELSE [depl |-> d, state |-> s, stored |-> TRUE]
       ELSE IF pending[k] # None /\ pending[k].depl = d /\ pending[k].stored
            THEN None ELSE pending[k]]

(* MachineError, or no trigger at all: the machine exists afterwards.      *)
Touch(d) == sm' = [sm EXCEPT ![d] = Machine(d)] /\ UNCHANGED pending

Refuse(t, d) == ~Accepts(t, Machine(d)) /\ Touch(d)

(* publish_state_update of the trigger that task has fired.                *)
Publish(task) ==
  /\ pending[task] # None
  /\ PublishUpdate(pending[task].depl, pending[task].state)
  /\ pending' = [pending EXCEPT ![task] = None]
  /\ UNCHANGED <<events, retained, assigned, commands, kv, watching, watch,
                 boot, replay, sm, store, tracker, handler, watcher>>

Published(task) == pending[task] = None

------------------------------------------------------------------------------
(* Events: one message of the durable consumer at a time.                  *)
TakeEvent(type) ==
  /\ boot # "down"
  /\ handler.pc = "idle"
  /\ events # <<>>
  /\ Head(events).type = type
  /\ events' = Tail(events)
  /\ UNCHANGED <<retained, assigned, updates, lastUpdate, kv, watching, watch,
                 boot, replay, store, tracker, watcher>>

Handle(pc, S) == handler' = [pc |-> pc, ev |-> Head(events), targets |-> S]

(* Mutant of RejectEvent: the middleware leaves the machine as it is.      *)
RejectSilently == Touch(Head(events).depl) /\ UNCHANGED handler

(* A PipelineRunException: the middleware fires start_failure, and the     *)
(* MachineError of a refused one ends the handling.                        *)
RejectEvent ==
  LET d == Head(events).depl IN
  \/ Fire(Events, "start_failure", d) /\ Handle("rejecting", {})
  \/ Refuse("start_failure", d) /\ UNCHANGED handler

(* handle_run_deployment: every agent of the store gets an assignment.     *)
HandleRun ==
  /\ TakeEvent("RUN")
  /\ LET d == Head(events).depl IN
     /\ Known # {}
     /\ \/ Fire(Events, "assign", d) /\ Handle("assigned", Known)
        \/ Refuse("assign", d) /\ UNCHANGED handler
  /\ UNCHANGED commands

(* handle_run_deployment raises: the pipeline is invalid, cyclic or cannot *)
(* be assigned; without agents it always does.                             *)
HandleRunRaises ==
  /\ TakeEvent("RUN")
  /\ RejectEvent
  /\ UNCHANGED commands

(* Mutants of HandleStop: only the agents linked to the deployment are     *)
(* told; the state is set without its trigger.                             *)
StopLinkedAgents ==
  /\ TakeEvent("STOP")
  /\ Fire(Events, "cancel", Head(events).depl)
  /\ Handle("stopping", {a \in Known : tracker[a] = Head(events).depl})
  /\ UNCHANGED commands

StopSetsState ==
  /\ TakeEvent("STOP")
  /\ Accepts("cancel", Machine(Head(events).depl))
  /\ sm' = [sm EXCEPT ![Head(events).depl] = "CANCELLED"]
  /\ Handle("stopping", Known)
  /\ UNCHANGED <<pending, commands>>

(* handle_stop_deployment_event: cancel, and a stop for every agent known. *)
HandleStop ==
  /\ TakeEvent("STOP")
  /\ Fire(Events, "cancel", Head(events).depl)
  /\ Handle("stopping", Known)
  /\ UNCHANGED commands

(* cancel raises: the task group cancels the stops it has not yet sent.    *)
HandleStopRaises ==
  /\ TakeEvent("STOP")
  /\ Refuse("cancel", Head(events).depl)
  /\ \E S \in SUBSET Known : PublishCommands("STOP", Head(events).depl, S)
  /\ UNCHANGED handler

(* handle_restart_operator_event: the agents that report the deployment    *)
(* and, among their operators, one the operators' keys show for it.        *)
HandleRestart ==
  /\ TakeEvent("OPERATOR_RESTART")
  /\ \E S \in SUBSET {a \in Known : store[a].depl = Head(events).depl} :
       S # {} /\ Handle("restarting", S)
  /\ UNCHANGED <<sm, pending, commands>>

(* No operator of that id, or no agent that runs one.                      *)
HandleRestartRaises ==
  /\ TakeEvent("OPERATOR_RESTART")
  /\ RejectEvent
  /\ UNCHANGED commands

(* The commands of one task group reach the stream one by one.             *)
SendCommands(pc, type) ==
  /\ handler.pc = pc
  /\ \E S \in SUBSET handler.targets :
       /\ S # {}
       /\ PublishCommands(type, handler.ev.depl, S)
       /\ handler' = [handler EXCEPT !.targets = @ \ S,
                        !.pc = IF pc = "assigned" /\ S = handler.targets
                               THEN "recording" ELSE @]
  /\ UNCHANGED <<events, retained, assigned, updates, lastUpdate, kv, watching,
                 watch, boot, replay, sm, pending, store, tracker, watcher>>

(* Mutant of SendStarts: the commands do not wait for the update.          *)
SendStartsAtOnce == SendCommands("assigned", "START")

SendStarts   == Published(Events) /\ SendCommands("assigned", "START")
SendStops    == SendCommands("stopping", "STOP")
SendRestarts == SendCommands("restarting", "RESTART_OPERATOR")

(* The handler is back at its loop and the message is acknowledged, or     *)
(* rejected after an exception: either way it is not delivered again.      *)
EventDone ==
  /\ handler.pc \in {"recording", "rejecting", "stopping", "restarting"}
  /\ handler.targets = {}
  /\ Published(Events)
  /\ handler' = IdleHandler
  /\ assigned' = IF handler.pc = "recording"
                 THEN assigned \cup {handler.ev.depl} ELSE assigned
  /\ UNCHANGED <<events, retained, updates, lastUpdate, commands, kv, watching,
                 watch, boot, replay, sm, pending, store, tracker, watcher>>

(* A publish of the handler raises (no answer in time): the message is     *)
(* rejected and what was still to be done is not.                          *)
EventFails ==
  /\ handler.pc # "idle"
  /\ handler' = IdleHandler
  /\ pending' = [pending EXCEPT ![Events] = None]
  /\ UNCHANGED <<streamVars, boot, replay, sm, store, tracker, watcher>>

------------------------------------------------------------------------------
(* Entries: one entry of the watch at a time, once the state is ready.     *)
TakeEntry(a) ==
  /\ boot = "ready"
  /\ watcher.pc = "idle"
  /\ Published(Entries)
  /\ watch[a] # <<>>
  /\ watch' = [watch EXCEPT ![a] = Tail(@)]
  /\ store' = [store EXCEPT ![a] = Head(watch[a])]
  /\ UNCHANGED <<events, retained, assigned, updates, lastUpdate, commands, kv,
                 watching, boot, replay, handler>>

(* Mutant of StatusTrigger: a deployment runs when its operators start.    *)
EarlyStatusTrigger ==
  [OPERATORS_STARTING |-> "start",
   DEPLOYMENT_ERROR   |-> "agent_failure",
   SHUTTING_DOWN      |-> "cancel"]

StatusTrigger ==
  [DEPLOYMENT_RUNNING |-> "start",
   DEPLOYMENT_ERROR   |-> "agent_failure",
   SHUTTING_DOWN      |-> "cancel"]

(* Mutant of Report: the link is kept when the agent reports no deployment. *)
ReportKeepsLink(a, val, old) ==
  LET link == IF val.depl \notin {old.depl, None} THEN val.depl
              ELSE IF tracker[a] = Absent THEN None ELSE tracker[a]
  IN /\ tracker' = [tracker EXCEPT ![a] = link]
     /\ IF link = None \/ val.status = old.status
           \/ val.status \notin DOMAIN StatusTrigger
        THEN UNCHANGED <<sm, pending>>
        ELSE \/ Fire(Entries, StatusTrigger[val.status], link)
             \/ Refuse(StatusTrigger[val.status], link)

(* The rest of AgentTracker.update once the old deployment is dealt with:  *)
(* link the new one (its machine is created), then the status' trigger.    *)
Report(a, val, old) ==
  LET link == IF val.depl # old.depl THEN val.depl
              ELSE IF tracker[a] = Absent THEN None ELSE tracker[a]
      fires == /\ val.status # old.status
               /\ val.status \in DOMAIN StatusTrigger
  IN /\ tracker' = [tracker EXCEPT ![a] = link]
     /\ IF link = None THEN UNCHANGED <<sm, pending>>
        ELSE IF ~fires THEN Touch(link)
        ELSE \/ Fire(Entries, StatusTrigger[val.status], link)
             \/ Refuse(StatusTrigger[val.status], link)

(* Mutant of Replaces: only an agent without a deployment ends the old one. *)
ReplacesByNone(val, old) ==
  /\ old.depl # None
  /\ val.depl = None
  /\ Machine(old.depl) \notin Terminal

(* The value names another deployment than the one before it, or none, and *)
(* the one before is not over.                                             *)
Replaces(val, old) ==
  /\ old.depl # None
  /\ val.depl # old.depl
  /\ Machine(old.depl) \notin Terminal

(* agent_entry of a value whose deployment replaces one that is not over:  *)
(* the old one is cancelled first.                                         *)
CancelReplaced(a) ==
  /\ TakeEntry(a)
  /\ LET val == Head(watch[a]) old == store[a] IN
     /\ val # None /\ old # None
     /\ Replaces(val, old)
     /\ Fire(Entries, "cancel", old.depl)
     /\ watcher' = [pc |-> "relinking", agent |-> a, val |-> val, old |-> old]
  /\ UNCHANGED tracker

Relink ==
  /\ watcher.pc = "relinking"
  /\ Published(Entries)
  /\ Report(watcher.agent, watcher.val, watcher.old)
  /\ watcher' = IdleWatcher
  /\ UNCHANGED <<streamVars, boot, replay, store, handler>>

(* agent_entry of the first value of an agent: a tracker without a         *)
(* deployment, and no trigger.                                             *)
FirstEntry(a) ==
  /\ TakeEntry(a)
  /\ Head(watch[a]) # None /\ store[a] = None
  /\ tracker' = [tracker EXCEPT ![a] = IF @ = Absent THEN None ELSE @]
  /\ UNCHANGED <<sm, pending, watcher>>

(* agent_entry of any other value.                                         *)
UpdateEntry(a) ==
  /\ TakeEntry(a)
  /\ LET val == Head(watch[a]) old == store[a] IN
     /\ val # None /\ old # None
     /\ ~Replaces(val, old)
     /\ Report(a, val, old)
  /\ UNCHANGED watcher

(* Mutant of DeletedEntry: the tracker goes and its deployment stays.      *)
DeletedEntryDrops(a) ==
  /\ TakeEntry(a)
  /\ Head(watch[a]) = None
  /\ tracker' = [tracker EXCEPT ![a] = Absent]
  /\ UNCHANGED <<sm, pending, watcher>>

(* agent_entry of a deletion: the tracker's deployment, unless it is over, *)
(* is cancelled, and only then the tracker is dropped.                     *)
DeletedEntry(a) ==
  /\ TakeEntry(a)
  /\ Head(watch[a]) = None
  /\ IF tracker[a] \in Deployments /\ Machine(tracker[a]) \notin Terminal
     THEN /\ Fire(Entries, "cancel", tracker[a])
          /\ watcher' = [pc |-> "forgetting", agent |-> a]
          /\ UNCHANGED tracker
     ELSE /\ tracker' = [tracker EXCEPT ![a] = Absent]
          /\ UNCHANGED <<sm, pending, watcher>>

Forget ==
  /\ watcher.pc = "forgetting"
  /\ Published(Entries)
  /\ tracker' = [tracker EXCEPT ![watcher.agent] = Absent]
  /\ watcher' = IdleWatcher
  /\ UNCHANGED <<streamVars, boot, replay, sm, pending, store, handler>>

(* The publish of a trigger raises in the watch's handler: the entry is    *)
(* not looked at again, whatever was still to be done for it.              *)
EntryFails ==
  /\ ~Published(Entries)
  /\ pending' = [pending EXCEPT ![Entries] = None]
  /\ watcher' = IdleWatcher
  /\ UNCHANGED <<streamVars, boot, replay, sm, store, tracker, handler>>

------------------------------------------------------------------------------
(* Startup: the subscriptions exist before the replay begins.              *)
Start ==
  /\ boot = "down"
  /\ boot' = "replaying"
  /\ watching' = TRUE
  /\ watch' = [a \in Agents |-> IF kv[a] = None THEN <<>> ELSE <<kv[a]>>]
  /\ UNCHANGED <<events, retained, assigned, updates, lastUpdate, commands, kv,
                 replay, sm, pending, store, tracker, handler, watcher>>

(* The deployments the replay finds on the stream; a restart request is    *)
(* not among the messages it keeps.                                        *)
Seen == {d \in Deployments : \/ retained[d] \in {"RUN", "STOP"}
                             \/ lastUpdate[d] # None
                             \/ d \in assigned}

(* _replay_and_cleanup_deployments, once no message has come for a while.  *)
(* Only a running deployment gets a machine that is kept; the others'      *)
(* machines publish their last update and are forgotten.                   *)
Replay ==
  /\ boot = "replaying"
  /\ boot' = "cleaning"
  /\ LET running == {d \in Seen : lastUpdate[d] = "RUNNING"} IN
     /\ sm' = [d \in Deployments |-> IF d \in running THEN "RUNNING" ELSE sm[d]]
     /\ pending' = [t \in Tasks |->
          IF pending[t] # None /\ pending[t].depl \in running
          THEN [pending[t] EXCEPT !.stored = FALSE] ELSE pending[t]]
     /\ replay' = [d \in Deployments |->
          IF d \notin Seen \/ d \in running \/ lastUpdate[d] \in Terminal THEN None
          ELSE IF lastUpdate[d] = None THEN "FAILED_TO_START" ELSE "CANCELLED"]
  /\ UNCHANGED <<streamVars, store, tracker, handler, watcher>>

CleanUp(d) ==
  /\ boot = "cleaning"
  /\ replay[d] # None
  /\ PublishUpdate(d, replay[d])
  /\ replay' = [replay EXCEPT ![d] = None]
  /\ UNCHANGED <<events, retained, assigned, commands, kv, watching, watch,
                 boot, sm, pending, store, tracker, handler, watcher>>

Ready ==
  /\ boot = "cleaning"
  /\ \A d \in Deployments : replay[d] = None
  /\ boot' = "ready"
  /\ UNCHANGED <<streamVars, replay, sm, pending, store, tracker, handler, watcher>>

(* The process dies.  The durable consumer delivers the message that was   *)
(* being handled again, when its acknowledgement is overdue: other         *)
(* messages may come first.                                                *)
Crash ==
  /\ boot # "down"
  /\ boot' = "down"
  /\ NoMemory
  /\ IF handler.pc = "idle" THEN UNCHANGED events
     ELSE \E i \in 0 .. Len(events) :
            events' = SubSeq(events, 1, i) \o <<handler.ev>>
                      \o SubSeq(events, i + 1, Len(events))
  /\ watching' = FALSE
  /\ watch' = [a \in Agents |-> <<>>]
  /\ UNCHANGED <<retained, assigned, updates, lastUpdate, commands, kv>>

------------------------------------------------------------------------------
EventStep ==
  \/ HandleRun \/ HandleRunRaises \/ HandleStop \/ HandleStopRaises
  \/ HandleRestart \/ HandleRestartRaises
  \/ SendStarts \/ SendStops \/ SendRestarts \/ EventDone

EntryStep(a) ==
  FirstEntry(a) \/ CancelReplaced(a) \/ UpdateEntry(a) \/ DeletedEntry(a)

StartupStep == Start \/ Replay \/ Ready \/ \E d \in Deployments : CleanUp(d)

OrchestratorStep ==
  \/ EventStep
  \/ \E a \in Agents : EntryStep(a)
  \/ Relink \/ Forget
  \/ \E t \in Tasks : Publish(t)
  \/ StartupStep
==============================================================================
