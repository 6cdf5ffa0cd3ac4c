------------------------------- MODULE Streams -------------------------------
(***************************************************************************)
(* What the app, the orchestrator and the agents share through NATS: the   *)
(* subjects of the DEPLOYMENTS stream and the agents' keys of the STATUS   *)
(* bucket.  A consumer is the sequence of the messages it has not taken;   *)
(* what a later reader of the stream finds (LAST_PER_SUBJECT) is kept      *)
(* beside it.                                                              *)
(***************************************************************************)
EXTENDS Naturals, Sequences, DeploymentMachine

CONSTANTS Deployments, Agents,
          None       \* no deployment, no value, no message

ASSUME NoneAssumption ==
  None \notin Deployments \cup Agents \cup States

VARIABLES
  events,      \* depl.pipe.<id>, not yet taken by the orchestrator's durable consumer
  retained,    \* type of the last message on depl.pipe.<id>
  assigned,    \* deployments with a message on depl.pipe.<id>.asgn
  updates,     \* depl.pipe.<id>.upd, not yet taken by the app
  lastUpdate,  \* the last message on depl.pipe.<id>.upd
  commands,    \* depl.agent.<id>, not yet taken by the agent
  kv,          \* agents.<id> of the STATUS bucket
  watching,    \* the orchestrator's watch on agents.> exists
  watch        \* entries the watch has not handed over

streamVars ==
  <<events, retained, assigned, updates, lastUpdate, commands, kv, watching, watch>>

EventTypes == {"RUN", "STOP", "OPERATOR_RESTART"}
CommandTypes == {"START", "STOP", "RESTART_OPERATOR"}
Event == [type : EventTypes, depl : Deployments]
Command == [type : CommandTypes, depl : Deployments]
Update == [depl : Deployments, state : States]

AgentStatuses ==
  {"IDLE", "CLEANING_OPERATORS", "OPERATORS_STARTING", "DEPLOYMENT_RUNNING",
   "DEPLOYMENT_ERROR", "SHUTTING_DOWN"}

(* The part of AgentVal the orchestrator acts on.                          *)
AgentVal == [status : AgentStatuses, depl : Deployments \cup {None}]

(* A watch entry: a value, or None for DEL, PURGE and the empty value of   *)
(* an expired key.                                                         *)
Entry == AgentVal \cup {None}

ASSUME ValueAssumption == None \notin AgentVal /\ None \notin EventTypes

StreamsTypeOK ==
  /\ events \in Seq(Event)
  /\ retained \in [Deployments -> EventTypes \cup {None}]
  /\ assigned \in SUBSET Deployments
  /\ updates \in Seq(Update)
  /\ lastUpdate \in [Deployments -> States \cup {None}]
  /\ commands \in [Agents -> Seq(Command)]
  /\ kv \in [Agents -> Entry]
  /\ watching \in BOOLEAN
  /\ watch \in [Agents -> Seq(Entry)]

StreamsInit ==
  /\ events = <<>>
  /\ retained = [d \in Deployments |-> None]
  /\ assigned = {}
  /\ updates = <<>>
  /\ lastUpdate = [d \in Deployments |-> None]
  /\ commands = [a \in Agents |-> <<>>]
  /\ kv = [a \in Agents |-> None]
  /\ watching = TRUE
  /\ watch = [a \in Agents |-> <<>>]

------------------------------------------------------------------------------
(* An event of the app for the orchestrator.                               *)
PublishEvent(type, d) ==
  /\ events' = Append(events, [type |-> type, depl |-> d])
  /\ retained' = [retained EXCEPT ![d] = type]

PublishUpdate(d, s) ==
  /\ updates' = Append(updates, [depl |-> d, state |-> s])
  /\ lastUpdate' = [lastUpdate EXCEPT ![d] = s]

(* One command per agent of S.                                             *)
PublishCommands(type, d, S) ==
  commands' = [a \in Agents |->
    IF a \in S THEN Append(commands[a], [type |-> type, depl |-> d])
               ELSE commands[a]]

(* A put or a delete (v = None) of the agent's key; the watch, while there *)
(* is one, is told.                                                        *)
SetKey(a, v) ==
  /\ kv' = [kv EXCEPT ![a] = v]
  /\ watch' = IF watching THEN [watch EXCEPT ![a] = Append(@, v)] ELSE watch

(* The bucket keeps one revision of a key: an entry the watch has not been *)
(* handed yet is gone once a newer one is written.                         *)
Supersede(a) ==
  /\ Len(watch[a]) > 1
  /\ watch' = [watch EXCEPT ![a] = Tail(@)]
  /\ UNCHANGED <<events, retained, assigned, updates, lastUpdate, commands,
                 kv, watching>>
==============================================================================
