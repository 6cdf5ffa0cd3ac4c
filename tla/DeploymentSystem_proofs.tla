------------------------ MODULE DeploymentSystem_proofs ------------------------
(***************************************************************************)
(* The composed system, for any number of deployments and agents and any   *)
(* budget of requests, crashes and failures, where a theorem does not      *)
(* exclude some.  First the types, what is announced before it is assigned,*)
(* and what the trackers say of the agents.  Then that the published states*)
(* move forward, that deployments that were given up are not started, and  *)
(* that the system implements Lifecycle.  Then what users ask for: no run  *)
(* request is left pending, and what was stopped is served by no agent.    *)
(* Last what the state machines, the stream of updates and the database    *)
(* agree on when all is quiet, and that one deployment at a time stays     *)
(* assigned or running.                                                    *)
(***************************************************************************)
EXTENDS DeploymentSystem, SequenceTheorems, TLAPS

(* The operators of the machine's table return states.                     *)
LEMMA MachineTypes ==
  /\ Terminal \subseteq States
  /\ \A t \in Triggers : Sources[t] \subseteq States /\ Destination[t] \in States
  /\ \A t \in Triggers, s \in States : Target(t, s) \in States
BY DEF Terminal, Triggers, Sources, Destination, Target, States

(* The messages of the stream and the entries of the keys keep their types. *)
LEMMA PublishUpdateType ==
  ASSUME StreamsTypeOK, NEW d \in Deployments, NEW s \in States, PublishUpdate(d, s)
  PROVE  /\ updates' \in Seq(Update)
         /\ lastUpdate' \in [Deployments -> States \cup {None}]
BY DEF StreamsTypeOK, PublishUpdate, Update

LEMMA PublishCommandsType ==
  ASSUME StreamsTypeOK, NEW d \in Deployments, NEW type \in CommandTypes,
         NEW S \in SUBSET Agents, PublishCommands(type, d, S)
  PROVE  commands' \in [Agents -> Seq(Command)]
<1>1. [type |-> type, depl |-> d] \in Command
  BY DEF Command
<1>2. ASSUME NEW a \in Agents
      PROVE  /\ commands[a] \in Seq(Command)
             /\ Append(commands[a], [type |-> type, depl |-> d]) \in Seq(Command)
  BY <1>1, AppendProperties DEF StreamsTypeOK
<1>3. QED
  BY <1>2 DEF PublishCommands

LEMMA SetKeyType ==
  ASSUME StreamsTypeOK, NEW a \in Agents, NEW v \in Entry, SetKey(a, v)
  PROVE  kv' \in [Agents -> Entry] /\ watch' \in [Agents -> Seq(Entry)]
BY DEF StreamsTypeOK, SetKey

LEMMA PublishEventType ==
  ASSUME StreamsTypeOK, NEW d \in Deployments, NEW type \in EventTypes,
         PublishEvent(type, d)
  PROVE  /\ events' \in Seq(Event)
         /\ retained' \in [Deployments -> EventTypes \cup {None}]
BY DEF StreamsTypeOK, PublishEvent, Event

------------------------------------------------------------------------------
LEMMA MachineType ==
  ASSUME OrchestratorTypeOK, NEW d \in Deployments
  PROVE  Machine(d) \in States
BY NoneAssumption DEF OrchestratorTypeOK, Machine, States

LEMMA FireType ==
  ASSUME OrchestratorTypeOK, NEW k \in Tasks, NEW t \in Triggers,
         NEW d \in Deployments, Fire(k, t, d)
  PROVE  /\ sm' \in [Deployments -> States \cup {None}]
         /\ pending' \in [Tasks -> Publication \cup {None}]
<1>1. Target(t, Machine(d)) \in States
  BY MachineType, MachineTypes
<1>2. QED
  BY <1>1 DEF OrchestratorTypeOK, Fire, Publication

LEMMA TouchType ==
  ASSUME OrchestratorTypeOK, NEW d \in Deployments, Touch(d)
  PROVE  /\ sm' \in [Deployments -> States \cup {None}]
         /\ pending' \in [Tasks -> Publication \cup {None}]
BY MachineType DEF OrchestratorTypeOK, Touch

LEMMA RefuseType ==
  ASSUME OrchestratorTypeOK, NEW d \in Deployments, NEW t, Refuse(t, d)
  PROVE  /\ sm' \in [Deployments -> States \cup {None}]
         /\ pending' \in [Tasks -> Publication \cup {None}]
BY TouchType DEF Refuse
------------------------------------------------------------------------------
(* Events takes the head of the stream.                                    *)
LEMMA TakeEventType ==
  ASSUME StreamsTypeOK, NEW type, TakeEvent(type)
  PROVE  /\ Head(events) \in Event
         /\ Head(events).depl \in Deployments
         /\ events' \in Seq(Event)
<1>1. events \in Seq(Event) /\ events # <<>> /\ events' = Tail(events)
  BY DEF StreamsTypeOK, TakeEvent
<1>2. Head(events) \in Event /\ Tail(events) \in Seq(Event)
  BY <1>1, HeadTailProperties
<1>3. QED
  BY <1>1, <1>2 DEF Event

LEMMA HandleType ==
  ASSUME NEW pc \in {"assigned", "recording", "rejecting", "stopping", "restarting"},
         NEW S \in SUBSET Agents, Head(events) \in Event, Handle(pc, S)
  PROVE  handler' \in BusyHandler
BY DEF Handle, BusyHandler

(* The part of the orchestrator's state that an event step may change.     *)
LEMMA EventStepType ==
  ASSUME StreamsTypeOK, OrchestratorTypeOK, EventStep
  PROVE  StreamsTypeOK' /\ OrchestratorTypeOK'
<1>. DEFINE ev == Head(events)
<1>. USE DEF Triggers, Tasks
<1>1. Known \subseteq Agents /\ Events \in Tasks
  BY DEF Known
<1>2. ASSUME Head(events) \in Event, ev.depl \in Deployments, RejectEvent
      PROVE  /\ sm' \in [Deployments -> States \cup {None}]
             /\ pending' \in [Tasks -> Publication \cup {None}]
             /\ handler' \in BusyHandler \cup {IdleHandler}
  <2>1. CASE Fire(Events, "start_failure", ev.depl) /\ Handle("rejecting", {})
    BY <1>1, <1>2, <2>1, FireType, HandleType
  <2>2. CASE Refuse("start_failure", ev.depl) /\ UNCHANGED handler
    BY <1>2, <2>2, RefuseType DEF OrchestratorTypeOK
  <2>3. QED
    BY <1>2, <2>1, <2>2 DEF RejectEvent
<1>3. CASE HandleRun
  <2>1. /\ ev \in Event /\ ev.depl \in Deployments /\ events' \in Seq(Event)
    BY <1>3, TakeEventType DEF HandleRun
  <2>2. /\ sm' \in [Deployments -> States \cup {None}]
        /\ pending' \in [Tasks -> Publication \cup {None}]
        /\ handler' \in BusyHandler \cup {IdleHandler}
    <3>1. CASE Fire(Events, "assign", ev.depl) /\ Handle("assigned", Known)
      BY <1>1, <2>1, <3>1, FireType, HandleType
    <3>2. CASE Refuse("assign", ev.depl) /\ UNCHANGED handler
      BY <2>1, <3>2, RefuseType DEF OrchestratorTypeOK
    <3>3. QED
      BY <1>3, <3>1, <3>2 DEF HandleRun
  <2>3. QED
    BY <1>3, <2>1, <2>2 DEF HandleRun, TakeEvent, StreamsTypeOK, OrchestratorTypeOK
<1>4. CASE HandleRunRaises
  BY <1>2, <1>4, TakeEventType
  DEF HandleRunRaises, TakeEvent, StreamsTypeOK, OrchestratorTypeOK
<1>5. CASE HandleStop
  <2>1. /\ ev \in Event /\ ev.depl \in Deployments /\ events' \in Seq(Event)
    BY <1>5, TakeEventType DEF HandleStop
  <2>2. /\ sm' \in [Deployments -> States \cup {None}]
        /\ pending' \in [Tasks -> Publication \cup {None}]
        /\ handler' \in BusyHandler
    BY <1>1, <1>5, <2>1, FireType, HandleType DEF HandleStop
  <2>3. QED
    BY <1>5, <2>1, <2>2 DEF HandleStop, TakeEvent, StreamsTypeOK, OrchestratorTypeOK
<1>6. CASE HandleStopRaises
  <2>1. /\ ev \in Event /\ ev.depl \in Deployments /\ events' \in Seq(Event)
    BY <1>6, TakeEventType DEF HandleStopRaises
  <2>2. /\ sm' \in [Deployments -> States \cup {None}]
        /\ pending' \in [Tasks -> Publication \cup {None}]
    BY <1>6, <2>1, RefuseType DEF HandleStopRaises
  <2>3. commands' \in [Agents -> Seq(Command)]
    <3>1. PICK S \in SUBSET Known : PublishCommands("STOP", ev.depl, S)
      BY <1>6 DEF HandleStopRaises
    <3>2. QED
      BY <1>1, <2>1, <3>1, PublishCommandsType DEF CommandTypes
  <2>4. QED
    BY <1>6, <2>1, <2>2, <2>3
    DEF HandleStopRaises, TakeEvent, StreamsTypeOK, OrchestratorTypeOK
<1>7. CASE HandleRestart
  <2>1. /\ ev \in Event /\ ev.depl \in Deployments /\ events' \in Seq(Event)
    BY <1>7, TakeEventType DEF HandleRestart
  <2>2. handler' \in BusyHandler
    BY <1>1, <1>7, <2>1, HandleType DEF HandleRestart
  <2>3. QED
    BY <1>7, <2>1, <2>2 DEF HandleRestart, TakeEvent, StreamsTypeOK, OrchestratorTypeOK
<1>8. CASE HandleRestartRaises
  BY <1>2, <1>8, TakeEventType
  DEF HandleRestartRaises, TakeEvent, StreamsTypeOK, OrchestratorTypeOK
<1>9. ASSUME NEW pc \in {"assigned", "stopping", "restarting"},
             NEW type \in CommandTypes, SendCommands(pc, type)
      PROVE  StreamsTypeOK' /\ OrchestratorTypeOK'
  <2>1. handler \in BusyHandler
    BY <1>9 DEF SendCommands, OrchestratorTypeOK, IdleHandler
  <2>2. PICK S \in SUBSET handler.targets :
          /\ PublishCommands(type, handler.ev.depl, S)
          /\ handler' = [handler EXCEPT !.targets = @ \ S,
                           !.pc = IF pc = "assigned" /\ S = handler.targets
                                  THEN "recording" ELSE @]
    BY <1>9 DEF SendCommands
  <2>3. commands' \in [Agents -> Seq(Command)]
    BY <2>1, <2>2, PublishCommandsType DEF BusyHandler, Event
  <2>4. handler' \in BusyHandler
    BY <2>1, <2>2 DEF BusyHandler
  <2>5. QED
    BY <1>9, <2>3, <2>4 DEF SendCommands, StreamsTypeOK, OrchestratorTypeOK
<1>10. CASE SendStarts \/ SendStops \/ SendRestarts
  BY <1>9, <1>10 DEF SendStarts, SendStops, SendRestarts, CommandTypes
<1>11. CASE EventDone
  <2>1. handler \in BusyHandler
    BY <1>11 DEF EventDone, OrchestratorTypeOK, IdleHandler
  <2>2. QED
    BY <1>11, <2>1
    DEF EventDone, StreamsTypeOK, OrchestratorTypeOK, BusyHandler, Event
<1>12. QED
  BY <1>3, <1>4, <1>5, <1>6, <1>7, <1>8, <1>10, <1>11 DEF EventStep
------------------------------------------------------------------------------
(* Entries takes the head of an agent's entries.                           *)
LEMMA TakeEntryType ==
  ASSUME StreamsTypeOK, OrchestratorTypeOK, NEW a \in Agents, TakeEntry(a)
  PROVE  /\ Head(watch[a]) \in Entry
         /\ watch' \in [Agents -> Seq(Entry)]
         /\ store' \in [Agents -> Entry]
<1>1. watch[a] \in Seq(Entry) /\ watch[a] # <<>>
  BY DEF StreamsTypeOK, TakeEntry
<1>2. Head(watch[a]) \in Entry /\ Tail(watch[a]) \in Seq(Entry)
  BY <1>1, HeadTailProperties
<1>3. QED
  BY <1>2 DEF StreamsTypeOK, OrchestratorTypeOK, TakeEntry

LEMMA ReportType ==
  ASSUME OrchestratorTypeOK, NEW a \in Agents, NEW val \in AgentVal,
         NEW old \in AgentVal, Report(a, val, old)
  PROVE  /\ tracker' \in [Agents -> Deployments \cup {None, Absent}]
         /\ sm' \in [Deployments -> States \cup {None}]
         /\ pending' \in [Tasks -> Publication \cup {None}]
<1>. DEFINE link == IF val.depl # old.depl THEN val.depl
                    ELSE IF tracker[a] = Absent THEN None ELSE tracker[a]
            fires == /\ val.status # old.status
                     /\ val.status \in DOMAIN StatusTrigger
<1>1. link \in Deployments \cup {None}
  BY DEF AgentVal, OrchestratorTypeOK
<1>2. tracker' = [tracker EXCEPT ![a] = link]
  BY DEF Report
<1>3. /\ sm' \in [Deployments -> States \cup {None}]
      /\ pending' \in [Tasks -> Publication \cup {None}]
  <2>1. CASE link = None
    BY <2>1 DEF Report, OrchestratorTypeOK
  <2>2. CASE link # None /\ ~fires
    BY <1>1, <2>2, TouchType DEF Report
  <2>3. CASE link # None /\ fires
    <3>1. StatusTrigger[val.status] \in Triggers
      BY <2>3 DEF StatusTrigger, Triggers
    <3>2. \/ Fire(Entries, StatusTrigger[val.status], link)
          \/ Refuse(StatusTrigger[val.status], link)
      BY <2>3 DEF Report
    <3>3. Entries \in Tasks /\ link \in Deployments
      BY <1>1, <2>3 DEF Tasks
    <3>4. QED
      BY <3>1, <3>2, <3>3, FireType, RefuseType
  <2>4. QED
    BY <2>1, <2>2, <2>3
<1>4. QED
  BY <1>1, <1>2, <1>3 DEF OrchestratorTypeOK

LEMMA EntryStepType ==
  ASSUME StreamsTypeOK, OrchestratorTypeOK, NEW a \in Agents, EntryStep(a)
  PROVE  StreamsTypeOK' /\ OrchestratorTypeOK'
<1>. DEFINE val == Head(watch[a])
            old == store[a]
<1>1. old \in Entry /\ (old # None => old \in AgentVal)
  BY DEF OrchestratorTypeOK, Entry
<1>2. ASSUME TakeEntry(a)
      PROVE  /\ StreamsTypeOK'
             /\ val \in Entry /\ (val # None => val \in AgentVal)
             /\ store' \in [Agents -> Entry]
             /\ UNCHANGED <<boot, replay, handler>>
  BY <1>2, TakeEntryType DEF StreamsTypeOK, TakeEntry, Entry
<1>3. CASE FirstEntry(a)
  BY <1>2, <1>3 DEF FirstEntry, OrchestratorTypeOK
<1>4. CASE CancelReplaced(a)
  <2>1. /\ val \in AgentVal /\ old \in AgentVal
        /\ old.depl \in Deployments
        /\ Fire(Entries, "cancel", old.depl)
        /\ watcher' = [pc |-> "relinking", agent |-> a, val |-> val, old |-> old]
        /\ UNCHANGED tracker
    BY <1>1, <1>2, <1>4 DEF CancelReplaced, Replaces, AgentVal
  <2>2. watcher' \in Relinking
    BY <2>1 DEF Relinking
  <2>3. /\ sm' \in [Deployments -> States \cup {None}]
        /\ pending' \in [Tasks -> Publication \cup {None}]
    BY <2>1, FireType DEF Tasks, Triggers
  <2>4. QED
    BY <1>2, <1>4, <2>1, <2>2, <2>3 DEF CancelReplaced, OrchestratorTypeOK
<1>5. CASE UpdateEntry(a)
  <2>1. val \in AgentVal /\ old \in AgentVal /\ Report(a, val, old)
    BY <1>1, <1>2, <1>5 DEF UpdateEntry
  <2>2. QED
    BY <1>2, <1>5, <2>1, ReportType DEF UpdateEntry, OrchestratorTypeOK
<1>6. CASE DeletedEntry(a)
  <2>1. CASE tracker[a] \in Deployments /\ Machine(tracker[a]) \notin Terminal
    <3>1. /\ Fire(Entries, "cancel", tracker[a])
          /\ watcher' = [pc |-> "forgetting", agent |-> a]
          /\ UNCHANGED tracker
      BY <1>6, <2>1 DEF DeletedEntry
    <3>2. /\ sm' \in [Deployments -> States \cup {None}]
          /\ pending' \in [Tasks -> Publication \cup {None}]
      BY <2>1, <3>1, FireType DEF Tasks, Triggers
    <3>3. watcher' \in Forgetting
      BY <3>1 DEF Forgetting
    <3>4. QED
      BY <1>2, <1>6, <3>1, <3>2, <3>3 DEF DeletedEntry, OrchestratorTypeOK
  <2>2. CASE ~(tracker[a] \in Deployments /\ Machine(tracker[a]) \notin Terminal)
    BY <1>2, <1>6, <2>2 DEF DeletedEntry, OrchestratorTypeOK
  <2>3. QED
    BY <2>1, <2>2
<1>7. QED
  BY <1>3, <1>4, <1>5, <1>6 DEF EntryStep

LEMMA RelinkForgetType ==
  ASSUME StreamsTypeOK, OrchestratorTypeOK, Relink \/ Forget
  PROVE  StreamsTypeOK' /\ OrchestratorTypeOK'
<1>1. CASE Relink
  <2>1. watcher \in Relinking
    BY <1>1 DEF Relink, OrchestratorTypeOK, Forgetting, IdleWatcher
  <2>2. /\ watcher.agent \in Agents /\ watcher.val \in AgentVal
        /\ watcher.old \in AgentVal
        /\ Report(watcher.agent, watcher.val, watcher.old)
    BY <1>1, <2>1 DEF Relink, Relinking
  <2>3. QED
    BY <1>1, <2>2, ReportType
    DEF Relink, streamVars, StreamsTypeOK, OrchestratorTypeOK
<1>2. CASE Forget
  BY <1>2 DEF Forget, streamVars, StreamsTypeOK, OrchestratorTypeOK
<1>3. QED
  BY <1>1, <1>2

LEMMA PublishType ==
  ASSUME StreamsTypeOK, OrchestratorTypeOK, NEW t \in Tasks, Publish(t)
  PROVE  StreamsTypeOK' /\ OrchestratorTypeOK'
<1>1. pending[t].depl \in Deployments /\ pending[t].state \in States
  BY DEF Publish, OrchestratorTypeOK, Publication
<1>2. QED
  BY <1>1, PublishUpdateType DEF Publish, StreamsTypeOK, OrchestratorTypeOK

------------------------------------------------------------------------------
LEMMA StartupStepType ==
  ASSUME StreamsTypeOK, OrchestratorTypeOK, StartupStep
  PROVE  StreamsTypeOK' /\ OrchestratorTypeOK'
<1>1. CASE Start
  <2>1. watch' \in [Agents -> Seq(Entry)]
    BY <1>1 DEF Start, StreamsTypeOK
  <2>2. QED
    BY <1>1, <2>1 DEF Start, StreamsTypeOK, OrchestratorTypeOK
<1>2. CASE Replay
  <2>1. sm' \in [Deployments -> States \cup {None}]
    BY <1>2 DEF Replay, OrchestratorTypeOK, States
  <2>2. pending' \in [Tasks -> Publication \cup {None}]
    BY <1>2 DEF Replay, OrchestratorTypeOK, Publication
  <2>3. replay' \in [Deployments -> States \cup {None}]
    BY <1>2 DEF Replay, OrchestratorTypeOK, States
  <2>4. QED
    BY <1>2, <2>1, <2>2, <2>3
    DEF Replay, streamVars, StreamsTypeOK, OrchestratorTypeOK
<1>3. ASSUME NEW d \in Deployments, CleanUp(d)
      PROVE  StreamsTypeOK' /\ OrchestratorTypeOK'
  <2>1. replay[d] \in States /\ PublishUpdate(d, replay[d])
    BY <1>3 DEF CleanUp, OrchestratorTypeOK
  <2>2. QED
    BY <1>3, <2>1, PublishUpdateType DEF CleanUp, StreamsTypeOK, OrchestratorTypeOK
<1>4. CASE Ready
  BY <1>4 DEF Ready, streamVars, StreamsTypeOK, OrchestratorTypeOK
<1>5. QED
  BY <1>1, <1>2, <1>3, <1>4 DEF StartupStep

LEMMA CrashType ==
  ASSUME StreamsTypeOK, OrchestratorTypeOK, Crash
  PROVE  StreamsTypeOK' /\ OrchestratorTypeOK'
<1>1. events' \in Seq(Event)
  <2>1. CASE handler.pc = "idle"
    BY <2>1 DEF Crash, StreamsTypeOK
  <2>2. CASE handler.pc # "idle"
    <3>1. PICK i \in 0 .. Len(events) :
            events' = SubSeq(events, 1, i) \o <<handler.ev>>
                      \o SubSeq(events, i + 1, Len(events))
      BY <2>2 DEF Crash
    <3>2. handler.ev \in Event
      BY <2>2 DEF OrchestratorTypeOK, IdleHandler, BusyHandler
    <3>3. events \in Seq(Event) /\ Len(events) \in Nat
      BY LenProperties DEF StreamsTypeOK
    <3>4. /\ SubSeq(events, 1, i) \in Seq(Event)
          /\ SubSeq(events, i + 1, Len(events)) \in Seq(Event)
      BY <3>3, SubSeqProperties
    <3>5. <<handler.ev>> \in Seq(Event)
      BY <3>2
    <3>6. SubSeq(events, 1, i) \o <<handler.ev>> \in Seq(Event)
      BY <3>4, <3>5, ConcatProperties
    <3>7. QED
      BY <3>1, <3>4, <3>6, ConcatProperties
  <2>3. QED
    BY <2>1, <2>2
<1>2. OrchestratorTypeOK'
  <2>1. /\ replay' = [d \in Deployments |-> None] /\ sm' = [d \in Deployments |-> None]
        /\ pending' = [t \in Tasks |-> None]
        /\ store' = [a \in Agents |-> None] /\ tracker' = [a \in Agents |-> Absent]
        /\ handler' = IdleHandler /\ watcher' = IdleWatcher /\ boot' = "down"
    BY DEF Crash, NoMemory
  <2>2. QED
    BY <2>1 DEF OrchestratorTypeOK, Entry
<1>3. watch' \in [Agents -> Seq(Entry)]
  BY DEF Crash
<1>4. QED
  BY <1>1, <1>2, <1>3 DEF Crash, StreamsTypeOK

LEMMA FailureType ==
  ASSUME StreamsTypeOK, OrchestratorTypeOK, EventFails \/ EntryFails
  PROVE  StreamsTypeOK' /\ OrchestratorTypeOK'
BY DEF EventFails, EntryFails, streamVars, StreamsTypeOK, OrchestratorTypeOK

(* Every step of the orchestrator, a crash and a failed publish included,  *)
(* keeps the types of the streams and of the orchestrator.                 *)
THEOREM OrchestratorTypes ==
  ASSUME StreamsTypeOK, OrchestratorTypeOK,
         OrchestratorStep \/ Crash \/ EventFails \/ EntryFails
  PROVE  StreamsTypeOK' /\ OrchestratorTypeOK'
BY EventStepType, EntryStepType, RelinkForgetType, PublishType, StartupStepType,
   CrashType, FailureType DEF OrchestratorStep

------------------------------------------------------------------------------
(* The agent becomes r, and puts its value or not.                         *)
Moves(a, r) ==
  \/ Become(a, r)
  \/ agent' = [agent EXCEPT ![a] = r] /\ UNCHANGED <<kv, watch>>

LEMMA ValueOfType == \A r \in AgentState : ValueOf(r) \in Entry
BY DEF ValueOf, AgentState, Entry, AgentVal

LEMMA MovesType ==
  ASSUME StreamsTypeOK, AgentsTypeOK, NEW a \in Agents, NEW r \in AgentState,
         Moves(a, r)
  PROVE  /\ AgentsTypeOK'
         /\ kv' \in [Agents -> Entry] /\ watch' \in [Agents -> Seq(Entry)]
<1>1. AgentsTypeOK'
  BY DEF Moves, Become, AgentsTypeOK
<1>2. CASE Become(a, r)
  BY <1>1, <1>2, ValueOfType, SetKeyType DEF Become
<1>3. CASE UNCHANGED <<kv, watch>>
  BY <1>1, <1>3 DEF StreamsTypeOK
<1>4. QED
  BY <1>2, <1>3 DEF Moves

(* What cancelling the running task, or waiting for it, makes of the agent. *)
LEMMA CancelAndWaitMoves ==
  ASSUME AgentsTypeOK, NEW a \in Agents,
         NEW goal \in {"stop", "start", "shutdown"},
         NEW next \in Deployments \cup {None}, CancelAndWait(a, goal, next)
  PROVE  \E r \in AgentState :
           Moves(a, r) /\ r.depl = agent[a].depl /\ r.next \in {agent[a].next, next}
<1>. DEFINE w == [agent[a] EXCEPT !.goal = goal, !.next = next]
            t == TearDown(w, goal)
<1>1. agent[a] \in AgentState
  BY DEF AgentsTypeOK
<1>2. w \in AgentState /\ w.depl = agent[a].depl /\ w.next = next
  BY <1>1 DEF AgentState
<1>3. t \in AgentState /\ t.depl = agent[a].depl /\ t.next = next
  BY <1>2 DEF TearDown, AgentState, Phases, AgentStatuses
<1>4. Moves(a, t) \/ Moves(a, w)
  BY DEF CancelAndWait, Moves
<1>5. QED
  BY <1>2, <1>3, <1>4

LEMMA TakeCommandType ==
  ASSUME StreamsTypeOK, NEW a \in Agents, NEW type, TakeCommand(a, type)
  PROVE  /\ Head(commands[a]) \in Command
         /\ commands' \in [Agents -> Seq(Command)]
<1>1. commands[a] \in Seq(Command) /\ commands[a] # <<>>
  BY DEF StreamsTypeOK, TakeCommand
<1>2. Head(commands[a]) \in Command /\ Tail(commands[a]) \in Seq(Command)
  BY <1>1, HeadTailProperties
<1>3. QED
  BY <1>2 DEF StreamsTypeOK, TakeCommand

(* What every step of an agent leaves alone.                               *)
LEMMA QuietType ==
  ASSUME StreamsTypeOK, Quiet, commands' \in [Agents -> Seq(Command)],
         kv' \in [Agents -> Entry], watch' \in [Agents -> Seq(Entry)]
  PROVE  StreamsTypeOK'
BY DEF StreamsTypeOK, Quiet

LEMMA CommandStepType ==
  ASSUME StreamsTypeOK, AgentsTypeOK, NEW a \in Agents, CommandStep(a)
  PROVE  StreamsTypeOK' /\ AgentsTypeOK'
<1>. DEFINE cmd == Head(commands[a])
<1>1. agent[a] \in AgentState
  BY DEF AgentsTypeOK
<1>2. ASSUME NEW type, TakeCommand(a, type)
      PROVE  /\ cmd.depl \in Deployments
             /\ commands' \in [Agents -> Seq(Command)] /\ Quiet
  BY <1>2, TakeCommandType DEF TakeCommand, Command
<1>3. ASSUME UNCHANGED <<kv, watch>>
      PROVE  kv' \in [Agents -> Entry] /\ watch' \in [Agents -> Seq(Entry)]
  BY <1>3 DEF StreamsTypeOK
<1>4. ASSUME NEW type, TakeCommand(a, type), NEW r \in AgentState, Moves(a, r)
      PROVE  StreamsTypeOK' /\ AgentsTypeOK'
  BY <1>2, <1>4, MovesType, QuietType
<1>5. CASE StartDeployment(a)
  <2>. DEFINE r == [agent[a] EXCEPT !.phase = "assigned", !.depl = cmd.depl]
  <2>1. Moves(a, r) /\ TakeCommand(a, "START")
    BY <1>5 DEF StartDeployment, Moves, AgentsTypeOK
  <2>2. r \in AgentState
    BY <1>1, <1>2, <2>1 DEF AgentState, Phases
  <2>3. QED
    BY <1>4, <2>1, <2>2
<1>6. CASE ReplaceDeployment(a)
  <2>1. TakeCommand(a, "START") /\ CancelAndWait(a, "start", cmd.depl)
    BY <1>6 DEF ReplaceDeployment
  <2>2. \E r \in AgentState : Moves(a, r)
    BY <1>2, <2>1, CancelAndWaitMoves
  <2>3. QED
    BY <1>4, <2>1, <2>2
<1>7. CASE StopDeployment(a)
  <2>. DEFINE f == [agent[a] EXCEPT !.depl = None]
  <2>1. /\ TakeCommand(a, "STOP")
        /\ CancelAndWait(a, "stop", None) \/ Moves(a, f)
    BY <1>7 DEF StopDeployment, Moves, AgentsTypeOK
  <2>2. f \in AgentState
    BY <1>1 DEF AgentState
  <2>3. CASE CancelAndWait(a, "stop", None)
    BY <1>4, <2>1, <2>3, CancelAndWaitMoves
  <2>4. CASE Moves(a, f)
    BY <1>4, <2>1, <2>2, <2>4
  <2>5. QED
    BY <2>1, <2>3, <2>4
<1>8. CASE IgnoreCommand(a)
  <2>1. /\ \E type \in CommandTypes : TakeCommand(a, type)
        /\ UNCHANGED <<agent, kv, watch>>
    BY <1>8 DEF IgnoreCommand, CommandTypes
  <2>2. QED
    BY <1>2, <1>3, <2>1, QuietType DEF AgentsTypeOK
<1>9. QED
  BY <1>5, <1>6, <1>7, <1>8 DEF CommandStep

LEMMA StepType ==
  ASSUME StreamsTypeOK, AgentsTypeOK, NEW a \in Agents, NEW r \in AgentState,
         Moves(a, r), UNCHANGED commands, Quiet
  PROVE  StreamsTypeOK' /\ AgentsTypeOK'
<1>1. commands' \in [Agents -> Seq(Command)]
  BY DEF StreamsTypeOK
<1>2. QED
  BY <1>1, MovesType, QuietType

(* A step of _run_deployment from one put to the next.                     *)
LEMMA StepMoves ==
  ASSUME AgentsTypeOK, NEW a \in Agents, NEW from,
         NEW to \in Phases, NEW status \in AgentStatuses,
         Step(a, from, to, status)
  PROVE  /\ \E r \in AgentState : /\ Moves(a, r) /\ r.depl = agent[a].depl
                                  /\ r.next = agent[a].next
         /\ UNCHANGED commands /\ Quiet
<1>. DEFINE r == [agent[a] EXCEPT !.phase = to, !.status = status]
<1>1. r \in AgentState /\ r.depl = agent[a].depl /\ r.next = agent[a].next
  BY DEF AgentsTypeOK, AgentState
<1>2. QED
  BY <1>1 DEF Step, Moves

(* The steps of _run_deployment that are such a step.                      *)
LEMMA StepsOfDeployment ==
  ASSUME NEW a \in Agents,
         Cleans(a) \/ Starts(a) \/ Runs(a) \/ Recovers(a) \/ Errors(a) \/ Collapses(a)
  PROVE  \E from \in Phases, to \in Phases, status \in AgentStatuses :
           Step(a, from, to, status)
BY DEF Cleans, Starts, Runs, Recovers, Errors, Collapses, Phases, AgentStatuses

(* What the end of a teardown makes of the agent, and what it puts.        *)
LEMMA TornDownMoves ==
  ASSUME AgentsTypeOK, NEW a \in Agents, TornDown(a)
  PROVE  \E r \in AgentState, v \in Entry :
           /\ agent' = [agent EXCEPT ![a] = r] /\ SetKey(a, v)
           /\ v # None => v.depl = agent[a].depl
           /\ r.depl \in {agent[a].depl, None} /\ r.next = agent[a].next
<1>. DEFINE r == [agent[a] EXCEPT !.phase = "idle", !.status = "IDLE"]
            s == agent'[a]
<1>1. agent[a] \in AgentState
  BY DEF AgentsTypeOK
<1>2. r \in AgentState /\ r.depl = agent[a].depl /\ r.next = agent[a].next
      /\ r.goal = agent[a].goal
  BY <1>1 DEF AgentState, Phases, AgentStatuses
<1>3. ValueOf(r) \in Entry /\ ValueOf(r).depl = agent[a].depl
  BY <1>2, ValueOfType DEF ValueOf
<1>4. /\ SetKey(a, ValueOf(r))
      /\ agent' = [agent EXCEPT ![a] =
           CASE r.goal = "stay"  -> r
             [] r.goal = "start" -> [r EXCEPT !.phase = "replacing"]
             [] r.goal \in {"stop", "shutdown"} ->
                  [r EXCEPT !.depl = None, !.goal = "stay"]]
  BY DEF TornDown
<1>5. r.goal \in {"stay", "start", "stop", "shutdown"}
  BY <1>2 DEF AgentState
<1>6. /\ s \in AgentState /\ s.depl \in {agent[a].depl, None}
      /\ s.next = agent[a].next
  <2>1. CASE r.goal = "stay"
    BY <1>2, <1>4, <2>1 DEF AgentsTypeOK
  <2>2. CASE r.goal = "start"
    BY <1>2, <1>4, <2>2 DEF AgentsTypeOK, AgentState, Phases
  <2>3. CASE r.goal \in {"stop", "shutdown"}
    BY <1>2, <1>4, <2>3 DEF AgentsTypeOK, AgentState
  <2>4. QED
    BY <1>5, <2>1, <2>2, <2>3
<1>7. agent' = [agent EXCEPT ![a] = s]
  <2>1. \A x : agent' = [agent EXCEPT ![a] = x] => x = s
    BY DEF AgentsTypeOK
  <2>2. PICK x : agent' = [agent EXCEPT ![a] = x]
    BY <1>4
  <2>3. QED
    BY <2>1, <2>2
<1>8. QED
  BY <1>3, <1>4, <1>6, <1>7

LEMMA BeginNextMoves ==
  ASSUME AgentsTypeOK, NEW a \in Agents, BeginNext(a)
  PROVE  \E r \in AgentState :
           Moves(a, r) /\ r.depl = agent[a].next /\ r.next = None
<1>. DEFINE r == [agent[a] EXCEPT !.phase = "assigned", !.depl = agent[a].next,
                                  !.goal = "stay", !.next = None]
<1>1. r \in AgentState /\ r.depl = agent[a].next /\ r.next = None
  BY DEF AgentsTypeOK, AgentState, Phases
<1>2. agent' = [agent EXCEPT ![a] = r] /\ UNCHANGED <<kv, watch>>
  BY DEF BeginNext, AgentsTypeOK
<1>3. QED
  BY <1>1, <1>2 DEF Moves

LEMMA DeploymentStepType ==
  ASSUME StreamsTypeOK, AgentsTypeOK, NEW a \in Agents,
         DeploymentStep(a) \/ Errors(a) \/ Collapses(a)
  PROVE  StreamsTypeOK' /\ AgentsTypeOK'
<1>1. CASE Cleans(a) \/ Starts(a) \/ Runs(a) \/ Recovers(a)
           \/ Errors(a) \/ Collapses(a)
  BY <1>1, StepsOfDeployment, StepMoves, StepType
<1>2. CASE TornDown(a)
  <2>1. UNCHANGED commands /\ Quiet
    BY <1>2 DEF TornDown
  <2>2. PICK r \in AgentState, v \in Entry :
          agent' = [agent EXCEPT ![a] = r] /\ SetKey(a, v)
    BY <1>2, TornDownMoves
  <2>3. AgentsTypeOK'
    BY <2>2 DEF AgentsTypeOK
  <2>4. QED
    BY <2>1, <2>2, <2>3, SetKeyType, QuietType DEF StreamsTypeOK
<1>3. CASE BeginNext(a)
  BY <1>3, BeginNextMoves, StepType DEF BeginNext
<1>4. QED
  BY <1>1, <1>2, <1>3 DEF DeploymentStep

(* What a step of shutdown makes of the agent.                             *)
LEMMA ShutDownMoves ==
  ASSUME AgentsTypeOK, NEW a \in Agents, ShutDown(a)
  PROVE  \E r \in AgentState :
           /\ Moves(a, r)
           /\ {r.depl, r.next} \subseteq {agent[a].depl, agent[a].next, None}
<1>1. CASE CancelAndWait(a, "shutdown", None)
  BY <1>1, CancelAndWaitMoves
<1>2. CASE ~CancelAndWait(a, "shutdown", None)
  <2>. DEFINE r == [agent[a] EXCEPT !.phase = "leaving", !.depl = None,
                                    !.status = "CLEANING_OPERATORS"]
  <2>1. r \in AgentState /\ r.depl = None /\ r.next = agent[a].next
    BY DEF AgentsTypeOK, AgentState, Phases, AgentStatuses
  <2>2. Moves(a, r)
    BY <1>2 DEF ShutDown, Moves
  <2>3. QED
    BY <2>1, <2>2
<1>3. QED
  BY <1>1, <1>2

LEMMA ConnectMoves ==
  ASSUME AgentsTypeOK, NEW a \in Agents, Connect(a)
  PROVE  \E r \in AgentState :
           Moves(a, r) /\ r.depl = agent[a].depl /\ r.next = agent[a].next
<1>. DEFINE r == [agent[a] EXCEPT !.phase = "idle"]
<1>1. r \in AgentState /\ r.depl = agent[a].depl /\ r.next = agent[a].next
  BY DEF AgentsTypeOK, AgentState, Phases
<1>2. QED
  BY <1>1 DEF Connect, Moves

LEMMA RequestShutdownMoves ==
  ASSUME AgentsTypeOK, NEW a \in Agents, RequestShutdown(a)
  PROVE  \E r \in AgentState :
           Moves(a, r) /\ r.depl = agent[a].depl /\ r.next = agent[a].next
<1>. DEFINE r == [agent[a] EXCEPT !.status = "SHUTTING_DOWN", !.quit = TRUE]
<1>1. r \in AgentState /\ r.depl = agent[a].depl /\ r.next = agent[a].next
  BY DEF AgentsTypeOK, AgentState, AgentStatuses
<1>2. QED
  BY <1>1 DEF RequestShutdown, Moves

LEMMA GoneState ==
  At("gone") \in AgentState /\ At("gone").depl = None /\ At("gone").next = None
BY DEF At, AgentState, Phases, AgentStatuses

LEMMA OtherAgentStepType ==
  ASSUME StreamsTypeOK, AgentsTypeOK, NEW a \in Agents,
         \/ Heartbeat(a) \/ LeavingStep(a) \/ Connect(a)
         \/ RequestShutdown(a) \/ Dies(a)
  PROVE  StreamsTypeOK' /\ AgentsTypeOK'
<1>1. agent[a] \in AgentState
  BY DEF AgentsTypeOK
<1>2. None \in Entry
  BY DEF Entry
<1>3. CASE Heartbeat(a)
  <2>1. ValueOf(agent[a]) \in Entry
    BY <1>1, ValueOfType
  <2>2. QED
    BY <1>3, <2>1, SetKeyType, QuietType DEF Heartbeat, StreamsTypeOK, AgentsTypeOK
<1>4. CASE ShutDown(a)
  BY <1>4, ShutDownMoves, StepType DEF ShutDown
<1>5. CASE Leave(a)
  <2>1. SetKey(a, None)
    BY <1>5 DEF Leave, Gone
  <2>2. AgentsTypeOK' /\ commands' \in [Agents -> Seq(Command)] /\ Quiet
    BY <1>5, GoneState DEF Leave, Gone, AgentsTypeOK, StreamsTypeOK
  <2>3. QED
    BY <1>2, <2>1, <2>2, SetKeyType, QuietType
<1>6. CASE Expires(a)
  BY <1>2, <1>6, SetKeyType, QuietType DEF Expires, StreamsTypeOK, AgentsTypeOK
<1>7. CASE Connect(a)
  BY <1>7, ConnectMoves, StepType DEF Connect
<1>8. CASE RequestShutdown(a)
  BY <1>8, RequestShutdownMoves, StepType DEF RequestShutdown
<1>9. CASE Dies(a)
  <2>1. UNCHANGED <<kv, watch>> /\ Quiet
    BY <1>9 DEF Dies, Gone
  <2>2. AgentsTypeOK' /\ commands' \in [Agents -> Seq(Command)]
    BY <1>9, GoneState DEF Dies, Gone, AgentsTypeOK, StreamsTypeOK
  <2>3. QED
    BY <2>1, <2>2, QuietType DEF StreamsTypeOK
<1>10. QED
  BY <1>3, <1>4, <1>5, <1>6, <1>7, <1>8, <1>9 DEF LeavingStep

LEMMA AppStepType ==
  ASSUME StreamsTypeOK, AppTypeOK, NEW d \in Deployments, NEW s \in States,
         \/ CreateDeployment(d) \/ CreateLost(d) \/ UpdateDeployment(d, s)
         \/ UpdateLost(d) \/ RestartOperator(d) \/ ConsumeUpdate \/ RestartApp
  PROVE  StreamsTypeOK' /\ AppTypeOK'
<1>1. {"PENDING", "CANCELLED"} \subseteq States
      /\ {"RUN", "STOP", "OPERATOR_RESTART"} \subseteq EventTypes
  BY DEF States, EventTypes
<1>2. ASSUME NEW type \in EventTypes, PublishEvent(type, d), UNCHANGED updates,
             AppUnchanged
      PROVE  StreamsTypeOK'
  BY <1>2, PublishEventType DEF StreamsTypeOK, AppUnchanged
<1>3. CASE CreateDeployment(d)
  BY <1>1, <1>2, <1>3 DEF CreateDeployment, AppTypeOK
<1>4. CASE CreateLost(d) \/ UpdateLost(d)
  BY <1>1, <1>4 DEF CreateLost, UpdateLost, AppTypeOK, StreamsTypeOK, streamVars
<1>5. CASE UpdateDeployment(d, s)
  <2>1. AppTypeOK'
    BY <1>5 DEF UpdateDeployment, AppTypeOK
  <2>2. CASE s = "CANCELLED"
    BY <1>1, <1>2, <1>5, <2>1, <2>2 DEF UpdateDeployment
  <2>3. CASE s # "CANCELLED"
    BY <1>5, <2>1, <2>3 DEF UpdateDeployment, AppUnchanged, StreamsTypeOK
  <2>4. QED
    BY <2>2, <2>3
<1>6. CASE RestartOperator(d)
  BY <1>1, <1>2, <1>6 DEF RestartOperator, AppTypeOK
<1>7. CASE ConsumeUpdate
  <2>1. updates \in Seq(Update) /\ updates # <<>>
    BY <1>7 DEF ConsumeUpdate, StreamsTypeOK
  <2>2. Head(updates) \in Update /\ Tail(updates) \in Seq(Update)
    BY <2>1, HeadTailProperties
  <2>3. AppTypeOK'
    BY <1>7, <2>2 DEF ConsumeUpdate, AppTypeOK, Update
  <2>4. QED
    BY <1>7, <2>2, <2>3 DEF ConsumeUpdate, AppUnchanged, StreamsTypeOK
<1>8. CASE RestartApp
  BY <1>8 DEF RestartApp, AppUnchanged, AppTypeOK, StreamsTypeOK
<1>9. QED
  BY <1>3, <1>4, <1>5, <1>6, <1>7, <1>8
------------------------------------------------------------------------------
(* The steps of an agent, as what becomes of its record: p before, r after. *)
Alike(p, r) == r.depl = p.depl /\ r.goal = p.goal /\ r.next = p.next /\ r.quit = p.quit

(* It goes on as it was, or from one put of the deployment to the next.    *)
GoesOn(p, r) ==
  /\ Alike(p, r)
  /\ \/ r.phase = p.phase
     \/ p.phase = "new" /\ r.phase = "idle"
     \/ p.phase \in Live /\ r.phase \in {"cleaning", "starting", "running"}
     \/ p.phase = "error" /\ r.phase = "teardown"

GoesWrong(p, r) ==
  Alike(p, r) /\ p.phase \in Live /\ r.phase \in {"error", "teardown"}

TakesUp(p, r, d) ==
  /\ p.phase = "idle" /\ r.phase = "assigned"
  /\ p.goal = "stay" /\ ~p.quit
  /\ r.depl = d /\ r.goal = p.goal /\ r.next = p.next /\ r.quit = p.quit

(* It cancels the running task and waits for it.                           *)
WaitsFor(p, r, goal, next) ==
  /\ p.phase \in Live \cup {"teardown"} /\ r.phase = "teardown"
  /\ p.goal = "stay" /\ r.goal = goal /\ r.next = next
  /\ r.depl = p.depl /\ r.quit = p.quit

(* The task is over: the deployment is forgotten, or makes room for next.  *)
Finishes(p, r) ==
  /\ p.phase = "teardown"
  /\ r.next = p.next /\ r.quit = p.quit
  /\ \/ p.goal = "stay" /\ r.phase = "idle" /\ r.goal = "stay" /\ r.depl = p.depl
     \/ p.goal = "start" /\ r.phase = "replacing" /\ r.goal = "start" /\ r.depl = p.depl
     \/ p.goal \in {"stop", "shutdown"} /\ r.phase = "idle" /\ r.goal = "stay"
        /\ r.depl = None

Replaced(p, r) ==
  /\ p.phase = "replacing" /\ r.phase = "assigned"
  /\ r.depl = p.next /\ r.goal = "stay" /\ r.next = None /\ r.quit = p.quit

(* It forgets a deployment whose task is done, or leaves.                  *)
Forgets(p, r) ==
  /\ p.phase = "idle" /\ p.goal = "stay" /\ r.depl = None
  /\ r.phase \in {"idle", "leaving"} /\ (r.phase = "leaving" => p.quit)
  /\ r.goal = p.goal /\ r.next = p.next /\ r.quit = p.quit

IsToldToQuit(p, r) ==
  /\ p.phase \notin {"new", "gone"} /\ r.phase = p.phase /\ r.quit
  /\ r.depl = p.depl /\ r.goal = p.goal /\ r.next = p.next

(* The steps in which no deployment fails.                                 *)
SoundStep(a) ==
  \/ CommandStep(a) \/ DeploymentStep(a) \/ Heartbeat(a) \/ LeavingStep(a)
  \/ Connect(a) \/ RequestShutdown(a) \/ Dies(a)

AgentStep(a) == SoundStep(a) \/ Errors(a) \/ Collapses(a)

(* What such a step does to the agent's record, by the command it takes.   *)
Turns(a, r) ==
  LET p == agent[a] cmd == Head(commands[a]) IN
  \/ GoesOn(p, r)
  \/ TakeCommand(a, "START") /\ TakesUp(p, r, cmd.depl)
  \/ TakeCommand(a, "START") /\ ~p.quit /\ WaitsFor(p, r, "start", cmd.depl)
  \/ TakeCommand(a, "STOP") /\ p.depl = cmd.depl /\ WaitsFor(p, r, "stop", None)
  \/ p.quit /\ WaitsFor(p, r, "shutdown", None) /\ UNCHANGED commands
  \/ TakeCommand(a, "STOP") /\ p.depl = cmd.depl /\ Forgets(p, r)
  \/ r.phase = "leaving" /\ Forgets(p, r) /\ UNCHANGED commands
  \/ Finishes(p, r) /\ UNCHANGED commands
  \/ Replaced(p, r) /\ UNCHANGED commands
  \/ IsToldToQuit(p, r) /\ UNCHANGED commands
  \/ r = At("gone") /\ commands' = [commands EXCEPT ![a] = <<>>]

LEMMA CancelAndWaitTurns ==
  ASSUME AgentsTypeOK, NEW a \in Agents,
         NEW goal \in {"stop", "start", "shutdown"},
         NEW next \in Deployments \cup {None}, CancelAndWait(a, goal, next),
         agent[a].goal = "stay"
  PROVE  \E r \in AgentState :
           agent' = [agent EXCEPT ![a] = r] /\ WaitsFor(agent[a], r, goal, next)
<1>. DEFINE w == [agent[a] EXCEPT !.goal = goal, !.next = next]
            t == TearDown(w, goal)
<1>1. agent[a] \in AgentState
  BY DEF AgentsTypeOK
<1>2. /\ w \in AgentState /\ w.phase = agent[a].phase /\ w.depl = agent[a].depl
      /\ w.next = next /\ w.goal = goal /\ w.quit = agent[a].quit
  BY <1>1 DEF AgentState
<1>3. /\ t \in AgentState /\ t.phase = "teardown" /\ t.depl = agent[a].depl
      /\ t.next = next /\ t.goal = goal /\ t.quit = agent[a].quit
  BY <1>2 DEF TearDown, AgentState, Phases, AgentStatuses
<1>4. \/ agent[a].phase \in Live /\ agent' = [agent EXCEPT ![a] = t]
      \/ agent[a].phase = "teardown" /\ agent' = [agent EXCEPT ![a] = w]
  BY DEF CancelAndWait, Become
<1>5. QED
  BY <1>2, <1>3, <1>4 DEF WaitsFor

LEMMA CommandStepTurns ==
  ASSUME StreamsTypeOK, AgentsTypeOK, NEW a \in Agents, CommandStep(a)
  PROVE  \E r \in AgentState : agent' = [agent EXCEPT ![a] = r] /\ Turns(a, r)
<1>. DEFINE p == agent[a] cmd == Head(commands[a])
<1>1. p \in AgentState
  BY DEF AgentsTypeOK
<1>2. ASSUME NEW type, TakeCommand(a, type)
      PROVE  cmd.depl \in Deployments /\ p.goal = "stay"
  BY <1>2, TakeCommandType DEF TakeCommand, Command
<1>3. CASE StartDeployment(a)
  <2>. DEFINE r == [p EXCEPT !.phase = "assigned", !.depl = cmd.depl]
  <2>1. /\ agent' = [agent EXCEPT ![a] = r] /\ TakeCommand(a, "START")
        /\ p.phase = "idle" /\ ~p.quit
    BY <1>3 DEF StartDeployment, AgentsTypeOK
  <2>2. r \in AgentState /\ TakesUp(p, r, cmd.depl)
    BY <1>1, <1>2, <2>1 DEF AgentState, Phases, TakesUp
  <2>3. QED
    BY <2>1, <2>2 DEF Turns
<1>4. CASE ReplaceDeployment(a)
  <2>1. /\ TakeCommand(a, "START") /\ ~p.quit
        /\ CancelAndWait(a, "start", cmd.depl)
    BY <1>4 DEF ReplaceDeployment
  <2>2. QED
    BY <1>2, <2>1, CancelAndWaitTurns DEF Turns
<1>5. CASE StopDeployment(a)
  <2>. DEFINE f == [p EXCEPT !.depl = None]
  <2>1. /\ TakeCommand(a, "STOP") /\ p.depl = cmd.depl
        /\ \/ CancelAndWait(a, "stop", None)
           \/ p.phase = "idle" /\ agent' = [agent EXCEPT ![a] = f]
    BY <1>5 DEF StopDeployment, AgentsTypeOK
  <2>2. CASE CancelAndWait(a, "stop", None)
    BY <1>2, <2>1, <2>2, CancelAndWaitTurns DEF Turns
  <2>3. CASE p.phase = "idle" /\ agent' = [agent EXCEPT ![a] = f]
    <3>1. f \in AgentState /\ Forgets(p, f)
      BY <1>1, <1>2, <2>1, <2>3 DEF AgentState, Forgets
    <3>2. QED
      BY <2>1, <2>3, <3>1 DEF Turns
  <2>4. QED
    BY <2>1, <2>2, <2>3
<1>6. CASE IgnoreCommand(a)
  <2>1. agent' = [agent EXCEPT ![a] = p] /\ GoesOn(p, p)
    BY <1>6 DEF IgnoreCommand, AgentsTypeOK, GoesOn, Alike
  <2>2. QED
    BY <1>1, <2>1 DEF Turns
<1>7. QED
  BY <1>3, <1>4, <1>5, <1>6 DEF CommandStep

LEMMA StepTurns ==
  ASSUME AgentsTypeOK, NEW a \in Agents, NEW from, NEW to \in Phases,
         NEW status \in AgentStatuses, Step(a, from, to, status)
  PROVE  \E r \in AgentState :
           /\ agent' = [agent EXCEPT ![a] = r] /\ Alike(agent[a], r)
           /\ agent[a].phase = from /\ r.phase = to
<1>. DEFINE r == [agent[a] EXCEPT !.phase = to, !.status = status]
<1>1. r \in AgentState /\ Alike(agent[a], r) /\ r.phase = to
  BY DEF AgentsTypeOK, AgentState, Alike
<1>2. QED
  BY <1>1 DEF Step, Become

LEMMA TornDownTurns ==
  ASSUME AgentsTypeOK, NEW a \in Agents, TornDown(a)
  PROVE  \E r \in AgentState :
           agent' = [agent EXCEPT ![a] = r] /\ Finishes(agent[a], r)
<1>. DEFINE p == agent[a]
            r == [p EXCEPT !.phase = "idle", !.status = "IDLE"]
            n == [r EXCEPT !.phase = "replacing"]
            f == [r EXCEPT !.depl = None, !.goal = "stay"]
<1>1. p \in AgentState /\ p.phase = "teardown"
  BY DEF AgentsTypeOK, TornDown
<1>2. /\ r \in AgentState /\ r.phase = "idle" /\ r.depl = p.depl
      /\ r.goal = p.goal /\ r.next = p.next /\ r.quit = p.quit
  BY <1>1 DEF AgentState, Phases, AgentStatuses
<1>3. /\ n \in AgentState /\ n.phase = "replacing" /\ n.depl = p.depl
      /\ n.goal = p.goal /\ n.next = p.next /\ n.quit = p.quit
  BY <1>2 DEF AgentState, Phases
<1>4. /\ f \in AgentState /\ f.phase = "idle" /\ f.depl = None
      /\ f.goal = "stay" /\ f.next = p.next /\ f.quit = p.quit
  BY <1>2 DEF AgentState
<1>5. agent' = [agent EXCEPT ![a] =
        CASE r.goal = "stay"  -> r
          [] r.goal = "start" -> n
          [] r.goal \in {"stop", "shutdown"} -> f]
  BY DEF TornDown
<1>6. p.goal \in {"stay", "start", "stop", "shutdown"}
  BY <1>1 DEF AgentState
<1>7. CASE p.goal = "stay"
  BY <1>1, <1>2, <1>5, <1>7 DEF Finishes
<1>8. CASE p.goal = "start"
  BY <1>1, <1>2, <1>3, <1>5, <1>8 DEF Finishes
<1>9. CASE p.goal \in {"stop", "shutdown"}
  BY <1>1, <1>2, <1>4, <1>5, <1>9 DEF Finishes
<1>10. QED
  BY <1>6, <1>7, <1>8, <1>9

LEMMA SoundStepTurns ==
  ASSUME StreamsTypeOK, AgentsTypeOK, NEW a \in Agents, SoundStep(a)
  PROVE  \E r \in AgentState : agent' = [agent EXCEPT ![a] = r] /\ Turns(a, r)
<1>. DEFINE p == agent[a]
<1>1. p \in AgentState
  BY DEF AgentsTypeOK
<1>2. CASE CommandStep(a)
  BY <1>2, CommandStepTurns
<1>3. CASE Cleans(a) \/ Starts(a) \/ Runs(a) \/ Recovers(a)
  <2>1. PICK r \in AgentState : /\ agent' = [agent EXCEPT ![a] = r] /\ GoesOn(p, r)
    BY <1>3, StepTurns
    DEF Cleans, Starts, Runs, Recovers, GoesOn, Live, Phases, AgentStatuses
  <2>2. QED
    BY <2>1 DEF Turns
<1>4. CASE TornDown(a)
  BY <1>4, TornDownTurns DEF Turns, TornDown
<1>5. CASE BeginNext(a)
  <2>. DEFINE r == [p EXCEPT !.phase = "assigned", !.depl = p.next,
                             !.goal = "stay", !.next = None]
  <2>1. r \in AgentState /\ Replaced(p, r)
    BY <1>1, <1>5 DEF BeginNext, AgentState, Phases, Replaced
  <2>2. agent' = [agent EXCEPT ![a] = r] /\ UNCHANGED commands
    BY <1>5 DEF BeginNext, AgentsTypeOK
  <2>3. QED
    BY <2>1, <2>2 DEF Turns
<1>6. CASE Heartbeat(a) \/ Expires(a)
  <2>1. agent' = [agent EXCEPT ![a] = p] /\ GoesOn(p, p)
    BY <1>6 DEF Heartbeat, Expires, AgentsTypeOK, GoesOn, Alike
  <2>2. QED
    BY <1>1, <2>1 DEF Turns
<1>7. CASE ShutDown(a)
  <2>. DEFINE r == [p EXCEPT !.phase = "leaving", !.depl = None,
                             !.status = "CLEANING_OPERATORS"]
  <2>1. CASE CancelAndWait(a, "shutdown", None)
    BY <1>7, <2>1, CancelAndWaitTurns DEF ShutDown, Turns
  <2>2. CASE p.phase = "idle" /\ Become(a, r)
    <3>1. r \in AgentState /\ Forgets(p, r) /\ r.phase = "leaving"
      BY <1>1, <1>7, <2>2 DEF ShutDown, AgentState, Phases, AgentStatuses, Forgets
    <3>2. QED
      BY <1>7, <2>2, <3>1 DEF ShutDown, Become, Turns
  <2>3. QED
    BY <1>7, <2>1, <2>2 DEF ShutDown
<1>8. CASE Connect(a)
  <2>. DEFINE r == [p EXCEPT !.phase = "idle"]
  <2>1. r \in AgentState /\ GoesOn(p, r)
    BY <1>1, <1>8 DEF Connect, AgentState, Phases, GoesOn, Alike
  <2>2. QED
    BY <1>8, <2>1 DEF Connect, Become, Turns
<1>9. CASE RequestShutdown(a)
  <2>. DEFINE r == [p EXCEPT !.status = "SHUTTING_DOWN", !.quit = TRUE]
  <2>1. r \in AgentState /\ IsToldToQuit(p, r)
    BY <1>1, <1>9 DEF RequestShutdown, AgentState, AgentStatuses, IsToldToQuit
  <2>2. QED
    BY <1>9, <2>1 DEF RequestShutdown, Become, Turns
<1>10. CASE Leave(a) \/ Dies(a)
  BY <1>10, GoneState DEF Leave, Dies, Gone, Turns
<1>11. QED
  BY <1>2, <1>3, <1>4, <1>5, <1>6, <1>7, <1>8, <1>9, <1>10
  DEF SoundStep, DeploymentStep, LeavingStep

(* Every step of an agent turns its record in one of these ways, or its    *)
(* deployment fails.                                                       *)
LEMMA AgentStepTurns ==
  ASSUME StreamsTypeOK, AgentsTypeOK, NEW a \in Agents, AgentStep(a)
  PROVE  \E r \in AgentState :
           /\ agent' = [agent EXCEPT ![a] = r]
           /\ \/ Turns(a, r)
              \/ GoesWrong(agent[a], r) /\ UNCHANGED commands
<1>1. CASE SoundStep(a)
  BY <1>1, SoundStepTurns
<1>2. CASE Errors(a) \/ Collapses(a)
  <2>1. UNCHANGED commands
    BY <1>2 DEF Errors, Collapses, Step
  <2>2. QED
    BY <1>2, <2>1, StepTurns
    DEF Errors, Collapses, GoesWrong, Live, Phases, AgentStatuses
<1>3. QED
  BY <1>1, <1>2 DEF AgentStep

(* A step of an agent puts one value under its key, or none.               *)
LEMMA AgentStepKeys ==
  ASSUME StreamsTypeOK, AgentsTypeOK, NEW a \in Agents, AgentStep(a)
  PROVE  (\E v \in Entry : SetKey(a, v)) \/ UNCHANGED <<kv, watch>>
<1>1. ASSUME NEW r \in AgentState, Moves(a, r)
      PROVE  (\E v \in Entry : SetKey(a, v)) \/ UNCHANGED <<kv, watch>>
  BY <1>1, ValueOfType DEF Moves, Become
<1>2. None \in Entry /\ ValueOf(agent[a]) \in Entry
  BY ValueOfType DEF Entry, AgentsTypeOK
<1>3. CASE CommandStep(a)
  <2>1. CASE \/ CancelAndWait(a, "stop", None)
             \/ \E d \in Deployments : CancelAndWait(a, "start", d)
    BY <1>1, <2>1, CancelAndWaitMoves
  <2>2. CASE UNCHANGED <<kv, watch>>
    BY <2>2
  <2>3. ASSUME NEW type, TakeCommand(a, type)
        PROVE  Head(commands[a]).depl \in Deployments
    BY <2>3, TakeCommandType DEF Command
  <2>4. QED
    BY <1>3, <2>1, <2>2, <2>3
    DEF CommandStep, StartDeployment, ReplaceDeployment, StopDeployment, IgnoreCommand
<1>4. CASE Cleans(a) \/ Starts(a) \/ Runs(a) \/ Recovers(a) \/ Errors(a) \/ Collapses(a)
  BY <1>1, <1>4, StepsOfDeployment, StepMoves
<1>5. CASE TornDown(a)
  BY <1>5, TornDownMoves
<1>6. CASE BeginNext(a)
  BY <1>6 DEF BeginNext
<1>7. CASE Heartbeat(a) \/ Expires(a) \/ Leave(a) \/ Dies(a)
  BY <1>2, <1>7 DEF Heartbeat, Expires, Leave, Dies, Gone
<1>8. CASE ShutDown(a) \/ Connect(a) \/ RequestShutdown(a)
  BY <1>1, <1>8, ShutDownMoves, ConnectMoves, RequestShutdownMoves
<1>9. QED
  BY <1>3, <1>4, <1>5, <1>6, <1>7, <1>8
  DEF AgentStep, SoundStep, DeploymentStep, LeavingStep

(* It takes one command, none, or is gone with them all.                   *)
LEMMA AgentStepCommands ==
  ASSUME NEW a \in Agents, AgentStep(a)
  PROVE  \/ UNCHANGED commands
         \/ \E type \in CommandTypes : TakeCommand(a, type)
         \/ commands' = [commands EXCEPT ![a] = <<>>]
<1>1. CASE CommandStep(a)
  BY <1>1 DEF CommandStep, StartDeployment, ReplaceDeployment, StopDeployment,
              IgnoreCommand, CommandTypes
<1>2. CASE ~CommandStep(a)
  BY <1>2
  DEF AgentStep, SoundStep, DeploymentStep, Cleans, Starts, Runs, Recovers, Errors,
      Collapses, Step, TornDown, BeginNext, Heartbeat, LeavingStep, ShutDown, Leave,
      Gone, Expires, Connect, RequestShutdown, Dies
<1>3. QED
  BY <1>1, <1>2

LEMMA AgentStepQuiet ==
  ASSUME NEW a \in Agents, AgentStep(a)
  PROVE  Quiet
BY DEF AgentStep, SoundStep, CommandStep, StartDeployment, ReplaceDeployment, StopDeployment,
       IgnoreCommand, TakeCommand, DeploymentStep, Cleans, Starts, Runs, Recovers,
       Errors, Collapses, Step, TornDown, BeginNext, Heartbeat, LeavingStep,
       ShutDown, Leave, Gone, Expires, Connect, RequestShutdown, Dies

------------------------------------------------------------------------------
LEMMA SpendType ==
  ASSUME budget \in [Budgets -> Nat], NEW k, Spend(k) \/ Free
  PROVE  budget' \in [Budgets -> Nat]
<1>1. CASE Spend(k)
  <2>1. \A j \in Budgets : budget'[j] \in Nat
    BY <1>1 DEF Spend
  <2>2. QED
    BY <1>1, <2>1 DEF Spend
<1>2. CASE Free
  BY <1>2 DEF Free
<1>3. QED
  BY <1>1, <1>2

(* The last of a sequence is the last of its tail, if there is one.        *)
LEMMA TailLast ==
  ASSUME NEW S, NEW s \in Seq(S), s # <<>>
  PROVE  /\ Tail(s) = <<>> <=> Len(s) = 1
         /\ Tail(s) # <<>> => Tail(s)[Len(Tail(s))] = s[Len(s)]
<1>1. /\ Len(s) \in Nat /\ Len(s) # 0 /\ Tail(s) \in Seq(S)
      /\ Len(Tail(s)) = Len(s) - 1
      /\ \A i \in 1 .. Len(Tail(s)) : Tail(s)[i] = s[i + 1]
  BY HeadTailProperties, LenProperties, EmptySeq
<1>2. Tail(s) = <<>> <=> Len(Tail(s)) = 0
  BY <1>1, EmptySeq
<1>3. ASSUME Tail(s) # <<>> PROVE Tail(s)[Len(Tail(s))] = s[Len(s)]
  BY <1>1, <1>2, <1>3
<1>4. QED
  BY <1>1, <1>2, <1>3

(* The steps of the system, by whose they are.                             *)
AppStep ==
  \/ ConsumeUpdate /\ Free
  \/ RestartApp /\ Spend("failure")
  \/ \E d \in Deployments :
       \/ CreateDeployment(d) /\ Free
       \/ UpdateDeployment(d, "CANCELLED") /\ Spend("stop")
       \/ (\E s \in States \ {"CANCELLED"} : UpdateDeployment(d, s)) /\ Spend("edit")
       \/ RestartOperator(d) /\ Spend("restart")
       \/ (CreateLost(d) \/ UpdateLost(d)) /\ Spend("failure")

OrchestratorTrouble ==
  \/ Crash /\ Spend("crash")
  \/ (EventFails \/ EntryFails) /\ Spend("failure")

AgentTurn(a) ==
  \/ /\ CommandStep(a) \/ DeploymentStep(a) \/ Heartbeat(a) \/ LeavingStep(a) \/ Connect(a)
     /\ Free
  \/ RequestShutdown(a) /\ Spend("shutdown")
  \/ Dies(a) /\ Spend("death")
  \/ (Errors(a) \/ Collapses(a)) /\ Spend("error")

LEMMA NextCases ==
  ASSUME [Next]_vars
  PROVE  \/ OrchestratorStep /\ UNCHANGED <<agent, db, budget>>
         \/ OrchestratorTrouble /\ UNCHANGED <<agent, db>>
         \/ AppStep /\ UNCHANGED <<orchestratorVars, agent>>
         \/ \E a \in Agents : AgentTurn(a) /\ UNCHANGED <<orchestratorVars, db>>
         \/ /\ Conflation
            /\ \E a \in Agents : Supersede(a)
            /\ UNCHANGED <<orchestratorVars, agent, db, budget>>
         \/ UNCHANGED vars
<1>1. CASE Request \/ Consume
  BY <1>1 DEF Request, Consume, OfApp, AppStep
<1>2. CASE Orchestrate
  BY <1>2 DEF Orchestrate, OfOrchestrator, Free
<1>3. CASE Trouble
  BY <1>3 DEF Trouble, OfOrchestrator, OfApp, OrchestratorTrouble, AppStep
<1>4. CASE Overwrite
  BY <1>4 DEF Overwrite
<1>5. ASSUME NEW a \in Agents, AgentWorks(a) \/ AgentJoins(a) \/ AgentTrouble(a)
      PROVE  AgentTurn(a) /\ UNCHANGED <<orchestratorVars, db>>
  BY <1>5 DEF AgentWorks, AgentJoins, AgentTrouble, OfAgents, AgentTurn
<1>6. QED
  BY <1>1, <1>2, <1>3, <1>4, <1>5 DEF Next

LEMMA AgentTurnIsStep == \A a \in Agents : AgentTurn(a) => AgentStep(a)
BY DEF AgentTurn, AgentStep, SoundStep

(* What is spent stays spent.                                              *)
LEMMA StaysSpent ==
  ASSUME budget \in [Budgets -> Nat], [Next]_vars, NEW k \in Budgets, budget[k] = 0
  PROVE  budget'[k] = 0 /\ ~Spend(k)
<1>1. ~Spend(k)
  BY DEF Spend
<1>2. Free \/ \E j \in Budgets \ {k} : Spend(j)
  BY <1>1, NextCases
  DEF AppStep, OrchestratorTrouble, AgentTurn, Free, vars, Budgets
<1>3. QED
  BY <1>1, <1>2 DEF Spend, Free

(* The state the system starts in has the types.                           *)
LEMMA InitType == Init => TypeOK
<1>. SUFFICES ASSUME Init PROVE TypeOK
  OBVIOUS
<1>1. StreamsTypeOK
  BY DEF Init, StreamsInit, StreamsTypeOK, Entry
<1>2. OrchestratorTypeOK
  BY DEF Init, OrchestratorInit, OrchestratorTypeOK, Entry
<1>3. AgentsTypeOK
  BY DEF Init, AgentsInit, At, AgentsTypeOK, AgentState, Phases, AgentStatuses
<1>4. AppTypeOK
  BY DEF Init, AppInit, AppTypeOK
<1>5. budget \in [Budgets -> Nat]
  BY BoundsAssumption DEF Init, Budgets
<1>6. QED
  BY <1>1, <1>2, <1>3, <1>4, <1>5 DEF TypeOK

(* Every step keeps the types.                                             *)
LEMMA NextType == TypeOK /\ [Next]_vars => TypeOK'
<1>. SUFFICES ASSUME TypeOK, [Next]_vars PROVE TypeOK'
  OBVIOUS
<1>. USE DEF TypeOK
<1>1. CASE Request
  <2>1. PICK d \in Deployments :
          /\ \/ CreateDeployment(d)
             \/ \E s \in States : UpdateDeployment(d, s)
             \/ RestartOperator(d)
          /\ UNCHANGED <<orchestratorVars, agent>>
          /\ Free \/ \E k \in Budgets : Spend(k)
    BY <1>1 DEF Request, OfApp, Budgets, States
  <2>2. StreamsTypeOK' /\ AppTypeOK'
    BY <2>1, AppStepType DEF States
  <2>3. QED
    BY <2>1, <2>2, SpendType DEF orchestratorVars, OrchestratorTypeOK, AgentsTypeOK
<1>2. CASE Consume
  <2>1. ConsumeUpdate /\ Free /\ UNCHANGED <<orchestratorVars, agent>>
    BY <1>2 DEF Consume, OfApp
  <2>2. StreamsTypeOK' /\ AppTypeOK'
    <3>1. updates \in Seq(Update) /\ updates # <<>>
      BY <2>1 DEF ConsumeUpdate, StreamsTypeOK
    <3>2. Head(updates) \in Update
      BY <3>1, HeadTailProperties
    <3>3. Head(updates).depl \in Deployments /\ "PENDING" \in States
      BY <3>2 DEF Update, States
    <3>4. QED
      BY <2>1, <3>3, AppStepType
  <2>3. QED
    BY <2>1, <2>2, SpendType DEF orchestratorVars, OrchestratorTypeOK, AgentsTypeOK
<1>3. CASE Orchestrate
  <2>1. OrchestratorStep /\ Free /\ UNCHANGED <<agent, db>>
    BY <1>3 DEF Orchestrate, OfOrchestrator
  <2>2. QED
    BY <2>1, OrchestratorTypes, SpendType DEF AgentsTypeOK, AppTypeOK
<1>4. CASE Trouble
  <2>1. CASE \/ OfOrchestrator(Crash /\ Spend("crash"))
             \/ OfOrchestrator((EventFails \/ EntryFails) /\ Spend("failure"))
    <3>1. /\ Crash \/ EventFails \/ EntryFails
          /\ Spend("crash") \/ Spend("failure")
          /\ UNCHANGED <<agent, db>>
      BY <2>1 DEF OfOrchestrator
    <3>2. QED
      BY <3>1, OrchestratorTypes, SpendType DEF AgentsTypeOK, AppTypeOK
  <2>2. CASE OfApp((RestartApp \/ \E d \in Deployments : CreateLost(d) \/ UpdateLost(d))
                   /\ Spend("failure"))
    <3>1. /\ RestartApp \/ \E d \in Deployments : CreateLost(d) \/ UpdateLost(d)
          /\ Spend("failure") /\ UNCHANGED <<orchestratorVars, agent>>
      BY <2>2 DEF OfApp
    <3>2. CASE RestartApp
      BY <3>1, <3>2, SpendType
      DEF RestartApp, AppUnchanged, StreamsTypeOK, AppTypeOK, orchestratorVars,
          OrchestratorTypeOK, AgentsTypeOK
    <3>3. CASE \E d \in Deployments : CreateLost(d) \/ UpdateLost(d)
      <4>1. "CANCELLED" \in States
        BY DEF States
      <4>2. StreamsTypeOK' /\ AppTypeOK'
        BY <3>3, <4>1, AppStepType
      <4>3. QED
        BY <3>1, <4>2, SpendType DEF orchestratorVars, OrchestratorTypeOK, AgentsTypeOK
    <3>4. QED
      BY <3>1, <3>2, <3>3
  <2>3. QED
    BY <1>4, <2>1, <2>2 DEF Trouble
<1>5. CASE Overwrite
  <2>1. PICK a \in Agents : Supersede(a)
    BY <1>5 DEF Overwrite
  <2>2. watch[a] \in Seq(Entry) /\ watch[a] # <<>>
    BY <2>1 DEF Supersede, StreamsTypeOK
  <2>3. StreamsTypeOK'
    BY <2>1, <2>2, HeadTailProperties DEF Supersede, StreamsTypeOK
  <2>4. QED
    BY <1>5, <2>3
    DEF Overwrite, orchestratorVars, OrchestratorTypeOK, AgentsTypeOK, AppTypeOK
<1>6. ASSUME NEW a \in Agents, AgentWorks(a) \/ AgentJoins(a) \/ AgentTrouble(a)
      PROVE  TypeOK'
  <2>1. /\ \/ CommandStep(a) \/ DeploymentStep(a) \/ Heartbeat(a) \/ LeavingStep(a)
           \/ Connect(a) \/ RequestShutdown(a) \/ Dies(a) \/ Errors(a) \/ Collapses(a)
        /\ UNCHANGED <<orchestratorVars, db>>
        /\ Free \/ \E k \in Budgets : Spend(k)
    BY <1>6 DEF AgentWorks, AgentJoins, AgentTrouble, OfAgents, Budgets
  <2>2. StreamsTypeOK' /\ AgentsTypeOK'
    BY <2>1, CommandStepType, DeploymentStepType, OtherAgentStepType
  <2>3. QED
    BY <2>1, <2>2, SpendType DEF orchestratorVars, OrchestratorTypeOK, AppTypeOK
<1>7. CASE UNCHANGED vars
  BY <1>7 DEF vars, streamVars, orchestratorVars, StreamsTypeOK, OrchestratorTypeOK,
              AgentsTypeOK, AppTypeOK
<1>8. QED
  BY <1>1, <1>2, <1>3, <1>4, <1>5, <1>6, <1>7 DEF Next

(* Every variable keeps its shape in every run of the system, whatever the *)
(* numbers of deployments, agents, requests and failures.                  *)
THEOREM TypeCorrect == Spec => []TypeOK
BY InitType, NextType, PTL DEF Spec

------------------------------------------------------------------------------
(* Announced before assigned, and trackers.                                *)
(* What has been announced stays announced over a step.                    *)
Keeps == \A d \in Deployments : lastUpdate[d] # None => lastUpdate'[d] # None

LEMMA UnchangedKeeps == UNCHANGED lastUpdate => Keeps
BY DEF Keeps

LEMMA PublishKeeps ==
  ASSUME StreamsTypeOK, NEW d \in Deployments, NEW s \in States, PublishUpdate(d, s)
  PROVE  Keeps /\ lastUpdate'[d] # None
BY NoneAssumption DEF StreamsTypeOK, PublishUpdate, Keeps

LEMMA StaysAnnounced ==
  ASSUME Keeps, NEW d, Announced(d)
  PROVE  d \in Deployments => lastUpdate'[d] # None
BY DEF Keeps, Announced

(* Where the state of a component is left alone its part of the invariant  *)
(* is kept.                                                                *)
LEMMA StartsFrame ==
  ASSUME StartsAreAnnounced, StreamsTypeOK, Keeps, UNCHANGED commands
  PROVE  StartsAreAnnounced'
<1>. SUFFICES ASSUME NEW a \in Agents, NEW i \in DOMAIN commands[a],
                     commands[a][i].type = "START"
              PROVE  lastUpdate'[commands[a][i].depl] # None
  BY DEF StartsAreAnnounced
<1>1. commands[a][i] \in Command
  BY DEF StreamsTypeOK
<1>2. QED
  BY <1>1 DEF StartsAreAnnounced, Keeps, Command

LEMMA AgentsFrame ==
  ASSUME AgentsAnnounced, Keeps, UNCHANGED agent
  PROVE  AgentsAnnounced'
BY DEF AgentsAnnounced, Announced, Keeps

LEMMA KeysFrame ==
  ASSUME KeysAnnounced, Keeps, UNCHANGED <<kv, watch>>
  PROVE  KeysAnnounced'
BY DEF KeysAnnounced, ValueAnnounced, Announced, Keeps

LEMMA TrackingFrame ==
  ASSUME TrackingAnnounced, Keeps, UNCHANGED <<store, tracker, watcher>>
  PROVE  TrackingAnnounced'
BY DEF TrackingAnnounced, ValueAnnounced, Announced, Keeps

LEMMA HandlerFrame ==
  ASSUME HandlerAnnounced, Keeps, UNCHANGED <<handler, pending>>
  PROVE  HandlerAnnounced'
BY DEF HandlerAnnounced, Announced, Keeps

------------------------------------------------------------------------------
(* Commands that are not assignments, or assignments of an announced       *)
(* deployment, may be sent.                                                *)
LEMMA PublishCommandsStarts ==
  ASSUME StreamsTypeOK, StartsAreAnnounced, UNCHANGED lastUpdate,
         NEW d \in Deployments, NEW type \in CommandTypes, NEW S \in SUBSET Agents,
         PublishCommands(type, d, S), type = "START" => Announced(d)
  PROVE  StartsAreAnnounced'
<1>. SUFFICES ASSUME NEW a \in Agents, NEW i \in DOMAIN commands'[a],
                     commands'[a][i].type = "START"
              PROVE  lastUpdate[commands'[a][i].depl] # None
  BY DEF StartsAreAnnounced
<1>. DEFINE c == [type |-> type, depl |-> d]
<1>1. commands[a] \in Seq(Command) /\ c \in Command
  BY DEF StreamsTypeOK, Command
<1>2. CASE a \notin S
  BY <1>2 DEF PublishCommands, StartsAreAnnounced
<1>3. CASE a \in S
  <2>1. commands'[a] = Append(commands[a], c)
    BY <1>3 DEF PublishCommands
  <2>2. commands'[a][i] = c \/ (i \in DOMAIN commands[a] /\ commands'[a][i] = commands[a][i])
    BY <1>1, <2>1, AppendProperties
  <2>3. CASE commands'[a][i] = c
    BY <2>3 DEF Announced
  <2>4. CASE i \in DOMAIN commands[a] /\ commands'[a][i] = commands[a][i]
    BY <2>4 DEF StartsAreAnnounced
  <2>5. QED
    BY <2>2, <2>3, <2>4
<1>4. QED
  BY <1>2, <1>3

(* The command an agent takes, if an assignment, is of an announced        *)
(* deployment.                                                             *)
LEMMA TakeCommandStarts ==
  ASSUME StreamsTypeOK, StartsAreAnnounced, NEW a \in Agents, NEW type,
         TakeCommand(a, type)
  PROVE  /\ StartsAreAnnounced'
         /\ type = "START" => Announced(Head(commands[a]).depl)
<1>1. /\ commands[a] \in Seq(Command) /\ commands[a] # <<>>
      /\ Head(commands[a]).type = type
      /\ commands' = [commands EXCEPT ![a] = Tail(@)]
      /\ UNCHANGED lastUpdate
  BY DEF StreamsTypeOK, TakeCommand, Quiet
<1>2. /\ Head(commands[a]) = commands[a][1] /\ 1 \in DOMAIN commands[a]
      /\ \A i \in DOMAIN Tail(commands[a]) :
           i + 1 \in DOMAIN commands[a] /\ Tail(commands[a])[i] = commands[a][i + 1]
  BY <1>1, HeadTailProperties, LenProperties, EmptySeq
<1>3. ASSUME NEW b \in Agents, NEW i \in DOMAIN commands'[b],
             commands'[b][i].type = "START"
      PROVE  lastUpdate[commands'[b][i].depl] # None
  <2>1. CASE b = a
    BY <1>1, <1>2, <1>3, <2>1 DEF StartsAreAnnounced, StreamsTypeOK
  <2>2. CASE b # a
    BY <1>1, <1>3, <2>2 DEF StartsAreAnnounced, StreamsTypeOK
  <2>3. QED
    BY <2>1, <2>2
<1>4. StartsAreAnnounced'
  BY <1>1, <1>3 DEF StartsAreAnnounced
<1>5. QED
  BY <1>1, <1>2, <1>4 DEF StartsAreAnnounced, Announced

(* A key may be set to a value that names an announced deployment.         *)
LEMMA SetKeyKeys ==
  ASSUME StreamsTypeOK, KeysAnnounced, UNCHANGED lastUpdate,
         NEW a \in Agents, NEW v \in Entry, ValueAnnounced(v), SetKey(a, v)
  PROVE  KeysAnnounced'
<1>. SUFFICES ASSUME NEW b \in Agents
              PROVE  /\ ValueAnnounced(kv'[b])
                     /\ \A i \in DOMAIN watch'[b] : ValueAnnounced(watch'[b][i])
  BY DEF KeysAnnounced, ValueAnnounced, Announced
<1>1. ValueAnnounced(kv'[b])
  BY DEF SetKey, KeysAnnounced, StreamsTypeOK
<1>2. ASSUME NEW i \in DOMAIN watch'[b]
      PROVE  ValueAnnounced(watch'[b][i])
  <2>1. CASE watching /\ b = a
    <3>1. watch'[b] = Append(watch[a], v) /\ watch[a] \in Seq(Entry)
      BY <2>1 DEF SetKey, StreamsTypeOK
    <3>2. watch'[b][i] = v \/ (i \in DOMAIN watch[a] /\ watch'[b][i] = watch[a][i])
      BY <3>1, AppendProperties
    <3>3. QED
      BY <3>2 DEF KeysAnnounced
  <2>2. CASE ~(watching /\ b = a)
    BY <2>2 DEF SetKey, StreamsTypeOK, KeysAnnounced
  <2>3. QED
    BY <2>1, <2>2
<1>3. QED
  BY <1>1, <1>2
------------------------------------------------------------------------------
(* Events: only handle_run_deployment begins to assign, and then its       *)
(* update is about to be published.                                        *)
LEMMA EventStepAnnounced ==
  ASSUME StreamsTypeOK, OrchestratorTypeOK, OnlyAnnounced, EventStep, UNCHANGED agent
  PROVE  OnlyAnnounced'
<1>. DEFINE ev == Head(events)
<1>1. UNCHANGED <<lastUpdate, kv, watch, store, tracker, watcher>>
  BY DEF EventStep, HandleRun, HandleRunRaises, HandleStop, HandleStopRaises,
         HandleRestart, HandleRestartRaises, TakeEvent, SendStarts, SendStops,
         SendRestarts, SendCommands, EventDone
<1>2. Keeps /\ AgentsAnnounced' /\ KeysAnnounced' /\ TrackingAnnounced'
  BY <1>1, UnchangedKeeps, AgentsFrame, KeysFrame, TrackingFrame DEF OnlyAnnounced
<1>3. ASSUME UNCHANGED commands PROVE StartsAreAnnounced'
  BY <1>2, <1>3, StartsFrame DEF OnlyAnnounced
<1>4. ASSUME handler'.pc # "assigned" PROVE HandlerAnnounced'
  BY <1>4 DEF HandlerAnnounced
<1>5. CASE HandleRun
  <2>1. TakeEvent("RUN") /\ UNCHANGED commands
    BY <1>5 DEF HandleRun
  <2>2. ev.depl \in Deployments /\ handler.pc = "idle"
    BY <2>1, TakeEventType DEF TakeEvent
  <2>3. CASE Fire(Events, "assign", ev.depl) /\ Handle("assigned", Known)
    <3>1. ~Reenters("assign", Machine(ev.depl))
      <4>1. Machine(ev.depl) \in Sources["assign"]
        BY <2>3 DEF Fire, Accepts
      <4>2. Machine(ev.depl) = "PENDING"
        BY <4>1 DEF Sources
      <4>3. QED
        BY <4>2 DEF Reenters, Target, Destination
    <3>2. pending'[Events] = [depl |-> ev.depl,
                              state |-> Target("assign", Machine(ev.depl)),
                              stored |-> TRUE]
      BY <2>3, <3>1 DEF Fire, Tasks
    <3>3. Target("assign", Machine(ev.depl)) \in States
      BY <2>2, MachineType, MachineTypes DEF Triggers
    <3>4. pending'[Events] # None /\ pending'[Events].depl = ev.depl
      <4>1. pending'[Events] \in Publication
        BY <2>2, <3>2, <3>3 DEF Publication
      <4>2. pending'[Events] # None
        BY <4>1, AbsentAssumption
      <4>3. pending'[Events].depl = ev.depl
        BY <3>2
      <4>4. QED
        BY <4>2, <4>3
    <3>5. handler'.ev = ev
      BY <2>3 DEF Handle
    <3>6. HandlerAnnounced'
      BY <3>4, <3>5 DEF HandlerAnnounced
    <3>7. QED
      BY <1>2, <1>3, <2>1, <3>6 DEF OnlyAnnounced
  <2>4. CASE UNCHANGED handler
    BY <1>2, <1>3, <1>4, <2>1, <2>2, <2>4 DEF OnlyAnnounced
  <2>5. QED
    BY <1>5, <2>3, <2>4 DEF HandleRun
<1>6. CASE HandleRunRaises \/ HandleRestartRaises
  <2>1. UNCHANGED commands /\ RejectEvent /\ handler.pc = "idle"
    BY <1>6 DEF HandleRunRaises, HandleRestartRaises, TakeEvent
  <2>2. handler'.pc # "assigned"
    BY <2>1 DEF RejectEvent, Handle
  <2>3. QED
    BY <1>2, <1>3, <1>4, <2>1, <2>2 DEF OnlyAnnounced
<1>7. CASE HandleStop \/ HandleRestart
  <2>1. UNCHANGED commands /\ handler'.pc # "assigned"
    BY <1>7 DEF HandleStop, HandleRestart, Handle
  <2>2. QED
    BY <1>2, <1>3, <1>4, <2>1 DEF OnlyAnnounced
<1>8. CASE HandleStopRaises
  <2>1. TakeEvent("STOP") /\ UNCHANGED handler
    BY <1>8 DEF HandleStopRaises
  <2>2. ev.depl \in Deployments /\ handler.pc = "idle"
    BY <2>1, TakeEventType DEF TakeEvent
  <2>3. PICK S \in SUBSET Known : PublishCommands("STOP", ev.depl, S)
    BY <1>8 DEF HandleStopRaises
  <2>4. StartsAreAnnounced'
    BY <1>1, <2>2, <2>3, PublishCommandsStarts DEF OnlyAnnounced, CommandTypes, Known
  <2>5. QED
    BY <1>2, <1>4, <2>1, <2>2, <2>4 DEF OnlyAnnounced
<1>9. ASSUME NEW pc \in {"assigned", "stopping", "restarting"},
             NEW type \in CommandTypes, SendCommands(pc, type),
             type = "START" => Announced(handler.ev.depl)
      PROVE  OnlyAnnounced'
  <2>1. handler \in BusyHandler
    BY <1>9 DEF SendCommands, OrchestratorTypeOK, IdleHandler
  <2>2. PICK S \in SUBSET handler.targets :
          /\ PublishCommands(type, handler.ev.depl, S)
          /\ handler' = [handler EXCEPT !.targets = @ \ S,
                           !.pc = IF pc = "assigned" /\ S = handler.targets
                                  THEN "recording" ELSE @]
    BY <1>9 DEF SendCommands
  <2>3. handler.ev.depl \in Deployments /\ S \subseteq Agents
    BY <2>1 DEF BusyHandler, Event
  <2>4. StartsAreAnnounced'
    BY <1>1, <1>9, <2>2, <2>3, PublishCommandsStarts DEF OnlyAnnounced
  <2>5. /\ handler'.ev = handler.ev
        /\ handler'.pc = "assigned" => handler.pc = "assigned"
        /\ UNCHANGED pending
    BY <1>9, <2>1, <2>2 DEF SendCommands, BusyHandler
  <2>6. HandlerAnnounced'
    BY <1>1, <2>5 DEF OnlyAnnounced, HandlerAnnounced, Announced
  <2>7. QED
    BY <1>2, <2>4, <2>6 DEF OnlyAnnounced
<1>10. CASE SendStarts
  <2>1. Announced(handler.ev.depl)
    BY <1>10 DEF SendStarts, SendCommands, Published, OnlyAnnounced, HandlerAnnounced
  <2>2. QED
    BY <1>9, <1>10, <2>1 DEF SendStarts, CommandTypes
<1>11. CASE SendStops \/ SendRestarts
  BY <1>9, <1>11 DEF SendStops, SendRestarts, CommandTypes
<1>12. CASE EventDone
  BY <1>2, <1>3, <1>4, <1>12 DEF EventDone, IdleHandler, OnlyAnnounced
<1>13. QED
  BY <1>5, <1>6, <1>7, <1>8, <1>10, <1>11, <1>12 DEF EventStep

------------------------------------------------------------------------------
(* A trigger of Entries on an announced deployment may cancel the          *)
(* publication of Events: its deployment is announced already.             *)
LEMMA FireEntriesHandler ==
  ASSUME HandlerAnnounced, NEW t, NEW d \in Deployments, Announced(d),
         UNCHANGED <<lastUpdate, handler>>, Fire(Entries, t, d)
  PROVE  HandlerAnnounced'
<1>1. Events \in Tasks /\ Events # Entries
  BY DEF Tasks, Events, Entries
<1>2. \/ pending'[Events] = pending[Events]
      \/ pending[Events] # None /\ pending[Events].depl = d
  BY <1>1 DEF Fire
<1>3. QED
  BY <1>2 DEF HandlerAnnounced, Announced

LEMMA ReportAnnounced ==
  ASSUME OrchestratorTypeOK, NEW a \in Agents, NEW val \in AgentVal,
         NEW old \in AgentVal, Report(a, val, old), HandlerAnnounced,
         UNCHANGED <<lastUpdate, handler>>, Announced(val.depl), Announced(tracker[a])
  PROVE  HandlerAnnounced' /\ Announced(tracker'[a])
<1>. DEFINE link == IF val.depl # old.depl THEN val.depl
                    ELSE IF tracker[a] = Absent THEN None ELSE tracker[a]
            fires == /\ val.status # old.status
                     /\ val.status \in DOMAIN StatusTrigger
<1>1. link \in Deployments \cup {None} /\ Announced(link)
  BY NoneAssumption DEF AgentVal, OrchestratorTypeOK, Announced
<1>2. tracker'[a] = link
  BY DEF Report, OrchestratorTypeOK
<1>3. ASSUME UNCHANGED pending PROVE HandlerAnnounced'
  BY <1>3 DEF HandlerAnnounced, Announced
<1>4. ASSUME link = None \/ ~fires PROVE HandlerAnnounced'
  <2>1. UNCHANGED pending
    BY <1>4 DEF Report, Touch
  <2>2. QED
    BY <1>3, <2>1
<1>5. ASSUME link # None, fires PROVE HandlerAnnounced'
  <2>1. \/ Fire(Entries, StatusTrigger[val.status], link)
        \/ Refuse(StatusTrigger[val.status], link)
    BY <1>5 DEF Report
  <2>2. link \in Deployments /\ Announced(link)
    BY <1>1, <1>5
  <2>3. CASE Fire(Entries, StatusTrigger[val.status], link)
    BY <2>2, <2>3, FireEntriesHandler
  <2>4. CASE Refuse(StatusTrigger[val.status], link)
    BY <1>3, <2>4 DEF Refuse, Touch
  <2>5. QED
    BY <2>1, <2>3, <2>4
<1>6. HandlerAnnounced'
  BY <1>4, <1>5
<1>7. QED
  BY <1>1, <1>2, <1>6 DEF Announced

(* The entry that Entries takes names an announced deployment.             *)
LEMMA TakeEntryAnnounced ==
  ASSUME StreamsTypeOK, OrchestratorTypeOK, KeysAnnounced, TrackingAnnounced,
         NEW a \in Agents, TakeEntry(a)
  PROVE  /\ KeysAnnounced'
         /\ ValueAnnounced(Head(watch[a]))
         /\ \A b \in Agents : ValueAnnounced(store'[b])
         /\ UNCHANGED <<lastUpdate, commands, handler>>
<1>1. /\ watch[a] \in Seq(Entry) /\ watch[a] # <<>>
      /\ watch' = [watch EXCEPT ![a] = Tail(@)]
      /\ store' = [store EXCEPT ![a] = Head(watch[a])]
      /\ UNCHANGED <<lastUpdate, commands, handler, kv>>
  BY DEF StreamsTypeOK, TakeEntry
<1>2. /\ Head(watch[a]) = watch[a][1] /\ 1 \in DOMAIN watch[a]
      /\ \A i \in DOMAIN Tail(watch[a]) :
           i + 1 \in DOMAIN watch[a] /\ Tail(watch[a])[i] = watch[a][i + 1]
  BY <1>1, HeadTailProperties, LenProperties, EmptySeq
<1>3. ValueAnnounced(Head(watch[a]))
  BY <1>2 DEF KeysAnnounced
<1>4. \A b \in Agents : \A i \in DOMAIN watch'[b] : ValueAnnounced(watch'[b][i])
  <2>. SUFFICES ASSUME NEW b \in Agents, NEW i \in DOMAIN watch'[b]
                PROVE  ValueAnnounced(watch'[b][i])
    OBVIOUS
  <2>1. CASE b = a
    BY <1>1, <1>2, <2>1 DEF KeysAnnounced, StreamsTypeOK
  <2>2. CASE b # a
    BY <1>1, <2>2 DEF KeysAnnounced, StreamsTypeOK
  <2>3. QED
    BY <2>1, <2>2
<1>5. KeysAnnounced'
  BY <1>1, <1>4 DEF KeysAnnounced, ValueAnnounced, Announced
<1>6. \A b \in Agents : ValueAnnounced(store'[b])
  BY <1>1, <1>3 DEF TrackingAnnounced, OrchestratorTypeOK
<1>7. QED
  BY <1>1, <1>3, <1>5, <1>6

LEMMA EntryStepAnnounced ==
  ASSUME StreamsTypeOK, OrchestratorTypeOK, OnlyAnnounced, NEW a \in Agents,
         EntryStep(a), UNCHANGED agent
  PROVE  OnlyAnnounced'
<1>. DEFINE val == Head(watch[a])
            old == store[a]
<1>. USE DEF OnlyAnnounced
<1>1. TakeEntry(a)
  BY DEF EntryStep, FirstEntry, CancelReplaced, UpdateEntry, DeletedEntry
<1>2. /\ KeysAnnounced' /\ ValueAnnounced(val)
      /\ \A b \in Agents : ValueAnnounced(store'[b])
      /\ UNCHANGED <<lastUpdate, commands, handler>>
      /\ watcher.pc = "idle"
  BY <1>1, TakeEntryAnnounced DEF TakeEntry
<1>3. Keeps /\ StartsAreAnnounced' /\ AgentsAnnounced'
  BY <1>2, UnchangedKeeps, StartsFrame, AgentsFrame
<1>4. ValueAnnounced(old) /\ Announced(tracker[a])
  BY DEF TrackingAnnounced
<1>5. val \in Entry /\ old \in Entry
  BY <1>1, TakeEntryType DEF OrchestratorTypeOK
<1>6. ASSUME \A b \in Agents : Announced(tracker'[b]),
             watcher'.pc = "relinking" =>
               Announced(watcher'.val.depl) /\ Announced(watcher'.old.depl)
      PROVE  TrackingAnnounced'
  BY <1>2, <1>6 DEF TrackingAnnounced, ValueAnnounced, Announced
<1>7. CASE FirstEntry(a)
  <2>1. \A b \in Agents : Announced(tracker'[b])
    BY <1>7, NoneAssumption
    DEF FirstEntry, TrackingAnnounced, OrchestratorTypeOK, Announced
  <2>2. HandlerAnnounced' /\ watcher'.pc # "relinking"
    BY <1>2, <1>3, <1>7, HandlerFrame DEF FirstEntry
  <2>3. QED
    BY <1>2, <1>3, <1>6, <2>1, <2>2
<1>8. CASE CancelReplaced(a)
  <2>1. /\ val # None /\ old # None /\ old.depl # None
        /\ Fire(Entries, "cancel", old.depl)
        /\ watcher' = [pc |-> "relinking", agent |-> a, val |-> val, old |-> old]
        /\ UNCHANGED tracker
    BY <1>8 DEF CancelReplaced, Replaces
  <2>2. Announced(val.depl) /\ Announced(old.depl)
    BY <1>2, <1>4, <2>1 DEF ValueAnnounced
  <2>3. old.depl \in Deployments
    BY <1>5, <2>1 DEF Entry, AgentVal
  <2>4. HandlerAnnounced'
    BY <1>2, <2>1, <2>2, <2>3, FireEntriesHandler
  <2>5. \A b \in Agents : Announced(tracker'[b])
    BY <2>1 DEF TrackingAnnounced
  <2>6. watcher'.val = val /\ watcher'.old = old
    BY <2>1
  <2>7. QED
    BY <1>2, <1>3, <1>6, <2>2, <2>4, <2>5, <2>6
<1>9. CASE UpdateEntry(a)
  <2>1. val # None /\ old # None /\ Report(a, val, old) /\ UNCHANGED watcher
    BY <1>9 DEF UpdateEntry
  <2>2. val \in AgentVal /\ old \in AgentVal /\ Announced(val.depl)
    BY <1>2, <1>5, <2>1 DEF Entry, ValueAnnounced
  <2>3. HandlerAnnounced' /\ Announced(tracker'[a])
    BY <1>2, <1>4, <2>1, <2>2, ReportAnnounced
  <2>4. \A b \in Agents : Announced(tracker'[b])
    BY <2>1, <2>3 DEF Report, TrackingAnnounced, OrchestratorTypeOK
  <2>5. QED
    BY <1>2, <1>3, <1>6, <2>1, <2>3, <2>4
<1>10. CASE DeletedEntry(a)
  <2>1. CASE tracker[a] \in Deployments /\ Machine(tracker[a]) \notin Terminal
    <3>1. /\ Fire(Entries, "cancel", tracker[a])
          /\ watcher' = [pc |-> "forgetting", agent |-> a]
          /\ UNCHANGED tracker
      BY <1>10, <2>1 DEF DeletedEntry
    <3>2. HandlerAnnounced'
      BY <1>2, <1>4, <2>1, <3>1, FireEntriesHandler
    <3>3. watcher'.pc # "relinking"
      BY <3>1
    <3>4. \A b \in Agents : Announced(tracker'[b])
      BY <3>1 DEF TrackingAnnounced
    <3>5. QED
      BY <1>2, <1>3, <1>6, <3>2, <3>3, <3>4
  <2>2. CASE ~(tracker[a] \in Deployments /\ Machine(tracker[a]) \notin Terminal)
    <3>1. /\ tracker' = [tracker EXCEPT ![a] = Absent]
          /\ UNCHANGED <<sm, pending, watcher>>
      BY <1>10, <2>2 DEF DeletedEntry
    <3>2. \A b \in Agents : Announced(tracker'[b])
      BY <3>1, AbsentAssumption DEF TrackingAnnounced, OrchestratorTypeOK, Announced
    <3>3. HandlerAnnounced'
      BY <1>2, <1>3, <3>1, HandlerFrame
    <3>4. QED
      BY <1>2, <1>3, <1>6, <3>1, <3>2, <3>3
  <2>3. QED
    BY <2>1, <2>2
<1>11. QED
  BY <1>7, <1>8, <1>9, <1>10 DEF EntryStep

LEMMA RelinkForgetAnnounced ==
  ASSUME StreamsTypeOK, OrchestratorTypeOK, OnlyAnnounced, Relink \/ Forget,
         UNCHANGED agent
  PROVE  OnlyAnnounced'
<1>. USE DEF OnlyAnnounced
<1>1. UNCHANGED <<lastUpdate, commands, kv, watch, store, handler>>
  BY DEF Relink, Forget, streamVars
<1>2. Keeps /\ StartsAreAnnounced' /\ AgentsAnnounced' /\ KeysAnnounced'
  BY <1>1, UnchangedKeeps, StartsFrame, AgentsFrame, KeysFrame
<1>3. ASSUME watcher' = IdleWatcher, \A b \in Agents : Announced(tracker'[b])
      PROVE  TrackingAnnounced'
  BY <1>1, <1>3 DEF TrackingAnnounced, ValueAnnounced, Announced, IdleWatcher
<1>4. CASE Relink
  <2>1. watcher \in Relinking
    BY <1>4 DEF Relink, OrchestratorTypeOK, Forgetting, IdleWatcher
  <2>2. /\ watcher.agent \in Agents /\ watcher.val \in AgentVal
        /\ watcher.old \in AgentVal
        /\ Report(watcher.agent, watcher.val, watcher.old)
        /\ watcher' = IdleWatcher
    BY <1>4, <2>1 DEF Relink, Relinking
  <2>3. Announced(watcher.val.depl) /\ Announced(tracker[watcher.agent])
    BY <1>4, <2>2 DEF Relink, TrackingAnnounced
  <2>4. HandlerAnnounced' /\ Announced(tracker'[watcher.agent])
    BY <1>1, <2>2, <2>3, ReportAnnounced
  <2>5. \A b \in Agents : Announced(tracker'[b])
    BY <2>2, <2>4 DEF Report, TrackingAnnounced, OrchestratorTypeOK
  <2>6. QED
    BY <1>2, <1>3, <2>2, <2>4, <2>5
<1>5. CASE Forget
  <2>1. /\ tracker' = [tracker EXCEPT ![watcher.agent] = Absent]
        /\ watcher' = IdleWatcher /\ UNCHANGED pending
    BY <1>5 DEF Forget
  <2>2. \A b \in Agents : Announced(tracker'[b])
    BY <2>1, AbsentAssumption DEF TrackingAnnounced, OrchestratorTypeOK, Announced
  <2>3. HandlerAnnounced'
    BY <1>1, <1>2, <2>1, HandlerFrame
  <2>4. QED
    BY <1>2, <1>3, <2>1, <2>2, <2>3
<1>6. QED
  BY <1>4, <1>5
------------------------------------------------------------------------------
(* What leaves the agents, the keys and the tracking alone only has the    *)
(* handler to account for.                                                 *)
LEMMA OnlyHandler ==
  ASSUME StreamsTypeOK, OnlyAnnounced, Keeps, HandlerAnnounced',
         UNCHANGED <<commands, agent, kv, watch, store, tracker, watcher>>
  PROVE  OnlyAnnounced'
BY StartsFrame, AgentsFrame, KeysFrame, TrackingFrame DEF OnlyAnnounced

LEMMA PublishAnnounced ==
  ASSUME StreamsTypeOK, OrchestratorTypeOK, OnlyAnnounced, NEW t \in Tasks,
         Publish(t), UNCHANGED agent
  PROVE  OnlyAnnounced'
<1>1. /\ pending[t] # None /\ pending[t] \in Publication
      /\ PublishUpdate(pending[t].depl, pending[t].state)
      /\ pending' = [pending EXCEPT ![t] = None]
      /\ UNCHANGED <<commands, kv, watch, store, tracker, watcher, handler>>
  BY DEF Publish, OrchestratorTypeOK
<1>2. pending[t].depl \in Deployments /\ pending[t].state \in States
  BY <1>1 DEF Publication
<1>3. Keeps /\ lastUpdate'[pending[t].depl] # None
  BY <1>1, <1>2, PublishKeeps
<1>4. HandlerAnnounced'
  <2>1. CASE t = Events
    BY <1>1, <1>3, <2>1 DEF OnlyAnnounced, HandlerAnnounced, Announced, Keeps
  <2>2. CASE t # Events
    <3>1. pending'[Events] = pending[Events]
      BY <1>1, <2>2 DEF OrchestratorTypeOK, Tasks
    <3>2. QED
      BY <1>1, <1>3, <3>1 DEF OnlyAnnounced, HandlerAnnounced, Announced, Keeps
  <2>3. QED
    BY <2>1, <2>2
<1>5. QED
  BY <1>1, <1>3, <1>4, OnlyHandler

LEMMA StartupAnnounced ==
  ASSUME StreamsTypeOK, OrchestratorTypeOK, OnlyAnnounced, StartupStep,
         UNCHANGED agent
  PROVE  OnlyAnnounced'
<1>1. CASE Start
  <2>1. UNCHANGED <<lastUpdate, commands, kv, store, tracker, watcher, handler, pending>>
    BY <1>1 DEF Start
  <2>2. KeysAnnounced'
    BY <1>1, <2>1 DEF Start, OnlyAnnounced, KeysAnnounced, ValueAnnounced, Announced
  <2>3. QED
    BY <2>1, <2>2, UnchangedKeeps, StartsFrame, AgentsFrame, TrackingFrame, HandlerFrame
    DEF OnlyAnnounced
<1>2. CASE Replay
  <2>1. /\ UNCHANGED <<lastUpdate, commands, kv, watch, store, tracker, watcher, handler>>
        /\ pending[Events] # None =>
             pending'[Events] # None /\ pending'[Events].depl = pending[Events].depl
    <3>1. Events \in Tasks
      BY DEF Tasks
    <3>2. pending'[Events] \in {pending[Events], [pending[Events] EXCEPT !.stored = FALSE]}
      BY <1>2, <3>1 DEF Replay
    <3>3. ASSUME pending[Events] # None
          PROVE  /\ [pending[Events] EXCEPT !.stored = FALSE] \in Publication
                 /\ [pending[Events] EXCEPT !.stored = FALSE].depl = pending[Events].depl
      BY <3>1, <3>3 DEF OrchestratorTypeOK, Publication
    <3>4. QED
      BY <1>2, <3>2, <3>3, AbsentAssumption DEF Replay, streamVars
  <2>2. HandlerAnnounced'
    BY <2>1 DEF OnlyAnnounced, HandlerAnnounced, Announced
  <2>3. QED
    BY <2>1, <2>2, UnchangedKeeps, OnlyHandler
<1>3. ASSUME NEW d \in Deployments, CleanUp(d)
      PROVE  OnlyAnnounced'
  <2>1. /\ replay[d] \in States /\ PublishUpdate(d, replay[d])
        /\ UNCHANGED <<commands, kv, watch, store, tracker, watcher, handler, pending>>
    BY <1>3 DEF CleanUp, OrchestratorTypeOK
  <2>2. Keeps
    BY <2>1, PublishKeeps
  <2>3. QED
    BY <2>1, <2>2, HandlerFrame, OnlyHandler DEF OnlyAnnounced
<1>4. CASE Ready
  BY <1>4, UnchangedKeeps, HandlerFrame, OnlyHandler DEF Ready, streamVars, OnlyAnnounced
<1>5. QED
  BY <1>1, <1>2, <1>3, <1>4 DEF StartupStep

(* A crash forgets the tracking and the handler; a failed publish only     *)
(* ends a handler.                                                         *)
LEMMA TroubleAnnounced ==
  ASSUME StreamsTypeOK, OrchestratorTypeOK, OnlyAnnounced,
         Crash \/ EventFails \/ EntryFails, UNCHANGED agent
  PROVE  OnlyAnnounced'
<1>1. CASE Crash
  <2>1. /\ UNCHANGED <<lastUpdate, commands, kv>>
        /\ watch' = [a \in Agents |-> <<>>]
        /\ store' = [a \in Agents |-> None] /\ tracker' = [a \in Agents |-> Absent]
        /\ handler' = IdleHandler /\ watcher' = IdleWatcher
    BY <1>1 DEF Crash, NoMemory
  <2>2. KeysAnnounced'
    BY <2>1 DEF OnlyAnnounced, KeysAnnounced, ValueAnnounced, Announced
  <2>3. TrackingAnnounced' /\ HandlerAnnounced'
    BY <2>1, AbsentAssumption
    DEF TrackingAnnounced, HandlerAnnounced, ValueAnnounced, Announced, IdleHandler,
        IdleWatcher
  <2>4. QED
    BY <2>1, <2>2, <2>3, UnchangedKeeps, StartsFrame, AgentsFrame DEF OnlyAnnounced
<1>2. CASE EventFails
  <2>1. /\ UNCHANGED <<lastUpdate, commands, kv, watch, store, tracker, watcher>>
        /\ handler' = IdleHandler
    BY <1>2 DEF EventFails, streamVars
  <2>2. HandlerAnnounced'
    BY <2>1 DEF HandlerAnnounced, IdleHandler
  <2>3. QED
    BY <2>1, <2>2, UnchangedKeeps, OnlyHandler
<1>3. CASE EntryFails
  <2>1. /\ UNCHANGED <<lastUpdate, commands, kv, watch, store, tracker, handler>>
        /\ watcher' = IdleWatcher
        /\ pending'[Events] = pending[Events]
    BY <1>3 DEF EntryFails, streamVars, OrchestratorTypeOK, Tasks, Events, Entries
  <2>2. HandlerAnnounced'
    BY <2>1 DEF OnlyAnnounced, HandlerAnnounced, Announced
  <2>3. TrackingAnnounced'
    BY <2>1 DEF OnlyAnnounced, TrackingAnnounced, ValueAnnounced, Announced, IdleWatcher
  <2>4. QED
    BY <2>1, <2>2, <2>3, UnchangedKeeps, StartsFrame, AgentsFrame, KeysFrame
    DEF OnlyAnnounced
<1>4. QED
  BY <1>1, <1>2, <1>3
------------------------------------------------------------------------------
(* What leaves the orchestrator alone only has the agent, its key and its  *)
(* commands to account for.                                                *)
LEMMA OnlyAgents ==
  ASSUME OnlyAnnounced, UNCHANGED <<lastUpdate, orchestratorVars>>,
         StartsAreAnnounced', AgentsAnnounced', KeysAnnounced'
  PROVE  OnlyAnnounced'
BY UnchangedKeeps, TrackingFrame, HandlerFrame DEF OnlyAnnounced, orchestratorVars

(* An agent that becomes r, and puts its value or not.                     *)
LEMMA MovesAnnounced ==
  ASSUME StreamsTypeOK, AgentsTypeOK, OnlyAnnounced, UNCHANGED lastUpdate,
         NEW a \in Agents, NEW r \in AgentState,
         Announced(r.depl), Announced(r.next), Moves(a, r)
  PROVE  AgentsAnnounced' /\ KeysAnnounced'
<1>1. agent' = [agent EXCEPT ![a] = r]
  BY DEF Moves, Become
<1>2. AgentsAnnounced'
  BY <1>1 DEF OnlyAnnounced, AgentsAnnounced, AgentsTypeOK, Announced
<1>3. CASE Become(a, r)
  <2>1. ValueOf(r) \in Entry /\ ValueAnnounced(ValueOf(r))
    BY ValueOfType DEF ValueAnnounced, ValueOf
  <2>2. QED
    BY <1>2, <1>3, <2>1, SetKeyKeys DEF Become, OnlyAnnounced
<1>4. CASE UNCHANGED <<kv, watch>>
  BY <1>2, <1>4, UnchangedKeeps, KeysFrame DEF OnlyAnnounced
<1>5. QED
  BY <1>3, <1>4 DEF Moves

LEMMA CommandStepAnnounced ==
  ASSUME StreamsTypeOK, AgentsTypeOK, OnlyAnnounced, NEW a \in Agents,
         CommandStep(a), UNCHANGED orchestratorVars
  PROVE  OnlyAnnounced'
<1>. DEFINE cmd == Head(commands[a])
<1>1. /\ agent[a] \in AgentState
      /\ Announced(agent[a].depl) /\ Announced(agent[a].next) /\ Announced(None)
  BY NoneAssumption DEF AgentsTypeOK, OnlyAnnounced, AgentsAnnounced, Announced
<1>2. ASSUME NEW type, TakeCommand(a, type)
      PROVE  /\ cmd.depl \in Deployments /\ StartsAreAnnounced'
             /\ type = "START" => Announced(cmd.depl)
             /\ UNCHANGED lastUpdate
  BY <1>2, TakeCommandType, TakeCommandStarts
  DEF TakeCommand, Quiet, Command, OnlyAnnounced
<1>3. ASSUME NEW type, TakeCommand(a, type), NEW r \in AgentState, Moves(a, r),
             Announced(r.depl), Announced(r.next)
      PROVE  OnlyAnnounced'
  BY <1>2, <1>3, MovesAnnounced, OnlyAgents
<1>4. CASE StartDeployment(a)
  <2>. DEFINE r == [agent[a] EXCEPT !.phase = "assigned", !.depl = cmd.depl]
  <2>1. Moves(a, r) /\ TakeCommand(a, "START")
    BY <1>4 DEF StartDeployment, Moves, AgentsTypeOK
  <2>2. r \in AgentState /\ r.depl = cmd.depl /\ r.next = agent[a].next
    BY <1>1, <1>2, <2>1 DEF AgentState, Phases
  <2>3. Announced(r.depl) /\ Announced(r.next)
    BY <1>1, <1>2, <2>1, <2>2
  <2>4. QED
    BY <1>3, <2>1, <2>2, <2>3
<1>5. CASE ReplaceDeployment(a)
  <2>1. TakeCommand(a, "START") /\ CancelAndWait(a, "start", cmd.depl)
    BY <1>5 DEF ReplaceDeployment
  <2>2. PICK r \in AgentState : /\ Moves(a, r) /\ r.depl = agent[a].depl
                                /\ r.next \in {agent[a].next, cmd.depl}
    BY <1>2, <2>1, CancelAndWaitMoves
  <2>3. Announced(r.depl) /\ Announced(r.next)
    BY <1>1, <1>2, <2>1, <2>2
  <2>4. QED
    BY <1>3, <2>1, <2>2, <2>3
<1>6. CASE StopDeployment(a)
  <2>. DEFINE f == [agent[a] EXCEPT !.depl = None]
  <2>1. /\ TakeCommand(a, "STOP")
        /\ CancelAndWait(a, "stop", None) \/ Moves(a, f)
    BY <1>6 DEF StopDeployment, Moves, AgentsTypeOK
  <2>2. f \in AgentState /\ f.depl = None /\ f.next = agent[a].next
    BY <1>1 DEF AgentState
  <2>3. CASE CancelAndWait(a, "stop", None)
    <3>1. PICK r \in AgentState : /\ Moves(a, r) /\ r.depl = agent[a].depl
                                  /\ r.next \in {agent[a].next, None}
      BY <2>3, CancelAndWaitMoves
    <3>2. QED
      BY <1>1, <1>3, <2>1, <3>1
  <2>4. CASE Moves(a, f)
    BY <1>1, <1>3, <2>1, <2>2, <2>4
  <2>5. QED
    BY <2>1, <2>3, <2>4
<1>7. CASE IgnoreCommand(a)
  <2>1. /\ \E type \in CommandTypes : TakeCommand(a, type)
        /\ UNCHANGED <<agent, kv, watch>>
    BY <1>7 DEF IgnoreCommand, CommandTypes
  <2>2. QED
    BY <1>2, <2>1, UnchangedKeeps, AgentsFrame, KeysFrame, OnlyAgents DEF OnlyAnnounced
<1>8. QED
  BY <1>4, <1>5, <1>6, <1>7 DEF CommandStep

(* A step that takes no command: the agent becomes r, whose deployments    *)
(* are among those it had.                                                 *)
LEMMA AgentMovesAnnounced ==
  ASSUME StreamsTypeOK, AgentsTypeOK, OnlyAnnounced, NEW a \in Agents,
         NEW r \in AgentState, Moves(a, r),
         {r.depl, r.next} \subseteq {agent[a].depl, agent[a].next, None},
         UNCHANGED commands, Quiet, UNCHANGED orchestratorVars
  PROVE  OnlyAnnounced'
<1>1. Announced(agent[a].depl) /\ Announced(agent[a].next) /\ Announced(None)
  BY NoneAssumption DEF OnlyAnnounced, AgentsAnnounced, Announced
<1>2. Announced(r.depl) /\ Announced(r.next)
  BY <1>1
<1>3. UNCHANGED lastUpdate
  BY DEF Quiet
<1>4. AgentsAnnounced' /\ KeysAnnounced'
  BY <1>2, <1>3, MovesAnnounced
<1>5. StartsAreAnnounced'
  BY <1>3, UnchangedKeeps, StartsFrame DEF OnlyAnnounced
<1>6. QED
  BY <1>3, <1>4, <1>5, OnlyAgents

(* A step that takes no command, or forgets them all, and sets the key to  *)
(* v while the agent becomes r.                                            *)
LEMMA AgentPutsAnnounced ==
  ASSUME StreamsTypeOK, AgentsTypeOK, OnlyAnnounced, NEW a \in Agents,
         NEW r \in AgentState, NEW v \in Entry,
         {r.depl, r.next} \subseteq {agent[a].depl, agent[a].next, None},
         v # None => v.depl = agent[a].depl,
         agent' = [agent EXCEPT ![a] = r], SetKey(a, v),
         \/ UNCHANGED commands
         \/ commands' = [commands EXCEPT ![a] = <<>>],
         Quiet, UNCHANGED orchestratorVars
  PROVE  OnlyAnnounced'
<1>1. Announced(agent[a].depl) /\ Announced(agent[a].next) /\ Announced(None)
  BY NoneAssumption DEF OnlyAnnounced, AgentsAnnounced, Announced
<1>2. UNCHANGED lastUpdate /\ ValueAnnounced(v) /\ Announced(r.depl) /\ Announced(r.next)
  BY <1>1 DEF Quiet, ValueAnnounced
<1>3. AgentsAnnounced'
  BY <1>2 DEF OnlyAnnounced, AgentsAnnounced, AgentsTypeOK, Announced
<1>4. KeysAnnounced'
  BY <1>2, SetKeyKeys DEF OnlyAnnounced
<1>5. StartsAreAnnounced'
  BY <1>2 DEF OnlyAnnounced, StartsAreAnnounced, StreamsTypeOK
<1>6. QED
  BY <1>2, <1>3, <1>4, <1>5, OnlyAgents

LEMMA OtherAgentStepAnnounced ==
  ASSUME StreamsTypeOK, AgentsTypeOK, OnlyAnnounced, NEW a \in Agents,
         \/ DeploymentStep(a) \/ Heartbeat(a) \/ LeavingStep(a) \/ Connect(a)
         \/ RequestShutdown(a) \/ Dies(a) \/ Errors(a) \/ Collapses(a),
         UNCHANGED orchestratorVars
  PROVE  OnlyAnnounced'
<1>1. agent[a] \in AgentState
  BY DEF AgentsTypeOK
<1>2. CASE Cleans(a) \/ Starts(a) \/ Runs(a) \/ Recovers(a)
           \/ Errors(a) \/ Collapses(a)
  <2>1. PICK r \in AgentState : /\ Moves(a, r) /\ r.depl = agent[a].depl
                                /\ r.next = agent[a].next
                                /\ UNCHANGED commands /\ Quiet
    BY <1>2, StepsOfDeployment, StepMoves
  <2>2. QED
    BY <2>1, AgentMovesAnnounced
<1>3. CASE TornDown(a)
  <2>1. UNCHANGED commands /\ Quiet
    BY <1>3 DEF TornDown
  <2>2. PICK r \in AgentState, v \in Entry :
          /\ agent' = [agent EXCEPT ![a] = r] /\ SetKey(a, v)
          /\ v # None => v.depl = agent[a].depl
          /\ r.depl \in {agent[a].depl, None} /\ r.next = agent[a].next
    BY <1>3, TornDownMoves
  <2>3. QED
    BY <2>1, <2>2, AgentPutsAnnounced
<1>4. CASE BeginNext(a)
  <2>1. PICK r \in AgentState :
          Moves(a, r) /\ r.depl = agent[a].next /\ r.next = None
    BY <1>4, BeginNextMoves
  <2>2. QED
    BY <1>4, <2>1, AgentMovesAnnounced DEF BeginNext
<1>5. CASE Heartbeat(a)
  <2>1. ValueOf(agent[a]) \in Entry /\ ValueOf(agent[a]).depl = agent[a].depl
    BY <1>1, ValueOfType DEF ValueOf
  <2>2. agent' = [agent EXCEPT ![a] = agent[a]]
    BY <1>5 DEF Heartbeat, AgentsTypeOK
  <2>3. QED
    BY <1>1, <1>5, <2>1, <2>2, AgentPutsAnnounced DEF Heartbeat
<1>6. CASE ShutDown(a)
  <2>1. PICK r \in AgentState :
          /\ Moves(a, r)
          /\ {r.depl, r.next} \subseteq {agent[a].depl, agent[a].next, None}
    BY <1>6, ShutDownMoves
  <2>2. QED
    BY <1>6, <2>1, AgentMovesAnnounced DEF ShutDown
<1>7. CASE Connect(a) \/ RequestShutdown(a)
  <2>1. PICK r \in AgentState :
          Moves(a, r) /\ r.depl = agent[a].depl /\ r.next = agent[a].next
    BY <1>7, ConnectMoves, RequestShutdownMoves
  <2>2. QED
    BY <1>7, <2>1, AgentMovesAnnounced DEF Connect, RequestShutdown
<1>8. CASE Expires(a)
  <2>1. agent' = [agent EXCEPT ![a] = agent[a]] /\ None \in Entry
    BY <1>8 DEF Expires, AgentsTypeOK, Entry
  <2>2. QED
    BY <1>1, <1>8, <2>1, AgentPutsAnnounced DEF Expires
<1>9. CASE Leave(a)
  <2>1. /\ agent' = [agent EXCEPT ![a] = At("gone")] /\ SetKey(a, None) /\ Quiet
        /\ commands' = [commands EXCEPT ![a] = <<>>] /\ None \in Entry
    BY <1>9 DEF Leave, Gone, Entry
  <2>2. QED
    BY <2>1, GoneState, AgentPutsAnnounced
<1>10. CASE Dies(a)
  <2>1. /\ Moves(a, At("gone")) /\ UNCHANGED lastUpdate
        /\ commands' = [commands EXCEPT ![a] = <<>>]
    BY <1>10 DEF Dies, Gone, Quiet, Moves
  <2>2. AgentsAnnounced' /\ KeysAnnounced'
    BY <2>1, GoneState, NoneAssumption, MovesAnnounced DEF Announced
  <2>3. StartsAreAnnounced'
    BY <2>1 DEF OnlyAnnounced, StartsAreAnnounced, StreamsTypeOK
  <2>4. QED
    BY <2>1, <2>2, <2>3, OnlyAgents
<1>11. QED
  BY <1>2, <1>3, <1>4, <1>5, <1>6, <1>7, <1>8, <1>9, <1>10
  DEF DeploymentStep, LeavingStep

(* Requests of users, and what the app does with updates, touch none of    *)
(* the invariant's state.                                                  *)
LEMMA AppAnnounced ==
  ASSUME StreamsTypeOK, OnlyAnnounced, UNCHANGED <<orchestratorVars, agent>>,
         \/ UNCHANGED streamVars \/ AppUnchanged
  PROVE  OnlyAnnounced'
<1>1. UNCHANGED <<lastUpdate, commands, kv, watch>>
  BY DEF streamVars, AppUnchanged
<1>2. QED
  BY <1>1, UnchangedKeeps, StartsFrame, AgentsFrame, KeysFrame, OnlyAgents
  DEF OnlyAnnounced

LEMMA SupersedeAnnounced ==
  ASSUME StreamsTypeOK, OnlyAnnounced, UNCHANGED <<orchestratorVars, agent>>,
         NEW a \in Agents, Supersede(a)
  PROVE  OnlyAnnounced'
<1>1. /\ watch[a] \in Seq(Entry) /\ watch[a] # <<>>
      /\ watch' = [watch EXCEPT ![a] = Tail(@)]
      /\ UNCHANGED <<lastUpdate, commands, kv>>
  BY DEF StreamsTypeOK, Supersede
<1>2. \A i \in DOMAIN Tail(watch[a]) :
        i + 1 \in DOMAIN watch[a] /\ Tail(watch[a])[i] = watch[a][i + 1]
  BY <1>1, HeadTailProperties, LenProperties
<1>3. \A b \in Agents : \A i \in DOMAIN watch'[b] : ValueAnnounced(watch'[b][i])
  <2>. SUFFICES ASSUME NEW b \in Agents, NEW i \in DOMAIN watch'[b]
                PROVE  ValueAnnounced(watch'[b][i])
    OBVIOUS
  <2>1. CASE b = a
    BY <1>1, <1>2, <2>1 DEF OnlyAnnounced, KeysAnnounced, StreamsTypeOK
  <2>2. CASE b # a
    BY <1>1, <2>2 DEF OnlyAnnounced, KeysAnnounced, StreamsTypeOK
  <2>3. QED
    BY <2>1, <2>2
<1>4. KeysAnnounced'
  BY <1>1, <1>3 DEF OnlyAnnounced, KeysAnnounced, ValueAnnounced, Announced
<1>5. QED
  BY <1>1, <1>4, UnchangedKeeps, StartsFrame, AgentsFrame, OnlyAgents DEF OnlyAnnounced

------------------------------------------------------------------------------
LEMMA InitAnnounced == Init => OnlyAnnounced
<1>. SUFFICES ASSUME Init PROVE OnlyAnnounced
  OBVIOUS
<1>1. StartsAreAnnounced /\ KeysAnnounced
  BY DEF Init, StreamsInit, StartsAreAnnounced, KeysAnnounced, ValueAnnounced
<1>2. AgentsAnnounced
  BY NoneAssumption DEF Init, AgentsInit, At, AgentsAnnounced, Announced
<1>3. TrackingAnnounced /\ HandlerAnnounced
  BY AbsentAssumption
  DEF Init, OrchestratorInit, TrackingAnnounced, HandlerAnnounced, ValueAnnounced,
      Announced, IdleHandler, IdleWatcher
<1>4. QED
  BY <1>1, <1>2, <1>3 DEF OnlyAnnounced

LEMMA NextAnnounced == TypeOK /\ OnlyAnnounced /\ [Next]_vars => OnlyAnnounced'
<1>. SUFFICES ASSUME TypeOK, OnlyAnnounced, [Next]_vars PROVE OnlyAnnounced'
  OBVIOUS
<1>. USE DEF TypeOK
<1>1. CASE Request \/ Consume
  <2>1. AppUnchanged /\ UNCHANGED <<orchestratorVars, agent>>
    BY <1>1 DEF Request, Consume, OfApp, CreateDeployment, UpdateDeployment,
                RestartOperator, ConsumeUpdate
  <2>2. QED
    BY <2>1, AppAnnounced
<1>2. CASE Orchestrate
  <2>1. OrchestratorStep /\ UNCHANGED agent
    BY <1>2 DEF Orchestrate, OfOrchestrator
  <2>2. QED
    BY <2>1, EventStepAnnounced, EntryStepAnnounced, RelinkForgetAnnounced,
       PublishAnnounced, StartupAnnounced DEF OrchestratorStep
<1>3. CASE Trouble
  <2>1. CASE \/ OfOrchestrator(Crash /\ Spend("crash"))
             \/ OfOrchestrator((EventFails \/ EntryFails) /\ Spend("failure"))
    BY <2>1, TroubleAnnounced DEF OfOrchestrator
  <2>2. CASE OfApp((RestartApp \/ \E d \in Deployments : CreateLost(d) \/ UpdateLost(d))
                   /\ Spend("failure"))
    <3>1. /\ UNCHANGED streamVars \/ AppUnchanged
          /\ UNCHANGED <<orchestratorVars, agent>>
      BY <2>2 DEF OfApp, RestartApp, CreateLost, UpdateLost
    <3>2. QED
      BY <3>1, AppAnnounced
  <2>3. QED
    BY <1>3, <2>1, <2>2 DEF Trouble
<1>4. CASE Overwrite
  BY <1>4, SupersedeAnnounced DEF Overwrite
<1>5. ASSUME NEW a \in Agents, AgentWorks(a) \/ AgentJoins(a) \/ AgentTrouble(a)
      PROVE  OnlyAnnounced'
  <2>1. /\ \/ CommandStep(a) \/ DeploymentStep(a) \/ Heartbeat(a) \/ LeavingStep(a)
           \/ Connect(a) \/ RequestShutdown(a) \/ Dies(a) \/ Errors(a) \/ Collapses(a)
        /\ UNCHANGED orchestratorVars
    BY <1>5 DEF AgentWorks, AgentJoins, AgentTrouble, OfAgents
  <2>2. QED
    BY <2>1, CommandStepAnnounced, OtherAgentStepAnnounced
<1>6. CASE UNCHANGED vars
  BY <1>6, AppAnnounced DEF vars
<1>7. QED
  BY <1>1, <1>2, <1>3, <1>4, <1>5, <1>6 DEF Next

(* The strengthened invariant holds in every run.                          *)
THEOREM AnnouncedFirst == Spec => []OnlyAnnounced
<1>1. Init => TypeOK /\ OnlyAnnounced
  BY InitType, InitAnnounced
<1>2. TypeOK /\ OnlyAnnounced /\ [Next]_vars => (TypeOK /\ OnlyAnnounced)'
  BY NextType, NextAnnounced
<1>3. QED
  BY <1>1, <1>2, PTL DEF Spec

(* No START is on its way to an agent before the orchestrator has          *)
(* published a state of the deployment.                                    *)
THEOREM NoStartUnannounced == Spec => []StartsAreAnnounced
<1>1. OnlyAnnounced => StartsAreAnnounced
  BY DEF OnlyAnnounced
<1>2. QED
  BY <1>1, AnnouncedFirst, PTL

------------------------------------------------------------------------------
(* A deployment that an agent is linked to is over, or it is the one that  *)
(* the store has for the agent.                                            *)
SafeLink(a) ==
  tracker[a] \in Deployments =>
    \/ sm[tracker[a]] \in Terminal
    \/ store[a] # None /\ store[a].depl = tracker[a]

(* While an entry is dealt with the store has its value already; until the *)
(* process is ready it tracks nothing.                                     *)
EntryUnderWay ==
  /\ watcher.pc = "relinking" =>
       /\ store[watcher.agent] = watcher.val
       /\ watcher.val.depl # watcher.old.depl
  /\ watcher.pc = "forgetting" => store[watcher.agent] = None
  /\ boot # "ready" => watcher.pc = "idle" /\ \A a \in Agents : tracker[a] = Absent

(* What the trackers guarantee whatever fails.                             *)
Linked == EntryUnderWay /\ \A a \in Agents : SafeLink(a)

TerminalKept == \A d \in Deployments : sm[d] \in Terminal => sm'[d] \in Terminal

(* The deployments that begin to run are among D.                          *)
OnlyStarts(D) ==
  \A d \in Deployments : sm[d] # "RUNNING" /\ sm'[d] = "RUNNING" => d \in D

------------------------------------------------------------------------------
LEMMA FireEffect ==
  ASSUME OrchestratorTypeOK, NEW k, NEW t \in Triggers, NEW d \in Deployments,
         Fire(k, t, d)
  PROVE  /\ TerminalKept
         /\ OnlyStarts(IF t = "start" THEN {d} ELSE {})
         /\ t = "cancel" => sm'[d] = "CANCELLED"
<1>. DEFINE s == Machine(d)
<1>1. /\ s \in Sources[t] /\ sm' = [sm EXCEPT ![d] = Target(t, s)]
      /\ sm[d] = None \/ sm[d] = s
  BY DEF Fire, Accepts, Machine
<1>2. /\ s \in Terminal => s = "CANCELLED" /\ t = "cancel"
      /\ t = "cancel" => Target(t, s) = "CANCELLED"
      /\ Target(t, s) = "RUNNING" => t = "start"
  BY <1>1 DEF Sources, Terminal, Target, Destination, Triggers
<1>3. sm'[d] = Target(t, s) /\ \A e \in Deployments \ {d} : sm'[e] = sm[e]
  BY <1>1 DEF OrchestratorTypeOK
<1>4. None \notin Terminal
  BY NoneAssumption DEF Terminal, States
<1>5. TerminalKept
  <2>. SUFFICES ASSUME NEW e \in Deployments, sm[e] \in Terminal
                PROVE  sm'[e] \in Terminal
    BY DEF TerminalKept
  <2>1. CASE e = d
    BY <1>1, <1>2, <1>3, <1>4, <2>1 DEF Terminal
  <2>2. QED
    BY <1>3, <2>1
<1>6. QED
  BY <1>2, <1>3, <1>5 DEF OnlyStarts

LEMMA TouchEffect ==
  ASSUME OrchestratorTypeOK, NEW d \in Deployments, Touch(d)
  PROVE  TerminalKept /\ OnlyStarts({})
<1>1. /\ sm'[d] = sm[d] \/ sm'[d] = "PENDING"
      /\ sm[d] # None => sm'[d] = sm[d]
      /\ \A e \in Deployments \ {d} : sm'[e] = sm[e]
  BY DEF Touch, Machine, OrchestratorTypeOK
<1>2. None \notin Terminal
  BY NoneAssumption DEF Terminal, States
<1>3. QED
  BY <1>1, <1>2 DEF TerminalKept, OnlyStarts

LEMMA UnchangedEffect == UNCHANGED sm => TerminalKept /\ OnlyStarts({})
BY DEF TerminalKept, OnlyStarts

(* The handler of events ends no agent's link and starts nothing.          *)
LEMMA EventStepEffect ==
  ASSUME StreamsTypeOK, OrchestratorTypeOK, EventStep
  PROVE  /\ TerminalKept /\ OnlyStarts({})
         /\ UNCHANGED <<boot, store, tracker, watcher>>
<1>1. UNCHANGED <<boot, store, tracker, watcher>>
  BY DEF EventStep, HandleRun, HandleRunRaises, HandleStop, HandleStopRaises,
         HandleRestart, HandleRestartRaises, TakeEvent, SendStarts, SendStops,
         SendRestarts, SendCommands, EventDone
<1>2. \/ UNCHANGED sm
      \/ /\ Head(events).depl \in Deployments
         /\ \/ \E t \in {"assign", "start_failure", "cancel"} :
                 Fire(Events, t, Head(events).depl)
            \/ Touch(Head(events).depl)
  <2>1. CASE HandleRun \/ HandleRunRaises \/ HandleStop \/ HandleStopRaises
             \/ HandleRestartRaises
    <3>1. \E type : TakeEvent(type)
      BY <2>1 DEF HandleRun, HandleRunRaises, HandleStop, HandleStopRaises,
                  HandleRestartRaises
    <3>2. Head(events).depl \in Deployments
      BY <3>1, TakeEventType
    <3>3. QED
      BY <2>1, <3>2 DEF HandleRun, HandleRunRaises, HandleStop, HandleStopRaises,
                        HandleRestartRaises, RejectEvent, Refuse
  <2>2. CASE HandleRestart \/ SendStarts \/ SendStops \/ SendRestarts \/ EventDone
    BY <2>2 DEF HandleRestart, SendStarts, SendStops, SendRestarts, SendCommands,
                EventDone
  <2>3. QED
    BY <2>1, <2>2 DEF EventStep
<1>3. QED
  BY <1>1, <1>2, FireEffect, TouchEffect, UnchangedEffect DEF Triggers

(* The rest of AgentTracker.update: the agent is linked to the deployment  *)
(* that its value names, or keeps the link it had, and a deployment begins *)
(* to run only by the value that says so.                                  *)
LEMMA ReportEffect ==
  ASSUME OrchestratorTypeOK, NEW a \in Agents, NEW val \in AgentVal,
         NEW old \in AgentVal, Report(a, val, old),
         tracker[a] \in Deployments =>
           tracker[a] = val.depl \/ sm[tracker[a]] \in Terminal
  PROVE  /\ TerminalKept
         /\ OnlyStarts(IF val.status = "DEPLOYMENT_RUNNING" THEN {val.depl} ELSE {})
         /\ OnlyStarts({tracker'[a]})
         /\ \E link \in Deployments \cup {None} :
              /\ tracker' = [tracker EXCEPT ![a] = link]
              /\ \/ link = val.depl
                 \/ val.depl = old.depl /\ link = None /\ tracker[a] \in {None, Absent}
                 \/ val.depl = old.depl /\ link = tracker[a] /\ sm[link] \in Terminal
<1>. DEFINE link == IF val.depl # old.depl THEN val.depl
                    ELSE IF tracker[a] = Absent THEN None ELSE tracker[a]
            fires == /\ val.status # old.status
                     /\ val.status \in DOMAIN StatusTrigger
            t == StatusTrigger[val.status]
<1>1. link \in Deployments \cup {None}
  BY DEF AgentVal, OrchestratorTypeOK
<1>2. /\ tracker' = [tracker EXCEPT ![a] = link]
      /\ IF link = None THEN UNCHANGED <<sm, pending>>
         ELSE IF ~fires THEN Touch(link)
         ELSE Fire(Entries, t, link) \/ Refuse(t, link)
  BY DEF Report
<1>3. /\ \/ link = val.depl
         \/ val.depl = old.depl /\ link = None /\ tracker[a] \in {None, Absent}
         \/ val.depl = old.depl /\ link = tracker[a] /\ sm[link] \in Terminal
      /\ tracker'[a] = link
  BY <1>1, <1>2 DEF OrchestratorTypeOK
<1>4. /\ TerminalKept
      /\ \/ OnlyStarts({})
         \/ OnlyStarts({link}) /\ val.status = "DEPLOYMENT_RUNNING"
  <2>1. CASE link # None /\ fires /\ Fire(Entries, t, link)
    <3>1. t \in Triggers /\ (t = "start" => val.status = "DEPLOYMENT_RUNNING")
      BY <2>1 DEF StatusTrigger, Triggers
    <3>2. TerminalKept /\ OnlyStarts(IF t = "start" THEN {link} ELSE {})
      BY <1>1, <2>1, <3>1, FireEffect
    <3>3. QED
      BY <3>1, <3>2
  <2>2. CASE link # None /\ Touch(link)
    BY <1>1, <2>2, TouchEffect
  <2>3. CASE UNCHANGED sm
    BY <2>3, UnchangedEffect
  <2>4. QED
    BY <1>2, <2>1, <2>2, <2>3 DEF Refuse
<1>5. sm[link] \in Terminal => sm[link] # "RUNNING" /\ (link \in Deployments => sm'[link] # "RUNNING")
  BY <1>4 DEF TerminalKept, Terminal
<1>6. OnlyStarts(IF val.status = "DEPLOYMENT_RUNNING" THEN {val.depl} ELSE {})
  BY <1>1, <1>3, <1>4, <1>5, NoneAssumption DEF OnlyStarts
<1>7. QED
  BY <1>1, <1>2, <1>3, <1>4, <1>6 DEF OnlyStarts

------------------------------------------------------------------------------
(* A deployment that runs is linked to an agent.                           *)
RunningLinked ==
  \A d \in Deployments : sm[d] = "RUNNING" => \E a \in Agents : tracker[a] = d

(* What StatusCredited says of a step.                                     *)
Credited ==
  \A d \in Deployments :
    (sm[d] # "RUNNING" /\ sm'[d] = "RUNNING" /\ boot = "ready") =>
      \E a \in Agents :
        store'[a] = [status |-> "DEPLOYMENT_RUNNING", depl |-> d]

(* An entry that is dealt with keeps every link safe.                      *)
LEMMA ReportLinked ==
  ASSUME OrchestratorTypeOK, NEW a \in Agents, NEW val \in AgentVal,
         NEW old \in AgentVal, Report(a, val, old),
         tracker[a] \in Deployments =>
           tracker[a] = val.depl \/ sm[tracker[a]] \in Terminal,
         \A b \in Agents \ {a} : SafeLink(b),
         store' = [store EXCEPT ![a] = val],
         EntryUnderWay'
  PROVE  Linked' /\ Credited /\ (RunningLinked => RunningLinked')
<1>1. PICK link \in Deployments \cup {None} :
        /\ tracker' = [tracker EXCEPT ![a] = link]
        /\ \/ link = val.depl
           \/ val.depl = old.depl /\ link = None /\ tracker[a] \in {None, Absent}
           \/ val.depl = old.depl /\ link = tracker[a] /\ sm[link] \in Terminal
  BY ReportEffect, ZenonT(30)
<1>2. /\ TerminalKept /\ OnlyStarts({tracker'[a]})
      /\ OnlyStarts(IF val.status = "DEPLOYMENT_RUNNING" THEN {val.depl} ELSE {})
  BY ReportEffect
<1>3. /\ tracker'[a] = link /\ \A b \in Agents \ {a} : tracker'[b] = tracker[b]
      /\ store'[a] = val /\ \A b \in Agents \ {a} : store'[b] = store[b]
      /\ val # None
  BY <1>1, ValueAssumption DEF OrchestratorTypeOK, Entry
<1>4. None \notin Deployments /\ Absent \notin Deployments /\ "RUNNING" \notin Terminal
  BY NoneAssumption, AbsentAssumption DEF Terminal
<1>5. SafeLink(a)'
  BY <1>1, <1>2, <1>3, <1>4 DEF SafeLink, TerminalKept
<1>6. \A b \in Agents \ {a} : SafeLink(b)'
  BY <1>2, <1>3 DEF SafeLink, TerminalKept
<1>7. Credited
  <2>. SUFFICES ASSUME NEW d \in Deployments, sm[d] # "RUNNING", sm'[d] = "RUNNING"
                PROVE  store'[a] = [status |-> "DEPLOYMENT_RUNNING", depl |-> d]
    BY DEF Credited
  <2>1. val.status = "DEPLOYMENT_RUNNING" /\ val.depl = d
    BY <1>2 DEF OnlyStarts
  <2>2. QED
    BY <1>3, <2>1 DEF AgentVal
<1>8. ASSUME RunningLinked, NEW d \in Deployments, sm'[d] = "RUNNING"
      PROVE  \E b \in Agents : tracker'[b] = d
  <2>1. CASE sm[d] = "RUNNING"
    <3>1. PICK b \in Agents : tracker[b] = d
      BY <1>8, <2>1 DEF RunningLinked
    <3>2. CASE b = a
      <4>1. tracker[a] = val.depl
        BY <1>4, <2>1, <3>1, <3>2
      <4>2. link = d
        BY <1>1, <1>4, <2>1, <3>1, <3>2, <4>1
      <4>3. QED
        BY <1>3, <4>2
    <3>3. CASE b # a
      BY <1>3, <3>1, <3>3
    <3>4. QED
      BY <3>2, <3>3
  <2>2. CASE sm[d] # "RUNNING"
    BY <1>2, <1>8, <2>2 DEF OnlyStarts
  <2>3. QED
    BY <2>1, <2>2
<1>9. RunningLinked => RunningLinked'
  BY <1>8 DEF RunningLinked
<1>10. QED
  BY <1>5, <1>6, <1>7, <1>9 DEF Linked

(* The tracker of an agent goes: what it was linked to is over.            *)
LEMMA UnlinkLinked ==
  ASSUME OrchestratorTypeOK, NEW a \in Agents, UNCHANGED sm,
         tracker[a] \in Deployments => sm[tracker[a]] \in Terminal,
         NEW t \in {None, Absent}, tracker' = [tracker EXCEPT ![a] = t],
         \A b \in Agents \ {a} : SafeLink(b) /\ store'[b] = store[b],
         EntryUnderWay'
  PROVE  Linked' /\ Credited /\ (RunningLinked => RunningLinked')
<1>1. /\ tracker'[a] = t /\ \A b \in Agents \ {a} : tracker'[b] = tracker[b]
      /\ t \notin Deployments /\ "RUNNING" \notin Terminal
  BY NoneAssumption, AbsentAssumption DEF OrchestratorTypeOK, Terminal
<1>2. Linked'
  BY <1>1 DEF Linked, SafeLink
<1>3. Credited
  BY DEF Credited
<1>4. RunningLinked => RunningLinked'
  BY <1>1 DEF RunningLinked
<1>5. QED
  BY <1>2, <1>3, <1>4

(* No link changes, and no deployment begins to run.                       *)
LEMMA LinksFrame ==
  ASSUME Linked, TerminalKept, OnlyStarts({}), UNCHANGED <<store, tracker>>,
         EntryUnderWay'
  PROVE  Linked' /\ Credited /\ (RunningLinked => RunningLinked')
BY DEF Linked, SafeLink, TerminalKept, OnlyStarts, Credited, RunningLinked

LEMMA EntryStepLinked ==
  ASSUME StreamsTypeOK, OrchestratorTypeOK, Linked, NEW a \in Agents, EntryStep(a)
  PROVE  Linked' /\ Credited /\ (RunningLinked => RunningLinked')
<1>. DEFINE val == Head(watch[a])
            old == store[a]
<1>1. /\ TakeEntry(a) /\ boot = "ready" /\ watcher.pc = "idle"
      /\ store' = [store EXCEPT ![a] = val] /\ UNCHANGED boot
  BY DEF EntryStep, FirstEntry, CancelReplaced, UpdateEntry, DeletedEntry, TakeEntry
<1>2. /\ val \in Entry /\ old \in Entry
      /\ store'[a] = val /\ \A b \in Agents \ {a} : store'[b] = store[b]
  BY <1>1, TakeEntryType DEF OrchestratorTypeOK
<1>3. /\ None \notin Deployments /\ Absent \notin Deployments
      /\ \A d \in Deployments : sm[d] # None /\ Machine(d) \in Terminal => sm[d] \in Terminal
      /\ "PENDING" \notin Terminal
  BY NoneAssumption, AbsentAssumption DEF Machine, Terminal
<1>4. ASSUME UNCHANGED watcher PROVE EntryUnderWay'
  BY <1>1, <1>4 DEF EntryUnderWay
<1>5. SafeLink(a) /\ \A b \in Agents \ {a} : SafeLink(b)
  BY DEF Linked
<1>6. CASE FirstEntry(a)
  <2>1. /\ val # None /\ old = None /\ UNCHANGED <<sm, watcher>>
        /\ tracker' = [tracker EXCEPT ![a] = IF @ = Absent THEN None ELSE @]
    BY <1>6 DEF FirstEntry
  <2>2. tracker[a] \in Deployments => sm[tracker[a]] \in Terminal
    BY <1>5, <2>1 DEF SafeLink
  <2>3. CASE tracker[a] \in {None, Absent}
    <3>1. tracker' = [tracker EXCEPT ![a] = None]
      BY <2>1, <2>3 DEF OrchestratorTypeOK
    <3>2. QED
      BY <1>2, <1>4, <1>5, <2>1, <2>2, <3>1, UnlinkLinked
  <2>4. CASE tracker[a] \in Deployments
    <3>1. UNCHANGED tracker
      BY <1>3, <2>1, <2>4 DEF OrchestratorTypeOK
    <3>2. Linked'
      BY <1>2, <1>4, <1>5, <2>1, <2>2, <3>1 DEF Linked, SafeLink
    <3>3. QED
      BY <2>1, <3>1, <3>2 DEF Credited, RunningLinked
  <2>5. QED
    BY <2>3, <2>4 DEF OrchestratorTypeOK
<1>7. CASE CancelReplaced(a)
  <2>1. /\ val # None /\ old # None /\ old.depl # None /\ val.depl # old.depl
        /\ Fire(Entries, "cancel", old.depl) /\ UNCHANGED tracker
        /\ watcher' = [pc |-> "relinking", agent |-> a, val |-> val, old |-> old]
    BY <1>7 DEF CancelReplaced, Replaces
  <2>2. old.depl \in Deployments
    BY <1>2, <2>1 DEF Entry, AgentVal
  <2>3. TerminalKept /\ OnlyStarts({}) /\ sm'[old.depl] \in Terminal
    BY <2>1, <2>2, FireEffect DEF Triggers, Terminal
  <2>4. EntryUnderWay'
    BY <1>1, <1>2, <2>1 DEF EntryUnderWay
  <2>5. SafeLink(a)'
    BY <1>5, <2>1, <2>3 DEF SafeLink, TerminalKept
  <2>6. \A b \in Agents \ {a} : SafeLink(b)'
    BY <1>2, <1>5, <2>1, <2>3 DEF SafeLink, TerminalKept
  <2>7. Credited /\ (RunningLinked => RunningLinked')
    BY <2>1, <2>3 DEF OnlyStarts, Credited, RunningLinked
  <2>8. QED
    BY <2>4, <2>5, <2>6, <2>7 DEF Linked
<1>8. CASE UpdateEntry(a)
  <2>1. /\ val # None /\ old # None /\ ~Replaces(val, old) /\ Report(a, val, old)
        /\ UNCHANGED watcher
    BY <1>8 DEF UpdateEntry
  <2>2. val \in AgentVal /\ old \in AgentVal
    BY <1>2, <2>1 DEF Entry
  <2>3. tracker[a] \in Deployments =>
          tracker[a] = old.depl \/ sm[tracker[a]] \in Terminal
    BY <1>5 DEF SafeLink
  <2>4. (val.depl # old.depl /\ tracker[a] \in Deployments) =>
          sm[tracker[a]] \in Terminal
    BY <1>3, <2>1, <2>3 DEF Replaces, Machine
  <2>5. QED
    BY <1>1, <1>4, <1>5, <2>1, <2>2, <2>3, <2>4, ReportLinked
<1>9. CASE DeletedEntry(a)
  <2>1. CASE tracker[a] \in Deployments /\ Machine(tracker[a]) \notin Terminal
    <3>1. /\ val = None /\ Fire(Entries, "cancel", tracker[a]) /\ UNCHANGED tracker
          /\ watcher' = [pc |-> "forgetting", agent |-> a]
      BY <1>9, <2>1 DEF DeletedEntry
    <3>2. TerminalKept /\ OnlyStarts({}) /\ sm'[tracker[a]] \in Terminal
      BY <2>1, <3>1, FireEffect DEF Triggers, Terminal
    <3>3. EntryUnderWay'
      BY <1>1, <1>2, <3>1 DEF EntryUnderWay
    <3>4. SafeLink(a)' /\ \A b \in Agents \ {a} : SafeLink(b)'
      BY <1>2, <1>5, <3>1, <3>2 DEF SafeLink, TerminalKept
    <3>5. Credited /\ (RunningLinked => RunningLinked')
      BY <3>1, <3>2 DEF OnlyStarts, Credited, RunningLinked
    <3>6. QED
      BY <3>3, <3>4, <3>5 DEF Linked
  <2>2. CASE ~(tracker[a] \in Deployments /\ Machine(tracker[a]) \notin Terminal)
    <3>1. /\ tracker' = [tracker EXCEPT ![a] = Absent] /\ UNCHANGED <<sm, watcher>>
      BY <1>9, <2>2 DEF DeletedEntry
    <3>2. tracker[a] \in Deployments => sm[tracker[a]] \in Terminal
      BY <1>3, <2>2 DEF Machine
    <3>3. QED
      BY <1>2, <1>4, <1>5, <3>1, <3>2, UnlinkLinked
  <2>3. QED
    BY <2>1, <2>2
<1>10. QED
  BY <1>6, <1>7, <1>8, <1>9 DEF EntryStep

LEMMA RelinkForgetLinked ==
  ASSUME StreamsTypeOK, OrchestratorTypeOK, Linked, Relink \/ Forget
  PROVE  Linked' /\ Credited /\ (RunningLinked => RunningLinked')
<1>1. watcher' = IdleWatcher /\ UNCHANGED <<boot, store>> /\ boot = "ready"
  BY DEF Relink, Forget, Linked, EntryUnderWay
<1>2. EntryUnderWay'
  BY <1>1 DEF EntryUnderWay, IdleWatcher
<1>3. \A b \in Agents : SafeLink(b)
  BY DEF Linked
<1>4. CASE Relink
  <2>1. watcher \in Relinking
    BY <1>4 DEF Relink, OrchestratorTypeOK, Forgetting, IdleWatcher
  <2>2. /\ watcher.agent \in Agents /\ watcher.val \in AgentVal
        /\ watcher.old \in AgentVal
        /\ Report(watcher.agent, watcher.val, watcher.old)
        /\ store[watcher.agent] = watcher.val
        /\ watcher.val.depl # watcher.old.depl
    BY <1>4, <2>1 DEF Relink, Relinking, Linked, EntryUnderWay
  <2>3. store' = [store EXCEPT ![watcher.agent] = watcher.val]
    BY <1>1, <2>2 DEF OrchestratorTypeOK
  <2>4. tracker[watcher.agent] \in Deployments =>
          \/ tracker[watcher.agent] = watcher.val.depl
          \/ sm[tracker[watcher.agent]] \in Terminal
    BY <1>3, <2>2 DEF SafeLink
  <2>5. QED
    BY <1>2, <1>3, <2>2, <2>3, <2>4, ReportLinked
<1>5. CASE Forget
  <2>1. watcher \in Forgetting
    BY <1>5 DEF Forget, OrchestratorTypeOK, Relinking, IdleWatcher
  <2>2. /\ watcher.agent \in Agents /\ store[watcher.agent] = None
        /\ tracker' = [tracker EXCEPT ![watcher.agent] = Absent] /\ UNCHANGED sm
    BY <1>5, <2>1 DEF Forget, Forgetting, Linked, EntryUnderWay
  <2>3. tracker[watcher.agent] \in Deployments => sm[tracker[watcher.agent]] \in Terminal
    BY <1>3, <2>2 DEF SafeLink
  <2>4. QED
    BY <1>1, <1>2, <1>3, <2>2, <2>3, UnlinkLinked
<1>6. QED
  BY <1>4, <1>5

------------------------------------------------------------------------------
LEMMA PublishLinked ==
  ASSUME Linked, NEW t \in Tasks, Publish(t)
  PROVE  Linked' /\ Credited /\ (RunningLinked => RunningLinked')
<1>1. UNCHANGED <<sm, boot, store, tracker, watcher>>
  BY DEF Publish
<1>2. EntryUnderWay'
  BY <1>1 DEF Linked, EntryUnderWay
<1>3. QED
  BY <1>1, <1>2, UnchangedEffect, LinksFrame

(* While the process starts it tracks nothing; only then the replay may    *)
(* take a deployment for running that no tracker is linked to.             *)
LEMMA StartupLinked ==
  ASSUME Linked, StartupStep
  PROVE  Linked' /\ Credited
<1>1. /\ boot # "ready" /\ UNCHANGED <<store, tracker, watcher>>
      /\ watcher.pc = "idle" /\ \A a \in Agents : tracker[a] = Absent
  BY DEF StartupStep, Start, Replay, CleanUp, Ready, Linked, EntryUnderWay
<1>2. QED
  BY <1>1, AbsentAssumption DEF Linked, EntryUnderWay, SafeLink, Credited

LEMMA OrchestratorLinked ==
  ASSUME StreamsTypeOK, OrchestratorTypeOK, Linked, OrchestratorStep
  PROVE  /\ Linked' /\ Credited
         /\ boot = "ready" /\ RunningLinked => RunningLinked'
<1>1. CASE EventStep
  <2>1. /\ TerminalKept /\ OnlyStarts({})
        /\ UNCHANGED <<boot, store, tracker, watcher>>
    BY <1>1, EventStepEffect
  <2>2. EntryUnderWay'
    BY <2>1 DEF Linked, EntryUnderWay
  <2>3. QED
    BY <2>1, <2>2, LinksFrame
<1>2. CASE StartupStep
  BY <1>2, StartupLinked DEF StartupStep, Start, Replay, CleanUp, Ready
<1>3. QED
  BY <1>1, <1>2, EntryStepLinked, RelinkForgetLinked, PublishLinked
  DEF OrchestratorStep

LEMMA TroubleLinked ==
  ASSUME Linked, OrchestratorTrouble
  PROVE  /\ Linked' /\ Credited
         /\ ~Spend("crash") /\ RunningLinked => RunningLinked'
<1>1. CASE Crash
  <2>1. /\ sm' = [d \in Deployments |-> None] /\ tracker' = [a \in Agents |-> Absent]
        /\ watcher' = IdleWatcher
    BY <1>1 DEF Crash, NoMemory
  <2>2. Linked'
    BY <2>1, AbsentAssumption DEF Linked, EntryUnderWay, SafeLink, IdleWatcher
  <2>3. Credited /\ RunningLinked'
    BY <2>1, NoneAssumption DEF Credited, RunningLinked, States
  <2>4. QED
    BY <2>2, <2>3
<1>2. CASE EventFails \/ EntryFails
  <2>1. UNCHANGED <<sm, boot, store, tracker>> /\ watcher' \in {watcher, IdleWatcher}
    BY <1>2 DEF EventFails, EntryFails
  <2>2. EntryUnderWay'
    BY <2>1 DEF Linked, EntryUnderWay, IdleWatcher
  <2>3. QED
    BY <2>1, <2>2, UnchangedEffect, LinksFrame
<1>3. QED
  BY <1>1, <1>2 DEF OrchestratorTrouble

LEMMA OthersLinked ==
  ASSUME Linked, UNCHANGED orchestratorVars
  PROVE  Linked' /\ Credited /\ (RunningLinked => RunningLinked')
BY DEF orchestratorVars, Linked, EntryUnderWay, SafeLink, Credited, RunningLinked

LEMMA InitLinked == Init => Linked /\ RunningLinked
BY AbsentAssumption, NoneAssumption
DEF Init, OrchestratorInit, Linked, EntryUnderWay, SafeLink, RunningLinked,
    IdleWatcher, States

LEMMA NextLinked == TypeOK /\ Linked /\ [Next]_vars => Linked' /\ Credited
<1>. SUFFICES ASSUME TypeOK, Linked, [Next]_vars PROVE Linked' /\ Credited
  OBVIOUS
<1>1. CASE OrchestratorStep
  BY <1>1, OrchestratorLinked DEF TypeOK
<1>2. CASE OrchestratorTrouble
  BY <1>2, TroubleLinked
<1>3. CASE UNCHANGED orchestratorVars
  BY <1>3, OthersLinked
<1>4. QED
  BY <1>1, <1>2, <1>3, NextCases DEF vars

(* Every link is safe in every run, crashes and failed publishes included: *)
(* an agent's later reports can only move the deployment that it has       *)
(* itself reported last, or one that is over and refuses every trigger.    *)
THEOREM LinksAreSafe == Spec => []Linked
<1>1. Init => TypeOK /\ Linked
  BY InitType, InitLinked
<1>2. TypeOK /\ Linked /\ [Next]_vars => (TypeOK /\ Linked)'
  BY NextType, NextLinked
<1>3. QED
  BY <1>1, <1>2, PTL DEF Spec

(* A deployment starts to run only when an agent reports that this very    *)
(* deployment runs, whatever crashes and fails: a status is never credited *)
(* to the deployment the agent served before.                              *)
THEOREM StatusIsCredited == Spec => StatusCredited
<1>1. TypeOK /\ Linked /\ [Next]_vars =>
        [\A d \in Deployments :
           (sm[d] # "RUNNING" /\ sm'[d] = "RUNNING" /\ boot = "ready") =>
             \E a \in Agents :
               store'[a] = [status |-> "DEPLOYMENT_RUNNING", depl |-> d]]_sm
  BY NextLinked DEF Credited
<1>2. QED
  BY <1>1, TypeCorrect, LinksAreSafe, PTL DEF Spec, StatusCredited

------------------------------------------------------------------------------
(* The tracker of an agent and the store agree.                            *)
Follows(a) ==
  IF store[a] = None THEN tracker[a] = Absent
  ELSE tracker[a] \in {None, store[a].depl}

(* They do but for the agent whose entry is being dealt with.              *)
Following ==
  \A a \in Agents : watcher.pc = "idle" \/ watcher.agent # a => Follows(a)

(* Report leaves the tracker linked to what the value names, or as it was. *)
LEMMA ReportFollows ==
  ASSUME OrchestratorTypeOK, NEW a \in Agents, NEW val \in AgentVal,
         NEW old \in AgentVal, Report(a, val, old),
         val.depl = old.depl => tracker[a] \in {None, Absent, val.depl},
         store'[a] = val
  PROVE  Follows(a)' /\ \A b \in Agents \ {a} : tracker'[b] = tracker[b]
BY ValueAssumption DEF Report, OrchestratorTypeOK, Follows, AgentVal

LEMMA EntryStepFollows ==
  ASSUME StreamsTypeOK, OrchestratorTypeOK, Following, NEW a \in Agents, EntryStep(a)
  PROVE  Following'
<1>. DEFINE val == Head(watch[a])
            old == store[a]
<1>1. TakeEntry(a)
  BY DEF EntryStep, FirstEntry, CancelReplaced, UpdateEntry, DeletedEntry
<1>2. /\ val \in Entry /\ old \in Entry /\ watcher.pc = "idle"
      /\ store'[a] = val /\ \A b \in Agents \ {a} : store'[b] = store[b]
  BY <1>1, TakeEntryType DEF TakeEntry, OrchestratorTypeOK
<1>3. \A b \in Agents : Follows(b)
  BY <1>2 DEF Following
<1>4. ASSUME \A b \in Agents \ {a} : tracker'[b] = tracker[b],
             (watcher'.pc # "idle" /\ watcher'.agent = a) \/ Follows(a)'
      PROVE  Following'
  BY <1>2, <1>3, <1>4 DEF Following, Follows
<1>5. CASE FirstEntry(a)
  <2>1. val # None /\ tracker'[a] = None /\ \A b \in Agents \ {a} : tracker'[b] = tracker[b]
    BY <1>3, <1>5 DEF FirstEntry, Follows, OrchestratorTypeOK
  <2>2. QED
    BY <1>2, <1>4, <2>1 DEF Follows
<1>6. CASE CancelReplaced(a)
  <2>1. UNCHANGED tracker /\ watcher'.pc = "relinking" /\ watcher'.agent = a
    BY <1>6 DEF CancelReplaced
  <2>2. QED
    BY <1>4, <2>1
<1>7. CASE UpdateEntry(a)
  <2>1. val \in AgentVal /\ old \in AgentVal /\ Report(a, val, old)
    BY <1>2, <1>7 DEF UpdateEntry, Entry
  <2>2. tracker[a] \in {None, old.depl}
    BY <1>3, <2>1, ValueAssumption DEF Follows
  <2>3. QED
    BY <1>2, <1>4, <2>1, <2>2, ReportFollows
<1>8. CASE DeletedEntry(a)
  <2>1. CASE UNCHANGED tracker
    <3>1. val = None /\ \/ watcher'.pc = "forgetting" /\ watcher'.agent = a
                        \/ tracker'[a] = Absent
      BY <1>8, <2>1 DEF DeletedEntry, OrchestratorTypeOK
    <3>2. QED
      BY <1>2, <1>4, <2>1, <3>1 DEF Follows
  <2>2. CASE tracker' = [tracker EXCEPT ![a] = Absent]
    <3>1. val = None /\ tracker'[a] = Absent
          /\ \A b \in Agents \ {a} : tracker'[b] = tracker[b]
      BY <1>8, <2>2 DEF DeletedEntry, OrchestratorTypeOK
    <3>2. QED
      BY <1>2, <1>4, <3>1 DEF Follows
  <2>3. QED
    BY <1>8, <2>1, <2>2 DEF DeletedEntry
<1>9. QED
  BY <1>5, <1>6, <1>7, <1>8 DEF EntryStep

LEMMA RelinkForgetFollows ==
  ASSUME OrchestratorTypeOK, Following, EntryUnderWay, Relink \/ Forget
  PROVE  Following'
<1>1. UNCHANGED store /\ watcher.pc # "idle" /\ watcher \in Relinking \cup Forgetting
  BY DEF Relink, Forget, OrchestratorTypeOK, IdleWatcher
<1>2. PICK a \in Agents : a = watcher.agent
  BY <1>1 DEF Relinking, Forgetting
<1>3. \A b \in Agents \ {a} : Follows(b)
  BY <1>1, <1>2 DEF Following
<1>4. ASSUME \A b \in Agents \ {a} : tracker'[b] = tracker[b], Follows(a)'
      PROVE  Following'
  <2>1. \A b \in Agents \ {a} : Follows(b)'
    BY <1>1, <1>3, <1>4 DEF Follows
  <2>2. QED
    BY <1>4, <2>1 DEF Following
<1>5. CASE Relink
  <2>1. watcher \in Relinking
    BY <1>5 DEF Relink, OrchestratorTypeOK, Forgetting, IdleWatcher
  <2>2. /\ watcher.val \in AgentVal /\ watcher.old \in AgentVal
        /\ Report(a, watcher.val, watcher.old)
        /\ store'[a] = watcher.val
        /\ watcher.val.depl # watcher.old.depl
    BY <1>1, <1>2, <1>5, <2>1 DEF Relink, Relinking, EntryUnderWay
  <2>3. QED
    BY <1>4, <2>2, ReportFollows
<1>6. CASE Forget
  <2>1. store'[a] = None /\ tracker' = [tracker EXCEPT ![a] = Absent]
    BY <1>1, <1>2, <1>6 DEF Forget, EntryUnderWay
  <2>2. tracker'[a] = Absent /\ \A b \in Agents \ {a} : tracker'[b] = tracker[b]
    BY <2>1 DEF OrchestratorTypeOK
  <2>3. QED
    BY <1>4, <2>1, <2>2 DEF Follows
<1>7. QED
  BY <1>5, <1>6

LEMMA FollowingFrame ==
  ASSUME Following, UNCHANGED <<store, tracker, watcher>>
  PROVE  Following'
BY DEF Following, Follows

LEMMA NextFollows ==
  TypeOK /\ Linked /\ Following /\ budget["failure"] = 0 /\ [Next]_vars =>
    Following' /\ budget'["failure"] = 0
<1>. SUFFICES ASSUME TypeOK, Linked, Following, budget["failure"] = 0, [Next]_vars
              PROVE  Following' /\ budget'["failure"] = 0
  OBVIOUS
<1>1. budget'["failure"] = 0 /\ ~Spend("failure")
  BY StaysSpent DEF TypeOK, Budgets
<1>. SUFFICES Following'
  BY <1>1
<1>2. CASE OrchestratorStep
  <2>1. CASE EventStep
    BY <2>1, EventStepEffect, FollowingFrame DEF TypeOK
  <2>2. CASE \/ \E t \in Tasks : Publish(t)
             \/ StartupStep
    BY <2>2, FollowingFrame
    DEF Publish, StartupStep, Start, Replay, CleanUp, Ready
  <2>3. QED
    BY <1>2, <2>1, <2>2, EntryStepFollows, RelinkForgetFollows
    DEF OrchestratorStep, TypeOK, Linked
<1>3. CASE OrchestratorTrouble
  <2>1. Crash
    BY <1>1, <1>3 DEF OrchestratorTrouble
  <2>2. QED
    BY <2>1 DEF Crash, NoMemory, Following, Follows
<1>4. CASE UNCHANGED orchestratorVars
  BY <1>4, FollowingFrame DEF orchestratorVars
<1>5. QED
  BY <1>1, <1>2, <1>3, <1>4, NextCases DEF vars

(* As long as no publish fails, an agent is tracked exactly while it is    *)
(* known and credits no deployment but the one it last reported, whatever  *)
(* crashes, dies, or is overwritten before the watch has seen it.  A       *)
(* publish that fails leaves an entry half dealt with; LinksAreSafe says   *)
(* what is left of this then.                                              *)
THEOREM TrackersFollow == ASSUME MaxFailures = 0 PROVE Spec => []TrackersFollowStore
<1>1. Init => TypeOK /\ Linked /\ Following /\ budget["failure"] = 0
  BY MaxFailures = 0, InitType, InitLinked
  DEF Init, OrchestratorInit, Following, Follows
<1>2. TypeOK /\ Linked /\ Following /\ budget["failure"] = 0 /\ [Next]_vars =>
        (TypeOK /\ Linked /\ Following /\ budget["failure"] = 0)'
  BY NextType, NextLinked, NextFollows
<1>3. Following => TrackersFollowStore
  BY DEF Following, Follows, TrackersFollowStore
<1>4. QED
  BY <1>1, <1>2, <1>3, PTL DEF Spec

------------------------------------------------------------------------------
(* While the process is up and watching, the last value it is told of, or  *)
(* will be once it has taken what the watch holds, is the agent's key.     *)
LastTold(a) == IF watch[a] = <<>> THEN store[a] ELSE watch[a][Len(watch[a])]

Watching ==
  /\ boot = "ready" /\ watching
  /\ \A a \in Agents : kv[a] = LastTold(a)

LEMMA SetKeyWatching ==
  ASSUME StreamsTypeOK, Watching, NEW a \in Agents, NEW v \in Entry, SetKey(a, v),
         UNCHANGED <<boot, watching, store>>
  PROVE  Watching'
<1>. SUFFICES ASSUME NEW b \in Agents PROVE kv'[b] = LastTold(b)'
  BY DEF Watching
<1>1. watching
  BY DEF Watching
<1>2. CASE b = a
  <2>1. watch[a] \in Seq(Entry) /\ watch'[a] = Append(watch[a], v) /\ kv'[a] = v
    BY <1>1 DEF SetKey, StreamsTypeOK
  <2>2. watch'[a] # <<>> /\ watch'[a][Len(watch'[a])] = v
    BY <2>1, AppendProperties, LenProperties, EmptySeq
  <2>3. QED
    BY <1>2, <2>1, <2>2 DEF LastTold
<1>3. CASE b # a
  <2>1. watch'[b] = watch[b] /\ kv'[b] = kv[b]
    BY <1>1, <1>3 DEF SetKey, StreamsTypeOK
  <2>2. QED
    BY <2>1 DEF Watching, LastTold
<1>4. QED
  BY <1>2, <1>3

LEMMA TakeEntryWatching ==
  ASSUME StreamsTypeOK, OrchestratorTypeOK, Watching, NEW a \in Agents, TakeEntry(a)
  PROVE  Watching'
<1>1. /\ watch[a] \in Seq(Entry) /\ watch[a] # <<>>
      /\ watch' = [watch EXCEPT ![a] = Tail(@)]
      /\ store' = [store EXCEPT ![a] = Head(watch[a])]
      /\ UNCHANGED <<boot, watching, kv>>
  BY DEF StreamsTypeOK, TakeEntry
<1>. SUFFICES ASSUME NEW b \in Agents PROVE kv[b] = LastTold(b)'
  BY <1>1 DEF Watching
<1>2. kv[b] = LastTold(b)
  BY DEF Watching
<1>3. CASE b = a
  <2>1. watch'[a] = Tail(watch[a]) /\ store'[a] = watch[a][1]
    BY <1>1, HeadTailProperties DEF StreamsTypeOK, OrchestratorTypeOK
  <2>2. kv[a] = watch[a][Len(watch[a])]
    BY <1>1, <1>2, <1>3 DEF LastTold
  <2>3. CASE Tail(watch[a]) = <<>>
    <3>1. Len(watch[a]) = 1
      BY <1>1, <2>3, TailLast
    <3>2. QED
      BY <1>3, <2>1, <2>2, <2>3, <3>1 DEF LastTold
  <2>4. CASE Tail(watch[a]) # <<>>
    <3>1. Tail(watch[a])[Len(Tail(watch[a]))] = watch[a][Len(watch[a])]
      BY <1>1, <2>4, TailLast
    <3>2. QED
      BY <1>3, <2>1, <2>2, <2>4, <3>1 DEF LastTold
  <2>5. QED
    BY <2>3, <2>4
<1>4. CASE b # a
  BY <1>1, <1>2, <1>4 DEF LastTold, StreamsTypeOK, OrchestratorTypeOK
<1>5. QED
  BY <1>3, <1>4

(* A value that is overwritten before the watch has seen it is not the     *)
(* last one.                                                               *)
LEMMA SupersedeWatching ==
  ASSUME StreamsTypeOK, Watching, NEW a \in Agents, Supersede(a),
         UNCHANGED <<boot, store>>
  PROVE  Watching'
<1>1. /\ watch[a] \in Seq(Entry) /\ Len(watch[a]) > 1
      /\ watch' = [watch EXCEPT ![a] = Tail(@)]
      /\ UNCHANGED <<boot, watching, kv, store>>
  BY DEF StreamsTypeOK, Supersede
<1>. SUFFICES ASSUME NEW b \in Agents PROVE LastTold(b)' = LastTold(b)
  BY <1>1 DEF Watching
<1>2. CASE b = a
  <2>1. /\ Tail(watch[a]) # <<>> /\ watch[a] # <<>>
        /\ Tail(watch[a])[Len(Tail(watch[a]))] = watch[a][Len(watch[a])]
    BY <1>1, TailLast, LenProperties, EmptySeq
  <2>2. watch'[a] = Tail(watch[a])
    BY <1>1 DEF StreamsTypeOK
  <2>3. QED
    BY <1>2, <2>1, <2>2 DEF LastTold
<1>3. CASE b # a
  BY <1>1, <1>3 DEF LastTold, StreamsTypeOK
<1>4. QED
  BY <1>2, <1>3

LEMMA WatchingFrame ==
  ASSUME Watching, UNCHANGED <<boot, watching, kv, watch, store>>
  PROVE  Watching'
BY DEF Watching, LastTold

LEMMA NextWatching ==
  ASSUME TypeOK, Watching, [Next]_vars, ~Spend("crash")
  PROVE  Watching'
<1>. USE DEF TypeOK
<1>1. CASE OrchestratorStep
  <2>1. CASE EventStep
    <3>1. UNCHANGED <<watching, kv, watch>>
      BY <2>1 DEF EventStep, HandleRun, HandleRunRaises, HandleStop, HandleStopRaises,
         HandleRestart, HandleRestartRaises, TakeEvent, SendStarts, SendStops,
         SendRestarts, SendCommands, EventDone
    <3>2. QED
      BY <2>1, <3>1, EventStepEffect, WatchingFrame
  <2>2. ASSUME NEW a \in Agents, EntryStep(a) PROVE Watching'
    BY <2>2, TakeEntryWatching
    DEF EntryStep, FirstEntry, CancelReplaced, UpdateEntry, DeletedEntry
  <2>3. CASE Relink \/ Forget \/ \E t \in Tasks : Publish(t)
    BY <2>3, WatchingFrame DEF Relink, Forget, Publish, streamVars
  <2>4. ~StartupStep
    BY DEF Watching, StartupStep, Start, Replay, CleanUp, Ready
  <2>5. QED
    BY <1>1, <2>1, <2>2, <2>3, <2>4 DEF OrchestratorStep
<1>2. CASE OrchestratorTrouble
  BY <1>2, WatchingFrame DEF OrchestratorTrouble, EventFails, EntryFails, streamVars
<1>3. CASE AppStep /\ UNCHANGED <<orchestratorVars, agent>>
  <2>1. UNCHANGED <<watching, kv, watch>>
    BY <1>3 DEF AppStep, ConsumeUpdate, RestartApp, CreateDeployment, UpdateDeployment,
                RestartOperator, CreateLost, UpdateLost, AppUnchanged, streamVars
  <2>2. QED
    BY <1>3, <2>1, WatchingFrame DEF orchestratorVars
<1>4. ASSUME NEW a \in Agents, AgentStep(a), UNCHANGED orchestratorVars
      PROVE  Watching'
  BY <1>4, AgentStepKeys, AgentStepQuiet, SetKeyWatching, WatchingFrame
  DEF Quiet, orchestratorVars
<1>5. ASSUME NEW a \in Agents, Supersede(a), UNCHANGED orchestratorVars
      PROVE  Watching'
  BY <1>5, SupersedeWatching DEF orchestratorVars
<1>6. CASE UNCHANGED vars
  BY <1>6, WatchingFrame DEF vars, streamVars, orchestratorVars
<1>7. QED
  BY <1>1, <1>2, <1>3, <1>4, <1>5, <1>6, NextCases, AgentTurnIsStep

------------------------------------------------------------------------------
(* An agent on which no deployment fails tears one down only for whoever   *)
(* waits for that, and forgets it then.                                    *)
Undisturbed ==
  \A a \in Agents :
    /\ agent[a].phase # "error"
    /\ agent[a].phase = "teardown" => agent[a].goal # "stay"
    /\ agent[a].phase \in {"idle", "new"} => agent[a].depl = None

LEMMA AgentStepUndisturbed ==
  ASSUME StreamsTypeOK, AgentsTypeOK, Undisturbed, NEW a \in Agents, SoundStep(a)
  PROVE  Undisturbed'
<1>1. PICK r \in AgentState : agent' = [agent EXCEPT ![a] = r] /\ Turns(a, r)
  BY SoundStepTurns
<1>. DEFINE p == agent[a]
<1>2. /\ p.phase # "error"
      /\ p.phase = "teardown" => p.goal # "stay"
      /\ p.phase \in {"idle", "new"} => p.depl = None
  BY DEF Undisturbed
<1>3. /\ r.phase # "error"
      /\ r.phase = "teardown" => r.goal # "stay"
      /\ r.phase \in {"idle", "new"} => r.depl = None
  <2>1. CASE GoesOn(p, r)
    BY <1>2, <2>1 DEF GoesOn, Alike
  <2>2. CASE TakesUp(p, r, Head(commands[a]).depl) \/ Replaced(p, r)
    BY <2>2 DEF TakesUp, Replaced
  <2>3. CASE \E goal \in {"start", "stop", "shutdown"} :
               \E next : WaitsFor(p, r, goal, next)
    BY <2>3 DEF WaitsFor
  <2>4. CASE Forgets(p, r)
    BY <2>4 DEF Forgets
  <2>5. CASE Finishes(p, r)
    BY <1>2, <2>5 DEF Finishes
  <2>6. CASE IsToldToQuit(p, r)
    BY <1>2, <2>6 DEF IsToldToQuit
  <2>7. CASE r = At("gone")
    BY <2>7 DEF At
  <2>8. QED
    BY <1>1, <2>1, <2>2, <2>3, <2>4, <2>5, <2>6, <2>7 DEF Turns
<1>4. QED
  BY <1>1, <1>3 DEF Undisturbed, AgentsTypeOK

LEMMA NextUndisturbed ==
  ASSUME TypeOK, Undisturbed, [Next]_vars, ~Spend("error")
  PROVE  Undisturbed'
<1>1. ASSUME UNCHANGED agent PROVE Undisturbed'
  BY <1>1 DEF Undisturbed
<1>2. ASSUME NEW a \in Agents, AgentTurn(a) PROVE Undisturbed'
  BY <1>2, AgentStepUndisturbed DEF AgentTurn, SoundStep, TypeOK
<1>3. QED
  BY <1>1, <1>2, NextCases DEF vars

------------------------------------------------------------------------------
(* The inductive invariant of RunningIsServed.                             *)
ServedInv ==
  /\ TypeOK /\ Linked /\ RunningLinked /\ Watching /\ Undisturbed
  /\ budget["crash"] = 0 /\ budget["error"] = 0

LEMMA NextServed == ServedInv /\ [Next]_vars => ServedInv'
<1>. SUFFICES ASSUME ServedInv, [Next]_vars PROVE ServedInv'
  OBVIOUS
<1>1. /\ budget'["crash"] = 0 /\ ~Spend("crash")
      /\ budget'["error"] = 0 /\ ~Spend("error")
  BY StaysSpent DEF ServedInv, TypeOK, Budgets
<1>2. TypeOK' /\ Linked'
  BY NextType, NextLinked DEF ServedInv
<1>3. Watching' /\ Undisturbed'
  BY <1>1, NextWatching, NextUndisturbed DEF ServedInv
<1>4. RunningLinked'
  <2>1. CASE OrchestratorStep
    BY <2>1, OrchestratorLinked DEF ServedInv, TypeOK, Watching
  <2>2. CASE OrchestratorTrouble
    BY <1>1, <2>2, TroubleLinked DEF ServedInv
  <2>3. CASE UNCHANGED orchestratorVars
    BY <2>3, OthersLinked DEF ServedInv
  <2>4. QED
    BY <2>1, <2>2, <2>3, NextCases DEF vars
<1>5. QED
  BY <1>1, <1>2, <1>3, <1>4 DEF ServedInv

LEMMA ServedInvServes == ServedInv => RunningIsServed
<1>. SUFFICES ASSUME ServedInv, Quiescent, NEW d \in Deployments, sm[d] = "RUNNING"
              PROVE  Serving(d) # {}
  BY DEF RunningIsServed
<1>1. PICK a \in Agents : tracker[a] = d
  BY DEF ServedInv, RunningLinked
<1>2. store[a] # None /\ store[a].depl = d
  BY <1>1 DEF ServedInv, Linked, SafeLink, Terminal
<1>3. kv[a] = store[a]
  BY DEF ServedInv, Watching, LastTold, Quiescent
<1>4. kv[a] = ValueOf(agent[a]) /\ agent[a].phase \in {"idle", "running"}
  BY <1>2, <1>3 DEF Quiescent
<1>5. agent[a].depl = d
  BY <1>2, <1>3, <1>4 DEF ValueOf
<1>6. agent[a].phase = "running"
  BY <1>4, <1>5, NoneAssumption DEF ServedInv, Undisturbed
<1>7. QED
  BY <1>5, <1>6 DEF Serving, Live

(* A deployment that the orchestrator takes for running is served by an    *)
(* agent once all is quiet, as long as the orchestrator does not crash and *)
(* no deployment fails on an agent: agents that leave or are killed, stops *)
(* that overtake an assignment, values the watch has never seen and failed *)
(* publishes included.                                                     *)
THEOREM RunningAreServed ==
  ASSUME MaxCrashes = 0, MaxErrors = 0 PROVE Spec => []RunningIsServed
<1>1. Init => ServedInv
  <2>. SUFFICES ASSUME Init PROVE ServedInv
    OBVIOUS
  <2>1. TypeOK /\ Linked /\ RunningLinked
    BY InitType, InitLinked
  <2>2. Watching
    BY DEF Init, OrchestratorInit, StreamsInit, Watching, LastTold
  <2>3. Undisturbed
    BY DEF Init, AgentsInit, At, Undisturbed
  <2>4. budget["crash"] = 0 /\ budget["error"] = 0
    BY MaxCrashes = 0, MaxErrors = 0 DEF Init
  <2>5. QED
    BY <2>1, <2>2, <2>3, <2>4 DEF ServedInv
<1>2. QED
  BY <1>1, NextServed, ServedInvServes, PTL DEF Spec

------------------------------------------------------------------------------
(* From s a machine comes to t by the triggers it accepts, or stays.       *)
MovesOn(s, t) == t = s \/ t \in Later[s]

LEMMA TriggersMoveOn ==
  \A t \in Triggers : \A s \in Sources[t] :
    MovesOn(s, Target(t, s)) /\ (Reenters(t, s) <=> Target(t, s) = s)
BY DEF Triggers, Sources, Target, Destination, Reenters, MovesOn, Later

LEMMA MovesOnTransitive ==
  \A s, t, u \in States : MovesOn(s, t) /\ MovesOn(t, u) => MovesOn(s, u)
BY DEF States, MovesOn, Later

(* A machine is where its last update says or further, and an update that  *)
(* is still to be published is of the state its machine is in.             *)
UpdatesAccounted ==
  /\ \A d \in Deployments :
       lastUpdate[d] # None => sm[d] # None /\ MovesOn(lastUpdate[d], sm[d])
  /\ \A t \in Tasks :
       pending[t] # None => pending[t].stored /\ sm[pending[t].depl] = pending[t].state

Running == boot = "ready" /\ \A d \in Deployments : replay[d] = None

(* What UpdatesMoveForward says of a step.                                 *)
UpdatesForward ==
  \A d \in Deployments : lastUpdate'[d] # lastUpdate[d] =>
    \/ lastUpdate[d] = None
    \/ lastUpdate'[d] \in Later[lastUpdate[d]]

(* A machine once made is kept, and moves on.                              *)
MachinesMoveOn ==
  \A d \in Deployments : sm[d] # None => sm'[d] # None /\ MovesOn(sm[d], sm'[d])

LEMMA UnchangedMovesOn == UNCHANGED sm => MachinesMoveOn
BY DEF MachinesMoveOn, MovesOn

(* What the machines do while the updates are left alone.                  *)
LEMMA MachinesAccounted ==
  ASSUME StreamsTypeOK, OrchestratorTypeOK, OrchestratorTypeOK', UpdatesAccounted,
         MachinesMoveOn, UNCHANGED lastUpdate,
         \A t \in Tasks : pending'[t] # None =>
           pending'[t].stored /\ sm'[pending'[t].depl] = pending'[t].state
  PROVE  UpdatesAccounted' /\ UpdatesForward
<1>1. ASSUME NEW d \in Deployments, lastUpdate[d] # None
      PROVE  sm'[d] # None /\ MovesOn(lastUpdate[d], sm'[d])
  <2>1. /\ sm[d] # None /\ MovesOn(lastUpdate[d], sm[d])
        /\ sm'[d] # None /\ MovesOn(sm[d], sm'[d])
    BY <1>1 DEF UpdatesAccounted, MachinesMoveOn
  <2>2. lastUpdate[d] \in States /\ sm[d] \in States /\ sm'[d] \in States
    BY <1>1, <2>1 DEF StreamsTypeOK, OrchestratorTypeOK
  <2>3. QED
    BY <2>1, <2>2, MovesOnTransitive
<1>2. QED
  BY <1>1 DEF UpdatesAccounted, UpdatesForward

LEMMA FireMachines ==
  ASSUME OrchestratorTypeOK, UpdatesAccounted, NEW k \in Tasks, NEW t \in Triggers,
         NEW d \in Deployments, Fire(k, t, d)
  PROVE  /\ MachinesMoveOn
         /\ sm' = [sm EXCEPT ![d] = Target(t, Machine(d))]
         /\ Machine(d) \in Sources[t]
         /\ \A j \in Tasks : pending'[j] # None =>
              pending'[j].stored /\ sm'[pending'[j].depl] = pending'[j].state
<1>. DEFINE s == Machine(d)
            u == Target(t, s)
<1>1. /\ s \in Sources[t] /\ s \in States /\ u \in States
      /\ MovesOn(s, u)
      /\ sm' = [sm EXCEPT ![d] = u]
  BY MachineType, MachineTypes, TriggersMoveOn DEF Fire, Accepts
<1>2. sm'[d] = u /\ \A e \in Deployments \ {d} : sm'[e] = sm[e]
  BY <1>1 DEF OrchestratorTypeOK
<1>3. sm[d] # None => sm[d] = s
  BY DEF Machine
<1>4. None \notin States
  BY NoneAssumption
<1>5. MachinesMoveOn
  BY <1>1, <1>2, <1>3, <1>4 DEF MachinesMoveOn, MovesOn
<1>6. ASSUME NEW j \in Tasks, pending'[j] # None
      PROVE  pending'[j].stored /\ sm'[pending'[j].depl] = pending'[j].state
  <2>1. CASE j = k
    BY <1>2, <1>6, <2>1 DEF Fire
  <2>2. CASE j # k
    <3>1. /\ pending'[j] = pending[j] /\ pending[j] # None
          /\ ~(pending[j].depl = d /\ pending[j].stored)
      BY <1>6, <2>2 DEF Fire
    <3>2. /\ pending[j].stored /\ sm[pending[j].depl] = pending[j].state
          /\ pending[j].depl \in Deployments
      BY <3>1 DEF UpdatesAccounted, OrchestratorTypeOK, Publication
    <3>3. QED
      BY <1>2, <3>1, <3>2
  <2>3. QED
    BY <2>1, <2>2
<1>7. QED
  BY <1>1, <1>5, <1>6

LEMMA TouchMachines ==
  ASSUME OrchestratorTypeOK, UpdatesAccounted, NEW d \in Deployments, Touch(d)
  PROVE  /\ MachinesMoveOn
         /\ sm' = [sm EXCEPT ![d] = Machine(d)]
         /\ \A j \in Tasks : pending'[j] # None =>
              pending'[j].stored /\ sm'[pending'[j].depl] = pending'[j].state
<1>1. /\ sm' = [sm EXCEPT ![d] = Machine(d)] /\ UNCHANGED pending
      /\ sm[d] # None => Machine(d) = sm[d]
      /\ \A e \in Deployments : sm[e] # None => sm'[e] = sm[e]
  BY DEF Touch, Machine, OrchestratorTypeOK
<1>2. ASSUME NEW j \in Tasks, pending[j] # None
      PROVE  pending[j].depl \in Deployments /\ sm[pending[j].depl] # None
  BY <1>2, NoneAssumption DEF UpdatesAccounted, OrchestratorTypeOK, Publication
<1>3. QED
  BY <1>1, <1>2 DEF MachinesMoveOn, MovesOn, UpdatesAccounted

(* The machines and the publications under way are left alone, or some of  *)
(* these are given up.                                                     *)
LEMMA MachinesFrame ==
  ASSUME UpdatesAccounted, UNCHANGED sm,
         \A t \in Tasks : pending'[t] \in {pending[t], None}
  PROVE  /\ MachinesMoveOn
         /\ \A j \in Tasks : pending'[j] # None =>
              pending'[j].stored /\ sm'[pending'[j].depl] = pending'[j].state
BY UnchangedMovesOn DEF UpdatesAccounted

(* The trigger, if any, of an event or an entry.                           *)
OneTrigger ==
  \/ \E k \in Tasks, t \in Triggers, d \in Deployments : Fire(k, t, d)
  \/ \E d \in Deployments : Touch(d)
  \/ UNCHANGED <<sm, pending>>

LEMMA OneTriggerAccounted ==
  ASSUME StreamsTypeOK, OrchestratorTypeOK, OrchestratorTypeOK', UpdatesAccounted,
         OneTrigger, UNCHANGED lastUpdate
  PROVE  UpdatesAccounted' /\ UpdatesForward /\ MachinesMoveOn
<1>1. /\ MachinesMoveOn
      /\ \A j \in Tasks : pending'[j] # None =>
           pending'[j].stored /\ sm'[pending'[j].depl] = pending'[j].state
  <2>1. CASE \E k \in Tasks, t \in Triggers, d \in Deployments : Fire(k, t, d)
    BY <2>1, FireMachines
  <2>2. CASE \E d \in Deployments : Touch(d)
    BY <2>2, TouchMachines
  <2>3. CASE UNCHANGED <<sm, pending>>
    BY <2>3, MachinesFrame
  <2>4. QED
    BY <2>1, <2>2, <2>3 DEF OneTrigger
<1>2. QED
  BY <1>1, MachinesAccounted

LEMMA EventStepTrigger ==
  ASSUME StreamsTypeOK, OrchestratorTypeOK, EventStep
  PROVE  OneTrigger /\ UNCHANGED <<lastUpdate, boot, replay>>
<1>1. UNCHANGED <<lastUpdate, boot, replay>>
  BY DEF EventStep, HandleRun, HandleRunRaises, HandleStop, HandleStopRaises,
         HandleRestart, HandleRestartRaises, TakeEvent, SendStarts, SendStops,
         SendRestarts, SendCommands, EventDone
<1>2. CASE HandleRun \/ HandleRunRaises \/ HandleStop \/ HandleStopRaises
           \/ HandleRestartRaises
  <2>1. \E type : TakeEvent(type)
    BY <1>2 DEF HandleRun, HandleRunRaises, HandleStop, HandleStopRaises,
                HandleRestartRaises
  <2>2. Head(events).depl \in Deployments
    BY <2>1, TakeEventType
  <2>3. QED
    BY <1>1, <1>2, <2>2
    DEF HandleRun, HandleRunRaises, HandleStop, HandleStopRaises, HandleRestartRaises,
        RejectEvent, Refuse, OneTrigger, Tasks, Triggers
<1>3. CASE HandleRestart \/ SendStarts \/ SendStops \/ SendRestarts \/ EventDone
  BY <1>1, <1>3 DEF HandleRestart, SendStarts, SendStops, SendRestarts, SendCommands,
                    EventDone, OneTrigger
<1>4. QED
  BY <1>2, <1>3 DEF EventStep

(* The triggers of the agents' reports are of deployments they name, which *)
(* have been announced.                                                    *)
EntryTrigger ==
  \/ \E t \in Triggers \ {"start_failure"}, d \in Deployments :
       lastUpdate[d] # None /\ Fire(Entries, t, d)
  \/ \E d \in Deployments : lastUpdate[d] # None /\ Touch(d)
  \/ UNCHANGED <<sm, pending>>

LEMMA EntryTriggerIsOne == EntryTrigger => OneTrigger
BY DEF EntryTrigger, OneTrigger, Tasks

LEMMA ReportTrigger ==
  ASSUME OrchestratorTypeOK, NEW a \in Agents, NEW val \in AgentVal,
         NEW old \in AgentVal, Report(a, val, old),
         Announced(val.depl), Announced(tracker[a])
  PROVE  EntryTrigger
<1>. DEFINE link == IF val.depl # old.depl THEN val.depl
                    ELSE IF tracker[a] = Absent THEN None ELSE tracker[a]
            fires == /\ val.status # old.status
                     /\ val.status \in DOMAIN StatusTrigger
            t == StatusTrigger[val.status]
<1>1. link \in Deployments \cup {None} /\ Announced(link)
  BY NoneAssumption DEF AgentVal, OrchestratorTypeOK, Announced
<1>2. IF link = None THEN UNCHANGED <<sm, pending>>
      ELSE IF ~fires THEN Touch(link)
      ELSE Fire(Entries, t, link) \/ Refuse(t, link)
  BY DEF Report
<1>3. fires => t \in Triggers \ {"start_failure"}
  BY DEF StatusTrigger, Triggers
<1>4. link # None => link \in Deployments /\ lastUpdate[link] # None
  BY <1>1 DEF Announced
<1>. HIDE DEF link, fires, t
<1>5. QED
  BY <1>2, <1>3, <1>4 DEF EntryTrigger, Refuse

LEMMA EntriesTrigger ==
  ASSUME StreamsTypeOK, OrchestratorTypeOK, OnlyAnnounced,
         Relink \/ Forget \/ \E a \in Agents : EntryStep(a)
  PROVE  EntryTrigger /\ UNCHANGED <<lastUpdate, boot, replay>>
<1>1. CASE Relink
  <2>1. watcher \in Relinking /\ watcher.pc = "relinking"
    BY <1>1 DEF Relink, OrchestratorTypeOK, Forgetting, IdleWatcher
  <2>2. /\ watcher.agent \in Agents /\ watcher.val \in AgentVal /\ watcher.old \in AgentVal
        /\ Announced(watcher.val.depl) /\ Announced(tracker[watcher.agent])
    BY <2>1 DEF Relinking, OnlyAnnounced, TrackingAnnounced
  <2>3. QED
    BY <1>1, <2>2, ReportTrigger DEF Relink, streamVars
<1>2. CASE Forget
  BY <1>2 DEF Forget, EntryTrigger, streamVars
<1>3. ASSUME NEW a \in Agents, EntryStep(a)
      PROVE  EntryTrigger /\ UNCHANGED <<lastUpdate, boot, replay>>
  <2>1. TakeEntry(a)
    BY <1>3 DEF EntryStep, FirstEntry, CancelReplaced, UpdateEntry, DeletedEntry
  <2>2. Head(watch[a]) \in Entry /\ store[a] \in Entry
        /\ ValueAnnounced(Head(watch[a])) /\ ValueAnnounced(store[a]) /\ Announced(tracker[a])
    BY <2>1, TakeEntryType, TakeEntryAnnounced
    DEF OrchestratorTypeOK, OnlyAnnounced, TrackingAnnounced
  <2>3. "cancel" \in Triggers \ {"start_failure"}
    BY DEF Triggers
  <2>4. EntryTrigger
    <3>1. CASE FirstEntry(a) \/ DeletedEntry(a)
      BY <2>2, <2>3, <3>1 DEF FirstEntry, DeletedEntry, EntryTrigger, Announced
    <3>2. CASE CancelReplaced(a)
      <4>1. /\ store[a] \in AgentVal /\ store[a].depl \in Deployments
            /\ Announced(store[a].depl) /\ Fire(Entries, "cancel", store[a].depl)
        BY <2>2, <3>2 DEF CancelReplaced, Replaces, Entry, AgentVal, ValueAnnounced
      <4>2. QED
        BY <2>3, <4>1 DEF EntryTrigger, Announced
    <3>3. CASE UpdateEntry(a)
      <4>1. /\ Head(watch[a]) \in AgentVal /\ store[a] \in AgentVal
            /\ Announced(Head(watch[a]).depl) /\ Report(a, Head(watch[a]), store[a])
        BY <2>2, <3>3 DEF UpdateEntry, Entry, ValueAnnounced
      <4>2. QED
        BY <2>2, <4>1, ReportTrigger
    <3>4. QED
      BY <1>3, <3>1, <3>2, <3>3 DEF EntryStep
  <2>5. QED
    BY <2>1, <2>4 DEF TakeEntry
<1>4. QED
  BY <1>1, <1>2, <1>3

(* An update is published: of the state its machine is in.                 *)
LEMMA PublishAccounted ==
  ASSUME StreamsTypeOK, OrchestratorTypeOK, UpdatesAccounted, NEW t \in Tasks, Publish(t)
  PROVE  UpdatesAccounted' /\ UpdatesForward
<1>. DEFINE d == pending[t].depl
<1>1. /\ d \in Deployments /\ pending[t].state \in States
      /\ sm[d] = pending[t].state
      /\ lastUpdate' = [lastUpdate EXCEPT ![d] = pending[t].state]
      /\ pending' = [pending EXCEPT ![t] = None] /\ UNCHANGED sm
  BY DEF Publish, PublishUpdate, OrchestratorTypeOK, Publication, UpdatesAccounted
<1>2. \A j \in Tasks : pending'[j] \in {pending[j], None}
  BY <1>1 DEF OrchestratorTypeOK
<1>3. lastUpdate'[d] = sm[d] /\ \A e \in Deployments \ {d} : lastUpdate'[e] = lastUpdate[e]
  BY <1>1 DEF StreamsTypeOK
<1>4. UpdatesAccounted'
  BY <1>1, <1>2, <1>3, NoneAssumption DEF UpdatesAccounted, MovesOn
<1>5. UpdatesForward
  BY <1>3 DEF UpdatesForward, UpdatesAccounted, MovesOn
<1>6. QED
  BY <1>4, <1>5

LEMMA AccountedFrame ==
  ASSUME UpdatesAccounted, UNCHANGED <<lastUpdate, sm, pending>>
  PROVE  UpdatesAccounted' /\ UpdatesForward
BY DEF UpdatesAccounted, UpdatesForward

(* Without a crash the startup is over for good.                           *)
AfterStart == OnlyAnnounced /\ UpdatesAccounted /\ Running

LEMMA NextAccounted ==
  TypeOK /\ AfterStart /\ budget["crash"] = 0 /\ [Next]_vars =>
    /\ AfterStart' /\ budget'["crash"] = 0
    /\ UpdatesForward /\ MachinesMoveOn
<1>. SUFFICES ASSUME TypeOK, AfterStart, budget["crash"] = 0, [Next]_vars
              PROVE  /\ AfterStart' /\ budget'["crash"] = 0
                     /\ UpdatesForward /\ MachinesMoveOn
  OBVIOUS
<1>1. budget'["crash"] = 0 /\ ~Spend("crash") /\ TypeOK'
  BY StaysSpent, NextType DEF TypeOK, Budgets
<1>2. /\ StreamsTypeOK /\ OrchestratorTypeOK /\ OrchestratorTypeOK'
      /\ OnlyAnnounced /\ OnlyAnnounced' /\ UpdatesAccounted /\ Running
  BY <1>1, NextAnnounced DEF TypeOK, AfterStart
<1>. SUFFICES UpdatesAccounted' /\ Running' /\ UpdatesForward /\ MachinesMoveOn
  BY <1>1, <1>2 DEF AfterStart
<1>3. CASE OrchestratorStep
  <2>1. CASE \/ EventStep \/ Relink \/ Forget
             \/ \E a \in Agents : EntryStep(a)
    <3>1. OneTrigger /\ UNCHANGED <<lastUpdate, boot, replay>>
      BY <1>2, <2>1, EventStepTrigger, EntriesTrigger, EntryTriggerIsOne
    <3>2. QED
      BY <1>2, <3>1, OneTriggerAccounted DEF Running
  <2>2. ASSUME NEW t \in Tasks, Publish(t)
        PROVE  UpdatesAccounted' /\ Running' /\ UpdatesForward /\ MachinesMoveOn
    BY <1>2, <2>2, PublishAccounted, UnchangedMovesOn DEF Publish, Running
  <2>3. ~StartupStep
    BY <1>2 DEF Running, StartupStep, Start, Replay, CleanUp, Ready
  <2>4. QED
    BY <1>3, <2>1, <2>2, <2>3 DEF OrchestratorStep
<1>4. CASE OrchestratorTrouble
  <2>1. /\ UNCHANGED <<lastUpdate, boot, replay, sm>>
        /\ \A t \in Tasks : pending'[t] \in {pending[t], None}
    BY <1>1, <1>2, <1>4
    DEF OrchestratorTrouble, EventFails, EntryFails, streamVars, OrchestratorTypeOK
  <2>2. QED
    BY <1>2, <2>1, MachinesFrame, MachinesAccounted DEF Running
<1>5. CASE UNCHANGED <<orchestratorVars, lastUpdate>>
  BY <1>2, <1>5, AccountedFrame, UnchangedMovesOn DEF orchestratorVars, Running
<1>6. UNCHANGED lastUpdate \/ OrchestratorStep \/ OrchestratorTrouble
  <2>1. AppStep => UNCHANGED lastUpdate
    BY DEF AppStep, ConsumeUpdate, RestartApp, CreateDeployment, UpdateDeployment,
           RestartOperator, CreateLost, UpdateLost, AppUnchanged, streamVars
  <2>2. \A a \in Agents : AgentTurn(a) \/ Supersede(a) => UNCHANGED lastUpdate
    BY AgentTurnIsStep, AgentStepQuiet DEF Quiet, Supersede
  <2>3. QED
    BY <2>1, <2>2, NextCases DEF vars, streamVars
<1>7. QED
  BY <1>3, <1>4, <1>5, <1>6, NextCases DEF vars

LEMMA InitAccounted ==
  Init => AfterStart
BY InitAnnounced DEF Init, StreamsInit, OrchestratorInit, AfterStart, UpdatesAccounted, Running

(* The published state of a deployment only moves forward and a terminal   *)
(* one is never left, as long as the orchestrator does not crash: two      *)
(* tasks fire triggers on a machine and cancel each other's publication,   *)
(* publishes fail, agents report what they like in any order.              *)
THEOREM UpdatesGoForward == ASSUME MaxCrashes = 0 PROVE Spec => UpdatesMoveForward
<1>1. Init => TypeOK /\ AfterStart /\ budget["crash"] = 0
  BY MaxCrashes = 0, InitType, InitAccounted DEF Init
<1>2. TypeOK /\ AfterStart /\ budget["crash"] = 0 /\ [Next]_vars =>
        (TypeOK /\ AfterStart /\ budget["crash"] = 0)'
  BY NextType, NextAccounted
<1>3. TypeOK /\ AfterStart /\ budget["crash"] = 0 /\ [Next]_vars =>
        [\A d \in Deployments : lastUpdate'[d] # lastUpdate[d] =>
           \/ lastUpdate[d] = None
           \/ lastUpdate'[d] \in Later[lastUpdate[d]]]_lastUpdate
  BY NextAccounted DEF UpdatesForward
<1>4. QED
  BY <1>1, <1>2, <1>3, PTL DEF Spec, UpdatesMoveForward
------------------------------------------------------------------------------
(* The request to run a deployment is the first event of it: no machine of *)
(* it is there before, and no restart of an operator is asked for.         *)
FirstOfIt(i) ==
  /\ events[i].type # "OPERATOR_RESTART"
  /\ db[events[i].depl] # None
  /\ events[i].type = "RUN" =>
       /\ sm[events[i].depl] = None
       /\ \A j \in 1 .. (i - 1) : events[j].depl # events[i].depl

RunsFirst ==
  /\ \A i \in DOMAIN events : FirstOfIt(i)
  /\ \A d \in Deployments : db[d] = None => sm[d] = None

(* Machines are made for D at most.                                        *)
MakesOnly(D) == \A d \in Deployments \ D : sm[d] = None => sm'[d] = None

(* Deployments are given up among D at most.                               *)
GivesUpOnly(D) ==
  \A d \in Deployments \ D : sm'[d] = "FAILED_TO_START" => sm[d] = "FAILED_TO_START"

LEMMA FireMakes ==
  ASSUME OrchestratorTypeOK, NEW k, NEW t \in Triggers, NEW d \in Deployments,
         Fire(k, t, d)
  PROVE  MakesOnly({d}) /\ GivesUpOnly(IF t = "start_failure" THEN {d} ELSE {})
<1>1. sm' = [sm EXCEPT ![d] = Target(t, Machine(d))]
  BY DEF Fire
<1>2. t # "start_failure" => Target(t, Machine(d)) # "FAILED_TO_START"
  BY DEF Triggers, Target, Destination
<1>3. QED
  BY <1>1, <1>2 DEF OrchestratorTypeOK, MakesOnly, GivesUpOnly

LEMMA TouchMakes ==
  ASSUME OrchestratorTypeOK, NEW d \in Deployments, Touch(d)
  PROVE  MakesOnly({d}) /\ GivesUpOnly({})
BY NoneAssumption DEF Touch, Machine, OrchestratorTypeOK, MakesOnly, GivesUpOnly

LEMMA UnchangedMakes == UNCHANGED sm => \A D : MakesOnly(D) /\ GivesUpOnly(D)
BY DEF MakesOnly, GivesUpOnly

(* Reports make no machine and give nothing up: what they name has been    *)
(* announced, and has a machine.                                           *)
LEMMA EntriesMake ==
  ASSUME OrchestratorTypeOK, UpdatesAccounted, EntryTrigger
  PROVE  MakesOnly({}) /\ GivesUpOnly({})
<1>1. ASSUME NEW d \in Deployments, lastUpdate[d] # None, MakesOnly({d})
      PROVE  MakesOnly({})
  BY <1>1 DEF MakesOnly, UpdatesAccounted
<1>2. ASSUME NEW t \in Triggers \ {"start_failure"}, NEW d \in Deployments,
             lastUpdate[d] # None, Fire(Entries, t, d)
      PROVE  MakesOnly({}) /\ GivesUpOnly({})
  BY <1>1, <1>2, FireMakes
<1>3. ASSUME NEW d \in Deployments, lastUpdate[d] # None, Touch(d)
      PROVE  MakesOnly({}) /\ GivesUpOnly({})
  BY <1>1, <1>3, TouchMakes
<1>4. QED
  BY <1>2, <1>3, UnchangedMakes DEF EntryTrigger

(* Events gives up only what it was asked to run, and has no machine yet.  *)
TakesFirst ==
  \E d \in Deployments, type \in {"RUN", "STOP"} :
    /\ TakeEvent(type) /\ d = Head(events).depl
    /\ MakesOnly({d}) /\ GivesUpOnly(IF type = "RUN" THEN {d} ELSE {})

LEMMA EventStepTakes ==
  ASSUME StreamsTypeOK, OrchestratorTypeOK, RunsFirst, EventStep
  PROVE  TakesFirst \/ UNCHANGED <<events, sm>>
<1>1. ASSUME NEW type, TakeEvent(type)
      PROVE  /\ Head(events).depl \in Deployments
             /\ type # "OPERATOR_RESTART"
  <2>1. events \in Seq(Event) /\ events # <<>> /\ Head(events).type = type
    BY <1>1 DEF TakeEvent, StreamsTypeOK
  <2>2. 1 \in DOMAIN events /\ Head(events) = events[1]
    BY <2>1, HeadTailProperties, LenProperties, EmptySeq
  <2>3. QED
    BY <1>1, <2>1, <2>2, TakeEventType DEF RunsFirst, FirstOfIt
<1>. DEFINE d == Head(events).depl
<1>2. CASE HandleRun \/ HandleRunRaises
  <2>1. TakeEvent("RUN") /\ d \in Deployments
    BY <1>1, <1>2 DEF HandleRun, HandleRunRaises
  <2>2. \/ \E t \in Triggers : Fire(Events, t, d)
        \/ Touch(d)
    BY <1>2 DEF HandleRun, HandleRunRaises, RejectEvent, Refuse, Triggers
  <2>3. MakesOnly({d}) /\ GivesUpOnly({d})
    BY <2>1, <2>2, FireMakes, TouchMakes DEF GivesUpOnly
  <2>4. QED
    BY <2>1, <2>3 DEF TakesFirst
<1>3. CASE HandleStop \/ HandleStopRaises
  <2>1. TakeEvent("STOP") /\ d \in Deployments
    BY <1>1, <1>3 DEF HandleStop, HandleStopRaises
  <2>2. Fire(Events, "cancel", d) \/ Touch(d)
    BY <1>3 DEF HandleStop, HandleStopRaises, Refuse
  <2>3. MakesOnly({d}) /\ GivesUpOnly({})
    BY <2>1, <2>2, FireMakes, TouchMakes DEF Triggers
  <2>4. QED
    BY <2>1, <2>3 DEF TakesFirst
<1>4. ~HandleRestart /\ ~HandleRestartRaises
  BY <1>1 DEF HandleRestart, HandleRestartRaises
<1>5. CASE SendStarts \/ SendStops \/ SendRestarts \/ EventDone
  BY <1>5 DEF SendStarts, SendStops, SendRestarts, SendCommands, EventDone
<1>6. QED
  BY <1>2, <1>3, <1>4, <1>5 DEF EventStep

LEMMA TakesRunsFirst ==
  ASSUME StreamsTypeOK, OrchestratorTypeOK, RunsFirst, TakesFirst, UNCHANGED db
  PROVE  RunsFirst'
<1>1. PICK d \in Deployments, type \in {"RUN", "STOP"} :
        /\ TakeEvent(type) /\ d = Head(events).depl
        /\ MakesOnly({d}) /\ GivesUpOnly(IF type = "RUN" THEN {d} ELSE {})
  BY DEF TakesFirst
<1>2. events \in Seq(Event) /\ events # <<>> /\ events' = Tail(events)
  BY <1>1 DEF TakeEvent, StreamsTypeOK
<1>3. /\ Len(events) \in Nat \ {0} /\ DOMAIN events = 1 .. Len(events)
      /\ d = events[1].depl
      /\ DOMAIN events' = 1 .. (Len(events) - 1)
      /\ \A i \in DOMAIN events' : events'[i] = events[i + 1] /\ events[i + 1] \in Event
  BY <1>1, <1>2, HeadTailProperties, LenProperties, EmptySeq, ElementOfSeq
<1>4. db[d] # None
  BY <1>3 DEF RunsFirst, FirstOfIt
<1>5. ASSUME NEW i \in DOMAIN events' PROVE FirstOfIt(i)'
  <2>1. i + 1 \in DOMAIN events /\ FirstOfIt(i + 1) /\ 1 \in 1 .. i
    BY <1>3, <1>5 DEF RunsFirst
  <2>2. events'[i] = events[i + 1] /\ events[i + 1].depl \in Deployments
    BY <1>3, <1>5 DEF Event
  <2>3. ASSUME events[i + 1].type = "RUN"
        PROVE  /\ sm'[events[i + 1].depl] = None
               /\ \A j \in 1 .. (i - 1) : events'[j].depl # events[i + 1].depl
    <3>1. /\ sm[events[i + 1].depl] = None
          /\ \A j \in 1 .. i : events[j].depl # events[i + 1].depl
      BY <1>3, <1>5, <2>1, <2>3 DEF FirstOfIt
    <3>2. events[i + 1].depl \in Deployments \ {d}
      BY <1>3, <2>1, <2>2, <3>1
    <3>3. \A j \in 1 .. (i - 1) : events'[j] = events[j + 1] /\ j + 1 \in 1 .. i
      BY <1>3, <1>5
    <3>4. QED
      BY <1>1, <3>1, <3>2, <3>3 DEF MakesOnly
  <2>4. QED
    BY <2>1, <2>2, <2>3 DEF FirstOfIt
<1>6. ASSUME NEW e \in Deployments, db[e] = None PROVE sm'[e] = None
  BY <1>1, <1>4, <1>6 DEF RunsFirst, MakesOnly
<1>7. QED
  BY <1>5, <1>6 DEF RunsFirst

(* The app, as far as RunsFirst tells its steps apart: it publishes nothing, *)
(* asks for the first time to run d, or to stop a deployment that is there. *)
AppStepKinds ==
  /\ \A d \in Deployments : db[d] # None => db'[d] # None
  /\ \/ UNCHANGED events
     \/ \E d \in Deployments, type \in {"RUN", "STOP"} :
          /\ events' = Append(events, [type |-> type, depl |-> d])
          /\ db'[d] # None
          /\ type = "RUN" => db[d] = None
     \/ Spend("restart")

LEMMA AppStepIsOfAKind ==
  ASSUME StreamsTypeOK, AppTypeOK, AppStep
  PROVE  AppStepKinds
<1>1. {"PENDING", "CANCELLED"} \subseteq States /\ None \notin States
  BY NoneAssumption DEF States
<1>2. CASE ConsumeUpdate
  <2>1. updates \in Seq(Update) /\ updates # <<>>
    BY <1>2 DEF ConsumeUpdate, StreamsTypeOK
  <2>2. Head(updates) \in Update
    BY <2>1, HeadTailProperties
  <2>3. Head(updates).state # None
    BY <1>1, <2>2 DEF Update
  <2>4. QED
    BY <1>2, <2>3 DEF ConsumeUpdate, AppTypeOK, AppStepKinds
<1>3. CASE RestartApp
  BY <1>3 DEF RestartApp, AppStepKinds
<1>4. ASSUME NEW d \in Deployments, CreateDeployment(d)
      PROVE  AppStepKinds
  BY <1>1, <1>4 DEF CreateDeployment, PublishEvent, AppTypeOK, AppStepKinds
<1>5. ASSUME NEW d \in Deployments, NEW s \in States, UpdateDeployment(d, s)
      PROVE  AppStepKinds
  <2>1. db[d] # None /\ db' = [db EXCEPT ![d] = s]
    BY <1>5 DEF UpdateDeployment
  <2>2. \A e \in Deployments : db[e] # None => db'[e] # None
    BY <1>1, <2>1 DEF AppTypeOK
  <2>3. CASE s = "CANCELLED"
    <3>1. events' = Append(events, [type |-> "STOP", depl |-> d])
      BY <1>5, <2>3 DEF UpdateDeployment, PublishEvent
    <3>2. QED
      BY <2>1, <2>2, <3>1 DEF AppStepKinds
  <2>4. CASE s # "CANCELLED"
    BY <1>5, <2>2, <2>4 DEF UpdateDeployment, AppStepKinds
  <2>5. QED
    BY <2>3, <2>4
<1>6. ASSUME NEW d \in Deployments, RestartOperator(d), Spend("restart")
      PROVE  AppStepKinds
  BY <1>6 DEF RestartOperator, AppStepKinds
<1>7. ASSUME NEW d \in Deployments, CreateLost(d) \/ UpdateLost(d)
      PROVE  AppStepKinds
  BY <1>1, <1>7 DEF CreateLost, UpdateLost, streamVars, AppTypeOK, AppStepKinds
<1>8. QED
  BY <1>1, <1>2, <1>3, <1>4, <1>5, <1>6, <1>7 DEF AppStep

LEMMA EventsType ==
  ASSUME StreamsTypeOK
  PROVE  /\ events \in Seq(Event) /\ Len(events) \in Nat /\ DOMAIN events = 1 .. Len(events)
         /\ \A i \in DOMAIN events : events[i] \in Event /\ events[i].depl \in Deployments
<1>1. events \in Seq(Event)
  BY DEF StreamsTypeOK
<1>2. /\ Len(events) \in Nat /\ DOMAIN events = 1 .. Len(events)
      /\ \A i \in DOMAIN events : events[i] \in Event
  BY <1>1, LenProperties
<1>3. QED
  BY <1>1, <1>2 DEF Event

LEMMA AppRunsFirst ==
  ASSUME StreamsTypeOK, AppTypeOK, RunsFirst, AppStep, ~Spend("restart"), UNCHANGED sm
  PROVE  RunsFirst'
<1>1. AppStepKinds
  BY AppStepIsOfAKind
<1>2. events \in Seq(Event) /\ \A i \in DOMAIN events : events[i].depl \in Deployments
  BY EventsType
<1>3. \A d \in Deployments : db'[d] = None => sm'[d] = None
  BY <1>1 DEF AppStepKinds, RunsFirst
<1>4. CASE UNCHANGED events
  BY <1>1, <1>2, <1>3, <1>4 DEF AppStepKinds, RunsFirst, FirstOfIt
<1>5. ASSUME NEW d \in Deployments, NEW type \in {"RUN", "STOP"},
             events' = Append(events, [type |-> type, depl |-> d]),
             db'[d] # None, type = "RUN" => db[d] = None
      PROVE  RunsFirst'
  <2>. PICK n \in Nat : n = Len(events)
    BY <1>2, LenProperties
  <2>1. /\ n \in Nat /\ DOMAIN events = 1 .. n
        /\ DOMAIN events' = 1 .. (n + 1)
        /\ \A i \in DOMAIN events : events'[i] = events[i]
        /\ events'[n + 1] = [type |-> type, depl |-> d]
    <3>1. [type |-> type, depl |-> d] \in Event
      BY DEF Event, EventTypes
    <3>2. QED
      BY <1>2, <1>5, <3>1, AppendProperties, LenProperties
  <2>2. ASSUME NEW i \in DOMAIN events PROVE FirstOfIt(i)'
    <3>1. FirstOfIt(i) /\ events'[i] = events[i] /\ events[i].depl \in Deployments
      BY <1>2, <2>1 DEF RunsFirst
    <3>2. \A j \in 1 .. (i - 1) : events'[j] = events[j]
      BY <2>1
    <3>3. QED
      BY <1>1, <3>1, <3>2 DEF FirstOfIt, AppStepKinds
  <2>3. FirstOfIt(n + 1)'
    <3>1. /\ events'[n + 1].type = type
          /\ events'[n + 1].depl = d
      BY <2>1
    <3>2. ASSUME type = "RUN"
          PROVE  sm'[d] = None /\ \A j \in 1 .. n : events'[j].depl # d
      <4>1. db[d] = None
        BY <1>5, <3>2
      <4>2. \A j \in 1 .. n : db[events[j].depl] # None
        BY <2>1 DEF RunsFirst, FirstOfIt
      <4>3. QED
        BY <2>1, <4>1, <4>2 DEF RunsFirst
    <3>3. n + 1 - 1 = n
      BY <2>1
    <3>4. QED
      BY <1>5, <3>1, <3>2, <3>3 DEF FirstOfIt
  <2>4. \A i \in DOMAIN events' : i \in DOMAIN events \/ i = n + 1
    BY <2>1
  <2>5. QED
    BY <1>3, <2>2, <2>3, <2>4 DEF RunsFirst
<1>6. QED
  BY <1>1, <1>4, <1>5 DEF AppStepKinds

LEMMA RunsFirstFrame ==
  ASSUME StreamsTypeOK, RunsFirst, MakesOnly({}), UNCHANGED <<events, db>>
  PROVE  RunsFirst'
<1>1. \A i \in DOMAIN events : events[i].depl \in Deployments
  BY EventsType
<1>2. \A i \in DOMAIN events : FirstOfIt(i)'
  BY <1>1 DEF RunsFirst, FirstOfIt, MakesOnly
<1>3. QED
  BY <1>2 DEF RunsFirst, MakesOnly
------------------------------------------------------------------------------
(* The deployments that agents, their commands and the handler's           *)
(* assignment name are among G.                                            *)
StartsIn(G) ==
  \A a \in Agents : \A i \in DOMAIN commands[a] :
    commands[a][i].type = "START" => commands[a][i].depl \in G

NamedIn(G) ==
  /\ handler.pc = "assigned" => handler.ev.depl \in G
  /\ \A a \in Agents : {agent[a].depl, agent[a].next} \subseteq G \cup {None}
  /\ StartsIn(G)

LEMMA SendingIsBusy ==
  ASSUME OrchestratorTypeOK, NEW pc, NEW type, SendCommands(pc, type)
  PROVE  /\ handler \in BusyHandler /\ handler.pc = pc
         /\ handler.ev \in Event /\ handler.ev.depl \in Deployments
         /\ handler.targets \in SUBSET Agents
BY DEF OrchestratorTypeOK, SendCommands, BusyHandler, IdleHandler, Event

LEMMA PublishCommandsIn ==
  ASSUME StreamsTypeOK, NEW G, StartsIn(G), NEW d \in Deployments,
         NEW type \in CommandTypes, NEW S \in SUBSET Agents,
         PublishCommands(type, d, S), type = "START" => d \in G
  PROVE  StartsIn(G)'
<1>. DEFINE cmd == [type |-> type, depl |-> d]
<1>1. cmd \in Command /\ cmd.type = type /\ cmd.depl = d
  BY DEF Command
<1>2. ASSUME NEW a \in Agents, NEW i \in DOMAIN commands'[a], commands'[a][i].type = "START"
      PROVE  commands'[a][i].depl \in G
  <2>1. commands[a] \in Seq(Command)
    BY DEF StreamsTypeOK
  <2>2. CASE a \notin S
    BY <1>2, <2>2 DEF PublishCommands, StartsIn
  <2>3. CASE a \in S
    <3>1. commands'[a] = Append(commands[a], cmd)
      BY <2>3 DEF PublishCommands
    <3>. HIDE DEF cmd
    <3>2. /\ Len(commands[a]) \in Nat /\ DOMAIN commands[a] = 1 .. Len(commands[a])
          /\ DOMAIN commands'[a] = 1 .. (Len(commands[a]) + 1)
          /\ \A j \in 1 .. Len(commands[a]) : commands'[a][j] = commands[a][j]
          /\ commands'[a][Len(commands[a]) + 1] = cmd
      BY <1>1, <2>1, <3>1, AppendProperties, LenProperties
    <3>3. i \in DOMAIN commands[a] \/ commands'[a][i] = cmd
      BY <1>2, <3>2
    <3>4. QED
      BY <1>1, <1>2, <3>2, <3>3 DEF StartsIn
  <2>4. QED
    BY <2>2, <2>3
<1>3. QED
  BY <1>2 DEF StartsIn

LEMMA TakeCommandIn ==
  ASSUME StreamsTypeOK, NEW G, StartsIn(G), NEW a \in Agents, NEW type,
         TakeCommand(a, type)
  PROVE  StartsIn(G)' /\ (type = "START" => Head(commands[a]).depl \in G)
<1>1. /\ commands[a] \in Seq(Command) /\ commands[a] # <<>>
      /\ Head(commands[a]).type = type
      /\ commands' = [commands EXCEPT ![a] = Tail(@)]
  BY DEF TakeCommand, StreamsTypeOK
<1>2. /\ Head(commands[a]) = commands[a][1] /\ 1 \in DOMAIN commands[a]
      /\ DOMAIN Tail(commands[a]) = 1 .. (Len(commands[a]) - 1)
      /\ \A i \in 1 .. (Len(commands[a]) - 1) :
           /\ Tail(commands[a])[i] = commands[a][i + 1]
           /\ i + 1 \in DOMAIN commands[a]
  BY <1>1, HeadTailProperties, LenProperties, EmptySeq
<1>3. \A b \in Agents : commands'[b] = IF b = a THEN Tail(commands[a]) ELSE commands[b]
  BY <1>1 DEF StreamsTypeOK
<1>4. QED
  BY <1>1, <1>2, <1>3 DEF StartsIn

LEMMA AgentNames ==
  ASSUME StreamsTypeOK, AgentsTypeOK, NEW G, NamedIn(G), NEW a \in Agents, AgentStep(a),
         UNCHANGED handler
  PROVE  NamedIn(G)'
<1>1. PICK r \in AgentState :
        /\ agent' = [agent EXCEPT ![a] = r]
        /\ \/ Turns(a, r)
           \/ GoesWrong(agent[a], r) /\ UNCHANGED commands
  BY AgentStepTurns, ZenonT(30)
<1>2. {agent[a].depl, agent[a].next} \subseteq G \cup {None} /\ StartsIn(G)
  BY DEF NamedIn
<1>3. StartsIn(G)'
  <2>1. CASE commands' = [commands EXCEPT ![a] = <<>>]
    BY <1>2, <2>1 DEF StartsIn, StreamsTypeOK
  <2>2. CASE UNCHANGED commands
    BY <1>2, <2>2 DEF StartsIn
  <2>3. QED
    BY <1>2, <2>1, <2>2, TakeCommandIn, AgentStepCommands
<1>4. {r.depl, r.next} \subseteq G \cup {None}
  <2>1. TakeCommand(a, "START") => Head(commands[a]).depl \in G
    BY <1>2, TakeCommandIn
  <2>2. {r.depl, r.next} \subseteq
          {agent[a].depl, agent[a].next, None}
            \cup (IF TakeCommand(a, "START") THEN {Head(commands[a]).depl} ELSE {})
    BY <1>1 DEF Turns, GoesOn, GoesWrong, Alike, TakesUp, WaitsFor, Forgets, Finishes,
                Replaced, IsToldToQuit, At
  <2>3. QED
    BY <1>2, <2>1, <2>2
<1>5. QED
  BY <1>1, <1>3, <1>4 DEF NamedIn, AgentsTypeOK

(* Events names a deployment only by assigning it.                         *)
LEMMA EventStepNames ==
  ASSUME StreamsTypeOK, OrchestratorTypeOK, NEW G, NamedIn(G), EventStep,
         UNCHANGED agent, HandleRun => UNCHANGED handler \/ Head(events).depl \in G
  PROVE  NamedIn(G)'
<1>1. CASE HandleRun
  BY <1>1 DEF HandleRun, Handle, NamedIn, StartsIn
<1>2. CASE HandleRunRaises \/ HandleRestart \/ HandleRestartRaises \/ HandleStop
  BY <1>2 DEF HandleRunRaises, HandleRestart, HandleRestartRaises, HandleStop, RejectEvent,
              Handle, TakeEvent, NamedIn, StartsIn
<1>3. ASSUME NEW type \in CommandTypes, NEW d \in Deployments, NEW S \in SUBSET Agents,
             PublishCommands(type, d, S), type = "START" => d \in G
      PROVE  StartsIn(G)'
  BY <1>3, PublishCommandsIn DEF NamedIn
<1>4. CASE HandleStopRaises
  <2>1. PICK S \in SUBSET Known : PublishCommands("STOP", Head(events).depl, S)
    BY <1>4 DEF HandleStopRaises
  <2>2. S \in SUBSET Agents /\ Head(events).depl \in Deployments /\ UNCHANGED handler
    BY <1>4, TakeEventType DEF HandleStopRaises, Known
  <2>3. QED
    BY <1>3, <2>1, <2>2 DEF NamedIn, CommandTypes
<1>5. CASE SendStarts \/ SendStops \/ SendRestarts
  <2>1. PICK pc \in {"assigned", "stopping", "restarting"}, type \in CommandTypes :
          /\ SendCommands(pc, type)
          /\ type = "START" => pc = "assigned"
    BY <1>5 DEF SendStarts, SendStops, SendRestarts, CommandTypes
  <2>2. handler \in BusyHandler /\ handler.ev.depl \in Deployments
        /\ handler.pc = pc /\ handler.targets \in SUBSET Agents
    BY <2>1, SendingIsBusy
  <2>3. PICK S \in SUBSET handler.targets :
          /\ PublishCommands(type, handler.ev.depl, S)
          /\ handler' = [handler EXCEPT !.targets = @ \ S,
                           !.pc = IF pc = "assigned" /\ S = handler.targets
                                  THEN "recording" ELSE @]
    BY <2>1 DEF SendCommands
  <2>4. StartsIn(G)'
    BY <1>3, <2>1, <2>2, <2>3 DEF NamedIn
  <2>5. handler'.pc = "assigned" => handler.pc = "assigned" /\ handler'.ev = handler.ev
    BY <2>2, <2>3 DEF BusyHandler
  <2>6. QED
    BY <2>4, <2>5 DEF NamedIn
<1>6. CASE EventDone
  BY <1>6 DEF EventDone, IdleHandler, NamedIn, StartsIn
<1>7. QED
  BY <1>1, <1>2, <1>4, <1>5, <1>6 DEF EventStep

LEMMA NamesFrame ==
  ASSUME NEW G, NamedIn(G), UNCHANGED <<agent, commands>>,
         handler' \in {handler, IdleHandler}
  PROVE  NamedIn(G)'
BY DEF NamedIn, StartsIn, IdleHandler
------------------------------------------------------------------------------
(* What agents, commands and the assignment name is not given up.          *)
Wanted == NamedIn({d \in Deployments : sm[d] # "FAILED_TO_START"})

(* The machines of what is named exist: an update of it has been published *)
(* or is about to be.                                                      *)
LEMMA NamedHaveMachines ==
  ASSUME OrchestratorTypeOK, OnlyAnnounced, UpdatesAccounted, Wanted
  PROVE  NamedIn({d \in Deployments : sm[d] \notin {None, "FAILED_TO_START"}})
<1>1. \A d \in Deployments : Announced(d) => sm[d] # None
  BY DEF Announced, UpdatesAccounted
<1>2. \A d : /\ pending[Events] # None /\ pending[Events].depl = d
             => sm[d] # None
  BY NoneAssumption DEF UpdatesAccounted, OrchestratorTypeOK, Publication, Tasks
<1>3. handler.pc = "assigned" => sm[handler.ev.depl] # None
  BY <1>1, <1>2 DEF OnlyAnnounced, HandlerAnnounced, Wanted, NamedIn
<1>4. \A a \in Agents : \A d \in {agent[a].depl, agent[a].next} \cap Deployments : sm[d] # None
  BY <1>1 DEF OnlyAnnounced, AgentsAnnounced
<1>5. \A a \in Agents : \A i \in DOMAIN commands[a] :
        commands[a][i].type = "START" /\ commands[a][i].depl \in Deployments
          => sm[commands[a][i].depl] # None
  BY <1>1 DEF OnlyAnnounced, StartsAreAnnounced, Announced
<1>6. QED
  BY <1>3, <1>4, <1>5 DEF Wanted, NamedIn, StartsIn

(* A step gives up only what has no machine yet, hence what nobody names.  *)
GivesUpUnnamed ==
  \A d \in Deployments :
    sm[d] # None /\ sm'[d] = "FAILED_TO_START" => sm[d] = "FAILED_TO_START"

(* While no operator is restarted.                                         *)
Forward ==
  /\ TypeOK /\ AfterStart /\ RunsFirst /\ Wanted
  /\ budget["crash"] = 0 /\ budget["restart"] = 0

LEMMA NextRunsFirst ==
  ASSUME Forward, [Next]_vars
  PROVE  RunsFirst' /\ GivesUpUnnamed
<1>1. /\ ~Spend("crash") /\ ~Spend("restart")
      /\ StreamsTypeOK /\ OrchestratorTypeOK /\ AppTypeOK
      /\ OnlyAnnounced /\ UpdatesAccounted /\ Running /\ RunsFirst
  BY StaysSpent DEF Forward, TypeOK, Budgets, AfterStart
<1>2. GivesUpOnly({}) => GivesUpUnnamed
  BY DEF GivesUpOnly, GivesUpUnnamed
<1>3. ASSUME UNCHANGED <<events, sm, db>>
      PROVE  RunsFirst' /\ GivesUpUnnamed
  BY <1>1, <1>2, <1>3, UnchangedMakes, RunsFirstFrame
<1>4. CASE EventStep /\ UNCHANGED db
  <2>1. CASE TakesFirst
    <3>1. PICK d \in Deployments, type \in {"RUN", "STOP"} :
            /\ TakeEvent(type) /\ d = Head(events).depl
            /\ GivesUpOnly(IF type = "RUN" THEN {d} ELSE {})
      BY <2>1 DEF TakesFirst
    <3>2. type = "RUN" => sm[d] = None
      <4>1. events # <<>> /\ Head(events).type = type
        BY <3>1 DEF TakeEvent
      <4>2. 1 \in DOMAIN events /\ Head(events) = events[1]
        BY <1>1, <4>1, EventsType, HeadTailProperties, EmptySeq
      <4>3. QED
        BY <1>1, <3>1, <4>1, <4>2 DEF RunsFirst, FirstOfIt
    <3>3. GivesUpUnnamed
      BY <3>1, <3>2 DEF GivesUpOnly, GivesUpUnnamed
    <3>4. QED
      BY <1>1, <1>4, <2>1, <3>3, TakesRunsFirst
  <2>2. QED
    BY <1>1, <1>3, <1>4, <2>1, EventStepTakes
<1>5. CASE /\ Relink \/ Forget \/ \E a \in Agents : EntryStep(a)
           /\ UNCHANGED db
  <2>1. EntryTrigger
    BY <1>1, <1>5, EntriesTrigger
  <2>2. MakesOnly({}) /\ GivesUpOnly({})
    BY <1>1, <2>1, EntriesMake
  <2>3. UNCHANGED events
    BY <1>5 DEF Relink, Forget, streamVars, EntryStep, FirstEntry, CancelReplaced,
                UpdateEntry, DeletedEntry, TakeEntry
  <2>4. QED
    BY <1>1, <1>2, <1>5, <2>2, <2>3, RunsFirstFrame
<1>6. CASE (\E t \in Tasks : Publish(t)) /\ UNCHANGED db
  BY <1>3, <1>6 DEF Publish
<1>7. ~StartupStep
  BY <1>1 DEF Running, StartupStep, Start, Replay, CleanUp, Ready
<1>8. CASE OrchestratorTrouble /\ UNCHANGED db
  BY <1>1, <1>3, <1>8 DEF OrchestratorTrouble, EventFails, EntryFails, streamVars
<1>9. CASE AppStep /\ UNCHANGED orchestratorVars
  <2>1. UNCHANGED sm
    BY <1>9 DEF orchestratorVars
  <2>2. QED
    BY <1>1, <1>2, <1>9, <2>1, UnchangedMakes, AppRunsFirst
<1>10. ASSUME NEW a \in Agents, AgentTurn(a), UNCHANGED <<orchestratorVars, db>>
       PROVE  RunsFirst' /\ GivesUpUnnamed
  <2>1. UNCHANGED <<events, sm, db>>
    BY <1>10, AgentTurnIsStep, AgentStepQuiet DEF Quiet, orchestratorVars
  <2>2. QED
    BY <1>3, <2>1
<1>11. CASE (\E a \in Agents : Supersede(a)) /\ UNCHANGED <<orchestratorVars, db>>
  BY <1>3, <1>11 DEF Supersede, orchestratorVars
<1>12. CASE UNCHANGED vars
  BY <1>3, <1>12 DEF vars, streamVars, orchestratorVars
<1>13. QED
  BY <1>4, <1>5, <1>6, <1>7, <1>8, <1>9, <1>10, <1>11, <1>12, NextCases
  DEF OrchestratorStep

LEMMA NextWanted ==
  ASSUME Forward, [Next]_vars
  PROVE  Wanted'
<1>1. /\ ~Spend("crash") /\ Running
      /\ StreamsTypeOK /\ OrchestratorTypeOK /\ AgentsTypeOK
      /\ NamedIn({d \in Deployments : sm[d] \notin {None, "FAILED_TO_START"}})
  BY StaysSpent, NamedHaveMachines DEF Forward, TypeOK, Budgets, AfterStart
<1>2. PICK G : G = {d \in Deployments : sm'[d] # "FAILED_TO_START"}
  OBVIOUS
<1>3. {d \in Deployments : sm[d] \notin {None, "FAILED_TO_START"}} \subseteq G
  BY <1>2, NextRunsFirst DEF GivesUpUnnamed
<1>4. NamedIn(G)
  BY <1>1, <1>3 DEF NamedIn, StartsIn
<1>. SUFFICES NamedIn(G)'
  BY <1>2 DEF Wanted
<1>5. CASE EventStep /\ UNCHANGED agent
  <2>1. HandleRun => UNCHANGED handler \/ Head(events).depl \in G
    <3>. SUFFICES ASSUME HandleRun, ~UNCHANGED handler PROVE Head(events).depl \in G
      OBVIOUS
    <3>1. Head(events).depl \in Deployments /\ Fire(Events, "assign", Head(events).depl)
      BY <1>1, TakeEventType DEF HandleRun
    <3>2. sm'[Head(events).depl] = "AGENTS_ASSIGNED"
      BY <1>1, <3>1 DEF Fire, Target, Destination, OrchestratorTypeOK
    <3>3. QED
      BY <1>2, <3>1, <3>2
  <2>2. QED
    BY <1>1, <1>4, <1>5, <2>1, EventStepNames
<1>6. ASSUME UNCHANGED <<agent, commands, handler>> PROVE NamedIn(G)'
  BY <1>4, <1>6, NamesFrame
<1>7. CASE /\ Relink \/ Forget \/ (\E a \in Agents : EntryStep(a)) \/ \E t \in Tasks : Publish(t)
           /\ UNCHANGED agent
  BY <1>6, <1>7 DEF Relink, Forget, streamVars, EntryStep, FirstEntry, CancelReplaced,
                    UpdateEntry, DeletedEntry, TakeEntry, Publish
<1>8. ~StartupStep
  BY <1>1 DEF Running, StartupStep, Start, Replay, CleanUp, Ready
<1>9. CASE OrchestratorTrouble /\ UNCHANGED agent
  BY <1>1, <1>4, <1>9, NamesFrame DEF OrchestratorTrouble, EventFails, EntryFails, streamVars
<1>10. CASE AppStep /\ UNCHANGED <<orchestratorVars, agent>>
  BY <1>6, <1>10
  DEF AppStep, ConsumeUpdate, RestartApp, CreateDeployment, UpdateDeployment,
      RestartOperator, CreateLost, UpdateLost, AppUnchanged, streamVars, orchestratorVars
<1>11. ASSUME NEW a \in Agents, AgentTurn(a), UNCHANGED orchestratorVars
       PROVE  NamedIn(G)'
  BY <1>1, <1>4, <1>11, AgentTurnIsStep, AgentNames DEF orchestratorVars
<1>12. CASE (\E a \in Agents : Supersede(a)) /\ UNCHANGED <<orchestratorVars, agent>>
  BY <1>6, <1>12 DEF Supersede, orchestratorVars
<1>13. CASE UNCHANGED vars
  BY <1>6, <1>13 DEF vars, streamVars, orchestratorVars
<1>14. QED
  BY <1>5, <1>7, <1>8, <1>9, <1>10, <1>11, <1>12, <1>13, NextCases DEF OrchestratorStep

LEMMA NextForward == Forward /\ [Next]_vars => Forward'
<1>. SUFFICES ASSUME Forward, [Next]_vars PROVE Forward'
  OBVIOUS
<1>1. /\ TypeOK /\ AfterStart /\ budget["crash"] = 0 /\ budget["restart"] = 0
  BY DEF Forward
<1>2. budget'["crash"] = 0 /\ budget'["restart"] = 0
  BY <1>1, StaysSpent DEF TypeOK, Budgets
<1>3. TypeOK' /\ AfterStart'
  BY <1>1, NextType, NextAccounted
<1>4. QED
  BY <1>2, <1>3, NextRunsFirst, NextWanted DEF Forward

LEMMA InitForward ==
  ASSUME MaxCrashes = 0, MaxRestarts = 0, Init
  PROVE  Forward
<1>1. RunsFirst
  BY DEF Init, StreamsInit, OrchestratorInit, AppInit, RunsFirst
<1>2. Wanted
  BY NoneAssumption
  DEF Init, StreamsInit, OrchestratorInit, AgentsInit, IdleHandler, At, Wanted, NamedIn, StartsIn
<1>3. QED
  BY <1>1, <1>2, InitType, InitAccounted DEF Init, Forward

(* A deployment that was given up as FAILED_TO_START is served by no agent *)
(* unless the orchestrator crashed, or an operator's restart gave up a     *)
(* deployment that was assigned already: run requests come first, and      *)
(* nothing is started that has not been announced.                         *)
THEOREM GivenUpIsNotServed ==
  ASSUME MaxCrashes = 0, MaxRestarts = 0 PROVE Spec => []FailedIsNotServed
<1>1. Init => Forward
  BY MaxCrashes = 0, MaxRestarts = 0, InitForward
<1>2. Forward => FailedIsNotServed
  <2>1. ASSUME Wanted, NEW d \in Deployments, sm[d] = "FAILED_TO_START", NEW a \in Serving(d)
        PROVE  FALSE
    BY <2>1, NoneAssumption DEF Serving, Wanted, NamedIn
  <2>2. QED
    BY <2>1 DEF Forward, FailedIsNotServed
<1>3. QED
  BY <1>1, <1>2, NextForward, PTL DEF Spec
------------------------------------------------------------------------------
(* What an agent carries out, as Lifecycle sees it.                        *)
Carried(r) == IF r.phase \in Live \cup {"teardown"} THEN r.depl ELSE None

Serves == [a \in Agents |-> IF a \in Serving(agent[a].depl) THEN agent[a].depl ELSE None]

LEMMA ServesCarried == \A a \in Agents : Serves[a] = Carried(agent[a])
BY DEF Serves, Serving, Carried

(* One agent turns, the others serve what they served.                     *)
LEMMA ServesTurn ==
  ASSUME AgentsTypeOK, NEW a \in Agents, NEW r \in AgentState,
         agent' = [agent EXCEPT ![a] = r]
  PROVE  Serves' = [Serves EXCEPT ![a] = Carried(r)]
<1>1. \A b \in Agents : agent'[b] = IF b = a THEN r ELSE agent[b]
  BY DEF AgentsTypeOK
<1>2. \A b \in Agents : Serves'[b] = Carried(agent'[b])
  BY DEF Serves, Serving, Carried
<1>3. \A b \in Agents : Serves'[b] = IF b = a THEN Carried(r) ELSE Serves[b]
  BY <1>1, <1>2, ServesCarried
<1>4. QED
  BY <1>3 DEF Serves

LEMMA InitImplements == Init => Promise!Init
BY DEF Init, StreamsInit, AgentsInit, At, Serving, Live, Promise!Init

(* An agent takes up a deployment that has been announced and not given    *)
(* up, when it carries out none; it lays it down; or what it carries out   *)
(* stays.                                                                  *)
LEMMA TurnsImplement ==
  ASSUME TypeOK, Forward, NEW a \in Agents, NEW r \in AgentState,
         agent' = [agent EXCEPT ![a] = r],
         Turns(a, r) \/ GoesWrong(agent[a], r), UNCHANGED lastUpdate
  PROVE  Promise!Next \/ UNCHANGED <<lastUpdate, Serves>>
<1>1. /\ Serves' = [Serves EXCEPT ![a] = Carried(r)]
      /\ Serves[a] = Carried(agent[a])
      /\ agent[a] \in AgentState
  BY ServesTurn, ServesCarried DEF TypeOK, AgentsTypeOK
<1>2. CASE Carried(r) = Carried(agent[a])
  BY <1>1, <1>2 DEF Serves
<1>3. CASE Carried(r) = None /\ Carried(agent[a]) # None
  <2>1. Promise!LayDown(a)
    BY <1>1, <1>3 DEF Promise!LayDown, Serves
  <2>2. QED
    BY <2>1 DEF Promise!Next
<1>4. CASE /\ Carried(agent[a]) = None
           /\ Carried(r) \in Deployments
           /\ lastUpdate[Carried(r)] # None
           /\ sm[Carried(r)] # "FAILED_TO_START"
  <2>1. lastUpdate[Carried(r)] # "FAILED_TO_START"
    BY <1>4 DEF Forward, AfterStart, UpdatesAccounted, MovesOn, Later
  <2>2. Promise!TakeUp(a, Carried(r))
    BY <1>1, <1>4, <2>1 DEF Promise!TakeUp, Serves
  <2>3. QED
    BY <1>4, <2>2 DEF Promise!Next
<1>5. CASE Turns(a, r)
  <2>1. CASE \/ GoesOn(agent[a], r)
             \/ \E goal, next : WaitsFor(agent[a], r, goal, next)
             \/ IsToldToQuit(agent[a], r)
             \/ Forgets(agent[a], r)
    <3>1. Carried(r) = Carried(agent[a])
      BY <2>1 DEF GoesOn, Alike, WaitsFor, IsToldToQuit, Forgets, Carried, Live
    <3>2. QED
      BY <1>2, <3>1
  <2>2. CASE Finishes(agent[a], r) \/ r = At("gone")
    <3>1. Carried(r) = None
      BY <2>2 DEF Finishes, At, Carried, Live
    <3>2. QED
      BY <1>2, <1>3, <3>1
  <2>3. CASE TakeCommand(a, "START") /\ TakesUp(agent[a], r, Head(commands[a]).depl)
    <3>1. Carried(agent[a]) = None /\ Carried(r) = Head(commands[a]).depl
      BY <2>3 DEF TakesUp, Carried, Live
    <3>2. PICK G : G = {d \in Deployments : sm[d] # "FAILED_TO_START"}
      OBVIOUS
    <3>3. Head(commands[a]).depl \in G
      BY <2>3, <3>2, TakeCommandIn DEF Forward, TypeOK, Wanted, NamedIn
    <3>4. Announced(Head(commands[a]).depl)
      BY <2>3, TakeCommandStarts DEF Forward, AfterStart, OnlyAnnounced, TypeOK
    <3>5. QED
      BY <1>4, <3>1, <3>2, <3>3, <3>4 DEF Announced
  <2>4. CASE Replaced(agent[a], r)
    <3>1. Carried(agent[a]) = None /\ Carried(r) = agent[a].next
      BY <2>4 DEF Replaced, Carried, Live
    <3>2. agent[a].next \in {d \in Deployments : sm[d] # "FAILED_TO_START"} \cup {None}
      BY DEF Forward, Wanted, NamedIn
    <3>3. Announced(agent[a].next)
      BY DEF Forward, AfterStart, OnlyAnnounced, AgentsAnnounced
    <3>4. QED
      BY <1>2, <1>4, <3>1, <3>2, <3>3 DEF Announced
  <2>5. QED
    BY <1>5, <2>1, <2>2, <2>3, <2>4 DEF Turns
<1>6. CASE GoesWrong(agent[a], r)
  <2>1. Carried(r) = Carried(agent[a])
    BY <1>6 DEF GoesWrong, Alike, Carried, Live
  <2>2. QED
    BY <1>2, <2>1
<1>7. QED
  BY <1>5, <1>6

LEMMA PublishImplements ==
  ASSUME TypeOK, Forward, NEW t \in Tasks, Publish(t), UNCHANGED agent
  PROVE  Promise!Next \/ UNCHANGED <<lastUpdate, Serves>>
<1>. DEFINE d == pending[t].depl s == pending[t].state
<1>1. /\ d \in Deployments /\ s \in States
      /\ lastUpdate' = [lastUpdate EXCEPT ![d] = s]
  BY DEF Publish, PublishUpdate, TypeOK, OrchestratorTypeOK, Publication
<1>2. UNCHANGED Serves
  BY DEF Serves, Serving
<1>3. UpdatesForward
  BY PublishAccounted DEF Forward, AfterStart, TypeOK
<1>4. CASE lastUpdate[d] = None \/ s \in Later[lastUpdate[d]]
  <2>1. Promise!Announce(d, s)
    BY <1>1, <1>2, <1>4 DEF Promise!Announce, Promise!Later, Later, Serves
  <2>2. QED
    BY <1>1, <2>1 DEF Promise!Next, Promise!States, States
<1>5. CASE lastUpdate[d] = s
  BY <1>1, <1>2, <1>5 DEF TypeOK, StreamsTypeOK
<1>6. lastUpdate'[d] = s
  BY <1>1 DEF TypeOK, StreamsTypeOK
<1>7. QED
  BY <1>1, <1>3, <1>4, <1>5, <1>6 DEF UpdatesForward

LEMMA NextImplements ==
  Forward /\ [Next]_vars => [Promise!Next]_(Promise!lifecycleVars)
<1>. SUFFICES ASSUME Forward, [Next]_vars
              PROVE  Promise!Next \/ UNCHANGED <<lastUpdate, Serves>>
  BY DEF Promise!lifecycleVars, Serves
<1>1. TypeOK /\ ~Spend("crash") /\ Running
  BY StaysSpent DEF Forward, TypeOK, Budgets, AfterStart
<1>2. UNCHANGED agent => UNCHANGED Serves
  BY DEF Serves, Serving
<1>3. CASE /\ EventStep \/ Relink \/ Forget \/ \E a \in Agents : EntryStep(a)
           /\ UNCHANGED agent
  BY <1>1, <1>2, <1>3, EventStepTrigger, EntriesTrigger DEF TypeOK, Forward, AfterStart
<1>4. CASE (\E t \in Tasks : Publish(t)) /\ UNCHANGED agent
  BY <1>1, <1>4, PublishImplements
<1>5. ~StartupStep
  BY <1>1 DEF Running, StartupStep, Start, Replay, CleanUp, Ready
<1>6. CASE OrchestratorTrouble /\ UNCHANGED agent
  BY <1>1, <1>2, <1>6 DEF OrchestratorTrouble, EventFails, EntryFails, streamVars
<1>7. CASE AppStep /\ UNCHANGED agent
  BY <1>2, <1>7
  DEF AppStep, ConsumeUpdate, RestartApp, CreateDeployment, UpdateDeployment,
      RestartOperator, CreateLost, UpdateLost, AppUnchanged, streamVars
<1>8. ASSUME NEW a \in Agents, AgentTurn(a)
      PROVE  Promise!Next \/ UNCHANGED <<lastUpdate, Serves>>
  <2>1. AgentStep(a) /\ UNCHANGED lastUpdate
    BY <1>8, AgentTurnIsStep, AgentStepQuiet DEF Quiet
  <2>2. \E r \in AgentState :
          /\ agent' = [agent EXCEPT ![a] = r]
          /\ Turns(a, r) \/ GoesWrong(agent[a], r)
    BY <1>1, <2>1, AgentStepTurns, ZenonT(30) DEF TypeOK
  <2>3. QED
    BY <1>1, <2>1, <2>2, TurnsImplement
<1>9. CASE (\E a \in Agents : Supersede(a)) /\ UNCHANGED agent
  BY <1>2, <1>9 DEF Supersede
<1>10. CASE UNCHANGED vars
  BY <1>2, <1>10 DEF vars, streamVars
<1>11. QED
  BY <1>3, <1>4, <1>5, <1>6, <1>7, <1>8, <1>9, <1>10, NextCases DEF OrchestratorStep

(* The system implements Lifecycle while the orchestrator does not crash   *)
(* and no operator is restarted: with any other requests, failed publishes, *)
(* agents that leave or die and deployments that fail on them, what is     *)
(* announced moves forward, and an agent carries out one deployment after  *)
(* the other, each announced before and none that failed to start.         *)
THEOREM SystemImplementsLifecycle ==
  ASSUME MaxCrashes = 0, MaxRestarts = 0 PROVE Spec => ImplementsLifecycle
<1>1. Init => Forward /\ Promise!Init
  BY MaxCrashes = 0, MaxRestarts = 0, InitForward, InitImplements
<1>2. QED
  BY <1>1, NextForward, NextImplements, PTL DEF Spec, ImplementsLifecycle, Promise!Spec

------------------------------------------------------------------------------
Busy == handler.pc # "idle"

(* Events takes the request for d: its trigger is accepted and the update  *)
(* is to be published, or the machine stays as it is.                      *)
TakesUpEvent(type, d) ==
  /\ TakeEvent(type) /\ d = Head(events).depl
  /\ \/ /\ \E t \in Triggers : Fire(Events, t, d)
        /\ handler'.pc # "idle" /\ handler'.ev = Head(events)
     \/ /\ Touch(d) /\ UNCHANGED handler
        /\ type = "RUN" => Machine(d) # "PENDING"
     \/ /\ UNCHANGED <<sm, pending>> /\ type # "RUN"
        /\ handler'.pc # "idle" /\ handler'.ev = Head(events)

(* Or it goes on with the one it has, and is done with it once its update  *)
(* has been published.                                                     *)
GoesOnWithEvent ==
  /\ Busy
  /\ UNCHANGED <<events, sm, pending>>
  /\ \/ handler'.pc # "idle" /\ handler'.ev = handler.ev /\ UNCHANGED assigned
     \/ /\ handler'.pc = "idle" /\ pending[Events] = None
        /\ assigned' \in {assigned, assigned \cup {handler.ev.depl}}

LEMMA EventStepKinds ==
  ASSUME StreamsTypeOK, OrchestratorTypeOK, EventStep
  PROVE  /\ \/ \E type \in EventTypes, d \in Deployments :
                 TakesUpEvent(type, d) /\ UNCHANGED assigned
            \/ GoesOnWithEvent
         /\ UNCHANGED <<lastUpdate, updates, retained, boot, replay>>
<1>1. ASSUME NEW type \in EventTypes, TakeEvent(type)
      PROVE  Head(events).depl \in Deployments /\ UNCHANGED assigned
  BY <1>1, TakeEventType DEF TakeEvent
<1>. DEFINE d == Head(events).depl
<1>2. CASE HandleRun
  <2>1. TakesUpEvent("RUN", d)
    BY <1>2 DEF HandleRun, TakesUpEvent, Handle, Refuse, Accepts, Sources, Triggers
  <2>2. QED
    BY <1>1, <1>2, <2>1 DEF HandleRun, EventTypes, TakeEvent
<1>3. CASE HandleRunRaises
  <2>1. TakesUpEvent("RUN", d)
    BY <1>3 DEF HandleRunRaises, RejectEvent, TakesUpEvent, Handle, Refuse, Accepts,
                Sources, Triggers
  <2>2. QED
    BY <1>1, <1>3, <2>1 DEF HandleRunRaises, EventTypes, TakeEvent
<1>4. CASE HandleStop \/ HandleStopRaises
  <2>1. TakesUpEvent("STOP", d)
    BY <1>4 DEF HandleStop, HandleStopRaises, TakesUpEvent, Handle, Refuse, Triggers
  <2>2. QED
    BY <1>1, <1>4, <2>1 DEF HandleStop, HandleStopRaises, EventTypes, TakeEvent
<1>5. CASE HandleRestart \/ HandleRestartRaises
  <2>1. TakesUpEvent("OPERATOR_RESTART", d)
    BY <1>5 DEF HandleRestart, HandleRestartRaises, RejectEvent, TakesUpEvent, Handle,
                Refuse, Triggers
  <2>2. QED
    BY <1>1, <1>5, <2>1 DEF HandleRestart, HandleRestartRaises, EventTypes, TakeEvent
<1>6. CASE SendStarts \/ SendStops \/ SendRestarts
  <2>1. PICK pc \in {"assigned", "stopping", "restarting"}, type \in CommandTypes :
          SendCommands(pc, type)
    BY <1>6 DEF SendStarts, SendStops, SendRestarts, CommandTypes
  <2>2. handler \in BusyHandler /\ handler.pc # "idle"
    BY <2>1, SendingIsBusy
  <2>3. handler'.pc # "idle" /\ handler'.ev = handler.ev
    BY <2>1, <2>2 DEF SendCommands, BusyHandler
  <2>4. QED
    BY <2>1, <2>2, <2>3 DEF SendCommands, GoesOnWithEvent, Busy
<1>7. CASE EventDone
  BY <1>7 DEF EventDone, GoesOnWithEvent, Busy, IdleHandler, Published
<1>8. QED
  BY <1>2, <1>3, <1>4, <1>5, <1>6, <1>7 DEF EventStep
------------------------------------------------------------------------------
(* Nothing is said of a deployment that has not been created.              *)
Unborn(d) ==
  /\ lastUpdate[d] = None /\ retained[d] = None /\ d \notin assigned /\ replay[d] = None
  /\ \A i \in DOMAIN events : events[i].depl # d
  /\ Busy => handler.ev.depl # d
  /\ \A t \in Tasks : pending[t] # None => pending[t].depl # d

BornOnly == \A d \in Deployments : db[d] = None => Unborn(d)

(* A machine that has moved, of a deployment not yet announced, has its    *)
(* update still to be published by Events, which is busy with it.          *)
MovesArePending ==
  /\ \A d \in Deployments :
       sm[d] \notin {None, "PENDING"} /\ lastUpdate[d] = None =>
         pending[Events] # None /\ pending[Events].depl = d
  /\ pending[Events] # None => Busy

(* No update is of the state PENDING.                                      *)
UpdatesAreLater ==
  /\ \A t \in Tasks : pending[t] # None => pending[t].state # "PENDING"
  /\ \A d \in Deployments : replay[d] # "PENDING"
  /\ \A i \in DOMAIN updates : updates[i].state # "PENDING"

RunQueued(d) ==
  \E i \in DOMAIN events : events[i].type = "RUN" /\ events[i].depl = d

RunTaken(d) ==
  /\ Busy /\ handler.ev.type = "RUN" /\ handler.ev.depl = d
  /\ pending[Events] # None /\ pending[Events].depl = d

(* A deployment that is pending has its update on the way to the app, or   *)
(* its request is yet to be dealt with.                                    *)
UpdateQueued(d) == \E i \in DOMAIN updates : updates[i].depl = d

PendingAccounted ==
  \A d \in Deployments : db[d] = "PENDING" =>
    \/ UpdateQueued(d)
    \/ lastUpdate[d] = None /\ (RunQueued(d) \/ RunTaken(d))

Requested == BornOnly /\ MovesArePending /\ UpdatesAreLater /\ PendingAccounted

(* The first event is taken: the others are left.                          *)
LEMMA TakesRest ==
  ASSUME StreamsTypeOK, NEW type, TakeEvent(type)
  PROVE  /\ \A i \in DOMAIN events' : i + 1 \in DOMAIN events /\ events'[i] = events[i + 1]
         /\ \A d : RunQueued(d) => RunQueued(d)' \/ (Head(events).depl = d /\ type = "RUN")
         /\ 1 \in DOMAIN events /\ events[1] = Head(events)
<1>1. events \in Seq(Event) /\ events # <<>> /\ events' = Tail(events)
      /\ Head(events).type = type
  BY DEF TakeEvent, StreamsTypeOK
<1>2. /\ Len(events) \in Nat \ {0} /\ DOMAIN events = 1 .. Len(events)
      /\ Head(events) = events[1]
      /\ DOMAIN events' = 1 .. (Len(events) - 1)
      /\ \A i \in DOMAIN events' : events'[i] = events[i + 1]
  BY <1>1, HeadTailProperties, LenProperties, EmptySeq
<1>3. ASSUME NEW d, RunQueued(d), ~(Head(events).depl = d /\ type = "RUN")
      PROVE  RunQueued(d)'
  <2>. PICK i \in DOMAIN events : events[i].type = "RUN" /\ events[i].depl = d
    BY <1>3 DEF RunQueued
  <2>1. i # 1 /\ i - 1 \in DOMAIN events' /\ events'[i - 1] = events[i]
    BY <1>1, <1>2, <1>3
  <2>2. QED
    BY <1>3, <2>1 DEF RunQueued
<1>4. QED
  BY <1>2, <1>3

(* A trigger that a machine in PENDING accepts moves it.                   *)
LEMMA PendingMoves ==
  /\ \A t \in Triggers, s \in States : Target(t, s) # "PENDING"
  /\ \A t \in Triggers : ~Reenters(t, "PENDING")
BY DEF Triggers, States, Target, Destination, Reenters

LEMMA FirePending ==
  ASSUME OrchestratorTypeOK, NEW t \in Triggers, NEW d \in Deployments,
         NEW k \in Tasks, Fire(k, t, d)
  PROVE  /\ sm' = [sm EXCEPT ![d] = Target(t, Machine(d))]
         /\ sm'[d] # "PENDING"
         /\ Machine(d) = "PENDING" => pending'[k] # None
         /\ \A j \in Tasks : pending'[j] # None =>
              \/ pending'[j] = pending[j]
              \/ j = k /\ pending'[j].depl = d /\ pending'[j].state = sm'[d]
         /\ \A j \in Tasks \ {k} : pending[j] # None /\ pending[j].depl # d =>
              pending'[j] = pending[j]
<1>1. Machine(d) \in States /\ Target(t, Machine(d)) \in States
  BY MachineType, MachineTypes
<1>2. None \notin Publication /\ "PENDING" \in States
  BY AbsentAssumption DEF States
<1>3. [depl |-> d, state |-> Target(t, Machine(d)), stored |-> TRUE] \in Publication
  BY <1>1 DEF Publication
<1>4. sm'[d] = Target(t, Machine(d))
  BY DEF Fire, OrchestratorTypeOK
<1>5. Machine(d) = "PENDING" => pending'[k] # None
  BY <1>2, <1>3, PendingMoves DEF Fire
<1>6. ASSUME NEW j \in Tasks, pending'[j] # None
      PROVE  \/ pending'[j] = pending[j]
             \/ j = k /\ pending'[j].depl = d /\ pending'[j].state = sm'[d]
  BY <1>4, <1>6 DEF Fire
<1>7. ASSUME NEW j \in Tasks \ {k}, pending[j] # None, pending[j].depl # d
      PROVE  pending'[j] = pending[j]
  BY <1>7 DEF Fire
<1>8. QED
  BY <1>1, <1>4, <1>5, <1>6, <1>7, PendingMoves DEF Fire

LEMMA TakesUpRequested ==
  ASSUME StreamsTypeOK, OrchestratorTypeOK, Requested, NEW type \in EventTypes,
         NEW d \in Deployments, TakesUpEvent(type, d),
         UNCHANGED <<assigned, lastUpdate, updates, retained, replay, db>>
  PROVE  Requested'
<1>1. /\ ~Busy /\ TakeEvent(type) /\ d = Head(events).depl
      /\ Head(events).type = type
      /\ pending[Events] = None
      /\ \A e \in Deployments : lastUpdate[e] = None => sm[e] \in {None, "PENDING"}
  BY DEF TakesUpEvent, TakeEvent, Busy, Requested, MovesArePending
<1>2. /\ \A i \in DOMAIN events' : i + 1 \in DOMAIN events /\ events'[i] = events[i + 1]
      /\ \A e : RunQueued(e) => RunQueued(e)' \/ (d = e /\ type = "RUN")
      /\ db[d] # None
  BY <1>1, TakesRest DEF Requested, BornOnly, Unborn
<1>3. CASE /\ \E t \in Triggers : Fire(Events, t, d)
           /\ handler'.pc # "idle" /\ handler'.ev = Head(events)
  <2>1. /\ \A e \in Deployments \ {d} : sm'[e] = sm[e]
        /\ sm'[d] # "PENDING"
        /\ Machine(d) = "PENDING" => pending'[Events] # None
        /\ \A j \in Tasks : pending'[j] # None =>
             \/ pending'[j] = pending[j]
             \/ j = Events /\ pending'[j].depl = d /\ pending'[j].state = sm'[d]
    <3>1. PICK t \in Triggers : Fire(Events, t, d)
      BY <1>3
    <3>2. Events \in Tasks
      BY DEF Tasks
    <3>3. QED
      BY <3>1, <3>2, FirePending DEF OrchestratorTypeOK
  <2>2. pending'[Events] # None => pending'[Events].depl = d
    BY <1>1, <2>1 DEF Tasks
  <2>3. BornOnly'
    <3>1. ASSUME NEW e \in Deployments, db[e] = None PROVE Unborn(e)'
      <4>1. Unborn(e) /\ e # d
        BY <1>2, <3>1 DEF Requested, BornOnly
      <4>2. \A t \in Tasks : pending'[t] # None => pending'[t].depl # e
        BY <2>1, <4>1 DEF Unborn
      <4>3. \A i \in DOMAIN events' : events'[i].depl # e
        BY <1>2, <4>1 DEF Unborn
      <4>4. QED
        BY <1>1, <1>3, <4>1, <4>2, <4>3 DEF Unborn, Busy
    <3>2. QED
      BY <3>1 DEF BornOnly
  <2>4. MovesArePending'
    BY <1>1, <1>3, <2>1, <2>2 DEF MovesArePending, Busy, Machine
  <2>5. UpdatesAreLater'
    BY <2>1 DEF Requested, UpdatesAreLater
  <2>6. ASSUME NEW e \in Deployments, db[e] = "PENDING", ~UpdateQueued(e)
        PROVE  lastUpdate[e] = None /\ (RunQueued(e)' \/ RunTaken(e)')
    <3>1. lastUpdate[e] = None /\ RunQueued(e)
      BY <1>1, <2>6 DEF Requested, PendingAccounted, RunTaken
    <3>2. CASE d = e /\ type = "RUN"
      <4>1. Machine(d) = "PENDING"
        BY <1>1, <3>1, <3>2 DEF Machine
      <4>2. QED
        BY <1>1, <1>3, <2>1, <2>2, <3>1, <3>2, <4>1 DEF RunTaken, Busy
    <3>3. QED
      BY <1>2, <3>1, <3>2
  <2>7. QED
    BY <2>3, <2>4, <2>5, <2>6 DEF Requested, PendingAccounted, UpdateQueued
<1>4. CASE ~(/\ \E t \in Triggers : Fire(Events, t, d)
             /\ handler'.pc # "idle" /\ handler'.ev = Head(events))
  <2>1. /\ UNCHANGED pending
        /\ UNCHANGED sm \/ Touch(d)
        /\ UNCHANGED handler \/ (handler'.pc # "idle" /\ handler'.ev = Head(events))
        /\ type = "RUN" => Machine(d) # "PENDING"
    BY <1>4 DEF TakesUpEvent, Touch
  <2>2. \A e \in Deployments : sm'[e] = sm[e] \/ sm'[e] = Machine(e)
    BY <2>1 DEF Touch, OrchestratorTypeOK
  <2>3. BornOnly'
    <3>1. ASSUME NEW e \in Deployments, db[e] = None PROVE Unborn(e)'
      <4>1. Unborn(e) /\ e # d
        BY <1>2, <3>1 DEF Requested, BornOnly
      <4>2. \A i \in DOMAIN events' : events'[i].depl # e
        BY <1>2, <4>1 DEF Unborn
      <4>3. QED
        BY <1>1, <2>1, <4>1, <4>2 DEF Unborn, Busy
    <3>2. QED
      BY <3>1 DEF BornOnly
  <2>4. MovesArePending'
    BY <1>1, <2>1, <2>2 DEF MovesArePending, Machine
  <2>5. UpdatesAreLater'
    BY <2>1 DEF Requested, UpdatesAreLater
  <2>6. ASSUME NEW e \in Deployments, db[e] = "PENDING", ~UpdateQueued(e)
        PROVE  lastUpdate[e] = None /\ RunQueued(e)'
    <3>1. lastUpdate[e] = None /\ RunQueued(e)
      BY <1>1, <2>6 DEF Requested, PendingAccounted, RunTaken
    <3>2. ~(d = e /\ type = "RUN")
      BY <1>1, <2>1, <3>1 DEF Machine
    <3>3. QED
      BY <1>2, <3>1, <3>2
  <2>7. QED
    BY <2>3, <2>4, <2>5, <2>6 DEF Requested, PendingAccounted, UpdateQueued
<1>5. QED
  BY <1>3, <1>4

LEMMA GoesOnRequested ==
  ASSUME Requested, GoesOnWithEvent,
         UNCHANGED <<lastUpdate, updates, retained, replay, db>>
  PROVE  Requested'
<1>1. /\ Busy /\ UNCHANGED <<events, sm, pending>>
      /\ \/ handler'.pc # "idle" /\ handler'.ev = handler.ev /\ UNCHANGED assigned
         \/ /\ handler'.pc = "idle" /\ pending[Events] = None
            /\ assigned' \in {assigned, assigned \cup {handler.ev.depl}}
  BY DEF GoesOnWithEvent
<1>2. BornOnly'
  BY <1>1 DEF Requested, BornOnly, Unborn, Busy
<1>3. MovesArePending' /\ UpdatesAreLater'
  BY <1>1 DEF Requested, MovesArePending, UpdatesAreLater, Busy
<1>4. PendingAccounted'
  BY <1>1 DEF Requested, PendingAccounted, RunQueued, RunTaken, UpdateQueued, Busy
<1>5. QED
  BY <1>2, <1>3, <1>4 DEF Requested

(* Reports are of announced deployments only: the machines, and the update *)
(* that Events has still to publish, of others stay.                       *)
TouchesAnnounced ==
  /\ \A e \in Deployments : lastUpdate[e] = None => sm'[e] = sm[e]
  /\ \A j \in Tasks : pending'[j] # None =>
       \/ pending'[j] = pending[j]
       \/ j = Entries /\ pending'[j].state # "PENDING"
          /\ pending'[j].depl \in Deployments /\ lastUpdate[pending'[j].depl] # None
  /\ pending[Events] # None /\ lastUpdate[pending[Events].depl] = None =>
       pending'[Events] = pending[Events]

LEMMA EntriesRequested ==
  ASSUME OrchestratorTypeOK, Requested, EntryTrigger,
         UNCHANGED <<events, retained, assigned, updates, lastUpdate, replay, handler, db>>
  PROVE  Requested'
<1>1. TouchesAnnounced
  <2>1. ASSUME NEW t \in Triggers \ {"start_failure"}, NEW d \in Deployments,
               lastUpdate[d] # None, Fire(Entries, t, d)
        PROVE  TouchesAnnounced
    BY <2>1, FirePending DEF TouchesAnnounced, Tasks, Events, Entries, OrchestratorTypeOK
  <2>2. ASSUME NEW d \in Deployments, lastUpdate[d] # None, Touch(d)
        PROVE  TouchesAnnounced
    BY <2>2 DEF TouchesAnnounced, Touch, OrchestratorTypeOK
  <2>3. QED
    BY <2>1, <2>2 DEF TouchesAnnounced, EntryTrigger
<1>2. pending'[Events] # None => pending'[Events] = pending[Events]
  BY <1>1 DEF TouchesAnnounced, Tasks, Events, Entries
<1>3. BornOnly'
  BY <1>1 DEF TouchesAnnounced, Requested, BornOnly, Unborn, Busy
<1>4. MovesArePending' /\ UpdatesAreLater'
  BY <1>1, <1>2 DEF TouchesAnnounced, Requested, MovesArePending, UpdatesAreLater, Busy
<1>5. PendingAccounted'
  BY <1>1 DEF TouchesAnnounced, Requested, PendingAccounted, RunQueued, RunTaken, UpdateQueued, Busy
<1>6. QED
  BY <1>3, <1>4, <1>5 DEF Requested

LEMMA PublishUpdateQueues ==
  ASSUME StreamsTypeOK, NEW d \in Deployments, NEW s \in States, PublishUpdate(d, s)
  PROVE  /\ \A e : UpdateQueued(e) => UpdateQueued(e)'
         /\ UpdateQueued(d)'
         /\ \A i \in DOMAIN updates' :
              \/ updates'[i].state = s
              \/ i \in DOMAIN updates /\ updates'[i] = updates[i]
         /\ lastUpdate'[d] = s
         /\ \A e \in Deployments \ {d} : lastUpdate'[e] = lastUpdate[e]
<1>. DEFINE u == [depl |-> d, state |-> s]
<1>1. /\ updates \in Seq(Update) /\ updates' = Append(updates, u)
      /\ u \in Update /\ u.depl = d /\ u.state = s
      /\ lastUpdate' = [lastUpdate EXCEPT ![d] = s]
  BY DEF PublishUpdate, StreamsTypeOK, Update
<1>. HIDE DEF u
<1>2. /\ Len(updates) \in Nat /\ DOMAIN updates = 1 .. Len(updates)
      /\ DOMAIN updates' = 1 .. (Len(updates) + 1)
      /\ \A i \in DOMAIN updates : updates'[i] = updates[i]
      /\ updates'[Len(updates) + 1] = u
  BY <1>1, AppendProperties, LenProperties
<1>3. \A i \in DOMAIN updates : i \in DOMAIN updates'
  BY <1>2
<1>4. Len(updates) + 1 \in DOMAIN updates'
  BY <1>2
<1>5. ASSUME NEW e, UpdateQueued(e) PROVE UpdateQueued(e)'
  BY <1>2, <1>3, <1>5 DEF UpdateQueued
<1>6. UpdateQueued(d)'
  BY <1>1, <1>2, <1>4 DEF UpdateQueued
<1>7. \A i \in DOMAIN updates' : updates'[i] = u \/ (i \in DOMAIN updates /\ updates'[i] = updates[i])
  BY <1>2
<1>8. QED
  BY <1>1, <1>5, <1>6, <1>7 DEF StreamsTypeOK

LEMMA PublishRequested ==
  ASSUME StreamsTypeOK, OrchestratorTypeOK, Requested, NEW t \in Tasks, Publish(t),
         UNCHANGED db
  PROVE  Requested'
<1>. PICK d \in Deployments, s \in States : pending[t].depl = d /\ pending[t].state = s
  BY DEF Publish, OrchestratorTypeOK, Publication
<1>1. /\ pending[t] # None /\ d \in Deployments /\ s \in States
      /\ PublishUpdate(d, s)
      /\ pending' = [pending EXCEPT ![t] = None]
      /\ UNCHANGED <<events, retained, assigned, replay, sm, handler>>
  BY DEF Publish, OrchestratorTypeOK, Publication
<1>2. /\ \A e \in Deployments \ {d} : lastUpdate'[e] = lastUpdate[e]
      /\ lastUpdate'[d] = s /\ s # None /\ s # "PENDING"
      /\ \A e : UpdateQueued(e) => UpdateQueued(e)'
      /\ UpdateQueued(d)'
      /\ \A i \in DOMAIN updates' : updates'[i].state # "PENDING"
  <2>1. s # None /\ s # "PENDING"
    BY <1>1, NoneAssumption DEF Requested, UpdatesAreLater
  <2>2. /\ \A e \in Deployments \ {d} : lastUpdate'[e] = lastUpdate[e]
        /\ lastUpdate'[d] = s
        /\ \A e : UpdateQueued(e) => UpdateQueued(e)'
        /\ UpdateQueued(d)'
        /\ \A i \in DOMAIN updates' :
             \/ updates'[i].state = s
             \/ i \in DOMAIN updates /\ updates'[i] = updates[i]
    BY <1>1, PublishUpdateQueues, ZenonT(30)
  <2>3. \A i \in DOMAIN updates' : updates'[i].state # "PENDING"
    BY <2>1, <2>2 DEF Requested, UpdatesAreLater
  <2>4. QED
    BY <2>1, <2>2, <2>3
<1>3. \A j \in Tasks : pending'[j] # None => j # t /\ pending'[j] = pending[j]
  BY <1>1 DEF OrchestratorTypeOK
<1>4. \A j \in Tasks \ {t} : pending'[j] = pending[j]
  BY <1>1 DEF OrchestratorTypeOK
<1>5. BornOnly'
  <2>1. ASSUME NEW e \in Deployments, db[e] = None PROVE Unborn(e)'
    <3>1. Unborn(e) /\ e # d
      BY <1>1, <2>1 DEF Requested, BornOnly, Unborn
    <3>2. QED
      BY <1>1, <1>2, <1>3, <3>1 DEF Unborn, Busy
  <2>2. QED
    BY <2>1 DEF BornOnly
<1>6. MovesArePending'
  <2>1. ASSUME NEW e \in Deployments, sm[e] \notin {None, "PENDING"}, lastUpdate'[e] = None
        PROVE  pending'[Events] # None /\ pending'[Events].depl = e
    <3>1. e # d /\ lastUpdate[e] = None
      BY <1>2, <2>1
    <3>2. pending[Events] # None /\ pending[Events].depl = e
      BY <2>1, <3>1 DEF Requested, MovesArePending
    <3>3. QED
      BY <1>4, <3>1, <3>2 DEF Tasks
  <2>2. pending'[Events] # None => Busy
    BY <1>3 DEF Requested, MovesArePending, Tasks
  <2>3. QED
    BY <1>1, <2>1, <2>2 DEF MovesArePending, Busy
<1>7. UpdatesAreLater'
  BY <1>1, <1>2, <1>3 DEF Requested, UpdatesAreLater
<1>8. PendingAccounted'
  <2>1. ASSUME NEW e \in Deployments, db[e] = "PENDING", ~UpdateQueued(e)'
        PROVE  lastUpdate'[e] = None /\ (RunQueued(e)' \/ RunTaken(e)')
    <3>1. e # d /\ ~UpdateQueued(e)
      BY <1>2, <2>1
    <3>2. lastUpdate[e] = None /\ (RunQueued(e) \/ RunTaken(e))
      BY <2>1, <3>1 DEF Requested, PendingAccounted
    <3>3. RunTaken(e) => RunTaken(e)'
      BY <1>1, <1>4, <3>1 DEF RunTaken, Busy, Tasks
    <3>4. RunQueued(e) => RunQueued(e)'
      BY <1>1 DEF RunQueued
    <3>5. QED
      BY <1>2, <3>1, <3>2, <3>3, <3>4
  <2>2. QED
    BY <2>1 DEF PendingAccounted
<1>9. QED
  BY <1>5, <1>6, <1>7, <1>8 DEF Requested

LEMMA CleanUpRequested ==
  ASSUME StreamsTypeOK, OrchestratorTypeOK, Requested, NEW d \in Deployments, CleanUp(d),
         UNCHANGED db
  PROVE  Requested'
<1>. PICK s \in States : replay[d] = s
  BY DEF CleanUp, OrchestratorTypeOK
<1>1. /\ PublishUpdate(d, s)
      /\ replay' = [replay EXCEPT ![d] = None]
      /\ UNCHANGED <<events, retained, assigned, pending, sm, handler>>
      /\ s # None /\ s # "PENDING"
  BY NoneAssumption DEF CleanUp, Requested, UpdatesAreLater
<1>2. /\ \A e \in Deployments \ {d} : lastUpdate'[e] = lastUpdate[e]
      /\ lastUpdate'[d] = s
      /\ \A e : UpdateQueued(e) => UpdateQueued(e)'
      /\ UpdateQueued(d)'
      /\ \A i \in DOMAIN updates' :
           \/ updates'[i].state = s
           \/ i \in DOMAIN updates /\ updates'[i] = updates[i]
  BY <1>1, PublishUpdateQueues, ZenonT(30)
<1>3. \A e \in Deployments : replay'[e] \in {replay[e], None}
  BY <1>1 DEF OrchestratorTypeOK
<1>4. BornOnly'
  <2>1. ASSUME NEW e \in Deployments, db[e] = None PROVE Unborn(e)'
    <3>1. Unborn(e) /\ e # d
      BY <1>1, <2>1 DEF Requested, BornOnly, Unborn
    <3>2. QED
      BY <1>1, <1>2, <1>3, <3>1 DEF Unborn, Busy
  <2>2. QED
    BY <2>1 DEF BornOnly
<1>5. MovesArePending'
  BY <1>1, <1>2 DEF Requested, MovesArePending, Busy
<1>6. UpdatesAreLater'
  BY <1>1, <1>2, <1>3, NoneAssumption DEF Requested, UpdatesAreLater, States
<1>7. PendingAccounted'
  <2>1. ASSUME NEW e \in Deployments, db[e] = "PENDING", ~UpdateQueued(e)'
        PROVE  lastUpdate'[e] = None /\ (RunQueued(e)' \/ RunTaken(e)')
    <3>1. e # d /\ ~UpdateQueued(e)
      BY <1>2, <2>1
    <3>2. lastUpdate[e] = None /\ (RunQueued(e) \/ RunTaken(e))
      BY <2>1, <3>1 DEF Requested, PendingAccounted
    <3>3. (RunTaken(e) => RunTaken(e)') /\ (RunQueued(e) => RunQueued(e)')
      BY <1>1 DEF RunTaken, RunQueued, Busy
    <3>4. QED
      BY <1>2, <3>1, <3>2, <3>3
  <2>2. QED
    BY <2>1 DEF PendingAccounted
<1>8. QED
  BY <1>4, <1>5, <1>6, <1>7 DEF Requested

(* What the replay finds has been created.                                 *)
LEMMA ReplayRequested ==
  ASSUME OrchestratorTypeOK, Requested, Replay, UNCHANGED db
  PROVE  Requested'
<1>1. /\ \A e \in Deployments : lastUpdate[e] = None => sm'[e] = sm[e]
      /\ \A e \in Deployments : replay'[e] \in {None, "FAILED_TO_START", "CANCELLED"}
      /\ \A e \in Deployments \ Seen : replay'[e] = None
      /\ UNCHANGED <<events, retained, assigned, updates, lastUpdate, handler>>
  BY NoneAssumption DEF Replay, streamVars, States
<1>2. \A t \in Tasks :
        /\ pending'[t] = None <=> pending[t] = None
        /\ pending[t] # None =>
             pending'[t].depl = pending[t].depl /\ pending'[t].state = pending[t].state
  <2>1. ASSUME NEW t \in Tasks, pending[t] # None
        PROVE  [pending[t] EXCEPT !.stored = FALSE] \in Publication
    BY <2>1 DEF OrchestratorTypeOK, Publication
  <2>2. ASSUME NEW t \in Tasks, pending[t] # None
        PROVE  pending[t] \in Publication
    BY <2>2 DEF OrchestratorTypeOK
  <2>3. QED
    BY <2>1, <2>2, AbsentAssumption DEF Replay, Publication
<1>3. BornOnly'
  <2>1. ASSUME NEW e \in Deployments, db[e] = None PROVE Unborn(e)'
    <3>1. Unborn(e)
      BY <2>1 DEF Requested, BornOnly
    <3>2. e \notin Seen
      BY <3>1, ValueAssumption DEF Seen, Unborn, EventTypes
    <3>3. QED
      BY <1>1, <1>2, <3>1, <3>2 DEF Unborn, Busy
  <2>2. QED
    BY <2>1 DEF BornOnly
<1>4. "PENDING" \notin {None, "FAILED_TO_START", "CANCELLED"}
  BY NoneAssumption DEF States
<1>5. MovesArePending' /\ UpdatesAreLater'
  BY <1>1, <1>2, <1>4 DEF Requested, MovesArePending, UpdatesAreLater, Busy, Tasks
<1>6. PendingAccounted'
  BY <1>1, <1>2
  DEF Requested, PendingAccounted, RunQueued, RunTaken, UpdateQueued, Busy, Tasks
<1>7. QED
  BY <1>3, <1>5, <1>6 DEF Requested

LEMMA StartupRequested ==
  ASSUME StreamsTypeOK, OrchestratorTypeOK, Requested, StartupStep, UNCHANGED db
  PROVE  Requested'
<1>1. CASE Start \/ Ready
  BY <1>1
  DEF Start, Ready, streamVars, Requested, BornOnly, Unborn, MovesArePending, UpdatesAreLater,
      PendingAccounted, UpdateQueued, RunQueued, RunTaken, Busy
<1>2. QED
  BY <1>1, CleanUpRequested, ReplayRequested DEF StartupStep

(* The event that the process dies with is delivered again.                *)
LEMMA CrashEvents ==
  ASSUME StreamsTypeOK, OrchestratorTypeOK, Crash
  PROVE  /\ \A i \in DOMAIN events' :
              \/ \E j \in DOMAIN events : events'[i] = events[j]
              \/ Busy /\ events'[i] = handler.ev
         /\ \A j \in DOMAIN events : \E i \in DOMAIN events' : events'[i] = events[j]
         /\ Busy => \E i \in DOMAIN events' : events'[i] = handler.ev
<1>1. CASE handler.pc = "idle"
  BY <1>1 DEF Crash, Busy
<1>2. CASE handler.pc # "idle"
  <2>. DEFINE n == Len(events)
  <2>1. /\ events \in Seq(Event) /\ n \in Nat /\ DOMAIN events = 1 .. n
        /\ \A j \in 1 .. n : events[j] \in Event
        /\ handler.ev \in Event
    BY <1>2, EventsType DEF OrchestratorTypeOK, BusyHandler, IdleHandler
  <2>2. PICK k \in 0 .. n :
          events' = SubSeq(events, 1, k) \o <<handler.ev>> \o SubSeq(events, k + 1, n)
    BY <1>2 DEF Crash
  <2>. DEFINE p == SubSeq(events, 1, k)
              q == SubSeq(events, k + 1, n)
              m == <<handler.ev>>
  <2>3. /\ p \in Seq(Event) /\ Len(p) = k /\ \A i \in 1 .. k : p[i] = events[i]
    BY <2>1, SubSeqProperties
  <2>4. /\ q \in Seq(Event) /\ Len(q) = n - k /\ \A i \in 1 .. n - k : q[i] = events[k + i]
    <3>1. \A i \in k + 1 .. n : events[i] \in Event
      BY <2>1
    <3>2. /\ q \in Seq(Event)
          /\ Len(q) = IF k + 1 <= n THEN n - (k + 1) + 1 ELSE 0
          /\ \A i \in 1 .. n - (k + 1) + 1 : q[i] = events[(k + 1) + i - 1]
      <4>1. k + 1 \in Int /\ n \in Int
        BY <2>1
      <4>2. QED
        BY <3>1, <4>1, SubSeqProperties DEF q
    <3>3. ASSUME ~(k + 1 <= n) PROVE n - k = 0
      <4>1. n \in Nat /\ k \in Nat /\ k <= n
        BY <2>1
      <4>2. k = n
        BY <3>3, <4>1
      <4>3. QED
        BY <4>1, <4>2
    <3>4. n - (k + 1) + 1 = n - k
      BY <2>1
    <3>5. ASSUME NEW i \in 1 .. n - k PROVE q[i] = events[k + i]
      <4>1. (k + 1) + i - 1 = k + i
        BY <2>1
      <4>2. QED
        BY <3>2, <3>4, <4>1
    <3>6. QED
      BY <3>2, <3>3, <3>5
  <2>5. /\ m \in Seq(Event) /\ Len(m) = 1 /\ m[1] = handler.ev
    BY <2>1
  <2>. HIDE DEF p, q, m, n
  <2>6. /\ p \o m \in Seq(Event) /\ Len(p \o m) = k + 1
        /\ \A i \in 1 .. k + 1 : (p \o m)[i] = IF i <= k THEN p[i] ELSE m[i - k]
    <3>1. Len(p) + Len(m) = k + 1
      BY <2>3, <2>5
    <3>2. /\ p \o m \in Seq(Event) /\ Len(p \o m) = Len(p) + Len(m)
          /\ \A i \in 1 .. Len(p) + Len(m) :
               (p \o m)[i] = IF i <= Len(p) THEN p[i] ELSE m[i - Len(p)]
      BY <2>3, <2>5, ConcatProperties
    <3>3. QED
      BY <2>3, <3>1, <3>2
  <2>7. /\ events' \in Seq(Event) /\ Len(events') = n + 1
        /\ \A i \in 1 .. n + 1 :
             events'[i] = IF i <= k + 1 THEN (p \o m)[i] ELSE q[i - (k + 1)]
    <3>1. events' = (p \o m) \o q
      BY <2>2 DEF p, q, m, n
    <3>2. k + 1 + (n - k) = n + 1
      BY <2>1, <2>2
    <3>3. QED
      BY <2>4, <2>6, <3>1, <3>2, ConcatProperties
  <2>8. DOMAIN events' = 1 .. n + 1
    BY <2>7, LenProperties
  <2>9. /\ \A i \in 1 .. k : events'[i] = events[i]
        /\ events'[k + 1] = handler.ev
        /\ \A i \in k + 2 .. n + 1 : events'[i] = events[i - 1]
    <3>1. ASSUME NEW i \in 1 .. k PROVE events'[i] = events[i]
      BY <2>1, <2>3, <2>6, <2>7
    <3>2. events'[k + 1] = handler.ev
      <4>1. k + 1 \in 1 .. n + 1 /\ k + 1 \in 1 .. k + 1 /\ k + 1 <= k + 1
            /\ ~(k + 1 <= k) /\ (k + 1) - k = 1
        BY <2>1
      <4>2. events'[k + 1] = (p \o m)[k + 1]
        BY <2>7, <4>1
      <4>3. (p \o m)[k + 1] = m[1]
        BY <2>6, <4>1
      <4>4. QED
        BY <2>5, <4>2, <4>3
    <3>3. ASSUME NEW i \in k + 2 .. n + 1 PROVE events'[i] = events[i - 1]
      <4>1. i - (k + 1) \in 1 .. n - k /\ k + (i - (k + 1)) = i - 1
        BY <2>1
      <4>2. events'[i] = q[i - (k + 1)]
        BY <2>1, <2>7
      <4>3. QED
        BY <2>4, <4>1, <4>2
    <3>4. QED
      BY <3>1, <3>2, <3>3
  <2>10. ASSUME NEW j \in DOMAIN events PROVE \E i \in DOMAIN events' : events'[i] = events[j]
    <3>1. CASE j <= k
      BY <2>1, <2>8, <2>9, <3>1
    <3>2. CASE j > k
      <4>1. j + 1 \in k + 2 .. n + 1 /\ j + 1 \in DOMAIN events' /\ (j + 1) - 1 = j
        BY <2>1, <2>8, <3>2
      <4>2. QED
        BY <2>9, <4>1
    <3>3. QED
      BY <2>1, <3>1, <3>2
  <2>11. ASSUME NEW i \in DOMAIN events'
         PROVE  (\E j \in DOMAIN events : events'[i] = events[j]) \/ events'[i] = handler.ev
    <3>1. CASE i \in 1 .. k
      BY <2>1, <2>9, <3>1
    <3>2. CASE i \in k + 2 .. n + 1
      <4>1. i - 1 \in DOMAIN events
        BY <2>1, <3>2
      <4>2. QED
        BY <2>9, <3>2, <4>1
    <3>3. QED
      BY <2>1, <2>8, <2>9, <3>1, <3>2
  <2>12. k + 1 \in DOMAIN events'
    BY <2>1, <2>8
  <2>13. QED
    BY <1>2, <2>9, <2>10, <2>11, <2>12 DEF Busy
<1>3. QED
  BY <1>1, <1>2

LEMMA CrashRequested ==
  ASSUME StreamsTypeOK, OrchestratorTypeOK, Requested, Crash, UNCHANGED db
  PROVE  Requested'
<1>1. /\ \A d \in Deployments : sm'[d] = None /\ replay'[d] = None
      /\ \A t \in Tasks : pending'[t] = None
      /\ ~Busy'
      /\ UNCHANGED <<retained, assigned, updates, lastUpdate>>
  BY DEF Crash, NoMemory, Busy, IdleHandler
<1>2. BornOnly'
  BY <1>1, CrashEvents DEF Requested, BornOnly, Unborn
<1>3. MovesArePending' /\ UpdatesAreLater'
  BY <1>1, NoneAssumption DEF Requested, MovesArePending, UpdatesAreLater, Tasks, States
<1>4. \A d : RunQueued(d) \/ RunTaken(d) => RunQueued(d)'
  <2>1. ASSUME NEW d, RunQueued(d) PROVE RunQueued(d)'
    BY <2>1, CrashEvents DEF RunQueued
  <2>2. ASSUME NEW d, RunTaken(d) PROVE RunQueued(d)'
    BY <2>2, CrashEvents DEF RunQueued, RunTaken
  <2>3. QED
    BY <2>1, <2>2
<1>5. PendingAccounted'
  BY <1>1, <1>4 DEF Requested, PendingAccounted, UpdateQueued
<1>6. QED
  BY <1>2, <1>3, <1>5 DEF Requested
------------------------------------------------------------------------------
(* A request is one more event of the stream.                              *)
LEMMA PublishedIsQueued ==
  ASSUME StreamsTypeOK, NEW type \in EventTypes, NEW d \in Deployments,
         PublishEvent(type, d)
  PROVE  /\ \A i \in DOMAIN events' :
              \/ events'[i].depl = d
              \/ \E j \in DOMAIN events : events'[i] = events[j]
         /\ \A e \in Deployments : RunQueued(e) => RunQueued(e)'
         /\ type = "RUN" => RunQueued(d)'
         /\ \A e \in Deployments : e # d => UNCHANGED retained[e]
<1>1. PICK n \in Nat : n = Len(events)
  BY DEF StreamsTypeOK
<1>. DEFINE x == [type |-> type, depl |-> d]
<1>2. /\ events \in Seq(Event) /\ DOMAIN events = 1 .. n
      /\ x \in Event /\ x.type = type /\ x.depl = d
  BY <1>1 DEF StreamsTypeOK, Event
<1>3. events' = Append(events, x)
  BY DEF PublishEvent
<1>4. /\ events' \in Seq(Event) /\ Len(events') = n + 1
      /\ \A i \in 1 .. n : events'[i] = events[i]
      /\ events'[n + 1] = x
  BY <1>1, <1>2, <1>3, AppendProperties
<1>. HIDE DEF x
<1>5. DOMAIN events' = 1 .. n + 1 /\ DOMAIN events \subseteq DOMAIN events'
  BY <1>2, <1>4, LenProperties
<1>6. n + 1 \in DOMAIN events'
  BY <1>5
<1>7. ASSUME NEW i \in DOMAIN events', i # n + 1
      PROVE  i \in DOMAIN events /\ events'[i] = events[i]
  BY <1>2, <1>4, <1>5, <1>7
<1>8. \A i \in DOMAIN events' :
        events'[i].depl = d \/ \E j \in DOMAIN events : events'[i] = events[j]
  BY <1>2, <1>4, <1>7
<1>9. \A e \in Deployments : RunQueued(e) => RunQueued(e)'
  BY <1>2, <1>4, <1>5 DEF RunQueued
<1>10. type = "RUN" => RunQueued(d)'
  BY <1>2, <1>4, <1>6 DEF RunQueued
<1>11. \A e \in Deployments : e # d => UNCHANGED retained[e]
  BY DEF PublishEvent, StreamsTypeOK
<1>12. QED
  BY <1>8, <1>9, <1>10, <1>11

LEMMA EventRequested ==
  ASSUME StreamsTypeOK, Requested,
         NEW type \in EventTypes, NEW d \in Deployments, PublishEvent(type, d),
         UNCHANGED <<assigned, updates, lastUpdate, orchestratorVars>>,
         db'[d] # None,
         \A e \in Deployments \ {d} : db'[e] = db[e],
         db'[d] = "PENDING" => db[d] = "PENDING" \/ (type = "RUN" /\ lastUpdate[d] = None)
  PROVE  Requested'
<1>1. /\ \A i \in DOMAIN events' :
           \/ events'[i].depl = d
           \/ \E j \in DOMAIN events : events'[i] = events[j]
      /\ \A e \in Deployments : RunQueued(e) => RunQueued(e)'
      /\ type = "RUN" => RunQueued(d)'
      /\ \A e \in Deployments : e # d => UNCHANGED retained[e]
  BY PublishedIsQueued, ZenonT(30)
<1>2. UNCHANGED <<assigned, updates, lastUpdate, replay, sm, pending, handler>>
  BY DEF orchestratorVars
<1>3. BornOnly'
  <2>1. ASSUME NEW e \in Deployments, db'[e] = None PROVE Unborn(e)'
    <3>1. e # d /\ Unborn(e)
      BY <2>1 DEF Requested, BornOnly
    <3>2. QED
      BY <1>1, <1>2, <3>1 DEF Unborn, Busy
  <2>2. QED
    BY <2>1 DEF BornOnly
<1>4. MovesArePending' /\ UpdatesAreLater'
  BY <1>2 DEF Requested, MovesArePending, UpdatesAreLater, Busy
<1>5. PendingAccounted'
  <2>1. ASSUME NEW e \in Deployments, db'[e] = "PENDING"
        PROVE  UpdateQueued(e)' \/ (lastUpdate'[e] = None /\ (RunQueued(e)' \/ RunTaken(e)'))
    <3>1. (UpdateQueued(e) => UpdateQueued(e)') /\ (RunTaken(e) => RunTaken(e)')
      BY <1>2 DEF UpdateQueued, RunTaken, Busy
    <3>2. CASE db[e] = "PENDING"
      BY <1>1, <1>2, <3>1, <3>2 DEF Requested, PendingAccounted
    <3>3. CASE db[e] # "PENDING"
      BY <1>1, <1>2, <2>1, <3>3
    <3>4. QED
      BY <3>2, <3>3
  <2>2. QED
    BY <2>1 DEF PendingAccounted
<1>6. QED
  BY <1>3, <1>4, <1>5 DEF Requested

LEMMA ConsumeRequested ==
  ASSUME StreamsTypeOK, AppTypeOK, Requested, ConsumeUpdate, UNCHANGED orchestratorVars
  PROVE  Requested'
<1>1. PICK d \in Deployments, s \in States : d = Head(updates).depl /\ s = Head(updates).state
  <2>1. Head(updates) \in Update
    BY HeadTailProperties DEF ConsumeUpdate, StreamsTypeOK
  <2>2. QED
    BY <2>1 DEF Update
<1>2. /\ updates \in Seq(Update) /\ updates # <<>> /\ updates' = Tail(updates)
      /\ db' = [db EXCEPT ![d] = s]
      /\ UNCHANGED <<events, retained, assigned, lastUpdate, replay, sm, pending, handler>>
  BY <1>1 DEF ConsumeUpdate, StreamsTypeOK, AppUnchanged, orchestratorVars
<1>3. /\ Len(updates) \in Nat \ {0} /\ DOMAIN updates = 1 .. Len(updates)
      /\ Head(updates) = updates[1]
      /\ DOMAIN updates' = 1 .. (Len(updates) - 1)
      /\ \A i \in 1 .. (Len(updates) - 1) : updates'[i] = updates[i + 1]
  BY <1>2, LenProperties, EmptySeq
<1>4. s # "PENDING" /\ s # None
  BY <1>1, <1>3, NoneAssumption DEF Requested, UpdatesAreLater
<1>5. \A i \in DOMAIN updates' : i + 1 \in DOMAIN updates /\ updates'[i] = updates[i + 1]
  BY <1>3
<1>6. ASSUME NEW e \in Deployments, e # d, UpdateQueued(e) PROVE UpdateQueued(e)'
  <2>1. PICK i \in DOMAIN updates : updates[i].depl = e
    BY <1>6 DEF UpdateQueued
  <2>2. i # 1
    BY <1>1, <1>3, <1>6, <2>1
  <2>3. i - 1 \in DOMAIN updates' /\ updates'[i - 1] = updates[i]
    BY <1>3, <2>2
  <2>4. QED
    BY <2>1, <2>3 DEF UpdateQueued
<1>7. db'[d] = s /\ \A e \in Deployments \ {d} : db'[e] = db[e]
  BY <1>2 DEF AppTypeOK
<1>8. BornOnly'
  BY <1>2, <1>4, <1>7 DEF Requested, BornOnly, Unborn, Busy
<1>9. MovesArePending' /\ UpdatesAreLater'
  BY <1>2, <1>5 DEF Requested, MovesArePending, UpdatesAreLater, Busy
<1>10. PendingAccounted'
  <2>1. ASSUME NEW e \in Deployments, db'[e] = "PENDING"
        PROVE  UpdateQueued(e)' \/ (lastUpdate'[e] = None /\ (RunQueued(e)' \/ RunTaken(e)'))
    <3>1. e # d /\ db[e] = "PENDING"
      BY <1>4, <1>7, <2>1
    <3>2. (RunQueued(e) => RunQueued(e)') /\ (RunTaken(e) => RunTaken(e)')
      BY <1>2 DEF RunQueued, RunTaken, Busy
    <3>3. QED
      BY <1>2, <1>6, <3>1, <3>2 DEF Requested, PendingAccounted
  <2>2. QED
    BY <2>1 DEF PendingAccounted
<1>11. QED
  BY <1>8, <1>9, <1>10 DEF Requested

LEMMA AppRequested ==
  ASSUME StreamsTypeOK, AppTypeOK, Requested, AppStep, ~Spend("failure"), ~Spend("edit"),
         UNCHANGED orchestratorVars
  PROVE  Requested'
<1>1. {"PENDING", "CANCELLED"} \subseteq States /\ None \notin States
  BY NoneAssumption DEF States
<1>2. ASSUME NEW d \in Deployments, CreateDeployment(d) PROVE Requested'
  <2>1. db'[d] = "PENDING" /\ \A e \in Deployments \ {d} : db'[e] = db[e]
    BY <1>2 DEF CreateDeployment, AppTypeOK
  <2>2. lastUpdate[d] = None
    BY <1>2 DEF CreateDeployment, Requested, BornOnly, Unborn
  <2>3. /\ PublishEvent("RUN", d) /\ "RUN" \in EventTypes
        /\ UNCHANGED <<assigned, updates, lastUpdate, orchestratorVars>>
    BY <1>2 DEF CreateDeployment, AppUnchanged, EventTypes
  <2>4. QED
    BY <1>1, <2>1, <2>2, <2>3, EventRequested
<1>3. ASSUME NEW d \in Deployments, UpdateDeployment(d, "CANCELLED") PROVE Requested'
  <2>1. db'[d] = "CANCELLED" /\ \A e \in Deployments \ {d} : db'[e] = db[e]
    BY <1>3 DEF UpdateDeployment, AppTypeOK
  <2>2. /\ PublishEvent("STOP", d) /\ "STOP" \in EventTypes
        /\ UNCHANGED <<assigned, updates, lastUpdate, orchestratorVars>>
    BY <1>3 DEF UpdateDeployment, AppUnchanged, EventTypes
  <2>3. QED
    BY <1>1, <2>1, <2>2, EventRequested
<1>4. ASSUME NEW d \in Deployments, RestartOperator(d) PROVE Requested'
  <2>1. db'[d] # None /\ \A e \in Deployments : db'[e] = db[e]
    BY <1>4 DEF RestartOperator
  <2>2. /\ PublishEvent("OPERATOR_RESTART", d) /\ "OPERATOR_RESTART" \in EventTypes
        /\ UNCHANGED <<assigned, updates, lastUpdate, orchestratorVars>>
    BY <1>4 DEF RestartOperator, AppUnchanged, EventTypes
  <2>3. QED
    BY <2>1, <2>2, EventRequested
<1>5. QED
  BY <1>2, <1>3, <1>4, ConsumeRequested DEF AppStep

LEMMA RequestedFrame ==
  ASSUME Requested,
         UNCHANGED <<events, retained, assigned, updates, lastUpdate, replay, sm, pending,
                     handler, db>>
  PROVE  Requested'
BY DEF Requested, BornOnly, Unborn, MovesArePending, UpdatesAreLater, PendingAccounted,
       UpdateQueued, RunQueued, RunTaken, Busy

(* No publish of the app or of the orchestrator fails and no user sets the *)
(* state of a deployment on its own.                                       *)
RequestsInv ==
  TypeOK /\ OnlyAnnounced /\ Requested /\ budget["failure"] = 0 /\ budget["edit"] = 0

LEMMA NextRequested == RequestsInv /\ [Next]_vars => RequestsInv'
<1>. SUFFICES ASSUME RequestsInv, [Next]_vars PROVE RequestsInv'
  OBVIOUS
<1>1. /\ TypeOK /\ StreamsTypeOK /\ OrchestratorTypeOK /\ AppTypeOK
      /\ OnlyAnnounced /\ Requested
  BY DEF RequestsInv, TypeOK
<1>2. /\ ~Spend("failure") /\ ~Spend("edit")
      /\ budget'["failure"] = 0 /\ budget'["edit"] = 0
  BY StaysSpent DEF RequestsInv, TypeOK, Budgets
<1>3. TypeOK' /\ OnlyAnnounced'
  BY <1>1, NextType, NextAnnounced
<1>4. SUFFICES Requested'
  BY <1>2, <1>3 DEF RequestsInv
<1>5. CASE EventStep /\ UNCHANGED db
  <2>1. UNCHANGED <<lastUpdate, updates, retained, replay>>
    BY <1>1, <1>5, EventStepKinds
  <2>2. \/ \E type \in EventTypes, d \in Deployments :
             TakesUpEvent(type, d) /\ UNCHANGED assigned
        \/ GoesOnWithEvent
    BY <1>1, <1>5, EventStepKinds, ZenonT(30)
  <2>3. QED
    BY <1>1, <1>5, <2>1, <2>2, TakesUpRequested, GoesOnRequested
<1>6. CASE (Relink \/ Forget \/ \E a \in Agents : EntryStep(a)) /\ UNCHANGED db
  <2>1. EntryTrigger /\ UNCHANGED <<lastUpdate, replay>>
    BY <1>1, <1>6, EntriesTrigger
  <2>2. UNCHANGED <<events, retained, assigned, updates, handler>>
    BY <1>6 DEF Relink, Forget, streamVars, EntryStep, FirstEntry, CancelReplaced, UpdateEntry,
                DeletedEntry, TakeEntry
  <2>3. QED
    BY <1>1, <1>6, <2>1, <2>2, EntriesRequested
<1>7. CASE (\E t \in Tasks : Publish(t)) /\ UNCHANGED db
  BY <1>1, <1>7, PublishRequested
<1>8. CASE StartupStep /\ UNCHANGED db
  BY <1>1, <1>8, StartupRequested
<1>9. CASE OrchestratorTrouble /\ UNCHANGED db
  BY <1>1, <1>2, <1>9, CrashRequested DEF OrchestratorTrouble
<1>10. CASE AppStep /\ UNCHANGED orchestratorVars
  BY <1>1, <1>2, <1>10, AppRequested
<1>11. ASSUME NEW a \in Agents, AgentTurn(a), UNCHANGED <<orchestratorVars, db>>
       PROVE  Requested'
  <2>1. Quiet
    BY <1>11, AgentTurnIsStep, AgentStepQuiet
  <2>2. QED
    BY <1>1, <1>11, <2>1, RequestedFrame DEF Quiet, orchestratorVars
<1>12. CASE (\E a \in Agents : Supersede(a)) /\ UNCHANGED <<orchestratorVars, db>>
  BY <1>1, <1>12, RequestedFrame DEF Supersede, orchestratorVars
<1>13. CASE UNCHANGED vars
  BY <1>1, <1>13, RequestedFrame DEF vars, streamVars, orchestratorVars
<1>14. QED
  BY <1>5, <1>6, <1>7, <1>8, <1>9, <1>10, <1>11, <1>12, <1>13, NextCases
  DEF OrchestratorStep

LEMMA InitRequested ==
  ASSUME MaxFailures = 0, MaxEdits = 0 PROVE Init => RequestsInv
<1>. SUFFICES ASSUME Init PROVE RequestsInv
  OBVIOUS
<1>1. TypeOK /\ OnlyAnnounced
  BY InitType, InitAnnounced
<1>2. Requested
  <2>1. DOMAIN events = {} /\ DOMAIN updates = {}
    BY DEF Init, StreamsInit
  <2>2. /\ \A d \in Deployments : /\ lastUpdate[d] = None /\ retained[d] = None
                                 /\ replay[d] = None /\ sm[d] = None /\ db[d] = None
        /\ \A t \in Tasks : pending[t] = None
        /\ assigned = {} /\ ~Busy /\ None # "PENDING"
    BY NoneAssumption
    DEF Init, StreamsInit, OrchestratorInit, IdleHandler, AppInit, Busy, States
  <2>3. BornOnly
    BY <2>1, <2>2 DEF BornOnly, Unborn
  <2>4. MovesArePending /\ UpdatesAreLater
    BY <2>1, <2>2 DEF MovesArePending, UpdatesAreLater, Tasks
  <2>5. PendingAccounted
    BY <2>2 DEF PendingAccounted
  <2>6. QED
    BY <2>3, <2>4, <2>5 DEF Requested
<1>3. budget["failure"] = 0 /\ budget["edit"] = 0
  BY MaxFailures = 0, MaxEdits = 0 DEF Init
<1>4. QED
  BY <1>1, <1>2, <1>3 DEF RequestsInv

(* Every run request is taken up, however often the orchestrator crashes   *)
(* with it: while no publish fails and no user sets a state on his own, no *)
(* deployment is left in PENDING when all is quiet.                        *)
THEOREM RequestsAreTakenUp ==
  ASSUME MaxFailures = 0, MaxEdits = 0 PROVE Spec => []NoneLeftPending
<1>1. Init => RequestsInv
  BY MaxFailures = 0, MaxEdits = 0, InitRequested
<1>2. RequestsInv => NoneLeftPending
  <2>1. ASSUME RequestsInv, Quiescent, NEW d \in Deployments, db[d] = "PENDING" PROVE FALSE
    <3>1. events = <<>> /\ updates = <<>> /\ ~Busy
      BY <2>1 DEF Quiescent, Busy
    <3>2. DOMAIN events = {} /\ DOMAIN updates = {}
      BY <3>1
    <3>3. QED
      BY <2>1, <3>1, <3>2
      DEF RequestsInv, Requested, PendingAccounted, UpdateQueued, RunQueued, RunTaken
  <2>2. QED
    BY <2>1 DEF NoneLeftPending
<1>3. QED
  BY <1>1, <1>2, NextRequested, PTL DEF Spec
------------------------------------------------------------------------------
(* No START of d is among the commands s; a STOP is, and none behind it.   *)
NoStart(s, d) == \A i \in DOMAIN s : ~(s[i].type = "START" /\ s[i].depl = d)

StopLast(s, d) ==
  \E i \in DOMAIN s :
    /\ s[i].type = "STOP" /\ s[i].depl = d
    /\ \A j \in DOMAIN s : j > i => ~(s[j].type = "START" /\ s[j].depl = d)

LEMMA AppendCommand ==
  ASSUME NEW s \in Seq(Command), NEW c \in Command, NEW d,
         ~(c.type = "START" /\ c.depl = d)
  PROVE  /\ NoStart(s, d) => NoStart(Append(s, c), d)
         /\ StopLast(s, d) => StopLast(Append(s, c), d)
         /\ c.type = "STOP" /\ c.depl = d => StopLast(Append(s, c), d)
<1>. DEFINE t == Append(s, c)
<1>1. PICK n \in Nat : n = Len(s)
  BY LenProperties
<1>2. /\ DOMAIN s = 1 .. n /\ DOMAIN t = 1 .. n + 1
      /\ \A i \in 1 .. n : t[i] = s[i]
      /\ t[n + 1] = c
  BY <1>1, AppendProperties, LenProperties
<1>. HIDE DEF t
<1>3. ASSUME NoStart(s, d) PROVE NoStart(t, d)
  BY <1>2, <1>3 DEF NoStart
<1>4. ASSUME StopLast(s, d) PROVE StopLast(t, d)
  <2>. PICK i \in DOMAIN s :
         /\ s[i].type = "STOP" /\ s[i].depl = d
         /\ \A j \in DOMAIN s : j > i => ~(s[j].type = "START" /\ s[j].depl = d)
    BY <1>4 DEF StopLast
  <2>1. i \in DOMAIN t /\ t[i] = s[i]
    BY <1>2
  <2>2. ASSUME NEW j \in DOMAIN t, j > i PROVE ~(t[j].type = "START" /\ t[j].depl = d)
    BY <1>2, <2>2
  <2>3. QED
    BY <2>1, <2>2 DEF StopLast
<1>5. ASSUME c.type = "STOP", c.depl = d PROVE StopLast(t, d)
  <2>1. n + 1 \in DOMAIN t /\ \A j \in DOMAIN t : ~(j > n + 1)
    BY <1>2
  <2>2. QED
    BY <1>2, <1>5, <2>1 DEF StopLast
<1>6. QED
  BY <1>3, <1>4, <1>5 DEF t

LEMMA TailCommands ==
  ASSUME NEW s \in Seq(Command), s # <<>>, NEW d
  PROVE  /\ NoStart(s, d) =>
              NoStart(Tail(s), d) /\ ~(Head(s).type = "START" /\ Head(s).depl = d)
         /\ StopLast(s, d) =>
              \/ StopLast(Tail(s), d)
              \/ Head(s).type = "STOP" /\ Head(s).depl = d /\ NoStart(Tail(s), d)
<1>1. PICK n \in Nat : n = Len(s)
  BY LenProperties
<1>. DEFINE t == Tail(s)
<1>2. /\ n # 0 /\ DOMAIN s = 1 .. n /\ DOMAIN t = 1 .. n - 1
      /\ \A i \in 1 .. n - 1 : t[i] = s[i + 1]
      /\ Head(s) = s[1]
  BY <1>1, HeadTailProperties, LenProperties, EmptySeq
<1>. HIDE DEF t
<1>3. \A i \in DOMAIN t : i + 1 \in DOMAIN s /\ t[i] = s[i + 1] /\ i + 1 > 1
  BY <1>2
<1>4. ASSUME NoStart(s, d) PROVE NoStart(t, d) /\ ~(s[1].type = "START" /\ s[1].depl = d)
  <2>1. 1 \in DOMAIN s
    BY <1>2
  <2>2. QED
    BY <1>3, <1>4, <2>1 DEF NoStart
<1>5. ASSUME StopLast(s, d)
      PROVE  StopLast(t, d) \/ (s[1].type = "STOP" /\ s[1].depl = d /\ NoStart(t, d))
  <2>. PICK i \in DOMAIN s :
         /\ s[i].type = "STOP" /\ s[i].depl = d
         /\ \A j \in DOMAIN s : j > i => ~(s[j].type = "START" /\ s[j].depl = d)
    BY <1>5 DEF StopLast
  <2>1. CASE i = 1
    BY <1>3, <2>1 DEF NoStart
  <2>2. CASE i # 1
    <3>1. i - 1 \in DOMAIN t /\ t[i - 1] = s[i]
      BY <1>2, <2>2
    <3>2. ASSUME NEW j \in DOMAIN t, j > i - 1
          PROVE  ~(t[j].type = "START" /\ t[j].depl = d)
      <4>1. j + 1 \in DOMAIN s /\ j + 1 > i /\ t[j] = s[j + 1]
        BY <1>2, <3>2
      <4>2. QED
        BY <4>1
    <3>3. QED
      BY <3>1, <3>2 DEF StopLast
  <2>3. QED
    BY <2>1, <2>2
<1>6. QED
  BY <1>2, <1>4, <1>5 DEF t

(* One task group's commands, in the queues of all agents.                 *)
LEMMA PublishedCommands ==
  ASSUME StreamsTypeOK, NEW type \in CommandTypes, NEW e \in Deployments,
         NEW S \in SUBSET Agents, PublishCommands(type, e, S), NEW d,
         ~(type = "START" /\ e = d)
  PROVE  \A a \in Agents :
           /\ NoStart(commands[a], d) => NoStart(commands[a], d)'
           /\ StopLast(commands[a], d) => StopLast(commands[a], d)'
           /\ type = "STOP" /\ e = d /\ a \in S => StopLast(commands[a], d)'
<1>. SUFFICES ASSUME NEW a \in Agents
              PROVE  /\ NoStart(commands[a], d) => NoStart(commands'[a], d)
                     /\ StopLast(commands[a], d) => StopLast(commands'[a], d)
                     /\ type = "STOP" /\ e = d /\ a \in S => StopLast(commands'[a], d)
  BY DEF NoStart, StopLast
<1>1. PICK c \in Command : c = [type |-> type, depl |-> e]
  BY DEF Command
<1>2. c.type = type /\ c.depl = e /\ commands[a] \in Seq(Command)
  BY <1>1 DEF StreamsTypeOK
<1>3. commands'[a] = IF a \in S THEN Append(commands[a], c) ELSE commands[a]
  BY <1>1 DEF PublishCommands
<1>4. QED
  BY <1>2, <1>3, AppendCommand
------------------------------------------------------------------------------
(* The handler has yet to send the stop of d to agent a.                   *)
IsTold(a, d) == handler.pc = "stopping" /\ handler.ev.depl = d /\ a \in handler.targets

(* Nothing of d is to come for agent a, and nothing goes on.               *)
IsClear(a, d) ==
  /\ NoStart(commands[a], d)
  /\ ~(agent[a].depl = d /\ agent[a].phase \in Live)
  /\ agent[a].next # d

Ends(a, d) ==
  \/ agent[a].phase = "gone" \/ IsTold(a, d)
  \/ StopLast(commands[a], d) \/ IsClear(a, d)

StopQueued(d) ==
  \E i \in DOMAIN events : events[i].type = "STOP" /\ events[i].depl = d

(* The stop of d has been taken: nothing assigns it any more, and every    *)
(* agent ends it or has a stop still to come.                              *)
Over(d) ==
  /\ ~RunQueued(d)
  /\ ~(handler.pc = "assigned" /\ handler.ev.depl = d)
  /\ \A a \in Agents : Ends(a, d)

StopsDealtWith == \A d \in Deployments : retained[d] = "STOP" => StopQueued(d) \/ Over(d)

(* Only an agent that waits to replace its deployment has a next one.      *)
NextWaits == \A a \in Agents : agent[a].next # None => agent[a].goal = "start"

(* Whoever is assigned anything is in the store of agents, until it has    *)
(* gone: a stop reaches it.                                                *)
HasStart(s) == \E i \in DOMAIN s : s[i].type = "START"

Assigned(a) ==
  \/ agent[a].depl # None \/ agent[a].next # None \/ HasStart(commands[a])
  \/ handler.pc = "assigned" /\ a \in handler.targets

KnownFirst == \A a \in Agents : Assigned(a) => agent[a].phase = "gone" \/ store[a] # None

DeletedWhenGone ==
  \A a \in Agents : \A i \in DOMAIN watch[a] : watch[a][i] = None => agent[a].phase = "gone"

Reachable == NextWaits /\ KnownFirst /\ DeletedWhenGone
------------------------------------------------------------------------------
(* An agent that takes a stop: of another deployment than its own, which   *)
(* it ignores, or it has the deployment torn down or forgotten.            *)
LEMMA NotACommand ==
  ASSUME NEW a \in Agents, AgentStep(a), ~CommandStep(a)
  PROVE  \/ UNCHANGED commands
         \/ /\ commands' = [commands EXCEPT ![a] = <<>>]
            /\ agent' = [agent EXCEPT ![a] = At("gone")]
BY DEF AgentStep, SoundStep, DeploymentStep, Cleans, Starts, Runs, Recovers, Errors,
       Collapses, Step, TornDown, BeginNext, Heartbeat, LeavingStep, ShutDown, Leave,
       Gone, Expires, Connect, RequestShutdown, Dies

LEMMA TakesStop ==
  ASSUME StreamsTypeOK, AgentsTypeOK, NEW a \in Agents, CommandStep(a),
         Head(commands[a]).type = "STOP"
  PROVE  /\ agent[a].goal = "stay"
         /\ \/ agent[a].depl # Head(commands[a]).depl /\ UNCHANGED agent
            \/ agent'[a].phase \notin Live /\ agent'[a].next \in {None, agent[a].next}
<1>1. agent[a] \in AgentState
  BY DEF AgentsTypeOK
<1>2. TakeCommand(a, "STOP") /\ (StopDeployment(a) \/ IgnoreCommand(a))
  BY DEF CommandStep, StartDeployment, ReplaceDeployment, StopDeployment, IgnoreCommand,
         TakeCommand
<1>3. agent[a].goal = "stay"
  BY <1>2 DEF TakeCommand
<1>4. CASE IgnoreCommand(a)
  BY <1>3, <1>4 DEF IgnoreCommand, TakeCommand
<1>5. CASE StopDeployment(a)
  <2>1. CASE CancelAndWait(a, "stop", None)
    <3>1. PICK r \in AgentState :
            agent' = [agent EXCEPT ![a] = r] /\ WaitsFor(agent[a], r, "stop", None)
      BY <1>3, <2>1, CancelAndWaitTurns, ZenonT(30)
    <3>2. agent'[a] = r
      BY <3>1 DEF AgentsTypeOK
    <3>3. QED
      BY <1>3, <3>1, <3>2 DEF WaitsFor, Live
  <2>2. CASE agent[a].phase = "idle" /\ agent' = [agent EXCEPT ![a].depl = None]
    BY <1>1, <1>3, <2>2 DEF AgentState, AgentsTypeOK, Live
  <2>3. QED
    BY <1>5, <2>1, <2>2 DEF StopDeployment
<1>6. QED
  BY <1>2, <1>4, <1>5

(* How a step of an agent changes what it has to end, and its commands.    *)
LEMMA TurnsNext ==
  ASSUME NEW a \in Agents, NEW r \in AgentState,
         Turns(a, r) \/ GoesWrong(agent[a], r), NextWaits
  PROVE  /\ agent[a].phase = "gone" => r.phase = "gone"
         /\ r.next # None => r.goal = "start"
         /\ {r.depl, r.next} \subseteq
              {agent[a].depl, agent[a].next, None}
                \cup (IF TakeCommand(a, "START") THEN {Head(commands[a]).depl} ELSE {})
<1>1. agent[a].next # None => agent[a].goal = "start"
  BY DEF NextWaits
<1>2. CASE GoesOn(agent[a], r) \/ GoesWrong(agent[a], r)
  BY <1>1, <1>2 DEF GoesOn, GoesWrong, Alike, Live
<1>3. CASE TakeCommand(a, "START") /\ TakesUp(agent[a], r, Head(commands[a]).depl)
  BY <1>1, <1>3 DEF TakesUp
<1>4. CASE \/ TakeCommand(a, "START") /\ WaitsFor(agent[a], r, "start", Head(commands[a]).depl)
           \/ WaitsFor(agent[a], r, "stop", None)
           \/ WaitsFor(agent[a], r, "shutdown", None)
  BY <1>1, <1>4 DEF WaitsFor, Live
<1>5. CASE Forgets(agent[a], r) \/ Finishes(agent[a], r) \/ Replaced(agent[a], r)
  BY <1>1, <1>5 DEF Forgets, Finishes, Replaced
<1>6. CASE IsToldToQuit(agent[a], r) \/ r = At("gone")
  BY <1>1, <1>6 DEF IsToldToQuit, At
<1>7. QED
  BY <1>2, <1>3, <1>4, <1>5, <1>6 DEF Turns

(* An agent takes d up only from a START.                                  *)
LEMMA TurnsClear ==
  ASSUME NEW a \in Agents, NEW r \in AgentState, NEW d \in Deployments,
         Turns(a, r) \/ GoesWrong(agent[a], r),
         ~(agent[a].depl = d /\ agent[a].phase \in Live), agent[a].next # d,
         TakeCommand(a, "START") => Head(commands[a]).depl # d
  PROVE  ~(r.depl = d /\ r.phase \in Live) /\ r.next # d
<1>1. None # d
  BY NoneAssumption
<1>2. CASE GoesOn(agent[a], r) \/ GoesWrong(agent[a], r)
  BY <1>2 DEF GoesOn, GoesWrong, Alike, Live
<1>3. CASE TakeCommand(a, "START") /\ TakesUp(agent[a], r, Head(commands[a]).depl)
  BY <1>3 DEF TakesUp, Live
<1>4. CASE \/ TakeCommand(a, "START") /\ WaitsFor(agent[a], r, "start", Head(commands[a]).depl)
           \/ WaitsFor(agent[a], r, "stop", None)
           \/ WaitsFor(agent[a], r, "shutdown", None)
  BY <1>1, <1>4 DEF WaitsFor, Live
<1>5. CASE Forgets(agent[a], r) \/ Finishes(agent[a], r) \/ Replaced(agent[a], r)
  BY <1>1, <1>5 DEF Forgets, Finishes, Replaced, Live
<1>6. CASE IsToldToQuit(agent[a], r) \/ r = At("gone")
  BY <1>1, <1>6 DEF IsToldToQuit, At, Live
<1>7. QED
  BY <1>2, <1>3, <1>4, <1>5, <1>6 DEF Turns

LEMMA AgentEnds ==
  ASSUME StreamsTypeOK, AgentsTypeOK, NextWaits, NEW a \in Agents, AgentStep(a),
         NEW b \in Agents, NEW d \in Deployments, Ends(b, d), UNCHANGED handler
  PROVE  Ends(b, d)'
<1>1. PICK r \in AgentState :
        /\ agent' = [agent EXCEPT ![a] = r]
        /\ Turns(a, r) \/ GoesWrong(agent[a], r)
  BY AgentStepTurns, ZenonT(30)
<1>2. IsTold(b, d) => IsTold(b, d)'
  BY DEF IsTold
<1>3. CASE b # a
  <2>1. agent'[b] = agent[b]
    BY <1>1, <1>3 DEF AgentsTypeOK
  <2>2. commands'[b] = commands[b]
    BY <1>3, AgentStepCommands DEF TakeCommand, StreamsTypeOK
  <2>3. QED
    BY <1>2, <2>1, <2>2 DEF Ends, StopLast, IsClear, NoStart
<1>4. CASE b = a
  <2>1. agent'[a] = r /\ commands[a] \in Seq(Command)
    BY <1>1 DEF AgentsTypeOK, StreamsTypeOK
  <2>2. CASE agent[a].phase = "gone"
    BY <1>1, <1>4, <2>1, <2>2, TurnsNext DEF Ends
  <2>3. CASE IsTold(a, d)
    BY <1>2, <1>4, <2>3 DEF Ends
  <2>4. \/ /\ commands[a] # <<>> /\ commands'[a] = Tail(commands[a]) /\ CommandStep(a)
        \/ UNCHANGED commands
        \/ r.phase = "gone"
    <3>1. CASE CommandStep(a)
      BY <3>1 DEF CommandStep, StartDeployment, ReplaceDeployment, StopDeployment,
                  IgnoreCommand, TakeCommand, StreamsTypeOK
    <3>2. CASE ~CommandStep(a)
      BY <2>1, <3>2, NotACommand DEF At, AgentsTypeOK
    <3>3. QED
      BY <3>1, <3>2
  <2>5. CASE IsClear(a, d)
    <3>1. commands[a] # <<>> /\ Head(commands[a]).type = "START" => Head(commands[a]).depl # d
      BY <2>1, <2>5, TailCommands DEF IsClear
    <3>2. TakeCommand(a, "START") => Head(commands[a]).depl # d
      BY <3>1 DEF TakeCommand
    <3>3. ~(r.depl = d /\ r.phase \in Live) /\ r.next # d
      BY <1>1, <2>5, <3>2, TurnsClear DEF IsClear
    <3>4. NoStart(commands'[a], d) \/ r.phase = "gone"
      BY <2>1, <2>4, <2>5, TailCommands DEF IsClear
    <3>5. QED
      BY <1>4, <2>1, <3>3, <3>4 DEF Ends, IsClear, NoStart
  <2>6. CASE StopLast(commands[a], d)
    <3>1. CASE StopLast(commands'[a], d) \/ r.phase = "gone"
      BY <1>4, <2>1, <3>1 DEF Ends, StopLast
    <3>2. CASE /\ commands[a] # <<>> /\ commands'[a] = Tail(commands[a]) /\ CommandStep(a)
               /\ Head(commands[a]).type = "STOP" /\ Head(commands[a]).depl = d
               /\ NoStart(Tail(commands[a]), d)
      <4>1. NoStart(commands'[a], d)
        BY <3>2
      <4>2. agent[a].next = None
        BY <3>2, TakesStop DEF NextWaits
      <4>3. ~(r.depl = d /\ r.phase \in Live) /\ r.next # d
        BY <2>1, <3>2, <4>2, TakesStop, NoneAssumption
      <4>4. QED
        BY <1>4, <2>1, <4>1, <4>3 DEF Ends, IsClear, NoStart
    <3>3. QED
      BY <2>1, <2>4, <2>6, <3>1, <3>2, TailCommands
  <2>7. QED
    BY <1>4, <2>2, <2>3, <2>5, <2>6 DEF Ends
<1>5. QED
  BY <1>3, <1>4

(* An agent puts a deletion under its key only when it has gone.           *)
LEMMA AgentDeletes ==
  ASSUME StreamsTypeOK, AgentsTypeOK, NEW a \in Agents, AgentStep(a)
  PROVE  \/ \E v \in AgentVal : SetKey(a, v)
         \/ UNCHANGED <<kv, watch>>
         \/ SetKey(a, None) /\ agent'[a].phase = "gone"
<1>1. \A r \in AgentState : ValueOf(r) \in AgentVal
  BY DEF ValueOf, AgentState, AgentVal
<1>2. ASSUME NEW r \in AgentState, Moves(a, r)
      PROVE  (\E v \in AgentVal : SetKey(a, v)) \/ UNCHANGED <<kv, watch>>
  BY <1>1, <1>2 DEF Moves, Become
<1>3. CASE CommandStep(a)
  <2>1. CASE \/ CancelAndWait(a, "stop", None)
             \/ \E d \in Deployments : CancelAndWait(a, "start", d)
    BY <1>2, <2>1, CancelAndWaitMoves
  <2>2. CASE UNCHANGED <<kv, watch>>
    BY <2>2
  <2>3. ASSUME NEW type, TakeCommand(a, type)
        PROVE  Head(commands[a]).depl \in Deployments
    BY <2>3, TakeCommandType DEF Command
  <2>4. QED
    BY <1>3, <2>1, <2>2, <2>3
    DEF CommandStep, StartDeployment, ReplaceDeployment, StopDeployment, IgnoreCommand
<1>4. CASE Cleans(a) \/ Starts(a) \/ Runs(a) \/ Recovers(a) \/ Errors(a) \/ Collapses(a)
  BY <1>2, <1>4, StepsOfDeployment, StepMoves
<1>5. CASE TornDown(a)
  <2>1. [agent[a] EXCEPT !.phase = "idle", !.status = "IDLE"] \in AgentState
    BY DEF AgentsTypeOK, AgentState, Phases, AgentStatuses
  <2>2. QED
    BY <1>1, <1>5, <2>1 DEF TornDown
<1>6. CASE BeginNext(a) \/ Dies(a)
  BY <1>6 DEF BeginNext, Dies, Gone
<1>7. CASE Heartbeat(a)
  BY <1>1, <1>7 DEF Heartbeat, AgentsTypeOK
<1>8. CASE Expires(a) \/ Leave(a)
  BY <1>8 DEF Expires, Leave, Gone, At, AgentsTypeOK
<1>9. CASE ShutDown(a) \/ Connect(a) \/ RequestShutdown(a)
  BY <1>2, <1>9, ShutDownMoves, ConnectMoves, RequestShutdownMoves
<1>10. QED
  BY <1>3, <1>4, <1>5, <1>6, <1>7, <1>8, <1>9
  DEF AgentStep, SoundStep, DeploymentStep, LeavingStep

LEMMA SetKeyDeletes ==
  ASSUME StreamsTypeOK, NEW a \in Agents, NEW v \in Entry, SetKey(a, v),
         NEW b \in Agents, NEW i \in DOMAIN watch'[b], watch'[b][i] = None
  PROVE  \/ b = a /\ v = None
         \/ i \in DOMAIN watch[b] /\ watch[b][i] = None
<1>1. CASE watching /\ b = a
  <2>1. watch'[b] = Append(watch[a], v) /\ watch[a] \in Seq(Entry)
    BY <1>1 DEF SetKey, StreamsTypeOK
  <2>2. watch'[b][i] = v \/ (i \in DOMAIN watch[a] /\ watch'[b][i] = watch[a][i])
    BY <2>1, AppendProperties
  <2>3. QED
    BY <1>1, <2>2
<1>2. CASE ~(watching /\ b = a)
  BY <1>2 DEF SetKey, StreamsTypeOK
<1>3. QED
  BY <1>1, <1>2

LEMMA AgentReachable ==
  ASSUME StreamsTypeOK, AgentsTypeOK, Reachable, NEW a \in Agents, AgentStep(a),
         UNCHANGED orchestratorVars
  PROVE  Reachable'
<1>1. PICK r \in AgentState :
        /\ agent' = [agent EXCEPT ![a] = r]
        /\ Turns(a, r) \/ GoesWrong(agent[a], r)
  BY AgentStepTurns, ZenonT(30)
<1>2. /\ agent'[a] = r
      /\ \A b \in Agents \ {a} : agent'[b] = agent[b] /\ commands'[b] = commands[b]
  BY <1>1, AgentStepCommands DEF AgentsTypeOK, TakeCommand, StreamsTypeOK
<1>3. /\ agent[a].phase = "gone" => r.phase = "gone"
      /\ r.next # None => r.goal = "start"
      /\ {r.depl, r.next} \subseteq
           {agent[a].depl, agent[a].next, None}
             \cup (IF TakeCommand(a, "START") THEN {Head(commands[a]).depl} ELSE {})
  BY <1>1, TurnsNext DEF Reachable
<1>4. NextWaits'
  BY <1>2, <1>3 DEF Reachable, NextWaits
<1>5. HasStart(commands[a])' => HasStart(commands[a])
  <2>1. commands[a] \in Seq(Command)
    BY DEF StreamsTypeOK
  <2>2. commands'[a] = commands[a] \/ commands'[a] = <<>>
        \/ (commands[a] # <<>> /\ commands'[a] = Tail(commands[a]))
    BY AgentStepCommands DEF TakeCommand, StreamsTypeOK
  <2>3. ASSUME commands[a] # <<>>
        PROVE  \A i \in DOMAIN Tail(commands[a]) :
                 i + 1 \in DOMAIN commands[a] /\ Tail(commands[a])[i] = commands[a][i + 1]
    BY <2>1, <2>3, HeadTailProperties, LenProperties, EmptySeq
  <2>4. DOMAIN <<>> = {}
    OBVIOUS
  <2>5. ASSUME NEW i \in DOMAIN commands'[a], commands'[a][i].type = "START"
        PROVE  HasStart(commands[a])
    BY <2>2, <2>3, <2>4, <2>5 DEF HasStart
  <2>6. QED
    BY <2>5 DEF HasStart
<1>6. TakeCommand(a, "START") => HasStart(commands[a])
  <2>1. commands[a] \in Seq(Command)
    BY DEF StreamsTypeOK
  <2>2. commands[a] # <<>> => Head(commands[a]) = commands[a][1] /\ 1 \in DOMAIN commands[a]
    BY <2>1, HeadTailProperties, LenProperties, EmptySeq
  <2>3. QED
    BY <2>2 DEF TakeCommand, HasStart
<1>7. KnownFirst'
  <2>1. ASSUME NEW b \in Agents, Assigned(b)', agent'[b].phase # "gone" PROVE store'[b] # None
    <3>1. UNCHANGED <<store, handler>>
      BY DEF orchestratorVars
    <3>2. agent[b].phase # "gone"
      BY <1>2, <1>3, <2>1
    <3>3. Assigned(b)
      BY <1>2, <1>3, <1>5, <1>6, <2>1, <3>1 DEF Assigned, HasStart
    <3>4. QED
      BY <3>1, <3>2, <3>3 DEF Reachable, KnownFirst
  <2>2. QED
    BY <2>1 DEF KnownFirst
<1>8. DeletedWhenGone'
  <2>1. ASSUME NEW b \in Agents, NEW i \in DOMAIN watch'[b], watch'[b][i] = None
        PROVE  agent'[b].phase = "gone"
    <3>1. CASE i \in DOMAIN watch[b] /\ watch[b][i] = None
      BY <1>2, <1>3, <3>1 DEF Reachable, DeletedWhenGone
    <3>2. CASE \E v \in AgentVal : SetKey(a, v)
      BY <2>1, <3>1, <3>2, SetKeyDeletes, ValueAssumption DEF Entry
    <3>3. CASE SetKey(a, None) /\ agent'[a].phase = "gone"
      BY <2>1, <3>1, <3>3, SetKeyDeletes DEF Entry
    <3>4. CASE UNCHANGED watch
      BY <2>1, <3>1, <3>4
    <3>5. QED
      BY <3>2, <3>3, <3>4, AgentDeletes
  <2>2. QED
    BY <2>1 DEF DeletedWhenGone
<1>9. QED
  BY <1>4, <1>7, <1>8 DEF Reachable
------------------------------------------------------------------------------
(* Events.  A stop that is taken is one that was queued, and the request   *)
(* to run the deployment came before it.                                   *)
LEMMA TakesQueued ==
  ASSUME StreamsTypeOK, RunsFirst, NEW type, TakeEvent(type), NEW d \in Deployments
  PROVE  /\ ~RunQueued(d) => ~RunQueued(d)'
         /\ type = "RUN" /\ Head(events).depl = d => RunQueued(d)
         /\ StopQueued(d) => \/ StopQueued(d)'
                             \/ type = "STOP" /\ Head(events).depl = d /\ ~RunQueued(d)'
<1>1. events \in Seq(Event) /\ events # <<>> /\ events' = Tail(events)
      /\ Head(events).type = type
  BY DEF TakeEvent, StreamsTypeOK
<1>2. /\ Len(events) \in Nat \ {0} /\ DOMAIN events = 1 .. Len(events)
      /\ Head(events) = events[1] /\ 1 \in DOMAIN events
      /\ DOMAIN events' = 1 .. (Len(events) - 1)
      /\ \A i \in DOMAIN events' : events'[i] = events[i + 1]
  BY <1>1, HeadTailProperties, LenProperties, EmptySeq
<1>3. \A i \in DOMAIN events' : i + 1 \in DOMAIN events /\ 1 \in 1 .. (i + 1 - 1)
  BY <1>2
<1>4. ~RunQueued(d) => ~RunQueued(d)'
  BY <1>2, <1>3 DEF RunQueued
<1>5. type = "RUN" /\ Head(events).depl = d => RunQueued(d)
  BY <1>1, <1>2 DEF RunQueued
<1>6. Head(events).depl = d => ~RunQueued(d)'
  BY <1>2, <1>3 DEF RunQueued, RunsFirst, FirstOfIt
<1>7. ASSUME StopQueued(d), ~(type = "STOP" /\ Head(events).depl = d) PROVE StopQueued(d)'
  <2>. PICK i \in DOMAIN events : events[i].type = "STOP" /\ events[i].depl = d
    BY <1>7 DEF StopQueued
  <2>1. i # 1 /\ i - 1 \in DOMAIN events' /\ events'[i - 1] = events[i]
    BY <1>1, <1>2, <1>7
  <2>2. QED
    BY <2>1 DEF StopQueued
<1>8. QED
  BY <1>4, <1>5, <1>6, <1>7

(* The handler's messages to agents, while it does not assign d.           *)
LEMMA SendsEnds ==
  ASSUME StreamsTypeOK, OrchestratorTypeOK, NEW pc, NEW type \in CommandTypes,
         SendCommands(pc, type), pc = "stopping" <=> type = "STOP",
         pc = "assigned" <=> type = "START", UNCHANGED agent,
         NEW d \in Deployments, Over(d)
  PROVE  Over(d)'
<1>1. /\ handler \in BusyHandler /\ handler.pc = pc
      /\ handler.ev \in Event /\ handler.ev.depl \in Deployments
      /\ handler.targets \in SUBSET Agents
  BY SendingIsBusy
<1>2. PICK S \in SUBSET handler.targets :
        /\ PublishCommands(type, handler.ev.depl, S)
        /\ handler' = [handler EXCEPT !.targets = @ \ S,
                         !.pc = IF pc = "assigned" /\ S = handler.targets
                                THEN "recording" ELSE @]
  BY DEF SendCommands
<1>3. ~(type = "START" /\ handler.ev.depl = d)
  BY <1>1 DEF Over
<1>4. /\ handler'.ev = handler.ev /\ handler'.targets = handler.targets \ S
      /\ handler'.pc = IF pc = "assigned" /\ S = handler.targets THEN "recording" ELSE handler.pc
  BY <1>1, <1>2 DEF BusyHandler
<1>5. ASSUME NEW a \in Agents PROVE Ends(a, d)'
  <2>1. /\ NoStart(commands[a], d) => NoStart(commands[a], d)'
        /\ StopLast(commands[a], d) => StopLast(commands[a], d)'
        /\ type = "STOP" /\ handler.ev.depl = d /\ a \in S => StopLast(commands[a], d)'
    BY <1>1, <1>2, <1>3, PublishedCommands
  <2>2. IsTold(a, d) => IsTold(a, d)' \/ StopLast(commands[a], d)'
    BY <1>1, <1>4, <2>1 DEF IsTold
  <2>3. IsClear(a, d) => IsClear(a, d)'
    BY <2>1 DEF IsClear
  <2>4. QED
    BY <2>1, <2>2, <2>3 DEF Over, Ends
<1>6. ~RunQueued(d)' /\ ~(handler'.pc = "assigned" /\ handler'.ev.depl = d)
  BY <1>4 DEF Over, RunQueued, SendCommands
<1>7. QED
  BY <1>5, <1>6 DEF Over

(* A stop that the machine refuses: the deployment failed to start, and    *)
(* nobody was ever told of it.                                             *)
LEMMA RefusedIsClear ==
  ASSUME OrchestratorTypeOK, Wanted, NEW d \in Deployments, Refuse("cancel", d)
  PROVE  \A a \in Agents : IsClear(a, d)
<1>1. sm[d] = "FAILED_TO_START"
  <2>1. Machine(d) \in States /\ Machine(d) \notin Sources["cancel"]
    BY MachineType DEF Refuse, Accepts
  <2>2. Machine(d) = "FAILED_TO_START"
    BY <2>1 DEF States, Sources
  <2>3. QED
    BY <2>2 DEF Machine
<1>2. PICK G : G = {e \in Deployments : sm[e] # "FAILED_TO_START"}
  OBVIOUS
<1>3. NamedIn(G) /\ d \notin G /\ None # d
  BY <1>1, <1>2, NoneAssumption DEF Wanted
<1>4. QED
  BY <1>3 DEF NamedIn, StartsIn, IsClear, NoStart

LEMMA EventOver ==
  ASSUME StreamsTypeOK, OrchestratorTypeOK, RunsFirst, Wanted, KnownFirst, EventStep,
         UNCHANGED agent, NEW d \in Deployments, StopQueued(d) \/ Over(d)
  PROVE  StopQueued(d)' \/ Over(d)'
<1>1. ASSUME NEW type, TakeEvent(type), UNCHANGED commands,
             handler'.pc = "assigned" => type = "RUN" /\ handler'.ev = Head(events),
             type = "STOP" => handler' = [pc |-> "stopping", ev |-> Head(events), targets |-> Known]
      PROVE  StopQueued(d)' \/ Over(d)'
  <2>1. /\ ~RunQueued(d) => ~RunQueued(d)'
        /\ type = "RUN" /\ Head(events).depl = d => RunQueued(d)
        /\ StopQueued(d) => \/ StopQueued(d)'
                            \/ type = "STOP" /\ Head(events).depl = d /\ ~RunQueued(d)'
    BY <1>1, TakesQueued
  <2>2. CASE StopQueued(d) /\ ~StopQueued(d)'
    <3>1. /\ handler'.pc = "stopping" /\ handler'.ev.depl = d /\ handler'.targets = Known
          /\ handler.pc = "idle" /\ ~RunQueued(d)'
      BY <1>1, <2>1, <2>2 DEF TakeEvent
    <3>2. ASSUME NEW a \in Agents PROVE Ends(a, d)'
      <4>1. CASE a \in Known
        BY <3>1, <4>1 DEF Ends, IsTold
      <4>2. CASE a \notin Known
        <5>1. agent[a].phase = "gone" \/ ~Assigned(a)
          BY <4>2 DEF Known, KnownFirst
        <5>2. ~Assigned(a) => IsClear(a, d)
          BY NoneAssumption DEF Assigned, IsClear, NoStart, HasStart
        <5>3. QED
          BY <1>1, <5>1, <5>2 DEF Ends, IsClear, NoStart
      <4>3. QED
        BY <4>1, <4>2
    <3>3. QED
      BY <3>1, <3>2 DEF Over
  <2>3. CASE Over(d)
    <3>1. ~RunQueued(d)' /\ ~(handler'.pc = "assigned" /\ handler'.ev.depl = d)
      BY <1>1, <2>1, <2>3 DEF Over
    <3>2. ASSUME NEW a \in Agents PROVE Ends(a, d)'
      BY <1>1, <2>3 DEF Over, Ends, IsTold, TakeEvent, StopLast, IsClear, NoStart
    <3>3. QED
      BY <3>1, <3>2 DEF Over
  <2>4. QED
    BY <2>2, <2>3
<1>2. CASE HandleRun \/ HandleRunRaises
  BY <1>1, <1>2 DEF HandleRun, HandleRunRaises, RejectEvent, Handle, TakeEvent
<1>3. CASE HandleStop
  BY <1>1, <1>3 DEF HandleStop, Handle
<1>4. CASE HandleStopRaises
  <2>1. /\ TakeEvent("STOP") /\ handler.pc = "idle" /\ UNCHANGED handler
        /\ Head(events).depl \in Deployments /\ Refuse("cancel", Head(events).depl)
    BY <1>4, TakeEventType DEF HandleStopRaises, TakeEvent
  <2>2. PICK e \in Deployments : e = Head(events).depl
    BY <2>1
  <2>3. PICK S \in SUBSET Agents : PublishCommands("STOP", e, S)
    BY <1>4, <2>2 DEF HandleStopRaises, Known
  <2>4. \A a \in Agents : (NoStart(commands[a], d) => NoStart(commands[a], d)')
                          /\ (StopLast(commands[a], d) => StopLast(commands[a], d)')
    BY <2>3, PublishedCommands DEF CommandTypes
  <2>5. \A a \in Agents : IsClear(a, d) => IsClear(a, d)'
    BY <2>4 DEF IsClear
  <2>6. /\ ~RunQueued(d) => ~RunQueued(d)'
        /\ StopQueued(d) => \/ StopQueued(d)'
                            \/ e = d /\ ~RunQueued(d)'
    BY <2>1, <2>2, TakesQueued
  <2>7. CASE Over(d)
    <3>1. \A a \in Agents : Ends(a, d)'
      BY <2>1, <2>4, <2>5, <2>7 DEF Over, Ends, IsTold
    <3>2. QED
      BY <2>1, <2>6, <2>7, <3>1 DEF Over
  <2>8. CASE e = d /\ ~RunQueued(d)'
    <3>1. \A a \in Agents : Ends(a, d)'
      BY <2>1, <2>2, <2>5, <2>8, RefusedIsClear DEF Ends
    <3>2. QED
      BY <2>1, <2>8, <3>1 DEF Over
  <2>9. QED
    BY <2>6, <2>7, <2>8
<1>5. CASE HandleRestart \/ HandleRestartRaises
  BY <1>1, <1>5 DEF HandleRestart, HandleRestartRaises, RejectEvent, Handle, TakeEvent
<1>6. CASE SendStarts \/ SendStops \/ SendRestarts
  <2>1. PICK pc \in {"assigned", "stopping", "restarting"}, type \in CommandTypes :
          /\ SendCommands(pc, type)
          /\ pc = "stopping" <=> type = "STOP"
          /\ pc = "assigned" <=> type = "START"
    BY <1>6 DEF SendStarts, SendStops, SendRestarts, CommandTypes
  <2>2. Over(d) => Over(d)'
    BY <2>1, SendsEnds
  <2>3. StopQueued(d) => StopQueued(d)'
    BY <2>1 DEF StopQueued, SendCommands
  <2>4. QED
    BY <2>2, <2>3
<1>7. CASE EventDone
  <2>1. UNCHANGED <<events, commands>> /\ handler' = IdleHandler /\ handler.targets = {}
    BY <1>7 DEF EventDone
  <2>2. \A a \in Agents : Ends(a, d) => Ends(a, d)'
    BY <2>1 DEF Ends, IsTold, StopLast, IsClear, NoStart
  <2>3. QED
    BY <2>1, <2>2 DEF Over, StopQueued, RunQueued, IdleHandler
<1>8. QED
  BY <1>2, <1>3, <1>4, <1>5, <1>6, <1>7 DEF EventStep

(* Only Events' sends, to agents of the store, reach agents' queues.       *)
LEMMA SendsReachable ==
  ASSUME StreamsTypeOK, OrchestratorTypeOK, NEW pc, NEW type \in CommandTypes,
         SendCommands(pc, type), pc = "assigned" <=> type = "START", UNCHANGED agent,
         Reachable
  PROVE  Reachable'
<1>1. /\ handler \in BusyHandler /\ handler.pc = pc
      /\ handler.ev \in Event /\ handler.ev.depl \in Deployments
      /\ handler.targets \in SUBSET Agents
  BY SendingIsBusy
<1>2. PICK S \in SUBSET handler.targets :
        /\ PublishCommands(type, handler.ev.depl, S)
        /\ handler' = [handler EXCEPT !.targets = @ \ S,
                         !.pc = IF pc = "assigned" /\ S = handler.targets
                                THEN "recording" ELSE @]
  BY DEF SendCommands
<1>3. PICK c \in Command : c = [type |-> type, depl |-> handler.ev.depl]
  BY <1>1 DEF Command
<1>4. UNCHANGED <<store, watch>>
  BY DEF SendCommands
<1>5. ASSUME NEW a \in Agents, HasStart(commands'[a])
      PROVE  HasStart(commands[a]) \/ (handler.pc = "assigned" /\ a \in handler.targets)
  <2>1. commands[a] \in Seq(Command)
    BY DEF StreamsTypeOK
  <2>2. CASE a \in S
    <3>1. commands'[a] = Append(commands[a], c)
      BY <1>2, <1>3, <2>2 DEF PublishCommands
    <3>2. \A i \in DOMAIN commands'[a] :
            \/ i \in DOMAIN commands[a] /\ commands'[a][i] = commands[a][i]
            \/ commands'[a][i] = c
      BY <2>1, <3>1, AppendProperties, LenProperties
    <3>3. c.type = type
      BY <1>3
    <3>4. QED
      BY <1>1, <1>5, <2>2, <3>2, <3>3 DEF HasStart
  <2>3. CASE a \notin S
    BY <1>2, <1>5, <2>3 DEF PublishCommands
  <2>4. QED
    BY <2>2, <2>3
<1>6. handler'.pc = "assigned" => handler.pc = "assigned"
      /\ handler'.targets \subseteq handler.targets
  BY <1>1, <1>2 DEF BusyHandler
<1>7. KnownFirst'
  <2>1. ASSUME NEW a \in Agents, Assigned(a)' PROVE Assigned(a)
    <3>1. HasStart(commands[a])' => HasStart(commands'[a])
      BY DEF HasStart
    <3>2. QED
      BY <1>5, <1>6, <2>1, <3>1 DEF Assigned
  <2>2. QED
    BY <1>4, <2>1 DEF Reachable, KnownFirst
<1>8. QED
  BY <1>4, <1>7 DEF Reachable, NextWaits, DeletedWhenGone

LEMMA EventReachable ==
  ASSUME StreamsTypeOK, OrchestratorTypeOK, Reachable, EventStep, UNCHANGED agent
  PROVE  Reachable'
<1>1. ASSUME UNCHANGED <<watch, store, commands>>,
             handler'.pc = "assigned" => handler'.targets = Known
      PROVE  Reachable'
  <2>1. ASSUME NEW a \in Agents, Assigned(a)' PROVE Assigned(a) \/ a \in Known
    BY <1>1, <2>1 DEF Assigned, HasStart
  <2>2. KnownFirst'
    BY <1>1, <2>1 DEF Known, Reachable, KnownFirst
  <2>3. QED
    BY <1>1, <2>2 DEF Reachable, NextWaits, DeletedWhenGone
<1>2. CASE HandleRun \/ HandleRunRaises \/ HandleRestart \/ HandleRestartRaises \/ HandleStop
  BY <1>1, <1>2
  DEF HandleRun, HandleRunRaises, HandleRestart, HandleRestartRaises, HandleStop,
      RejectEvent, Handle, TakeEvent
<1>3. CASE HandleStopRaises
  <2>1. PICK e \in Deployments : e = Head(events).depl
    BY <1>3, TakeEventType DEF HandleStopRaises
  <2>2. PICK S \in SUBSET Agents : PublishCommands("STOP", e, S)
    BY <1>3, <2>1 DEF HandleStopRaises, Known
  <2>3. UNCHANGED <<watch, store, handler>>
    BY <1>3 DEF HandleStopRaises, TakeEvent
  <2>4. PICK c \in Command : c = [type |-> "STOP", depl |-> e]
    BY DEF Command, CommandTypes
  <2>5. ASSUME NEW a \in Agents, HasStart(commands'[a]) PROVE HasStart(commands[a])
    <3>1. commands[a] \in Seq(Command) /\ c.type # "START"
      BY <2>4 DEF StreamsTypeOK
    <3>2. commands'[a] \in {commands[a], Append(commands[a], c)}
      BY <2>2, <2>4 DEF PublishCommands
    <3>3. \A i \in DOMAIN commands'[a] :
            \/ i \in DOMAIN commands[a] /\ commands'[a][i] = commands[a][i]
            \/ commands'[a][i] = c
      BY <3>1, <3>2, AppendProperties, LenProperties
    <3>4. QED
      BY <2>5, <3>1, <3>3 DEF HasStart
  <2>6. ASSUME NEW a \in Agents, Assigned(a)' PROVE Assigned(a)
    <3>1. HasStart(commands[a])' => HasStart(commands'[a])
      BY DEF HasStart
    <3>2. QED
      BY <2>3, <2>5, <2>6, <3>1 DEF Assigned
  <2>7. QED
    BY <2>3, <2>6 DEF Reachable, KnownFirst, NextWaits, DeletedWhenGone
<1>4. CASE SendStarts \/ SendStops \/ SendRestarts
  <2>1. PICK pc \in {"assigned", "stopping", "restarting"}, type \in CommandTypes :
          /\ SendCommands(pc, type)
          /\ pc = "assigned" <=> type = "START"
    BY <1>4 DEF SendStarts, SendStops, SendRestarts, CommandTypes
  <2>2. QED
    BY <2>1, SendsReachable
<1>5. CASE EventDone
  BY <1>1, <1>5 DEF EventDone, IdleHandler
<1>6. QED
  BY <1>2, <1>3, <1>4, <1>5 DEF EventStep

(* Entries: the store follows the watch, which deletes who has gone.       *)
LEMMA EntryReachable ==
  ASSUME StreamsTypeOK, OrchestratorTypeOK, Reachable, NEW a \in Agents, EntryStep(a),
         UNCHANGED agent
  PROVE  Reachable'
<1>1. TakeEntry(a)
  BY DEF EntryStep, FirstEntry, CancelReplaced, UpdateEntry, DeletedEntry
<1>2. /\ watch[a] \in Seq(Entry) /\ watch[a] # <<>>
      /\ watch' = [watch EXCEPT ![a] = Tail(@)]
      /\ store' = [store EXCEPT ![a] = Head(watch[a])]
      /\ UNCHANGED <<commands, handler>>
  BY <1>1 DEF TakeEntry, StreamsTypeOK
<1>3. /\ Head(watch[a]) = watch[a][1] /\ 1 \in DOMAIN watch[a]
      /\ \A i \in DOMAIN Tail(watch[a]) :
           i + 1 \in DOMAIN watch[a] /\ Tail(watch[a])[i] = watch[a][i + 1]
  BY <1>2, HeadTailProperties, LenProperties, EmptySeq
<1>4. /\ \A b \in Agents : watch'[b] = IF b = a THEN Tail(watch[a]) ELSE watch[b]
      /\ \A b \in Agents : store'[b] = IF b = a THEN watch[a][1] ELSE store[b]
  BY <1>2, <1>3 DEF StreamsTypeOK, OrchestratorTypeOK
<1>5. \A b \in Agents : Assigned(b)' => Assigned(b)
  BY <1>2 DEF Assigned, HasStart
<1>6. watch[a][1] = None => agent[a].phase = "gone"
  BY <1>3 DEF Reachable, DeletedWhenGone
<1>7. KnownFirst'
  BY <1>4, <1>5, <1>6 DEF Reachable, KnownFirst
<1>8. DeletedWhenGone'
  <2>1. ASSUME NEW b \in Agents, NEW i \in DOMAIN watch'[b], watch'[b][i] = None
        PROVE  agent[b].phase = "gone"
    <3>1. CASE b = a
      <4>1. i \in DOMAIN Tail(watch[a]) /\ Tail(watch[a])[i] = None
        BY <1>4, <2>1, <3>1
      <4>2. i + 1 \in DOMAIN watch[a] /\ watch[a][i + 1] = None
        BY <1>3, <4>1
      <4>3. QED
        BY <3>1, <4>2 DEF Reachable, DeletedWhenGone
    <3>2. CASE b # a
      BY <1>4, <2>1, <3>2 DEF Reachable, DeletedWhenGone
    <3>3. QED
      BY <3>1, <3>2
  <2>2. QED
    BY <2>1 DEF DeletedWhenGone
<1>9. QED
  BY <1>7, <1>8 DEF Reachable, NextWaits

LEMMA SupersedeReachable ==
  ASSUME StreamsTypeOK, Reachable, NEW a \in Agents, Supersede(a),
         UNCHANGED <<orchestratorVars, agent>>
  PROVE  Reachable'
<1>1. /\ watch[a] \in Seq(Entry) /\ Len(watch[a]) > 1
      /\ watch' = [watch EXCEPT ![a] = Tail(@)]
      /\ UNCHANGED <<commands, handler, store>>
  BY DEF Supersede, StreamsTypeOK, orchestratorVars
<1>2. \A i \in DOMAIN Tail(watch[a]) :
        i + 1 \in DOMAIN watch[a] /\ Tail(watch[a])[i] = watch[a][i + 1]
  BY <1>1, HeadTailProperties, LenProperties, EmptySeq
<1>3. \A b \in Agents : watch'[b] = IF b = a THEN Tail(watch[a]) ELSE watch[b]
  BY <1>1 DEF StreamsTypeOK
<1>4. DeletedWhenGone'
  <2>1. ASSUME NEW b \in Agents, NEW i \in DOMAIN watch'[b], watch'[b][i] = None
        PROVE  agent[b].phase = "gone"
    <3>1. CASE b = a
      <4>1. i \in DOMAIN Tail(watch[a]) /\ Tail(watch[a])[i] = None
        BY <1>3, <2>1, <3>1
      <4>2. i + 1 \in DOMAIN watch[a] /\ watch[a][i + 1] = None
        BY <1>2, <4>1
      <4>3. QED
        BY <3>1, <4>2 DEF Reachable, DeletedWhenGone
    <3>2. CASE b # a
      BY <1>3, <2>1, <3>2 DEF Reachable, DeletedWhenGone
    <3>3. QED
      BY <3>1, <3>2
  <2>2. QED
    BY <2>1 DEF DeletedWhenGone
<1>5. KnownFirst'
  BY <1>1 DEF Reachable, KnownFirst, Assigned, HasStart
<1>6. QED
  BY <1>4, <1>5 DEF Reachable, NextWaits

LEMMA ReachableFrame ==
  ASSUME Reachable, UNCHANGED <<agent, commands, handler, watch, store>>
  PROVE  Reachable'
BY DEF Reachable, NextWaits, KnownFirst, Assigned, HasStart, DeletedWhenGone

LEMMA OverFrame ==
  ASSUME UNCHANGED <<agent, commands, handler, events>>, NEW d
  PROVE  (StopQueued(d) \/ Over(d)) => (StopQueued(d) \/ Over(d))'
BY DEF StopQueued, Over, RunQueued, Ends, IsTold, StopLast, IsClear, NoStart

LEMMA StopsFrame ==
  ASSUME StopsDealtWith, UNCHANGED <<agent, commands, handler, events, retained>>
  PROVE  StopsDealtWith'
BY OverFrame DEF StopsDealtWith
------------------------------------------------------------------------------
(* The app: a stop is queued, and what is over stays so.                   *)
LEMMA EventStops ==
  ASSUME StreamsTypeOK, StopsDealtWith, NEW type \in {"RUN", "STOP"}, NEW d \in Deployments,
         PublishEvent(type, d), UNCHANGED <<agent, commands, orchestratorVars>>
  PROVE  StopsDealtWith'
<1>1. PICK n \in Nat : n = Len(events)
  BY LenProperties DEF StreamsTypeOK
<1>2. PICK x \in Event : x = [type |-> type, depl |-> d]
  BY DEF Event, EventTypes
<1>3. x.type = type /\ x.depl = d /\ events \in Seq(Event) /\ events' = Append(events, x)
  BY <1>2 DEF PublishEvent, StreamsTypeOK
<1>4. /\ DOMAIN events = 1 .. n /\ DOMAIN events' = 1 .. n + 1
      /\ \A i \in 1 .. n : events'[i] = events[i]
      /\ events'[n + 1] = x
  BY <1>1, <1>3, AppendProperties, LenProperties
<1>5. \A e \in Deployments : StopQueued(e) => StopQueued(e)'
  BY <1>4 DEF StopQueued
<1>6. type = "STOP" => StopQueued(d)'
  <2>1. n + 1 \in DOMAIN events'
    BY <1>4
  <2>2. QED
    BY <1>3, <1>4, <2>1 DEF StopQueued
<1>7. /\ type = "RUN" => retained'[d] # "STOP"
      /\ \A e \in Deployments \ {d} : retained'[e] = retained[e]
  BY DEF PublishEvent, StreamsTypeOK
<1>8. ASSUME NEW e \in Deployments, e # d, Over(e) PROVE Over(e)'
  <2>1. ~RunQueued(e)'
    BY <1>3, <1>4, <1>8 DEF Over, RunQueued
  <2>2. \A a \in Agents : Ends(a, e) => Ends(a, e)'
    BY DEF Ends, IsTold, StopLast, IsClear, NoStart, orchestratorVars
  <2>3. QED
    BY <1>8, <2>1, <2>2 DEF Over, orchestratorVars
<1>9. QED
  BY <1>5, <1>6, <1>7, <1>8 DEF StopsDealtWith

LEMMA AppStops ==
  ASSUME StreamsTypeOK, StopsDealtWith, AppStep, ~Spend("restart"),
         UNCHANGED <<agent, orchestratorVars>>
  PROVE  StopsDealtWith'
<1>1. UNCHANGED <<commands, handler>>
  BY DEF AppStep, ConsumeUpdate, RestartApp, CreateDeployment, UpdateDeployment,
         RestartOperator, CreateLost, UpdateLost, AppUnchanged, streamVars, orchestratorVars
<1>2. \/ UNCHANGED <<events, retained>>
      \/ \E d \in Deployments : PublishEvent("RUN", d) \/ PublishEvent("STOP", d)
  BY DEF AppStep, ConsumeUpdate, RestartApp, CreateDeployment, UpdateDeployment,
         CreateLost, UpdateLost, streamVars
<1>3. QED
  BY <1>1, <1>2, StopsFrame, EventStops

(* Nothing crashes or fails, and no operator is restarted.                 *)
StopsInv ==
  Forward /\ Reachable /\ StopsDealtWith /\ budget["failure"] = 0

LEMMA NextStops == StopsInv /\ [Next]_vars => StopsInv'
<1>. SUFFICES ASSUME StopsInv, [Next]_vars PROVE StopsInv'
  OBVIOUS
<1>1. /\ StreamsTypeOK /\ OrchestratorTypeOK /\ AgentsTypeOK
      /\ RunsFirst /\ Wanted /\ Reachable /\ StopsDealtWith /\ Running
  BY DEF StopsInv, Forward, TypeOK, AfterStart
<1>2. /\ ~Spend("failure") /\ ~Spend("restart") /\ ~Spend("crash")
      /\ budget'["failure"] = 0
  BY StaysSpent DEF StopsInv, Forward, TypeOK, Budgets
<1>3. Forward'
  BY NextForward DEF StopsInv
<1>. SUFFICES Reachable' /\ StopsDealtWith'
  BY <1>2, <1>3 DEF StopsInv
<1>4. ASSUME UNCHANGED <<events, retained, commands, agent, handler, watch, store>>
      PROVE  Reachable' /\ StopsDealtWith'
  BY <1>1, <1>4, ReachableFrame, StopsFrame
<1>5. CASE EventStep /\ UNCHANGED agent
  <2>1. UNCHANGED retained
    BY <1>1, <1>5, EventStepKinds
  <2>2. StopsDealtWith'
    BY <1>1, <1>5, <2>1, EventOver DEF Reachable, StopsDealtWith
  <2>3. QED
    BY <1>1, <1>5, <2>2, EventReachable
<1>6. ASSUME NEW a \in Agents, EntryStep(a), UNCHANGED agent
      PROVE  Reachable' /\ StopsDealtWith'
  <2>1. UNCHANGED <<events, retained, commands, handler>>
    BY <1>6 DEF EntryStep, FirstEntry, CancelReplaced, UpdateEntry, DeletedEntry, TakeEntry
  <2>2. QED
    BY <1>1, <1>6, <2>1, EntryReachable, StopsFrame
<1>7. CASE (Relink \/ Forget \/ \E t \in Tasks : Publish(t)) /\ UNCHANGED agent
  BY <1>4, <1>7 DEF Relink, Forget, Publish, streamVars
<1>8. ~StartupStep
  BY <1>1 DEF Running, StartupStep, Start, Replay, CleanUp, Ready
<1>9. ~OrchestratorTrouble
  BY <1>2 DEF OrchestratorTrouble
<1>10. CASE AppStep /\ UNCHANGED <<orchestratorVars, agent>>
  <2>1. UNCHANGED <<commands, handler, watch, store>>
    BY <1>10 DEF AppStep, ConsumeUpdate, RestartApp, CreateDeployment, UpdateDeployment,
           RestartOperator, CreateLost, UpdateLost, AppUnchanged, streamVars, orchestratorVars
  <2>2. QED
    BY <1>1, <1>2, <1>10, <2>1, AppStops, ReachableFrame
<1>11. ASSUME NEW a \in Agents, AgentTurn(a), UNCHANGED orchestratorVars
       PROVE  Reachable' /\ StopsDealtWith'
  <2>1. AgentStep(a) /\ UNCHANGED <<events, retained, handler>>
    BY <1>11, AgentTurnIsStep, AgentStepQuiet DEF Quiet, orchestratorVars
  <2>2. ASSUME NEW d \in Deployments, Over(d) PROVE Over(d)'
    <3>1. \A b \in Agents : Ends(b, d)'
      BY <1>1, <2>1, <2>2, AgentEnds DEF Over, Reachable
    <3>2. QED
      BY <2>1, <2>2, <3>1 DEF Over, RunQueued
  <2>3. \A d \in Deployments : StopQueued(d) => StopQueued(d)'
    BY <2>1 DEF StopQueued
  <2>4. QED
    BY <1>1, <1>11, <2>1, <2>2, <2>3, AgentReachable DEF StopsDealtWith
<1>12. CASE (\E a \in Agents : Supersede(a)) /\ UNCHANGED <<orchestratorVars, agent>>
  <2>1. UNCHANGED <<events, retained, commands, handler>>
    BY <1>12 DEF Supersede, orchestratorVars
  <2>2. QED
    BY <1>1, <1>12, <2>1, SupersedeReachable, StopsFrame
<1>13. CASE UNCHANGED vars
  BY <1>4, <1>13 DEF vars, streamVars, orchestratorVars
<1>14. QED
  BY <1>5, <1>6, <1>7, <1>8, <1>9, <1>10, <1>11, <1>12, <1>13, NextCases DEF OrchestratorStep

LEMMA InitStops ==
  ASSUME MaxCrashes = 0, MaxRestarts = 0, MaxFailures = 0, Init
  PROVE  StopsInv
<1>1. Forward
  BY MaxCrashes = 0, MaxRestarts = 0, InitForward
<1>2. \A a \in Agents : /\ agent[a].depl = None /\ agent[a].next = None
                        /\ DOMAIN commands[a] = {} /\ DOMAIN watch[a] = {}
  BY DEF Init, StreamsInit, AgentsInit, At
<1>3. handler.pc = "idle" /\ \A d \in Deployments : retained[d] # "STOP"
  BY ValueAssumption DEF Init, StreamsInit, OrchestratorInit, IdleHandler, EventTypes
<1>4. Reachable
  BY <1>2, <1>3 DEF Reachable, NextWaits, KnownFirst, Assigned, HasStart, DeletedWhenGone
<1>5. StopsDealtWith
  BY <1>3 DEF StopsDealtWith
<1>6. budget["failure"] = 0
  BY MaxFailures = 0 DEF Init
<1>7. QED
  BY <1>1, <1>4, <1>5, <1>6 DEF StopsInv

(* A user's stop takes effect wherever it finds the assignment: with any   *)
(* number of agents that join, leave, die or change over meanwhile, no     *)
(* agent serves a stopped deployment once all is quiet, while the          *)
(* orchestrator does not crash, no publish fails and no operator is        *)
(* restarted.                                                              *)
THEOREM StopsReachEveryAgent ==
  ASSUME MaxCrashes = 0, MaxRestarts = 0, MaxFailures = 0
  PROVE  Spec => []StoppedMeansStopped
<1>1. Init => StopsInv
  BY MaxCrashes = 0, MaxRestarts = 0, MaxFailures = 0, InitStops
<1>2. StopsInv => StoppedMeansStopped
  <2>1. ASSUME StopsInv, Quiescent, NEW d \in Deployments, retained[d] = "STOP",
               NEW a \in Agents, agent[a].depl = d,
               agent[a].phase \in Live \cup {"teardown"}
        PROVE  FALSE
    <3>1. /\ events = <<>> /\ handler.pc = "idle" /\ commands[a] = <<>>
          /\ agent[a].phase = "running"
      BY <2>1 DEF Quiescent, Live
    <3>2. DOMAIN events = {} /\ DOMAIN commands[a] = {}
      BY <3>1
    <3>3. Over(d)
      BY <2>1, <3>2 DEF StopsInv, StopsDealtWith, StopQueued
    <3>4. Ends(a, d)
      BY <3>3 DEF Over
    <3>5. QED
      BY <2>1, <3>1, <3>2, <3>4 DEF Ends, IsTold, StopLast, IsClear, Live
  <2>2. QED
    BY <2>1 DEF StoppedMeansStopped, Serving
<1>3. QED
  BY <1>1, <1>2, NextStops, PTL DEF Spec

------------------------------------------------------------------------------
(* A trigger that re-enters a state gives up the publication of it by the  *)
(* other task: that happens with a stop or with the restart of an operator.*)
Loses(d) ==
  \/ sm[d] = "CANCELLED" /\ MaxStops > 0
  \/ sm[d] = "FAILURE_ON_AGENT" /\ MaxRestarts > 0

(* A machine is in the state last published, or that is still to be.       *)
Accounted(d) ==
  /\ sm[d] # "PENDING"
  /\ \/ sm[d] = lastUpdate[d]
     \/ \E t \in Tasks : pending[t] # None /\ pending[t].depl = d
     \/ Loses(d)

Told == \A d \in Deployments : sm[d] # None => Accounted(d)

(* What Events publishes.                                                  *)
EventsTell ==
  pending[Events] # None =>
    /\ Busy
    /\ \/ pending[Events].state \in {"AGENTS_ASSIGNED", "FAILED_TO_START"}
       \/ pending[Events].state = "CANCELLED" /\ MaxStops > 0

(* Nobody asks for a stop when none is to be asked for.                    *)
StopsAreAsked ==
  MaxStops = 0 =>
    /\ budget["stop"] = 0
    /\ \A i \in DOMAIN events : events[i].type # "STOP"

LEMMA FireTold ==
  ASSUME OrchestratorTypeOK, Told, NEW k \in Tasks, NEW t \in Triggers,
         NEW d \in Deployments, Fire(k, t, d), pending[k] = None, UNCHANGED lastUpdate,
         \A j \in Tasks : /\ Reenters(t, Machine(d))
                          /\ pending[j] # None /\ pending[j].depl = d
                          => Loses(d)
  PROVE  Told'
<1>1. /\ sm' = [sm EXCEPT ![d] = Target(t, Machine(d))]
      /\ sm'[d] # "PENDING"
      /\ \A j \in Tasks \ {k} : pending[j] # None /\ pending[j].depl # d =>
           pending'[j] = pending[j]
  BY FirePending
<1>2. sm'[d] = Target(t, Machine(d)) /\ \A e \in Deployments \ {d} : sm'[e] = sm[e]
  BY <1>1 DEF OrchestratorTypeOK
<1>3. ASSUME NEW e \in Deployments, e # d, sm'[e] # None PROVE Accounted(e)'
  <2>1. sm'[e] = sm[e] /\ Accounted(e)
    BY <1>2, <1>3 DEF Told
  <2>2. ASSUME NEW j \in Tasks, pending[j] # None, pending[j].depl = e
        PROVE  pending'[j] # None /\ pending'[j].depl = e
    BY <1>1, <1>3, <2>2
  <2>3. QED
    BY <2>1, <2>2 DEF Accounted, Loses
<1>4. CASE ~Reenters(t, Machine(d))
  <2>. PICK s \in States : s = Target(t, Machine(d))
    BY MachineTypes, MachineType
  <2>1. pending'[k] = [depl |-> d, state |-> s, stored |-> TRUE]
    BY <1>4 DEF Fire
  <2>2. [depl |-> d, state |-> s, stored |-> TRUE] \in Publication
    BY DEF Publication
  <2>3. pending'[k] # None
    BY <2>1, <2>2, AbsentAssumption
  <2>4. Accounted(d)'
    BY <1>1, <2>1, <2>3 DEF Accounted
  <2>5. QED
    BY <1>3, <2>4 DEF Told
<1>5. CASE Reenters(t, Machine(d))
  <2>1. Machine(d) # "PENDING"
    BY <1>5, PendingMoves
  <2>2. sm[d] = Machine(d) /\ sm[d] # None /\ sm'[d] = sm[d]
    BY <1>2, <1>5, <2>1, NoneAssumption DEF Machine, Reenters
  <2>3. Accounted(d)
    BY <2>2 DEF Told
  <2>4. Accounted(d)'
    BY <1>5, <2>2, <2>3 DEF Accounted, Loses
  <2>5. QED
    BY <1>3, <2>4 DEF Told
<1>6. QED
  BY <1>4, <1>5

(* The trigger of an event.                                                *)
EventFires(t, d) ==
  /\ Fire(Events, t, d) /\ events # <<>> /\ d = Head(events).depl
  /\ ~Busy /\ Busy'
  /\ t = "cancel" => Head(events).type = "STOP"
  /\ t = "start_failure" => Head(events).type # "STOP"

LEMMA EventStepFires ==
  ASSUME StreamsTypeOK, OrchestratorTypeOK, Told, EventStep
  PROVE  \/ \E t \in {"assign", "start_failure", "cancel"}, d \in Deployments :
              EventFires(t, d)
         \/ UNCHANGED <<sm, pending>> /\ (pending[Events] # None /\ Busy => Busy')
<1>. DEFINE d == Head(events).depl
<1>1. ASSUME NEW type \in EventTypes, TakeEvent(type)
      PROVE  /\ d \in Deployments /\ Head(events).type = type
             /\ events # <<>> /\ ~Busy
             /\ sm[d] # "PENDING" /\ (sm[d] # None /\ Touch(d) => UNCHANGED <<sm, pending>>)
  <2>1. d \in Deployments
    BY <1>1, TakeEventType
  <2>2. sm[d] # "PENDING"
    BY <2>1, NoneAssumption DEF Told, Accounted, States
  <2>3. sm[d] # None /\ Touch(d) => UNCHANGED <<sm, pending>>
    BY <2>1 DEF Touch, Machine, OrchestratorTypeOK
  <2>4. QED
    BY <1>1, <2>1, <2>2, <2>3 DEF TakeEvent, Busy
<1>2. \A t \in {"assign", "start_failure", "cancel"} : Refuse(t, d) => sm[d] # None /\ Touch(d)
  BY DEF Refuse, Accepts, Sources, Machine
<1>3. \A pc, S : Handle(pc, S) => handler'.pc = pc
  BY DEF Handle
<1>4. CASE HandleRun
  BY <1>1, <1>2, <1>3, <1>4 DEF HandleRun, EventFires, EventTypes, Busy
<1>5. CASE HandleRunRaises \/ HandleRestartRaises
  <2>1. PICK type \in {"RUN", "OPERATOR_RESTART"} : TakeEvent(type) /\ RejectEvent
    BY <1>5 DEF HandleRunRaises, HandleRestartRaises
  <2>2. QED
    BY <1>1, <1>2, <1>3, <2>1 DEF RejectEvent, EventFires, EventTypes, Busy
<1>6. CASE HandleStop
  BY <1>1, <1>3, <1>6 DEF HandleStop, EventFires, EventTypes, Busy
<1>7. CASE HandleStopRaises
  BY <1>1, <1>2, <1>7 DEF HandleStopRaises, EventTypes
<1>8. CASE HandleRestart
  BY <1>1, <1>8 DEF HandleRestart, EventTypes
<1>9. CASE SendStarts \/ SendStops \/ SendRestarts
  <2>1. PICK pc \in {"assigned", "stopping", "restarting"}, type \in CommandTypes :
          SendCommands(pc, type)
    BY <1>9 DEF SendStarts, SendStops, SendRestarts, CommandTypes
  <2>2. handler \in BusyHandler /\ handler.pc # "idle"
    BY <2>1, SendingIsBusy
  <2>3. handler'.pc # "idle"
    BY <2>1, <2>2 DEF SendCommands, BusyHandler
  <2>4. QED
    BY <2>1, <2>3 DEF SendCommands, Busy
<1>10. CASE EventDone
  BY <1>10 DEF EventDone, Published
<1>11. QED
  BY <1>4, <1>5, <1>6, <1>7, <1>8, <1>9, <1>10 DEF EventStep

LEMMA EventsReenter ==
  /\ \A s \in Sources["assign"] : ~Reenters("assign", s)
  /\ \A s \in Sources["start_failure"] : Reenters("start_failure", s) => s = "FAILURE_ON_AGENT"
  /\ \A s \in States : Reenters("cancel", s) => s = "CANCELLED"
BY DEF Sources, Reenters, Target, Destination, States

LEMMA EventFiresTold ==
  ASSUME OrchestratorTypeOK, StreamsTypeOK, Told, EventsTell, StopsAreAsked,
         MaxRestarts = 0 => RunsFirst,
         NEW t \in {"assign", "start_failure", "cancel"}, NEW d \in Deployments,
         EventFires(t, d), UNCHANGED lastUpdate
  PROVE  Told' /\ EventsTell'
<1>1. /\ Fire(Events, t, d) /\ t \in Triggers /\ Events \in Tasks
      /\ pending[Events] = None /\ Busy'
  BY DEF EventFires, Triggers, Tasks, EventsTell
<1>2. /\ events \in Seq(Event) /\ 1 \in DOMAIN events /\ Head(events) = events[1]
      /\ events[1] \in Event /\ events[1].depl = d
  BY EventsType, EmptySeq DEF EventFires
<1>3. t = "cancel" => MaxStops > 0
  BY <1>2, BoundsAssumption DEF EventFires, StopsAreAsked
<1>4. ASSUME t = "start_failure", Machine(d) # "PENDING" PROVE MaxRestarts > 0
  <2>1. CASE MaxRestarts = 0
    <3>1. events[1].type = "RUN"
      BY <1>2, <1>4, <2>1 DEF EventFires, RunsFirst, FirstOfIt, Event, EventTypes
    <3>2. sm[d] = None
      BY <1>2, <2>1, <3>1 DEF RunsFirst, FirstOfIt
    <3>3. QED
      BY <1>4, <3>2 DEF Machine
  <2>2. QED
    BY <2>1, BoundsAssumption
<1>5. /\ Machine(d) \in States /\ Machine(d) \in Sources[t]
      /\ Machine(d) # "PENDING" => sm[d] = Machine(d)
  BY <1>1, MachineType DEF Fire, Accepts, Machine
<1>6. ASSUME Reenters(t, Machine(d)) PROVE Loses(d)
  <2>1. Machine(d) # "PENDING" /\ sm[d] = Machine(d)
    BY <1>1, <1>5, <1>6, PendingMoves
  <2>2. CASE t = "start_failure"
    BY <1>4, <1>5, <1>6, <2>1, <2>2, EventsReenter DEF Loses
  <2>3. CASE t = "cancel"
    BY <1>3, <1>5, <1>6, <2>1, <2>3, EventsReenter DEF Loses
  <2>4. QED
    BY <1>5, <1>6, <2>2, <2>3, EventsReenter
<1>7. Told'
  BY <1>1, <1>6, FireTold
<1>8. EventsTell'
  <2>1. ASSUME pending'[Events] # None
        PROVE  \/ pending'[Events].state \in {"AGENTS_ASSIGNED", "FAILED_TO_START"}
               \/ pending'[Events].state = "CANCELLED" /\ MaxStops > 0
    <3>1. ~Reenters(t, Machine(d)) /\ pending'[Events].state = Target(t, Machine(d))
      BY <1>1, <2>1 DEF Fire, Tasks
    <3>2. QED
      BY <1>3, <1>5, <3>1 DEF Target, Destination, Reenters
  <2>2. QED
    BY <1>1, <2>1 DEF EventsTell
<1>9. QED
  BY <1>7, <1>8

LEMMA EntriesReenter ==
  \A t \in Triggers \ {"start_failure"}, s \in States :
    Accepts(t, s) /\ Reenters(t, s) =>
      s \in {"RUNNING", "FAILURE_ON_AGENT", "CANCELLED"}
BY DEF Triggers, States, Accepts, Reenters, Sources, Target, Destination

(* An entry is looked at once the publication for the one before is over.  *)
LEMMA EntriesPublished ==
  Relink \/ Forget \/ (\E a \in Agents : EntryStep(a)) => pending[Entries] = None
BY DEF Relink, Forget, EntryStep, FirstEntry, CancelReplaced, UpdateEntry, DeletedEntry,
       TakeEntry, Published

LEMMA EntriesTold ==
  ASSUME OrchestratorTypeOK, Told, EventsTell, UpdatesAccounted, EntryTrigger,
         pending[Entries] = None, UNCHANGED <<lastUpdate, handler>>
  PROVE  Told' /\ EventsTell'
<1>1. CASE UNCHANGED <<sm, pending>>
  BY <1>1 DEF Told, Accounted, Loses, EventsTell, Busy
<1>2. ASSUME NEW d \in Deployments, lastUpdate[d] # None, Touch(d)
      PROVE  UNCHANGED <<sm, pending>>
  BY <1>2 DEF UpdatesAccounted, Touch, Machine, OrchestratorTypeOK
<1>3. ASSUME NEW t \in Triggers \ {"start_failure"}, NEW d \in Deployments,
             Fire(Entries, t, d)
      PROVE  Told' /\ EventsTell'
  <2>1. /\ Machine(d) \in States /\ Accepts(t, Machine(d)) /\ Entries \in Tasks
        /\ Machine(d) # "PENDING" => sm[d] = Machine(d)
    BY <1>3, MachineType DEF Fire, Machine, Tasks
  <2>2. ASSUME NEW j \in Tasks, Reenters(t, Machine(d)), pending[j] # None,
               pending[j].depl = d
        PROVE  Loses(d)
    <3>1. j = Events
      BY <2>2 DEF Tasks
    <3>2. pending[Events].state = Machine(d)
      BY <1>3, <2>1, <2>2, <3>1, EntriesReenter DEF UpdatesAccounted
    <3>3. Machine(d) = "CANCELLED" /\ MaxStops > 0
      BY <1>3, <2>1, <2>2, <3>1, <3>2, EntriesReenter DEF EventsTell
    <3>4. QED
      BY <2>1, <3>3 DEF Loses
  <2>3. Told'
    BY <1>3, <2>1, <2>2, FireTold
  <2>4. pending'[Events] \in {pending[Events], None}
    BY <1>3 DEF Fire, Tasks, Events, Entries
  <2>5. QED
    BY <2>3, <2>4 DEF EventsTell, Busy
<1>4. QED
  BY <1>1, <1>2, <1>3 DEF EntryTrigger

LEMMA PublishTold ==
  ASSUME StreamsTypeOK, OrchestratorTypeOK, Told, EventsTell, UpdatesAccounted,
         NEW t \in Tasks, Publish(t)
  PROVE  Told' /\ EventsTell'
<1>. PICK d \in Deployments, s \in States : pending[t].depl = d /\ pending[t].state = s
  BY DEF Publish, OrchestratorTypeOK, Publication
<1>1. /\ pending[t] # None /\ sm[d] = s
      /\ lastUpdate' = [lastUpdate EXCEPT ![d] = s]
      /\ pending' = [pending EXCEPT ![t] = None] /\ UNCHANGED <<sm, handler>>
  BY DEF Publish, PublishUpdate, UpdatesAccounted
<1>2. /\ lastUpdate'[d] = s /\ \A e \in Deployments \ {d} : lastUpdate'[e] = lastUpdate[e]
      /\ pending'[t] = None /\ \A j \in Tasks \ {t} : pending'[j] = pending[j]
  BY <1>1 DEF StreamsTypeOK, OrchestratorTypeOK
<1>3. ASSUME NEW e \in Deployments, sm[e] # None PROVE Accounted(e)'
  <2>1. Accounted(e)
    BY <1>3 DEF Told
  <2>2. CASE e = d
    BY <1>1, <1>2, <2>1, <2>2 DEF Accounted
  <2>3. CASE e # d
    <3>1. ASSUME NEW j \in Tasks, pending[j] # None, pending[j].depl = e
          PROVE  pending'[j] # None /\ pending'[j].depl = e
      BY <1>2, <2>3, <3>1
    <3>2. QED
      BY <1>1, <1>2, <2>1, <2>3, <3>1 DEF Accounted, Loses
  <2>4. QED
    BY <2>2, <2>3
<1>4. EventsTell'
  BY <1>1, <1>2 DEF EventsTell, Tasks, Busy
<1>5. QED
  BY <1>1, <1>3, <1>4 DEF Told

LEMMA StopsStayAsked ==
  ASSUME TypeOK, StopsAreAsked, budget["crash"] = 0, [Next]_vars
  PROVE  StopsAreAsked'
<1>. SUFFICES ASSUME MaxStops = 0
              PROVE  /\ budget'["stop"] = 0
                     /\ \A i \in DOMAIN events' : events'[i].type # "STOP"
  BY DEF StopsAreAsked
<1>1. /\ budget["stop"] = 0 /\ \A i \in DOMAIN events : events[i].type # "STOP"
      /\ StreamsTypeOK /\ OrchestratorTypeOK /\ AppTypeOK
      /\ budget'["stop"] = 0 /\ ~Spend("stop") /\ ~Spend("crash")
  BY StaysSpent DEF StopsAreAsked, TypeOK, Budgets
<1>2. events \in Seq(Event)
  BY <1>1 DEF StreamsTypeOK
<1>3. CASE UNCHANGED events
  BY <1>1, <1>3
<1>4. ASSUME NEW type, TakeEvent(type) PROVE \A i \in DOMAIN events' : events'[i].type # "STOP"
  BY <1>1, <1>4, TakesRest
<1>5. ASSUME NEW x, x.type # "STOP", events' = Append(events, x), x \in Event
      PROVE  \A i \in DOMAIN events' : events'[i].type # "STOP"
  <2>1. /\ Len(events) \in Nat /\ DOMAIN events = 1 .. Len(events)
        /\ DOMAIN events' = 1 .. (Len(events) + 1)
        /\ \A i \in 1 .. Len(events) : events'[i] = events[i]
        /\ events'[Len(events) + 1] = x
    BY <1>2, <1>5, AppendProperties, LenProperties
  <2>2. QED
    BY <1>1, <1>5, <2>1
<1>6. OrchestratorStep => UNCHANGED events \/ \E type : TakeEvent(type)
  BY DEF OrchestratorStep, EventStep, HandleRun, HandleRunRaises, HandleStop,
         HandleStopRaises, HandleRestart, HandleRestartRaises, SendStarts, SendStops,
         SendRestarts, SendCommands, EventDone, EntryStep, FirstEntry, CancelReplaced,
         UpdateEntry, DeletedEntry, TakeEntry, Relink, Forget, Publish, StartupStep, Start,
         Replay, Ready, CleanUp, streamVars
<1>7. OrchestratorTrouble => UNCHANGED events
  BY <1>1 DEF OrchestratorTrouble, EventFails, EntryFails, streamVars
<1>8. AppStep => UNCHANGED events \/
        \E d \in Deployments, type \in {"RUN", "OPERATOR_RESTART"} :
          events' = Append(events, [type |-> type, depl |-> d])
  BY <1>1 DEF AppStep, ConsumeUpdate, RestartApp, CreateDeployment, UpdateDeployment,
              RestartOperator, CreateLost, UpdateLost, PublishEvent, streamVars
<1>9. \A a \in Agents : AgentTurn(a) \/ Supersede(a) => UNCHANGED events
  BY AgentTurnIsStep, AgentStepQuiet DEF Quiet, Supersede
<1>10. \A d \in Deployments, type \in {"RUN", "OPERATOR_RESTART"} :
         /\ [type |-> type, depl |-> d] \in Event
         /\ [type |-> type, depl |-> d].type # "STOP"
  BY DEF Event, EventTypes
<1>11. UNCHANGED vars => UNCHANGED events
  BY DEF vars, streamVars
<1>12. QED
  BY <1>1, <1>3, <1>4, <1>5, <1>6, <1>7, <1>8, <1>9, <1>10, <1>11, NextCases

LEMMA ToldFrame ==
  ASSUME Told, EventsTell, UNCHANGED <<lastUpdate, sm, pending, handler>>
  PROVE  Told' /\ EventsTell'
BY DEF Told, Accounted, Loses, EventsTell, Busy

(* The orchestrator does not crash and no publish fails.                   *)
ToldInv ==
  /\ TypeOK /\ AfterStart /\ (MaxRestarts = 0 => Forward)
  /\ StopsAreAsked /\ Told /\ EventsTell
  /\ budget["crash"] = 0 /\ budget["failure"] = 0

LEMMA NextTold == ToldInv /\ [Next]_vars => ToldInv'
<1>. SUFFICES ASSUME ToldInv, [Next]_vars PROVE ToldInv'
  OBVIOUS
<1>1. /\ TypeOK /\ StreamsTypeOK /\ OrchestratorTypeOK /\ AfterStart /\ UpdatesAccounted
      /\ OnlyAnnounced /\ Running /\ Told /\ EventsTell /\ StopsAreAsked
      /\ MaxRestarts = 0 => RunsFirst
  BY DEF ToldInv, TypeOK, AfterStart, Forward
<1>2. /\ ~Spend("failure") /\ ~Spend("crash")
      /\ budget'["failure"] = 0 /\ budget'["crash"] = 0
  BY StaysSpent DEF ToldInv, TypeOK, Budgets
<1>3. /\ TypeOK' /\ AfterStart' /\ StopsAreAsked'
      /\ MaxRestarts = 0 => Forward'
  BY NextType, NextAccounted, NextForward, StopsStayAsked DEF ToldInv
<1>4. SUFFICES Told' /\ EventsTell'
  BY <1>2, <1>3 DEF ToldInv
<1>5. CASE EventStep
  <2>1. UNCHANGED lastUpdate
    BY <1>1, <1>5, EventStepKinds
  <2>2. CASE \E t \in {"assign", "start_failure", "cancel"}, d \in Deployments : EventFires(t, d)
    BY <1>1, <2>1, <2>2, EventFiresTold
  <2>3. CASE UNCHANGED <<sm, pending>> /\ (pending[Events] # None /\ Busy => Busy')
    BY <1>1, <2>1, <2>3 DEF Told, Accounted, Loses, EventsTell
  <2>4. QED
    BY <1>1, <1>5, <2>2, <2>3, EventStepFires
<1>6. CASE Relink \/ Forget \/ \E a \in Agents : EntryStep(a)
  <2>1. EntryTrigger /\ UNCHANGED lastUpdate
    BY <1>1, <1>6, EntriesTrigger
  <2>2. UNCHANGED handler
    BY <1>6 DEF Relink, Forget, EntryStep, FirstEntry, CancelReplaced, UpdateEntry,
                DeletedEntry, TakeEntry
  <2>3. QED
    BY <1>1, <1>6, <2>1, <2>2, EntriesPublished, EntriesTold
<1>7. CASE \E t \in Tasks : Publish(t)
  BY <1>1, <1>7, PublishTold
<1>8. ~StartupStep /\ ~OrchestratorTrouble
  BY <1>1, <1>2 DEF Running, StartupStep, Start, Replay, CleanUp, Ready, OrchestratorTrouble
<1>9. CASE UNCHANGED <<lastUpdate, orchestratorVars>>
  BY <1>1, <1>9, ToldFrame DEF orchestratorVars
<1>10. AppStep => UNCHANGED lastUpdate
  BY DEF AppStep, ConsumeUpdate, RestartApp, CreateDeployment, UpdateDeployment,
         RestartOperator, CreateLost, UpdateLost, AppUnchanged, streamVars
<1>11. \A a \in Agents : AgentTurn(a) \/ Supersede(a) => UNCHANGED lastUpdate
  BY AgentTurnIsStep, AgentStepQuiet DEF Quiet, Supersede
<1>12. QED
  BY <1>5, <1>6, <1>7, <1>8, <1>9, <1>10, <1>11, NextCases
  DEF OrchestratorStep, vars, streamVars

LEMMA InitTold ==
  ASSUME MaxCrashes = 0, MaxFailures = 0 PROVE Init => ToldInv
<1>. SUFFICES ASSUME Init PROVE ToldInv
  OBVIOUS
<1>1. TypeOK /\ AfterStart /\ (MaxRestarts = 0 => Forward)
  BY MaxCrashes = 0, InitType, InitAccounted, InitForward
<1>2. Told /\ EventsTell
  BY DEF Init, OrchestratorInit, Told, EventsTell, Tasks
<1>3. DOMAIN events = {}
  BY DEF Init, StreamsInit
<1>4. StopsAreAsked /\ budget["crash"] = 0 /\ budget["failure"] = 0
  BY <1>3, MaxCrashes = 0, MaxFailures = 0 DEF Init, StopsAreAsked
<1>5. QED
  BY <1>1, <1>2, <1>4 DEF ToldInv

LEMMA QuietIsTold ==
  ASSUME ToldInv, Quiescent, NEW d \in Deployments, sm[d] # None
  PROVE  sm[d] = lastUpdate[d] \/ Loses(d)
BY DEF ToldInv, Told, Accounted, Quiescent, Published

(* Of two triggers that overlap the second cancels the publication of the  *)
(* first.  No state but CANCELLED and FAILURE_ON_AGENT is lost by that for *)
(* good, whatever users ask for and agents report, while no publish fails  *)
(* and the orchestrator does not crash.                                    *)
THEOREM OnlyRepeatedStatesAreLost ==
  ASSUME MaxCrashes = 0, MaxFailures = 0
  PROVE  Spec => [](Quiescent => \A d \in Deployments :
                      sm[d] \in {None, lastUpdate[d], "CANCELLED", "FAILURE_ON_AGENT"})
<1>1. ToldInv => (Quiescent => \A d \in Deployments :
                   sm[d] \in {None, lastUpdate[d], "CANCELLED", "FAILURE_ON_AGENT"})
  BY QuietIsTold DEF Loses
<1>2. QED
  BY <1>1, InitTold, NextTold, MaxCrashes = 0, MaxFailures = 0, PTL DEF Spec

(* Without stops and restarts of operators, which may repeat the trigger   *)
(* of an agent's report, none is lost: what is published last is the state *)
(* of the machine, in every order of assignments, reports, replacements,   *)
(* shutdowns and deaths.                                                   *)
THEOREM PublishedIsTheState ==
  ASSUME MaxCrashes = 0, MaxFailures = 0, MaxStops = 0, MaxRestarts = 0
  PROVE  Spec => []PublishedAgrees
<1>1. ToldInv => PublishedAgrees
  BY MaxStops = 0, MaxRestarts = 0, QuietIsTold DEF Loses, PublishedAgrees
<1>2. QED
  BY <1>1, InitTold, NextTold, MaxCrashes = 0, MaxFailures = 0, PTL DEF Spec
------------------------------------------------------------------------------
(* The last update of d that the app has not yet taken is the last of all. *)
UpdateAwaited(d) ==
  \E i \in DOMAIN updates :
    /\ updates[i].depl = d /\ updates[i].state = lastUpdate[d]
    /\ \A j \in DOMAIN updates : j > i => updates[j].depl # d

(* The app has taken all updates of d: the database has the last of them,  *)
(* or what a user has done since.                                          *)
UpdatesTaken(d) ==
  /\ ~UpdateQueued(d)
  /\ \/ db[d] = lastUpdate[d]
     \/ db[d] = "PENDING" /\ lastUpdate[d] = None
     \/ db[d] = "CANCELLED" /\ MaxStops > 0

DatabaseFollows == \A d \in Deployments : UpdateAwaited(d) \/ UpdatesTaken(d)

LEMMA PublishFollowed ==
  ASSUME StreamsTypeOK, DatabaseFollows, NEW d \in Deployments, NEW s \in States,
         PublishUpdate(d, s), UNCHANGED db
  PROVE  DatabaseFollows'
<1>1. PICK n \in Nat : n = Len(updates)
  BY DEF StreamsTypeOK
<1>. DEFINE u == [depl |-> d, state |-> s]
<1>2. /\ updates \in Seq(Update) /\ updates' = Append(updates, u)
      /\ u \in Update /\ u.depl = d /\ u.state = s
      /\ lastUpdate'[d] = s
      /\ \A e \in Deployments \ {d} : lastUpdate'[e] = lastUpdate[e]
  BY DEF PublishUpdate, StreamsTypeOK, Update
<1>. HIDE DEF u
<1>3. /\ DOMAIN updates = 1 .. n /\ DOMAIN updates' = 1 .. n + 1
      /\ \A i \in 1 .. n : updates'[i] = updates[i]
      /\ updates'[n + 1] = u
  BY <1>1, <1>2, AppendProperties, LenProperties
<1>4. UpdateAwaited(d)'
  <2>1. n + 1 \in DOMAIN updates' /\ \A j \in DOMAIN updates' : ~(j > n + 1)
    BY <1>3
  <2>2. QED
    BY <1>2, <1>3, <2>1 DEF UpdateAwaited
<1>5. ASSUME NEW e \in Deployments, e # d, UpdateAwaited(e) PROVE UpdateAwaited(e)'
  <2>1. PICK i \in 1 .. n :
          /\ updates[i].depl = e /\ updates[i].state = lastUpdate[e]
          /\ \A j \in 1 .. n : j > i => updates[j].depl # e
    BY <1>3, <1>5 DEF UpdateAwaited
  <2>2. i \in DOMAIN updates' /\ updates'[i] = updates[i]
    BY <1>3
  <2>3. ASSUME NEW j \in DOMAIN updates', j > i PROVE updates'[j].depl # e
    BY <1>2, <1>3, <1>5, <2>1, <2>3
  <2>4. QED
    BY <1>2, <1>5, <2>1, <2>2, <2>3 DEF UpdateAwaited
<1>6. ASSUME NEW e \in Deployments, e # d, UpdatesTaken(e) PROVE UpdatesTaken(e)'
  <2>1. ASSUME NEW i \in DOMAIN updates' PROVE updates'[i].depl # e
    BY <1>2, <1>3, <1>6 DEF UpdatesTaken, UpdateQueued
  <2>2. QED
    BY <1>2, <1>6, <2>1 DEF UpdatesTaken, UpdateQueued
<1>7. QED
  BY <1>4, <1>5, <1>6 DEF DatabaseFollows

LEMMA ConsumeFollowed ==
  ASSUME StreamsTypeOK, AppTypeOK, DatabaseFollows, ConsumeUpdate
  PROVE  DatabaseFollows'
<1>1. PICK d \in Deployments, s \in States : d = Head(updates).depl /\ s = Head(updates).state
  <2>1. Head(updates) \in Update
    BY HeadTailProperties DEF ConsumeUpdate, StreamsTypeOK
  <2>2. QED
    BY <2>1 DEF Update
<1>2. PICK n \in Nat : n = Len(updates)
  BY DEF StreamsTypeOK
<1>3. /\ updates \in Seq(Update) /\ updates # <<>> /\ updates' = Tail(updates)
      /\ UNCHANGED lastUpdate
      /\ db'[d] = s /\ \A e \in Deployments \ {d} : db'[e] = db[e]
  BY <1>1 DEF ConsumeUpdate, StreamsTypeOK, AppUnchanged, AppTypeOK
<1>4. /\ n >= 1 /\ DOMAIN updates = 1 .. n
      /\ updates[1].depl = d /\ updates[1].state = s
      /\ DOMAIN updates' = 1 .. (n - 1)
      /\ \A i \in 1 .. (n - 1) : updates'[i] = updates[i + 1]
  BY <1>1, <1>2, <1>3, HeadTailProperties, LenProperties, EmptySeq
<1>5. ASSUME NEW e \in Deployments, UpdateAwaited(e)
      PROVE  UpdateAwaited(e)' \/ UpdatesTaken(e)'
  <2>1. PICK i \in 1 .. n :
          /\ updates[i].depl = e /\ updates[i].state = lastUpdate[e]
          /\ \A j \in 1 .. n : j > i => updates[j].depl # e
    BY <1>4, <1>5 DEF UpdateAwaited
  <2>2. CASE i = 1
    <3>1. e = d /\ db'[e] = lastUpdate'[e]
      BY <1>3, <1>4, <2>1, <2>2
    <3>2. ASSUME NEW k \in DOMAIN updates' PROVE updates'[k].depl # e
      <4>1. k + 1 \in 1 .. n /\ k + 1 > i /\ updates'[k] = updates[k + 1]
        BY <1>4, <2>2
      <4>2. QED
        BY <2>1, <4>1
    <3>3. QED
      BY <3>1, <3>2 DEF UpdatesTaken, UpdateQueued
  <2>3. CASE i # 1
    <3>1. i - 1 \in DOMAIN updates' /\ updates'[i - 1] = updates[i]
      BY <1>4, <2>3
    <3>2. ASSUME NEW k \in DOMAIN updates', k > i - 1 PROVE updates'[k].depl # e
      <4>1. k + 1 \in 1 .. n /\ k + 1 > i /\ updates'[k] = updates[k + 1]
        BY <1>4, <3>2
      <4>2. QED
        BY <2>1, <4>1
    <3>3. QED
      BY <1>3, <2>1, <3>1, <3>2 DEF UpdateAwaited
  <2>4. QED
    BY <2>2, <2>3
<1>6. ASSUME NEW e \in Deployments, UpdatesTaken(e) PROVE UpdatesTaken(e)'
  <2>1. e # d
    BY <1>4, <1>6 DEF UpdatesTaken, UpdateQueued
  <2>2. ASSUME NEW k \in DOMAIN updates' PROVE updates'[k].depl # e
    <3>1. k + 1 \in DOMAIN updates /\ updates'[k] = updates[k + 1]
      BY <1>4
    <3>2. QED
      BY <1>6, <3>1 DEF UpdatesTaken, UpdateQueued
  <2>3. QED
    BY <1>3, <1>6, <2>1, <2>2 DEF UpdatesTaken, UpdateQueued
<1>7. QED
  BY <1>5, <1>6 DEF DatabaseFollows

LEMMA AppFollowed ==
  ASSUME StreamsTypeOK, AppTypeOK, Requested, DatabaseFollows, AppStep,
         ~Spend("failure"), ~Spend("edit"), Spend("stop") => MaxStops > 0
  PROVE  DatabaseFollows'
<1>1. ASSUME NEW d \in Deployments, CreateDeployment(d) PROVE DatabaseFollows'
  <2>1. /\ db'[d] = "PENDING" /\ \A e \in Deployments \ {d} : db'[e] = db[e]
        /\ UNCHANGED <<updates, lastUpdate>>
    BY <1>1 DEF CreateDeployment, AppTypeOK, AppUnchanged
  <2>2. lastUpdate[d] = None
    BY <1>1 DEF CreateDeployment, Requested, BornOnly, Unborn
  <2>3. \A i \in DOMAIN updates : updates[i].state # None
    <3>1. \A i \in DOMAIN updates : updates[i] \in Update
      BY DEF StreamsTypeOK
    <3>2. QED
      BY <3>1, NoneAssumption DEF Update
  <2>4. UpdatesTaken(d)
    BY <2>2, <2>3 DEF DatabaseFollows, UpdateAwaited
  <2>5. UpdatesTaken(d)'
    BY <2>1, <2>2, <2>4 DEF UpdatesTaken, UpdateQueued
  <2>6. ASSUME NEW e \in Deployments, e # d PROVE UpdateAwaited(e)' \/ UpdatesTaken(e)'
    BY <2>1, <2>6 DEF DatabaseFollows, UpdateAwaited, UpdatesTaken, UpdateQueued
  <2>7. QED
    BY <2>5, <2>6 DEF DatabaseFollows
<1>2. ASSUME NEW d \in Deployments, UpdateDeployment(d, "CANCELLED"), Spend("stop")
      PROVE  DatabaseFollows'
  <2>1. /\ db'[d] = "CANCELLED" /\ \A e \in Deployments \ {d} : db'[e] = db[e]
        /\ UNCHANGED <<updates, lastUpdate>>
    BY <1>2 DEF UpdateDeployment, AppTypeOK, AppUnchanged
  <2>2. QED
    BY <1>2, <2>1 DEF DatabaseFollows, UpdateAwaited, UpdatesTaken, UpdateQueued
<1>3. ASSUME NEW d \in Deployments, RestartOperator(d) PROVE DatabaseFollows'
  BY <1>3 DEF RestartOperator, AppUnchanged, DatabaseFollows, UpdateAwaited, UpdatesTaken,
              UpdateQueued
<1>4. QED
  BY <1>1, <1>2, <1>3, ConsumeFollowed DEF AppStep

(* No publish fails and no user sets the state of a deployment on its own. *)
FollowsInv ==
  RequestsInv /\ DatabaseFollows /\ (MaxStops = 0 => budget["stop"] = 0)

LEMMA NextFollowed == FollowsInv /\ [Next]_vars => FollowsInv'
<1>. SUFFICES ASSUME FollowsInv, [Next]_vars PROVE FollowsInv'
  OBVIOUS
<1>1. /\ RequestsInv /\ DatabaseFollows /\ TypeOK /\ StreamsTypeOK /\ OrchestratorTypeOK
      /\ AppTypeOK /\ Requested
  BY DEF FollowsInv, RequestsInv, TypeOK
<1>2. /\ ~Spend("failure") /\ ~Spend("edit") /\ (Spend("stop") => MaxStops > 0)
      /\ MaxStops = 0 => budget'["stop"] = 0
  <2>1. MaxStops = 0 => ~Spend("stop") /\ budget'["stop"] = 0
    BY <1>1, StaysSpent DEF FollowsInv, TypeOK, Budgets
  <2>2. ~Spend("failure") /\ ~Spend("edit")
    BY <1>1, StaysSpent DEF RequestsInv, TypeOK, Budgets
  <2>3. QED
    BY <2>1, <2>2, BoundsAssumption
<1>3. RequestsInv'
  BY <1>1, NextRequested
<1>4. SUFFICES DatabaseFollows'
  BY <1>2, <1>3 DEF FollowsInv
<1>5. CASE UNCHANGED <<updates, lastUpdate, db>>
  BY <1>1, <1>5 DEF DatabaseFollows, UpdateAwaited, UpdatesTaken, UpdateQueued
<1>6. ASSUME NEW t \in Tasks, Publish(t), UNCHANGED db PROVE DatabaseFollows'
  <2>1. pending[t].depl \in Deployments /\ pending[t].state \in States
    BY <1>1, <1>6 DEF Publish, OrchestratorTypeOK, Publication
  <2>2. QED
    BY <1>1, <1>6, <2>1, PublishFollowed DEF Publish
<1>7. ASSUME NEW d \in Deployments, CleanUp(d), UNCHANGED db PROVE DatabaseFollows'
  <2>1. replay[d] \in States
    BY <1>1, <1>7 DEF CleanUp, OrchestratorTypeOK
  <2>2. QED
    BY <1>1, <1>7, <2>1, PublishFollowed DEF CleanUp
<1>8. EventStep => UNCHANGED <<lastUpdate, updates>>
  BY <1>1, EventStepKinds
<1>9. Relink \/ Forget \/ (\E a \in Agents : EntryStep(a)) => UNCHANGED <<lastUpdate, updates>>
  BY DEF Relink, Forget, EntryStep, FirstEntry, CancelReplaced, UpdateEntry, DeletedEntry,
         TakeEntry, streamVars
<1>10. Start \/ Replay \/ Ready \/ OrchestratorTrouble => UNCHANGED <<lastUpdate, updates>>
  BY DEF Start, Replay, Ready, OrchestratorTrouble, Crash, EventFails, EntryFails, streamVars
<1>11. CASE OrchestratorStep /\ UNCHANGED db
  BY <1>5, <1>6, <1>7, <1>8, <1>9, <1>10, <1>11 DEF OrchestratorStep, StartupStep
<1>12. CASE AppStep
  BY <1>1, <1>2, <1>12, AppFollowed
<1>13. \A a \in Agents : AgentTurn(a) \/ Supersede(a) => UNCHANGED <<lastUpdate, updates>>
  BY AgentTurnIsStep, AgentStepQuiet DEF Quiet, Supersede
<1>14. QED
  BY <1>5, <1>10, <1>11, <1>12, <1>13, NextCases DEF vars, streamVars

LEMMA InitFollowed ==
  ASSUME MaxFailures = 0, MaxEdits = 0 PROVE Init => FollowsInv
<1>. SUFFICES ASSUME Init PROVE FollowsInv
  OBVIOUS
<1>1. DOMAIN updates = {} /\ \A d \in Deployments : lastUpdate[d] = None /\ db[d] = None
  BY DEF Init, StreamsInit, AppInit
<1>2. DatabaseFollows
  BY <1>1 DEF DatabaseFollows, UpdatesTaken, UpdateQueued
<1>3. MaxStops = 0 => budget["stop"] = 0
  BY DEF Init
<1>4. QED
  BY <1>2, <1>3, MaxFailures = 0, MaxEdits = 0, InitRequested DEF FollowsInv

LEMMA QuietIsFollowed ==
  ASSUME FollowsInv, Quiescent, NEW d \in Deployments
  PROVE  db[d] = lastUpdate[d] \/ (db[d] = "CANCELLED" /\ MaxStops > 0)
<1>1. DOMAIN updates = {} /\ DOMAIN events = {} /\ ~Busy
  BY DEF Quiescent, Busy
<1>2. db[d] # "PENDING"
  BY <1>1 DEF FollowsInv, RequestsInv, Requested, PendingAccounted, UpdateQueued, RunQueued,
              RunTaken
<1>3. QED
  BY <1>1, <1>2 DEF FollowsInv, DatabaseFollows, UpdateAwaited, UpdatesTaken

(* The database follows the stream, across crashes of the orchestrator:    *)
(* when all is quiet it has the state last published, or the user's own    *)
(* CANCELLED, while no publish fails and no user sets another state.       *)
THEOREM DatabaseFollowsStream ==
  ASSUME MaxFailures = 0, MaxEdits = 0
  PROVE  Spec => [](Quiescent => \A d \in Deployments :
                      db[d] \in {lastUpdate[d], "CANCELLED"})
<1>1. FollowsInv => (Quiescent => \A d \in Deployments : db[d] \in {lastUpdate[d], "CANCELLED"})
  BY QuietIsFollowed
<1>2. QED
  BY <1>1, InitFollowed, NextFollowed, MaxFailures = 0, MaxEdits = 0, PTL DEF Spec

(* Without stops it always has the state last published: neither a crash   *)
(* nor the replay after it leaves an update behind.                        *)
THEOREM DatabaseIsTheStream ==
  ASSUME MaxFailures = 0, MaxEdits = 0, MaxStops = 0
  PROVE  Spec => []DatabaseAgrees
<1>1. FollowsInv => DatabaseAgrees
  BY MaxStops = 0, QuietIsFollowed DEF DatabaseAgrees
<1>2. QED
  BY <1>1, InitFollowed, NextFollowed, MaxFailures = 0, MaxEdits = 0, PTL DEF Spec
------------------------------------------------------------------------------
(* A deployment that is assigned or runs.                                  *)
Open(d) == sm[d] \in {"AGENTS_ASSIGNED", "RUNNING"}

(* The deployments that come to be open are among D.                       *)
OpensOnly(D) == \A d \in Deployments \ D : Open(d)' => Open(d)

LEMMA FireOpens ==
  ASSUME OrchestratorTypeOK, NEW k, NEW t \in Triggers, NEW d \in Deployments,
         Fire(k, t, d)
  PROVE  /\ OpensOnly(IF t = "assign" THEN {d} ELSE {})
         /\ t = "cancel" => ~Open(d)'
<1>. DEFINE s == Machine(d)
<1>1. s \in Sources[t] /\ sm' = [sm EXCEPT ![d] = Target(t, s)]
  BY DEF Fire, Accepts
<1>2. sm'[d] = Target(t, s) /\ \A e \in Deployments \ {d} : sm'[e] = sm[e]
  BY <1>1 DEF OrchestratorTypeOK
<1>3. /\ t = "cancel" => ~Open(d)'
      /\ t # "assign" => (Open(d)' => s \in {"AGENTS_ASSIGNED", "RUNNING"})
  BY <1>1, <1>2 DEF Open, Sources, Target, Destination, Triggers
<1>4. s \in {"AGENTS_ASSIGNED", "RUNNING"} => Open(d)
  BY DEF Machine, Open
<1>5. QED
  BY <1>2, <1>3, <1>4 DEF OpensOnly, Open

LEMMA TouchOpens ==
  ASSUME OrchestratorTypeOK, NEW d \in Deployments, Touch(d)
  PROVE  OpensOnly({})
<1>1. /\ sm'[d] = sm[d] \/ sm'[d] = "PENDING"
      /\ \A e \in Deployments \ {d} : sm'[e] = sm[e]
  BY DEF Touch, Machine, OrchestratorTypeOK
<1>2. QED
  BY <1>1 DEF OpensOnly, Open

LEMMA UnchangedOpens == UNCHANGED sm => OpensOnly({})
BY DEF OpensOnly, Open

(* A report opens no deployment.                                           *)
LEMMA ReportOpens ==
  ASSUME OrchestratorTypeOK, NEW a \in Agents, NEW val \in AgentVal,
         NEW old \in AgentVal, Report(a, val, old)
  PROVE  OpensOnly({})
<1>. DEFINE link == IF val.depl # old.depl THEN val.depl
                    ELSE IF tracker[a] = Absent THEN None ELSE tracker[a]
            t == StatusTrigger[val.status]
<1>1. link \in Deployments \cup {None}
  BY DEF AgentVal, OrchestratorTypeOK
<1>2. \/ UNCHANGED sm
      \/ link \in Deployments /\ Touch(link)
      \/ /\ link \in Deployments /\ val.status \in DOMAIN StatusTrigger
         /\ Fire(Entries, t, link)
  BY <1>1 DEF Report, Refuse
<1>3. val.status \in DOMAIN StatusTrigger => t \in Triggers /\ t # "assign"
  BY DEF StatusTrigger, Triggers
<1>4. QED
  BY <1>2, <1>3, FireOpens, TouchOpens, UnchangedOpens

LEMMA EntriesOpen ==
  ASSUME StreamsTypeOK, OrchestratorTypeOK,
         Relink \/ Forget \/ \E a \in Agents : EntryStep(a)
  PROVE  OpensOnly({})
<1>1. CASE Relink
  <2>1. /\ watcher.agent \in Agents /\ watcher.val \in AgentVal /\ watcher.old \in AgentVal
        /\ Report(watcher.agent, watcher.val, watcher.old)
    BY <1>1 DEF Relink, OrchestratorTypeOK, Relinking, Forgetting, IdleWatcher
  <2>2. QED
    BY <2>1, ReportOpens
<1>2. CASE Forget
  BY <1>2, UnchangedOpens DEF Forget
<1>3. ASSUME NEW d \in Deployments, Fire(Entries, "cancel", d) PROVE OpensOnly({})
  <2>1. "cancel" \in Triggers /\ "cancel" # "assign"
    BY DEF Triggers
  <2>2. QED
    BY <1>3, <2>1, FireOpens
<1>4. ASSUME NEW a \in Agents, EntryStep(a) PROVE OpensOnly({})
  <2>1. TakeEntry(a)
    BY <1>4 DEF EntryStep, FirstEntry, CancelReplaced, UpdateEntry, DeletedEntry
  <2>2. Head(watch[a]) \in Entry /\ store[a] \in Entry
    BY <2>1, TakeEntryType DEF OrchestratorTypeOK
  <2>3. CASE FirstEntry(a)
    BY <2>3, UnchangedOpens DEF FirstEntry
  <2>4. CASE CancelReplaced(a)
    <3>1. store[a].depl \in Deployments /\ Fire(Entries, "cancel", store[a].depl)
      BY <2>2, <2>4 DEF CancelReplaced, Replaces, Entry, AgentVal
    <3>2. QED
      BY <1>3, <3>1
  <2>5. CASE UpdateEntry(a)
    BY <2>2, <2>5, ReportOpens DEF UpdateEntry, Entry
  <2>6. CASE DeletedEntry(a)
    <3>1. UNCHANGED sm \/ (tracker[a] \in Deployments /\ Fire(Entries, "cancel", tracker[a]))
      BY <2>6 DEF DeletedEntry
    <3>2. QED
      BY <1>3, <3>1, UnchangedOpens
  <2>7. QED
    BY <1>4, <2>3, <2>4, <2>5, <2>6 DEF EntryStep
<1>5. QED
  BY <1>1, <1>2, <1>4
------------------------------------------------------------------------------
(* The steps of an agent that nobody shuts down or kills.                  *)
OrdinaryStep(a) ==
  \/ CommandStep(a) \/ DeploymentStep(a) \/ Heartbeat(a) \/ Connect(a)
  \/ Errors(a) \/ Collapses(a)

(* No agent leaves, and what it waits for is the end of its running task.  *)
Staying ==
  \A a \in Agents :
    /\ ~agent[a].quit /\ agent[a].phase \notin {"leaving", "gone"}
    /\ agent[a].goal # "shutdown"
    /\ agent[a].next # None => agent[a].goal = "start"
    /\ agent[a].goal # "stay" => agent[a].phase \in {"teardown", "replacing"}

LEMMA OrdinaryIsStep == \A a \in Agents : OrdinaryStep(a) => AgentStep(a)
BY DEF OrdinaryStep, AgentStep, SoundStep

LEMMA TurnIsOrdinary ==
  ASSUME Staying, ~Spend("shutdown"), ~Spend("death"), NEW a \in Agents, AgentTurn(a)
  PROVE  OrdinaryStep(a)
<1>1. ~agent[a].quit /\ agent[a].phase \notin {"leaving", "gone"}
  BY DEF Staying
<1>2. ~LeavingStep(a)
  BY <1>1 DEF LeavingStep, ShutDown, Leave, Expires
<1>3. QED
  BY <1>2 DEF AgentTurn, OrdinaryStep

(* It is there afterwards, and has not been told to quit.                  *)
LEMMA OrdinaryStays ==
  ASSUME AgentsTypeOK, Staying, NEW a \in Agents, OrdinaryStep(a)
  PROVE  ~agent'[a].quit /\ agent'[a].phase # "gone"
<1>1. agent[a] \in AgentState /\ ~agent[a].quit /\ agent[a].phase # "gone"
  BY DEF AgentsTypeOK, Staying
<1>2. ASSUME NEW goal, NEW next, CancelAndWait(a, goal, next)
      PROVE  ~agent'[a].quit /\ agent'[a].phase # "gone"
  BY <1>1, <1>2 DEF CancelAndWait, Become, TearDown, AgentsTypeOK, AgentState
<1>3. CASE CommandStep(a)
  <2>1. CASE StartDeployment(a)
    BY <1>1, <2>1 DEF StartDeployment, AgentsTypeOK, AgentState
  <2>2. CASE ReplaceDeployment(a)
    BY <1>2, <2>2 DEF ReplaceDeployment
  <2>3. CASE StopDeployment(a)
    BY <1>1, <1>2, <2>3 DEF StopDeployment, AgentsTypeOK, AgentState
  <2>4. CASE IgnoreCommand(a)
    BY <1>1, <2>4 DEF IgnoreCommand
  <2>5. QED
    BY <1>3, <2>1, <2>2, <2>3, <2>4 DEF CommandStep
<1>4. CASE Cleans(a) \/ Starts(a) \/ Runs(a) \/ Recovers(a) \/ Errors(a) \/ Collapses(a)
  <2>1. PICK from, to \in Phases \ {"gone"}, status \in AgentStatuses :
          Step(a, from, to, status)
    BY <1>4
    DEF Cleans, Starts, Runs, Recovers, Errors, Collapses, Phases, AgentStatuses
  <2>2. PICK r \in AgentState :
          agent' = [agent EXCEPT ![a] = r] /\ Alike(agent[a], r) /\ r.phase = to
    BY <2>1, StepTurns, ZenonT(30)
  <2>3. QED
    BY <1>1, <2>1, <2>2 DEF Alike, AgentsTypeOK
<1>5. CASE TornDown(a)
  BY <1>1, <1>5, TornDownTurns DEF Finishes, AgentsTypeOK
<1>6. CASE BeginNext(a) \/ Heartbeat(a) \/ Connect(a)
  BY <1>1, <1>6 DEF BeginNext, Heartbeat, Connect, Become, AgentsTypeOK, AgentState
<1>7. QED
  BY <1>3, <1>4, <1>5, <1>6 DEF OrdinaryStep, DeploymentStep

(* What such a step makes of the agent's record.                           *)
LEMMA OrdinaryTurns ==
  ASSUME StreamsTypeOK, AgentsTypeOK, Staying, NEW a \in Agents, OrdinaryStep(a)
  PROVE  \E r \in AgentState :
           /\ agent' = [agent EXCEPT ![a] = r]
           /\ agent'[a] = r
           /\ \A b \in Agents \ {a} : agent'[b] = agent[b]
           /\ Turns(a, r) \/ GoesWrong(agent[a], r)
           /\ ~r.quit /\ r.phase # "gone"
<1>1. PICK r \in AgentState :
        /\ agent' = [agent EXCEPT ![a] = r]
        /\ Turns(a, r) \/ GoesWrong(agent[a], r)
  BY OrdinaryIsStep, AgentStepTurns, ZenonT(30)
<1>2. agent'[a] = r /\ \A b \in Agents \ {a} : agent'[b] = agent[b]
  BY <1>1 DEF AgentsTypeOK
<1>3. QED
  BY <1>1, <1>2, OrdinaryStays

LEMMA OrdinaryStaying ==
  ASSUME StreamsTypeOK, AgentsTypeOK, Staying, NEW a \in Agents, OrdinaryStep(a)
  PROVE  Staying'
<1>. DEFINE p == agent[a]
<1>1. PICK r \in AgentState :
        /\ agent'[a] = r /\ \A b \in Agents \ {a} : agent'[b] = agent[b]
        /\ Turns(a, r) \/ GoesWrong(p, r)
        /\ ~r.quit /\ r.phase # "gone"
  BY OrdinaryTurns, ZenonT(30)
<1>2. /\ ~p.quit /\ p.phase \notin {"leaving", "gone"} /\ p.goal # "shutdown"
      /\ p.next # None => p.goal = "start"
      /\ p.goal # "stay" => p.phase \in {"teardown", "replacing"}
  BY DEF Staying
<1>. DEFINE Stays(q) == /\ q.phase # "leaving" /\ q.goal # "shutdown"
                        /\ q.next # None => q.goal = "start"
                        /\ q.goal # "stay" => q.phase \in {"teardown", "replacing"}
<1>3. Stays(r)
  <2>1. CASE GoesOn(p, r) \/ GoesWrong(p, r)
    BY <1>2, <2>1 DEF GoesOn, GoesWrong, Alike, Live
  <2>2. CASE TakesUp(p, r, Head(commands[a]).depl) \/ Replaced(p, r)
    BY <1>2, <2>2 DEF TakesUp, Replaced
  <2>3. CASE WaitsFor(p, r, "start", Head(commands[a]).depl) \/ WaitsFor(p, r, "stop", None)
    BY <2>3 DEF WaitsFor
  <2>4. CASE Forgets(p, r) \/ Finishes(p, r)
    BY <1>2, <2>4 DEF Forgets, Finishes
  <2>5. ~IsToldToQuit(p, r) /\ r # At("gone")
    BY <1>1 DEF IsToldToQuit, At
  <2>6. QED
    BY <1>1, <1>2, <2>1, <2>2, <2>3, <2>4, <2>5 DEF Turns
<1>4. QED
  BY <1>1, <1>3 DEF Staying
------------------------------------------------------------------------------
(* An agent puts a deployment's first value before it can turn to another. *)
PutFirst ==
  \A a \in Agents : agent[a].depl # None /\ agent[a].phase # "assigned" =>
    kv[a] # None /\ kv[a].depl = agent[a].depl

(* The record p becomes r; the key is put with the deployment of p, or it  *)
(* need not be.                                                            *)
PutsFirst(a, p, r) ==
  \/ \E v \in AgentVal : SetKey(a, v) /\ v.depl = p.depl /\ r.depl \in {p.depl, None}
  \/ /\ UNCHANGED <<kv, watch>>
     /\ \/ r.depl = p.depl /\ (p.phase = "assigned" => r.phase = "assigned")
        \/ r.depl = None
        \/ r.phase = "assigned"

LEMMA BecomePuts ==
  ASSUME AgentsTypeOK, NEW a \in Agents, NEW r \in AgentState, Become(a, r),
         r.depl = agent[a].depl
  PROVE  agent'[a] = r /\ PutsFirst(a, agent[a], r)
<1>1. ValueOf(r) \in AgentVal /\ ValueOf(r).depl = r.depl
  BY DEF ValueOf, AgentState, AgentVal
<1>2. QED
  BY <1>1 DEF Become, PutsFirst, AgentsTypeOK

LEMMA WaitPuts ==
  ASSUME AgentsTypeOK, NEW a \in Agents,
         NEW goal \in {"stop", "start", "shutdown"},
         NEW next \in Deployments \cup {None}, CancelAndWait(a, goal, next)
  PROVE  PutsFirst(a, agent[a], agent'[a])
<1>. DEFINE w == [agent[a] EXCEPT !.goal = goal, !.next = next]
<1>1. /\ w \in AgentState /\ w.phase = agent[a].phase /\ w.depl = agent[a].depl
      /\ TearDown(w, goal) \in AgentState /\ TearDown(w, goal).depl = agent[a].depl
  BY DEF AgentsTypeOK, AgentState, TearDown, Phases, AgentStatuses
<1>2. CASE Become(a, TearDown(w, goal))
  BY <1>1, <1>2, BecomePuts
<1>3. CASE agent[a].phase = "teardown" /\ agent' = [agent EXCEPT ![a] = w] /\ UNCHANGED <<kv, watch>>
  <2>1. agent'[a] = w
    BY <1>3 DEF AgentsTypeOK
  <2>2. QED
    BY <1>1, <1>3, <2>1 DEF PutsFirst
<1>4. QED
  BY <1>2, <1>3 DEF CancelAndWait

LEMMA OrdinaryPuts ==
  ASSUME StreamsTypeOK, AgentsTypeOK, Staying, NEW a \in Agents, OrdinaryStep(a)
  PROVE  PutsFirst(a, agent[a], agent'[a])
<1>. DEFINE p == agent[a]
<1>1. p \in AgentState
  BY DEF AgentsTypeOK
<1>2. ASSUME NEW type, TakeCommand(a, type) PROVE Head(commands[a]).depl \in Deployments
  BY <1>2, TakeCommandType DEF Command
<1>3. CASE CommandStep(a)
  <2>1. CASE StartDeployment(a)
    <3>1. agent'[a].phase = "assigned" /\ UNCHANGED <<kv, watch>>
      BY <1>1, <2>1 DEF StartDeployment, AgentsTypeOK, AgentState
    <3>2. QED
      BY <3>1 DEF PutsFirst
  <2>2. CASE ReplaceDeployment(a)
    BY <1>2, <2>2, WaitPuts DEF ReplaceDeployment
  <2>3. CASE StopDeployment(a)
    <3>1. CASE CancelAndWait(a, "stop", None)
      BY <3>1, WaitPuts
    <3>2. CASE agent' = [agent EXCEPT ![a].depl = None] /\ UNCHANGED <<kv, watch>>
      <4>1. agent'[a].depl = None
        BY <1>1, <3>2 DEF AgentsTypeOK, AgentState
      <4>2. QED
        BY <3>2, <4>1 DEF PutsFirst
    <3>3. QED
      BY <2>3, <3>1, <3>2 DEF StopDeployment
  <2>4. CASE IgnoreCommand(a)
    BY <2>4 DEF IgnoreCommand, PutsFirst
  <2>5. QED
    BY <1>3, <2>1, <2>2, <2>3, <2>4 DEF CommandStep
<1>4. CASE Cleans(a) \/ Starts(a) \/ Runs(a) \/ Recovers(a) \/ Errors(a) \/ Collapses(a)
  <2>1. PICK from \in Phases, to \in Phases, status \in AgentStatuses :
          Step(a, from, to, status)
    BY <1>4, StepsOfDeployment, ZenonT(30)
  <2>. DEFINE r == [p EXCEPT !.phase = to, !.status = status]
  <2>2. r \in AgentState /\ r.depl = p.depl /\ Become(a, r)
    BY <1>1, <2>1 DEF Step, AgentState
  <2>3. QED
    BY <2>2, BecomePuts
<1>5. CASE TornDown(a)
  <2>. DEFINE r == [p EXCEPT !.phase = "idle", !.status = "IDLE"]
  <2>1. r \in AgentState /\ r.depl = p.depl
    BY <1>1 DEF AgentState, Phases, AgentStatuses
  <2>2. ValueOf(r) \in AgentVal /\ ValueOf(r).depl = p.depl /\ SetKey(a, ValueOf(r))
    BY <1>5, <2>1 DEF ValueOf, AgentState, AgentVal, TornDown
  <2>3. agent'[a].depl \in {p.depl, None}
    BY <1>5, TornDownTurns DEF Finishes, AgentsTypeOK
  <2>4. QED
    BY <2>2, <2>3 DEF PutsFirst
<1>6. CASE BeginNext(a)
  <2>1. agent'[a].phase = "assigned" /\ UNCHANGED <<kv, watch>>
    BY <1>1, <1>6 DEF BeginNext, AgentsTypeOK, AgentState
  <2>2. QED
    BY <2>1 DEF PutsFirst
<1>7. CASE Heartbeat(a)
  <2>1. ValueOf(p) \in AgentVal /\ ValueOf(p).depl = p.depl
    BY <1>1 DEF ValueOf, AgentState, AgentVal
  <2>2. QED
    BY <1>7, <2>1 DEF Heartbeat, PutsFirst
<1>8. CASE Connect(a)
  <2>. DEFINE r == [p EXCEPT !.phase = "idle"]
  <2>1. r \in AgentState /\ r.depl = p.depl /\ Become(a, r)
    BY <1>1, <1>8 DEF Connect, AgentState, Phases
  <2>2. QED
    BY <2>1, BecomePuts
<1>9. QED
  BY <1>3, <1>4, <1>5, <1>6, <1>7, <1>8 DEF OrdinaryStep, DeploymentStep

LEMMA OrdinaryPutFirst ==
  ASSUME StreamsTypeOK, AgentsTypeOK, Staying, PutFirst, NEW a \in Agents, OrdinaryStep(a)
  PROVE  PutFirst'
<1>. DEFINE p == agent[a]
            r == agent'[a]
<1>1. PutsFirst(a, p, r) /\ \A b \in Agents \ {a} : agent'[b] = agent[b]
  BY OrdinaryPuts, OrdinaryTurns
<1>2. \A b \in Agents \ {a} : kv'[b] = kv[b]
  BY <1>1 DEF PutsFirst, SetKey, StreamsTypeOK
<1>3. ASSUME r.depl # None, r.phase # "assigned" PROVE kv'[a] # None /\ kv'[a].depl = r.depl
  <2>1. ASSUME NEW v \in AgentVal, SetKey(a, v), v.depl = p.depl, r.depl \in {p.depl, None}
        PROVE  kv'[a] # None /\ kv'[a].depl = r.depl
    BY <1>3, <2>1, ValueAssumption DEF SetKey, StreamsTypeOK
  <2>2. ASSUME UNCHANGED kv, r.depl = p.depl, p.phase # "assigned"
        PROVE  kv'[a] # None /\ kv'[a].depl = r.depl
    BY <1>3, <2>2 DEF PutFirst
  <2>3. QED
    BY <1>1, <1>3, <2>1, <2>2 DEF PutsFirst
<1>4. QED
  BY <1>1, <1>2, <1>3 DEF PutFirst
------------------------------------------------------------------------------
(* An agent's key has named d, as the orchestrator knows or will be told.  *)
Names(v, d) == v # None /\ v.depl = d

Reported(a, d) ==
  Names(store[a], d) \/ \E i \in DOMAIN watch[a] : Names(watch[a][i], d)

(* d is assigned to the agent: about to be sent, in its queue, waiting for *)
(* the end of another, carried out, or still what its key says.            *)
Sending(a, d) ==
  handler.pc = "assigned" /\ handler.ev.depl = d /\ a \in handler.targets

Has(a, d) ==
  \/ Sending(a, d)
  \/ ~NoStart(commands[a], d)
  \/ agent[a].next = d \/ agent[a].depl = d
  \/ Reported(a, d)

(* Any two deployments that are assigned or run share an agent that the    *)
(* orchestrator knows: an assignment goes to all that it knows, and an     *)
(* agent that turns to another deployment has the former one cancelled.    *)
SharedAgents ==
  \A d, e \in Deployments : Open(d) /\ Open(e) =>
    \E a \in Agents : store[a] # None /\ Has(a, d) /\ Has(a, e)

LEMMA SharedKept ==
  ASSUME SharedAgents, OpensOnly({}),
         \A a \in Agents : store[a] # None => store'[a] # None,
         \A a \in Agents, d \in Deployments : Open(d)' /\ Has(a, d) => Has(a, d)'
  PROVE  SharedAgents'
<1>1. ASSUME NEW d \in Deployments, NEW e \in Deployments, Open(d)', Open(e)'
      PROVE  \E a \in Agents : store'[a] # None /\ Has(a, d)' /\ Has(a, e)'
  <2>1. Open(d) /\ Open(e)
    BY <1>1 DEF OpensOnly
  <2>2. PICK a \in Agents : store[a] # None /\ Has(a, d) /\ Has(a, e)
    BY <2>1 DEF SharedAgents
  <2>3. QED
    BY <1>1, <2>2
<1>2. QED
  BY <1>1 DEF SharedAgents

LEMMA HasFrame ==
  ASSUME UNCHANGED <<handler, commands, agent, store, watch>>, NEW a, NEW d, Has(a, d)
  PROVE  Has(a, d)'
BY DEF Has, Sending, NoStart, Reported, Names

(* Commands that are sent or taken.                                        *)
LEMMA AppendStart ==
  ASSUME NEW s \in Seq(Command), NEW c \in Command, NEW d
  PROVE  /\ ~NoStart(s, d) => ~NoStart(Append(s, c), d)
         /\ c.type = "START" /\ c.depl = d => ~NoStart(Append(s, c), d)
<1>. DEFINE t == Append(s, c)
<1>1. PICK n \in Nat : n = Len(s)
  BY LenProperties
<1>2. /\ DOMAIN s = 1 .. n /\ DOMAIN t = 1 .. n + 1
      /\ \A i \in 1 .. n : t[i] = s[i]
      /\ t[n + 1] = c
  BY <1>1, AppendProperties, LenProperties
<1>. HIDE DEF t
<1>3. \A i \in DOMAIN s : i \in DOMAIN t /\ t[i] = s[i]
  BY <1>2
<1>4. n + 1 \in DOMAIN t
  BY <1>2
<1>5. QED
  BY <1>2, <1>3, <1>4 DEF NoStart

LEMMA TailStart ==
  ASSUME NEW s \in Seq(Command), s # <<>>, NEW d, ~NoStart(s, d)
  PROVE  ~NoStart(Tail(s), d) \/ (Head(s).type = "START" /\ Head(s).depl = d)
<1>1. PICK n \in Nat : n = Len(s)
  BY LenProperties
<1>. DEFINE t == Tail(s)
<1>2. /\ n # 0 /\ DOMAIN s = 1 .. n /\ DOMAIN t = 1 .. n - 1
      /\ \A i \in 1 .. n - 1 : t[i] = s[i + 1]
      /\ Head(s) = s[1]
  BY <1>1, HeadTailProperties, LenProperties, EmptySeq
<1>. HIDE DEF t
<1>3. \A i \in DOMAIN s : i = 1 \/ (i - 1 \in DOMAIN t /\ t[i - 1] = s[i])
  BY <1>2
<1>4. ~NoStart(t, d) \/ (Head(s).type = "START" /\ Head(s).depl = d)
  BY <1>2, <1>3 DEF NoStart
<1>5. QED
  BY <1>4 DEF t

LEMMA PublishedStarts ==
  ASSUME StreamsTypeOK, NEW type \in CommandTypes, NEW e \in Deployments,
         NEW S \in SUBSET Agents, PublishCommands(type, e, S), NEW a \in Agents, NEW d
  PROVE  /\ ~NoStart(commands[a], d) => ~NoStart(commands[a], d)'
         /\ type = "START" /\ a \in S => ~NoStart(commands[a], e)'
<1>1. PICK c \in Command : c = [type |-> type, depl |-> e]
  BY DEF Command
<1>2. commands[a] \in Seq(Command)
  BY DEF StreamsTypeOK
<1>3. commands'[a] = IF a \in S THEN Append(commands[a], c) ELSE commands[a]
  BY <1>1 DEF PublishCommands
<1>4. NoStart(commands[a], d)' <=> NoStart(commands'[a], d)
  BY DEF NoStart
<1>5. NoStart(commands[a], e)' <=> NoStart(commands'[a], e)
  BY DEF NoStart
<1>6. c.type = type /\ c.depl = e
  BY <1>1
<1>7. QED
  BY <1>2, <1>3, <1>4, <1>5, <1>6, AppendStart

(* A value that is put stays known.                                        *)
LEMMA PutReported ==
  ASSUME StreamsTypeOK, NEW a \in Agents,
         (\E v \in Entry : SetKey(a, v)) \/ UNCHANGED <<kv, watch>>, UNCHANGED store,
         NEW b \in Agents, NEW d, Reported(b, d)
  PROVE  Reported(b, d)'
<1>1. ASSUME NEW v \in Entry, SetKey(a, v), watching, b = a
      PROVE  \A i \in DOMAIN watch[a] : i \in DOMAIN watch'[a] /\ watch'[a][i] = watch[a][i]
  <2>1. watch'[a] = Append(watch[a], v) /\ watch[a] \in Seq(Entry)
    BY <1>1 DEF SetKey, StreamsTypeOK
  <2>2. QED
    BY <2>1, AppendProperties, LenProperties
<1>2. CASE watch'[b] = watch[b]
  BY <1>2 DEF Reported
<1>3. watch'[b] = watch[b] \/ \E v \in Entry : SetKey(a, v) /\ watching /\ b = a
  BY DEF SetKey, StreamsTypeOK
<1>4. QED
  BY <1>1, <1>2, <1>3 DEF Reported

LEMMA KeyReported ==
  ASSUME StreamsTypeOK, Watching, NEW a \in Agents, NEW d, Names(kv[a], d)
  PROVE  Reported(a, d)
<1>1. kv[a] = LastTold(a) /\ watch[a] \in Seq(Entry)
  BY DEF Watching, StreamsTypeOK
<1>2. watch[a] # <<>> => Len(watch[a]) \in DOMAIN watch[a]
  BY <1>1, LenProperties, EmptySeq
<1>3. QED
  BY <1>1, <1>2 DEF LastTold, Reported
------------------------------------------------------------------------------
(* The agents: what is assigned to one passes from its queue to what waits *)
(* and to what it carries out, and its key names that before it turns to   *)
(* another.                                                                *)
LEMMA TakesStart ==
  ASSUME AgentsTypeOK, Staying, NEW a \in Agents, CommandStep(a),
         Head(commands[a]).type = "START"
  PROVE  Head(commands[a]).depl \in {agent'[a].depl, agent'[a].next}
<1>. DEFINE d == Head(commands[a]).depl
<1>1. agent[a] \in AgentState /\ ~agent[a].quit
  BY DEF AgentsTypeOK, Staying
<1>2. StartDeployment(a) \/ ReplaceDeployment(a)
  BY <1>1
  DEF CommandStep, StartDeployment, ReplaceDeployment, StopDeployment, IgnoreCommand, TakeCommand
<1>3. CASE StartDeployment(a)
  BY <1>1, <1>3 DEF StartDeployment, AgentsTypeOK, AgentState
<1>4. CASE ReplaceDeployment(a)
  <2>. DEFINE w == [agent[a] EXCEPT !.goal = "start", !.next = d]
  <2>1. w.next = d /\ TearDown(w, "start").next = d
    BY <1>1 DEF AgentState, TearDown
  <2>2. agent'[a] \in {w, TearDown(w, "start")}
    BY <1>4 DEF ReplaceDeployment, CancelAndWait, Become, AgentsTypeOK
  <2>3. QED
    BY <2>1, <2>2
<1>5. QED
  BY <1>2, <1>3, <1>4

LEMMA OrdinaryCommands ==
  ASSUME StreamsTypeOK, AgentsTypeOK, Staying, NEW a \in Agents, OrdinaryStep(a),
         NEW b \in Agents, NEW d, ~NoStart(commands[b], d)
  PROVE  ~NoStart(commands[b], d)' \/ (b = a /\ d \in {agent'[a].depl, agent'[a].next})
<1>1. NoStart(commands[b], d)' <=> NoStart(commands'[b], d)
  BY DEF NoStart
<1>2. CASE commands'[b] = commands[b]
  BY <1>1, <1>2
<1>3. CASE CommandStep(a) /\ b = a
  <2>1. commands[a] # <<>> /\ commands'[a] = Tail(commands[a]) /\ commands[a] \in Seq(Command)
    BY <1>3
    DEF CommandStep, StartDeployment, ReplaceDeployment, StopDeployment, IgnoreCommand,
        TakeCommand, StreamsTypeOK
  <2>2. CASE Head(commands[a]).type = "START" /\ Head(commands[a]).depl = d
    BY <1>3, <2>2, TakesStart
  <2>3. QED
    BY <1>1, <1>3, <2>1, <2>2, TailStart
<1>4. b # a => commands'[b] = commands[b]
  BY OrdinaryIsStep, AgentStepCommands DEF TakeCommand, StreamsTypeOK
<1>5. ~CommandStep(a) => UNCHANGED commands
  <2>1. ASSUME ~CommandStep(a) PROVE UNCHANGED commands \/ agent' = [agent EXCEPT ![a] = At("gone")]
    BY <2>1, OrdinaryIsStep, NotACommand
  <2>2. agent' # [agent EXCEPT ![a] = At("gone")]
    BY OrdinaryStays DEF AgentsTypeOK, At
  <2>3. QED
    BY <2>1, <2>2
<1>6. QED
  BY <1>2, <1>3, <1>4, <1>5

(* A deployment that an agent no longer names is one that it has reported. *)
LEMMA OrdinaryNames ==
  ASSUME StreamsTypeOK, AgentsTypeOK, Staying, PutFirst, Watching, NEW a \in Agents,
         OrdinaryStep(a), NEW d \in Deployments, d \in {agent[a].depl, agent[a].next}
  PROVE  d \in {agent'[a].depl, agent'[a].next} \/ Reported(a, d)
<1>. DEFINE p == agent[a]
<1>1. PICK r \in AgentState : agent'[a] = r /\ (Turns(a, r) \/ GoesWrong(p, r))
                               /\ ~r.quit /\ r.phase # "gone"
  BY OrdinaryTurns, ZenonT(30)
<1>2. /\ ~p.quit /\ d # None
      /\ p.next # None => p.goal = "start"
  BY NoneAssumption DEF Staying
<1>3. p.depl = d /\ p.phase # "assigned" => Reported(a, d)
  <2>1. ASSUME p.depl = d, p.phase # "assigned" PROVE Names(kv[a], d)
    BY <1>2, <2>1 DEF PutFirst, Names
  <2>2. QED
    BY <2>1, KeyReported
<1>4. CASE GoesOn(p, r) \/ GoesWrong(p, r)
  BY <1>1, <1>4 DEF GoesOn, GoesWrong, Alike
<1>5. CASE TakesUp(p, r, Head(commands[a]).depl) \/ Replaced(p, r)
  BY <1>1, <1>3, <1>5 DEF TakesUp, Replaced
<1>6. CASE WaitsFor(p, r, "start", Head(commands[a]).depl) \/ WaitsFor(p, r, "stop", None)
  BY <1>1, <1>2, <1>6 DEF WaitsFor
<1>7. CASE Forgets(p, r) \/ Finishes(p, r)
  BY <1>1, <1>3, <1>7 DEF Forgets, Finishes
<1>8. ~IsToldToQuit(p, r) /\ r # At("gone")
  BY <1>1 DEF IsToldToQuit, At
<1>9. QED
  BY <1>1, <1>2, <1>4, <1>5, <1>6, <1>7, <1>8 DEF Turns

LEMMA OrdinaryHas ==
  ASSUME StreamsTypeOK, AgentsTypeOK, Staying, PutFirst, Watching, NEW a \in Agents,
         OrdinaryStep(a), UNCHANGED orchestratorVars,
         NEW b \in Agents, NEW d \in Deployments, Has(b, d)
  PROVE  Has(b, d)'
<1>1. UNCHANGED <<handler, store>> /\ \A c \in Agents \ {a} : agent'[c] = agent[c]
  BY OrdinaryTurns DEF orchestratorVars
<1>2. ASSUME Reported(b, d) PROVE Has(b, d)'
  BY <1>1, <1>2, OrdinaryIsStep, AgentStepKeys, PutReported DEF Has
<1>3. ASSUME ~NoStart(commands[b], d) PROVE Has(b, d)'
  BY <1>3, OrdinaryCommands DEF Has
<1>4. ASSUME d \in {agent[b].depl, agent[b].next} PROVE Has(b, d)'
  BY <1>1, <1>2, <1>4, OrdinaryNames DEF Has
<1>5. ASSUME Sending(b, d) PROVE Has(b, d)'
  BY <1>1, <1>5 DEF Has, Sending
<1>6. QED
  BY <1>2, <1>3, <1>4, <1>5 DEF Has
------------------------------------------------------------------------------
(* Events: a run request is assigned to all agents known, so to one that   *)
(* any deployment before it has.                                           *)
LEMMA RunShared ==
  ASSUME StreamsTypeOK, OrchestratorTypeOK, SharedAgents, UNCHANGED agent, TakeEvent("RUN"),
         NEW n \in Deployments, n = Head(events).depl, Known # {},
         Fire(Events, "assign", n), Handle("assigned", Known), UNCHANGED commands
  PROVE  SharedAgents'
<1>1. /\ handler.pc = "idle"
      /\ handler' = [pc |-> "assigned", ev |-> Head(events), targets |-> Known]
      /\ UNCHANGED <<store, watch>>
  BY DEF TakeEvent, Handle
<1>2. \A a \in Agents : Known # {} /\ (store[a] # None => a \in Known /\ Has(a, n)')
  BY <1>1 DEF Has, Sending, Known
<1>3. OpensOnly({n})
  BY FireOpens DEF Triggers
<1>4. ASSUME NEW a \in Agents, NEW d \in Deployments, Has(a, d) PROVE Has(a, d)'
  BY <1>1, <1>4 DEF Has, Sending, NoStart, Reported
<1>5. ASSUME NEW d \in Deployments, Open(d)', d # n
      PROVE  \E a \in Agents : store[a] # None /\ Has(a, d)' /\ Has(a, n)'
  <2>1. Open(d)
    BY <1>3, <1>5 DEF OpensOnly
  <2>2. PICK a \in Agents : store[a] # None /\ Has(a, d)
    BY <2>1 DEF SharedAgents
  <2>3. QED
    BY <1>2, <1>4, <2>2
<1>6. \E a \in Agents : store[a] # None /\ Has(a, n)'
  <2>1. PICK a \in Agents : store[a] # None
    BY DEF Known
  <2>2. QED
    BY <1>2, <2>1
<1>7. ASSUME NEW d \in Deployments, NEW e \in Deployments, Open(d)', Open(e)', d # n, e # n
      PROVE  \E a \in Agents : store[a] # None /\ Has(a, d)' /\ Has(a, e)'
  <2>1. Open(d) /\ Open(e)
    BY <1>3, <1>7 DEF OpensOnly
  <2>2. PICK a \in Agents : store[a] # None /\ Has(a, d) /\ Has(a, e)
    BY <2>1 DEF SharedAgents
  <2>3. QED
    BY <1>4, <2>2
<1>8. ASSUME NEW d \in Deployments, NEW e \in Deployments, Open(d)', Open(e)'
      PROVE  \E a \in Agents : store'[a] # None /\ Has(a, d)' /\ Has(a, e)'
  BY <1>1, <1>5, <1>6, <1>7, <1>8
<1>9. QED
  BY <1>8 DEF SharedAgents

LEMMA SendsHas ==
  ASSUME StreamsTypeOK, OrchestratorTypeOK, NEW pc, NEW type \in CommandTypes,
         SendCommands(pc, type), pc = "assigned" <=> type = "START", UNCHANGED agent,
         NEW a \in Agents, NEW d \in Deployments, Has(a, d)
  PROVE  Has(a, d)'
<1>1. /\ handler \in BusyHandler /\ handler.pc = pc
      /\ handler.ev.depl \in Deployments /\ handler.targets \in SUBSET Agents
  BY SendingIsBusy
<1>2. PICK S \in SUBSET handler.targets :
        /\ PublishCommands(type, handler.ev.depl, S)
        /\ handler' = [handler EXCEPT !.targets = @ \ S,
                         !.pc = IF pc = "assigned" /\ S = handler.targets
                                THEN "recording" ELSE @]
  BY DEF SendCommands
<1>3. S \in SUBSET Agents /\ UNCHANGED <<store, watch>>
  BY <1>1, <1>2 DEF SendCommands
<1>4. ASSUME ~NoStart(commands[a], d) PROVE Has(a, d)'
  BY <1>1, <1>2, <1>3, <1>4, PublishedStarts DEF Has
<1>5. ASSUME Sending(a, d), a \in S PROVE Has(a, d)'
  <2>1. type = "START" /\ handler.ev.depl = d
    BY <1>1, <1>5 DEF Sending
  <2>2. PublishCommands(type, d, S)
    BY <1>2, <2>1
  <2>3. ~NoStart(commands[a], d)'
    BY <1>3, <1>5, <2>1, <2>2, PublishedStarts
  <2>4. QED
    BY <2>3 DEF Has
<1>6. ASSUME Sending(a, d), a \notin S PROVE Has(a, d)'
  <2>1. S # handler.targets
    BY <1>6 DEF Sending
  <2>2. Sending(a, d)'
    BY <1>1, <1>2, <1>6, <2>1 DEF Sending, BusyHandler
  <2>3. QED
    BY <2>2 DEF Has
<1>7. ASSUME agent[a].next = d \/ agent[a].depl = d \/ Reported(a, d) PROVE Has(a, d)'
  BY <1>3, <1>7 DEF Has, Reported
<1>8. QED
  BY <1>4, <1>5, <1>6, <1>7 DEF Has

LEMMA EventShared ==
  ASSUME StreamsTypeOK, OrchestratorTypeOK, SharedAgents, EventStep, UNCHANGED agent
  PROVE  SharedAgents'
<1>1. UNCHANGED store
  BY EventStepEffect
<1>2. ASSUME NEW type, TakeEvent(type)
      PROVE  Head(events).depl \in Deployments /\ handler.pc = "idle" /\ UNCHANGED watch
  BY <1>2, TakeEventType DEF TakeEvent
<1>3. ASSUME NEW t \in {"start_failure", "cancel"}, NEW d \in Deployments, Fire(Events, t, d)
      PROVE  OpensOnly({})
  <2>1. t \in Triggers /\ t # "assign"
    BY DEF Triggers
  <2>2. QED
    BY <1>3, <2>1, FireOpens
<1>4. ASSUME RejectEvent, Head(events).depl \in Deployments PROVE OpensOnly({})
  BY <1>3, <1>4, TouchOpens DEF RejectEvent, Refuse
<1>5. ASSUME handler.pc # "assigned", UNCHANGED <<watch, commands>>, OpensOnly({})
      PROVE  SharedAgents'
  <2>1. ASSUME NEW a \in Agents, NEW d \in Deployments, Has(a, d) PROVE Has(a, d)'
    BY <1>1, <1>5, <2>1 DEF Has, Sending, NoStart, Reported
  <2>2. QED
    BY <1>1, <1>5, <2>1, SharedKept
<1>6. CASE HandleRun
  <2>1. CASE Fire(Events, "assign", Head(events).depl) /\ Handle("assigned", Known)
    BY <1>2, <1>6, <2>1, RunShared DEF HandleRun
  <2>2. CASE Refuse("assign", Head(events).depl)
    BY <1>2, <1>5, <1>6, <2>2, TouchOpens DEF HandleRun, Refuse
  <2>3. QED
    BY <1>6, <2>1, <2>2 DEF HandleRun
<1>7. CASE HandleRunRaises \/ HandleRestartRaises
  BY <1>2, <1>4, <1>5, <1>7 DEF HandleRunRaises, HandleRestartRaises
<1>8. CASE HandleStop
  BY <1>2, <1>3, <1>5, <1>8 DEF HandleStop
<1>9. CASE HandleRestart
  BY <1>2, <1>5, <1>9, UnchangedOpens DEF HandleRestart
<1>10. CASE HandleStopRaises
  <2>1. PICK e \in Deployments : e = Head(events).depl /\ Touch(e)
    BY <1>2, <1>10 DEF HandleStopRaises, Refuse
  <2>2. PICK S \in SUBSET Agents : PublishCommands("STOP", e, S)
    BY <1>10, <2>1 DEF HandleStopRaises, Known
  <2>3. UNCHANGED <<watch, handler>> /\ "STOP" \in CommandTypes
    BY <1>2, <1>10 DEF HandleStopRaises, CommandTypes
  <2>4. ASSUME NEW a \in Agents, NEW d \in Deployments, Has(a, d) PROVE Has(a, d)'
    <3>1. ~NoStart(commands[a], d) => ~NoStart(commands[a], d)'
      BY <2>2, <2>3, PublishedStarts
    <3>2. QED
      BY <1>1, <2>3, <2>4, <3>1 DEF Has, Sending, Reported
  <2>5. QED
    BY <1>1, <2>1, <2>4, TouchOpens, SharedKept
<1>11. CASE SendStarts \/ SendStops \/ SendRestarts
  <2>1. PICK pc \in {"assigned", "stopping", "restarting"}, type \in CommandTypes :
          /\ SendCommands(pc, type)
          /\ pc = "assigned" <=> type = "START"
    BY <1>11 DEF SendStarts, SendStops, SendRestarts, CommandTypes
  <2>2. UNCHANGED sm
    BY <2>1 DEF SendCommands
  <2>3. QED
    BY <1>1, <2>1, <2>2, SendsHas, UnchangedOpens, SharedKept
<1>12. CASE EventDone
  BY <1>5, <1>12, UnchangedOpens DEF EventDone
<1>13. QED
  BY <1>6, <1>7, <1>8, <1>9, <1>10, <1>11, <1>12 DEF EventStep
------------------------------------------------------------------------------
(* Entries: a value that names another deployment than the one known ends  *)
(* that one, unless it is over.                                            *)
LEMMA TakeReported ==
  ASSUME StreamsTypeOK, OrchestratorTypeOK, NEW a \in Agents, TakeEntry(a),
         NEW b \in Agents, NEW d, Reported(b, d)
  PROVE  \/ Reported(b, d)'
         \/ b = a /\ Names(store[a], d) /\ ~Names(Head(watch[a]), d)
<1>1. /\ watch[a] \in Seq(Entry) /\ watch[a] # <<>>
      /\ watch'[a] = Tail(watch[a]) /\ store'[a] = Head(watch[a])
      /\ b # a => watch'[b] = watch[b] /\ store'[b] = store[b]
  BY DEF TakeEntry, StreamsTypeOK, OrchestratorTypeOK
<1>2. PICK n \in Nat : n = Len(watch[a])
  BY <1>1, LenProperties
<1>3. /\ n # 0 /\ DOMAIN watch[a] = 1 .. n /\ DOMAIN watch'[a] = 1 .. n - 1
      /\ \A i \in 1 .. n - 1 : watch'[a][i] = watch[a][i + 1]
      /\ Head(watch[a]) = watch[a][1]
  BY <1>1, <1>2, HeadTailProperties, LenProperties, EmptySeq
<1>4. CASE b # a
  BY <1>1, <1>4 DEF Reported
<1>5. ASSUME b = a, NEW i \in DOMAIN watch[a], Names(watch[a][i], d) PROVE Reported(b, d)'
  <2>1. CASE i = 1
    <3>1. Names(store'[a], d)
      BY <1>1, <1>3, <1>5, <2>1
    <3>2. QED
      BY <1>5, <3>1 DEF Reported, Names
  <2>2. CASE i # 1
    <3>1. i - 1 \in DOMAIN watch'[a] /\ watch'[a][i - 1] = watch[a][i]
      BY <1>3, <1>5, <2>2
    <3>2. QED
      BY <1>5, <3>1 DEF Reported, Names
  <2>3. QED
    BY <2>1, <2>2
<1>6. CASE b = a /\ Names(Head(watch[a]), d)
  BY <1>1, <1>6 DEF Reported, Names
<1>7. QED
  BY <1>4, <1>5, <1>6 DEF Reported

LEMMA EntryShared ==
  ASSUME StreamsTypeOK, OrchestratorTypeOK, SharedAgents, Staying, DeletedWhenGone,
         NEW a \in Agents, EntryStep(a), UNCHANGED agent
  PROVE  SharedAgents'
<1>1. TakeEntry(a)
  BY DEF EntryStep, FirstEntry, CancelReplaced, UpdateEntry, DeletedEntry
<1>2. /\ watch[a] \in Seq(Entry) /\ watch[a] # <<>>
      /\ store' = [store EXCEPT ![a] = Head(watch[a])]
      /\ UNCHANGED <<handler, commands>>
  BY <1>1 DEF TakeEntry, StreamsTypeOK
<1>3. Head(watch[a]) # None
  <2>1. 1 \in DOMAIN watch[a] /\ Head(watch[a]) = watch[a][1]
    BY <1>2, HeadTailProperties, LenProperties, EmptySeq
  <2>2. QED
    BY <2>1 DEF DeletedWhenGone, Staying
<1>4. OpensOnly({})
  BY EntriesOpen
<1>5. \A b \in Agents : store[b] # None => store'[b] # None
  BY <1>2, <1>3 DEF OrchestratorTypeOK
<1>6. ASSUME NEW d \in Deployments, Names(store[a], d), ~Names(Head(watch[a]), d)
      PROVE  ~Open(d)'
  <2>1. store[a] # None /\ store[a].depl = d /\ Head(watch[a]).depl # d /\ d # None
    BY <1>3, <1>6, NoneAssumption DEF Names
  <2>2. CASE CancelReplaced(a)
    <3>1. Fire(Entries, "cancel", d)
      BY <2>1, <2>2 DEF CancelReplaced
    <3>2. "cancel" \in Triggers /\ "cancel" # "assign"
      BY DEF Triggers
    <3>3. QED
      BY <3>1, <3>2, FireOpens
  <2>3. CASE UpdateEntry(a)
    <3>1. Machine(d) \in Terminal
      BY <2>1, <2>3 DEF UpdateEntry, Replaces
    <3>2. ~Open(d)
      BY <3>1 DEF Machine, Terminal, Open
    <3>3. QED
      BY <1>4, <3>2 DEF OpensOnly
  <2>4. QED
    BY <1>3, <2>1, <2>2, <2>3 DEF EntryStep, FirstEntry, DeletedEntry
<1>7. ASSUME NEW b \in Agents, NEW d \in Deployments, Open(d)', Has(b, d)
      PROVE  Has(b, d)'
  <2>1. CASE Reported(b, d)
    <3>1. Reported(b, d)'
      BY <1>1, <1>6, <1>7, <2>1, TakeReported
    <3>2. QED
      BY <3>1 DEF Has
  <2>2. CASE ~Reported(b, d)
    BY <1>2, <1>7, <2>2 DEF Has, Sending, NoStart
  <2>3. QED
    BY <2>1, <2>2
<1>8. QED
  BY <1>4, <1>5, <1>7, SharedKept

LEMMA SharedFrame ==
  ASSUME SharedAgents, OpensOnly({}), UNCHANGED <<handler, commands, agent, store, watch>>
  PROVE  SharedAgents'
BY HasFrame, SharedKept

LEMMA OrdinaryShared ==
  ASSUME StreamsTypeOK, AgentsTypeOK, SharedAgents, Staying, PutFirst, Watching,
         NEW a \in Agents, OrdinaryStep(a), UNCHANGED orchestratorVars
  PROVE  SharedAgents'
<1>1. UNCHANGED <<sm, store>>
  BY DEF orchestratorVars
<1>2. QED
  BY <1>1, OrdinaryHas, UnchangedOpens, SharedKept
------------------------------------------------------------------------------
(* Nothing crashes or fails, no agent leaves and no value is overwritten.  *)
OneAtATimeInv ==
  /\ TypeOK /\ Watching /\ Reachable
  /\ Staying /\ PutFirst /\ SharedAgents
  /\ \A k \in {"crash", "failure", "shutdown", "death"} : budget[k] = 0

LEMMA NextOneAtATime ==
  ASSUME ~Conflation, OneAtATimeInv, [Next]_vars
  PROVE  OneAtATimeInv'
<1>1. /\ StreamsTypeOK /\ OrchestratorTypeOK /\ AgentsTypeOK /\ TypeOK
      /\ Watching /\ Reachable /\ Staying /\ PutFirst /\ SharedAgents
  BY DEF OneAtATimeInv, TypeOK
<1>2. \A k \in {"crash", "failure", "shutdown", "death"} : ~Spend(k) /\ budget'[k] = 0
  BY <1>1, StaysSpent DEF OneAtATimeInv, TypeOK, Budgets
<1>3. TypeOK' /\ Watching'
  BY <1>1, <1>2, NextType, NextWatching
<1>. SUFFICES Reachable' /\ Staying' /\ PutFirst' /\ SharedAgents'
  BY <1>2, <1>3 DEF OneAtATimeInv
<1>4. ASSUME UNCHANGED <<agent, kv>> PROVE Staying' /\ PutFirst'
  BY <1>1, <1>4 DEF Staying, PutFirst
<1>5. ASSUME OpensOnly({}), UNCHANGED <<agent, commands, handler, watch, store, kv>>
      PROVE  Reachable' /\ Staying' /\ PutFirst' /\ SharedAgents'
  BY <1>1, <1>4, <1>5, ReachableFrame, SharedFrame
<1>6. CASE EventStep /\ UNCHANGED agent
  <2>1. UNCHANGED kv
    BY <1>6 DEF EventStep, HandleRun, HandleRunRaises, HandleStop, HandleStopRaises,
       HandleRestart, HandleRestartRaises, TakeEvent, SendStarts, SendStops,
       SendRestarts, SendCommands, EventDone
  <2>2. QED
    BY <1>1, <1>4, <1>6, <2>1, EventReachable, EventShared
<1>7. ASSUME NEW a \in Agents, EntryStep(a), UNCHANGED agent
      PROVE  Reachable' /\ Staying' /\ PutFirst' /\ SharedAgents'
  <2>1. UNCHANGED kv
    BY <1>7 DEF EntryStep, FirstEntry, CancelReplaced, UpdateEntry, DeletedEntry, TakeEntry
  <2>2. QED
    BY <1>1, <1>4, <1>7, <2>1, EntryReachable, EntryShared DEF Reachable
<1>8. CASE (Relink \/ Forget) /\ UNCHANGED agent
  <2>1. OpensOnly({})
    BY <1>1, <1>8, EntriesOpen
  <2>2. QED
    BY <1>5, <1>8, <2>1 DEF Relink, Forget, streamVars
<1>9. CASE (\E t \in Tasks : Publish(t)) /\ UNCHANGED agent
  BY <1>5, <1>9, UnchangedOpens DEF Publish, streamVars
<1>10. ~StartupStep
  BY <1>1 DEF Watching, StartupStep, Start, Replay, CleanUp, Ready
<1>11. ~OrchestratorTrouble
  BY <1>2 DEF OrchestratorTrouble
<1>12. CASE AppStep /\ UNCHANGED <<orchestratorVars, agent>>
  <2>1. UNCHANGED <<commands, handler, watch, store, kv, sm>>
    BY <1>12 DEF AppStep, ConsumeUpdate, RestartApp, CreateDeployment, UpdateDeployment,
           RestartOperator, CreateLost, UpdateLost, AppUnchanged, streamVars, orchestratorVars
  <2>2. QED
    BY <1>5, <1>12, <2>1, UnchangedOpens
<1>13. ASSUME NEW a \in Agents, AgentTurn(a), UNCHANGED orchestratorVars
       PROVE  Reachable' /\ Staying' /\ PutFirst' /\ SharedAgents'
  <2>1. OrdinaryStep(a) /\ AgentStep(a)
    BY <1>1, <1>2, <1>13, TurnIsOrdinary, OrdinaryIsStep
  <2>2. Staying' /\ PutFirst' /\ SharedAgents'
    BY <1>1, <1>13, <2>1, OrdinaryStaying, OrdinaryPutFirst, OrdinaryShared
  <2>3. QED
    BY <1>1, <1>13, <2>1, <2>2, AgentReachable
<1>14. CASE UNCHANGED vars
  BY <1>5, <1>14, UnchangedOpens DEF vars, streamVars, orchestratorVars
<1>15. QED
  BY <1>6, <1>7, <1>8, <1>9, <1>10, <1>11, <1>12, <1>13, <1>14, NextCases
  DEF OrchestratorStep

LEMMA InitOneAtATime ==
  ASSUME MaxCrashes = 0, MaxFailures = 0, MaxShutdowns = 0, MaxDeaths = 0, Init
  PROVE  OneAtATimeInv
<1>1. TypeOK
  BY InitType
<1>2. \A a \in Agents : agent[a] = At("new") /\ DOMAIN commands[a] = {} /\ watch[a] = <<>>
                        /\ DOMAIN watch[a] = {} /\ kv[a] = None /\ store[a] = None
  BY DEF Init, StreamsInit, OrchestratorInit, AgentsInit
<1>3. /\ handler.pc = "idle" /\ boot = "ready" /\ watching
      /\ \A d \in Deployments : sm[d] = None
  BY DEF Init, StreamsInit, OrchestratorInit, IdleHandler
<1>4. \A a \in Agents : agent[a].depl = None /\ agent[a].next = None /\ ~agent[a].quit
                        /\ agent[a].phase = "new" /\ agent[a].goal = "stay"
  BY <1>2 DEF At
<1>5. Watching
  BY <1>2, <1>3 DEF Watching, LastTold
<1>6. Reachable
  BY <1>2, <1>3, <1>4 DEF Reachable, NextWaits, KnownFirst, Assigned, HasStart, DeletedWhenGone
<1>7. Staying /\ PutFirst
  BY <1>4 DEF Staying, PutFirst
<1>8. SharedAgents
  BY <1>3, NoneAssumption DEF SharedAgents, Open, States
<1>9. \A k \in {"crash", "failure", "shutdown", "death"} : budget[k] = 0
  BY MaxCrashes = 0, MaxFailures = 0, MaxShutdowns = 0, MaxDeaths = 0 DEF Init
<1>10. QED
  BY <1>1, <1>5, <1>6, <1>7, <1>8, <1>9 DEF OneAtATimeInv

(* At rest, what an agent has is the deployment it carries out.            *)
LEMMA RestHasOne ==
  ASSUME AgentsTypeOK, Watching, Staying, Quiescent, NEW a \in Agents, store[a] # None,
         NEW d \in Deployments, Has(a, d)
  PROVE  agent[a].depl = d
<1>1. /\ handler.pc = "idle" /\ DOMAIN commands[a] = {} /\ DOMAIN watch[a] = {}
      /\ kv[a] = store[a]
  BY DEF Quiescent, Watching, LastTold
<1>2. agent[a].phase \in {"idle", "running"} /\ store[a] = ValueOf(agent[a])
  BY <1>1 DEF Quiescent
<1>3. agent[a].next = None
  BY <1>2 DEF Staying
<1>4. Names(store[a], d) => agent[a].depl = d
  BY <1>2 DEF Names, ValueOf
<1>5. QED
  BY <1>1, <1>3, <1>4, NoneAssumption DEF Has, Sending, NoStart, Reported

(* Two deployments do not both stay assigned or running: with any number   *)
(* of agents that connect when they like and change over, of stops, edits, *)
(* operator restarts and errors, the agents a new deployment takes from    *)
(* the one before it have that one cancelled (_handle_deployment_change),  *)
(* while the orchestrator does not crash, no publish fails, no agent       *)
(* leaves or dies, and the watch sees every value of a key.                *)
THEOREM OnePipelineStays ==
  ASSUME MaxCrashes = 0, MaxFailures = 0, MaxShutdowns = 0, MaxDeaths = 0, ~Conflation
  PROVE  Spec => []OnePipelineAtATime
<1>1. Init => OneAtATimeInv
  BY MaxCrashes = 0, MaxFailures = 0, MaxShutdowns = 0, MaxDeaths = 0, InitOneAtATime
<1>2. OneAtATimeInv /\ [Next]_vars => OneAtATimeInv'
  BY ~Conflation, NextOneAtATime
<1>3. OneAtATimeInv => OnePipelineAtATime
  <2>1. ASSUME OneAtATimeInv, Quiescent, NEW d \in Deployments, NEW e \in Deployments,
               {sm[d], sm[e]} \subseteq {"AGENTS_ASSIGNED", "RUNNING"}
        PROVE  d = e
    <3>1. PICK a \in Agents : store[a] # None /\ Has(a, d) /\ Has(a, e)
      BY <2>1 DEF OneAtATimeInv, SharedAgents, Open
    <3>2. QED
      BY <2>1, <3>1, RestHasOne DEF OneAtATimeInv, TypeOK
  <2>2. QED
    BY <2>1 DEF OnePipelineAtATime
<1>4. QED
  BY <1>1, <1>2, <1>3, PTL DEF Spec
==============================================================================
