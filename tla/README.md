# Verification of interactEM

interactEM runs data pipelines: a user wires containerised operators together in
the web frontend, the *app* stores the pipeline and asks for its deployment, the
*orchestrator* assigns the operators to *agents*, and each agent starts its
containers, whose *operators* pass messages to each other over ZeroMQ. Everything
but the data goes through NATS: JetStream subjects for events, key-value buckets
for the state that each process announces of itself.

This directory holds TLA+ modules of the parts whose correctness depends on the
order in which things happen, TLC configurations that check them on small
instances, and proofs for TLAPS. Paths below are relative to `src/backend` unless
they begin with `src/`. Line-by-line correspondence is in `PROJECT.json` (`map`).

* [Inventory](#inventory)
* [Plan](#plan)
* [The deployment system](#the-deployment-system)
* [The components by themselves](#the-components-by-themselves)
* [Runs](#runs)
* [Proofs](#proofs)
* [What the runs found](#what-the-runs-found)
* [Abstractions and limits](#abstractions-and-limits)

## Inventory

| Component | State | Operations | Interacts with | What is hard | What makes it correct | Module |
|---|---|---|---|---|---|---|
| **Deployment machine** `orchestrator/.../machine.py` | the state of one deployment; the callbacks still running for it | `assign`, `start`, `start_failure`, `agent_failure`, `cancel`; each publishes the new state | fired by the event task and the watch task | two tasks share a machine; an accepted trigger cancels the callbacks of the other | states only move forward; what is published in the end is the state | `DeploymentMachine`, `Orchestrator` |
| **Agent trackers** `machine.py:105` | the deployment an agent is linked to | `update`, `cleanup` | the agents' keys; the machines | awaits between the decision and the link; old value against new | a status makes only that deployment run that the agent reports | `Orchestrator` |
| **Orchestrator state** `state.py`, `app.py` | stores of agents and operators, machines, trackers | replay at startup, agent and operator entries | the deployments stream, the STATUS bucket | a crash anywhere; redelivery; an entry handled while an event is | nothing stays pending after a crash; trackers follow the store | `Orchestrator` |
| **Orchestrator handlers** `orchestrator.py`, `exceptions.py` | the message being handled | run, stop, operator restart; the exception middleware | the app's events, the agents' commands | a publish that fails halfway; a stop that meets an assignment | no assignment before its announcement; a stop reaches whoever serves | `Orchestrator` |
| **Deployments API** `app/.../deployments.py`, `events/` | the state column of the database | create, update, operator event; consume updates | the orchestrator | commit before publish; two writers of one column | the column ends with the last published state | `App` |
| **Agent** `agent/.../agent.py`, `broker.py`, `deployment.py` | current deployment and its task, lock, containers, trackers, monitor, `agent_val` | assignment, cancellation, shutdown, operator restart, monitor | commands of the orchestrator, its key, podman | replacement under a lock that waits for a task; a teardown that fails; monitor against cleanup | one deployment's task at a time; teardown before the next start; without restarts no container outlives the agent | `Agent`; `AgentReports` (the values put) |
| **Key-value loop** `core/.../nats/kv.py` | getters of values, bucket, running, shutdown event | start, update now, periodic put, reconnect, delete keys, stop | NATS | loop, `stop` and `update_now` race; a put after the delete | a key is not left behind; what is put is the newest value | `KeyValueLoop` |
| **Assigner** `orchestrator/.../assign.py` | operators per agent, network cross-overs | topological assignment under tags and networks | agents' values, the pipeline | greedy choice, zero agents, ties | every operator on an agent it may run on | `Assigner` |
| **Pipeline expansion** `core/.../pipeline.py`, `models/runtime.py` | the runtime graph | ports, parallel copies, edges | assigner, messenger | copies of both ends of an edge | every copy is connected and identifiers agree | `PipelineExpansion` |
| **Operator** `operators/.../operator.py` | status, errors, error count, shutdown event, parameters | run loop, triggers, parameters, shutdown | messenger, keys | several tasks over one value; retry limit | ten failures in a row end it; RUNNING is announced again after recovery | `Operator` |
| **Messenger** `operators/.../zeromq/messenger.py` | sockets, address maps, ports' keys | bind, announce, connect, watch, receive, send | other operators' keys | restart of an upstream; a watch that times out; an address connected several times | an input is connected at the address known of each upstream and at none that was left; it comes to follow an upstream that moves once it is watched | `Messenger`, `Dataflow` |
| **Pipelines and revisions** `app/.../pipelines.py` | pipelines, revisions, current revision | create, add, rename, duplicate, tag, update positions, delete, list in pages | frontend | requests that interleave between their statements, a pipeline deleted meanwhile | revision numbers have no gap; while nothing is deleted, the data of a pipeline is that of its current revision | `PipelineRevisions` |
| **Parameters** `core/.../nats/`, `operator.py`, `agent.py` | last value per operator and parameter | set, acknowledge, mount | frontend, agent, operator | acknowledgement against a newer value | operator ends with the last value set | `Parameters` |
| **Head node client** `src/operators/distiller-streaming/.../client.py` | the cluster's state, a background process, a bounded queue | subscribe, push, drain, switch publisher, terminate | operators that follow the detector | messages dropped at full queues, a join that waits for a process that waits for room | the client ends with the state that is published | `HeadNodeClient` |
| **Distiller grabber and emitter** `.../emitter.py`, `src/operators/distiller-streaming` | active dataset, cache of messages | receive, cut into batches, send | head node client, downstream operators | messages that come while a dataset is sent; thresholds | positions in order, without a gap; as many batches as announced if the last has data | `FrameEmitter` |
| **Frame accumulators** `.../accumulator.py`, bright field, diffraction, ptychography | slots and counts per position, cached scans | add a batch, evict, finish, send | grabber or readers | batches out of order, again, damaged | holds what came; ends in full | `FrameAccumulators` |
| **Center of mass reduction** `src/operators/center-of-mass-reduce` | partial results per scan | add, complete, send | its replicated upstream | parts in any order, again | each part counts once | `COMReduce` |
| **Camera aggregator, assembler** `src/operators/detstream-*` | parts of frames | pass on, assemble | detector ports | parts of several frames mixed, lost | a frame is sent once and whole | `CameraFrames` |
| **Readers of scans** `src/operators/distiller-counted-data-reader`, `data-replay` | open file, scan number | trigger, read, next scan | parameters, triggers | parameters that change in a pass | passes in order, of the scan selected when they are triggered | `ScanReaders` |
| **Beam compensation** `src/operators/beam-compensation` | shifts per scan | make and apply shifts | readers, parameters | scans mixed; replicas with a method each, changed in a scan | each frame moved by its own drift; one method per scan in a replica | `BeamCompensation` |
| **Users and login** `app/.../users.py`, `login.py`, `crud.py`, `initial_data.py` | users | create, change, delete, external login, data at start | pipelines | check, then commit; workers that start together | names apart, owners exist | `Accounts` |
| **Operator catalogue** `app/.../operators.py`, `operators/` | cache per worker | list, refresh, fetch | registry, local files | fetches that overlap | what answers a refresh is not older than its own fetch | `OperatorCatalogue` |
| **Launcher** `launcher/` | none kept (jobs live at NERSC) | submit, monitor | external API | redelivery of a request in hand; a job that ends before it is seen | one job per request and one per ack wait that ends too early, each request answered | `Launcher` |
| **Metrics, callout, RDMA proxy, frontend, CLI, other operators** | none that others rely on | reads, stateless answers, views, numerical work | | | | not modelled (see [limits](#abstractions-and-limits)) |

How they interact on the path that this project models first:

```
 user ──PATCH/POST──▶ app ──depl.pipe.<id>──▶ orchestrator ──depl.agent.<id>──▶ agent
                       ▲                       │        ▲                         │
                       └──depl.pipe.<id>.upd───┘        └──── agents.<id> key ────┘
```

Every arrow is asynchronous; each process is one event loop with several tasks;
the orchestrator, an agent and the app may each stop in the middle of a handler.
`PROJECT.json` lists under `hazards` what can go wrong and is hardly reached by a
test, at the line where it bites.

## Plan

The order puts the behaviour that everything else depends on first. All steps are
done; what is left of step 8 is named there.

1. **Deployment system**: `DeploymentMachine`, `Streams`, `Orchestrator`,
   `AgentReports`, `App`, composed by `DeploymentSystem`; the abstract `Lifecycle`
   it implements; proofs of type correctness and of "announced before assigned".
2. **`Agent`**: tasks, lock, containers, monitor, operator restart, shutdown at
   the grain of its awaits.
3. **`KeyValueLoop`**: loop, `update_now`, `stop`, refresh, over a connection with outages.
4. **`PipelineExpansion`** and **`Assigner`**, which extends it: against reference
   definitions over all small drawings.
5. **`Operator`**, **`Messenger`**, **`Dataflow`**: the process, its sockets, and the
   messages between several.
6. **`PipelineRevisions`**, **`Accounts`**, **`Parameters`**, **`OperatorCatalogue`**,
   **`Launcher`**: the app's tables at the grain of its statements, the parameter
   stream, the catalogue, the jobs.
7. **`HeadNodeClient`**, **`FrameEmitter`**, **`FrameAccumulators`**, **`COMReduce`**,
   **`CameraFrames`**, **`ScanReaders`**, **`BeamCompensation`**: the operators that keep
   state from one message to the next.
8. **Proofs**: of the deployment system, the agent, the operator, the app's tables, the
   launcher, the messenger, the catalogue, the parameters, the loop of keys, the head node
   client, the expansion and assignment of pipelines, the emitter, the reduction of centers of
   mass, the readers of scans, the camera's frames, the compensation of the beam and the flow
   of messages (done, see [Proofs](#proofs)).
   A module that is proved about declares no RECURSIVE operator.

## The deployment system

| Module | Models |
|---|---|
| `DeploymentMachine` | `TRANSITIONS` of `machine.py`: which trigger a state accepts and where it leads, `"="` included; `Later` is the order the transitions imply |
| `Streams` | what the processes share: the subjects of the DEPLOYMENTS stream as the sequence each consumer has still to take, the last message per subject (for the replay), the agents' keys and the orchestrator's watch |
| `Orchestrator` | the process: `Events` (one deployment event at a time) and `Entries` (one watch entry at a time), startup, crash |
| `AgentReports` | an agent between two of its puts: commands taken, phases of `_run_deployment`, replacement, stop, shutdown, death, expiry of its key |
| `App` | the deployments routes and `pipeline_updates_consumer` |
| `DeploymentSystem` | their composition, the budgets of requests and trouble, fairness, all properties |
| `Lifecycle` | the abstract specification: states announced only move forward; an agent serves one deployment at a time, and only an announced one |
| `MCDeploymentSystem` | the symmetry sets for TLC |

**State.** `sm[d]` is `deployment_state_machines`, `store[a]` the store of agents,
`tracker[a]` `agent_trackers` (`Absent`, or the linked deployment), `handler` and
`watcher` the program counters of the two tasks, `pending[t]` the
`publish_state_update` that the last trigger of task *t* has begun and not ended,
`replay` the updates that the startup has still to publish. `agent[a]` holds the phase
of `_run_deployment`, `agent_val.status`, `_current_deployment`, `_shutdown_event`, and
what the holder of `_deployment_lock` waits for (`goal`, `next`). `db[d]` is the
database's column.

**Actions.** A trigger of `transitions`' `AsyncMachine` changes the state without an
await and then awaits its callback. So `Fire` changes `sm` and sets `pending[task]` in
one step and `Publish` is another. When the machine accepts a trigger while a callback
of the other task is running for the same model, the library cancels that callback,
the re-entering `"="` included: `Fire` clears the other task's `pending`. This is why
the publication, and not the state, is what can be lost. The handlers are cut at
their awaits: `HandleRun` (up to `assign`), `SendStarts` (task group: any subset per
step), `EventDone`. `CancelReplaced` and `Relink` are the two halves of
`AgentTracker.update` around the await of `cancel`; `DeletedEntry` and `Forget` those of
the deletion of an agent.

**Startup.** `Start` subscribes, `Replay` reads the last message per subject,
`CleanUp` publishes `FAILED_TO_START` or `CANCELLED` for what cannot be resumed, `Ready`
lets the watch handler go on. The event task is subscribed before the replay and takes
messages meanwhile: that is in the model. A machine that the replay replaces keeps its
running publication (`stored = FALSE`).

**Delivery.** Consumers take each message once and in order. A message whose handler
raises is rejected for good, one that the process dies with comes back
(`Crash`), possibly after later ones. The watch receives every revision, or, with
`Conflation`, may miss one that has been overwritten. An app that restarts begins with
new updates (`DeliverPolicy.NEW`).

## The components by themselves

Each of these modules is one process, or the part of it that keeps state. Its header
says what an action stands for; its constants are the actors, what the users ask for and the
faults, each with a bound of its own.

| Module | State ↔ code | A step is |
|---|---|---|
| `Agent` | `current`, `task`, `lock` ↔ `_current_deployment`, `_current_deployment_task`, `_deployment_lock`; `tracker`, `suppressed` ↔ `_container_trackers`, `_suppress_monitor`; `container` ↔ podman; a cleanup per task that may run `_cleanup_containers` | what a task does between two awaits, with the podman call of the await. Command handler, deployment task, monitor, remount, operator restart and shutdown hook interleave; podman may fail, in a start, a teardown and the shutdown's own cleanup; containers exit, a cancelled create may still be carried out |
| `KeyValueLoop` | `value`, `store`, `running`, `event` ↔ `get_val`, the bucket, `_running`, `shutdown_event`; `wire` is the connection | a request, its arrival at the server, its reply or its timeout. `Callers` run `update_now`, `refresh_connection`, `stop` |
| `HeadNodeClient` | the shared state, what the background process knows, the two bounded zmq queues, what the client knows | a publication, a turn of the background loop, a call of the client. A full queue drops or blocks as the socket does |
| `Operator` | `lock`, `kernels`, `life`, `event`, `errorState`, `errorCount`, `status` ↔ `_kernel_lock`, threads, `run`/`shutdown`, `_shutdown_event`, the error counters | the main loop and the trigger requests from await to await; an abandoned thread of a cancelled task returns on its own |
| `Parameters` | updates, the consumer position of each replica, what each holds, acknowledgements | an update published, delivered, validated, applied, acknowledged; a replica dies, a consumer breaks, a message comes twice |
| `Messenger` | `published`, `addressMap`, `connections`, `connectedTo`, `watched` ↔ the keys of ports, `AddressMap`, the connections of the socket per address and the entries of `connected_to`, both counted, the watchers | set-up of outputs and input, the polling of keys, one update of a watcher. With each upstream the set-up connects the whole map again, as `bind_or_connect` does; libzmq closes all connections of an address, `list.remove` takes one entry |
| `Dataflow` | `channel[e]` holds what a pair of PUSH and PULL sockets holds, `taken` and `recvQueue` what the messenger has received, `kernel`, `outbox` | one receive, one hand-over, one send |
| `PipelineExpansion` | the drawn and the runtime pipeline | expand, load, fold back |
| `Assigner` | `assignments`, `networks`, `rejected` ↔ those of `PipelineAssigner` | the placement of one instance, in any topological order |
| `FrameEmitter` | `cache`, `active`, `inbox` ↔ the pending messages, the `BatchEmitter`, the sockets | one call of the kernel |
| `FrameAccumulators` | an accumulator: slots, counts, totals; the cache of scans | one batch, refused half-way if it is damaged |
| `COMReduce` | `store` ↔ `_accumulators` | one part |
| `CameraFrames` | `inbox`, `cache` ↔ the shared socket, the assembler's dictionary | a part passed on, a part assembled |
| `ScanReaders` | `reader` ↔ what the module keeps between triggers | a trigger, a change of parameters, a call |
| `BeamCompensation` | per replica `cache`, `shifts`, `method`, `offsets` ↔ the tables kept by scan number, the globals used last, the parameter, the vacuum scan mounted | one batch in the replica that takes it; an update that reaches one replica; a restart of one |
| `PipelineRevisions` | tables, row locks, one thread per request | from one statement that reads or commits to the next: at the level read committed others may commit in between |
| `Accounts` | users, pipelines, what a session has read | the same |
| `Launcher` | the stream's delivery state, tasks, jobs, monitors | delivery, one answer of the API, one change of a job, one look of a monitor |
| `OperatorCatalogue` | the registry, the files, `cache` per worker | one answer of the registry; the cache is read before and written after |

They meet at interfaces that the modules share by name and not by variables: what
`Agent` does between two puts is a step of `AgentReports`; the key that `AgentReports` puts
at once goes through `KeyValueLoop`; `Assigner` extends `PipelineExpansion`; `Dataflow`
begins where `Messenger` has connected the sockets, and the operators of step 7 are
what one kernel of `Dataflow` does.

**Properties.** A module states what its component promises, part by part
(`OneTaskAtATime`, `NoStrays`, `Conserved`, ...). The three composites join the parts that are
one promise and check them by the names in the table of runs.

## Runs

Twelve runs. `CHECK_DEADLOCK FALSE` everywhere: when all requests are handled and the
budgets spent the system rightly has nothing to do.

### Of the deployment system

All are of `MCDeploymentSystem`. `SYMMETRY` permutes deployments and agents, except in
`liveness`.

| Run | depl. | agents | budgets | states | Shows |
|---|---|---|---|---|---|
| `steady` | 2 | 1 | 1 stop, 1 error | 270 k | `TypeOK`, `ImplementsLifecycle`, `OnePipelineAtATime`, `StoppedMeansStopped`, `StatusCredited` with two deployments competing for one agent |
| `agents` | 1 | 2 | 1 stop, 1 error, conflation | 660 k | `PublishedAgrees`, `DatabaseAgrees`: agents that disagree about one deployment, and keys overwritten before they are seen |
| `leaving` | 2 | 1 | 1 shutdown, 1 death | 254 k | `RunningIsServed`, `TrackersFollowStore` when agents leave in either way |
| `crash` | 1 | 1 | 1 stop, 2 crashes | 1.0 M | `NoneLeftPending`, `OnlyAnnounced` for a crash at any step, also during recovery from one |
| `failures` | 1 | 1 | 1 each of stop, edit, restart, failure, error | 362 k | `StartsAreAnnounced`, `UpdatesMoveForward` when any one publish fails or the app restarts |
| `liveness` | 2 | 1 | 1 stop | 129 k | `AssignmentsResolve`, `StopsTakeEffect` under `FairSpec` |
| `cancel_loses_update` | 1 | 1 | 1 stop, 1 shutdown | | violation of `PublishedAgrees` |
| `crash_revives` | 1 | 1 | 1 crash | | violation of `UpdatesMoveForward` |
| `restart_gives_up` | 1 | 1 | 1 restart | | violation of `FailedIsNotServed` |

**Bounds.** The budgets `MaxStops`, `MaxEdits`, `MaxRestarts`, `MaxShutdowns`, `MaxDeaths`,
`MaxCrashes`, `MaxFailures`, `MaxErrors` bound what users ask for and what goes wrong;
everything else runs as often as the code lets it, and queues are unbounded (the
budgets keep them short). Replacement and crediting need two deployments and one
agent; disagreement about one deployment needs two agents; a crash during recovery
needs two crashes. Two of each would add no new pair of actors: the tasks of the
orchestrator share only a machine, an agent or the store, and agents do not interact
but through them.

**Where a property is checked.** Several hold only in the absence of a fault that the
code does not handle; the run leaves that fault out, and the hazard says so:
`NoneLeftPending` without failing publishes (the route has committed `PENDING` and
answers 503); `OnePipelineAtATime` without conflation or deaths (a skipped value hides
a deployment from the tracker); `RunningIsServed` without `Collapses` (the running
deployment's tasks raise and nothing is reported as an error); `StoppedMeansStopped`
without crashes (the stop goes to the agents known at that moment); `PublishedAgrees`
without shutdowns (below). The violation runs show the two that contradict what the
code says about itself, and one more.

**Quiescence.** Many promises hold only when nothing is under way, since every
arrow of the picture is asynchronous. `Quiescent` says so: queues empty, tasks idle,
keys up to date, agents waiting. The budgets do not have to be spent.

**Fairness.** `FairSpec` assumes weak fairness of `Consume` (the app's consumer task),
`Orchestrate` (the orchestrator's event loop) and `AgentWorks(a)` (each agent's). An
asyncio loop runs every task that is ready, and JetStream delivers to a connected
consumer; so each continues while it has something to do. One condition per process and
not per task is the weaker assumption, and it is enough because no task of a process
can run for ever by itself. Users, crashes, failures, joins and deaths are not fair.
`liveness` has no faults, so what it shows is the absence of mutual waiting (agents wait
for their deployment task while they hold the lock that the next command needs) and
of lost commands.

### Of the components

`MCServices`, `MCDataPlane` and `MCProgress` each check several components. The components
do not interact at the grain of these modules, so a state has only one of them in it: the
variable `scenario` says which, and the variables of all others are `None` and stay it.
A scenario is exactly the component's own `Init`, `Next` and (in `MCProgress`) fairness with
constants of its own; a property is an implication from the scenario. One component in two
scenarios has two different sets of bounds.

| Run | states | Scenarios and bounds |
|---|---|---|
| `services` | 1.2 M | `tasks`, `cleaning`, `restarts` (Agent: 2 deployments of 2 operators; with 1 exit, or with a stop and 2 failures of podman, anywhere, in teardowns and the shutdown too; 1 operator with 2 exits, 1 remount, 1 asked restart, `MAX_RESTARTS` 1), `loop` (2 outages, 1 lost reply, 1 refresh, 1 immediate update, stop), `kernels`, `async` (3 triggers, one unknown, one that drains; 3 retries), `params` (2 replicas, 3 updates, one invalid, one repeated, one broken consumer), `sockets` (2 upstreams, 3 starts), `jobs` (2 requests, one invalid, 4 deliveries each, 2 API errors, 2 ack waits of a request that end while a task waits for the API, 1 loss), `numbers`, `agree`, `pages` (3 concurrent requests on pipelines), `people`, `changes` (3 concurrent requests on users), `catalogue` (2 images, 2 requests, 1 error). `SYMMETRY` permutes deployments, pipelines, users, images and requests |
| `data_plane` | 1.05 M | `head` (1 node, 2 publishers, queues of 2, 2 changes, 1 switch), `expansion` (all drawings of 3 operators, sequential or parallel with a factor of the default or 3), `assign` (2 agents with any of 2 networks and 1 tag; chain, fork, join, loop), `balance` (3 equal agents, an operator with 5 instances), `emitter` (2 messages: live, junk, all datasets of up to 3 positions at or below the limit of a batch), `kept` (3 scans in 5 batches of which 2 scans are kept; one batch repeated, one damaged), `whole` (3 datasets as the emitter cuts them), `reduce` (3 scans in 6 parts, one repeated, one of a wrong shape), `camera` (2 frames of 4 modules, 2 parts lost), `readers` (3 files, 7 triggers, 2 changes, 1 error), `beam` (2 replicas, 4 batches of 2 scans over 2 vacuum scans, frames of 3 by 3, 1 change, 1 restart), `diamond` (a source, two branches, a join; 4 messages, room for 2), `replicas` (two replicas between a source and a sink, room for 1) |
| `progress` | 288 k | `agent` (2 deployments, 1 exit, 1 stop, 1 error of podman), `switch` (2 switches, one to an address that cannot be used), `following` (a cluster of 2 nodes that changes), `keys`, `operator`, `parameters`, `sockets`, `diamond` and `replicas` (as in `data_plane`), `emitter`, `revisions`, `jobs`, `camera` |

| Run | Property | Shows |
|---|---|---|
| `services` | `TypeOK` | each component's types |
| | `OneDeploymentAtATime` | one deployment task at a time, its teardown included; listed trackers are of the deployment whose task is there or of one whose teardown failed; where nothing is restarted, so are running containers |
| | `RestartsAreBounded` | monitor, remount and asked restart together start no more than there are reasons for |
| | `LeavesNothing` | where nothing is restarted, no container after an agent whose shutdown did not fail, whatever failed before; no key after `stop` |
| | `KernelsAccountedFor` | one kernel at a time; a failure shows; an async kernel ends before its dependencies |
| | `OneAddressEach` | no socket stays connected to an old address, however often it was connected there |
| | `JobsAccountedFor` | one job per request, and one more per ack wait that ended while a task waited for the API; no request is forgotten for no reason |
| | `RevisionsConsistent` | numbers without a gap, none without a pipeline, data of the current revision, no add fails, pages complete |
| | `UsersConsistent` | names apart, owners exist |
| | `RefreshIsFresh` | what answers a refresh is no older than what there was when it was asked |
| | `NothingGoesBack` | keys, parameters, revisions, users' fields are not overwritten by older ones |
| `data_plane` | `TypeOK`, `KnowsTheHead` | what is queued leads the client to the state its process knows |
| | `ExpandedFaithfully`, `AssignedWell` | expansion can be undone and connects each replica once; assignment if and only if every operator has an agent, near and balanced |
| | `DatasetsStreamed`, `ScansAccumulate`, `PartsCountOnce` | nothing lost or mixed between detector and result, nothing counted twice of what comes once |
| | `CompensatedByDrift`, `TakesSettings` | tables of the right scan, one method per scan in a replica; settings of the moment |
| | `DeliveredOnce` | order and number of deliveries, inputs in step |
| `progress` | `NobodyWaitsForEver` | commands, shutdowns, signals, trigger requests end |
| | `FollowersCatchUp` | client, bucket, replicas, sockets come to hold what is published, the client nothing of an earlier publisher |
| | `AllArrive` | messages, datasets, frames arrive |
| | `RequestsEnd` | requests for revisions and jobs are answered, ends of jobs published |

**Bounds.** Each is the smallest for which the case a property is about occurs: a
replacement needs two deployments, a partial start two operators, a race for a row two
requests and a third that deletes; a full queue one message more than it holds; an eviction
one scan more than is kept. The mutants of `PROJECT.json` confirm that the cases
occur: each changes one definition the way a bug in that code would, and the run then
finds the property violated.

**Fairness of `progress`.** Weak fairness of the actions that the code itself goes on with,
per task or process, as the module says above each `Fair...`: tasks of an event loop run
when they can and podman answers (`agent`, `operator`, where every kernel returns and an
input may never come); the background process of the client runs, a join has a timeout
(`switch`, `following`; strong fairness of the repeated publication, which competes with
heartbeats for room in a bounded queue); the server serves and no outage lasts for ever (`keys`);
messages are delivered and processes restarted (`parameters`, `jobs`); a thread with a
request goes on (`revisions`); an operator works while it can (`diamond`, `replicas`,
`emitter`, `camera`). Users, faults and further updates are never fair.

**Where a property is checked.** These hold only in part, and the definitions say so:

* `OneDeploymentAtATime`: tasks and listed trackers with exits, starts and stops; containers
  (`NoStrays`) only where nothing is restarted (`cleaning`), and so is `LeavesNothing` for
  containers. The trackers that the monitor has copied, and a restart it has in hand, are not
  meant: agent.py:237 promises that they start nothing, and the code breaks that. A shutdown
  in whose own cleanup podman fails leaves what it leaves.
* `JobsAccountedFor` counts the times that an ack wait ended while a task waited for the API
  (`slow`), each of which may cost a job; that there is one is the divergence at launcher.py:96.
* `DatasetsStreamed`: the number of batches when the last batch has data in it; that a number
  names one pass while no trigger failed and no other scan was selected, since the reader
  begins its numbers anew then (run.py:50-54).
* `ScansAccumulate`: reconstructions of scans whose batches come once (`whole` has
  `MaxRepeats = 0`), of all frames if the last batch has data in it; repeated and damaged
  batches are those of `kept`.
* `CompensatedByDrift`: square frames and vacuum scans; one method per scan in a replica, and
  for replicas that share a scan while no update of the parameter came.
* `FollowersCatchUp`: for sockets when upstreams move once they are watched
  (`MayMoveEarly = FALSE`), for replicas that kept their consumer, for clients whose new
  publisher has a head node.
* `RunningIsServed` (run `leaving`) without crashes of the orchestrator: after a restart an
  agent that serves is tracked with no deployment (`TrackersFollowStore` allows that), so its
  end does not end the deployment.

What happens otherwise is listed under [further divergences](#further-divergences).

## Proofs

Checked by `tlapm` for all values of the constants: any sets of deployments and agents, of
users, requests, pipelines, ports and so on, any budget that a theorem does not name.
`MCServices_proofs` and `MCDataPlane_proofs` are the exception: they carry what is proved of
each component over to the instances that the runs `services` and `data_plane` check.

| Module | Theorem | Says | Needs |
|---|---|---|---|
| `DeploymentSystem_proofs` | `OrchestratorTypes` | a step of the orchestrator keeps the types of its state and of what it writes | |
| | `TypeCorrect` | `Spec => []TypeOK` | |
| | `AnnouncedFirst` | `Spec => []OnlyAnnounced` | |
| | `NoStartUnannounced` | `Spec => []StartsAreAnnounced` | |
| | `LinksAreSafe` | `Spec => []Linked` | |
| | `StatusIsCredited` | `Spec => StatusCredited` | |
| | `TrackersFollow` | `Spec => []TrackersFollowStore` | no failed publishes |
| | `RunningAreServed` | `Spec => []RunningIsServed` | no crashes, no collapses |
| | `UpdatesGoForward` | `Spec => UpdatesMoveForward` | no crashes |
| | `GivenUpIsNotServed` | `Spec => []FailedIsNotServed` | no crashes, no operator restarts |
| | `SystemImplementsLifecycle` | `Spec => ImplementsLifecycle`, the refinement | no crashes, no operator restarts |
| | `RequestsAreTakenUp` | `Spec => []NoneLeftPending` | no failed publishes, no edits |
| | `StopsReachEveryAgent` | `Spec => []StoppedMeansStopped` | no crashes, no operator restarts, no failed publishes |
| | `OnlyRepeatedStatesAreLost` | when all is quiet a machine is in the state last published, or in one of two states whose triggers repeat | no crashes, no failed publishes |
| | `PublishedIsTheState` | `Spec => []PublishedAgrees` | and no stops, no operator restarts |
| | `DatabaseFollowsStream` | when all is quiet the database has the state last published, or the user's `CANCELLED` | no failed publishes, no edits |
| | `DatabaseIsTheStream` | `Spec => []DatabaseAgrees` | and no stops |
| | `OnePipelineStays` | `Spec => []OnePipelineAtATime` | no crashes, no failed publishes, no shutdowns, no deaths, no conflation |
| `Agent_proofs` | `AgentHasOneTask` | `Agent`: `[]OneTaskAtATime`, `[]TrackedIsCurrent` | |
| | `AgentLeavesNothing` | `Agent`: `[]NoStrays`, `[]LeavesNothing`, with any failures of podman | no exits, no remounts, no operator restarts |
| | `AgentRestartsAreBounded` | `Agent`: `[]RestartsAreBounded` | |
| `Services_proofs` | `UsersAreConsistent` | `Accounts`: `[]OwnersExist`, `[]NamesApart` | |
| | `UsersChangeAsAsked` | `Accounts`: `ChangedAsAsked` | |
| | `RequestsStartOneJob` | `Launcher`: `[]OneJobEach`, one job and one per ack wait that ended while a task waited for the API | |
| | `RequestsAreForgottenForAReason` | `Launcher`: `[]ForgottenForAReason` | |
| | `InputsHaveOneAddress` | `Messenger`: `[]TypeOK`, `[]OneAddressEach` | |
| | `RefreshesAreFresh` | `OperatorCatalogue`: `[]RefreshIsFresh` | |
| | `ParametersNeverGoBack` | `Parameters`: `[]TypeOK`, `NeverOlder` | |
| | `KeysStayClean` | `KeyValueLoop`: `[]CleanAfterStop`, `PutsNeverGoBack` | |
| | `KernelsTakeTurns` | `Operator`: `[]OneKernelWhileRunning`, `[]FailuresShow` | |
| | `KernelsEndBeforeTeardown` | `Operator`: `[]LoopOverBeforeTeardown` | an async kernel |
| `Revisions_proofs` | `RevisionsAreNumbered` | `PipelineRevisions`: `[]NumberedWithoutGap`, `[]NoneWithoutPipeline`, `[]NoAddFails`, `[]PagesShowAll` | |
| | `CurrentRevisionAgrees` | `PipelineRevisions`: `[]CurrentAgrees`, `RevisionsStay` | no deletes |
| `MCServices_proofs` | `UsersStayConsistent` | `Spec => []UsersConsistent` of the run `services` | |
| | `JobsAreAccountedFor` | `Spec => []JobsAccountedFor` | |
| | `PortsHaveOneAddress` | `Spec => []OneAddressEach` | |
| | `CatalogueIsFresh` | `Spec => []RefreshIsFresh` | |
| | `RevisionsStayConsistent` | `Spec => []RevisionsConsistent` | |
| | `OneDeploymentHasTheAgent` | `Spec => []OneDeploymentAtATime` | |
| | `RestartsStayBounded` | `Spec => []RestartsAreBounded` | |
| | `EndedLeaveNothing` | `Spec => []LeavesNothing` | |
| | `KernelsStayAccountedFor` | `Spec => []KernelsAccountedFor` | |
| | `NothingStoredGoesBack` | `Spec => NothingGoesBack` | |
| `DataPlane_proofs` | `ClientKnowsTheHead` | `HeadNodeClient`: `[]ClientTypeOK`, `[]KnowsTheHead` | |
| | `ClientTakesPublished` | `HeadNodeClient`: `HeadIsPublished` | clusters that do not change |
| | `ScansKeepTheirMethod` | `BeamCompensation`: `[]OneMethodPerScan`, `MethodAsChosen`, for any replicas | |
| | `BeamIsCompensated` | `BeamCompensation`: `[]CompensatedByDrift` | square frames, square vacuum scans, one shape per scan |
| | `PassesAreInOrder` | `ScanReaders`: `[]PassesInOrder` | |
| | `NumbersAreOfOnePass` | `ScanReaders`: `[]NumbersNamePasses` | |
| | `SelectedScansAreSent` | `ScanReaders`: `SelectedIsSent` | |
| | `WholeFramesAreSent` | `CameraFrames`: `[]SentWhole` | |
| | `FramesAreNotForgotten` | `CameraFrames`: `[]AllThatCame` | |
| | `PipelinesExpandFaithfully` | `PipelineExpansion`: `[]RoundTrip`, `[]ServedOnce`, `[]PeersAreReplicas`, `[]SortableUnlessLoop`, `[]TypeOK` | |
| | `AssignmentsAreRight` | `Assigner`: `[]AssignedIfPossible`, `[]KeepsToNetworks`, `[]Balanced`, `[]AssignerTypeOK` | |
| | `DatasetsAreStreamed` | `FrameEmitter`: `[]Streamed`, `[]LimitKept`, `[]Announced`, `[]EmitterTypeOK` | |
| | `PartsAreReduced` | `COMReduce`: `[]Conserved`, `[]ReduceTypeOK`, `[]SentAndForgotten` | the last one: parts that divide the scans |
| `Dataflow_proofs` | `FlowInStep` | `Dataflow`: `[]TypeOK`, `[]InStep` | finitely many input ports |
| | `FlowInOrder` | `Dataflow`: `[]InOrder` | no port on two edges, one input for what has outputs |
| | `FlowOnlyOnce` | `Dataflow`: `[]OnlyOnce` | ports in stages, one input for what has outputs |
| `MCDataPlane_proofs` | `ClientKnows` | `Spec => []KnowsTheHead` of the run `data_plane` | |
| | `BeamCompensates` | `Spec => []CompensatedByDrift` | |
| | `SettingsAreTaken` | `Spec => TakesSettings` | |
| | `MessagesArriveOnce` | `Spec => []DeliveredOnce` | |
| | `PipelinesExpand` | `Spec => []ExpandedFaithfully` | |
| | `DeploymentsAreAssigned` | `Spec => []AssignedWell` | |
| | `DatasetsArrive` | `Spec => []DatasetsStreamed` | |
| | `PartsArriveOnce` | `Spec => []PartsCountOnce` | |

**Assumptions.** `NoneAssumption` (`None` is no deployment, agent or state),
`AbsentAssumption` (nor is the tracker's `Absent`), `ValueAssumption` (nor a value of a key
or an event), `BoundsAssumption` (budgets are natural numbers), and the `...Assumption` of
each component, which says the same of its own constants; of pipelines also that they have
finitely many operators and that no port is both an input and an output, which its ids rule
out. What a theorem *needs* is a
hypothesis that a budget is 0; every other kind of trouble stays unbounded. Each is there
because the code breaks the property without it:

* *No crashes*: the replay publishes a state for what it finds, and takes back what the
  events bring again (`crash_revives`; `UpdatesMoveForward` and `FailedIsNotServed` fail
  there). After a crash the store of agents is empty until the watch has told of their
  keys, so a stop that is redelivered early is sent to nobody.
* *No operator restarts*: one that is refused gives up a deployment that agents carry out
  (`restart_gives_up`), and a stop of a deployment that was given up is refused.
* *No failed publishes* (`MaxFailures = 0`, which rules out restarts of the app too): an
  event that the app could not publish is lost, a handler that fails half-way leaves sends
  undone, and an entry of the watch whose publish fails is half dealt with: the store has
  the value, the tracker does not.
* *No edits*: a PATCH may set `PENDING` for a deployment that is long over.
* *No stops* (`MaxStops = 0`): a second trigger into `CANCELLED`, or of `start_failure` at
  `FAILURE_ON_AGENT`, publishes nothing but cancels the publication of the first when the
  other task holds it (`cancel_loses_update`); and `CANCELLED` in the database is the
  user's own PATCH, which the stream need not have said yet.
* *No shutdowns, no deaths, no conflation* (`OnePipelineStays`): an agent that leaves, or
  is told to quit while it has an assignment in its queue, takes it along: the deployment stays
  `AGENTS_ASSIGNED` beside the next one. And a value that is overwritten before the watch
  has seen it hides that the agent ever served its deployment, so nobody cancels that.
* *No exits, remounts or operator restarts* (`AgentLeavesNothing`): a restart under way is not
  stopped by a teardown (`Agent.NoStrays` in [further divergences](#further-divergences)).
  Podman may fail as often as it likes, in starts, teardowns and in the shutdown.
* *Square frames and vacuum scans, one shape per scan* (`SquareFrames`, `SquareVacuums`,
  `OneShape` of `BeamIsCompensated`): the code takes rows for columns in two places, and the
  table of a scan is made for its first batch.
* *Parts that divide the scans* (`PartsDivide` of `PartsAreReduced`): each position of a scan is
  in one part, as the replicated upstream makes them; without it nothing is sent in full once.
* *No collapses* (`MaxErrors = 0`): a task that fails on its agent tears the deployment
  down and nothing tells the orchestrator (see the hazards at `agent.py:491`).

The steps of a proof are the same everywhere: one lemma per action of the component and
conjunct of the invariant that the action can disturb, a frame lemma for the actions of
the other components, and the composition by cases on `Next` (`NextCases`). Properties
that speak of `Quiescent` are proved from an invariant of all states which says *who still
owes what*: when nobody is busy and all queues are empty, only the wanted case is left.

**Types** (`TypeCorrect`). It is not trivial: it says that no combination of triggers,
replays and failures leads a machine, a tracker or a task out of its states.

**Announced before assigned** (`NoStartUnannounced`). `StartsAreAnnounced` is not
inductive: whether an assignment may be sent depends on whether the publication of
`assign` is over or was *cancelled*, and only a trigger of the watch task can cancel it,
on a deployment that an agent reports. So the invariant has to say that whatever an agent
serves, its key or an entry of the watch names, and the orchestrator stores, links or is
relinking has been announced, and that a handler about to send assignments has either
announced its deployment or still holds the publication. That is `OnlyAnnounced`, a
conjunction of `StartsAreAnnounced`, `AgentsAnnounced`, `KeysAnnounced`,
`TrackingAnnounced` and `HandlerAnnounced`. The run `crash` checks it.

**Trackers** (`StatusIsCredited`, `TrackersFollow`, `RunningAreServed`). `Linked` is what
holds in every run: a deployment that an agent is tracked for is over, or the one that the
store has for the agent; while an entry is dealt with (`EntryUnderWay`) the store has the
new value already. Hence a status fires no trigger that could run an earlier deployment.
`Following` adds, for all agents but the one whose entry is dealt with, that the tracker is
there exactly when the store knows the agent. For `RunningIsServed` the chain from a
machine to an agent has four links: a running machine has an agent tracked for it
(`RunningLinked`), the store has that agent with this deployment (`Linked`), the last
value the watch still holds, or else the store, is the agent's key (`Watching`), and an
agent whose key names a deployment carries it out (`Undisturbed`, with the types of the
agents).

**The life cycle** (`UpdatesGoForward`, `GivenUpIsNotServed`,
`SystemImplementsLifecycle`). `UpdatesAccounted`: the last update of a deployment is of
the state its machine is in or of an earlier one (`MovesOn`), and an update that waits in
a task is of the state the machine is in, since whoever fires the next trigger cancels it.
`RunsFirst`: no machine is there before the run request is taken, and it is the first event
of its deployment. `Wanted`: what an agent serves, a key, a store entry, a tracker or a
START names did not fail to start; it is kept because only a deployment without a machine
or named by nobody is given up (`GivesUpUnnamed`). Together (`Forward`) they imply that
each step is a step of `Lifecycle` under the mapping of `DeploymentSystem`, or stutters.

**Requests** (`RequestsAreTakenUp`, `StopsReachEveryAgent`). `Requested`: a deployment
that is `PENDING` in the database has its run request in the stream, or in the hands of the
orchestrator, or an update for the database under way, also when the orchestrator crashed
with it and the event is delivered again. `StopsDealtWith`: the stop of a cancelled
deployment is still to be handled (`StopQueued`), or the deployment is over and each agent
*ends* it (`Ends`): it is gone, the handler is about to tell it, the last word on the
deployment in its queue is a STOP, or it neither serves it nor is told to. That the
handler knows whom to tell is `Reachable`: an agent that was assigned anything is in the
store as long as it lives (`KnownFirst`), since its key is deleted only when it is gone.

**Agreement** (`OnlyRepeatedStatesAreLost`, `PublishedIsTheState`, `DatabaseFollowsStream`,
`DatabaseIsTheStream`). `Told`: a machine is in the state last published, or a task still
holds a publication of its deployment, or it is in one of the two states that a trigger may
*re-enter* (`Loses`). A trigger that moves a machine publishes what it moved to, so the
publication it cancels is of no more use; one that re-enters a state publishes nothing and
what it cancels is lost. `EventsTell` says which states the event task may be publishing,
hence which the watch task can lose for it. `DatabaseFollows`: the last update of a
deployment waits for the app (`UpdateAwaited`) or the database has it (`UpdatesTaken`).
That is kept across a crash of the orchestrator, since what is published before it stays
in the stream and the replay publishes through the same stream.

**One pipeline at a time** (`OnePipelineStays`). `SharedAgents`: any two deployments that are
assigned or run have an agent in common that the orchestrator knows. An agent *has* a
deployment (`Has`) from the moment the handler is about to send it the assignment, over its
queue, what it waits for and what it carries out, to the last value of its key that names the
deployment and is not replaced in the store by another. A run request is assigned to all agents
known, so to one of those that the deployment before it has, whichever that was. It is lost
nowhere on the way: an agent puts a value for a deployment before it can turn to another
(`PutFirst`), so what it lays down is at least reported; and when the orchestrator takes a value
that names another deployment, the former is over or is cancelled at once (`EntryShared`).
`Staying` says that no agent leaves, hence that what it waits for is the end of its task. In
`Quiescent` only the deployment that an agent carries out, or its key names last, is left, and
one agent has only one (`RestHasOne`).

**The agent** (`Agent_proofs`). `AgentInv` is what makes `OneTaskAtATime` inductive: only
the current deployment's task runs (`RunsCurrent`) and it is replaced only by whoever holds
the lock and has seen the former one end (`LockHeld`); a launch and a cleanup belong to a
task in the phase for it (`LaunchedByTask`, `CleanedByTask`). A tracker that is listed is of
the current deployment or of one whose teardown failed before it cleared them
(`TrackedIsCurrent`); whoever has a tracker in hand, the monitor and a restart included, has
one that was made when the container first started (`Tracked`, `InHand`, `Started`); and a
teardown that has cleared the trackers finds none again (`ClearedStays`). `CleaningInv`
adds, where nothing is restarted, who answers for what is up (`UpIsAccounted`): a task that
runs, or one whose teardown failed, and the latter only until the next deployment launches
its own; and a cleanup that removes containers, of a deployment or of the shutdown, still
has each container that is up in its list. So the cleanup with which a deployment begins
removes what a failed teardown has left, and a shutdown that comes to its end leaves
nothing. For `RestartsAreBounded` each operator has an account (`MadeIsBounded`): the
containers made so far and those still *owed* (`Owed`: the first one, one per restart
command under way, one per mount update not yet applied, and what is left of `MAX_RESTARTS`
as long as somebody watches the tracker) are never more than `1 + MAX_RESTARTS`, the mount
updates and the restart commands together. A step that makes a container pays for it out of
what was owed.

**The operator.** `KernelInv` of `Services_proofs`: nobody is in the queue of the lock twice, and
until the group of tasks ends each kernel that runs belongs to whoever is first in that queue
(`HeldKernels`); the group's cancellation is what breaks that for a thread, which is why the
property ends there. `ErrorsShow` relates the counter of errors to the status. `LoopIsOver`
says of an async kernel that the group is gone before the dependencies are closed.

**Services.** `Services_proofs` takes each component by itself, through an INSTANCE whose
constants are parameters; only the components' own `...Assumption`s are used. What each
invariant adds to the property is where the reason lies:

* *Users* (`PeopleInv`): besides the rows, what a request that is between its check and its
  commit has in its hands (`RequestsMakeSense`): the name it is to insert is checked by the
  index at the commit, not by what the request has read, and a request that changes a user
  writes only the columns it was given. So `NamesApart` survives two requests that both found
  the name free, and `OwnersExist` a user who is deleted while a pipeline is created for them.
* *Jobs* (`HandlersCounted`): the handlers of a request that are under way or have submitted a
  job (`Busy`) are no more than one and one for each time its ack wait ended while a handler
  waited for the API. A handler that dies with an error of the API is not among them, and the
  redelivery after it takes its place; while the job is submitted progress is reported, so
  the request is not delivered again.
* *Sockets* (`SocketsInv`): at every await of the set-up, the watcher and the handling of an
  update, an address of an upstream has a connection just when the address map has it, and
  `connected_to` has an entry of an upstream just when the map has an address of it. How many
  there are does not matter, which is why the set-up may connect the same address again: a
  disconnect closes all connections of an address and takes one entry, and reconnecting adds one
  where none was left. Updates and the last message are of ports that are watched.
* *Catalogue* (`Fetched`, `Fresh`): a refresh that is being put together has for each image
  that is not left to fetch, and was not skipped, at least the version that the registry had
  when it was asked; versions only grow there, and what other requests store in the cache of
  the worker meanwhile is not what it answers.
* *Parameters* (`ParamsInv`): only the last update is kept in the stream, so a replica, whose
  value is never later than the last update, goes forward whenever it handles one.
* *Keys* (`KeysInv`): requests leave in order over one connection, so the puts on the wire have
  the order of the values they carry and none is older than what is in the bucket
  (`WireInOrder`); `stop` clears `running` before it sends its delete, and nobody puts
  after that, so what follows that delete on the wire are deletes.

**Revisions.** `Revisions_proofs`. Who has locked the row of a pipeline holds its next number
until the commit (`RowsAreHeld`), and the copy that a duplicate prepares is in nobody else's
hands (`CopiesApart`). The revisions of a pipeline are then `start .. last` at all times, with
`start` 0, or 1 in a copy that was saved without any revision and added to later. For pages
the rank of a revision is the distance to the last: what is
added in front only moves it to later pages, and a page that is not full is the last
one. `CurrentAgrees` needs that nothing is deleted: a duplicate whose source is deleted between
its two reads has no revision, thus none that is its current one (`CurrentExists` in
[further divergences](#further-divergences)).

**The data plane.** `DataPlane_proofs` takes each component by itself too.

* *Head node client* (`ClientInv`): the head node that a process knows is what its client will
  know once it has drained the queue; `HeadAfter` is split where the queue is
  (`AfterSplit`). A new process begins with no head node, so the property is about what it
  has told. `ClientTakesPublished` needs clusters that do not change: then all that is
  under way, from the publisher to the process and from the process to the client, is of the
  publisher that the client follows (`Followed`). The client ends its process and empties its
  queue before it turns to another, which is why nothing of the former one arrives late.
* *Beam* (`BeamInv`): in each replica (`ReplicaInv`) the table that is kept for a scan is of the
  shape of the first batch it took of the scan, of the method it had by then and of the vacuum
  scan it has mounted, and what was logged for the scan used that table. `AsDeployed`: as long as
  no update of the parameter came, all replicas have the method of the deployment, also those that
  were restarted, so two of them agree about a scan; an update in between splits it (see
  [further divergences](#further-divergences)). That the drift is looked up in proportion needs
  *square vacuum scans*, since the code scales rows by the columns of the grid, that every event
  that is kept has a pixel needs *square frames*, and that the batches of a scan have *one
  shape* is needed since the table is made for the first. None of them bears on
  `OneMethodPerScan`.
* *Readers* (`ReaderInv`): an emitter has sent exactly the batches of its pass up to its next,
  so each batch has as many before it as its index says. `NumbersInv` adds, while no scan
  was begun anew after an error nor another selected, that the number of a pass is past as
  soon as its emitter is gone.
* *Camera* (`CameraInv`): the part of a frame that a module has made is in one place (`Located`):
  the port, the socket, the inbox, the cache, a frame that was assembled, or lost. An entry of
  the cache is never complete and a frame is assembled once, so what is complete went out.
* *Emitter* (`GrabInv`): what was sent is a chain (`SentIn`): each batch begins where the one
  before it ended, in the same message or, if that was its last, at the first position of the next
  one (`FollowsIn`), and one that is of a dataset holds what fits the limit (`FitsIn`). The emitter
  that is active is of the message taken last and will go on where the batch sent last ended
  (`ActiveFollows`). Two loops of the code cut a
  dataset, one that counts the batches and one that makes them: both begin a batch at the same
  positions (`StartsAgree`), so the batches begun so far are the index of the one under way
  (`CutsOn`), and the last has the number announced if it has data in it.
* *Reduction* (`ReduceInv`): the parts of a scan that cover a position are as many as count for
  it in the complete results and in what is kept (`PartsConserved`). If the parts divide the
  scans and none came again, a scan of which a part is still to come was not sent in full and
  has exactly what came (`Collecting`); any other was sent in full once, and nothing of it is
  kept (`Collected`).

**Pipelines and their assignment** (`DataPlane_proofs`).

* *Upstream*: `from_upstream_subgraph` walks back step by step; `UpstreamLeast` shows that as
  many steps as there are sources suffice, so the result is the least set that has the node and
  is closed under going back. (The set of a walk is an ascending chain; once two of its
  members are equal it stays. The recursive function exists by the least number for
  which none does.) All that is said of cycles follows from that, without sequences
  of edges.
* *Expansion* (`Expanded`): each port and operator is expanded to the nodes of its instances
  (`GraphIs`), and an edge that was drawn becomes one edge between each pair of instances
  (`LinkIsOnly`), whose ends share its port's peers only with replicas (`PeersOfOne`).
  Folding inverts that (`FoldedAsDrawn`), since there is always at least one instance and
  its number is in no port's id. The expanded graph and the drawing less the edges that an
  unreplicated operator has to itself have a cycle alike (`CyclesAreLoops`): a
  closed set of operators is that of all their instances, and back. `_build_operator_graph`
  omits self-loops of nodes, thus of what is not replicated; replicas of one operator that
  feed one another are a loop that the drawing shows too.
* *Assignment* (`AssignInv`): each instance is in `remaining`, in `rejected` or assigned to
  one agent (`Whereabouts`), the assigned ones where their tags are and the rejected ones
  where none match (`PlacedByTags`); the networks of an instance are decided once those of all
  before it are (`NetworksDecided`), so what was decided is not revised. `Balanced` is
  inductive with it: when all agents are alike every one of them is eligible, so the one that
  is given an instance had no more than any other.

**The flow of messages** (`Dataflow_proofs`). The messages that a port has been given are those its
kernel was handed and at most one that waits, in the receive under way or in the queue of the
messenger (`Count`, `Value`), so each step adds one message to one port, takes one of a
connection or puts one on it. A round of receiving is over for all inputs at once, so the inputs
of an operator are given equally many but for the round under way (`Together`). Where nothing
is replicated, the number of messages that a port was given and that wait on its connection is
the number of results its upstream has begun, less the one it has yet to send, so the next
message of every port is known from that number (`Ordered`). With replicas the order is lost but
not the identity: the ports of replicas of one operator are of one *stage*, and in a stage a
message is on one connection or was given to one port, once, and only after an upstream has sent
it (`Single`). An operator that sends must have one input: a join hands its kernel one message
per input and each makes a result, so with two inputs the same number would go out twice.

**From the components to the runs.** `MCServices` runs one service at a time with small sets for
its constants, and several with more than one choice of them; `MCDataPlane` runs the parts of
the data plane so. For each instance `MCServices_proofs` or `MCDataPlane_proofs` shows by
expanding both that it is the one proved about with these constants (the lemmas `...Same`;
for the agent, for revisions and for the flow of messages the run instantiates `Agent_proofs`,
`Revisions_proofs` and `Dataflow_proofs` themselves, once per choice of constants, and there is
nothing to show);
the constants meet the assumptions by `ConstantsAssumption`, the frames, scans and vacuum
scans of the run what `BeamIsCompensated` needs (`DriftIsMeasured`), its parts what `PartsAreReduced`
needs (`PartitionDivides`), and the two pipelines what
`FlowInOrder` and `FlowOnlyOnce` need (`DiamondFits`, `ReplicasFit`). The invariant of a component is
claimed only while `scenario` is that component, and no step changes `scenario`.

**Only model-checked.** Liveness, which is out of the prover's reach as ENABLED is:
`AssignmentsResolve`, `StopsTakeEffect` and the properties of `progress`. `ScansAccumulate`, which
sums over sequences of batches of any length and would be an induction over data. The joined
`TypeOK` of `services` and `data_plane`; most of its parts are proved with the components.

## What the runs found

* `cancel_loses_update`: `machine.py:50` calls the cancel of a cancelled deployment
  idempotent. It has no publication of its own but cancels the one of the first cancel
  when that is still running, in the other task. Machine `CANCELLED`, stream and
  database stay at the state before, for good.
* `crash_revives`: after a crash with a run request in hand, the replay publishes
  `FAILED_TO_START`, a final state, and the redelivered request is then assigned.
* `restart_gives_up`: a restart request that is refused (no such operator, nobody
  runs it) is a `PipelineRunException`; the middleware marks the deployment
  `FAILED_TO_START` while agents carry it out.

The traces of the three runs are short and show each step.

### Further divergences

Met while the components were modelled. Each names the definition in its module that says what
the quoted text promises; no run checks these definitions, since the code does not keep the
promise: TLC violates each on instances as small as those of the runs.

* `Agent.NoStrays` with restarts: agent.py:237 says `# Clear trackers first to avoid
  restarts`. A restart that the monitor or a restart command has begun is not avoided:
  restart_operator (agent.py:895-909) holds its tracker, finds _current_deployment still set
  during the teardown (or set to the next deployment), creates and starts the container
  after the cleanup has listed the running ones (agent.py:242), and only then fails with a
  KeyError. The container of the ended deployment runs on beside the next one.
* `Agent.MonitorLives`: agent.py:888 says `# Remove the tracker if the container is not
  found`. The `del` in that except clause raises KeyError when a cleanup has cleared
  container_trackers while the monitor walks its copy of them (agent.py:861): the exception
  is outside of the try, monitor_containers ends, and nothing starts it again, so containers
  of later deployments are not restarted.
* `Agent.MountsApplied`: agent.py:815 says `# Mark for restart` of a mount update.
  tracker.unmark() (agent.py:864) comes after the awaits of restart_operator: an update
  taken after the new container was created with the old mounts has its mark removed, is
  acknowledged as applied, and never is.
* `HeadNodeClient.SocketOfTheHead`: client.py:804 says get_data_socket `Returns a connected
  socket to the current head node's data port.` update_pub_address (client.py:763-800)
  resets neither current_head_node_id nor _latest_state, and the new process starts with
  last_head_node_id = None (client.py:630): when the cluster of the new publisher has no
  head node no NodeDisconnectedUpdate is sent, so get_data_socket reconnects to the head
  node of the publisher that was given up.
* `KeyValueLoop.StopDeletes`: kv.py:325 says `# Delete all keys added to the bucket by this
  instance`. When the loop has ended with an exception (a reconnect whose attempts all
  failed, kv.py:134-136), _stop awaits it (kv.py:311) and catches CancelledError only: the
  exception leaves _stop before the cleanup callbacks and before delete_keys, and the key
  stays until it expires.
* `KeyValueLoop.GoneAfterShutdown`: kv.py:138 says `# If we exited the loop because of
  shutdown event but we're still running, # we should delete keys and perform cleanup`. The
  loop leaves _running set, so an update_now that comes later puts the key again.
  OperatorMixin.shutdown (operator.py:536-538) is such a call: it runs after the task group,
  when the loop has seen the event, and nothing deletes the status of the operator after it.
* `Operator.OneKernel`: operator.py:724 says `Run kernel under lock, optionally collecting
  timing.` At shutdown the group cancels the main loop (operator.py:317), whose await of
  run_in_executor ends at once and leaves the lock, while the thread goes on; the task of a
  trigger request that has checked the event before and waits for the lock then starts a
  second kernel beside it.
* `Operator.RecoveryShows`: operator.py:642 says `# if we were previously in error state and
  successfully processed a message we need to publish that we are running again`. The
  condition asks for a result that is a message: an operator whose kernel returns None, as
  every sink does, keeps the error message for ever, and later errors of it are not
  reported.
* `Messenger.Follows` with early moves: messenger.py:288 says `Watch for changes in upstream
  port addresses and update input sockets accordingly.` The first value that a watcher
  delivers is only remembered (messenger.py:318-321) and not compared with the address the
  socket was connected to in setup_inputs: when the upstream operator restarts in between,
  which the setup of the other inputs may make seconds long, the input stays connected to
  the old address.
* `Assigner.CrossesOnlyWhenNecessary`: assign.py:33 says `Prefers agents on the same network
  as upstream assignments.` and test_assignment.py:297 `Test that assigner crosses network
  boundary when necessary (e.g., due to tags).` The networks of all upstream operators are
  put together (assign.py:159-162) and an agent that has any one of them is eligible: an
  operator with two upstream operators on different networks may be put where it reaches one
  of them only, although an agent on both networks has its tags and no more load.
* `Assigner.RefusesCutNetworks`: assign.py:35 says `Raises errors if operators cannot be
  assigned due to cycles, missing agents, or network constraints.` With no agent on an
  upstream network all agents with the tags are eligible again (assign.py:175), and
  NetworkPreferenceError needs a reason with the word network in it, which none of the
  reasons has (assign.py:78-93).
* `FrameEmitter.PredictedMatchesActual`: test_frame_emitter.py:92 says `# Predicted count
  should match actual`. _calculate_batch_and_frame_totals counts the last batch only `if it
  has any data` (emitter.py:121-123) but _batch_generator yields it if it has headers
  (emitter.py:166-168): a dataset that ends in positions without events after a full batch,
  or has no events at all, is sent in one batch more than total_batches says.
* `FrameAccumulators.ReconstructsWhole` with an empty last batch:
  quantem-direct-ptycho/run.py:44 says `Check if all expected frames have been added.` It
  compares the batches received with the number in their headers, and the emitter leaves a
  last batch without data out of that number (emitter.py:122): when it overtakes another
  batch the reconstruction is made without that one, and again when it comes.
* `FrameAccumulators.SentAtFrequency`: diffraction-pattern-accumulator/operator.json:28 says
  of update_frequency `The number of frames to accumulate before sending out a frame.` A
  pattern is sent only when the number of frames is a multiple of it after a whole batch
  (run.py:81-83): with batches of several frames the multiples may be stepped over, for a
  whole scan.
* `FrameAccumulators.SentAtFrequency`: virtual-bfdf/operator.json:28 says of
  calculation_frequency `Number of frames to accumulate before recalculating the center and
  emitting a BF image.` The kernel counts messages, each of which is a batch of frames
  (run.py:76-79).
* `COMReduce.AveragesValues`: run.py:70 says finalize will `Return averaged COM array with
  NaNs filled.` and run.py:60 `Increment counts for averaging`. The count of a position
  grows with each header (run.py:61) but its sum only when the part has a value there
  (run.py:49-58): when the frames of a position come in several parts, one of them without
  electrons, the sum of the others is divided by too much.
* `PipelineRevisions.CurrentExists`: The docstring, pipelines.py:358, says `Duplicate a
  pipeline with all its revisions.` The pipeline and its revisions are read by two
  statements of a transaction at read committed: if another request deletes the pipeline
  between them (pipelines.py:361, 374), the copy is saved with the current_revision_id of
  the source and without any revision, so that it cannot be deployed.
* `PipelineRevisions.PositionsCarried`: The comment, pipelines.py:164, says `Preserve
  operator positions from last revision if possible`. Only the pipeline is locked
  (pipelines.py:151), not its revisions: positions that another request saves between the
  read of the last revision and the commit are not in the new one.
* `Launcher.OneJobEach`, which allows one job more for each such time (`slow`): The comment, launcher.py:96, says `Before we get
  into job submission, we want to let the server know that we are working on it`. Progress
  is reported once before and then each second during the submission (launcher.py:98, 155),
  but not while the API is asked for the machine and for the file (launcher.py:123, 134):
  when that takes longer than the ack wait, the request is delivered again and both tasks
  submit a job.
* `ScanReaders.NumbersNameScans`: The accumulators' docstring,
  distiller_streaming/accumulator.py:17, says `Accumulates sparse frames for a single scan,
  tracking which frames have been added.` They tell scans apart by scan number, but the
  reader sets it to 1 for each newly selected scan: the frames of the second are added to
  the accumulator of the first.
* `ScanReaders.TriggersEmit`: operator.json:62 says of the trigger: `Manually read and emit
  the next batch of counted data without waiting.` After the last batch of a pass the
  trigger only finds the emitter exhausted and emits nothing; the batch comes with the next
  one.
* `ScanReaders.LoadsSelected`: operator.json:53 says `Cache the last loaded file to avoid
  re-reading between triggers.` What is kept is named by the scan id alone, without the
  suffix: when the suffix changes, the next pass sends the file that was loaded last and not
  the selected one.
* `ScanReaders.ReplaySends`: operator.json:5 says `Data replayer for NCEM data. Choose a raw
  data directory to mount, and replay it through the pipeline`. FrameHeader
  (distiller_streaming/models.py:20) must have frame_shape and data_size_bytes, which the
  replayer does not give: each call raises a TypeError, which `except ValidationError` does
  not catch.
* `BeamCompensation.OneMethodPerScan` without its condition on replicas: run.py:198 says
  `# Cache the shifts for this scan number`, which is what keeps a scan to the method it began
  with. But operator.json:41-43 lets the expansion make replicas, each with its own cache and
  parameter, and each takes the method it has when its own first batch of a scan comes
  (run.py:185-203): an update in between splits the scan over two methods.
* `BeamCompensation.CompensatedByDrift` with frames that are not square: operator.json:5 says
  `Compensates for beam movement inside of a frame using vacuum background`. Events are kept
  with rows below the number of rows and columns below that of columns (run.py:147-152), but
  are put together as (columns, rows) in the shape (run.py:157): an event in a column beyond
  the number of rows, or the other way round, raises a ValueError and the batch is not sent.
* `BeamCompensation.CompensatedByDrift` with scans numbered again: operator.json:5 says
  `Compensates for beam movement inside of a frame using vacuum background`. Shifts are kept
  under the scan number and never dropped, but the reader of files numbers the passes of
  every newly selected scan from 1 (distiller-counted-data-reader/run.py:52): the next scan
  is moved by the shifts of the one before, or raises an IndexError when it is larger.
* `BeamCompensation.CompensatedByDrift` with a wide vacuum scan: run.py:68 says `Interpolate
  to fit the vacuum scan_shape`. The rows of the scan are scaled by shape[2] of the offsets,
  which is their number of columns (YY, the row grid of run.py:71, goes to shape[1]), and
  its columns by shape[1]: for a vacuum scan that is not square each position takes the
  drift of another.
* `Accounts.SuperusersStay`: The answer, users.py:124, and its test,
  tests/api/routes/test_users.py:380, say `Super users are not allowed to delete
  themselves`. The check reads the row that the request's session loaded when it
  authenticated (deps.py:45): an update that makes the user a superuser (crud.py:28) may
  commit before the deletion (users.py:129), and a superuser has deleted itself.
* `Accounts.ExternalsEnter`: The docstring, login.py:57, says `Login with an external token
  (e.g., distiller)`. The account is looked for (login.py:62) and then inserted
  (login.py:77): of two first logins of one user at once, in two of the app's workers, the
  second meets the unique index and is answered `Could not create user in second server`
  (login.py:80), although the account exists.
* `OperatorCatalogue.RefreshStays`: The docstring, operators.py:21, says `Use refresh=true
  to invalidate cache and fetch fresh data.` The catalogue is assigned after the fetch,
  whatever has been assigned meanwhile: an older fetch that ends later puts the older
  catalogue back, and the next request is answered with it although a refresh has shown a
  newer one.


## Abstractions and limits

* **Pipelines and operators** are not in the deployment system: an assignment reaches all
  agents in the store or raises. `HandleRunRaises` may happen at any run request;
  `HandleRestart` picks any agents that report the deployment, since the store of
  operators is abstracted. `HandleStopRaises` sends its stops to any subset of the agents:
  the task group is cancelled at any point. These allow more than the code does.
* **Agent in the deployment system.** The steps of `AgentReports` lie between two puts;
  containers, the monitor and operator restarts have no part in it (they are in `Agent`).
  `Collapses` stands for any exception in the task group of a running deployment. A teardown
  that fails half-way (agent.py:498-506), after which the agent's key keeps its last value,
  is in `Agent` only: here each comes to its end. The one-second limit on puts during
  shutdown is not modelled, nor is `INITIALIZING`, which is never put.
* **Time** is not modelled: a timeout may happen or not. The 30-second life of a key is
  `Expires`, after death only: a living agent puts more often.
* **First start.** `Init` is the orchestrator after it has started on an empty stream.
* **External parts**, modelled from their use: JetStream delivery, key-value watches
  and expiry, and the `transitions` library (refused triggers raise, accepted ones cancel
  the callbacks running for the model).
* **Database.** A request is one transaction, followed by its publish. The table is one
  state per deployment; authentication, listing and pagination change nothing.
* **Components by themselves.** Payloads are model values or small records: a batch is
  its scan and the frames per position, a dataset its frames per position and sizes, a
  sum the set of parts it is made of. Interpolation, fits and images are not
  computed. Uuids are known by what they are made from.
* **Not modelled**, because they keep no state that others rely on: the *metrics* exporter
  (reads keys, sets gauges; its pipelines' type is a placeholder import), the
  *authentication callout* (one answer per request), the *frontend* (views and generated
  client code; what it sends is the input of the models), the *command line* (API calls,
  files of new operators), *other operators* (one message at a time), passwords and
  tokens. The *RDMA proxy* is a prototype that nothing else uses.
