----------------------------- MODULE MCDataPlane -----------------------------
(* What runs inside the operators and decides where they run, one at a     *)
(* time: how a pipeline is expanded and assigned, and the operators that   *)
(* read, receive, cut, collect and correct frames.  They share no variable:*)
(* scenario says which one runs, the variables of the others are None.     *)
EXTENDS Integers, Sequences, FiniteSets, SequencesExt, TLC
CONSTANTS None, Shared

VARIABLES
  scenario,  \* the component that runs
  \* HeadNodeClient
  cluster, subscriber, process, queue, client, head, connected, budget,
  \* PipelineExpansion and Assigner
  canonical, runtime, loaded, back, agents, required, phase, remaining,
  assignments, networks, rejected,
  \* FrameEmitter
  emitterSocket, emitterInbox, emitterParameters, emitterCache, active,
  emitterSent, running, sources, emitterChanges, emitterTaken,
  \* FrameAccumulators
  framesPending, order, accumulators, emitted, framesRepeats, corrupt,
  framesLog,
  \* COMReduce
  reducePending, store, reduceSent, reduceRepeats, wrong, reduceLog,
  \* CameraFrames
  port, cameraSocket, cameraInbox, cameraCache, assembled, lost,
  \* ScanReaders
  readerParameters, reader, readerSent, passes, triggers, readerChanges,
  errors, replay,
  \* BeamCompensation
  given, method, offsets, beamCache, shifts, beamLog, beamTaken,
  beamChanges, restarts,
  \* Dataflow
  flowMade, channel, flowTaken, recvQueue, kernel, outbox, handed

headVars ==
  <<cluster, subscriber, process, queue, client, head, connected, budget>>
pipelineVars ==
  <<canonical, runtime, loaded, back, agents, required, phase, remaining,
    assignments, networks, rejected>>
emitterVars ==
  <<emitterSocket, emitterInbox, emitterParameters, emitterCache, active,
    emitterSent, running, sources, emitterChanges, emitterTaken>>
framesVars ==
  <<framesPending, order, accumulators, emitted, framesRepeats, corrupt,
    framesLog>>
reduceVars ==
  <<reducePending, store, reduceSent, reduceRepeats, wrong, reduceLog>>
cameraVars == <<port, cameraSocket, cameraInbox, cameraCache, assembled, lost>>
readerVars ==
  <<readerParameters, reader, readerSent, passes, triggers, readerChanges,
    errors, replay>>
beamVars ==
  <<given, method, offsets, beamCache, shifts, beamLog, beamTaken,
    beamChanges, restarts>>
flowVars == <<flowMade, channel, flowTaken, recvQueue, kernel, outbox, handed>>
vars ==
  <<scenario, headVars, pipelineVars, emitterVars, framesVars, reduceVars,
    cameraVars, readerVars, beamVars, flowVars>>

-----------------------------------------------------------------------------
HeadClient == INSTANCE HeadNodeClient WITH
  Nodes <- {"n1"}, Addresses <- {"p1", "p2"}, Unusable <- {}, Limit <- 2,
  MaxChanges <- 2, MaxSwitches <- 1, MaxBindErrors <- 0

(* A source that can also be fed, an operator between, and a sink with two *)
(* inputs.                                                                 *)
ThreeOwners ==
  "xo" :> "x" @@ "xi" :> "x" @@ "yi" :> "y" @@ "yo" :> "y" @@ "z1" :> "z" @@ "z2" :> "z"

Sequential == [parallel |-> FALSE, parallelism |-> 0]
Parallel(n) == [parallel |-> TRUE, parallelism |-> n]

Chain == {<<"xo", "yi">>, <<"yo", "z1">>}
Fork == {<<"xo", "yi">>, <<"xo", "z1">>}
Join == {<<"xo", "z1">>, <<"yo", "z2">>}
Loop == {<<"xo", "yi">>, <<"yo", "xi">>}

Shapes(edgeSets, middles) ==
  {[config |-> "x" :> Sequential @@ "y" :> m @@ "z" :> Sequential, edges |-> s] :
     s \in edgeSets, m \in middles}

Expansion == INSTANCE PipelineExpansion WITH
  Operators <- {"x", "y", "z"}, InPorts <- {"xi", "yi", "z1", "z2"},
  OutPorts <- {"xo", "yo"}, Owner <- ThreeOwners,
  Configs <- {Sequential, Parallel(0), Parallel(3)}, DefaultFactor <- 2

Assign == INSTANCE Assigner WITH
  Agents <- {"a1", "a2"}, Networks <- {"n1", "n2"}, Tags <- {"tag"},
  Drawings <- Shapes({Chain, Fork, Join, Loop}, {Sequential, Parallel(2)}),
  Operators <- {"x", "y", "z"}, InPorts <- {"xi", "yi", "z1", "z2"},
  OutPorts <- {"xo", "yo"}, Owner <- ThreeOwners,
  Configs <- {Sequential, Parallel(2), Parallel(5)}, DefaultFactor <- 2

Balance == INSTANCE Assigner WITH
  Agents <- {"a1", "a2", "a3"}, Networks <- {"n1"}, Tags <- {},
  Drawings <- Shapes({Chain, Join}, {Parallel(5)}),
  Operators <- {"x", "y", "z"}, InPorts <- {"xi", "yi", "z1", "z2"},
  OutPorts <- {"xo", "yo"}, Owner <- ThreeOwners,
  Configs <- {Sequential, Parallel(2), Parallel(5)}, DefaultFactor <- 2

(* Live batches, junk, and datasets of up to three positions that have no  *)
(* data, some, or as much as a batch may hold.                             *)
AllRaw ==
  {[kind |-> "live"], [kind |-> "junk"]}
    \cup {[kind |-> "dataset", sizes |-> s] : s \in BoundedSeq(0..3, 3) \ {<<>>}}

Emitter == INSTANCE FrameEmitter WITH
  Overrides <- {}, Raw <- AllRaw, Limit <- 3, MaxMessages <- 2,
  MaxChanges <- 0, socket <- emitterSocket, inbox <- emitterInbox,
  parameters <- emitterParameters, cache <- emitterCache,
  sent <- emitterSent, changes <- emitterChanges, taken <- emitterTaken

(* Scans of up to two batches over two positions, some of which have two   *)
(* frames, in one batch or in two; one scan has 99 of its 100 frames in    *)
(* one batch.                                                              *)
Batch(s, i, f, batches, total) ==
  [scan |-> s, index |-> i, frames |-> f, batches |-> batches, total |-> total]
Mixed ==
  {Batch("s1", 0, 1 :> 2 @@ 2 :> 1, 2, 4), Batch("s1", 1, 1 :> 1, 2, 4),
   Batch("s2", 0, 1 :> 99, 2, 100), Batch("s2", 1, 2 :> 1, 2, 100),
   Batch("s3", 0, 2 :> 2, 1, 2)}

(* The batches into which the emitter cuts a dataset, with its totals.     *)
Cut(s, sizes) ==
  LET first[i \in 1..Len(sizes)] ==
        IF i = 1 THEN 1 ELSE LET f == first[i - 1] IN IF Emitter!Flush(sizes, f, i) THEN i ELSE f
      start == {first[i] : i \in 1..Len(sizes)}
  IN {Batch(s, Cardinality({g \in start : g < f}),
            [p \in f..Emitter!BatchEnd(sizes, f) |-> 1],
            Emitter!TotalBatches(sizes), Len(sizes)) : f \in start}

Kept == INSTANCE FrameAccumulators WITH
  Consumer <- "bright_field", Batches <- Mixed, Positions <- {1, 2},
  MaxScans <- 2, Frequency <- 2, MaxRepeats <- 1, MaxCorrupt <- 1,
  pending <- framesPending, repeats <- framesRepeats, log <- framesLog

Whole == INSTANCE FrameAccumulators WITH
  Consumer <- "ptycho",
  Batches <- Cut("s1", <<2, 2, 1, 0>>) \cup Cut("s2", <<0, 3>>) \cup Cut("s3", <<3, 3, 3>>),
  Positions <- 1..4, MaxScans <- 1, Frequency <- 1, MaxRepeats <- 0,
  MaxCorrupt <- 0, pending <- framesPending, repeats <- framesRepeats,
  log <- framesLog

(* Three scans whose positions come in one to three parts, some of them    *)
(* without a center of mass.                                               *)
Part(s, i, v) == [scan |-> s, index |-> i, value |-> v]
Alone(p, v) == [q \in {p} |-> v]
Partition ==
  {Part("s1", 0, [p \in 1..2 |-> IF p = 1 THEN None ELSE {0}]),
   Part("s1", 1, Alone(3, {1})), Part("s1", 2, Alone(4, None)),
   Part("s2", 0, Alone(1, {0})), Part("s2", 1, Alone(2, None)), Part("s3", 0, Alone(1, {0}))}
Partitioned ==
  [s \in {"s1", "s2", "s3"} |-> IF s = "s1" THEN 1..4 ELSE IF s = "s2" THEN 1..2 ELSE {1}]

Reduce == INSTANCE COMReduce WITH
  Parts <- Partition, Shape <- Partitioned, EmitEvery <- 2, MaxRepeats <- 1,
  MaxWrong <- 1, pending <- reducePending, sent <- reduceSent,
  repeats <- reduceRepeats, log <- reduceLog

Camera == INSTANCE CameraFrames WITH
  Frames <- {[scan |-> s, number |-> 1] : s \in 1..2}, Modules <- 0..3,
  MaxLost <- 2, MaxInbox <- 1, socket <- cameraSocket, inbox <- cameraInbox,
  cache <- cameraCache

Readers == INSTANCE ScanReaders WITH
  Files <- {[scan_id |-> 1, suffix |-> "centered"]} \cup [scan_id : 1..2, suffix : {"data"}],
  ScanIds <- 1..2, FileSuffixes <- {"centered", "data"}, Batches <- 2,
  MaxTriggers <- 7, MaxChanges <- 2, MaxErrors <- 1, Positions <- 2,
  parameters <- readerParameters, sent <- readerSent,
  changes <- readerChanges

(* Two scans of different shapes, one larger and one smaller than the      *)
(* vacuum scan, with frames at the corners and events at the edges of a    *)
(* frame, where a shift drives them out.                                   *)
At(r, c, events) == [row |-> r, col |-> c, events |-> {[row |-> e[1], col |-> e[2]] : e \in events}]
Frames(s, r, c, frames) == [scan |-> s, shape |-> [rows |-> r, cols |-> c], frames |-> frames]
Numbered ==
  {Frames("s1", 2, 4, <<At(0, 0, {<<0, 0>>, <<1, 2>>}), At(0, 1, {<<1, 1>>})>>),
   Frames("s1", 2, 4, <<At(1, 3, {<<2, 2>>, <<0, 1>>})>>),
   Frames("s2", 3, 1, <<At(2, 0, {<<1, 0>>, <<2, 1>>})>>),
   Frames("s2", 3, 1, <<At(0, 0, {<<1, 1>>})>>)}

Vacuum(slope, drift) == [rows |-> 2, cols |-> 2, slope |-> slope, grid |-> drift]
Vacuums ==
  {Vacuum(<<1, -1>>, [y \in 0..1, x \in 0..1 |-> <<2 * y - 1, x - y>>]),
   Vacuum(<<0, 1>>, [y \in 0..1, x \in 0..1 |-> <<0, x>>])}

Beam == INSTANCE BeamCompensation WITH
  Replicas <- {"r1", "r2"}, Batches <- Numbered, Files <- Vacuums,
  FrameShape <- [rows |-> 3, cols |-> 3],
  Parameters <- {"interp", "plane", "other"}, MaxBatches <- 4,
  MaxChanges <- 1, MaxRestarts <- 1, cache <- beamCache, log <- beamLog,
  taken <- beamTaken, changes <- beamChanges

(* A source feeds two branches that meet in an operator with two inputs.   *)
DiamondOwner ==
  [so1 |-> "s", so2 |-> "s", ai |-> "a", ao |-> "a", bi |-> "b", bo |-> "b",
   j1 |-> "j", j2 |-> "j"]

Diamond == INSTANCE Dataflow_proofs WITH
  Operators <- {"s", "a", "b", "j"}, InPorts <- {"ai", "bi", "j1", "j2"},
  OutPorts <- {"so1", "so2", "ao", "bo"}, Owner <- DiamondOwner,
  Edges <- {<<"so1", "ai">>, <<"so2", "bi">>, <<"ao", "j1">>, <<"bo", "j2">>},
  HighWaterMark <- 2, Messages <- 4, made <- flowMade, taken <- flowTaken

(* One output port of the source feeds two replicas, as the expansion of a *)
(* parallel operator connects them, and both feed one input port.          *)
ReplicaOwner == [so1 |-> "s", ai |-> "a", ao |-> "a", bi |-> "b", bo |-> "b", j1 |-> "j"]

Replicas == INSTANCE Dataflow_proofs WITH
  Operators <- {"s", "a", "b", "j"}, InPorts <- {"ai", "bi", "j1"},
  OutPorts <- {"so1", "ao", "bo"}, Owner <- ReplicaOwner,
  Edges <- {<<"so1", "ai">>, <<"so1", "bi">>, <<"ao", "j1">>, <<"bo", "j1">>},
  HighWaterMark <- 1, Messages <- 4, made <- flowMade, taken <- flowTaken

-----------------------------------------------------------------------------
ASSUME ConstantsAssumption ==
  /\ HeadClient!ClientAssumption /\ Expansion!ExpansionAssumption
  /\ Assign!AssignerAssumption /\ Balance!AssignerAssumption
  /\ Emitter!EmitterAssumption /\ Kept!AccumulatorAssumption /\ Whole!AccumulatorAssumption
  /\ Reduce!ReduceAssumption /\ Camera!CameraAssumption /\ Readers!ReadersAssumption
  /\ Beam!CompensationAssumption /\ Diamond!DataflowAssumption /\ Replicas!DataflowAssumption

Init ==
  /\ scenario \in {"head", "expansion", "assign", "balance", "emitter", "kept", "whole", "reduce",
                   "camera", "readers", "beam", "diamond", "replicas"}
  /\ CASE scenario = "head" -> HeadClient!Init
       [] OTHER ->
          /\ cluster = None /\ subscriber = None /\ process = None
          /\ queue = None /\ client = None /\ head = None
          /\ connected = None /\ budget = None
  /\ CASE scenario = "expansion" ->
            /\ Expansion!Init
            /\ agents = None /\ required = None /\ phase = None /\ remaining = None
            /\ assignments = None /\ networks = None /\ rejected = None
       [] scenario = "assign" -> Assign!AssignInit
       [] scenario = "balance" -> Balance!AssignInit
       [] OTHER ->
          /\ canonical = None /\ runtime = None /\ loaded = None
          /\ back = None /\ agents = None /\ required = None /\ phase = None
          /\ remaining = None /\ assignments = None /\ networks = None
          /\ rejected = None
  /\ CASE scenario = "emitter" -> Emitter!Init
       [] OTHER ->
          /\ emitterSocket = None /\ emitterInbox = None
          /\ emitterParameters = None /\ emitterCache = None
          /\ active = None /\ emitterSent = None /\ running = None
          /\ sources = None /\ emitterChanges = None /\ emitterTaken = None
  /\ CASE scenario = "kept" -> Kept!Init
       [] scenario = "whole" -> Whole!Init
       [] OTHER ->
          /\ framesPending = None /\ order = None /\ accumulators = None
          /\ emitted = None /\ framesRepeats = None /\ corrupt = None
          /\ framesLog = None
  /\ CASE scenario = "reduce" -> Reduce!Init
       [] OTHER ->
          /\ reducePending = None /\ store = None /\ reduceSent = None
          /\ reduceRepeats = None /\ wrong = None /\ reduceLog = None
  /\ CASE scenario = "camera" -> Camera!Init
       [] OTHER ->
          /\ port = None /\ cameraSocket = None /\ cameraInbox = None
          /\ cameraCache = None /\ assembled = None /\ lost = None
  /\ CASE scenario = "readers" -> Readers!Init
       [] OTHER ->
          /\ readerParameters = None /\ reader = None /\ readerSent = None
          /\ passes = None /\ triggers = None /\ readerChanges = None
          /\ errors = None /\ replay = None
  /\ CASE scenario = "beam" -> Beam!Init
       [] OTHER ->
          /\ given = None /\ method = None /\ offsets = None /\ beamCache = None
          /\ shifts = None /\ beamLog = None /\ beamTaken = None
          /\ beamChanges = None /\ restarts = None
  /\ CASE scenario = "diamond" -> Diamond!Init
       [] scenario = "replicas" -> Replicas!Init
       [] OTHER ->
          /\ flowMade = None /\ channel = None /\ flowTaken = None
          /\ recvQueue = None /\ kernel = None /\ outbox = None
          /\ handed = None

(* A step of one component: all the others rest.                           *)
Only(component) ==
  /\ UNCHANGED scenario
  /\ component # "head" => UNCHANGED headVars
  /\ component # "pipeline" => UNCHANGED pipelineVars
  /\ component # "emitter" => UNCHANGED emitterVars
  /\ component # "frames" => UNCHANGED framesVars
  /\ component # "reduce" => UNCHANGED reduceVars
  /\ component # "camera" => UNCHANGED cameraVars
  /\ component # "reader" => UNCHANGED readerVars
  /\ component # "beam" => UNCHANGED beamVars
  /\ component # "flow" => UNCHANGED flowVars

Next ==
  \/ scenario = "head" /\ HeadClient!Next /\ Only("head")
  \/ /\ scenario = "expansion" /\ Expansion!Next /\ Only("pipeline")
     /\ UNCHANGED <<agents, required, phase, remaining, assignments, networks, rejected>>
  \/ scenario = "assign" /\ Assign!AssignNext /\ Only("pipeline")
  \/ scenario = "balance" /\ Balance!AssignNext /\ Only("pipeline")
  \/ scenario = "emitter" /\ Emitter!Next /\ Only("emitter")
  \/ scenario = "kept" /\ Kept!Next /\ Only("frames")
  \/ scenario = "whole" /\ Whole!Next /\ Only("frames")
  \/ scenario = "reduce" /\ Reduce!Next /\ Only("reduce")
  \/ scenario = "camera" /\ Camera!Next /\ Only("camera")
  \/ scenario = "readers" /\ Readers!Next /\ Only("reader")
  \/ scenario = "beam" /\ Beam!Next /\ Only("beam")
  \/ scenario = "diamond" /\ Diamond!Next /\ Only("flow")
  \/ scenario = "replicas" /\ Replicas!Next /\ Only("flow")

Spec == Init /\ [][Next]_vars

-----------------------------------------------------------------------------
(* Each component keeps its types while it runs.                           *)
TypeOK ==
  /\ scenario = "head" => HeadClient!ClientTypeOK
  /\ scenario = "expansion" => Expansion!TypeOK
  /\ scenario = "assign" => Assign!AssignerTypeOK
  /\ scenario = "emitter" => Emitter!EmitterTypeOK
  /\ scenario = "kept" => Kept!AccumulatorTypeOK
  /\ scenario = "reduce" => Reduce!ReduceTypeOK
  /\ scenario = "camera" => Camera!CameraTypeOK
  /\ scenario = "readers" => Readers!ReadersTypeOK
  /\ scenario = "beam" => Beam!BeamTypeOK

(* What the client of the head node will know once it has taken all that   *)
(* is pushed is what its background process knows.                         *)
KnowsTheHead == scenario = "head" => HeadClient!KnowsTheHead

(* A pipeline that is expanded, published, loaded and folded again is the  *)
(* one that was drawn; each instance is reached once from each instance    *)
(* upstream, peers are replicas of one operator, and the expanded graph has*)
(* a cycle just when data can come round through several instances: when   *)
(* an operator without replicas feeds itself, nothing notices.             *)
ExpandedFaithfully ==
  scenario = "expansion" =>
    /\ Expansion!RoundTrip
    /\ Expansion!ServedOnce
    /\ Expansion!PeersAreReplicas
    /\ Expansion!SortableUnlessLoop

(* A deployment is assigned if and only if every operator finds an agent   *)
(* with its tags, each instance to one such agent; an instance stays on a  *)
(* network of those before it whenever an agent with its tags has one; and *)
(* among agents that are alike none is given two more than another.        *)
AssignedWell ==
  /\ scenario = "assign" => Assign!AssignedIfPossible /\ Assign!KeepsToNetworks
  /\ scenario = "balance" => Balance!Balanced

(* Batches are sent in order without a gap and nothing comes between those *)
(* of a dataset, although messages arrive meanwhile; they keep to the limit*)
(* unless one position alone is above it, and are as many as announced if  *)
(* the last one has data in it.  Each pass over a file sends it from its   *)
(* first batch on under one number; that is of no other pass as long as no *)
(* trigger failed and no other scan was selected, with which the numbers   *)
(* begin anew.                                                             *)
DatasetsStreamed ==
  /\ scenario = "emitter" =>
       /\ Emitter!Streamed
       /\ Emitter!LimitKept
       /\ Emitter!Announced
  /\ scenario = "readers" => Readers!PassesInOrder /\ Readers!NumbersNamePasses

(* An accumulator holds every frame that came since it was made, although  *)
(* some batches are damaged and refused half-way and older scans evicted.  *)
(* A scan that is there in full has been sent in full.  If no batch comes  *)
(* twice it is reconstructed once, of all its frames if the last batch has *)
(* data in it.                                                             *)
ScansAccumulate ==
  /\ scenario = "kept" =>
       /\ Kept!KeepsRecent
       /\ Kept!HoldsWhatCame
       /\ Kept!EndsInFull
  /\ scenario = "whole" => Whole!ReconstructsWhole /\ Whole!ReconstructsOnce

(* What is put together of parts has each part once: of a scan in a        *)
(* complete result or in what is kept for the next, of a frame from each   *)
(* module.  When nothing is on its way, all that is complete was sent and  *)
(* nothing is kept of it.                                                  *)
PartsCountOnce ==
  /\ scenario = "reduce" => Reduce!Conserved /\ Reduce!SentAndForgotten
  /\ scenario = "camera" => Camera!SentWhole /\ Camera!AllThatCame

(* The events of each frame, frames and vacuum scans being square, are     *)
(* moved by the drift at its position in its own scan, whichever scans come*)
(* in between.  A replica compensates all it takes of a scan by one method;*)
(* two that share it do as long as the user changes nothing.               *)
CompensatedByDrift ==
  scenario = "beam" => Beam!CompensatedByDrift /\ Beam!OneMethodPerScan

(* Messages arrive in order and once: without replicas every port is given *)
(* them in the order the source made them, no port of an operator with     *)
(* several inputs is more than one ahead of another, and with replicas no  *)
(* port is given a message twice, whichever replica takes it.              *)
DeliveredOnce ==
  /\ scenario = "diamond" =>
       /\ Diamond!TypeOK
       /\ Diamond!InOrder
       /\ Diamond!InStep
  /\ scenario = "replicas" => Replicas!TypeOK /\ Replicas!OnlyOnce

(* Settings are those of the moment: a batch is of the scan selected when  *)
(* it is triggered, and a replica begins a scan with the method it has when*)
(* it takes the first batch of it.                                         *)
TakesSettings ==
  [][/\ scenario = "readers" => Readers!SendsSelected
     /\ scenario = "beam" => Beam!BeginsAsChosen]_vars
=============================================================================
