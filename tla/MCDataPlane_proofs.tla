-------------------------- MODULE MCDataPlane_proofs --------------------------
(***************************************************************************)
(* Properties of what runs inside the operators that TLC checks in         *)
(* MCDataPlane, from what DataPlane_proofs proves of each part for all     *)
(* values of its constants.  A lemma "...Same" says that a part as it is   *)
(* instantiated there is the one proved about with these constants; it is  *)
(* shown by expanding both.                                                *)
(***************************************************************************)
EXTENDS MCDataPlane, FiniteSetTheorems, TLAPS

Proved == INSTANCE DataPlane_proofs WITH
  Nodes <- {"n1"}, Addresses <- {"p1", "p2"}, Unusable <- {}, QueueLimit <- 2,
  MaxClusterChanges <- 2, MaxSwitches <- 1, MaxBindErrors <- 0,
  BeamReplicas <- {"r1", "r2"}, NumberedBatches <- Numbered,
  FrameShape <- [rows |-> 3, cols |-> 3],
  MethodValues <- {"interp", "plane", "other"}, MaxBatches <- 4,
  MaxMethodChanges <- 1, MaxRestarts <- 1,
  ScanFiles <- {[scan_id |-> 1, suffix |-> "centered"]} \cup [scan_id : 1..2, suffix : {"data"}],
  ScanIds <- 1..2, FileSuffixes <- {"centered", "data"}, BatchesPerFile <- 2,
  MaxTriggers <- 7, MaxReaderChanges <- 2, MaxErrors <- 1, Positions <- 2,
  CameraFrames <- {[scan |-> s, number |-> 1] : s \in 1..2}, Modules <- 0..3,
  MaxLost <- 2, MaxInbox <- 1,
  Operators <- {"x", "y", "z"}, InPorts <- {"xi", "yi", "z1", "z2"},
  OutPorts <- {"xo", "yo"}, Owner <- ThreeOwners,
  Configs <- {Sequential, Parallel(0), Parallel(2), Parallel(3), Parallel(5)},
  DefaultFactor <- 2, Agents <- {"a1", "a2", "a3"}, Networks <- {"n1", "n2"},
  Tags <- {"tag"},
  Drawings <- Shapes({Chain, Fork, Join, Loop}, {Sequential, Parallel(2)})
                \cup Shapes({Chain, Join}, {Parallel(5)}),
  Overrides <- {}, Raw <- AllRaw, BatchLimit <- 3, MaxMessages <- 2,
  MaxSettings <- 0,
  Parts <- Partition, Shape <- Partitioned, EmitEvery <- 2,
  MaxPartRepeats <- 1, MaxWrong <- 1

------------------------------------------------------------------------------
(* What runs in MCDataPlane is what is proved about.                       *)
LEMMA HeadSame ==
  /\ HeadClient!Init <=> Proved!HeadClient!Init
  /\ HeadClient!Next <=> Proved!HeadClient!Next
  /\ HeadClient!ClientAssumption <=> Proved!HeadClient!ClientAssumption
  /\ HeadClient!KnowsTheHead <=> Proved!HeadClient!KnowsTheHead
<1>1. HeadClient!Init <=> Proved!HeadClient!Init
  BY Zenon DEF HeadClient!Init, HeadClient!Off, HeadClient!States,
         HeadClient!BoundedSeq, HeadClient!SeqOf, Proved!HeadClient!Init,
         Proved!HeadClient!Off, Proved!HeadClient!States,
         Proved!HeadClient!BoundedSeq, Proved!HeadClient!SeqOf
<1>2. HeadClient!Next <=> Proved!HeadClient!Next
  BY Zenon DEF HeadClient!Asks, HeadClient!Background, HeadClient!Beats,
         HeadClient!Calls, HeadClient!Changes, HeadClient!Closed,
         HeadClient!Closes, HeadClient!Drains, HeadClient!Ends,
         HeadClient!Free, HeadClient!GetsDataSocket, HeadClient!HeadAfter,
         HeadClient!HeadOf, HeadClient!Heartbeat, HeadClient!Listens,
         HeadClient!Message, HeadClient!Next, HeadClient!Off,
         HeadClient!Publisher, HeadClient!Publishes,
         HeadClient!PublishesState, HeadClient!PushesState,
         HeadClient!RebindFails, HeadClient!Rebinds, HeadClient!Receives,
         HeadClient!SeesStop, HeadClient!SetsUp, HeadClient!SetupFails,
         HeadClient!Shutdown, HeadClient!ShutsDown, HeadClient!Spend,
         HeadClient!States, HeadClient!Stopping, HeadClient!Switches,
         HeadClient!TellsHead, HeadClient!Terminates, HeadClient!Update,
         HeadClient!vars, HeadClient!Max, HeadClient!BoundedSeq,
         HeadClient!SeqOf, Proved!HeadClient!Asks,
         Proved!HeadClient!Background, Proved!HeadClient!Beats,
         Proved!HeadClient!Calls, Proved!HeadClient!Changes,
         Proved!HeadClient!Closed, Proved!HeadClient!Closes,
         Proved!HeadClient!Drains, Proved!HeadClient!Ends,
         Proved!HeadClient!Free, Proved!HeadClient!GetsDataSocket,
         Proved!HeadClient!HeadAfter, Proved!HeadClient!HeadOf,
         Proved!HeadClient!Heartbeat, Proved!HeadClient!Listens,
         Proved!HeadClient!Message, Proved!HeadClient!Next,
         Proved!HeadClient!Off, Proved!HeadClient!Publisher,
         Proved!HeadClient!Publishes, Proved!HeadClient!PublishesState,
         Proved!HeadClient!PushesState, Proved!HeadClient!RebindFails,
         Proved!HeadClient!Rebinds, Proved!HeadClient!Receives,
         Proved!HeadClient!SeesStop, Proved!HeadClient!SetsUp,
         Proved!HeadClient!SetupFails, Proved!HeadClient!Shutdown,
         Proved!HeadClient!ShutsDown, Proved!HeadClient!Spend,
         Proved!HeadClient!States, Proved!HeadClient!Stopping,
         Proved!HeadClient!Switches, Proved!HeadClient!TellsHead,
         Proved!HeadClient!Terminates, Proved!HeadClient!Update,
         Proved!HeadClient!vars, Proved!HeadClient!Max,
         Proved!HeadClient!BoundedSeq, Proved!HeadClient!SeqOf
<1>3. HeadClient!ClientAssumption <=> Proved!HeadClient!ClientAssumption
  BY DEF HeadClient!ClientAssumption, Proved!HeadClient!ClientAssumption
<1>4. HeadClient!KnowsTheHead <=> Proved!HeadClient!KnowsTheHead
  BY Zenon DEF HeadClient!HeadAfter, HeadClient!KnowsTheHead, HeadClient!Max,
         Proved!HeadClient!HeadAfter, Proved!HeadClient!KnowsTheHead,
         Proved!HeadClient!Max
<1>5. QED
  BY <1>1, <1>2, <1>3, <1>4

LEMMA BeamSame ==
  /\ Beam!Init <=> Proved!Beam!Init
  /\ Beam!Next <=> Proved!Beam!Next
  /\ Beam!CompensationAssumption <=> Proved!Beam!CompensationAssumption
  /\ Beam!CompensatedByDrift <=> Proved!Beam!CompensatedByDrift
  /\ Beam!OneMethodPerScan <=> Proved!Beam!OneMethodPerScan
  /\ Beam!BeginsAsChosen <=> Proved!Beam!BeginsAsChosen
<1>1. Beam!Init <=> Proved!Beam!Init
  BY Zenon DEF Beam!Init, Beam!Scans, Proved!Beam!Init, Proved!Beam!Scans
<1>2. Beam!Next <=> Proved!Beam!Next
  BY Zenon DEF Beam!ChangesMethod, Beam!Chosen, Beam!Compensated,
         Beam!Generated, Beam!InTable, Beam!Location, Beam!Methods,
         Beam!Moved, Beam!Next, Beam!Offset, Beam!Ravels, Beam!Remounts,
         Beam!Scans, Beam!ShiftAt, Beam!Subtract, Beam!Subtracted, Beam!Table, Beam!Min,
         Proved!Beam!ChangesMethod, Proved!Beam!Chosen,
         Proved!Beam!Compensated, Proved!Beam!Generated, Proved!Beam!InTable,
         Proved!Beam!Location, Proved!Beam!Methods, Proved!Beam!Moved,
         Proved!Beam!Next, Proved!Beam!Offset, Proved!Beam!Ravels,
         Proved!Beam!Remounts,
         Proved!Beam!Scans, Proved!Beam!ShiftAt, Proved!Beam!Subtract,
         Proved!Beam!Subtracted, Proved!Beam!Table, Proved!Beam!Min
<1>3. Beam!CompensationAssumption <=> Proved!Beam!CompensationAssumption
  BY DEF Beam!CompensationAssumption, Beam!Methods,
         Proved!Beam!CompensationAssumption, Proved!Beam!Methods
<1>4. Beam!CompensatedByDrift <=> Proved!Beam!CompensatedByDrift
  BY Zenon DEF Beam!CompensatedByDrift, Beam!Drift, Beam!Methods, Beam!Offset,
         Beam!Min, Proved!Beam!CompensatedByDrift, Proved!Beam!Drift,
         Proved!Beam!Methods, Proved!Beam!Offset, Proved!Beam!Min
<1>5. Beam!OneMethodPerScan <=> Proved!Beam!OneMethodPerScan
  BY DEF Beam!OneMethodPerScan, Proved!Beam!OneMethodPerScan
<1>6. Beam!BeginsAsChosen <=> Proved!Beam!BeginsAsChosen
  BY DEF Beam!BeginsAsChosen, Beam!Methods, Proved!Beam!BeginsAsChosen,
         Proved!Beam!Methods
<1>7. QED
  BY <1>1, <1>2, <1>3, <1>4, <1>5, <1>6

LEMMA ReadersSame ==
  /\ Readers!Init <=> Proved!Readers!Init
  /\ Readers!Next <=> Proved!Readers!Next
  /\ Readers!SendsSelected <=> Proved!Readers!SendsSelected
  /\ Readers!ReadersAssumption <=> Proved!Readers!ReadersAssumption
  /\ Readers!PassesInOrder <=> Proved!Readers!PassesInOrder
  /\ Readers!NumbersNamePasses <=> Proved!Readers!NumbersNamePasses
<1>1. Readers!Init <=> Proved!Readers!Init
  BY DEF Readers!Init, Readers!Parameters, Proved!Readers!Init,
         Proved!Readers!Parameters
<1>2. Readers!Next <=> Proved!Readers!Next
  BY DEF Readers!Changes, Readers!EmissionFails, Readers!Emits,
         Readers!Emitter, Readers!Exhausted, Readers!Fails, Readers!Kept,
         Readers!KeptFile, Readers!Next, Readers!Opened, Readers!Parameters,
         Readers!Replays, Readers!Selected, Readers!Triggered,
         Proved!Readers!Changes, Proved!Readers!EmissionFails,
         Proved!Readers!Emits, Proved!Readers!Emitter,
         Proved!Readers!Exhausted, Proved!Readers!Fails, Proved!Readers!Kept,
         Proved!Readers!KeptFile, Proved!Readers!Next, Proved!Readers!Opened,
         Proved!Readers!Parameters, Proved!Readers!Replays,
         Proved!Readers!Selected, Proved!Readers!Triggered
<1>3. Readers!SendsSelected <=> Proved!Readers!SendsSelected
  BY Zenon DEF Readers!SendsSelected, Readers!Last,
         Proved!Readers!SendsSelected, Proved!Readers!Last
<1>4. Readers!ReadersAssumption <=> Proved!Readers!ReadersAssumption
  BY DEF Readers!ReadersAssumption, Proved!Readers!ReadersAssumption
<1>5. Readers!PassesInOrder <=> Proved!Readers!PassesInOrder
  BY Zenon DEF Readers!PassesInOrder, Readers!Before, Readers!Cardinality,
         Proved!Readers!PassesInOrder, Proved!Readers!Before,
         Proved!Readers!Cardinality
<1>6. Readers!NumbersNamePasses <=> Proved!Readers!NumbersNamePasses
  BY Zenon DEF Readers!NumbersNamePasses, Readers!Range,
         Proved!Readers!NumbersNamePasses, Proved!Readers!Range
<1>7. QED
  BY <1>1, <1>2, <1>3, <1>4, <1>5, <1>6

LEMMA EmitterCuts ==
  /\ \A sizes, from, to : Emitter!Bytes(sizes, from, to) = Proved!Emitter!Bytes(sizes, from, to)
  /\ \A sizes, from : Emitter!BatchEnd(sizes, from) = Proved!Emitter!BatchEnd(sizes, from)
  /\ \A raw, id : Emitter!Emitter(raw, id) = Proved!Emitter!Emitter(raw, id)
<1>1. \A sizes, from, to : Emitter!Bytes(sizes, from, to) = Proved!Emitter!Bytes(sizes, from, to)
  BY Zenon DEF Emitter!Bytes, Proved!Emitter!Bytes
<1>2. \A sizes, from, j : Emitter!Flush(sizes, from, j) <=> Proved!Emitter!Flush(sizes, from, j)
  BY <1>1, Zenon DEF Emitter!Flush, Proved!Emitter!Flush
<1>3. \A sizes, from : Emitter!BatchEnd(sizes, from) = Proved!Emitter!BatchEnd(sizes, from)
  BY Zenon DEF Emitter!BatchEnd, Emitter!Flush, Emitter!Bytes, Emitter!Min,
         Proved!Emitter!BatchEnd, Proved!Emitter!Flush,
         Proved!Emitter!Bytes, Proved!Emitter!Min
<1>4. \A sizes : Emitter!TotalBatches(sizes) = Proved!Emitter!TotalBatches(sizes)
  BY Zenon DEF Emitter!TotalBatches, Emitter!Flush, Emitter!Bytes, Emitter!Cardinality,
         Emitter!IsFiniteSet, Proved!Emitter!TotalBatches, Proved!Emitter!Flush,
         Proved!Emitter!Bytes, Proved!Emitter!Cardinality, Proved!Emitter!IsFiniteSet
<1>5. \A raw, id : Emitter!Emitter(raw, id) = Proved!Emitter!Emitter(raw, id)
  BY <1>4, Zenon DEF Emitter!Emitter, Proved!Emitter!Emitter
<1>6. QED
  BY <1>1, <1>3, <1>5

LEMMA EmitterSame ==
  /\ Emitter!Init <=> Proved!Emitter!Init
  /\ Emitter!Next <=> Proved!Emitter!Next
  /\ Emitter!EmitterAssumption <=> Proved!Emitter!EmitterAssumption
  /\ Emitter!Streamed <=> Proved!Emitter!Streamed
  /\ Emitter!LimitKept <=> Proved!Emitter!LimitKept
  /\ Emitter!Announced <=> Proved!Emitter!Announced
<1>1. Emitter!Init <=> Proved!Emitter!Init
  BY Zenon DEF Emitter!Init, Emitter!Sources, Proved!Emitter!Init, Proved!Emitter!Sources
<1>2. Emitter!Next <=> Proved!Emitter!Next
  BY EmitterCuts, Zenon DEF Emitter!Advanced, Emitter!Arrives, Emitter!DecodesBatch,
         Emitter!Emits, Emitter!EmitsFrom, Emitter!Exhausted, Emitter!Idle,
         Emitter!InboxAfter, Emitter!LiveBatch, Emitter!Next,
         Emitter!NextBatch, Emitter!OpenSockets, Emitter!Receives,
         Emitter!Sets, Emitter!Shutdown, Emitter!Sources, Emitter!TakesNext,
         Emitter!Unpacks, Proved!Emitter!Advanced, Proved!Emitter!Arrives,
         Proved!Emitter!DecodesBatch, Proved!Emitter!Emits,
         Proved!Emitter!EmitsFrom, Proved!Emitter!Exhausted,
         Proved!Emitter!Idle, Proved!Emitter!InboxAfter,
         Proved!Emitter!LiveBatch, Proved!Emitter!Next,
         Proved!Emitter!NextBatch, Proved!Emitter!OpenSockets,
         Proved!Emitter!Receives, Proved!Emitter!Sets, Proved!Emitter!Shutdown,
         Proved!Emitter!Sources, Proved!Emitter!TakesNext,
         Proved!Emitter!Unpacks
<1>3. Emitter!EmitterAssumption <=> Proved!Emitter!EmitterAssumption
  BY Zenon DEF Emitter!EmitterAssumption, Emitter!Sources,
         Proved!Emitter!EmitterAssumption, Proved!Emitter!Sources
<1>4. Emitter!Streamed <=> Proved!Emitter!Streamed
  BY Zenon DEF Emitter!Streamed, Emitter!Ends, Emitter!Positions,
         Proved!Emitter!Streamed, Proved!Emitter!Ends, Proved!Emitter!Positions
<1>5. Emitter!LimitKept <=> Proved!Emitter!LimitKept
  BY EmitterCuts, Zenon DEF Emitter!LimitKept, Emitter!Range,
         Proved!Emitter!LimitKept, Proved!Emitter!Range
<1>6. Emitter!Announced <=> Proved!Emitter!Announced
  BY Zenon DEF Emitter!Announced, Emitter!Ends, Emitter!Positions, Emitter!Range,
         Proved!Emitter!Announced, Proved!Emitter!Ends,
         Proved!Emitter!Positions, Proved!Emitter!Range
<1>7. QED
  BY <1>1, <1>2, <1>3, <1>4, <1>5, <1>6

LEMMA ReduceSame ==
  /\ Reduce!Init <=> Proved!Reduce!Init
  /\ Reduce!Next <=> Proved!Reduce!Next
  /\ Reduce!ReduceAssumption <=> Proved!Reduce!ReduceAssumption
  /\ Reduce!Conserved <=> Proved!Reduce!Conserved
  /\ Reduce!SentAndForgotten <=> Proved!Reduce!SentAndForgotten
<1>1. Reduce!Init <=> Proved!Reduce!Init
  BY Zenon DEF Reduce!Init, Reduce!Scans, Proved!Reduce!Init, Proved!Reduce!Scans
<1>2. Reduce!Next <=> Proved!Reduce!Next
  BY Zenon DEF Reduce!Accumulated, Reduce!Added, Reduce!CacheOf, Reduce!Combined,
         Reduce!Fresh, Reduce!IsComplete, Reduce!Next, Reduce!Receives,
         Reduce!Reduces, Reduce!Refuses, Reduce!Repeats, Reduce!Scans,
         Reduce!ShouldEmit, Proved!Reduce!Accumulated, Proved!Reduce!Added,
         Proved!Reduce!CacheOf, Proved!Reduce!Combined, Proved!Reduce!Fresh,
         Proved!Reduce!IsComplete, Proved!Reduce!Next, Proved!Reduce!Receives,
         Proved!Reduce!Reduces, Proved!Reduce!Refuses, Proved!Reduce!Repeats,
         Proved!Reduce!Scans, Proved!Reduce!ShouldEmit
<1>3. Reduce!ReduceAssumption <=> Proved!Reduce!ReduceAssumption
  BY Zenon DEF Reduce!ReduceAssumption, Reduce!Caches, Reduce!Centers, Reduce!Scans,
         Proved!Reduce!ReduceAssumption, Proved!Reduce!Caches,
         Proved!Reduce!Centers, Proved!Reduce!Scans
<1>4. Reduce!Conserved <=> Proved!Reduce!Conserved
  BY Zenon DEF Reduce!Cardinality, Reduce!Complete, Reduce!Conserved, Reduce!Covers,
         Reduce!IsFiniteSet, Reduce!Scans, Proved!Reduce!Cardinality,
         Proved!Reduce!Complete, Proved!Reduce!Conserved, Proved!Reduce!Covers,
         Proved!Reduce!IsFiniteSet, Proved!Reduce!Scans
<1>5. Reduce!SentAndForgotten <=> Proved!Reduce!SentAndForgotten
  BY Zenon DEF Reduce!Complete, Reduce!Scans, Reduce!SentAndForgotten,
         Proved!Reduce!Complete, Proved!Reduce!Scans, Proved!Reduce!SentAndForgotten
<1>6. QED
  BY <1>1, <1>2, <1>3, <1>4, <1>5

LEMMA CameraSame ==
  /\ Camera!Init <=> Proved!Camera!Init
  /\ Camera!Next <=> Proved!Camera!Next
  /\ Camera!CameraAssumption <=> Proved!Camera!CameraAssumption
  /\ Camera!SentWhole <=> Proved!Camera!SentWhole
  /\ Camera!AllThatCame <=> Proved!Camera!AllThatCame
<1>1. Camera!Init <=> Proved!Camera!Init
  BY Zenon DEF Camera!Init, Proved!Camera!Init
<1>2. Camera!Next <=> Proved!Camera!Next
  BY Zenon DEF Camera!Added, Camera!Aggregates, Camera!Assembles, Camera!Cardinality,
         Camera!Forwards, Camera!IsComplete, Camera!IsFiniteSet, Camera!Keeps,
         Camera!Key, Camera!Next, Camera!Part, Camera!PartsOf,
         Proved!Camera!Added, Proved!Camera!Aggregates,
         Proved!Camera!Assembles, Proved!Camera!Cardinality,
         Proved!Camera!Forwards, Proved!Camera!IsComplete,
         Proved!Camera!IsFiniteSet, Proved!Camera!Keeps, Proved!Camera!Key,
         Proved!Camera!Next, Proved!Camera!Part, Proved!Camera!PartsOf
<1>3. Camera!CameraAssumption <=> Proved!Camera!CameraAssumption
  BY Zenon DEF Camera!CameraAssumption, Camera!IsFiniteSet,
         Proved!Camera!CameraAssumption, Proved!Camera!IsFiniteSet
<1>4. Camera!SentWhole <=> Proved!Camera!SentWhole
  BY Zenon DEF Camera!FrameOf, Camera!Part, Camera!Range, Camera!SentWhole,
         Proved!Camera!FrameOf, Proved!Camera!Part, Proved!Camera!Range,
         Proved!Camera!SentWhole
<1>5. Camera!AllThatCame <=> Proved!Camera!AllThatCame
  BY Zenon DEF Camera!AllThatCame, Camera!FrameOf, Camera!Part, Camera!Quiet,
         Camera!Range, Proved!Camera!AllThatCame, Proved!Camera!FrameOf,
         Proved!Camera!Part, Proved!Camera!Quiet, Proved!Camera!Range
<1>6. QED
  BY <1>1, <1>2, <1>3, <1>4, <1>5

LEMMA ExpansionExpands == \A c : Expansion!Expansion(c) = Proved!Assign!Expansion(c)
<1>1. \A c, p : Expansion!Fanout(c, p) = Proved!Assign!Fanout(c, p)
  BY Zenon DEF Expansion!Fanout, Proved!Assign!Fanout
<1>2. \A c, o : Expansion!Instances(c, o) = Proved!Assign!Instances(c, o)
  BY Zenon DEF Expansion!Instances, Expansion!Copies,
         Proved!Assign!Instances, Proved!Assign!Copies
<1>3. \A i, p, t : Expansion!PortNode(i, p, t) = Proved!Assign!PortNode(i, p, t)
  BY Zenon DEF Expansion!PortNode, Proved!Assign!PortNode
<1>4. \A c, p : Expansion!OutputNodes(c, p) = Proved!Assign!OutputNodes(c, p)
  BY <1>1, <1>2, <1>3 DEF Expansion!OutputNodes, Proved!Assign!OutputNodes
<1>5. \A c, p : Expansion!InputNodes(c, p) = Proved!Assign!InputNodes(c, p)
  BY Zenon DEF Expansion!InputNodes, Expansion!Instances,
         Expansion!Copies, Expansion!PortNode, Proved!Assign!InputNodes,
         Proved!Assign!Instances, Proved!Assign!Copies, Proved!Assign!PortNode
<1>6. \A c : Expansion!PortNodes(c) = Proved!Assign!PortNodes(c)
  BY <1>4, <1>5, Zenon DEF Expansion!PortNodes, Proved!Assign!PortNodes
<1>7. \A i, ports, kind :
        Expansion!Attached(i, ports, kind) = Proved!Assign!Attached(i, ports, kind)
  BY Zenon DEF Expansion!Attached, Expansion!OperatorOf,
         Proved!Assign!Attached, Proved!Assign!OperatorOf
<1>8. \A ports : Expansion!OwnerEdges(ports) = Proved!Assign!OwnerEdges(ports)
  BY Zenon DEF Expansion!OwnerEdges, Expansion!OperatorNode,
         Expansion!OperatorOf, Proved!Assign!OwnerEdges,
         Proved!Assign!OperatorNode, Proved!Assign!OperatorOf
<1>9. \A c, ports : Expansion!DataEdges(c, ports) = Proved!Assign!DataEdges(c, ports)
  BY Zenon DEF Expansion!DataEdges, Expansion!Connect, Proved!Assign!DataEdges,
         Proved!Assign!Connect
<1>10. QED
  BY <1>2, <1>6, <1>7, <1>8, <1>9, Zenon DEF Expansion!Expansion, Proved!Assign!Expansion

LEMMA ExpansionSame ==
  /\ Expansion!Init => Proved!Assign!Init
  /\ Expansion!Next <=> Proved!Assign!Next
  /\ Expansion!RoundTrip <=> Proved!Assign!RoundTrip
  /\ Expansion!ServedOnce <=> Proved!Assign!ServedOnce
  /\ Expansion!PeersAreReplicas <=> Proved!Assign!PeersAreReplicas
  /\ Expansion!SortableUnlessLoop <=> Proved!Assign!SortableUnlessLoop
<1>1. Expansion!Init => Proved!Assign!Init
  <2>. DEFINE Mine == {Sequential, Parallel(0), Parallel(3)}
              Theirs == {Sequential, Parallel(0), Parallel(2), Parallel(3), Parallel(5)}
              edges == SUBSET ({"xo", "yo"} \X {"xi", "yi", "z1", "z2"})
  <2>1. Mine \subseteq Theirs
    OBVIOUS
  <2>2. Expansion!Init <=> /\ canonical \in [config : [{"x", "y", "z"} -> Mine], edges : edges]
                           /\ runtime = None /\ loaded = None /\ back = None
    BY Zenon DEF Expansion!Init
  <2>3. Proved!Assign!Init <=> /\ canonical \in [config : [{"x", "y", "z"} -> Theirs], edges : edges]
                               /\ runtime = None /\ loaded = None /\ back = None
    BY Zenon DEF Proved!Assign!Init
  <2>. HIDE DEF Mine, Theirs, edges
  <2>4. [{"x", "y", "z"} -> Mine] \subseteq [{"x", "y", "z"} -> Theirs]
    BY <2>1
  <2>5. \A F, G, E : F \subseteq G => [config : F, edges : E] \subseteq [config : G, edges : E]
    OBVIOUS
  <2>6. QED
    BY <2>2, <2>3, <2>4, <2>5, Zenon
<1>2. Expansion!Next <=> Proved!Assign!Next
  BY ExpansionExpands, Zenon DEF Expansion!Expand, Expansion!Fold, Expansion!Folded,
         Expansion!FromRuntime, Expansion!Load, Expansion!Next,
         Expansion!PortEdges, Expansion!ToRuntime, Proved!Assign!Expand,
         Proved!Assign!Fold, Proved!Assign!Folded, Proved!Assign!FromRuntime,
         Proved!Assign!Load, Proved!Assign!Next, Proved!Assign!PortEdges,
         Proved!Assign!ToRuntime
<1>3. Expansion!RoundTrip <=> Proved!Assign!RoundTrip
  BY Zenon DEF Expansion!Drawn, Expansion!RoundTrip, Proved!Assign!Drawn,
         Proved!Assign!RoundTrip
<1>4. Expansion!ServedOnce <=> Proved!Assign!ServedOnce
  BY Zenon DEF Expansion!Copies, Expansion!Instances, Expansion!OperatorOf,
         Expansion!PortEdges, Expansion!ServedOnce, Expansion!Cardinality,
         Expansion!IsFiniteSet, Proved!Assign!Copies,
         Proved!Assign!Instances, Proved!Assign!OperatorOf,
         Proved!Assign!PortEdges, Proved!Assign!ServedOnce,
         Proved!Assign!Cardinality, Proved!Assign!IsFiniteSet
<1>5. Expansion!PeersAreReplicas <=> Proved!Assign!PeersAreReplicas
  BY Zenon DEF Expansion!PeersAreReplicas, Expansion!PortEdges,
         Proved!Assign!PeersAreReplicas, Proved!Assign!PortEdges
<1>6. Expansion!SortableUnlessLoop <=> Proved!Assign!SortableUnlessLoop
  BY Zenon DEF Expansion!Copies, Expansion!Cyclic, Expansion!OperatorGraph,
         Expansion!OperatorOf, Expansion!PortEdges,
         Expansion!SortableUnlessLoop, Expansion!Upstream,
         Expansion!Cardinality, Expansion!IsFiniteSet, Proved!Assign!Copies,
         Proved!Assign!Cyclic, Proved!Assign!OperatorGraph,
         Proved!Assign!OperatorOf, Proved!Assign!PortEdges,
         Proved!Assign!SortableUnlessLoop, Proved!Assign!Upstream,
         Proved!Assign!Cardinality, Proved!Assign!IsFiniteSet
<1>7. QED
  BY <1>1, <1>2, <1>3, <1>4, <1>5, <1>6

LEMMA AssignExpands == \A c : Assign!Expansion(c) = Proved!Assign!Expansion(c)
<1>1. \A c, p : Assign!Fanout(c, p) = Proved!Assign!Fanout(c, p)
  BY Zenon DEF Assign!Fanout, Proved!Assign!Fanout
<1>2. \A c, o : Assign!Instances(c, o) = Proved!Assign!Instances(c, o)
  BY Zenon DEF Assign!Instances, Assign!Copies,
         Proved!Assign!Instances, Proved!Assign!Copies
<1>3. \A i, p, t : Assign!PortNode(i, p, t) = Proved!Assign!PortNode(i, p, t)
  BY Zenon DEF Assign!PortNode, Proved!Assign!PortNode
<1>4. \A c, p : Assign!OutputNodes(c, p) = Proved!Assign!OutputNodes(c, p)
  BY <1>1, <1>2, <1>3 DEF Assign!OutputNodes, Proved!Assign!OutputNodes
<1>5. \A c, p : Assign!InputNodes(c, p) = Proved!Assign!InputNodes(c, p)
  BY Zenon DEF Assign!InputNodes, Assign!Instances,
         Assign!Copies, Assign!PortNode, Proved!Assign!InputNodes,
         Proved!Assign!Instances, Proved!Assign!Copies, Proved!Assign!PortNode
<1>6. \A c : Assign!PortNodes(c) = Proved!Assign!PortNodes(c)
  BY <1>4, <1>5, Zenon DEF Assign!PortNodes, Proved!Assign!PortNodes
<1>7. \A i, ports, kind :
        Assign!Attached(i, ports, kind) = Proved!Assign!Attached(i, ports, kind)
  BY Zenon DEF Assign!Attached, Assign!OperatorOf,
         Proved!Assign!Attached, Proved!Assign!OperatorOf
<1>8. \A ports : Assign!OwnerEdges(ports) = Proved!Assign!OwnerEdges(ports)
  BY Zenon DEF Assign!OwnerEdges, Assign!OperatorNode,
         Assign!OperatorOf, Proved!Assign!OwnerEdges,
         Proved!Assign!OperatorNode, Proved!Assign!OperatorOf
<1>9. \A c, ports : Assign!DataEdges(c, ports) = Proved!Assign!DataEdges(c, ports)
  BY Zenon DEF Assign!DataEdges, Assign!Connect, Proved!Assign!DataEdges,
         Proved!Assign!Connect
<1>10. QED
  BY <1>2, <1>6, <1>7, <1>8, <1>9, Zenon DEF Assign!Expansion, Proved!Assign!Expansion

LEMMA AssignSame ==
  /\ Assign!AssignInit => Proved!Assign!AssignInit
  /\ Assign!AssignNext <=> Proved!Assign!AssignNext
  /\ Assign!AssignedIfPossible <=> Proved!Assign!AssignedIfPossible
  /\ Assign!KeepsToNetworks <=> Proved!Assign!KeepsToNetworks
<1>1. Assign!AssignInit => Proved!Assign!AssignInit
  <2>1. SUFFICES ASSUME Assign!AssignInit PROVE Proved!Assign!AssignInit
    OBVIOUS
  <2>2. /\ canonical \in Shapes({Chain, Fork, Join, Loop}, {Sequential, Parallel(2)})
        /\ loaded = None
        /\ back = None
        /\ runtime = Assign!Expansion(canonical)
        /\ \E known \in SUBSET {"a1", "a2"} :
             agents \in [known -> [networks : SUBSET {"n1", "n2"}, tags : SUBSET {"tag"}]]
        /\ required \in [{"x", "y", "z"} -> SUBSET {"tag"}]
        /\ phase = "new"
        /\ remaining = {}
        /\ assignments = [a \in DOMAIN agents |-> {}]
        /\ networks = [i \in {} |-> {}]
        /\ rejected = {}
    BY <2>1 DEF Assign!AssignInit
  <2>3. Assign!Expansion(canonical) = Proved!Assign!Expansion(canonical)
    BY AssignExpands
  <2>4. canonical \in Shapes({Chain, Fork, Join, Loop}, {Sequential, Parallel(2)})
                        \cup Shapes({Chain, Join}, {Parallel(5)})
    BY <2>2
  <2>5. \E known \in SUBSET {"a1", "a2", "a3"} :
          agents \in [known -> [networks : SUBSET {"n1", "n2"}, tags : SUBSET {"tag"}]]
    <3>1. PICK known \in SUBSET {"a1", "a2"} :
            agents \in [known -> [networks : SUBSET {"n1", "n2"}, tags : SUBSET {"tag"}]]
      BY <2>2
    <3>2. known \in SUBSET {"a1", "a2", "a3"}
      OBVIOUS
    <3>3. agents \in [known -> [networks : SUBSET {"n1", "n2"}, tags : SUBSET {"tag"}]]
      BY <3>1
    <3>4. QED
      BY <3>2, <3>3
  <2>6. required \in [{"x", "y", "z"} -> SUBSET {"tag"}]
    BY <2>2
  <2>7. runtime = Proved!Assign!Expansion(canonical)
    BY <2>2, <2>3
  <2>8. QED
    BY <2>2, <2>4, <2>5, <2>6, <2>7, Zenon DEF Proved!Assign!AssignInit
<1>2. Assign!AssignNext <=> Proved!Assign!AssignNext
  BY Zenon DEF Assign!AllInstances, Assign!Allowed, Assign!AssignNext,
         Assign!Cyclic, Assign!Eligible, Assign!Finish, Assign!Graph,
         Assign!LeastLoaded, Assign!LoadOf, Assign!Matching,
         Assign!OperatorGraph, Assign!OperatorOf, Assign!Place,
         Assign!PortEdges, Assign!Predecessors, Assign!Recorded,
         Assign!Sort, Assign!Upstream, Assign!vars, Assign!Cardinality,
         Assign!IsFiniteSet, Proved!Assign!AllInstances,
         Proved!Assign!Allowed, Proved!Assign!AssignNext,
         Proved!Assign!Cyclic, Proved!Assign!Eligible, Proved!Assign!Finish,
         Proved!Assign!Graph, Proved!Assign!LeastLoaded,
         Proved!Assign!LoadOf, Proved!Assign!Matching,
         Proved!Assign!OperatorGraph, Proved!Assign!OperatorOf,
         Proved!Assign!Place, Proved!Assign!PortEdges,
         Proved!Assign!Predecessors, Proved!Assign!Recorded,
         Proved!Assign!Sort, Proved!Assign!Upstream, Proved!Assign!vars,
         Proved!Assign!Cardinality, Proved!Assign!IsFiniteSet
<1>3. Assign!AssignedIfPossible <=> Proved!Assign!AssignedIfPossible
  BY Zenon DEF Assign!AllInstances, Assign!AssignedIfPossible,
         Assign!Cyclic, Assign!Ends, Assign!Graph, Assign!OperatorGraph,
         Assign!OperatorOf, Assign!PortEdges, Assign!Upstream,
         Assign!Cardinality, Assign!IsFiniteSet, Proved!Assign!AllInstances,
         Proved!Assign!AssignedIfPossible, Proved!Assign!Cyclic,
         Proved!Assign!Ends, Proved!Assign!Graph,
         Proved!Assign!OperatorGraph, Proved!Assign!OperatorOf,
         Proved!Assign!PortEdges, Proved!Assign!Upstream,
         Proved!Assign!Cardinality, Proved!Assign!IsFiniteSet
<1>4. Assign!KeepsToNetworks <=> Proved!Assign!KeepsToNetworks
  BY Zenon DEF Assign!Graph, Assign!KeepsToNetworks, Assign!Matching,
         Assign!OperatorGraph, Assign!OperatorOf, Assign!PortEdges,
         Assign!Predecessors, Proved!Assign!Graph,
         Proved!Assign!KeepsToNetworks, Proved!Assign!Matching,
         Proved!Assign!OperatorGraph, Proved!Assign!OperatorOf,
         Proved!Assign!PortEdges, Proved!Assign!Predecessors
<1>5. QED
  BY <1>1, <1>2, <1>3, <1>4

LEMMA BalanceExpands == \A c : Balance!Expansion(c) = Proved!Assign!Expansion(c)
<1>1. \A c, p : Balance!Fanout(c, p) = Proved!Assign!Fanout(c, p)
  BY Zenon DEF Balance!Fanout, Proved!Assign!Fanout
<1>2. \A c, o : Balance!Instances(c, o) = Proved!Assign!Instances(c, o)
  BY Zenon DEF Balance!Instances, Balance!Copies,
         Proved!Assign!Instances, Proved!Assign!Copies
<1>3. \A i, p, t : Balance!PortNode(i, p, t) = Proved!Assign!PortNode(i, p, t)
  BY Zenon DEF Balance!PortNode, Proved!Assign!PortNode
<1>4. \A c, p : Balance!OutputNodes(c, p) = Proved!Assign!OutputNodes(c, p)
  BY <1>1, <1>2, <1>3 DEF Balance!OutputNodes, Proved!Assign!OutputNodes
<1>5. \A c, p : Balance!InputNodes(c, p) = Proved!Assign!InputNodes(c, p)
  BY Zenon DEF Balance!InputNodes, Balance!Instances,
         Balance!Copies, Balance!PortNode, Proved!Assign!InputNodes,
         Proved!Assign!Instances, Proved!Assign!Copies, Proved!Assign!PortNode
<1>6. \A c : Balance!PortNodes(c) = Proved!Assign!PortNodes(c)
  BY <1>4, <1>5, Zenon DEF Balance!PortNodes, Proved!Assign!PortNodes
<1>7. \A i, ports, kind :
        Balance!Attached(i, ports, kind) = Proved!Assign!Attached(i, ports, kind)
  BY Zenon DEF Balance!Attached, Balance!OperatorOf,
         Proved!Assign!Attached, Proved!Assign!OperatorOf
<1>8. \A ports : Balance!OwnerEdges(ports) = Proved!Assign!OwnerEdges(ports)
  BY Zenon DEF Balance!OwnerEdges, Balance!OperatorNode,
         Balance!OperatorOf, Proved!Assign!OwnerEdges,
         Proved!Assign!OperatorNode, Proved!Assign!OperatorOf
<1>9. \A c, ports : Balance!DataEdges(c, ports) = Proved!Assign!DataEdges(c, ports)
  BY Zenon DEF Balance!DataEdges, Balance!Connect, Proved!Assign!DataEdges,
         Proved!Assign!Connect
<1>10. QED
  BY <1>2, <1>6, <1>7, <1>8, <1>9, Zenon DEF Balance!Expansion, Proved!Assign!Expansion

LEMMA BalanceSame ==
  /\ Balance!AssignInit => Proved!Assign!AssignInit
  /\ Balance!AssignNext <=> Proved!Assign!AssignNext
  /\ Balance!Balanced <=> Proved!Assign!Balanced
<1>1. Balance!AssignInit => Proved!Assign!AssignInit
  <2>1. SUFFICES ASSUME Balance!AssignInit PROVE Proved!Assign!AssignInit
    OBVIOUS
  <2>2. /\ canonical \in Shapes({Chain, Join}, {Parallel(5)})
        /\ loaded = None
        /\ back = None
        /\ runtime = Balance!Expansion(canonical)
        /\ \E known \in SUBSET {"a1", "a2", "a3"} :
             agents \in [known -> [networks : SUBSET {"n1"}, tags : SUBSET {}]]
        /\ required \in [{"x", "y", "z"} -> SUBSET {}]
        /\ phase = "new"
        /\ remaining = {}
        /\ assignments = [a \in DOMAIN agents |-> {}]
        /\ networks = [i \in {} |-> {}]
        /\ rejected = {}
    BY <2>1 DEF Balance!AssignInit
  <2>3. Balance!Expansion(canonical) = Proved!Assign!Expansion(canonical)
    BY BalanceExpands
  <2>4. canonical \in Shapes({Chain, Fork, Join, Loop}, {Sequential, Parallel(2)})
                        \cup Shapes({Chain, Join}, {Parallel(5)})
    BY <2>2
  <2>5. \E known \in SUBSET {"a1", "a2", "a3"} :
          agents \in [known -> [networks : SUBSET {"n1", "n2"}, tags : SUBSET {"tag"}]]
    <3>1. PICK known \in SUBSET {"a1", "a2", "a3"} :
            agents \in [known -> [networks : SUBSET {"n1"}, tags : SUBSET {}]]
      BY <2>2
    <3>2. known \in SUBSET {"a1", "a2", "a3"}
      OBVIOUS
    <3>3. agents \in [known -> [networks : SUBSET {"n1", "n2"}, tags : SUBSET {"tag"}]]
      BY <3>1
    <3>4. QED
      BY <3>2, <3>3
  <2>6. required \in [{"x", "y", "z"} -> SUBSET {"tag"}]
    BY <2>2
  <2>7. runtime = Proved!Assign!Expansion(canonical)
    BY <2>2, <2>3
  <2>8. QED
    BY <2>2, <2>4, <2>5, <2>6, <2>7, Zenon DEF Proved!Assign!AssignInit
<1>2. Balance!AssignNext <=> Proved!Assign!AssignNext
  BY Zenon DEF Balance!AllInstances, Balance!Allowed, Balance!AssignNext,
         Balance!Cyclic, Balance!Eligible, Balance!Finish, Balance!Graph,
         Balance!LeastLoaded, Balance!LoadOf, Balance!Matching,
         Balance!OperatorGraph, Balance!OperatorOf, Balance!Place,
         Balance!PortEdges, Balance!Predecessors, Balance!Recorded,
         Balance!Sort, Balance!Upstream, Balance!vars, Balance!Cardinality,
         Balance!IsFiniteSet, Proved!Assign!AllInstances,
         Proved!Assign!Allowed, Proved!Assign!AssignNext,
         Proved!Assign!Cyclic, Proved!Assign!Eligible, Proved!Assign!Finish,
         Proved!Assign!Graph, Proved!Assign!LeastLoaded,
         Proved!Assign!LoadOf, Proved!Assign!Matching,
         Proved!Assign!OperatorGraph, Proved!Assign!OperatorOf,
         Proved!Assign!Place, Proved!Assign!PortEdges,
         Proved!Assign!Predecessors, Proved!Assign!Recorded,
         Proved!Assign!Sort, Proved!Assign!Upstream, Proved!Assign!vars,
         Proved!Assign!Cardinality, Proved!Assign!IsFiniteSet
<1>3. Balance!Balanced <=> Proved!Assign!Balanced
  BY Zenon DEF Balance!Balanced, Balance!LoadOf, Balance!Cardinality,
         Balance!IsFiniteSet, Proved!Assign!Balanced, Proved!Assign!LoadOf,
         Proved!Assign!Cardinality, Proved!Assign!IsFiniteSet
<1>4. QED
  BY <1>1, <1>2, <1>3

------------------------------------------------------------------------------
(* The vacuum scans are square, as they have to be where the code looks the*)
(* drift up by the columns of the grid instead of its rows, and the batches*)
(* of a scan have one shape; the frames are square, as they have to be for *)
(* the moved events to be written back.                                    *)
LEMMA DriftIsMeasured == Proved!SquareVacuums /\ Proved!SquareFrames /\ Proved!OneShape
<1>1. Proved!SquareVacuums
  BY DEF Proved!SquareVacuums, Vacuums, Vacuum
<1>2. Proved!OneShape
  BY DEF Proved!OneShape, Numbered, Frames
<1>3. Proved!SquareFrames
  BY DEF Proved!SquareFrames
<1>4. QED
  BY <1>1, <1>2, <1>3

(* The invariant of each part, while it is the one that runs.              *)
HeadInv == scenario = "head" => Proved!ClientInv
BeamInv == scenario = "beam" => Proved!BeamInv
ReadersInv == scenario = "readers" => Proved!ReaderInv
NumbersInv == scenario = "readers" => Proved!NumbersInv
EmitterInv == scenario = "emitter" => Proved!GrabInv
ReduceInv == scenario = "reduce" => Proved!ReduceInv
CameraInv == scenario = "camera" => Proved!CameraInv

(* Each keeps its invariant: a step is one of the part that runs.          *)
LEMMA HeadInvariant ==
  /\ Init => HeadInv
  /\ HeadInv /\ [Next]_vars => HeadInv'
<1>1. Proved!HeadClient!ClientAssumption
  BY ConstantsAssumption, HeadSame
<1>2. Init => HeadInv
  BY <1>1, HeadSame, Proved!ClientInit DEF Init, HeadInv
<1>3. ASSUME HeadInv, [Next]_vars, scenario = "head"
      PROVE  Proved!ClientInv'
  <2>1. [Proved!HeadClient!Next]_(Proved!HeadClient!vars)
    BY <1>3, HeadSame DEF Next, Only, vars, headVars, Proved!HeadClient!vars
  <2>2. QED
    BY <1>1, <1>3, <2>1, Proved!ClientStep DEF HeadInv
<1>4. [Next]_vars => scenario' = scenario
  BY DEF Next, Only, vars
<1>5. QED
  BY <1>2, <1>3, <1>4 DEF HeadInv

LEMMA BeamInvariant ==
  /\ Init => BeamInv
  /\ BeamInv /\ [Next]_vars => BeamInv' /\ (scenario = "beam" => Beam!BeginsAsChosen)
<1>1. Proved!Beam!CompensationAssumption
  BY ConstantsAssumption, BeamSame
<1>2. Init => BeamInv
  BY BeamSame, Proved!BeamInit DEF Init, BeamInv
<1>3. ASSUME BeamInv, [Next]_vars, scenario = "beam"
      PROVE  Proved!BeamInv' /\ Beam!BeginsAsChosen
  <2>1. [Proved!Beam!Next]_(Proved!Beam!vars)
    BY <1>3, BeamSame DEF Next, Only, vars, beamVars, Proved!Beam!vars
  <2>2. Proved!BeamInv' /\ Proved!Beam!BeginsAsChosen
    BY <1>1, <1>3, <2>1, Proved!BeamStep, Proved!BeginsStep DEF BeamInv
  <2>3. QED
    BY <2>2, BeamSame
<1>4. [Next]_vars => scenario' = scenario
  BY DEF Next, Only, vars
<1>5. QED
  BY <1>2, <1>3, <1>4 DEF BeamInv

LEMMA ReadersInvariant ==
  /\ Init => ReadersInv
  /\ ReadersInv /\ [Next]_vars => ReadersInv' /\ (scenario = "readers" => Readers!SendsSelected)
<1>1. Init => ReadersInv
  BY ReadersSame, Proved!ReaderBegins DEF Init, ReadersInv
<1>2. ASSUME ReadersInv, [Next]_vars, scenario = "readers"
      PROVE  Proved!ReaderInv' /\ Readers!SendsSelected
  <2>1. [Proved!Readers!Next]_(Proved!Readers!vars)
    BY <1>2, ReadersSame DEF Next, Only, vars, readerVars, Proved!Readers!vars
  <2>2. Proved!ReaderInv' /\ Proved!Readers!SendsSelected
    BY <1>2, <2>1, Proved!ReaderSteps, Proved!SendsStep DEF ReadersInv
  <2>3. QED
    BY <2>2, ReadersSame
<1>3. [Next]_vars => scenario' = scenario
  BY DEF Next, Only, vars
<1>4. QED
  BY <1>1, <1>2, <1>3 DEF ReadersInv

LEMMA NumbersInvariant ==
  /\ Init => NumbersInv
  /\ ReadersInv /\ NumbersInv /\ [Next]_vars => NumbersInv'
<1>1. Proved!Readers!ReadersAssumption
  BY ConstantsAssumption, ReadersSame
<1>2. Init => NumbersInv
  BY ReadersSame, Proved!NumbersBegin DEF Init, NumbersInv
<1>3. ASSUME ReadersInv, NumbersInv, [Next]_vars, scenario = "readers"
      PROVE  Proved!NumbersInv'
  <2>1. [Proved!Readers!Next]_(Proved!Readers!vars)
    BY <1>3, ReadersSame DEF Next, Only, vars, readerVars, Proved!Readers!vars
  <2>2. QED
    BY <1>1, <1>3, <2>1, Proved!NumbersSteps DEF ReadersInv, NumbersInv
<1>4. [Next]_vars => scenario' = scenario
  BY DEF Next, Only, vars
<1>5. QED
  BY <1>2, <1>3, <1>4 DEF NumbersInv

LEMMA EmitterInvariant ==
  /\ Init => EmitterInv
  /\ EmitterInv /\ [Next]_vars => EmitterInv'
<1>1. Proved!Emitter!EmitterAssumption
  BY ConstantsAssumption, EmitterSame
<1>2. Init => EmitterInv
  BY <1>1, EmitterSame, Proved!GrabInits DEF Init, EmitterInv
<1>3. ASSUME EmitterInv, [Next]_vars, scenario = "emitter"
      PROVE  Proved!GrabInv'
  <2>1. [Proved!Emitter!Next]_(Proved!Emitter!vars)
    BY <1>3, EmitterSame DEF Next, Only, vars, emitterVars, Proved!Emitter!vars
  <2>2. QED
    BY <1>1, <1>3, <2>1, Proved!GrabStep DEF EmitterInv
<1>4. [Next]_vars => scenario' = scenario
  BY DEF Next, Only, vars
<1>5. QED
  BY <1>2, <1>3, <1>4 DEF EmitterInv

LEMMA ReduceInvariant ==
  /\ Init => ReduceInv
  /\ ReduceInv /\ [Next]_vars => ReduceInv'
<1>1. Proved!Reduce!ReduceAssumption
  BY ConstantsAssumption, ReduceSame
<1>2. Init => ReduceInv
  BY <1>1, ReduceSame, Proved!ReduceInits DEF Init, ReduceInv
<1>3. ASSUME ReduceInv, [Next]_vars, scenario = "reduce"
      PROVE  Proved!ReduceInv'
  <2>1. [Proved!Reduce!Next]_(Proved!Reduce!vars)
    BY <1>3, ReduceSame DEF Next, Only, vars, reduceVars, Proved!Reduce!vars
  <2>2. QED
    BY <1>1, <1>3, <2>1, Proved!ReduceStep DEF ReduceInv
<1>4. [Next]_vars => scenario' = scenario
  BY DEF Next, Only, vars
<1>5. QED
  BY <1>2, <1>3, <1>4 DEF ReduceInv

LEMMA CameraInvariant ==
  /\ Init => CameraInv
  /\ CameraInv /\ [Next]_vars => CameraInv'
<1>1. Proved!Camera!CameraAssumption
  BY ConstantsAssumption, CameraSame
<1>2. Init => CameraInv
  BY <1>1, CameraSame, Proved!CameraBegins DEF Init, CameraInv
<1>3. ASSUME CameraInv, [Next]_vars, scenario = "camera"
      PROVE  Proved!CameraInv'
  <2>1. [Proved!Camera!Next]_(Proved!Camera!vars)
    BY <1>3, CameraSame DEF Next, Only, vars, cameraVars, Proved!Camera!vars
  <2>2. QED
    BY <1>1, <1>3, <2>1, Proved!CameraSteps DEF CameraInv
<1>4. [Next]_vars => scenario' = scenario
  BY DEF Next, Only, vars
<1>5. QED
  BY <1>2, <1>3, <1>4 DEF CameraInv

(* Each position of the scans of the run is in one part.                   *)
LEMMA PartitionDivides == Proved!PartsDivide
<1>. DEFINE one == [p \in 1..2 |-> IF p = 1 THEN None ELSE {0}]
            p1 == Part("s1", 0, one)
            p2 == Part("s1", 1, Alone(3, {1}))
            p3 == Part("s1", 2, Alone(4, None))
            p4 == Part("s2", 0, Alone(1, {0}))
            p5 == Part("s2", 1, Alone(2, None))
            p6 == Part("s3", 0, Alone(1, {0}))
<1>1. /\ DOMAIN one = {1, 2} /\ DOMAIN Alone(3, {1}) = {3} /\ DOMAIN Alone(4, None) = {4}
      /\ DOMAIN Alone(1, {0}) = {1} /\ DOMAIN Alone(2, None) = {2}
  BY DEF Alone
<1>. HIDE DEF one
<1>2. /\ p1.scan = "s1" /\ p1.value = one /\ p2.scan = "s1" /\ p2.value = Alone(3, {1})
      /\ p3.scan = "s1" /\ p3.value = Alone(4, None)
      /\ p4.scan = "s2" /\ p4.value = Alone(1, {0})
      /\ p5.scan = "s2" /\ p5.value = Alone(2, None)
      /\ p6.scan = "s3" /\ p6.value = Alone(1, {0})
  BY Zenon DEF Part
<1>. HIDE DEF p1, p2, p3, p4, p5, p6
<1>3. /\ p1.scan = "s1" /\ DOMAIN p1.value = {1, 2}
      /\ p2.scan = "s1" /\ DOMAIN p2.value = {3}
      /\ p3.scan = "s1" /\ DOMAIN p3.value = {4}
      /\ p4.scan = "s2" /\ DOMAIN p4.value = {1}
      /\ p5.scan = "s2" /\ DOMAIN p5.value = {2}
      /\ p6.scan = "s3" /\ DOMAIN p6.value = {1}
  BY Zenon, <1>1, <1>2
<1>4. Partition = {p1, p2, p3, p4, p5, p6}
  BY Zenon DEF Partition, one, p1, p2, p3, p4, p5, p6
<1>5. /\ DOMAIN Partitioned = {"s1", "s2", "s3"} /\ Partitioned["s1"] = {1, 2, 3, 4}
      /\ Partitioned["s2"] = {1, 2} /\ Partitioned["s3"] = {1}
  BY DEF Partitioned
<1>6. \A part \in Partition : DOMAIN part.value # {}
  BY <1>3, <1>4
<1>7. \A t \in {"s1", "s2", "s3"} : \A p \in Partitioned[t] :
        \E part \in Partition : part.scan = t /\ p \in DOMAIN part.value
  BY <1>3, <1>4, <1>5
<1>8. \A part, other \in Partition : \A p \in DOMAIN part.value \cap DOMAIN other.value :
        part.scan = other.scan => part = other
  BY <1>3, <1>4
<1>9. QED
  BY <1>5, <1>6, <1>7, <1>8 DEF Proved!PartsDivide, Proved!Reduce!Scans

------------------------------------------------------------------------------
(* The pipelines of the run, expanded and assigned.                        *)
ExpansionInv == scenario = "expansion" => Proved!Expanded
AssignInv ==
  scenario \in {"assign", "balance"} => Proved!AssignInv /\ Proved!Assign!Balanced

LEMMA DrawingsFit == Proved!Assign!ExpansionAssumption /\ Proved!Assign!AssignerAssumption
<1>1. Expansion!ExpansionAssumption /\ Assign!AssignerAssumption /\ Balance!AssignerAssumption
  BY ConstantsAssumption
<1>2. /\ Proved!Assign!IsFiniteSet({"x", "y", "z"})
      /\ {"xi", "yi", "z1", "z2"} \cap {"xo", "yo"} = {}
      /\ ThreeOwners \in [{"xi", "yi", "z1", "z2"} \cup {"xo", "yo"} -> {"x", "y", "z"}]
      /\ None \notin {"x", "y", "z"} \cup {"xi", "yi", "z1", "z2"} \cup {"xo", "yo"}
  BY <1>1, Zenon DEF Expansion!ExpansionAssumption, Expansion!IsFiniteSet, Proved!Assign!IsFiniteSet
<1>3. {Sequential, Parallel(0), Parallel(2), Parallel(3), Parallel(5)}
        \subseteq [parallel : BOOLEAN, parallelism : Nat]
  BY DEF Sequential, Parallel
<1>4. Proved!Assign!ExpansionAssumption
  BY <1>2, <1>3 DEF Proved!Assign!ExpansionAssumption
<1>5. Shapes({Chain, Fork, Join, Loop}, {Sequential, Parallel(2)})
        \cup Shapes({Chain, Join}, {Parallel(5)})
        \subseteq [config : [{"x", "y", "z"} -> {Sequential, Parallel(0), Parallel(2), Parallel(3), Parallel(5)}],
                   edges : SUBSET ({"xo", "yo"} \X {"xi", "yi", "z1", "z2"})]
  <2>. DEFINE mine == {Sequential, Parallel(2), Parallel(5)}
              theirs == {Sequential, Parallel(0), Parallel(2), Parallel(3), Parallel(5)}
              edges == SUBSET ({"xo", "yo"} \X {"xi", "yi", "z1", "z2"})
              some == Shapes({Chain, Fork, Join, Loop}, {Sequential, Parallel(2)})
              others == Shapes({Chain, Join}, {Parallel(5)})
  <2>1. some \subseteq [config : [{"x", "y", "z"} -> mine], edges : edges]
    BY <1>1, Zenon DEF Assign!AssignerAssumption
  <2>2. others \subseteq [config : [{"x", "y", "z"} -> mine], edges : edges]
    BY <1>1, Zenon DEF Balance!AssignerAssumption
  <2>3. mine \subseteq theirs
    OBVIOUS
  <2>. HIDE DEF mine, theirs, edges, some, others
  <2>4. [{"x", "y", "z"} -> mine] \subseteq [{"x", "y", "z"} -> theirs]
    BY <2>3
  <2>5. \A F, G, E : F \subseteq G => [config : F, edges : E] \subseteq [config : G, edges : E]
    OBVIOUS
  <2>6. [config : [{"x", "y", "z"} -> mine], edges : edges]
          \subseteq [config : [{"x", "y", "z"} -> theirs], edges : edges]
    BY <2>4, <2>5, Zenon
  <2>7. some \cup others \subseteq [config : [{"x", "y", "z"} -> theirs], edges : edges]
    BY <2>1, <2>2, <2>6, Zenon
  <2>8. QED
    BY <2>7, Zenon DEF some, others, theirs, edges
<1>6. QED
  BY <1>4, <1>5, Zenon DEF Proved!Assign!AssignerAssumption

LEMMA ExpansionInvariant ==
  /\ Init => ExpansionInv
  /\ ExpansionInv /\ [Next]_vars => ExpansionInv'
<1>1. Init => ExpansionInv
  BY DrawingsFit, ExpansionSame, Proved!ExpandedInit DEF Init, ExpansionInv
<1>2. ASSUME ExpansionInv, [Next]_vars, scenario = "expansion" PROVE Proved!Expanded'
  <2>1. [Proved!Assign!Next]_(Proved!Assign!vars)
    BY <1>2, ExpansionSame DEF Next, Only, vars, pipelineVars, Proved!Assign!vars
  <2>2. QED
    BY <1>2, <2>1, Proved!ExpandedStep DEF ExpansionInv
<1>3. [Next]_vars => scenario' = scenario
  BY DEF Next, Only, vars
<1>4. QED
  BY <1>1, <1>2, <1>3 DEF ExpansionInv

LEMMA AssignInvariant ==
  /\ Init => AssignInv
  /\ AssignInv /\ [Next]_vars => AssignInv'
<1>1. ASSUME Init, scenario \in {"assign", "balance"} PROVE Proved!AssignInv /\ Proved!Assign!Balanced
  <2>1. Proved!Assign!AssignInit
    BY <1>1, AssignSame, BalanceSame DEF Init
  <2>2. Proved!AssignBegins /\ Proved!HasInstances
    BY <2>1, DrawingsFit, Proved!AssignInits
  <2>3. QED
    BY <2>2, Proved!AssignStart
<1>2. ASSUME AssignInv, [Next]_vars, scenario \in {"assign", "balance"}
      PROVE  Proved!AssignInv' /\ Proved!Assign!Balanced'
  <2>1. [Proved!Assign!AssignNext]_<<Proved!Assign!vars, Proved!Assign!assignVars>>
    <3>1. CASE Next
      BY <1>2, <3>1, AssignSame, BalanceSame DEF Next
    <3>2. CASE UNCHANGED vars
      BY <3>2 DEF vars, pipelineVars, Proved!Assign!vars, Proved!Assign!assignVars
    <3>3. QED
      BY <1>2, <3>1, <3>2
  <2>2. Proved!AssignInv /\ Proved!Assign!Balanced
    BY <1>2 DEF AssignInv
  <2>3. Proved!AssignInv'
    BY <2>1, <2>2, Proved!AssignStep
  <2>4. Proved!Assign!Balanced'
    BY <2>1, <2>2, Proved!BalancedStep
  <2>5. QED
    BY <2>3, <2>4
<1>3. [Next]_vars => scenario' = scenario
  BY DEF Next, Only, vars
<1>4. QED
  BY <1>1, <1>2, <1>3 DEF AssignInv

------------------------------------------------------------------------------
(* The stages of the pipeline with replicas.                               *)
ReplicaStage == [p \in {"so1", "ai", "bi", "ao", "bo", "j1"} |->
                   IF p \in {"so1", "ai", "bi"} THEN 1 ELSE 2]

LEMMA DiamondFits == Diamond!DataflowAssumption /\ Diamond!Unreplicated
<1>1. /\ DiamondOwner["so1"] = "s" /\ DiamondOwner["so2"] = "s" /\ DiamondOwner["ai"] = "a"
      /\ DiamondOwner["ao"] = "a" /\ DiamondOwner["bi"] = "b" /\ DiamondOwner["bo"] = "b"
      /\ DiamondOwner["j1"] = "j" /\ DiamondOwner["j2"] = "j"
  BY DEF DiamondOwner
<1>2. Diamond!OutOf("j") = {}
  BY <1>1 DEF Diamond!OutOf
<1>3. Diamond!Unreplicated
  BY <1>1, <1>2 DEF Diamond!Unreplicated
<1>4. QED
  BY <1>3, ConstantsAssumption

LEMMA ReplicasFit == Replicas!DataflowAssumption /\ Replicas!Staged(ReplicaStage)
<1>1. /\ ReplicaOwner["so1"] = "s" /\ ReplicaOwner["ai"] = "a" /\ ReplicaOwner["ao"] = "a"
      /\ ReplicaOwner["bi"] = "b" /\ ReplicaOwner["bo"] = "b" /\ ReplicaOwner["j1"] = "j"
  BY DEF ReplicaOwner
<1>2. Replicas!InOf("a") = {"ai"} /\ Replicas!InOf("b") = {"bi"}
  BY <1>1 DEF Replicas!InOf
<1>3. "a" \notin Replicas!Sources /\ "b" \notin Replicas!Sources
  BY <1>2 DEF Replicas!Sources
<1>4. Replicas!Staged(ReplicaStage)
  BY <1>1, <1>2, <1>3 DEF Replicas!Staged, ReplicaStage
<1>5. QED
  BY <1>4, ConstantsAssumption

LEMMA PortsAreFinite ==
  /\ Diamond!IsFiniteSet({"ai", "bi", "j1", "j2"})
  /\ Replicas!IsFiniteSet({"ai", "bi", "j1"})
<1>1. IsFiniteSet({"ai"} \cup {"bi"} \cup {"j1"}) /\ IsFiniteSet({"ai"} \cup {"bi"} \cup {"j1"} \cup {"j2"})
  <2>1. /\ IsFiniteSet({"ai"}) /\ IsFiniteSet({"bi"})
        /\ IsFiniteSet({"j1"}) /\ IsFiniteSet({"j2"})
    BY FS_Singleton
  <2>2. IsFiniteSet({"ai"} \cup {"bi"})
    BY <2>1, FS_Union
  <2>3. IsFiniteSet({"ai"} \cup {"bi"} \cup {"j1"})
    BY <2>1, <2>2, FS_Union
  <2>4. QED
    BY <2>1, <2>3, FS_Union
<1>2. /\ {"ai"} \cup {"bi"} \cup {"j1"} \cup {"j2"} = {"ai", "bi", "j1", "j2"}
      /\ {"ai"} \cup {"bi"} \cup {"j1"} = {"ai", "bi", "j1"}
  OBVIOUS
<1>3. IsFiniteSet({"ai", "bi", "j1"}) /\ IsFiniteSet({"ai", "bi", "j1", "j2"})
  BY <1>1, <1>2
<1>4. \A S : IsFiniteSet(S) <=> Diamond!IsFiniteSet(S)
  BY Zenon DEF IsFiniteSet, Diamond!IsFiniteSet
<1>5. \A S : IsFiniteSet(S) <=> Replicas!IsFiniteSet(S)
  BY Zenon DEF IsFiniteSet, Replicas!IsFiniteSet
<1>6. QED
  BY <1>3, <1>4, <1>5

DiamondInv ==
  scenario = "diamond" => Diamond!FlowKept /\ Diamond!Together /\ Diamond!Ordered
ReplicasInv ==
  scenario = "replicas" => Replicas!FlowKept /\ Replicas!Single(ReplicaStage)

LEMMA DiamondInvariant ==
  /\ Init => DiamondInv
  /\ DiamondInv /\ [Next]_vars => DiamondInv'
<1>1. /\ Diamond!DataflowAssumption /\ Diamond!Unreplicated
      /\ Diamond!IsFiniteSet({"ai", "bi", "j1", "j2"})
  BY DiamondFits, PortsAreFinite
<1>2. ASSUME Init, scenario = "diamond"
      PROVE  Diamond!FlowKept /\ Diamond!Together /\ Diamond!Ordered
  <2>1. Diamond!Init
    BY <1>2 DEF Init
  <2>2. Diamond!FlowKept
    BY <1>1, <2>1, Diamond!FlowKeptInit
  <2>3. Diamond!Together
    BY <1>1, <2>1, Diamond!TogetherInit
  <2>4. Diamond!Ordered
    BY <1>1, <2>1, Diamond!OrderedInit
  <2>5. QED
    BY <2>2, <2>3, <2>4
<1>3. ASSUME DiamondInv, [Next]_vars, scenario = "diamond"
      PROVE  Diamond!FlowKept' /\ Diamond!Together' /\ Diamond!Ordered'
  <2>1. [Diamond!Next]_(Diamond!vars)
    BY <1>3 DEF Next, Only, vars, flowVars, Diamond!vars
  <2>2. Diamond!FlowKept /\ Diamond!Together /\ Diamond!Ordered
    BY <1>3 DEF DiamondInv
  <2>3. Diamond!FlowKept'
    BY <1>1, <2>1, <2>2, Diamond!FlowKeptNext
  <2>4. Diamond!Together'
    BY <1>1, <2>1, <2>2, Diamond!TogetherNext
  <2>5. Diamond!Ordered'
    BY <1>1, <2>1, <2>2, Diamond!OrderedNext
  <2>6. QED
    BY <2>3, <2>4, <2>5
<1>4. [Next]_vars => scenario' = scenario
  BY DEF Next, Only, vars
<1>5. QED
  BY <1>2, <1>3, <1>4 DEF DiamondInv

LEMMA ReplicasInvariant ==
  /\ Init => ReplicasInv
  /\ ReplicasInv /\ [Next]_vars => ReplicasInv'
<1>1. /\ Replicas!DataflowAssumption /\ Replicas!Staged(ReplicaStage)
      /\ Replicas!IsFiniteSet({"ai", "bi", "j1"})
  BY ReplicasFit, PortsAreFinite
<1>2. ASSUME Init, scenario = "replicas"
      PROVE  Replicas!FlowKept /\ Replicas!Single(ReplicaStage)
  <2>1. Replicas!Init
    BY <1>2 DEF Init
  <2>2. Replicas!FlowKept
    BY <1>1, <2>1, Replicas!FlowKeptInit
  <2>3. Replicas!Single(ReplicaStage)
    BY <1>1, <2>1, Replicas!SingleInit
  <2>4. QED
    BY <2>2, <2>3
<1>3. ASSUME ReplicasInv, [Next]_vars, scenario = "replicas"
      PROVE  Replicas!FlowKept' /\ Replicas!Single(ReplicaStage)'
  <2>1. [Replicas!Next]_(Replicas!vars)
    BY <1>3 DEF Next, Only, vars, flowVars, Replicas!vars
  <2>2. Replicas!FlowKept /\ Replicas!Single(ReplicaStage)
    BY <1>3 DEF ReplicasInv
  <2>3. Replicas!FlowKept'
    BY <1>1, <2>1, <2>2, Replicas!FlowKeptNext
  <2>4. Replicas!Single(ReplicaStage)'
    BY <1>1, <2>1, <2>2, Replicas!SingleNext
  <2>5. QED
    BY <2>3, <2>4
<1>4. [Next]_vars => scenario' = scenario
  BY DEF Next, Only, vars
<1>5. QED
  BY <1>2, <1>3, <1>4 DEF ReplicasInv

------------------------------------------------------------------------------
(* What the client of the head node will know once it has taken all that   *)
(* is pushed is what its background process knows (receive_update).        *)
THEOREM ClientKnows == Spec => []KnowsTheHead
<1>1. HeadInv => KnowsTheHead
  BY HeadSame, Proved!ClientInvImplies DEF HeadInv, KnowsTheHead
<1>2. QED
  BY <1>1, HeadInvariant, PTL DEF Spec

(* The events of each frame are moved by the drift at its position in its  *)
(* own scan; a replica compensates a scan by one method, and two replicas  *)
(* that share it by the same one as long as no update came                 *)
(* (subtract_beam_shift).                                                  *)
THEOREM BeamCompensates == Spec => []CompensatedByDrift
<1>1. BeamInv => CompensatedByDrift
  BY ConstantsAssumption, DriftIsMeasured, BeamSame, Proved!BeamCompensates, Proved!BeamOneMethod
  DEF BeamInv, CompensatedByDrift
<1>2. QED
  BY <1>1, BeamInvariant, PTL DEF Spec

(* A batch is of the scan selected when it is triggered, and a replica     *)
(* begins a scan with the method it has when it takes the first batch of it*)
(* (Subtract, run.py:100-118; SendsBatch).                                 *)
THEOREM SettingsAreTaken == Spec => TakesSettings
<1>. DEFINE Inv == BeamInv /\ ReadersInv
            Settings == /\ scenario = "readers" => Readers!SendsSelected
                        /\ scenario = "beam" => Beam!BeginsAsChosen
<1>1. Init => Inv
  BY BeamInvariant, ReadersInvariant
<1>2. Inv /\ [Next]_vars => Inv' /\ Settings
  BY BeamInvariant, ReadersInvariant
<1>3. QED
  <2>1. Inv /\ [Next]_vars => [Settings]_vars
    BY <1>2
  <2>2. QED
    BY <1>1, <1>2, <2>1, PTL DEF Spec, TakesSettings

(* What is expanded, published, loaded and folded again is what was drawn, *)
(* each instance is reached once from each upstream, peers are replicas,   *)
(* and a cycle shows just when data can come round through several         *)
(* instances                                                               *)
(* (expand_canonical_to_runtime and to_canonical).                         *)
THEOREM PipelinesExpand == Spec => []ExpandedFaithfully
<1>1. ASSUME ExpansionInv, scenario = "expansion"
      PROVE  /\ Expansion!RoundTrip /\ Expansion!ServedOnce /\ Expansion!PeersAreReplicas
             /\ Expansion!SortableUnlessLoop
  <2>1. /\ Proved!Assign!RoundTrip /\ Proved!Assign!ServedOnce /\ Proved!Assign!PeersAreReplicas
        /\ Proved!Assign!SortableUnlessLoop
    BY <1>1, DrawingsFit, Proved!ExpandedSays DEF ExpansionInv
  <2>2. QED
    BY <2>1, ExpansionSame
<1>2. ExpansionInv => ExpandedFaithfully
  BY <1>1 DEF ExpandedFaithfully
<1>3. QED
  BY <1>2, ExpansionInvariant, PTL DEF Spec

(* A deployment is assigned just when it can be, an instance stays on a    *)
(* network of those before it when it can, and agents that are alike are   *)
(* given as many, but for one (PipelineAssigner.assign).                   *)
THEOREM DeploymentsAreAssigned == Spec => []AssignedWell
<1>1. ASSUME AssignInv, scenario = "assign"
      PROVE  Assign!AssignedIfPossible /\ Assign!KeepsToNetworks
  <2>1. Proved!AssignInv
    BY <1>1 DEF AssignInv
  <2>2. Proved!Assign!AssignedIfPossible
    BY <2>1, Proved!AssignInvPossible
  <2>3. Proved!Assign!KeepsToNetworks
    BY <2>1, Proved!AssignInvNetworks
  <2>4. QED
    BY <2>2, <2>3, AssignSame
<1>2. ASSUME AssignInv, scenario = "balance" PROVE Balance!Balanced
  BY <1>2, BalanceSame DEF AssignInv
<1>3. AssignInv => AssignedWell
  BY <1>1, <1>2 DEF AssignedWell
<1>4. QED
  BY <1>3, AssignInvariant, PTL DEF Spec

(* Without replicas every port is given the messages in the order the      *)
(* source made them and a join sees its inputs in step; with replicas no   *)
(* port is given a message twice (recv, send and their gathers).           *)
THEOREM MessagesArriveOnce == Spec => []DeliveredOnce
<1>1. /\ Diamond!DataflowAssumption /\ Diamond!IsFiniteSet({"ai", "bi", "j1", "j2"})
      /\ Replicas!DataflowAssumption /\ Replicas!IsFiniteSet({"ai", "bi", "j1"})
  BY DiamondFits, ReplicasFit, PortsAreFinite
<1>2. ASSUME DiamondInv, scenario = "diamond"
      PROVE  Diamond!TypeOK /\ Diamond!InOrder /\ Diamond!InStep
  <2>1. Diamond!FlowKept /\ Diamond!Together /\ Diamond!Ordered
    BY <1>2 DEF DiamondInv
  <2>2. Diamond!TypeOK
    BY <1>1, <2>1, Diamond!FlowTypeCorrect
  <2>3. Diamond!InOrder
    BY <1>1, <2>1, Diamond!OrderedInOrder
  <2>4. Diamond!InStep
    BY <2>1, Diamond!TogetherInStep
  <2>5. QED
    BY <2>2, <2>3, <2>4
<1>3. ASSUME ReplicasInv, scenario = "replicas"
      PROVE  Replicas!TypeOK /\ Replicas!OnlyOnce
  <2>1. Replicas!FlowKept /\ Replicas!Single(ReplicaStage)
    BY <1>3 DEF ReplicasInv
  <2>2. Replicas!TypeOK
    BY <1>1, <2>1, Replicas!FlowTypeCorrect
  <2>3. Replicas!OnlyOnce
    BY <1>1, <2>1, Replicas!SingleOnlyOnce
  <2>4. QED
    BY <2>2, <2>3
<1>4. DiamondInv /\ ReplicasInv => DeliveredOnce
  BY <1>2, <1>3 DEF DeliveredOnce
<1>5. QED
  BY <1>4, DiamondInvariant, ReplicasInvariant, PTL DEF Spec

(* Batches are sent in order without a gap, keep to the limit and are as   *)
(* many as announced (BatchEmitter), and each pass over a file sends it    *)
(* from its first batch on under a number of its own (the readers).        *)
THEOREM DatasetsArrive == Spec => []DatasetsStreamed
<1>1. ASSUME EmitterInv, scenario = "emitter"
      PROVE  Emitter!Streamed /\ Emitter!LimitKept /\ Emitter!Announced
  <2>1. Proved!Emitter!EmitterAssumption
    BY ConstantsAssumption, EmitterSame
  <2>2. Proved!Emitter!Streamed /\ Proved!Emitter!LimitKept /\ Proved!Emitter!Announced
    BY <1>1, <2>1, Proved!GrabSays DEF EmitterInv
  <2>3. QED
    BY <2>2, EmitterSame
<1>2. ASSUME ReadersInv, NumbersInv, scenario = "readers"
      PROVE  Readers!PassesInOrder /\ Readers!NumbersNamePasses
  <2>1. Proved!Readers!PassesInOrder
    BY <1>2, Proved!InOrderIs DEF ReadersInv, Proved!ReaderInv
  <2>2. Proved!Readers!NumbersNamePasses
    BY <1>2, Proved!NumbersBegin DEF NumbersInv
  <2>3. QED
    BY <2>1, <2>2, ReadersSame
<1>3. EmitterInv /\ ReadersInv /\ NumbersInv => DatasetsStreamed
  BY <1>1, <1>2 DEF DatasetsStreamed
<1>4. ReadersInv /\ [Next]_vars => ReadersInv'
  BY ReadersInvariant
<1>5. QED
  BY <1>3, <1>4, EmitterInvariant, ReadersInvariant, NumbersInvariant, PTL DEF Spec

(* Each part counts once, of a scan in a complete result or in what is     *)
(* kept, of a frame from each module, and when nothing is on its way all   *)
(* that is complete was sent and is forgotten (the reducer of centers of   *)
(* mass and the assembler).                                                *)
THEOREM PartsArriveOnce == Spec => []PartsCountOnce
<1>1. ASSUME ReduceInv, scenario = "reduce"
      PROVE  Reduce!Conserved /\ Reduce!SentAndForgotten
  <2>1. Proved!Reduce!ReduceAssumption
    BY ConstantsAssumption, ReduceSame
  <2>2. Proved!Reduce!Conserved /\ Proved!Reduce!SentAndForgotten
    BY <1>1, <2>1, PartitionDivides, Proved!ReduceSays DEF ReduceInv
  <2>3. QED
    BY <2>2, ReduceSame
<1>2. ASSUME CameraInv, scenario = "camera"
      PROVE  Camera!SentWhole /\ Camera!AllThatCame
  <2>1. Proved!Camera!CameraAssumption
    BY ConstantsAssumption, CameraSame
  <2>2. Proved!Camera!SentWhole
    BY <1>2, <2>1, Proved!InvAssemblesWhole DEF CameraInv
  <2>3. Proved!Camera!AllThatCame
    BY <1>2, <2>1, Proved!InvForgetsNone DEF CameraInv
  <2>4. QED
    BY <2>2, <2>3, CameraSame
<1>3. ReduceInv /\ CameraInv => PartsCountOnce
  BY <1>1, <1>2 DEF PartsCountOnce
<1>4. QED
  BY <1>3, ReduceInvariant, CameraInvariant, PTL DEF Spec
==============================================================================
