---------------------------- MODULE DataPlane_proofs ----------------------------
(***************************************************************************)
(* What runs inside the operators, each on its own, for all values of the  *)
(* constants.                                                              *)
(***************************************************************************)
EXTENDS Integers, Sequences, FiniteSetTheorems, SequenceTheorems,
        WellFoundedInduction, TLAPS

CONSTANTS
  None,
  \* HeadNodeClient
  Nodes, Addresses, Unusable, QueueLimit, MaxClusterChanges, MaxSwitches,
  MaxBindErrors,
  \* BeamCompensation
  BeamReplicas, NumberedBatches, Vacuums, FrameShape, MethodValues, MaxBatches,
  MaxMethodChanges, MaxRestarts,
  \* ScanReaders
  ScanFiles, ScanIds, FileSuffixes, BatchesPerFile, MaxTriggers,
  MaxReaderChanges, MaxErrors, Positions,
  \* CameraFrames
  CameraFrames, Modules, MaxLost, MaxInbox,
  \* PipelineExpansion and Assigner
  Operators, InPorts, OutPorts, Owner, Configs, DefaultFactor, Agents,
  Networks, Tags, Drawings,
  \* FrameEmitter
  Shared, Overrides, Raw, BatchLimit, MaxMessages, MaxSettings,
  \* COMReduce
  Parts, Shape, EmitEvery, MaxPartRepeats, MaxWrong

VARIABLES
  \* HeadNodeClient
  cluster, subscriber, process, queue, client, head, connected, budget,
  \* BeamCompensation
  given, method, offsets, beamCache, shifts, beamLog, beamTaken, beamChanges,
  restarts,
  \* ScanReaders
  readerParameters, reader, readerSent, passes, triggers, readerChanges,
  errors, replay,
  \* CameraFrames
  port, cameraSocket, cameraInbox, cameraCache, assembled, lost,
  \* PipelineExpansion and Assigner
  canonical, runtime, loaded, back, agents, required, phase, remaining,
  assignments, networks, rejected,
  \* FrameEmitter
  emitterSocket, emitterInbox, emitterParameters, emitterCache, active,
  emitterSent, running, sources, emitterChanges, emitterTaken,
  \* COMReduce
  reducePending, store, reduceSent, reduceRepeats, wrong, reduceLog

HeadClient == INSTANCE HeadNodeClient WITH
  Limit <- QueueLimit, MaxChanges <- MaxClusterChanges

Beam == INSTANCE BeamCompensation WITH
  Replicas <- BeamReplicas, Batches <- NumberedBatches, Files <- Vacuums,
  Parameters <- MethodValues, MaxChanges <- MaxMethodChanges, cache <- beamCache, log <- beamLog,
  taken <- beamTaken, changes <- beamChanges

Readers == INSTANCE ScanReaders WITH
  Files <- ScanFiles, Batches <- BatchesPerFile,
  MaxChanges <- MaxReaderChanges, parameters <- readerParameters,
  sent <- readerSent, changes <- readerChanges

Camera == INSTANCE CameraFrames WITH
  Frames <- CameraFrames, socket <- cameraSocket, inbox <- cameraInbox,
  cache <- cameraCache

Assign == INSTANCE Assigner

Emitter == INSTANCE FrameEmitter WITH
  Limit <- BatchLimit, MaxChanges <- MaxSettings, socket <- emitterSocket,
  inbox <- emitterInbox, parameters <- emitterParameters,
  cache <- emitterCache, sent <- emitterSent, changes <- emitterChanges,
  taken <- emitterTaken

Reduce == INSTANCE COMReduce WITH
  MaxRepeats <- MaxPartRepeats, pending <- reducePending, sent <- reduceSent,
  repeats <- reduceRepeats, log <- reduceLog

------------------------------------------------------------------------------
(* A set of natural numbers that is not empty has a least one.             *)
LEMMA LeastExists ==
  ASSUME NEW T, T \subseteq Nat, T # {}
  PROVE  \E x \in T : \A y \in T : x <= y
<1> DEFINE R == OpToRel(<, Nat)
<1>1. IsWellFoundedOn(R, Nat)
  BY NatLessThanWellFounded
<1>2. R = {ss \in Nat \X Nat : ss[1] < ss[2]}
  BY DEF OpToRel
<1> HIDE DEF R
<1>3. PICK x \in T : \A y \in T : ~ (<<y, x>> \in R)
  BY <1>1, WFMin
<1>4. \A y \in T : ~ (y < x)
  BY <1>2, <1>3
<1>5. \A y \in T : x <= y
  BY <1>4
<1>6. QED
  BY <1>5

LEMMA MaxOf ==
  ASSUME NEW T, NEW n \in Nat, T \subseteq 1..n, T # {}
  PROVE  /\ HeadClient!Max(T) \in T
         /\ \A y \in T : y <= HeadClient!Max(T)
<1> DEFINE U == {n - x : x \in T}
<1>1. U \subseteq Nat
  <2>1. \A x \in T : x \in Nat /\ n - x \in Nat
    OBVIOUS
  <2>2. QED
    BY <2>1
<1>0. U # {}
  OBVIOUS
<1>2. PICK u \in U : \A y \in U : u <= y
  BY <1>0, <1>1, LeastExists
<1>3. PICK x \in T : u = n - x
  BY <1>2
<1>4. \A y \in T : x >= y
  <2> SUFFICES ASSUME NEW y \in T PROVE x >= y
    OBVIOUS
  <2>1. n - y \in U /\ x \in 1..n /\ y \in 1..n
    OBVIOUS
  <2>2. n - x <= n - y
    BY <1>2, <1>3, <2>1
  <2>3. QED
    BY <2>1, <2>2
<1>5. QED
  BY <1>4 DEF HeadClient!Max

------------------------------------------------------------------------------
(* The client of the head node.                                            *)
ClientUpdate ==
  [type : {"state", "connected", "disconnected"}, node : Nodes \cup {None}]
ClientMessage == [body : {"", "HUGZ"}, nodes : HeadClient!States]
ClientProcess ==
  [pc : {"off", "starting", "receiving", "pushing", "telling"},
   address : Addresses \cup {None}, last : Nodes \cup {None}, next : Nodes \cup {None}]
ClientState ==
  [pc : {"open", "switching", "rebinding", "closing", "closed", "lost"}, address : Addresses]

(* The head node that is known after some updates, if h was known before.  *)
News(us) == {i \in DOMAIN us : us[i].type # "state"}
After(h, us) == IF News(us) = {} THEN h ELSE us[HeadClient!Max(News(us))].node

LEMMA HeadAfterIs ==
  ASSUME NEW us PROVE HeadClient!HeadAfter(us) = After(head, us)
BY DEF HeadClient!HeadAfter, After, News

LEMMA MaxIs ==
  ASSUME NEW T, NEW m \in T, T \subseteq Nat, \A y \in T : y <= m
  PROVE  HeadClient!Max(T) = m
<1>1. \A x \in T : (\A y \in T : x >= y) => x = m
  OBVIOUS
<1>2. \A y \in T : m >= y
  OBVIOUS
<1>3. QED
  BY <1>1, <1>2 DEF HeadClient!Max

LEMMA NewsIn ==
  ASSUME NEW us \in Seq(ClientUpdate), News(us) # {}
  PROVE  /\ HeadClient!Max(News(us)) \in News(us)
         /\ \A y \in News(us) : y <= HeadClient!Max(News(us))
<1>1. News(us) \subseteq 1..Len(us) /\ Len(us) \in Nat
  BY DEF News
<1>2. QED
  BY <1>1, MaxOf

LEMMA AfterAppend ==
  ASSUME NEW us \in Seq(ClientUpdate), NEW u \in ClientUpdate, NEW h
  PROVE  After(h, Append(us, u)) = IF u.type = "state" THEN After(h, us) ELSE u.node
<1> DEFINE longer == Append(us, u)
<1>1. /\ Len(us) \in Nat /\ DOMAIN us = 1..Len(us) /\ DOMAIN longer = 1..Len(us) + 1
      /\ longer[Len(us) + 1] = u /\ \A i \in 1..Len(us) : longer[i] = us[i]
  OBVIOUS
<1> HIDE DEF longer
<1>2. CASE u.type = "state"
  <2>1. News(longer) = News(us)
    BY <1>1, <1>2 DEF News
  <2>2. CASE News(us) = {}
    BY <1>2, <2>1, <2>2 DEF After, longer
  <2>3. CASE News(us) # {}
    <3>1. HeadClient!Max(News(us)) \in 1..Len(us)
      BY <1>1, <2>3, NewsIn DEF News
    <3>2. QED
      BY <1>1, <1>2, <2>1, <2>3, <3>1 DEF After, longer
  <2>4. QED
    BY <2>2, <2>3
<1>3. CASE u.type # "state"
  <2>1. Len(us) + 1 \in News(longer) /\ News(longer) \subseteq 1..Len(us) + 1
    BY <1>1, <1>3 DEF News
  <2>2. \A y \in News(longer) : y <= Len(us) + 1
    BY <1>1, <2>1
  <2>3. News(longer) \subseteq Nat
    BY <2>1
  <2>4. HeadClient!Max(News(longer)) = Len(us) + 1
    BY <2>1, <2>2, <2>3, MaxIs
  <2>5. QED
    BY <1>1, <1>3, <2>1, <2>4 DEF After, longer
<1>4. QED
  BY <1>2, <1>3

LEMMA AfterSplit ==
  ASSUME NEW us \in Seq(ClientUpdate), NEW n \in 0..Len(us), NEW h
  PROVE  After(After(h, SubSeq(us, 1, n)), SubSeq(us, n + 1, Len(us))) = After(h, us)
<1> DEFINE a == SubSeq(us, 1, n)
           b == SubSeq(us, n + 1, Len(us))
<1>1. /\ Len(us) \in Nat /\ n \in Nat /\ n <= Len(us) /\ DOMAIN us = 1..Len(us)
      /\ a \in Seq(ClientUpdate) /\ Len(a) = n /\ DOMAIN a = 1..n
      /\ b \in Seq(ClientUpdate) /\ Len(b) = Len(us) - n /\ DOMAIN b = 1..Len(us) - n
      /\ \A i \in 1..n : a[i] = us[i]
      /\ \A i \in 1..Len(us) - n : b[i] = us[i + n]
  OBVIOUS
<1> HIDE DEF a, b
<1>2. \A i \in 1..n : i \in News(a) <=> i \in News(us)
  BY <1>1 DEF News
<1>3. \A i \in 1..Len(us) - n : i \in News(b) <=> i + n \in News(us)
  BY <1>1 DEF News
<1>4. News(a) \subseteq 1..n /\ News(b) \subseteq 1..Len(us) - n /\ News(us) \subseteq 1..Len(us)
  BY <1>1 DEF News
<1>5. CASE News(b) # {}
  <2>1. PICK m \in News(b) : m = HeadClient!Max(News(b)) /\ \A y \in News(b) : y <= m
    BY <1>1, <1>5, NewsIn
  <2>2. m + n \in News(us) /\ m \in Nat
    BY <1>1, <1>3, <1>4, <2>1
  <2>3. \A y \in News(us) : y <= m + n
    <3> SUFFICES ASSUME NEW y \in News(us), y > n PROVE y <= m + n
      BY <1>1, <1>4, <2>2
    <3>1. y - n \in 1..Len(us) - n /\ (y - n) + n = y
      BY <1>1, <1>4
    <3>2. y - n \in News(b)
      BY <1>3, <3>1
    <3>3. QED
      BY <1>1, <1>4, <2>1, <2>2, <3>2
  <2>4. HeadClient!Max(News(us)) = m + n
    <3>1. News(us) \subseteq Nat
      BY <1>4
    <3>2. QED
      BY <2>2, <2>3, <3>1, MaxIs
  <2>5. us[m + n] = b[m]
    BY <1>1, <1>4, <2>1
  <2>6. QED
    BY <1>5, <2>1, <2>2, <2>4, <2>5 DEF After, a, b
<1>6. CASE News(b) = {} /\ News(a) # {}
  <2>1. News(us) = News(a)
    <3>1. \A i \in News(us) : i \in 1..n
      <4> SUFFICES ASSUME NEW i \in News(us), i > n PROVE FALSE
        BY <1>1, <1>4
      <4>1. i - n \in 1..Len(us) - n /\ (i - n) + n = i
        BY <1>1, <1>4
      <4>2. QED
        BY <1>3, <1>6, <4>1
    <3>2. QED
      BY <1>2, <1>4, <3>1
  <2>2. HeadClient!Max(News(a)) \in 1..n
    BY <1>1, <1>4, <1>6, NewsIn
  <2>3. QED
    BY <1>1, <1>6, <2>1, <2>2 DEF After, a, b
<1>7. CASE News(b) = {} /\ News(a) = {}
  <2>1. News(us) = {}
    <3> SUFFICES ASSUME NEW i \in News(us) PROVE FALSE
      OBVIOUS
    <3>1. CASE i <= n
      BY <1>1, <1>2, <1>4, <1>7, <3>1
    <3>2. CASE i > n
      <4>1. i - n \in 1..Len(us) - n /\ (i - n) + n = i
        BY <1>1, <1>4, <3>2
      <4>2. QED
        BY <1>3, <1>7, <4>1
    <3>3. QED
      BY <1>1, <1>4, <3>1, <3>2
  <2>2. QED
    BY <1>7, <2>1 DEF After, a, b
<1>8. QED
  BY <1>5, <1>6, <1>7

LEMMA HeadOfState ==
  ASSUME NEW s \in HeadClient!States PROVE HeadClient!HeadOf(s) \in Nodes \cup {None}
<1>1. s \in UNION {[1..m -> Nodes] : m \in 0..2}
  BY DEF HeadClient!States, HeadClient!BoundedSeq, HeadClient!SeqOf
<1>2. PICK m \in 0..2 : s \in [1..m -> Nodes]
  BY <1>1
<1>3. CASE m = 0
  BY <1>2, <1>3 DEF HeadClient!HeadOf
<1>4. CASE m # 0
  BY <1>2, <1>4 DEF HeadClient!HeadOf
<1>5. QED
  BY <1>3, <1>4

LEMMA NoNodesIsState == <<>> \in HeadClient!States
<1>1. <<>> \in [1..0 -> Nodes]
  OBVIOUS
<1>2. <<>> \in HeadClient!BoundedSeq(Nodes, 2)
  BY <1>1 DEF HeadClient!BoundedSeq, HeadClient!SeqOf
<1>3. QED
  BY <1>2 DEF HeadClient!States

LEMMA ClientInitTypes ==
  HeadClient!ClientAssumption /\ HeadClient!Init => HeadClient!ClientTypeOK
<1> SUFFICES ASSUME HeadClient!ClientAssumption, HeadClient!Init PROVE HeadClient!ClientTypeOK
  OBVIOUS
<1>1. PICK a \in Addresses \ Unusable :
        /\ client = [pc |-> "open", address |-> a]
        /\ process = [HeadClient!Off EXCEPT !.pc = "starting", !.address = a]
  BY DEF HeadClient!Init
<1>2. /\ cluster \in [Addresses -> HeadClient!States] /\ subscriber = <<>> /\ queue = <<>>
      /\ head = None /\ connected = None
      /\ budget = [change |-> MaxClusterChanges, switch |-> MaxSwitches, bind |-> MaxBindErrors]
  BY DEF HeadClient!Init
<1>3. QueueLimit \in Nat \ {0} /\ {MaxClusterChanges, MaxSwitches, MaxBindErrors} \subseteq Nat
  BY DEF HeadClient!ClientAssumption
<1>4. subscriber \in Seq([body : {"", "HUGZ"}, nodes : HeadClient!States]) /\ Len(subscriber) <= QueueLimit
  BY <1>2, <1>3
<1>5. queue \in Seq([type : {"state", "connected", "disconnected"}, node : Nodes \cup {None}])
      /\ Len(queue) <= QueueLimit
  BY <1>2, <1>3
<1>6. budget \in [{"change", "switch", "bind"} -> Nat]
  BY <1>2, <1>3
<1>7. process \in ClientProcess /\ client \in ClientState
  BY <1>1 DEF HeadClient!Off, ClientProcess, ClientState
<1>8. QED
  BY <1>2, <1>4, <1>5, <1>6, <1>7 DEF HeadClient!ClientTypeOK, ClientProcess, ClientState

(* The steps of the client and of its process, one by one.                 *)
LEMMA ClientNextCases ==
  ASSUME [HeadClient!Next]_(HeadClient!vars)
  PROVE  \/ \E a \in Addresses, s \in HeadClient!States : HeadClient!Changes(a, s)
         \/ HeadClient!PublishesState \/ HeadClient!Beats
         \/ HeadClient!Ends /\ (HeadClient!Stopping \/ process.pc = "starting")
         \/ HeadClient!SetsUp \/ HeadClient!Receives
         \/ HeadClient!PushesState \/ HeadClient!TellsHead
         \/ HeadClient!Asks \/ HeadClient!GetsDataSocket
         \/ \E a \in Addresses : HeadClient!Switches(a)
         \/ HeadClient!Closes \/ HeadClient!ShutsDown
         \/ HeadClient!Rebinds \/ HeadClient!RebindFails
         \/ UNCHANGED HeadClient!vars
BY DEF HeadClient!Next, HeadClient!Publisher, HeadClient!Background, HeadClient!Calls,
       HeadClient!Shutdown, HeadClient!Closed, HeadClient!SetupFails, HeadClient!SeesStop,
       HeadClient!Terminates

LEMMA BudgetStep ==
  ASSUME budget \in [{"change", "switch", "bind"} -> Nat], NEW k \in {"change", "switch", "bind"},
         HeadClient!Spend(k)
  PROVE  /\ budget' \in [{"change", "switch", "bind"} -> Nat]
         /\ budget[k] # 0
BY DEF HeadClient!Spend

ClientTyped(c, s, p, q, l, h, n, b) ==
  /\ c \in [Addresses -> HeadClient!States]
  /\ s \in Seq(ClientMessage) /\ Len(s) <= QueueLimit
  /\ q \in Seq(ClientUpdate) /\ Len(q) <= QueueLimit
  /\ p \in ClientProcess
  /\ l \in ClientState
  /\ h \in Nodes \cup {None} /\ n \in Nodes \cup {None}
  /\ b \in [{"change", "switch", "bind"} -> Nat]

LEMMA ClientTypedIs ==
  /\ HeadClient!ClientTypeOK <=>
       ClientTyped(cluster, subscriber, process, queue, client, head, connected, budget)
  /\ HeadClient!ClientTypeOK' <=>
       ClientTyped(cluster', subscriber', process', queue', client', head', connected', budget')
<1>1. HeadClient!ClientTypeOK <=>
        ClientTyped(cluster, subscriber, process, queue, client, head, connected, budget)
  BY Zenon DEF HeadClient!ClientTypeOK, ClientTyped, ClientMessage, ClientUpdate, ClientProcess, ClientState
<1>2. HeadClient!ClientTypeOK' <=>
        ClientTyped(cluster', subscriber', process', queue', client', head', connected', budget')
  BY Zenon DEF HeadClient!ClientTypeOK, ClientTyped, ClientMessage, ClientUpdate, ClientProcess, ClientState
<1>3. QED
  BY <1>1, <1>2

LEMMA AfterType ==
  ASSUME NEW us \in Seq(ClientUpdate), NEW h \in Nodes \cup {None}
  PROVE  After(h, us) \in Nodes \cup {None}
<1>1. CASE News(us) = {}
  BY <1>1 DEF After
<1>2. CASE News(us) # {}
  <2>1. HeadClient!Max(News(us)) \in DOMAIN us
    BY <1>2, NewsIn DEF News
  <2>2. us[HeadClient!Max(News(us))] \in ClientUpdate
    BY <2>1
  <2>3. QED
    BY <1>2, <2>2 DEF After, ClientUpdate
<1>3. QED
  BY <1>1, <1>2

LEMMA DrainsType ==
  ASSUME HeadClient!ClientTypeOK, NEW n \in 0..QueueLimit, QueueLimit \in Nat, HeadClient!Drains(n)
  PROVE  /\ queue' \in Seq(ClientUpdate) /\ Len(queue') <= QueueLimit
         /\ head' \in Nodes \cup {None}
         /\ client.pc = "open"
         /\ n \in 0..Len(queue)
         /\ queue' = SubSeq(queue, n + 1, Len(queue))
         /\ head' = After(head, SubSeq(queue, 1, n))
<1>1. /\ queue \in Seq(ClientUpdate) /\ Len(queue) <= QueueLimit /\ head \in Nodes \cup {None}
  BY ClientTypedIs DEF ClientTyped
<1>2. n <= Len(queue) /\ client.pc = "open" /\ queue' = SubSeq(queue, n + 1, Len(queue))
  BY DEF HeadClient!Drains
<1>3. head' = After(head, SubSeq(queue, 1, n))
  BY HeadAfterIs DEF HeadClient!Drains
<1>4. SubSeq(queue, 1, n) \in Seq(ClientUpdate)
  BY <1>1, <1>2
<1>5. head' \in Nodes \cup {None}
  BY <1>1, <1>3, <1>4, AfterType
<1>6. queue' \in Seq(ClientUpdate) /\ Len(queue') <= QueueLimit
  BY <1>1, <1>2
<1>7. QED
  BY <1>1, <1>2, <1>3, <1>5, <1>6

(* The process knows what it subscribes to.                                *)
Addressed == process.pc # "off" => process.address \in Addresses

LEMMA ClientStepTypes ==
  ASSUME HeadClient!ClientAssumption, HeadClient!ClientTypeOK, Addressed,
         [HeadClient!Next]_(HeadClient!vars)
  PROVE  HeadClient!ClientTypeOK'
<1>0. ClientTyped(cluster, subscriber, process, queue, client, head, connected, budget)
  BY ClientTypedIs
<1> SUFFICES ClientTyped(cluster', subscriber', process', queue', client', head', connected', budget')
  BY ClientTypedIs
<1>l. QueueLimit \in Nat \ {0}
  BY DEF HeadClient!ClientAssumption
<1>1. CASE \E a \in Addresses, s \in HeadClient!States : HeadClient!Changes(a, s)
  <2>1. PICK a \in Addresses, s \in HeadClient!States : HeadClient!Changes(a, s)
    BY <1>1
  <2>2. budget' \in [{"change", "switch", "bind"} -> Nat]
    BY <1>0, <2>1, BudgetStep DEF HeadClient!Changes, ClientTyped
  <2>3. QED
    BY <1>0, <2>1, <2>2 DEF HeadClient!Changes, ClientTyped
<1>2. CASE HeadClient!PublishesState
  <2>1. process.address \in Addresses
    BY <1>2 DEF HeadClient!PublishesState, HeadClient!Listens, Addressed
  <2>2. HeadClient!Message("", cluster[process.address]) \in ClientMessage
    BY <1>0, <2>1 DEF HeadClient!Message, ClientTyped, ClientMessage
  <2>3. PICK m \in ClientMessage : HeadClient!Publishes(m)
    BY <1>2, <2>2 DEF HeadClient!PublishesState
  <2>4. subscriber' \in Seq(ClientMessage) /\ Len(subscriber') <= QueueLimit
    BY <1>0, <1>l, <2>3 DEF HeadClient!Publishes, ClientTyped
  <2>5. QED
    BY <1>0, <2>3, <2>4 DEF HeadClient!Publishes, HeadClient!Free, ClientTyped
<1>3. CASE HeadClient!Beats
  <2>1. HeadClient!Heartbeat \in ClientMessage
    BY NoNodesIsState DEF HeadClient!Heartbeat, HeadClient!Message, ClientMessage
  <2>2. QED
    BY <1>0, <1>3, <1>l, <2>1 DEF HeadClient!Beats, HeadClient!Publishes, HeadClient!Free, ClientTyped
<1>4. CASE HeadClient!Ends
  BY <1>0, <1>4, <1>l DEF HeadClient!Ends, HeadClient!Off, HeadClient!Free, ClientTyped, ClientProcess
<1>5. CASE HeadClient!SetsUp
  BY <1>0, <1>5 DEF HeadClient!SetsUp, HeadClient!Free, ClientTyped, ClientProcess
<1>6. CASE HeadClient!Receives
  <2>1. subscriber[1] \in ClientMessage /\ Tail(subscriber) \in Seq(ClientMessage)
        /\ Len(Tail(subscriber)) <= QueueLimit
    BY <1>0, <1>6, <1>l DEF HeadClient!Receives, ClientTyped
  <2>2. HeadClient!HeadOf(subscriber[1].nodes) \in Nodes \cup {None}
    BY <2>1, HeadOfState DEF ClientMessage
  <2>3. QED
    BY <1>0, <1>6, <2>1, <2>2 DEF HeadClient!Receives, HeadClient!Free, ClientTyped, ClientProcess
<1>7. CASE HeadClient!PushesState
  <2>1. HeadClient!Update("state", process.next) \in ClientUpdate
    BY <1>0 DEF HeadClient!Update, ClientTyped, ClientProcess, ClientUpdate
  <2>2. queue' \in Seq(ClientUpdate) /\ Len(queue') <= QueueLimit
    BY <1>0, <1>7, <1>l, <2>1 DEF HeadClient!PushesState, ClientTyped
  <2>3. QED
    BY <1>0, <1>7, <2>2 DEF HeadClient!PushesState, HeadClient!Free, ClientTyped, ClientProcess
<1>8. CASE HeadClient!TellsHead
  <2>1. HeadClient!Update(IF process.next = None THEN "disconnected" ELSE "connected", process.next)
          \in ClientUpdate
    BY <1>0 DEF HeadClient!Update, ClientTyped, ClientProcess, ClientUpdate
  <2>2. queue' \in Seq(ClientUpdate) /\ Len(queue') <= QueueLimit
    BY <1>0, <1>8, <1>l, <2>1 DEF HeadClient!TellsHead, ClientTyped
  <2>3. QED
    BY <1>0, <1>8, <2>2 DEF HeadClient!TellsHead, HeadClient!Free, ClientTyped, ClientProcess
<1>9. CASE HeadClient!Asks
  <2>1. PICK n \in 1..QueueLimit : HeadClient!Drains(n)
    BY <1>9 DEF HeadClient!Asks
  <2>2. n \in 0..QueueLimit
    BY <1>l
  <2>3. queue' \in Seq(ClientUpdate) /\ Len(queue') <= QueueLimit /\ head' \in Nodes \cup {None}
    BY <1>l, <2>1, <2>2, DrainsType
  <2>4. QED
    BY <1>0, <1>9, <2>3 DEF HeadClient!Asks, HeadClient!Free, ClientTyped
<1>10. CASE HeadClient!GetsDataSocket
  <2>1. PICK n \in 0..QueueLimit : HeadClient!Drains(n)
    BY <1>10 DEF HeadClient!GetsDataSocket
  <2>2. queue' \in Seq(ClientUpdate) /\ Len(queue') <= QueueLimit /\ head' \in Nodes \cup {None}
    BY <1>l, <2>1, DrainsType
  <2>3. QED
    BY <1>0, <1>10, <2>2 DEF HeadClient!GetsDataSocket, HeadClient!Free, ClientTyped
<1>11. CASE \E a \in Addresses : HeadClient!Switches(a)
  <2>1. PICK a \in Addresses : HeadClient!Switches(a)
    BY <1>11
  <2>2. budget' \in [{"change", "switch", "bind"} -> Nat]
    BY <1>0, <2>1, BudgetStep DEF HeadClient!Switches, ClientTyped
  <2>3. QED
    BY <1>0, <2>1, <2>2 DEF HeadClient!Switches, ClientTyped, ClientState
<1>12. CASE HeadClient!Closes
  BY <1>0, <1>12 DEF HeadClient!Closes, HeadClient!Free, ClientTyped, ClientState
<1>13. CASE HeadClient!ShutsDown
  <2>1. client' \in ClientState
    BY <1>0, <1>13 DEF HeadClient!ShutsDown, ClientTyped, ClientState
  <2>2. queue' \in Seq(ClientUpdate) /\ Len(queue') <= QueueLimit
    BY <1>13, <1>l DEF HeadClient!ShutsDown
  <2>3. QED
    BY <1>0, <1>13, <2>1, <2>2 DEF HeadClient!ShutsDown, HeadClient!Free, ClientTyped
<1>14. CASE HeadClient!Rebinds
  BY <1>0, <1>14 DEF HeadClient!Rebinds, HeadClient!Off, HeadClient!Free, ClientTyped, ClientState, ClientProcess
<1>15. CASE HeadClient!RebindFails
  <2>1. budget' \in [{"change", "switch", "bind"} -> Nat]
    BY <1>0, <1>15, BudgetStep DEF HeadClient!RebindFails, ClientTyped
  <2>2. QED
    BY <1>0, <1>15, <2>1 DEF HeadClient!RebindFails, ClientTyped, ClientState
<1>16. CASE UNCHANGED HeadClient!vars
  BY <1>0, <1>16 DEF HeadClient!vars
<1>17. QED
  BY <1>1, <1>2, <1>3, <1>4, <1>5, <1>6, <1>7, <1>8, <1>9, <1>10, <1>11, <1>12, <1>13, <1>14,
     <1>15, <1>16, ClientNextCases

(* What the process told last is what the client will know once it has     *)
(* taken all that is pushed.                                               *)
Tells == process.last # None /\ client.pc = "open" => After(head, queue) = process.last

ClientInv == HeadClient!ClientTypeOK /\ Addressed /\ Tells

LEMMA AddressedStays ==
  ASSUME HeadClient!ClientTypeOK, Addressed, [HeadClient!Next]_(HeadClient!vars)
  PROVE  Addressed'
<1>1. client.address \in Addresses /\ process \in ClientProcess
  BY ClientTypedIs DEF ClientTyped, ClientState
<1>2. CASE process' = process
  BY <1>2 DEF Addressed
<1>3. CASE HeadClient!Ends
  BY <1>3 DEF HeadClient!Ends, HeadClient!Off, Addressed
<1>4. CASE HeadClient!SetsUp \/ HeadClient!Receives \/ HeadClient!PushesState \/ HeadClient!TellsHead
  BY <1>1, <1>4 DEF HeadClient!SetsUp, HeadClient!Receives, HeadClient!PushesState,
    HeadClient!TellsHead, Addressed, ClientProcess
<1>5. CASE HeadClient!Rebinds
  BY <1>1, <1>5 DEF HeadClient!Rebinds, HeadClient!Off, Addressed
<1>6. QED
  <2>1. \/ process' = process
        \/ HeadClient!Ends \/ HeadClient!SetsUp \/ HeadClient!Receives
        \/ HeadClient!PushesState \/ HeadClient!TellsHead \/ HeadClient!Rebinds
    BY ClientNextCases DEF HeadClient!Changes, HeadClient!PublishesState, HeadClient!Beats,
      HeadClient!Publishes, HeadClient!Asks, HeadClient!GetsDataSocket, HeadClient!Switches,
      HeadClient!Closes, HeadClient!ShutsDown, HeadClient!RebindFails, HeadClient!vars
  <2>2. QED
    BY <1>2, <1>3, <1>4, <1>5, <2>1

LEMMA TellsStays ==
  ASSUME HeadClient!ClientAssumption, ClientInv, [HeadClient!Next]_(HeadClient!vars)
  PROVE  Tells'
<1>0. /\ queue \in Seq(ClientUpdate) /\ process \in ClientProcess /\ client \in ClientState
      /\ QueueLimit \in Nat \ {0}
  BY ClientTypedIs DEF ClientInv, ClientTyped, HeadClient!ClientAssumption
<1>1. CASE /\ queue' = queue /\ head' = head
           /\ process'.last = process.last
           /\ client'.pc = "open" => client.pc = "open"
  BY <1>1 DEF ClientInv, Tells
<1>2. CASE HeadClient!Ends \/ HeadClient!Rebinds
  <2>1. CASE HeadClient!Ends
    BY <2>1 DEF HeadClient!Ends, HeadClient!Off, Tells
  <2>2. CASE HeadClient!Rebinds
    <3>1. process' = [HeadClient!Off EXCEPT !.pc = "starting", !.address = client.address]
      BY <2>2 DEF HeadClient!Rebinds
    <3>2. process'.last = None
      BY <3>1 DEF HeadClient!Off
    <3>3. QED
      BY <3>2 DEF Tells
  <2>3. QED
    BY <1>2, <2>1, <2>2
<1>3. CASE HeadClient!PushesState
  <2>1. HeadClient!Update("state", process.next) \in ClientUpdate
    BY <1>0 DEF HeadClient!Update, ClientProcess, ClientUpdate
  <2>2. After(head, Append(queue, HeadClient!Update("state", process.next))) = After(head, queue)
    BY <1>0, <2>1, AfterAppend DEF HeadClient!Update
  <2>3. process'.last = process.last
    BY <1>0, <1>3 DEF HeadClient!PushesState, ClientProcess
  <2>4. QED
    BY <1>3, <2>2, <2>3 DEF HeadClient!PushesState, ClientInv, Tells
<1>4. CASE HeadClient!TellsHead
  <2> DEFINE u == HeadClient!Update(IF process.next = None THEN "disconnected" ELSE "connected",
                                    process.next)
  <2>1. u \in ClientUpdate /\ u.type # "state" /\ u.node = process.next
    BY <1>0 DEF HeadClient!Update, ClientProcess, ClientUpdate
  <2>2. After(head, Append(queue, u)) = process.next
    BY <1>0, <2>1, AfterAppend
  <2>3. process'.last = process.next
    BY <1>0, <1>4 DEF HeadClient!TellsHead, ClientProcess
  <2>4. QED
    BY <1>4, <2>2, <2>3 DEF HeadClient!TellsHead, Tells
<1>5. CASE HeadClient!Asks \/ HeadClient!GetsDataSocket
  <2>1. PICK n \in 0..QueueLimit : HeadClient!Drains(n)
    BY <1>0, <1>5 DEF HeadClient!Asks, HeadClient!GetsDataSocket
  <2>2. /\ n \in 0..Len(queue)
        /\ queue' = SubSeq(queue, n + 1, Len(queue))
        /\ head' = After(head, SubSeq(queue, 1, n))
    BY <1>0, <2>1, DrainsType DEF ClientInv
  <2>3. After(head', queue') = After(head, queue)
    BY <1>0, <2>2, AfterSplit
  <2>4. process' = process /\ client' = client
    BY <1>5 DEF HeadClient!Asks, HeadClient!GetsDataSocket
  <2>5. QED
    BY <2>3, <2>4 DEF ClientInv, Tells
<1>6. CASE \/ \E a \in Addresses : HeadClient!Switches(a)
           \/ HeadClient!Closes \/ HeadClient!ShutsDown \/ HeadClient!RebindFails
  <2>1. client'.pc # "open"
    BY <1>0, <1>6 DEF HeadClient!Switches, HeadClient!Closes, HeadClient!ShutsDown,
      HeadClient!RebindFails, ClientState
  <2>2. QED
    BY <2>1 DEF Tells
<1>7. CASE HeadClient!SetsUp \/ HeadClient!Receives
  <2>1. process'.last = process.last
    BY <1>0, <1>7 DEF HeadClient!SetsUp, HeadClient!Receives, ClientProcess
  <2>2. QED
    BY <1>1, <1>7, <2>1 DEF HeadClient!SetsUp, HeadClient!Receives
<1>8. CASE \/ \E a \in Addresses, s \in HeadClient!States : HeadClient!Changes(a, s)
           \/ HeadClient!PublishesState \/ HeadClient!Beats
           \/ UNCHANGED HeadClient!vars
  BY <1>1, <1>8 DEF HeadClient!Changes, HeadClient!PublishesState, HeadClient!Beats,
    HeadClient!Publishes, HeadClient!vars
<1>9. QED
  BY <1>2, <1>3, <1>4, <1>5, <1>6, <1>7, <1>8, ClientNextCases

LEMMA ClientStep ==
  ASSUME HeadClient!ClientAssumption, ClientInv, [HeadClient!Next]_(HeadClient!vars)
  PROVE  ClientInv'
BY ClientStepTypes, AddressedStays, TellsStays DEF ClientInv

LEMMA ClientInit ==
  ASSUME HeadClient!ClientAssumption, HeadClient!Init PROVE ClientInv
<1>1. HeadClient!ClientTypeOK
  BY ClientInitTypes
<1>2. process.address \in Addresses /\ process.last = None
  BY DEF HeadClient!Init, HeadClient!Off
<1>3. QED
  BY <1>1, <1>2 DEF ClientInv, Addressed, Tells

LEMMA ClientInvImplies == ClientInv => HeadClient!ClientTypeOK /\ HeadClient!KnowsTheHead
BY HeadAfterIs DEF ClientInv, Tells, HeadClient!KnowsTheHead

(* What the client will know once it has pulled all that is pushed is what *)
(* its process knows (_process_incoming_message, receive_update), whatever *)
(* publishers do, whichever it is told to follow, and although queues fill *)
(* up and rebinds fail.                                                    *)
THEOREM ClientKnowsTheHead ==
  ASSUME HeadClient!ClientAssumption
  PROVE  HeadClient!Spec => [](HeadClient!ClientTypeOK /\ HeadClient!KnowsTheHead)
<1>1. HeadClient!Init => ClientInv
  BY ClientInit
<1>2. ClientInv /\ [HeadClient!Next]_(HeadClient!vars) => ClientInv'
  BY ClientStep
<1>3. QED
  BY <1>1, <1>2, ClientInvImplies, PTL DEF HeadClient!Spec

(* While clusters stay as they are: what is under way from the publisher is*)
(* its state, and what is under way to the client is of the publisher that *)
(* it follows; a client between two publishers has neither process nor     *)
(* updates.                                                                *)
HeadAt(a) == HeadClient!HeadOf(cluster[a])

SameAddress ==
  /\ client.pc = "open" /\ process.pc # "off" => process.address = client.address
  /\ client.pc \in {"rebinding", "lost"} => process.pc = "off" /\ queue = <<>>
SubscriberTells ==
  /\ process.pc \in {"off", "starting"} => subscriber = <<>>
  /\ \A i \in DOMAIN subscriber :
       subscriber[i].body # "HUGZ" => subscriber[i].nodes = cluster[process.address]
ProcessTells == process.pc \in {"pushing", "telling"} => process.next = HeadAt(process.address)
QueueTells == client.pc = "open" => \A i \in News(queue) : queue[i].node = HeadAt(client.address)
Followed ==
  budget["change"] = 0 /\ SameAddress /\ SubscriberTells /\ ProcessTells /\ QueueTells

LEMMA AfterCases ==
  ASSUME NEW us \in Seq(ClientUpdate), NEW h
  PROVE  After(h, us) = h \/ \E i \in News(us) : After(h, us) = us[i].node
<1>1. CASE News(us) = {}
  BY <1>1 DEF After
<1>2. CASE News(us) # {}
  <2>1. HeadClient!Max(News(us)) \in News(us)
    BY <1>2, NewsIn
  <2>2. After(h, us) = us[HeadClient!Max(News(us))].node
    BY <1>2 DEF After
  <2>3. QED
    BY <2>1, <2>2
<1>3. QED
  BY <1>1, <1>2

LEMMA ClusterStays ==
  ASSUME ClientInv, Followed, [HeadClient!Next]_(HeadClient!vars)
  PROVE  cluster' = cluster /\ budget'["change"] = 0
<1>0. budget \in [{"change", "switch", "bind"} -> Nat] /\ budget["change"] = 0
  BY ClientTypedIs DEF ClientInv, ClientTyped, Followed
<1>1. CASE \E a \in Addresses, s \in HeadClient!States : HeadClient!Changes(a, s)
  BY <1>0, <1>1 DEF HeadClient!Changes, HeadClient!Spend
<1>2. CASE \/ \E a \in Addresses : HeadClient!Switches(a)
           \/ HeadClient!RebindFails
  BY <1>0, <1>2 DEF HeadClient!Switches, HeadClient!RebindFails, HeadClient!Spend
<1>3. CASE cluster' = cluster /\ budget' = budget
  BY <1>0, <1>3
<1>4. QED
  <2>1. \/ \E a \in Addresses, s \in HeadClient!States : HeadClient!Changes(a, s)
        \/ \E a \in Addresses : HeadClient!Switches(a)
        \/ HeadClient!RebindFails
        \/ cluster' = cluster /\ budget' = budget
    BY ClientNextCases DEF HeadClient!PublishesState, HeadClient!Beats,
      HeadClient!Publishes, HeadClient!Asks, HeadClient!GetsDataSocket, HeadClient!Ends,
      HeadClient!SetsUp, HeadClient!Receives, HeadClient!PushesState, HeadClient!TellsHead,
      HeadClient!Closes, HeadClient!ShutsDown, HeadClient!Rebinds, HeadClient!Free, HeadClient!vars
  <2>2. QED
    BY <1>1, <1>2, <1>3, <2>1

LEMMA SameAddressStays ==
  ASSUME ClientInv, Followed, [HeadClient!Next]_(HeadClient!vars)
  PROVE  SameAddress'
<1>0. process \in ClientProcess /\ client \in ClientState
  BY ClientTypedIs DEF ClientInv, ClientTyped
<1>1. CASE process' = process /\ client' = client /\ queue' = queue
  BY <1>1 DEF Followed, SameAddress
<1>2. CASE HeadClient!Ends
  BY <1>0, <1>2 DEF HeadClient!Ends, HeadClient!Off, Followed, SameAddress
<1>3. CASE HeadClient!SetsUp \/ HeadClient!Receives
  <2>1. /\ process'.address = process.address /\ process.pc # "off"
        /\ client' = client /\ queue' = queue
    BY <1>0, <1>3 DEF HeadClient!SetsUp, HeadClient!Receives, ClientProcess
  <2>2. QED
    BY <2>1 DEF Followed, SameAddress
<1>4. CASE HeadClient!PushesState \/ HeadClient!TellsHead
  <2>1. /\ process'.address = process.address /\ process.pc # "off" /\ client' = client
    BY <1>0, <1>4 DEF HeadClient!PushesState, HeadClient!TellsHead, ClientProcess
  <2>2. QED
    BY <2>1 DEF Followed, SameAddress
<1>5. CASE HeadClient!Asks \/ HeadClient!GetsDataSocket
  <2>1. client.pc = "open" /\ client' = client /\ process' = process
    BY <1>5 DEF HeadClient!Asks, HeadClient!GetsDataSocket, HeadClient!Drains
  <2>2. QED
    BY <2>1 DEF Followed, SameAddress
<1>6. CASE (\E a \in Addresses : HeadClient!Switches(a)) \/ HeadClient!Closes
  <2>1. client'.pc \in {"switching", "closing"}
    BY <1>0, <1>6 DEF HeadClient!Switches, HeadClient!Closes, ClientState
  <2>2. QED
    BY <2>1 DEF SameAddress
<1>7. CASE HeadClient!ShutsDown
  <2>1. process'.pc = "off" /\ queue' = <<>>
    BY <1>7 DEF HeadClient!ShutsDown
  <2>2. QED
    BY <2>1 DEF SameAddress
<1>8. CASE HeadClient!Rebinds
  <2>1. client'.pc = "open" /\ client'.address = client.address
    BY <1>0, <1>8 DEF HeadClient!Rebinds, ClientState
  <2>2. process'.address = client.address
    BY <1>8 DEF HeadClient!Rebinds, HeadClient!Off
  <2>3. QED
    BY <2>1, <2>2 DEF SameAddress
<1>9. CASE HeadClient!RebindFails
  <2>1. client.pc = "rebinding" /\ process' = process /\ queue' = queue
    BY <1>9 DEF HeadClient!RebindFails
  <2>2. QED
    BY <1>0, <2>1 DEF SameAddress, Followed
<1>10. QED
  <2>1. \/ process' = process /\ client' = client /\ queue' = queue
        \/ HeadClient!Ends \/ HeadClient!SetsUp \/ HeadClient!Receives
        \/ HeadClient!PushesState \/ HeadClient!TellsHead \/ HeadClient!Asks
        \/ HeadClient!GetsDataSocket \/ (\E a \in Addresses : HeadClient!Switches(a))
        \/ HeadClient!Closes \/ HeadClient!ShutsDown
        \/ HeadClient!Rebinds \/ HeadClient!RebindFails
    BY ClientNextCases DEF HeadClient!Changes, HeadClient!PublishesState, HeadClient!Beats,
      HeadClient!Publishes, HeadClient!vars
  <2>2. QED
    BY <1>1, <1>2, <1>3, <1>4, <1>5, <1>6, <1>7, <1>8, <1>9, <2>1

LEMMA SubscriberTellsStays ==
  ASSUME ClientInv, Followed, [HeadClient!Next]_(HeadClient!vars)
  PROVE  SubscriberTells'
<1>0. /\ process \in ClientProcess /\ subscriber \in Seq(ClientMessage)
      /\ cluster' = cluster
  BY ClientTypedIs, ClusterStays DEF ClientInv, ClientTyped
<1>a. /\ process.pc \in {"off", "starting"} => subscriber = <<>>
      /\ \A i \in DOMAIN subscriber :
           subscriber[i].body # "HUGZ" => subscriber[i].nodes = cluster[process.address]
  BY DEF Followed, SubscriberTells
<1>1. CASE process' = process /\ subscriber' = subscriber
  BY <1>0, <1>a, <1>1 DEF SubscriberTells
<1>2. CASE HeadClient!Ends \/ HeadClient!Rebinds
  <2>1. process.pc = "off" \/ HeadClient!Ends
    BY <1>2 DEF HeadClient!Rebinds, Followed, SameAddress
  <2>2. subscriber' = <<>>
    BY <1>2, <1>a, <2>1 DEF HeadClient!Ends, HeadClient!Rebinds
  <2>3. QED
    BY <2>2 DEF SubscriberTells
<1>3. CASE HeadClient!SetsUp
  <2>1. subscriber' = <<>>
    BY <1>3, <1>a DEF HeadClient!SetsUp
  <2>2. QED
    BY <2>1 DEF SubscriberTells
<1>4. CASE HeadClient!PushesState \/ HeadClient!TellsHead
  <2>1. /\ process'.address = process.address /\ subscriber' = subscriber
        /\ process.pc \notin {"off", "starting"} /\ process'.pc \notin {"off", "starting"}
    BY <1>0, <1>4 DEF HeadClient!PushesState, HeadClient!TellsHead, ClientProcess
  <2>2. QED
    BY <1>0, <1>a, <2>1 DEF SubscriberTells
<1>5. CASE HeadClient!Receives
  <2>1. /\ process'.address = process.address /\ process'.pc \notin {"off", "starting"}
    BY <1>0, <1>5 DEF HeadClient!Receives, ClientProcess
  <2>2. /\ DOMAIN subscriber' = 1..Len(subscriber) - 1 /\ Len(subscriber) \in Nat
        /\ DOMAIN subscriber = 1..Len(subscriber)
        /\ \A i \in 1..Len(subscriber) - 1 : subscriber'[i] = subscriber[i + 1]
    BY <1>0, <1>5 DEF HeadClient!Receives
  <2>3. \A i \in DOMAIN subscriber' :
          subscriber'[i].body # "HUGZ" => subscriber'[i].nodes = cluster'[process'.address]
    <3> SUFFICES ASSUME NEW i \in 1..Len(subscriber) - 1, subscriber'[i].body # "HUGZ"
                 PROVE  subscriber'[i].nodes = cluster[process.address]
      BY <1>0, <2>1, <2>2
    <3>1. i + 1 \in DOMAIN subscriber /\ subscriber'[i] = subscriber[i + 1]
      BY <2>2
    <3>2. QED
      BY <1>a, <3>1
  <2>4. QED
    BY <2>1, <2>3 DEF SubscriberTells
<1>6. CASE HeadClient!PublishesState \/ HeadClient!Beats
  <2>1. PICK m : /\ HeadClient!Publishes(m)
                 /\ m.body # "HUGZ" => m.nodes = cluster[process.address]
    <3>1. CASE HeadClient!PublishesState
      <4> DEFINE m == HeadClient!Message("", cluster[process.address])
      <4>1. HeadClient!Publishes(m)
        BY <3>1 DEF HeadClient!PublishesState
      <4>2. m.nodes = cluster[process.address]
        BY DEF HeadClient!Message
      <4>3. QED
        BY <4>1, <4>2
    <3>2. CASE HeadClient!Beats
      <4>1. HeadClient!Publishes(HeadClient!Heartbeat)
        BY <3>2 DEF HeadClient!Beats
      <4>2. HeadClient!Heartbeat.body = "HUGZ"
        BY DEF HeadClient!Heartbeat, HeadClient!Message
      <4>3. QED
        BY <4>1, <4>2
    <3>3. QED
      BY <1>6, <3>1, <3>2
  <2>2. subscriber' = Append(subscriber, m) /\ process' = process
        /\ process.pc \notin {"off", "starting"}
    BY <2>1 DEF HeadClient!Publishes, HeadClient!Listens
  <2>3. /\ DOMAIN subscriber' = 1..Len(subscriber) + 1 /\ Len(subscriber) \in Nat
        /\ DOMAIN subscriber = 1..Len(subscriber)
        /\ subscriber'[Len(subscriber) + 1] = m
        /\ \A i \in 1..Len(subscriber) : subscriber'[i] = subscriber[i]
    BY <1>0, <2>2
  <2>4. \A i \in DOMAIN subscriber' :
          subscriber'[i].body # "HUGZ" => subscriber'[i].nodes = cluster'[process'.address]
    <3> SUFFICES ASSUME NEW i \in DOMAIN subscriber', subscriber'[i].body # "HUGZ"
                 PROVE  subscriber'[i].nodes = cluster[process.address]
      BY <1>0, <2>2
    <3>1. CASE i \in DOMAIN subscriber
      BY <1>a, <2>3, <3>1
    <3>2. CASE i \notin DOMAIN subscriber
      <4>1. i = Len(subscriber) + 1
        BY <2>3, <3>2
      <4>2. QED
        BY <2>1, <2>3, <4>1
    <3>3. QED
      BY <3>1, <3>2
  <2>5. QED
    BY <2>2, <2>4 DEF SubscriberTells
<1>7. QED
  <2>1. \/ process' = process /\ subscriber' = subscriber
        \/ HeadClient!Ends \/ HeadClient!SetsUp \/ HeadClient!Receives
        \/ HeadClient!PushesState \/ HeadClient!TellsHead \/ HeadClient!Rebinds
        \/ HeadClient!PublishesState \/ HeadClient!Beats
    BY ClientNextCases DEF HeadClient!Changes, HeadClient!Asks, HeadClient!GetsDataSocket,
      HeadClient!Switches, HeadClient!Closes, HeadClient!ShutsDown, HeadClient!RebindFails,
      HeadClient!vars
  <2>2. QED
    BY <1>1, <1>2, <1>3, <1>4, <1>5, <1>6, <2>1

LEMMA ProcessTellsStays ==
  ASSUME ClientInv, Followed, [HeadClient!Next]_(HeadClient!vars)
  PROVE  ProcessTells'
<1>0. /\ process \in ClientProcess /\ subscriber \in Seq(ClientMessage)
      /\ cluster' = cluster
  BY ClientTypedIs, ClusterStays DEF ClientInv, ClientTyped
<1>1. CASE process' = process
  BY <1>0, <1>1 DEF Followed, ProcessTells, HeadAt
<1>2. CASE HeadClient!Ends \/ HeadClient!SetsUp \/ HeadClient!Rebinds \/ HeadClient!TellsHead
  <2>1. process'.pc \notin {"pushing", "telling"}
    <3>1. CASE HeadClient!Ends \/ HeadClient!SetsUp \/ HeadClient!TellsHead
      <4>1. \/ process' = HeadClient!Off
            \/ process' = [process EXCEPT !.pc = "receiving"]
            \/ process' = [process EXCEPT !.pc = "receiving", !.last = process.next]
        BY <3>1 DEF HeadClient!Ends, HeadClient!SetsUp, HeadClient!TellsHead
      <4>2. HeadClient!Off.pc = "off"
        BY DEF HeadClient!Off
      <4>3. process'.pc \in {"off", "receiving"}
        BY <1>0, <4>1, <4>2 DEF ClientProcess
      <4>4. QED
        BY <4>3
    <3>2. CASE HeadClient!Rebinds
      <4>1. process' = [HeadClient!Off EXCEPT !.pc = "starting", !.address = client.address]
        BY <3>2 DEF HeadClient!Rebinds
      <4>2. QED
        BY <4>1 DEF HeadClient!Off
    <3>3. QED
      BY <1>2, <3>1, <3>2
  <2>2. QED
    BY <2>1 DEF ProcessTells
<1>3. CASE HeadClient!PushesState
  <2>1. process.pc = "pushing" /\ process'.next = process.next /\ process'.address = process.address
    BY <1>0, <1>3 DEF HeadClient!PushesState, ClientProcess
  <2>2. QED
    BY <1>0, <2>1 DEF Followed, ProcessTells, HeadAt
<1>4. CASE HeadClient!Receives
  <2>1. CASE subscriber[1].body = "HUGZ"
    BY <1>1, <1>4, <2>1 DEF HeadClient!Receives
  <2>2. CASE subscriber[1].body # "HUGZ"
    <3>1. 1 \in DOMAIN subscriber
      BY <1>0, <1>4 DEF HeadClient!Receives
    <3>2. subscriber[1].nodes = cluster[process.address]
      BY <2>2, <3>1 DEF Followed, SubscriberTells
    <3>3. process'.next = HeadClient!HeadOf(subscriber[1].nodes) /\ process'.address = process.address
      BY <1>0, <1>4, <2>2 DEF HeadClient!Receives, ClientProcess
    <3>4. QED
      BY <1>0, <3>2, <3>3 DEF ProcessTells, HeadAt
  <2>3. QED
    BY <2>1, <2>2
<1>5. QED
  <2>1. \/ process' = process
        \/ HeadClient!Ends \/ HeadClient!SetsUp \/ HeadClient!Receives
        \/ HeadClient!PushesState \/ HeadClient!TellsHead \/ HeadClient!Rebinds
    BY ClientNextCases DEF HeadClient!Changes, HeadClient!PublishesState, HeadClient!Beats,
      HeadClient!Publishes, HeadClient!Asks, HeadClient!GetsDataSocket, HeadClient!Switches,
      HeadClient!Closes, HeadClient!ShutsDown, HeadClient!RebindFails, HeadClient!vars
  <2>2. QED
    BY <1>1, <1>2, <1>3, <1>4, <2>1

LEMMA QueueGrows ==
  ASSUME NEW us \in Seq(ClientUpdate), NEW u \in ClientUpdate
  PROVE  \A i \in News(Append(us, u)) :
           \/ i \in News(us) /\ Append(us, u)[i] = us[i]
           \/ Append(us, u)[i] = u /\ u.type # "state"
BY DEF News

LEMMA QueueTellsStays ==
  ASSUME HeadClient!ClientAssumption, ClientInv, Followed, [HeadClient!Next]_(HeadClient!vars)
  PROVE  QueueTells'
<1>0. /\ queue \in Seq(ClientUpdate) /\ process \in ClientProcess /\ client \in ClientState
      /\ QueueLimit \in Nat \ {0} /\ cluster' = cluster
  BY ClientTypedIs, ClusterStays DEF ClientInv, ClientTyped, HeadClient!ClientAssumption
<1>1. CASE queue' = queue /\ client' = client
  BY <1>0, <1>1 DEF Followed, QueueTells, HeadAt
<1>2. CASE HeadClient!PushesState \/ HeadClient!TellsHead
  <2>1. PICK u \in ClientUpdate :
          /\ queue' = Append(queue, u)
          /\ u.type # "state" => HeadClient!TellsHead /\ u.node = process.next
    <3>1. CASE HeadClient!PushesState
      <4>1. HeadClient!Update("state", process.next) \in ClientUpdate
            /\ HeadClient!Update("state", process.next).type = "state"
        BY <1>0 DEF HeadClient!Update, ClientProcess, ClientUpdate
      <4>2. QED
        BY <3>1, <4>1 DEF HeadClient!PushesState
    <3>2. CASE HeadClient!TellsHead
      <4> DEFINE u == HeadClient!Update(IF process.next = None THEN "disconnected" ELSE "connected",
                                        process.next)
      <4>1. u \in ClientUpdate /\ u.node = process.next
        BY <1>0 DEF HeadClient!Update, ClientProcess, ClientUpdate
      <4>2. queue' = Append(queue, u)
        BY <3>2 DEF HeadClient!TellsHead
      <4>3. QED
        BY <3>2, <4>1, <4>2
    <3>3. QED
      BY <1>2, <3>1, <3>2
  <2>2. client' = client
    BY <1>2 DEF HeadClient!PushesState, HeadClient!TellsHead
  <2>3. SUFFICES ASSUME client.pc = "open", NEW i \in News(queue')
                 PROVE  queue'[i].node = HeadAt(client.address)
    BY <1>0, <2>2 DEF QueueTells, HeadAt
  <2>4. CASE i \in News(queue) /\ queue'[i] = queue[i]
    BY <2>3, <2>4 DEF Followed, QueueTells
  <2>5. CASE queue'[i] = u /\ u.type # "state"
    <3>1. process.pc = "telling" /\ queue'[i].node = process.next
      BY <2>1, <2>5 DEF HeadClient!TellsHead
    <3>2. process.address = client.address
      BY <2>3, <3>1 DEF Followed, SameAddress
    <3>3. QED
      BY <3>1, <3>2 DEF Followed, ProcessTells
  <2>6. QED
    BY <1>0, <2>1, <2>4, <2>5, QueueGrows
<1>3. CASE HeadClient!Asks \/ HeadClient!GetsDataSocket
  <2>1. PICK n \in 0..QueueLimit : HeadClient!Drains(n)
    BY <1>0, <1>3 DEF HeadClient!Asks, HeadClient!GetsDataSocket
  <2>2. /\ n \in 0..Len(queue)
        /\ queue' = SubSeq(queue, n + 1, Len(queue))
    BY <1>0, <2>1, DrainsType DEF ClientInv
  <2>3. client' = client
    BY <1>3 DEF HeadClient!Asks, HeadClient!GetsDataSocket
  <2>4. \A i \in News(queue') : i + n \in News(queue) /\ queue'[i] = queue[i + n]
    <3>1. /\ Len(queue) \in Nat /\ DOMAIN queue = 1..Len(queue)
          /\ DOMAIN queue' = 1..Len(queue) - n /\ n \in Nat
          /\ \A i \in 1..Len(queue) - n : queue'[i] = queue[i + n]
      BY <1>0, <2>2
    <3>2. QED
      BY <3>1 DEF News
  <2>5. QED
    BY <1>0, <2>3, <2>4 DEF Followed, QueueTells, HeadAt
<1>4. CASE \/ \E a \in Addresses : HeadClient!Switches(a)
           \/ HeadClient!Closes \/ HeadClient!ShutsDown \/ HeadClient!RebindFails
  <2>1. client'.pc # "open"
    BY <1>0, <1>4 DEF HeadClient!Switches, HeadClient!Closes, HeadClient!ShutsDown,
      HeadClient!RebindFails, ClientState
  <2>2. QED
    BY <2>1 DEF QueueTells
<1>5. CASE HeadClient!Rebinds
  <2>1. queue' = <<>>
    BY <1>5 DEF HeadClient!Rebinds, Followed, SameAddress
  <2>2. QED
    BY <2>1 DEF QueueTells, News
<1>6. QED
  <2>1. \/ queue' = queue /\ client' = client
        \/ HeadClient!PushesState \/ HeadClient!TellsHead \/ HeadClient!Asks
        \/ HeadClient!GetsDataSocket \/ (\E a \in Addresses : HeadClient!Switches(a))
        \/ HeadClient!Closes \/ HeadClient!ShutsDown
        \/ HeadClient!Rebinds \/ HeadClient!RebindFails
    BY ClientNextCases DEF HeadClient!Changes, HeadClient!PublishesState, HeadClient!Beats,
      HeadClient!Publishes, HeadClient!Ends, HeadClient!SetsUp, HeadClient!Receives,
      HeadClient!vars
  <2>2. QED
    BY <1>1, <1>2, <1>3, <1>4, <1>5, <2>1

LEMMA HeadIsTaken ==
  ASSUME HeadClient!ClientAssumption, ClientInv, Followed, [HeadClient!Next]_(HeadClient!vars)
  PROVE  HeadClient!TakesPublished
<1>0. queue \in Seq(ClientUpdate) /\ QueueLimit \in Nat \ {0}
  BY ClientTypedIs DEF ClientInv, ClientTyped, HeadClient!ClientAssumption
<1>1. CASE HeadClient!Asks \/ HeadClient!GetsDataSocket
  <2>1. PICK n \in 0..QueueLimit : HeadClient!Drains(n)
    BY <1>0, <1>1 DEF HeadClient!Asks, HeadClient!GetsDataSocket
  <2>2. /\ n \in 0..Len(queue) /\ client.pc = "open"
        /\ head' = After(head, SubSeq(queue, 1, n))
    BY <1>0, <2>1, DrainsType DEF ClientInv
  <2> DEFINE a == SubSeq(queue, 1, n)
  <2>3. /\ a \in Seq(ClientUpdate)
        /\ DOMAIN a = 1..n /\ n \in Nat /\ n <= Len(queue) /\ DOMAIN queue = 1..Len(queue)
        /\ \A i \in 1..n : a[i] = queue[i]
    BY <1>0, <2>2
  <2> HIDE DEF a
  <2>4. \A i \in News(a) : i \in News(queue) /\ a[i] = queue[i]
    BY <1>0, <2>3 DEF News
  <2>5. head' = head \/ \E i \in News(a) : head' = a[i].node
    BY <2>2, <2>3, AfterCases DEF a
  <2>6. \A i \in News(queue) : queue[i].node = HeadAt(client.address)
    BY <2>2 DEF Followed, QueueTells
  <2>7. QED
    BY <2>4, <2>5, <2>6 DEF HeadClient!TakesPublished, HeadAt
<1>2. CASE head' = head
  BY <1>2 DEF HeadClient!TakesPublished
<1>3. QED
  <2>1. head' = head \/ HeadClient!Asks \/ HeadClient!GetsDataSocket
    BY ClientNextCases DEF HeadClient!Changes, HeadClient!PublishesState, HeadClient!Beats,
      HeadClient!Publishes, HeadClient!Ends, HeadClient!SetsUp, HeadClient!Receives,
      HeadClient!PushesState, HeadClient!TellsHead, HeadClient!Switches, HeadClient!Closes,
      HeadClient!ShutsDown, HeadClient!Rebinds, HeadClient!RebindFails, HeadClient!vars
  <2>2. QED
    BY <1>1, <1>2, <2>1

LEMMA FollowedInit ==
  ASSUME HeadClient!ClientAssumption, MaxClusterChanges = 0, HeadClient!Init PROVE Followed
<1>1. PICK a \in Addresses \ Unusable :
        /\ client = [pc |-> "open", address |-> a]
        /\ process = [HeadClient!Off EXCEPT !.pc = "starting", !.address = a]
  BY DEF HeadClient!Init
<1>2. client.pc = "open" /\ client.address = a /\ process.pc = "starting" /\ process.address = a
  BY <1>1 DEF HeadClient!Off
<1>3. subscriber = <<>> /\ queue = <<>> /\ budget["change"] = 0
  BY DEF HeadClient!Init
<1>4. News(queue) = {}
  BY <1>3 DEF News
<1>5. QED
  BY <1>2, <1>3, <1>4 DEF Followed, SameAddress, SubscriberTells, ProcessTells, QueueTells

(* While the clusters stay as they are, a head node that the client takes  *)
(* up is that of the publisher it was last told to follow: nothing of an   *)
(* earlier publisher is delivered late, and no heartbeat takes the head    *)
(* away (update_pub_address, the check for body == "HUGZ").                *)
THEOREM ClientTakesPublished ==
  ASSUME HeadClient!ClientAssumption, MaxClusterChanges = 0
  PROVE  HeadClient!Spec => HeadClient!HeadIsPublished
<1>1. HeadClient!Init => ClientInv /\ Followed
  BY ClientInit, FollowedInit
<1>2. ClientInv /\ Followed /\ [HeadClient!Next]_(HeadClient!vars) => (ClientInv /\ Followed)'
  <2> SUFFICES ASSUME ClientInv, Followed, [HeadClient!Next]_(HeadClient!vars)
               PROVE  (ClientInv /\ Followed)'
    OBVIOUS
  <2>1. SubscriberTells' /\ ProcessTells' /\ QueueTells' /\ SameAddress' /\ budget'["change"] = 0
    BY ClusterStays, SameAddressStays, SubscriberTellsStays, ProcessTellsStays, QueueTellsStays
  <2>2. QED
    BY <2>1, ClientStep DEF Followed
<1>3. ClientInv /\ Followed /\ [HeadClient!Next]_(HeadClient!vars)
        => [HeadClient!TakesPublished]_(HeadClient!vars)
  BY HeadIsTaken
<1>4. QED
  BY <1>1, <1>2, <1>3, PTL DEF HeadClient!Spec, HeadClient!HeadIsPublished

------------------------------------------------------------------------------
(* Beam compensation.                                                      *)
Event == [row : Int, col : Int]

LEMMA MinOfTwo ==
  ASSUME NEW a \in Int, NEW b \in Int
  PROVE  Beam!Min({a, b}) \in {a, b} /\ Beam!Min({a, b}) <= a /\ Beam!Min({a, b}) <= b
<1>1. \E x \in {a, b} : \A y \in {a, b} : x <= y
  <2>1. CASE a <= b
    BY <2>1
  <2>2. CASE ~(a <= b)
    BY <2>2
  <2>3. QED
    BY <2>1, <2>2
<1>2. /\ Beam!Min({a, b}) \in {a, b}
      /\ \A y \in {a, b} : Beam!Min({a, b}) <= y
  BY <1>1 DEF Beam!Min
<1>3. QED
  BY <1>2

LEMMA QuotientIsNat ==
  ASSUME NEW a \in Nat, NEW b \in Nat, NEW c \in Nat \ {0}
  PROVE  (a * b) \div c \in Nat
<1>1. a * b \in Nat
  OBVIOUS
<1>2. \A n \in Nat : n \div c \in Nat
  OBVIOUS
<1>3. QED
  BY <1>1, <1>2

LEMMA OffsetIsShift ==
  ASSUME Beam!CompensationAssumption, NEW file \in Vacuums, NEW how,
         NEW at, at.y \in Nat, at.x \in Nat
  PROVE  Beam!Offset(file, how, at) \in Int \X Int
<1>1. /\ file.rows \in Nat \ {0} /\ file.cols \in Nat \ {0} /\ file.slope \in Int \X Int
      /\ file.grid \in [(0..file.rows-1) \X (0..file.cols-1) -> Int \X Int]
  BY DEF Beam!CompensationAssumption
<1>2. CASE how = "plane"
  BY <1>1, <1>2 DEF Beam!Offset
<1>3. CASE how # "plane"
  <2> DEFINE y == Beam!Min({at.y, file.rows - 1})
             x == Beam!Min({at.x, file.cols - 1})
  <2>0. at.y \in Int /\ at.x \in Int /\ file.rows - 1 \in Int /\ file.cols - 1 \in Int
    BY <1>1
  <2>1. y \in {at.y, file.rows - 1} /\ y <= file.rows - 1
    BY <2>0, MinOfTwo, Zenon
  <2>2. x \in {at.x, file.cols - 1} /\ x <= file.cols - 1
    BY <2>0, MinOfTwo, Zenon
  <2> HIDE DEF y, x
  <2>3. y \in 0..file.rows - 1 /\ x \in 0..file.cols - 1
    BY <1>1, <2>1, <2>2
  <2>5. <<y, x>> \in (0..file.rows - 1) \X (0..file.cols - 1)
    BY <2>3
  <2>6. file.grid[<<y, x>>] \in Int \X Int
    BY <1>1, <2>5
  <2>4. QED
    BY <1>3, <2>6 DEF Beam!Offset, y, x
<1>4. QED
  BY <1>2, <1>3

LEMMA MovedIs ==
  ASSUME NEW events, events \subseteq Event, NEW d \in Int \X Int, FrameShape \in [rows : Nat, cols : Nat]
  PROVE  Beam!Moved(events, d) =
           {e \in [row : 0..FrameShape.rows - 1, col : 0..FrameShape.cols - 1] :
              [row |-> e.row + d[1], col |-> e.col + d[2]] \in events}
<1> DEFINE pixels == [row : 0..FrameShape.rows - 1, col : 0..FrameShape.cols - 1]
<1>0. d[1] \in Int /\ d[2] \in Int /\ FrameShape.rows \in Nat /\ FrameShape.cols \in Nat
  OBVIOUS
<1>1. ASSUME NEW e \in Beam!Moved(events, d)
      PROVE  e \in pixels /\ [row |-> e.row + d[1], col |-> e.col + d[2]] \in events
  <2>1. PICK f \in events : e = [col |-> f.col - d[2], row |-> f.row - d[1]]
    BY <1>1 DEF Beam!Moved
  <2>2. e.row \in 0..FrameShape.rows - 1 /\ e.col \in 0..FrameShape.cols - 1
    BY <1>1 DEF Beam!Moved
  <2>3. f \in [row : Int, col : Int]
    BY DEF Event
  <2>4. f.row = e.row + d[1] /\ f.col = e.col + d[2] /\ f = [row |-> f.row, col |-> f.col]
    BY <1>0, <2>1, <2>3
  <2>5. e = [row |-> e.row, col |-> e.col]
    BY <2>1
  <2>6. QED
    BY <2>2, <2>4, <2>5
<1>2. ASSUME NEW e \in pixels, [row |-> e.row + d[1], col |-> e.col + d[2]] \in events
      PROVE  e \in Beam!Moved(events, d)
  <2> DEFINE f == [row |-> e.row + d[1], col |-> e.col + d[2]]
  <2>1. /\ e.row \in 0..FrameShape.rows - 1 /\ e.col \in 0..FrameShape.cols - 1
        /\ e = [row |-> e.row, col |-> e.col]
    OBVIOUS
  <2>2. f \in events /\ f.row - d[1] = e.row /\ f.col - d[2] = e.col
    BY <1>0, <1>2, <2>1
  <2>3. e = [col |-> f.col - d[2], row |-> f.row - d[1]]
    BY <2>1, <2>2
  <2>4. QED
    BY <2>1, <2>2, <2>3 DEF Beam!Moved
<1>3. QED
  BY <1>1, <1>2

BeamScans == {b.scan : b \in NumberedBatches}
BeamShapes == {b.shape : b \in NumberedBatches}
ShiftTable == [shape : BeamShapes, method : Beam!Methods, file : Vacuums]

IsSequence(s) == \E S : s \in Seq(S)

LEMMA SequenceGrows ==
  ASSUME NEW s, IsSequence(s), NEW e
  PROVE  /\ IsSequence(Append(s, e)) /\ Len(s) \in Nat /\ DOMAIN s = 1..Len(s)
         /\ Len(Append(s, e)) = Len(s) + 1 /\ DOMAIN Append(s, e) = 1..Len(s) + 1
         /\ Append(s, e)[Len(s) + 1] = e
         /\ \A i \in 1..Len(s) : Append(s, e)[i] = s[i]
<1>1. PICK S : s \in Seq(S)
  BY DEF IsSequence
<1>2. s \in Seq(S \cup {e})
  BY <1>1
<1>3. Append(s, e) \in Seq(S \cup {e})
  BY <1>2
<1>4. IsSequence(Append(s, e))
  BY <1>3 DEF IsSequence
<1>5. QED
  BY <1>2, <1>4

LEMMA EmptySequence == IsSequence(<<>>)
<1>1. <<>> \in Seq({})
  OBVIOUS
<1>2. QED
  BY <1>1 DEF IsSequence

(* A replica keeps a table of shifts for just the scans that it was given a*)
(* batch of since its start; it is made of the shape of a batch of that    *)
(* scan and of the vacuum scan that is mounted, and all its batches of the *)
(* scan were moved by it.                                                  *)
TablesKept(file, kept, log) ==
  \A s \in BeamScans : kept[s] # None =>
    /\ kept[s] \in ShiftTable /\ kept[s].file = file
    /\ \E b \in NumberedBatches : b.scan = s /\ kept[s].shape = b.shape
    /\ \E i \in DOMAIN log : log[i].batch.scan = s
LoggedEntry(kept, e) ==
  /\ e.batch \in NumberedBatches
  /\ kept[e.batch.scan] # None
  /\ e.table = kept[e.batch.scan]
  /\ e.sent = Beam!Compensated(e.table, e.batch)
ReplicaInv(file, kept, log) ==
  /\ file \in Vacuums
  /\ DOMAIN kept = BeamScans
  /\ IsSequence(log)
  /\ TablesKept(file, kept, log)
  /\ \A i \in DOMAIN log : LoggedEntry(kept, log[i])

(* Until there is an update, all replicas go by the method of the          *)
(* deployment.                                                             *)
ChosenOf(how) == IF how \in Beam!Methods THEN how ELSE "interp"
AsDeployed ==
  beamChanges = 0 => \A w \in BeamReplicas :
    /\ method[w] = given
    /\ \A i \in DOMAIN beamLog[w] : beamLog[w][i].table.method = ChosenOf(given)
BeamInv ==
  /\ beamChanges \in Nat
  /\ DOMAIN method = BeamReplicas /\ DOMAIN offsets = BeamReplicas
  /\ DOMAIN beamCache = BeamReplicas /\ DOMAIN beamLog = BeamReplicas
  /\ \A w \in BeamReplicas : ReplicaInv(offsets[w], beamCache[w], beamLog[w])
  /\ AsDeployed

LEMMA TableIs ==
  ASSUME NEW w \in BeamReplicas, ReplicaInv(offsets[w], beamCache[w], beamLog[w]),
         NEW b \in NumberedBatches
  PROVE  /\ b.scan \in BeamScans
         /\ Beam!Table(w, b) \in ShiftTable
         /\ Beam!Table(w, b).file = offsets[w]
         /\ \E c \in NumberedBatches : c.scan = b.scan /\ Beam!Table(w, b).shape = c.shape
         /\ beamCache[w][b.scan] = None => Beam!Table(w, b).method = ChosenOf(method[w])
         /\ beamCache[w][b.scan] # None => Beam!Table(w, b) = beamCache[w][b.scan]
<1>1. b.scan \in BeamScans /\ b.shape \in BeamShapes
  BY DEF BeamScans, BeamShapes
<1>2. CASE beamCache[w][b.scan] = None
  <2>1. ChosenOf(method[w]) \in Beam!Methods
    BY DEF ChosenOf, Beam!Methods
  <2>2. Beam!Table(w, b) = [shape |-> b.shape, method |-> ChosenOf(method[w]), file |-> offsets[w]]
    BY <1>2 DEF Beam!Table, Beam!Generated, Beam!Chosen, ChosenOf
  <2>3. QED
    BY <1>1, <1>2, <2>1, <2>2 DEF ShiftTable, ReplicaInv
<1>3. CASE beamCache[w][b.scan] # None
  <2>1. Beam!Table(w, b) = beamCache[w][b.scan]
    BY <1>3 DEF Beam!Table
  <2>2. QED
    BY <1>1, <1>3, <2>1 DEF ReplicaInv, TablesKept
<1>4. QED
  BY <1>2, <1>3

LEMMA TableIsThere ==
  ASSUME Beam!CompensationAssumption, NEW t \in ShiftTable PROVE t # None
<1>1. None \notin ShiftTable
  BY DEF Beam!CompensationAssumption, ShiftTable, BeamShapes
<1>2. QED
  BY <1>1

LEMMA NothingKept ==
  ASSUME NEW file \in Vacuums
  PROVE  ReplicaInv(file, [s \in BeamScans |-> None], <<>>)
BY EmptySequence DEF ReplicaInv, TablesKept

LEMMA BeamInit ==
  ASSUME Beam!Init
  PROVE  BeamInv
<1>1. /\ method = [w \in BeamReplicas |-> given] /\ beamLog = [w \in BeamReplicas |-> <<>>]
      /\ beamCache = [w \in BeamReplicas |-> [s \in BeamScans |-> None]] /\ beamChanges = 0
  BY DEF Beam!Init, Beam!Scans, BeamScans
<1>2. PICK f \in Vacuums : offsets = [w \in BeamReplicas |-> f]
  BY DEF Beam!Init
<1>3. ReplicaInv(f, [s \in BeamScans |-> None], <<>>)
  BY NothingKept
<1>4. \A w \in BeamReplicas : ReplicaInv(offsets[w], beamCache[w], beamLog[w])
  BY <1>1, <1>2, <1>3
<1>5. QED
  BY <1>1, <1>2, <1>4 DEF BeamInv, AsDeployed

LEMMA ReplicaTakes ==
  ASSUME NEW file, NEW kept, NEW log, ReplicaInv(file, kept, log),
         NEW b \in NumberedBatches, NEW t \in ShiftTable, t.file = file, t # None,
         \E c \in NumberedBatches : c.scan = b.scan /\ t.shape = c.shape,
         kept[b.scan] # None => t = kept[b.scan], NEW e,
         e.batch = b, e.table = t, e.sent = Beam!Compensated(t, b)
  PROVE  ReplicaInv(file, [kept EXCEPT ![b.scan] = t], Append(log, e))
<1> DEFINE kept2 == [kept EXCEPT ![b.scan] = t]
           log2 == Append(log, e)
<1>0. b.scan \in BeamScans
  BY DEF BeamScans
<1>1. /\ IsSequence(log2) /\ Len(log) \in Nat
      /\ DOMAIN log = 1..Len(log)
      /\ DOMAIN log2 = 1..Len(log) + 1
      /\ log2[Len(log) + 1] = e
      /\ \A i \in DOMAIN log : log2[i] = log[i]
  BY SequenceGrows DEF ReplicaInv
<1>2. /\ DOMAIN kept2 = BeamScans /\ kept2[b.scan] = t
      /\ \A s \in BeamScans : s # b.scan => kept2[s] = kept[s]
  BY <1>0 DEF ReplicaInv
<1> HIDE DEF kept2, log2
<1>3. TablesKept(file, kept2, log2)
  <2> SUFFICES ASSUME NEW s \in BeamScans, kept2[s] # None
               PROVE  /\ kept2[s] \in ShiftTable /\ kept2[s].file = file
                      /\ \E c \in NumberedBatches : c.scan = s /\ kept2[s].shape = c.shape
                      /\ \E i \in DOMAIN log2 : log2[i].batch.scan = s
    BY DEF TablesKept
  <2>1. CASE s = b.scan
    <3>1. log2[Len(log) + 1].batch.scan = s /\ Len(log) + 1 \in DOMAIN log2
      BY <1>1, <2>1
    <3>2. QED
      BY <1>2, <2>1, <3>1
  <2>2. CASE s # b.scan
    <3>1. kept2[s] = kept[s] /\ kept[s] # None
      BY <1>2, <2>2
    <3>2. PICK i \in DOMAIN log : log[i].batch.scan = s
      BY <3>1 DEF ReplicaInv, TablesKept
    <3>3. i \in DOMAIN log2 /\ log2[i].batch.scan = s
      BY <1>1, <3>2
    <3>4. QED
      BY <3>1, <3>3 DEF ReplicaInv, TablesKept
  <2>3. QED
    BY <2>1, <2>2
<1>4. ASSUME NEW i \in DOMAIN log2
      PROVE  LoggedEntry(kept2, log2[i])
  <2>1. CASE i = Len(log) + 1
    BY <1>1, <1>2, <2>1 DEF LoggedEntry
  <2>2. CASE i # Len(log) + 1
    <3>1. i \in DOMAIN log /\ log2[i] = log[i]
      BY <1>1, <2>2
    <3>2. LoggedEntry(kept, log[i])
      BY <3>1 DEF ReplicaInv
    <3>3. log[i].batch.scan \in BeamScans
      BY <3>2 DEF LoggedEntry, BeamScans
    <3>4. kept2[log[i].batch.scan] = kept[log[i].batch.scan]
      BY <1>2, <3>2, <3>3 DEF LoggedEntry
    <3>5. QED
      BY <3>1, <3>2, <3>4 DEF LoggedEntry
  <2>3. QED
    BY <2>1, <2>2
<1>5. file \in Vacuums
  BY DEF ReplicaInv
<1>6. ReplicaInv(file, kept2, log2)
  BY <1>1, <1>2, <1>3, <1>4, <1>5 DEF ReplicaInv
<1>7. QED
  BY <1>6 DEF kept2, log2

(* What the kernel enters in the log.                                      *)
BeamEntry(w, b) ==
  [batch |-> b, table |-> Beam!Table(w, b), sent |-> Beam!Compensated(Beam!Table(w, b), b)]

LEMMA SubtractIs ==
  ASSUME BeamInv, NEW w \in BeamReplicas, NEW b \in NumberedBatches, Beam!Subtract(w, b)
  PROVE  /\ beamLog' = [beamLog EXCEPT ![w] = Append(@, BeamEntry(w, b))]
         /\ beamCache' = [beamCache EXCEPT ![w] = [@ EXCEPT ![b.scan] = Beam!Table(w, b)]]
         /\ UNCHANGED <<given, method, offsets, beamChanges>>
         /\ beamLog'[w] = Append(beamLog[w], BeamEntry(w, b))
         /\ beamCache'[w] = [beamCache[w] EXCEPT ![b.scan] = Beam!Table(w, b)]
         /\ \A v \in BeamReplicas : v # w => beamLog'[v] = beamLog[v] /\ beamCache'[v] = beamCache[v]
BY DEF Beam!Subtract, BeamEntry, BeamInv

LEMMA SubtractKeeps ==
  ASSUME Beam!CompensationAssumption, BeamInv,
         NEW w \in BeamReplicas, NEW b \in NumberedBatches, Beam!Subtract(w, b)
  PROVE  BeamInv'
<1> DEFINE t == Beam!Table(w, b)
           e == BeamEntry(w, b)
<1>1. /\ beamLog' = [beamLog EXCEPT ![w] = Append(@, e)]
      /\ beamCache' = [beamCache EXCEPT ![w] = [@ EXCEPT ![b.scan] = t]]
      /\ UNCHANGED <<given, method, offsets, beamChanges>>
      /\ beamLog'[w] = Append(beamLog[w], e)
      /\ beamCache'[w] = [beamCache[w] EXCEPT ![b.scan] = t]
      /\ \A v \in BeamReplicas : v # w => beamLog'[v] = beamLog[v] /\ beamCache'[v] = beamCache[v]
  BY SubtractIs
<1>2. e.batch = b /\ e.table = t /\ e.sent = Beam!Compensated(t, b)
  BY DEF BeamEntry
<1>3. ReplicaInv(offsets[w], beamCache[w], beamLog[w])
  BY DEF BeamInv
<1>4. /\ b.scan \in BeamScans /\ t \in ShiftTable /\ t.file = offsets[w]
      /\ \E c \in NumberedBatches : c.scan = b.scan /\ t.shape = c.shape
      /\ beamCache[w][b.scan] = None => t.method = ChosenOf(method[w])
      /\ beamCache[w][b.scan] # None => t = beamCache[w][b.scan]
  BY <1>3, TableIs
<1> HIDE DEF t, e
<1>5. t # None
  BY <1>4, TableIsThere
<1>6. ReplicaInv(offsets[w], beamCache'[w], beamLog'[w])
  <2>1. ReplicaInv(offsets[w], [beamCache[w] EXCEPT ![b.scan] = t], Append(beamLog[w], e))
    BY <1>2, <1>3, <1>4, <1>5, ReplicaTakes
  <2>2. QED
    BY <1>1, <2>1
<1>7. \A v \in BeamReplicas : ReplicaInv(offsets[v], beamCache'[v], beamLog'[v])
  BY <1>1, <1>6 DEF BeamInv
<1>8. beamChanges = 0 => t.method = ChosenOf(given)
  <2>1. CASE beamCache[w][b.scan] = None
    BY <1>4, <2>1 DEF BeamInv, AsDeployed
  <2>2. CASE beamCache[w][b.scan] # None
    <3>1. PICK i \in DOMAIN beamLog[w] : beamLog[w][i].batch.scan = b.scan
      BY <1>3, <1>4, <2>2 DEF ReplicaInv, TablesKept
    <3>2. beamLog[w][i].table = t
      BY <1>3, <1>4, <2>2, <3>1 DEF ReplicaInv, LoggedEntry
    <3>3. QED
      BY <3>1, <3>2 DEF BeamInv, AsDeployed
  <2>3. QED
    BY <2>1, <2>2
<1>9. /\ Len(beamLog[w]) \in Nat /\ DOMAIN beamLog[w] = 1..Len(beamLog[w])
      /\ DOMAIN beamLog'[w] = 1..Len(beamLog[w]) + 1
      /\ beamLog'[w][Len(beamLog[w]) + 1] = e
      /\ \A i \in 1..Len(beamLog[w]) : beamLog'[w][i] = beamLog[w][i]
  BY <1>1, <1>3, SequenceGrows DEF ReplicaInv
<1>10. AsDeployed'
  <2> SUFFICES ASSUME beamChanges = 0, NEW v \in BeamReplicas
               PROVE  /\ method[v] = given
                      /\ \A i \in DOMAIN beamLog'[v] : beamLog'[v][i].table.method = ChosenOf(given)
    BY <1>1 DEF AsDeployed
  <2>1. /\ method[v] = given
        /\ \A i \in DOMAIN beamLog[v] : beamLog[v][i].table.method = ChosenOf(given)
    BY DEF BeamInv, AsDeployed
  <2>2. CASE v = w
    <3>1. ASSUME NEW i \in 1..Len(beamLog[w]) + 1
          PROVE  beamLog'[w][i].table.method = ChosenOf(given)
      <4>1. CASE i = Len(beamLog[w]) + 1
        BY <1>2, <1>8, <1>9, <4>1
      <4>2. CASE i # Len(beamLog[w]) + 1
        BY <1>9, <2>1, <2>2, <4>2
      <4>3. QED
        BY <4>1, <4>2
    <3>2. QED
      BY <1>9, <2>1, <2>2, <3>1
  <2>3. CASE v # w
    BY <1>1, <2>1, <2>3
  <2>4. QED
    BY <2>2, <2>3
<1>11. DOMAIN beamCache' = BeamReplicas /\ DOMAIN beamLog' = BeamReplicas
  BY <1>1 DEF BeamInv
<1>12. QED
  BY <1>1, <1>7, <1>10, <1>11 DEF BeamInv

LEMMA MethodKeeps ==
  ASSUME BeamInv, NEW w \in BeamReplicas, Beam!ChangesMethod(w)
  PROVE  BeamInv'
<1>1. /\ UNCHANGED <<offsets, beamCache, beamLog>> /\ beamChanges' = beamChanges + 1
      /\ DOMAIN method' = BeamReplicas
  BY DEF Beam!ChangesMethod, BeamInv
<1>2. QED
  BY <1>1 DEF BeamInv, AsDeployed

LEMMA RemountKeeps ==
  ASSUME BeamInv, NEW w \in BeamReplicas, Beam!Remounts(w)
  PROVE  BeamInv'
<1>1. PICK f \in Vacuums : offsets' = [offsets EXCEPT ![w] = f]
  BY DEF Beam!Remounts
<1>2. /\ method' = [method EXCEPT ![w] = given] /\ beamLog' = [beamLog EXCEPT ![w] = <<>>]
      /\ beamCache' = [beamCache EXCEPT ![w] = [s \in BeamScans |-> None]]
      /\ UNCHANGED <<given, beamChanges>>
  BY DEF Beam!Remounts, Beam!Scans, BeamScans
<1>3. ReplicaInv(f, [s \in BeamScans |-> None], <<>>)
  BY NothingKept
<1>4. \A v \in BeamReplicas : ReplicaInv(offsets'[v], beamCache'[v], beamLog'[v])
  <2> TAKE v \in BeamReplicas
  <2>1. CASE v = w
    <3>1. offsets'[v] = f /\ beamCache'[v] = [s \in BeamScans |-> None] /\ beamLog'[v] = <<>>
      BY <1>1, <1>2, <2>1 DEF BeamInv
    <3>2. QED
      BY <1>3, <3>1
  <2>2. CASE v # w
    <3>1. offsets'[v] = offsets[v] /\ beamCache'[v] = beamCache[v] /\ beamLog'[v] = beamLog[v]
      BY <1>1, <1>2, <2>2 DEF BeamInv
    <3>2. QED
      BY <3>1 DEF BeamInv
  <2>3. QED
    BY <2>1, <2>2
<1>5. AsDeployed'
  BY <1>2 DEF BeamInv, AsDeployed
<1>6. QED
  BY <1>1, <1>2, <1>4, <1>5 DEF BeamInv

LEMMA BeamStep ==
  ASSUME Beam!CompensationAssumption, BeamInv, [Beam!Next]_(Beam!vars)
  PROVE  BeamInv'
<1>1. CASE UNCHANGED Beam!vars
  BY <1>1 DEF Beam!vars, BeamInv, AsDeployed
<1>2. QED
  BY <1>1, SubtractKeeps, MethodKeeps, RemountKeeps DEF Beam!Next

LEMMA BeamOneMethod ==
  ASSUME BeamInv
  PROVE  Beam!OneMethodPerScan
<1> SUFFICES ASSUME NEW v \in BeamReplicas, NEW w \in BeamReplicas,
                    NEW i \in DOMAIN beamLog[v], NEW j \in DOMAIN beamLog[w],
                    beamLog[v][i].batch.scan = beamLog[w][j].batch.scan,
                    v = w \/ beamChanges = 0
             PROVE  beamLog[v][i].table.method = beamLog[w][j].table.method
  BY DEF Beam!OneMethodPerScan
<1>1. CASE v = w
  <2>1. LoggedEntry(beamCache[w], beamLog[w][i]) /\ LoggedEntry(beamCache[w], beamLog[w][j])
    BY <1>1 DEF BeamInv, ReplicaInv
  <2>2. QED
    BY <1>1, <2>1 DEF LoggedEntry
<1>2. CASE beamChanges = 0
  BY <1>2 DEF BeamInv, AsDeployed
<1>3. QED
  BY <1>1, <1>2

LEMMA BeginsStep ==
  ASSUME Beam!CompensationAssumption, BeamInv, [Beam!Next]_(Beam!vars)
  PROVE  Beam!BeginsAsChosen
<1> SUFFICES ASSUME NEW w \in BeamReplicas, NEW b \in NumberedBatches,
                    Len(beamLog'[w]) > Len(beamLog[w]),
                    beamLog'[w][Len(beamLog'[w])].batch = b,
                    b.scan \notin {beamLog[w][i].batch.scan : i \in DOMAIN beamLog[w]}
             PROVE  beamLog'[w][Len(beamLog'[w])].table.method = ChosenOf(method[w])
  BY DEF Beam!BeginsAsChosen, ChosenOf
<1>0. ReplicaInv(offsets[w], beamCache[w], beamLog[w]) /\ DOMAIN beamLog = BeamReplicas
  BY DEF BeamInv
<1>1. Len(beamLog[w]) \in Nat
  BY <1>0, SequenceGrows DEF ReplicaInv
<1>2. beamLog'[w] # beamLog[w] /\ beamLog'[w] # <<>>
  BY <1>1
<1>3. PICK c \in NumberedBatches : Beam!Subtract(w, c)
  <2>1. PICK v \in BeamReplicas : \/ \E c \in NumberedBatches : Beam!Subtract(v, c)
                                  \/ Beam!ChangesMethod(v) \/ Beam!Remounts(v)
    BY <1>2 DEF Beam!Next, Beam!vars
  <2>2. CASE v = w
    <3>1. ~Beam!ChangesMethod(w)
      BY <1>2 DEF Beam!ChangesMethod
    <3>2. ~Beam!Remounts(w)
      BY <1>0, <1>2 DEF Beam!Remounts
    <3>3. QED
      BY <2>1, <2>2, <3>1, <3>2
  <2>3. CASE v # w
    <3>1. beamLog'[w] = beamLog[w]
      BY <1>0, <2>1, <2>3 DEF Beam!Subtract, Beam!ChangesMethod, Beam!Remounts
    <3>2. QED
      BY <1>2, <3>1
  <2>4. QED
    BY <2>2, <2>3
<1> DEFINE e == BeamEntry(w, c)
<1>4. beamLog'[w] = Append(beamLog[w], e)
  BY <1>3, SubtractIs
<1>5. e.batch = c /\ e.table = Beam!Table(w, c)
  BY DEF BeamEntry
<1> HIDE DEF e
<1>6. beamLog'[w][Len(beamLog'[w])] = e
  BY <1>0, <1>4, SequenceGrows DEF ReplicaInv
<1>7. b = c
  BY <1>5, <1>6
<1>8. beamCache[w][c.scan] = None
  <2>1. c.scan \in BeamScans
    BY DEF BeamScans
  <2>2. QED
    BY <1>0, <1>7, <2>1 DEF ReplicaInv, TablesKept
<1>9. Beam!Table(w, c).method = ChosenOf(method[w])
  BY <1>0, <1>8, TableIs
<1>10. QED
  BY <1>5, <1>6, <1>9

(* The vacuum scan is square: the code swaps its rows and columns.         *)
SquareVacuums == \A f \in Vacuums : f.rows = f.cols
(* So is a frame: an event that the code keeps, its first coordinate within*)
(* the columns, has no pixel otherwise.                                    *)
SquareFrames == FrameShape.rows = FrameShape.cols
(* All batches of a scan have its shape.                                   *)
OneShape == \A b, c \in NumberedBatches : b.scan = c.scan => b.shape = c.shape

LEMMA CompensatedIs ==
  ASSUME Beam!CompensationAssumption, SquareVacuums, SquareFrames,
         NEW b \in NumberedBatches, NEW t \in ShiftTable, t.shape = b.shape
  PROVE  /\ Beam!Compensated(t, b) # None
         /\ \A k \in DOMAIN b.frames :
              LET d == Beam!Drift(t.file, t.method, b.shape, b.frames[k])
              IN Beam!Compensated(t, b)[k].events =
                   {e \in [row : 0..FrameShape.rows - 1, col : 0..FrameShape.cols - 1] :
                      [row |-> e.row + d[1], col |-> e.col + d[2]] \in b.frames[k].events}
<1>1. /\ b.shape \in [rows : Nat, cols : Nat] /\ FrameShape \in [rows : Nat, cols : Nat]
      /\ None \notin [DOMAIN b.frames -> [row : Nat, col : Nat, events : SUBSET [row : Int, col : Int]]]
      /\ \A k \in DOMAIN b.frames :
           /\ b.frames[k].row \in 0..b.shape.rows - 1 /\ b.frames[k].col \in 0..b.shape.cols - 1
           /\ b.frames[k].events \subseteq [row : Int, col : Int]
  BY DEF Beam!CompensationAssumption
<1>2. t.file \in Vacuums /\ t.file.rows = t.file.cols /\ t.file.rows \in Nat
  BY DEF SquareVacuums, ShiftTable, Beam!CompensationAssumption
<1>3. \A k \in DOMAIN b.frames : Beam!InTable(t, b.frames[k])
  BY <1>1 DEF Beam!InTable
<1>5. ASSUME NEW k \in DOMAIN b.frames
      PROVE  LET frame == b.frames[k]
                 d == Beam!Drift(t.file, t.method, b.shape, frame)
             IN /\ Beam!ShiftAt(t, frame) = d
                /\ d \in Int \X Int
                /\ Beam!Subtracted(t, frame) =
                     [row |-> frame.row, col |-> frame.col, events |-> Beam!Moved(frame.events, d)]
  <2> DEFINE frame == b.frames[k]
             d == Beam!Drift(t.file, t.method, b.shape, frame)
             at == [y |-> (frame.row * t.file.rows) \div b.shape.rows,
                    x |-> (frame.col * t.file.cols) \div b.shape.cols]
  <2>1. /\ frame.row \in Nat /\ frame.col \in Nat
        /\ b.shape.rows \in Nat \ {0} /\ b.shape.cols \in Nat \ {0}
    BY <1>1
  <2>2. at.y \in Nat /\ at.x \in Nat
    BY <1>2, <2>1, QuotientIsNat
  <2>3. Beam!Location(t.file, t.shape, frame) = at
    BY <1>2 DEF Beam!Location
  <2>4. d = Beam!Offset(t.file, t.method, at)
    BY DEF Beam!Drift
  <2>5. Beam!ShiftAt(t, frame) = d
    BY <2>3, <2>4 DEF Beam!ShiftAt
  <2>6. d \in Int \X Int
    BY <1>2, <2>2, <2>4, OffsetIsShift
  <2>7. QED
    BY <2>5, <2>6 DEF Beam!Subtracted
<1>9. ASSUME NEW k \in DOMAIN b.frames
      PROVE  Beam!Ravels(Beam!Subtracted(t, b.frames[k]).events)
  <2> DEFINE d == Beam!Drift(t.file, t.method, b.shape, b.frames[k])
  <2>0. /\ d \in Int \X Int
        /\ Beam!Subtracted(t, b.frames[k]) =
             [row |-> b.frames[k].row, col |-> b.frames[k].col,
              events |-> Beam!Moved(b.frames[k].events, d)]
    BY <1>5
  <2>1. d \in Int \X Int /\ Beam!Subtracted(t, b.frames[k]).events = Beam!Moved(b.frames[k].events, d)
    BY <2>0
  <2>2. b.frames[k].events \subseteq Event
    BY <1>1 DEF Event
  <2> HIDE DEF d
  <2>3. Beam!Moved(b.frames[k].events, d) \subseteq
          [row : 0..FrameShape.rows - 1, col : 0..FrameShape.cols - 1]
    <3>1. Beam!Moved(b.frames[k].events, d) =
            {e \in [row : 0..FrameShape.rows - 1, col : 0..FrameShape.cols - 1] :
               [row |-> e.row + d[1], col |-> e.col + d[2]] \in b.frames[k].events}
      BY <1>1, <2>1, <2>2, MovedIs
    <3>2. QED
      BY <3>1
  <2>4. \A e \in [row : 0..FrameShape.rows - 1, col : 0..FrameShape.cols - 1] :
          e.col < FrameShape.rows /\ e.row < FrameShape.cols
    BY <1>1 DEF SquareFrames
  <2>5. QED
    BY <2>1, <2>3, <2>4 DEF Beam!Ravels
<1>4. Beam!Compensated(t, b) = [k \in DOMAIN b.frames |-> Beam!Subtracted(t, b.frames[k])]
  BY <1>3, <1>9 DEF Beam!Compensated
<1>6. \A k \in DOMAIN b.frames :
        LET d == Beam!Drift(t.file, t.method, b.shape, b.frames[k])
        IN Beam!Compensated(t, b)[k].events =
             {e \in [row : 0..FrameShape.rows - 1, col : 0..FrameShape.cols - 1] :
                [row |-> e.row + d[1], col |-> e.col + d[2]] \in b.frames[k].events}
  <2> SUFFICES ASSUME NEW k \in DOMAIN b.frames
               PROVE  LET d == Beam!Drift(t.file, t.method, b.shape, b.frames[k])
                      IN Beam!Compensated(t, b)[k].events =
                           {e \in [row : 0..FrameShape.rows - 1, col : 0..FrameShape.cols - 1] :
                              [row |-> e.row + d[1], col |-> e.col + d[2]] \in b.frames[k].events}
    OBVIOUS
  <2> DEFINE d == Beam!Drift(t.file, t.method, b.shape, b.frames[k])
  <2>0. /\ d \in Int \X Int
        /\ Beam!Subtracted(t, b.frames[k]) =
             [row |-> b.frames[k].row, col |-> b.frames[k].col,
              events |-> Beam!Moved(b.frames[k].events, d)]
    BY <1>5
  <2>1. Beam!Compensated(t, b)[k].events = Beam!Moved(b.frames[k].events, d)
    BY <1>4, <2>0
  <2>2. b.frames[k].events \subseteq Event
    BY <1>1 DEF Event
  <2> HIDE DEF d
  <2>3. Beam!Moved(b.frames[k].events, d) =
          {e \in [row : 0..FrameShape.rows - 1, col : 0..FrameShape.cols - 1] :
             [row |-> e.row + d[1], col |-> e.col + d[2]] \in b.frames[k].events}
    BY <1>1, <2>0, <2>2, MovedIs
  <2>4. QED
    BY <2>1, <2>3 DEF d
<1>7. Beam!Compensated(t, b) # None
  <2>1. ASSUME NEW k \in DOMAIN b.frames
        PROVE  Beam!Subtracted(t, b.frames[k]) \in [row : Nat, col : Nat, events : SUBSET [row : Int, col : Int]]
    <3> DEFINE d == Beam!Drift(t.file, t.method, b.shape, b.frames[k])
    <3>1. /\ d \in Int \X Int
          /\ Beam!Subtracted(t, b.frames[k]) =
               [row |-> b.frames[k].row, col |-> b.frames[k].col,
                events |-> Beam!Moved(b.frames[k].events, d)]
      BY <1>5
    <3>2. b.frames[k].events \subseteq Event /\ b.frames[k].row \in Nat /\ b.frames[k].col \in Nat
      BY <1>1 DEF Event
    <3> HIDE DEF d
    <3>3. Beam!Moved(b.frames[k].events, d) \subseteq [row : Int, col : Int]
      <4>1. \A e \in [row : 0..FrameShape.rows - 1, col : 0..FrameShape.cols - 1] :
              e \in [row : Int, col : Int]
        BY <1>1
      <4>2. Beam!Moved(b.frames[k].events, d) \subseteq
              [row : 0..FrameShape.rows - 1, col : 0..FrameShape.cols - 1]
        <5>1. d \in Int \X Int /\ FrameShape \in [rows : Nat, cols : Nat]
          BY <1>1, <3>1
        <5>2. Beam!Moved(b.frames[k].events, d) =
                {e \in [row : 0..FrameShape.rows - 1, col : 0..FrameShape.cols - 1] :
                   [row |-> e.row + d[1], col |-> e.col + d[2]] \in b.frames[k].events}
          BY <3>2, <5>1, MovedIs
        <5>3. QED
          BY <5>2
      <4>3. QED
        BY <4>1, <4>2
    <3>4. QED
      BY <3>1, <3>2, <3>3
  <2>2. QED
    BY <1>1, <1>4, <2>1
<1>8. QED
  BY <1>6, <1>7

LEMMA BeamCompensates ==
  ASSUME Beam!CompensationAssumption, SquareVacuums, SquareFrames, OneShape, BeamInv
  PROVE  Beam!CompensatedByDrift
<1> SUFFICES ASSUME NEW w \in BeamReplicas, NEW i \in DOMAIN beamLog[w]
             PROVE  LET b == beamLog[w][i].batch
                    IN /\ beamLog[w][i].sent # None
                       /\ \E how \in Beam!Methods : \A k \in DOMAIN b.frames :
                            LET d == Beam!Drift(offsets[w], how, b.shape, b.frames[k])
                            IN beamLog[w][i].sent[k].events =
                                 {e \in [row : 0..FrameShape.rows - 1, col : 0..FrameShape.cols - 1] :
                                    [row |-> e.row + d[1], col |-> e.col + d[2]] \in b.frames[k].events}
  BY Zenon DEF Beam!CompensatedByDrift
<1> DEFINE b == beamLog[w][i].batch
           t == beamLog[w][i].table
<1>1. /\ b \in NumberedBatches /\ beamLog[w][i].sent = Beam!Compensated(t, b)
      /\ t = beamCache[w][b.scan] /\ beamCache[w][b.scan] # None
  BY DEF BeamInv, ReplicaInv, LoggedEntry
<1>2. b.scan \in BeamScans
  BY <1>1 DEF BeamScans
<1>3. /\ t \in ShiftTable /\ t.file = offsets[w]
      /\ \E c \in NumberedBatches : c.scan = b.scan /\ t.shape = c.shape
  BY <1>1, <1>2 DEF BeamInv, ReplicaInv, TablesKept
<1>4. t.shape = b.shape /\ t.method \in Beam!Methods
  BY <1>1, <1>3 DEF OneShape, ShiftTable
<1> HIDE DEF b, t
<1>5. /\ Beam!Compensated(t, b) # None
      /\ \A k \in DOMAIN b.frames :
           LET d == Beam!Drift(t.file, t.method, b.shape, b.frames[k])
           IN Beam!Compensated(t, b)[k].events =
                {e \in [row : 0..FrameShape.rows - 1, col : 0..FrameShape.cols - 1] :
                   [row |-> e.row + d[1], col |-> e.col + d[2]] \in b.frames[k].events}
  BY <1>1, <1>3, <1>4, CompensatedIs
<1>6. /\ beamLog[w][i].sent # None
      /\ \A k \in DOMAIN b.frames :
           LET d == Beam!Drift(offsets[w], t.method, b.shape, b.frames[k])
           IN beamLog[w][i].sent[k].events =
                {e \in [row : 0..FrameShape.rows - 1, col : 0..FrameShape.cols - 1] :
                   [row |-> e.row + d[1], col |-> e.col + d[2]] \in b.frames[k].events}
  BY <1>1, <1>3, <1>5, Zenon
<1>7. QED
  BY <1>4, <1>6, Zenon DEF b

(* A replica compensates a scan by one method from the first batch of it   *)
(* that it takes, the one that it has by then, to its last, although the   *)
(* user may change the method and batches of other scans come in between,  *)
(* until its container is started anew; replicas that share a scan use the *)
(* same one as long as no update has come, restarts or not (subtract,      *)
(* scan_shifts_cache).                                                     *)
THEOREM ScansKeepTheirMethod ==
  ASSUME Beam!CompensationAssumption
  PROVE  Beam!Spec => []Beam!OneMethodPerScan /\ Beam!MethodAsChosen
<1>1. Beam!Init => BeamInv
  BY BeamInit
<1>2. BeamInv /\ [Beam!Next]_(Beam!vars) => BeamInv'
  BY BeamStep
<1>3. BeamInv => Beam!OneMethodPerScan
  BY BeamOneMethod
<1>4. BeamInv /\ [Beam!Next]_(Beam!vars) => [Beam!BeginsAsChosen]_(Beam!vars)
  BY BeginsStep
<1>5. QED
  BY <1>1, <1>2, <1>3, <1>4, PTL DEF Beam!Spec, Beam!MethodAsChosen

(* Every batch is sent with each of its frames, the events moved by the    *)
(* drift at the frame's position in its own scan, whichever scans come in  *)
(* between and whatever was kept for them (subtract_beam_shift).           *)
THEOREM BeamIsCompensated ==
  ASSUME Beam!CompensationAssumption, SquareVacuums, SquareFrames, OneShape
  PROVE  Beam!Spec => []Beam!CompensatedByDrift
<1>1. Beam!Init => BeamInv
  BY BeamInit
<1>2. BeamInv /\ [Beam!Next]_(Beam!vars) => BeamInv'
  BY BeamStep
<1>3. BeamInv => Beam!CompensatedByDrift
  BY BeamCompensates
<1>4. QED
  BY <1>1, <1>2, <1>3, PTL DEF Beam!Spec

------------------------------------------------------------------------------
(* Readers of scans.                                                       *)
ScanFile == [scan_id : ScanIds, suffix : FileSuffixes]
FileEmitter == [file : ScanFile, number : Nat \ {0}, next : Nat \ {0}, pass : Nat]
ReaderState ==
  [scan_id : ScanIds \cup {None}, number : Nat \ {0}, emitter : FileEmitter \cup {None},
   cached : ScanFile \cup {None}]
SentBatch == [file : ScanFile, number : Nat \ {0}, index : Nat \ {0}, pass : Nat]

(* Where the batches of a pass are.                                        *)
Of(pass) == {i \in DOMAIN readerSent : readerSent[i].pass = pass}

(* An emitter is of the scan that is read, and has sent the batches of its *)
(* pass up to the next.                                                    *)
InPass(e, r, made) ==
  /\ e \in FileEmitter
  /\ e.file.scan_id = r.scan_id /\ e.number = r.number /\ e.pass < made
  /\ \A i \in Of(e.pass) : readerSent[i].number = e.number /\ readerSent[i].file = e.file
  /\ Cardinality(Of(e.pass)) = e.next - 1

Reads(r, made) ==
  /\ r \in ReaderState
  /\ r.emitter # None => InPass(r.emitter, r, made)
  /\ r.cached # None => r.cached.scan_id = r.scan_id

Earlier(i) == {j \in 1..i-1 : readerSent[j].pass = readerSent[i].pass}
InOrder ==
  \A i \in DOMAIN readerSent :
    /\ readerSent[i].index = Cardinality(Earlier(i)) + 1
    /\ \A j \in Earlier(i) :
         readerSent[j].number = readerSent[i].number /\ readerSent[j].file = readerSent[i].file

ReaderInv ==
  /\ readerParameters \in Readers!Parameters
  /\ passes \in Nat /\ errors \in Nat /\ readerChanges \in Nat
  /\ readerSent \in Seq(SentBatch)
  /\ \A i \in DOMAIN readerSent : readerSent[i].pass < passes
  /\ Reads(reader, passes)
  /\ InOrder

(* As long as nothing went wrong and nothing was changed.                  *)
NumbersInv ==
  errors = 0 /\ readerChanges = 0 =>
    /\ reader.scan_id # readerParameters.scan_id => readerSent = <<>>
    /\ \A i \in DOMAIN readerSent :
         /\ readerSent[i].number <= reader.number
         /\ readerSent[i].number = reader.number =>
              reader.emitter # None /\ reader.emitter.pass = readerSent[i].pass
    /\ \A i, j \in DOMAIN readerSent :
         readerSent[i].number = readerSent[j].number => readerSent[i].pass = readerSent[j].pass

LEMMA InOrderIs == InOrder <=> Readers!PassesInOrder
BY Zenon DEF InOrder, Earlier, Readers!PassesInOrder, Readers!Before, Readers!Cardinality, Cardinality

LEMMA SentBatchIs ==
  ASSUME readerSent \in Seq(SentBatch), NEW i \in DOMAIN readerSent
  PROVE  /\ readerSent[i] \in SentBatch /\ readerSent[i].pass \in Nat
         /\ readerSent[i].number \in Nat
<1>1. readerSent[i] \in SentBatch
  OBVIOUS
<1>2. QED
  BY <1>1 DEF SentBatch

LEMMA KeptIs ==
  ASSUME ReaderInv
  PROVE  /\ Reads(Readers!Kept, passes)
         /\ Readers!Kept.scan_id = readerParameters.scan_id
         /\ reader.scan_id = readerParameters.scan_id =>
              Readers!Kept.number = reader.number /\ Readers!Kept.emitter = reader.emitter
<1>1. reader \in ReaderState /\ readerParameters.scan_id \in ScanIds
  BY DEF ReaderInv, Reads, Readers!Parameters
<1>2. CASE reader.scan_id = readerParameters.scan_id
  <2> DEFINE k == [reader EXCEPT !.cached = IF readerParameters.cache THEN reader.cached ELSE None]
  <2>1. Readers!Kept = k
    BY <1>2 DEF Readers!Kept
  <2>2. /\ k \in ReaderState /\ k.scan_id = reader.scan_id /\ k.number = reader.number
        /\ k.emitter = reader.emitter /\ k.cached \in {reader.cached, None}
    BY <1>1 DEF ReaderState
  <2> HIDE DEF k
  <2>3. k.emitter # None => InPass(k.emitter, k, passes)
    BY <2>2 DEF ReaderInv, Reads, InPass
  <2>4. k.cached # None => k.cached.scan_id = k.scan_id
    BY <2>2 DEF ReaderInv, Reads
  <2>5. Reads(k, passes)
    BY <2>2, <2>3, <2>4 DEF Reads
  <2>6. QED
    BY <1>2, <2>1, <2>2, <2>5
<1>3. CASE reader.scan_id # readerParameters.scan_id
  <2> DEFINE k == [scan_id |-> readerParameters.scan_id, number |-> 1, emitter |-> None, cached |-> None]
  <2>1. Readers!Kept = k
    BY <1>3 DEF Readers!Kept
  <2>2. k \in ReaderState /\ k.emitter = None /\ k.cached = None /\ k.scan_id = readerParameters.scan_id
    BY <1>1 DEF ReaderState
  <2> HIDE DEF k
  <2>3. Reads(k, passes)
    BY <2>2 DEF Reads
  <2>4. QED
    BY <1>3, <2>1, <2>2, <2>3
<1>4. QED
  BY <1>2, <1>3

LEMMA NoneOfThePass ==
  ASSUME ReaderInv PROVE Of(passes) = {} /\ Cardinality(Of(passes)) = 0
<1>1. Of(passes) = {}
  <2>1. \A i \in DOMAIN readerSent : readerSent[i].pass \in Nat /\ readerSent[i].pass < passes /\ passes \in Nat
    BY SentBatchIs DEF ReaderInv
  <2>2. QED
    BY <2>1 DEF Of
<1>2. QED
  BY <1>1, FS_EmptySet

LEMMA OpenedIs ==
  ASSUME ReaderInv, Readers!Triggered
  PROVE  /\ passes' \in Nat /\ passes <= passes'
         /\ Readers!Opened(Readers!Kept) \in ReaderState
         /\ Readers!Opened(Readers!Kept).scan_id = readerParameters.scan_id
         /\ Readers!Opened(Readers!Kept).number = Readers!Kept.number
         /\ InPass(Readers!Opened(Readers!Kept).emitter, Readers!Opened(Readers!Kept), passes')
         /\ Readers!Opened(Readers!Kept).cached # None =>
              Readers!Opened(Readers!Kept).cached.scan_id = readerParameters.scan_id
         /\ Readers!Kept.emitter # None =>
              Readers!Opened(Readers!Kept).emitter = Readers!Kept.emitter
         /\ Readers!Kept.emitter = None =>
              Readers!Opened(Readers!Kept).emitter.pass = passes
<1> DEFINE k == Readers!Kept
           o == Readers!Opened(k)
<1>1. /\ Reads(k, passes) /\ k.scan_id = readerParameters.scan_id /\ passes \in Nat
      /\ readerParameters \in Readers!Parameters
  BY KeptIs DEF ReaderInv
<1>2. passes' = IF k.emitter = None THEN passes + 1 ELSE passes
  BY DEF Readers!Triggered
<1>3. CASE k.emitter # None
  <2>1. o = k
    BY <1>3 DEF Readers!Opened
  <2>2. QED
    BY <1>1, <1>2, <1>3, <2>1 DEF Reads
<1>4. CASE k.emitter = None
  <2> DEFINE f == Readers!KeptFile(k)
             e == Readers!Emitter(f, k.number, passes)
  <2>1. f \in ScanFile /\ f.scan_id = readerParameters.scan_id
    <3>1. CASE readerParameters.cache /\ k.cached # None /\ k.cached.scan_id = readerParameters.scan_id
      BY <1>1, <3>1 DEF Readers!KeptFile, Reads, ReaderState
    <3>2. CASE ~(readerParameters.cache /\ k.cached # None /\ k.cached.scan_id = readerParameters.scan_id)
      <4>1. f = [scan_id |-> readerParameters.scan_id, suffix |-> readerParameters.suffix]
        BY <3>2 DEF Readers!KeptFile, Readers!Selected
      <4>2. QED
        BY <1>1, <4>1 DEF ScanFile, Readers!Parameters
    <3>3. QED
      BY <3>1, <3>2
  <2>2. k.number \in Nat \ {0} /\ k \in ReaderState
    BY <1>1 DEF Reads, ReaderState
  <2> HIDE DEF f
  <2>3. /\ e \in FileEmitter /\ e.file = f /\ e.number = k.number /\ e.pass = passes /\ e.next = 1
    BY <1>1, <2>1, <2>2 DEF Readers!Emitter, FileEmitter
  <2> HIDE DEF e
  <2>4. o = [k EXCEPT !.emitter = e, !.cached = IF readerParameters.cache THEN f ELSE k.cached]
    BY <1>4 DEF Readers!Opened, e, f
  <2>5. /\ o \in ReaderState /\ o.scan_id = k.scan_id /\ o.number = k.number /\ o.emitter = e
        /\ o.cached \in {f, k.cached}
    BY <2>1, <2>2, <2>3, <2>4 DEF ReaderState
  <2>6. passes' = passes + 1
    BY <1>2, <1>4
  <2> HIDE DEF o, k
  <2>7. InPass(e, o, passes')
    BY <1>1, <2>1, <2>3, <2>5, <2>6, NoneOfThePass DEF InPass
  <2>8. o.cached # None => o.cached.scan_id = readerParameters.scan_id
    BY <1>1, <2>1, <2>5 DEF Reads
  <2>9. QED
    BY <1>1, <1>4, <2>3, <2>5, <2>6, <2>7, <2>8 DEF k, o
<1>5. QED
  BY <1>3, <1>4

(* A batch of the pass is sent.                                            *)
LEMMA EmitsKeeps ==
  ASSUME ReaderInv, Readers!Emits
  PROVE  ReaderInv'
<1> DEFINE o == Readers!Opened(Readers!Kept)
           e == o.emitter
           b == [file |-> e.file, number |-> e.number, index |-> e.next, pass |-> e.pass]
           n == Len(readerSent)
<1>1. /\ passes \in Nat /\ passes' \in Nat /\ passes <= passes'
      /\ o \in ReaderState /\ InPass(e, o, passes')
      /\ o.cached # None => o.cached.scan_id = o.scan_id
  BY OpenedIs DEF Readers!Emits, ReaderInv
<1>2. /\ readerSent' = Append(readerSent, b)
      /\ reader' = [o EXCEPT !.emitter.next = e.next + 1]
      /\ UNCHANGED <<readerParameters, readerChanges, errors>>
  BY DEF Readers!Emits
<1>3. readerSent \in Seq(SentBatch)
  BY DEF ReaderInv
<1> HIDE DEF o
<1>4. e \in FileEmitter /\ e.pass < passes'
  BY <1>1 DEF InPass
<1>5. b \in SentBatch /\ b.number = e.number /\ b.file = e.file /\ b.index = e.next /\ b.pass = e.pass
  BY <1>4 DEF SentBatch, FileEmitter
<1>6. /\ o.emitter = e /\ reader'.scan_id = o.scan_id /\ reader'.number = o.number
      /\ reader'.cached = o.cached
      /\ reader'.emitter = [e EXCEPT !.next = e.next + 1]
  BY <1>1, <1>2 DEF ReaderState
<1>7. /\ reader'.emitter \in FileEmitter /\ reader'.emitter.file = e.file
      /\ reader'.emitter.number = e.number /\ reader'.emitter.pass = e.pass
      /\ reader'.emitter.next = e.next + 1 /\ e.next \in Nat \ {0} /\ e.pass \in Nat
  BY <1>4, <1>6 DEF FileEmitter
<1>8. reader' \in ReaderState
  <2>1. reader' = [scan_id |-> o.scan_id, number |-> o.number, emitter |-> reader'.emitter, cached |-> o.cached]
    BY <1>1, <1>2, <1>6 DEF ReaderState
  <2>2. QED
    BY <1>1, <1>7, <2>1 DEF ReaderState
<1> HIDE DEF b, e
<1>9. /\ readerSent' \in Seq(SentBatch) /\ n \in Nat
      /\ DOMAIN readerSent = 1..n /\ DOMAIN readerSent' = 1..n + 1
      /\ readerSent'[n + 1] = b /\ \A i \in 1..n : readerSent'[i] = readerSent[i]
  BY <1>2, <1>3, <1>5
<1> HIDE DEF n
<1>p. PICK p \in Nat : p = e.pass
  BY <1>7
<1>10. Of(p) \subseteq 1..n /\ Of(p)' = Of(p) \cup {n + 1}
  BY <1>5, <1>9, <1>p DEF Of
<1>11. /\ IsFiniteSet(Of(p)) /\ Cardinality(Of(p)) = e.next - 1
       /\ Cardinality(Of(p)') = e.next
  <2>1. IsFiniteSet(1..n)
    <3>1. n \in Int /\ 1 \in Int
      BY <1>9
    <3>2. QED
      BY <3>1, FS_Interval
  <2>2. IsFiniteSet(Of(p))
    BY <1>10, <2>1, FS_Subset
  <2>3. n + 1 \notin Of(p)
    BY <1>9, <1>10
  <2>4. Cardinality(Of(p) \cup {n + 1}) = Cardinality(Of(p)) + 1
    BY <2>2, <2>3, FS_AddElement
  <2>5. Cardinality(Of(p)) = e.next - 1
    BY <1>1, <1>6, <1>p DEF InPass
  <2>6. QED
    BY <1>7, <1>10, <2>2, <2>4, <2>5
<1>12. \A i \in Of(p)' : readerSent'[i].number = e.number /\ readerSent'[i].file = e.file
  BY <1>1, <1>5, <1>6, <1>9, <1>10, <1>p DEF InPass
<1>13. InPass(reader.emitter, reader, passes)'
  BY <1>1, <1>4, <1>6, <1>7, <1>11, <1>12, <1>p DEF InPass
<1>14. Reads(reader, passes)'
  BY <1>1, <1>6, <1>8, <1>13 DEF Reads
<1>15. InOrder'
  <2> SUFFICES ASSUME NEW i \in 1..n + 1
               PROVE  /\ readerSent'[i].index = Cardinality(Earlier(i)') + 1
                      /\ \A j \in Earlier(i)' :
                           readerSent'[j].number = readerSent'[i].number
                             /\ readerSent'[j].file = readerSent'[i].file
    BY <1>9 DEF InOrder
  <2>1. CASE i = n + 1
    <3>1. Earlier(i)' = Of(p)
      BY <1>5, <1>9, <1>p, <2>1 DEF Earlier, Of
    <3>2. QED
      BY <1>1, <1>5, <1>6, <1>7, <1>9, <1>10, <1>11, <1>p, <2>1, <3>1 DEF InPass
  <2>2. CASE i # n + 1
    <3>1. i \in 1..n /\ readerSent'[i] = readerSent[i]
      BY <1>9, <2>2
    <3>2. Earlier(i)' = Earlier(i) /\ Earlier(i) \subseteq 1..n
      BY <1>9, <3>1 DEF Earlier
    <3>3. QED
      BY <1>9, <3>1, <3>2 DEF ReaderInv, InOrder
  <2>3. QED
    BY <2>1, <2>2
<1>16. \A i \in DOMAIN readerSent' : readerSent'[i].pass < passes'
  <2> SUFFICES ASSUME NEW i \in 1..n + 1 PROVE readerSent'[i].pass < passes'
    BY <1>9
  <2>1. CASE i = n + 1
    BY <1>4, <1>5, <1>9, <2>1
  <2>2. CASE i # n + 1
    <3>1. i \in DOMAIN readerSent /\ readerSent'[i] = readerSent[i] /\ readerSent[i].pass \in Nat
      BY <1>3, <1>9, <2>2, SentBatchIs
    <3>2. readerSent[i].pass < passes
      BY <3>1 DEF ReaderInv
    <3>3. QED
      BY <1>1, <3>1, <3>2
  <2>3. QED
    BY <2>1, <2>2
<1>17. QED
  BY <1>1, <1>2, <1>9, <1>14, <1>15, <1>16 DEF ReaderInv

(* Nothing is sent: the reader is in a state in which it reads.            *)
LEMMA NotSentKeeps ==
  ASSUME ReaderInv, readerSent' = readerSent, passes' \in Nat, passes <= passes',
         errors' \in Nat, readerChanges' \in Nat,
         readerParameters' \in Readers!Parameters, Reads(reader, passes)'
  PROVE  ReaderInv'
<1>1. passes \in Nat /\ readerSent \in Seq(SentBatch)
  BY DEF ReaderInv
<1>2. \A i \in DOMAIN readerSent' : readerSent'[i].pass < passes'
  <2> SUFFICES ASSUME NEW i \in DOMAIN readerSent PROVE readerSent[i].pass < passes'
    OBVIOUS
  <2>1. readerSent[i].pass \in Nat
    BY <1>1, SentBatchIs
  <2>2. readerSent[i].pass < passes
    BY DEF ReaderInv
  <2>3. QED
    BY <1>1, <2>1, <2>2
<1>3. InOrder'
  BY Zenon DEF ReaderInv, InOrder, Earlier
<1>4. QED
  BY <1>1, <1>2, <1>3 DEF ReaderInv

LEMMA ReadsOn ==
  ASSUME NEW r, NEW m \in Nat, Reads(r, m), reader' = r, readerSent' = readerSent,
         passes' \in Nat, m <= passes'
  PROVE  Reads(reader, passes)'
<1>2. r.emitter # None => InPass(reader.emitter, reader, passes)'
  <2> SUFFICES ASSUME r.emitter # None PROVE InPass(reader.emitter, reader, passes)'
    OBVIOUS
  <2>1. InPass(r.emitter, r, m)
    BY DEF Reads
  <2> PICK e : e = r.emitter
    OBVIOUS
  <2>2. e \in FileEmitter /\ e.pass < m /\ e.pass \in Nat
    BY <2>1 DEF InPass, FileEmitter
  <2>3. e.pass < passes'
    BY <2>2
  <2>4. Of(e.pass)' = Of(e.pass)
    BY DEF Of
  <2>5. QED
    BY <2>1, <2>2, <2>3, <2>4 DEF InPass
<1>3. QED
  BY <1>2 DEF Reads

LEMMA ReaderSteps ==
  ASSUME ReaderInv, [Readers!Next]_(Readers!vars)
  PROVE  ReaderInv'
<1>1. /\ readerParameters \in Readers!Parameters /\ passes \in Nat /\ errors \in Nat
      /\ readerChanges \in Nat /\ Reads(reader, passes)
  BY DEF ReaderInv
<1>2. CASE Readers!Changes
  <2>1. /\ readerChanges' = readerChanges + 1 /\ readerParameters' \in Readers!Parameters
        /\ reader' = reader /\ readerSent' = readerSent /\ passes' = passes /\ errors' = errors
    BY <1>2 DEF Readers!Changes
  <2> PICK r : r = reader
    OBVIOUS
  <2> PICK m : m = passes
    OBVIOUS
  <2>2. Reads(reader, passes)'
    <3>1. Reads(r, m) /\ m \in Nat /\ m <= passes' /\ passes' \in Nat /\ reader' = r
      BY <1>1, <2>1
    <3>2. QED
      BY <2>1, <3>1, ReadsOn
  <2>3. QED
    BY <1>1, <2>1, <2>2, NotSentKeeps
<1>3. CASE Readers!Fails
  <2>1. /\ reader' = Readers!Kept /\ UNCHANGED <<readerParameters, readerSent, passes, readerChanges>>
        /\ errors' \in {errors, errors + 1}
    BY <1>3 DEF Readers!Fails
  <2> PICK r : r = Readers!Kept
    OBVIOUS
  <2> PICK m : m = passes
    OBVIOUS
  <2>2. Reads(reader, passes)'
    <3>1. Reads(r, m) /\ m \in Nat /\ m <= passes' /\ passes' \in Nat /\ reader' = r
      BY <1>1, <2>1, KeptIs
    <3>2. QED
      BY <2>1, <3>1, ReadsOn
  <2>3. QED
    BY <1>1, <2>1, <2>2, NotSentKeeps
<1>4. CASE Readers!Emits
  BY <1>4, EmitsKeeps
<1>5. ASSUME Readers!Triggered, readerSent' = readerSent, readerParameters' = readerParameters,
             readerChanges' = readerChanges, errors' \in {errors, errors + 1},
             NEW n \in Nat \ {0},
             reader' = [Readers!Opened(Readers!Kept) EXCEPT !.emitter = None, !.number = n]
      PROVE  ReaderInv'
  <2> DEFINE o == Readers!Opened(Readers!Kept)
  <2>1. /\ passes' \in Nat /\ passes <= passes' /\ o \in ReaderState
        /\ o.cached # None => o.cached.scan_id = o.scan_id
    BY <1>5, OpenedIs
  <2>2. reader' = [o EXCEPT !.emitter = None, !.number = n]
    BY <1>5
  <2> HIDE DEF o
  <2>3. reader' \in ReaderState /\ reader'.emitter = None /\ reader'.cached = o.cached
        /\ reader'.scan_id = o.scan_id
    BY <2>1, <2>2 DEF ReaderState
  <2>4. Reads(reader, passes)'
    BY <2>1, <2>3 DEF Reads
  <2>5. QED
    BY <1>1, <1>5, <2>1, <2>4, NotSentKeeps
<1>6. CASE Readers!Exhausted
  <2>1. /\ Readers!Triggered
        /\ UNCHANGED <<readerParameters, readerSent, readerChanges, errors>>
        /\ reader' = [Readers!Opened(Readers!Kept) EXCEPT !.emitter = None,
                        !.number = Readers!Opened(Readers!Kept).number + 1]
    BY <1>6 DEF Readers!Exhausted
  <2>2. Readers!Opened(Readers!Kept) \in ReaderState
    BY <2>1, OpenedIs
  <2>3. PICK n \in Nat \ {0} : n = Readers!Opened(Readers!Kept).number + 1
    BY <2>2 DEF ReaderState
  <2>4. reader' = [Readers!Opened(Readers!Kept) EXCEPT !.emitter = None, !.number = n]
    BY <2>1, <2>3
  <2>5. QED
    BY <1>5, <2>1, <2>4
<1>7. CASE Readers!EmissionFails
  <2>1. /\ Readers!Triggered
        /\ UNCHANGED <<readerParameters, readerSent, readerChanges>> /\ errors' = errors + 1
        /\ reader' = [Readers!Opened(Readers!Kept) EXCEPT !.emitter = None]
    BY <1>7 DEF Readers!EmissionFails
  <2>2. Readers!Opened(Readers!Kept) \in ReaderState
    BY <2>1, OpenedIs
  <2>3. PICK n \in Nat \ {0} : n = Readers!Opened(Readers!Kept).number
    BY <2>2 DEF ReaderState
  <2>4. reader' = [Readers!Opened(Readers!Kept) EXCEPT !.emitter = None, !.number = n]
    BY <2>1, <2>2, <2>3 DEF ReaderState
  <2>5. QED
    BY <1>5, <2>1, <2>4
<1>8. CASE Readers!Replays \/ UNCHANGED Readers!vars
  <2>1. UNCHANGED <<readerParameters, reader, readerSent, passes, readerChanges, errors>>
    BY <1>8 DEF Readers!Replays, Readers!vars
  <2> PICK r : r = reader
    OBVIOUS
  <2> PICK m : m = passes
    OBVIOUS
  <2>2. Reads(reader, passes)'
    <3>1. Reads(r, m) /\ m \in Nat /\ m <= passes' /\ passes' \in Nat /\ reader' = r
      BY <1>1, <2>1
    <3>2. QED
      BY <2>1, <3>1, ReadsOn
  <2>3. QED
    BY <1>1, <2>1, <2>2, NotSentKeeps
<1>9. QED
  BY <1>2, <1>3, <1>4, <1>6, <1>7, <1>8 DEF Readers!Next

LEMMA ReaderBegins == Readers!Init => ReaderInv
<1> SUFFICES ASSUME Readers!Init PROVE ReaderInv
  OBVIOUS
<1>1. /\ readerParameters \in Readers!Parameters /\ readerSent = <<>> /\ passes = 0
      /\ errors = 0 /\ readerChanges = 0
      /\ reader = [scan_id |-> None, number |-> 1, emitter |-> None, cached |-> None]
  BY DEF Readers!Init
<1>2. Reads(reader, passes)
  BY <1>1 DEF Reads, ReaderState
<1>3. QED
  BY <1>1, <1>2 DEF ReaderInv, InOrder

(* Each pass sends its file from the first batch on without a gap, under   *)
(* one scan number.                                                        *)
THEOREM PassesAreInOrder == Readers!Spec => []Readers!PassesInOrder
<1>1. ReaderInv => Readers!PassesInOrder
  BY InOrderIs DEF ReaderInv
<1>2. QED
  BY <1>1, ReaderBegins, ReaderSteps, PTL DEF Readers!Spec

(* Until an error or a change of the parameters, a number is of one pass.  *)
LEMMA NumbersSteps ==
  ASSUME Readers!ReadersAssumption, ReaderInv, NumbersInv, [Readers!Next]_(Readers!vars)
  PROVE  NumbersInv'
<1>1. /\ errors \in Nat /\ readerChanges \in Nat /\ passes \in Nat
      /\ readerSent \in Seq(SentBatch) /\ reader \in ReaderState
      /\ \A i \in DOMAIN readerSent : readerSent[i].pass < passes
  BY DEF ReaderInv, Reads
<1> SUFFICES ASSUME errors' = 0, readerChanges' = 0 PROVE NumbersInv'
  BY DEF NumbersInv
<1>2. CASE Readers!Changes
  BY <1>1, <1>2 DEF Readers!Changes
<1>3. CASE Readers!EmissionFails
  BY <1>1, <1>3 DEF Readers!EmissionFails
<1> DEFINE k == Readers!Kept
           o == Readers!Opened(k)
<1>4. ASSUME errors = 0, readerChanges = 0
      PROVE  /\ k.scan_id = readerParameters.scan_id /\ k.number \in Nat
             /\ readerSent # <<>> => k.number = reader.number /\ k.emitter = reader.emitter
  <2>1. Reads(k, passes) /\ k.scan_id = readerParameters.scan_id
    BY KeptIs
  <2>2. reader.scan_id = readerParameters.scan_id => k.number = reader.number /\ k.emitter = reader.emitter
    BY KeptIs
  <2>3. reader.scan_id # readerParameters.scan_id => readerSent = <<>>
    BY <1>4 DEF NumbersInv
  <2>4. QED
    BY <2>1, <2>2, <2>3 DEF Reads, ReaderState
<1>5. CASE Readers!Fails
  <2>1. /\ reader' = k /\ UNCHANGED <<readerParameters, readerSent, readerChanges>>
        /\ errors' \in {errors, errors + 1}
    BY <1>5 DEF Readers!Fails
  <2>2. errors = 0 /\ readerChanges = 0
    BY <1>1, <2>1
  <2> HIDE DEF k
  <2>3. readerSent # <<>> => reader'.number = reader.number /\ reader'.emitter = reader.emitter
    BY <1>4, <2>1, <2>2
  <2>4. reader'.scan_id = readerParameters'.scan_id
    BY <1>4, <2>1, <2>2
  <2>5. CASE readerSent = <<>>
    BY <2>1, <2>5 DEF NumbersInv
  <2>6. CASE readerSent # <<>>
    BY <2>1, <2>2, <2>3, <2>4, <2>6 DEF NumbersInv
  <2>7. QED
    BY <2>5, <2>6
<1>6. ASSUME Readers!Triggered, errors = 0, readerChanges = 0
      PROVE  /\ o \in ReaderState /\ o.scan_id = readerParameters.scan_id
             /\ o.emitter # None /\ o.emitter \in FileEmitter /\ o.number = o.emitter.number
             /\ \A i \in DOMAIN readerSent :
                  /\ readerSent[i].number <= o.number
                  /\ readerSent[i].number = o.number => o.emitter.pass = readerSent[i].pass
  <2>1. InPass(o.emitter, o, passes')
    BY <1>6, OpenedIs
  <2>2. /\ o \in ReaderState /\ o.scan_id = readerParameters.scan_id /\ o.number = k.number
        /\ k.emitter # None => o.emitter = k.emitter
        /\ k.emitter = None => o.emitter.pass = passes
    BY <1>6, OpenedIs
  <2> HIDE DEF o, k
  <2>3. o.emitter \in FileEmitter /\ o.number = o.emitter.number
    BY <2>1 DEF InPass
  <2>4. ASSUME NEW i \in DOMAIN readerSent
        PROVE  /\ readerSent[i].number <= o.number
               /\ readerSent[i].number = o.number => o.emitter.pass = readerSent[i].pass
    <3>1. readerSent # <<>>
      BY <1>1, <2>4
    <3>2. k.number = reader.number /\ k.emitter = reader.emitter
      BY <1>4, <1>6, <3>1
    <3>3. /\ readerSent[i].number <= reader.number
          /\ readerSent[i].number = reader.number =>
               reader.emitter # None /\ reader.emitter.pass = readerSent[i].pass
      BY <1>6 DEF NumbersInv
    <3>4. QED
      BY <2>2, <3>2, <3>3
  <2>5. o.emitter # None
    BY <2>3 DEF FileEmitter, ScanFile, Readers!ReadersAssumption
  <2>6. QED
    BY <2>2, <2>3, <2>4, <2>5
<1> HIDE DEF o, k
<1>7. CASE Readers!Emits
  <2> DEFINE b == [file |-> o.emitter.file, number |-> o.emitter.number,
                   index |-> o.emitter.next, pass |-> o.emitter.pass]
             n == Len(readerSent)
  <2>1. /\ Readers!Triggered /\ readerSent' = Append(readerSent, b)
        /\ reader' = [o EXCEPT !.emitter.next = o.emitter.next + 1]
        /\ UNCHANGED <<readerParameters, readerChanges, errors>>
    BY <1>7 DEF Readers!Emits, o, k
  <2>2. errors = 0 /\ readerChanges = 0
    BY <2>1
  <2>3. /\ o \in ReaderState /\ o.scan_id = readerParameters.scan_id
        /\ o.emitter # None /\ o.emitter \in FileEmitter /\ o.number = o.emitter.number
    BY <1>6, <2>1, <2>2
  <2>4. /\ b.number = o.number /\ b.pass = o.emitter.pass
    BY <2>3
  <2>5. /\ reader'.scan_id = o.scan_id /\ reader'.number = o.number
        /\ reader'.emitter = [o.emitter EXCEPT !.next = o.emitter.next + 1]
    BY <2>1, <2>3 DEF ReaderState
  <2>6. /\ reader'.emitter.pass = o.emitter.pass /\ reader'.emitter \in FileEmitter
        /\ o.number \in Nat
    BY <2>3, <2>5 DEF FileEmitter
  <2>7. reader'.emitter # None
    BY <2>6 DEF FileEmitter, ScanFile, Readers!ReadersAssumption
  <2>8. b \in SentBatch
    BY <2>3 DEF SentBatch, FileEmitter
  <2> HIDE DEF b
  <2>9. /\ n \in Nat /\ DOMAIN readerSent = 1..n /\ DOMAIN readerSent' = 1..n + 1
        /\ readerSent'[n + 1] = b /\ \A i \in 1..n : readerSent'[i] = readerSent[i]
    BY <1>1, <2>1, <2>8
  <2> HIDE DEF n
  <2>10. \A i \in 1..n : /\ readerSent[i].number <= o.number /\ readerSent[i].number \in Nat
                         /\ readerSent[i].number = o.number => o.emitter.pass = readerSent[i].pass
    BY <1>1, <1>6, <2>1, <2>2, <2>9, SentBatchIs
  <2>11. \A i, j \in 1..n : readerSent[i].number = readerSent[j].number => readerSent[i].pass = readerSent[j].pass
    BY <2>2, <2>9 DEF NumbersInv
  <2>12. \A i \in 1..n + 1 :
           /\ readerSent'[i].number <= o.number
           /\ readerSent'[i].number = o.number => readerSent'[i].pass = o.emitter.pass
           /\ i = n + 1 \/ i \in 1..n
    BY <2>4, <2>6, <2>9, <2>10
  <2>13. \A i, j \in 1..n + 1 :
           readerSent'[i].number = readerSent'[j].number => readerSent'[i].pass = readerSent'[j].pass
    <3>1. readerSent'[n + 1].number = o.number /\ readerSent'[n + 1].pass = o.emitter.pass
      BY <2>4, <2>9, <2>6
    <3>2. \A i, j \in 1..n :
            readerSent'[i].number = readerSent'[j].number => readerSent'[i].pass = readerSent'[j].pass
      BY <2>9, <2>11
    <3>3. QED
      BY <2>12, <3>1, <3>2
  <2>14. reader'.scan_id = readerParameters'.scan_id
    BY <2>1, <2>3, <2>5
  <2>15. \A i \in 1..n + 1 :
           /\ readerSent'[i].number <= reader'.number
           /\ readerSent'[i].number = reader'.number =>
                reader'.emitter # None /\ reader'.emitter.pass = readerSent'[i].pass
    BY <2>5, <2>6, <2>7, <2>12
  <2>16. QED
    BY <2>9, <2>13, <2>14, <2>15 DEF NumbersInv
<1>8. CASE Readers!Exhausted
  <2>1. /\ Readers!Triggered
        /\ UNCHANGED <<readerParameters, readerSent, readerChanges, errors>>
        /\ reader' = [o EXCEPT !.emitter = None, !.number = o.number + 1]
    BY <1>8 DEF Readers!Exhausted, o, k
  <2>2. errors = 0 /\ readerChanges = 0
    BY <2>1
  <2>3. /\ o \in ReaderState /\ o.scan_id = readerParameters.scan_id
        /\ \A i \in DOMAIN readerSent : readerSent[i].number <= o.number
    BY <1>6, <2>1, <2>2
  <2>4. reader'.scan_id = o.scan_id /\ reader'.number = o.number + 1 /\ o.number \in Nat
    BY <2>1, <2>3 DEF ReaderState
  <2>5. ASSUME NEW i \in DOMAIN readerSent
        PROVE  readerSent[i].number <= reader'.number /\ readerSent[i].number # reader'.number
    BY <1>1, <2>3, <2>4, <2>5, SentBatchIs
  <2>6. QED
    BY <2>1, <2>2, <2>3, <2>4, <2>5 DEF NumbersInv
<1>9. CASE Readers!Replays \/ UNCHANGED Readers!vars
  <2>1. UNCHANGED <<readerParameters, reader, readerSent, readerChanges, errors>>
    BY <1>9 DEF Readers!Replays, Readers!vars
  <2>2. QED
    BY <2>1 DEF NumbersInv
<1>10. QED
  BY <1>2, <1>3, <1>5, <1>7, <1>8, <1>9 DEF Readers!Next

LEMMA NumbersBegin ==
  /\ Readers!Init => NumbersInv
  /\ NumbersInv => Readers!NumbersNamePasses
<1>1. Readers!Init => NumbersInv
  BY DEF Readers!Init, NumbersInv
<1>2. NumbersInv => Readers!NumbersNamePasses
  <2>1. \A c \in Readers!Range(readerSent) : \E i \in DOMAIN readerSent : c = readerSent[i]
    BY DEF Readers!Range
  <2>2. QED
    BY <2>1 DEF NumbersInv, Readers!NumbersNamePasses
<1>3. QED
  BY <1>1, <1>2

(* As long as no scan is begun anew after an error, nor another selected,  *)
(* a scan number is that of one pass.                                      *)
THEOREM NumbersAreOfOnePass ==
  ASSUME Readers!ReadersAssumption
  PROVE  Readers!Spec => []Readers!NumbersNamePasses
<1>1. ReaderInv /\ NumbersInv /\ [Readers!Next]_(Readers!vars) => NumbersInv'
  BY NumbersSteps
<1>2. QED
  BY <1>1, NumbersBegin, ReaderBegins, ReaderSteps, PTL DEF Readers!Spec

(* A batch that is sent is of the scan that is selected.                   *)
LEMMA SendsStep ==
  ASSUME ReaderInv, [Readers!Next]_(Readers!vars)
  PROVE  Readers!SendsSelected
<1>1. CASE Readers!Emits
  <2> DEFINE o == Readers!Opened(Readers!Kept)
             b == [file |-> o.emitter.file, number |-> o.emitter.number,
                   index |-> o.emitter.next, pass |-> o.emitter.pass]
  <2>1. /\ Readers!Triggered /\ readerSent' = Append(readerSent, b)
    BY <1>1 DEF Readers!Emits
  <2>2. o.scan_id = readerParameters.scan_id /\ InPass(o.emitter, o, passes')
    BY <2>1, OpenedIs
  <2>3. o.emitter.file.scan_id = readerParameters.scan_id
    BY <2>2 DEF InPass
  <2>4. b \in SentBatch /\ b.file = o.emitter.file
    BY <2>2 DEF InPass, FileEmitter, SentBatch
  <2> HIDE DEF b
  <2>5. Readers!Last(readerSent') = b
    BY <2>1, <2>4 DEF Readers!Last, ReaderInv
  <2>6. QED
    BY <2>3, <2>4, <2>5 DEF Readers!SendsSelected
<1>2. CASE ~Readers!Emits
  <2>1. readerSent' = readerSent
    BY <1>2 DEF Readers!Next, Readers!Changes, Readers!Fails, Readers!Exhausted,
      Readers!EmissionFails, Readers!Replays, Readers!vars
  <2>2. Len(readerSent) \in Nat
    BY DEF ReaderInv
  <2>3. QED
    BY <2>1, <2>2 DEF Readers!SendsSelected
<1>3. QED
  BY <1>1, <1>2

(* A batch is of the scan that is selected when it is triggered, also when *)
(* the user selected another in the middle of a pass, or after its dataset *)
(* was kept.                                                               *)
THEOREM SelectedScansAreSent == Readers!Spec => Readers!SelectedIsSent
<1>1. ReaderInv /\ [Readers!Next]_(Readers!vars) => [Readers!SendsSelected]_(Readers!vars)
  BY SendsStep
<1>2. QED
  BY <1>1, ReaderBegins, ReaderSteps, PTL DEF Readers!Spec, Readers!SelectedIsSent

------------------------------------------------------------------------------
(* Frames of the camera.                                                   *)
CameraParts == {Camera!Part(f, m) : f \in CameraFrames, m \in Modules}
Places == {"port", "socket", "inbox", "cache", "assembled", "lost"}
Whole(f) == [m \in Modules |-> <<Camera!Part(f, m)>>]

Has(s, x) == \E i \in DOMAIN s : s[i] = x
InPort(f, m) == f \in port[m]
InSocket(f, m) == Has(cameraSocket[m], Camera!Part(f, m))
InInbox(f, m) == Has(cameraInbox, Camera!Part(f, m))
InCache(f, m) == f \in DOMAIN cameraCache /\ m \in DOMAIN cameraCache[f]
IsAssembled(f) == Has(assembled, Whole(f))
IsLost(f, m) == Camera!Part(f, m) \in lost

(* The part of a frame that a module has made is in one place.             *)
Located(w) ==
  \A f \in CameraFrames, m \in Modules :
    /\ InPort(f, m) <=> w[<<f, m>>] = "port"
    /\ InSocket(f, m) <=> w[<<f, m>>] = "socket"
    /\ InInbox(f, m) <=> w[<<f, m>>] = "inbox"
    /\ InCache(f, m) <=> w[<<f, m>>] = "cache"
    /\ IsAssembled(f) <=> w[<<f, m>>] = "assembled"
    /\ IsLost(f, m) <=> w[<<f, m>>] = "lost"

Once(s) == \A i, j \in DOMAIN s : s[i] = s[j] => i = j
CameraTyped ==
  /\ port \in [Modules -> SUBSET CameraFrames]
  /\ cameraSocket \in [Modules -> Seq(CameraParts)]
  /\ \A m \in Modules :
       /\ Once(cameraSocket[m])
       /\ \A i \in DOMAIN cameraSocket[m] : cameraSocket[m][i].module = m
  /\ cameraInbox \in Seq(CameraParts) /\ Once(cameraInbox)
  /\ lost \subseteq CameraParts

CacheTyped ==
  /\ cameraCache = [f \in DOMAIN cameraCache |-> cameraCache[f]]
  /\ DOMAIN cameraCache \subseteq CameraFrames
  /\ \A f \in DOMAIN cameraCache :
       /\ DOMAIN cameraCache[f] \subseteq Modules
       /\ DOMAIN cameraCache[f] \notin {{}, Modules}
       /\ cameraCache[f] = [m \in DOMAIN cameraCache[f] |-> <<Camera!Part(f, m)>>]
  /\ assembled \in Seq({Whole(f) : f \in CameraFrames}) /\ Once(assembled)

CameraInv ==
  /\ CameraTyped /\ CacheTyped
  /\ \E w \in [CameraFrames \X Modules -> Places] : Located(w)

LEMMA PartIs ==
  ASSUME Camera!CameraAssumption
  PROVE  /\ \A f, m : Camera!Part(f, m).frame = f /\ Camera!Part(f, m).module = m
         /\ \A f \in CameraFrames, m \in Modules :
              Camera!Part(f, m) \in CameraParts /\ Camera!Key(Camera!Part(f, m)) = f
         /\ \A p \in CameraParts :
              /\ p.frame \in CameraFrames /\ p.module \in Modules
              /\ p = Camera!Part(p.frame, p.module)
<1>1. \A f, m : Camera!Part(f, m).frame = f /\ Camera!Part(f, m).module = m
  BY DEF Camera!Part
<1>2. \A f \in CameraFrames, m \in Modules : Camera!Part(f, m) \in CameraParts
  BY DEF CameraParts
<1>3. \A f \in CameraFrames : [scan |-> f.scan, number |-> f.number] = f
  BY DEF Camera!CameraAssumption
<1>4. \A f \in CameraFrames, m \in Modules : Camera!Key(Camera!Part(f, m)) = f
  BY <1>1, <1>3 DEF Camera!Key
<1>5. \A p \in CameraParts :
        /\ p.frame \in CameraFrames /\ p.module \in Modules /\ p = Camera!Part(p.frame, p.module)
  <2> SUFFICES ASSUME NEW f \in CameraFrames, NEW m \in Modules, NEW p, p = Camera!Part(f, m)
               PROVE  p.frame \in CameraFrames /\ p.module \in Modules /\ p = Camera!Part(p.frame, p.module)
    BY DEF CameraParts
  <2>1. p.frame = f /\ p.module = m
    BY <1>1
  <2>2. QED
    BY <2>1
<1>6. QED
  BY <1>1, <1>2, <1>4, <1>5

LEMMA WholeIs ==
  ASSUME Camera!CameraAssumption, NEW f \in CameraFrames, NEW g \in CameraFrames, Whole(f) = Whole(g)
  PROVE  f = g
<1>1. PICK m \in Modules : TRUE
  BY DEF Camera!CameraAssumption
<1>2. Whole(f)[m] = Whole(g)[m]
  OBVIOUS
<1>3. <<Camera!Part(f, m)>> = <<Camera!Part(g, m)>>
  BY <1>1, <1>2 DEF Whole
<1>4. Camera!Part(f, m) = Camera!Part(g, m)
  BY <1>3
<1>5. QED
  BY <1>4, PartIs

(* What is appended to a sequence in which it is not.                      *)
LEMMA AppendOnce ==
  ASSUME NEW S, NEW s, s \in Seq(S), NEW e, e \in S, NEW t, t = Append(s, e)
  PROVE  /\ t \in Seq(S)
         /\ \A x : Has(t, x) <=> x = e \/ Has(s, x)
         /\ Once(s) /\ ~Has(s, e) => Once(t)
<1> DEFINE n == Len(s)
<1>1. /\ t \in Seq(S) /\ n \in Nat /\ DOMAIN s = 1..n /\ DOMAIN t = 1..n + 1
      /\ t[n + 1] = e /\ \A i \in 1..n : t[i] = s[i]
  OBVIOUS
<1> HIDE DEF n
<1>2. \A i \in 1..n + 1 : i = n + 1 \/ i \in 1..n
  BY <1>1
<1>3. \A x : (\E i \in DOMAIN t : t[i] = x) <=> x = e \/ \E i \in DOMAIN s : s[i] = x
  BY <1>1, <1>2
<1>4. Once(s) /\ ~(\E i \in DOMAIN s : s[i] = e) => Once(t)
  BY <1>1, <1>2 DEF Once
<1>5. QED
  BY <1>1, <1>3, <1>4 DEF Has

LEMMA TailOnce ==
  ASSUME NEW S, NEW s \in Seq(S), s # <<>>
  PROVE  /\ Tail(s) \in Seq(S) /\ Head(s) \in S
         /\ Has(s, Head(s))
         /\ \A x : Has(s, x) <=> x = Head(s) \/ Has(Tail(s), x)
         /\ Once(s) => Once(Tail(s)) /\ ~Has(Tail(s), Head(s))
<1> DEFINE t == Tail(s)
           n == Len(s)
<1>1. /\ t \in Seq(S) /\ n \in Nat \ {0} /\ DOMAIN s = 1..n /\ DOMAIN t = 1..n - 1
      /\ \A i \in 1..n - 1 : t[i] = s[i + 1]
      /\ Head(s) = s[1] /\ Head(s) \in S
  OBVIOUS
<1> HIDE DEF t, n
<1>2. /\ 1 \in 1..n /\ \A i \in 1..n - 1 : i + 1 \in 1..n /\ i + 1 # 1
      /\ \A i \in 1..n : i = 1 \/ (i - 1 \in 1..n - 1 /\ (i - 1) + 1 = i)
  BY <1>1
<1>3. \A x : (\E i \in DOMAIN s : s[i] = x) <=> x = Head(s) \/ \E i \in DOMAIN t : t[i] = x
  <2> SUFFICES ASSUME NEW x
               PROVE  (\E i \in 1..n : s[i] = x) <=> x = s[1] \/ \E i \in 1..n - 1 : t[i] = x
    BY <1>1
  <2>1. ASSUME NEW i \in 1..n, s[i] = x PROVE x = s[1] \/ \E j \in 1..n - 1 : t[j] = x
    <3>1. CASE i = 1
      BY <2>1, <3>1
    <3>2. CASE i # 1
      <4>1. i - 1 \in 1..n - 1 /\ t[i - 1] = s[i]
        BY <1>1, <1>2, <3>2
      <4>2. QED
        BY <2>1, <4>1
    <3>3. QED
      BY <3>1, <3>2
  <2>2. ASSUME x = s[1] \/ \E i \in 1..n - 1 : t[i] = x PROVE \E i \in 1..n : s[i] = x
    <3>1. CASE x = s[1]
      BY <1>2, <3>1
    <3>2. ASSUME NEW i \in 1..n - 1, t[i] = x PROVE \E j \in 1..n : s[j] = x
      <4>1. i + 1 \in 1..n /\ s[i + 1] = x
        BY <1>1, <1>2, <3>2
      <4>2. QED
        BY <4>1
    <3>3. QED
      BY <2>2, <3>1, <3>2
  <2>3. QED
    BY <2>1, <2>2
<1>4. Once(s) => Once(t) /\ ~(\E i \in DOMAIN t : t[i] = Head(s))
  <2> SUFFICES ASSUME Once(s) PROVE Once(t) /\ ~(\E i \in DOMAIN t : t[i] = Head(s))
    OBVIOUS
  <2>1. \A i, j \in 1..n - 1 : t[i] = t[j] => i + 1 = j + 1
    BY <1>1, <1>2 DEF Once
  <2>2. \A i, j \in 1..n - 1 : i + 1 = j + 1 => i = j
    BY <1>1
  <2>3. ASSUME NEW i \in 1..n - 1 PROVE t[i] # s[1]
    <3>1. t[i] = s[i + 1] /\ i + 1 \in DOMAIN s /\ 1 \in DOMAIN s /\ i + 1 # 1
      BY <1>1, <1>2
    <3>2. QED
      BY <3>1 DEF Once
  <2>4. QED
    BY <1>1, <2>1, <2>2, <2>3 DEF Once
<1>5. QED
  BY <1>1, <1>2, <1>3, <1>4 DEF t, Has

(* A part moves to another place and all others stay.                      *)
LEMMA PartMoves ==
  ASSUME NEW w \in [CameraFrames \X Modules -> Places], Located(w),
         NEW g \in CameraFrames, NEW n \in Modules, NEW to \in Places,
         ~IsAssembled(g), to # "assembled",
         \A f \in CameraFrames, m \in Modules :
           <<f, m>> # <<g, n>> =>
             /\ InPort(f, m)' <=> InPort(f, m)
             /\ InSocket(f, m)' <=> InSocket(f, m)
             /\ InInbox(f, m)' <=> InInbox(f, m)
             /\ InCache(f, m)' <=> InCache(f, m)
             /\ IsLost(f, m)' <=> IsLost(f, m),
         \A f \in CameraFrames : IsAssembled(f)' <=> IsAssembled(f),
         /\ InPort(g, n)' <=> to = "port"
         /\ InSocket(g, n)' <=> to = "socket"
         /\ InInbox(g, n)' <=> to = "inbox"
         /\ InCache(g, n)' <=> to = "cache"
         /\ IsLost(g, n)' <=> to = "lost"
  PROVE  (\E x \in [CameraFrames \X Modules -> Places] : Located(x))'
<1> DEFINE x == [w EXCEPT ![<<g, n>>] = to]
<1>1. x \in [CameraFrames \X Modules -> Places]
  OBVIOUS
<1>2. ASSUME NEW f \in CameraFrames, NEW m \in Modules
      PROVE  x[<<f, m>>] = IF <<f, m>> = <<g, n>> THEN to ELSE w[<<f, m>>]
  OBVIOUS
<1> HIDE DEF x
<1>3. ASSUME NEW f \in CameraFrames, NEW m \in Modules
      PROVE  /\ InPort(f, m)' <=> x[<<f, m>>] = "port"
             /\ InSocket(f, m)' <=> x[<<f, m>>] = "socket"
             /\ InInbox(f, m)' <=> x[<<f, m>>] = "inbox"
             /\ InCache(f, m)' <=> x[<<f, m>>] = "cache"
             /\ IsAssembled(f)' <=> x[<<f, m>>] = "assembled"
             /\ IsLost(f, m)' <=> x[<<f, m>>] = "lost"
  <2>1. CASE <<f, m>> = <<g, n>>
    <3>1. f = g /\ m = n
      BY <2>1
    <3>2. ~IsAssembled(f)' /\ x[<<f, m>>] = to
      BY <1>2, <3>1
    <3>3. QED
      BY <3>1, <3>2
  <2>2. CASE <<f, m>> # <<g, n>>
    <3>1. x[<<f, m>>] = w[<<f, m>>]
      BY <1>2, <2>2
    <3>2. QED
      BY <2>2, <3>1 DEF Located
  <2>3. QED
    BY <2>1, <2>2
<1>4. Located(x)'
  BY <1>3 DEF Located
<1>5. QED
  BY <1>1, <1>4

(* The process of a module passes a part on, or loses it.                  *)
LEMMA ForwardsKeeps ==
  ASSUME Camera!CameraAssumption, CameraInv, NEW n \in Modules, Camera!Forwards(n)
  PROVE  CameraInv'
<1>1. PICK g \in port[n] :
        /\ port' = [port EXCEPT ![n] = port[n] \ {g}]
        /\ \/ /\ cameraSocket' = [cameraSocket EXCEPT ![n] = Append(cameraSocket[n], Camera!Part(g, n))]
              /\ lost' = lost
           \/ lost' = lost \cup {Camera!Part(g, n)} /\ cameraSocket' = cameraSocket
  BY DEF Camera!Forwards
<1>2. UNCHANGED <<cameraInbox, cameraCache, assembled>>
  BY DEF Camera!Forwards
<1> DEFINE p == Camera!Part(g, n)
<1>3. PICK w \in [CameraFrames \X Modules -> Places] : Located(w)
  BY DEF CameraInv
<1>4. CameraTyped /\ CacheTyped
  BY DEF CameraInv
<1>5. /\ g \in CameraFrames /\ p \in CameraParts /\ p.module = n
      /\ \A f \in CameraFrames, m \in Modules : Camera!Part(f, m) = p => f = g /\ m = n
  BY <1>4, PartIs DEF CameraTyped
<1>6. /\ InPort(g, n) /\ ~InSocket(g, n) /\ ~InInbox(g, n) /\ ~InCache(g, n)
      /\ ~IsAssembled(g) /\ ~IsLost(g, n)
  <2>1. InPort(g, n)
    BY <1>1 DEF InPort
  <2>2. w[<<g, n>>] = "port"
    BY <1>3, <1>5, <2>1 DEF Located
  <2>3. QED
    BY <1>3, <1>5, <2>1, <2>2 DEF Located
<1>7. \A f \in CameraFrames, m \in Modules : InPort(f, m)' <=> InPort(f, m) /\ <<f, m>> # <<g, n>>
  <2>1. \A m \in Modules : port'[m] = IF m = n THEN port[m] \ {g} ELSE port[m]
    BY <1>1, <1>4 DEF CameraTyped
  <2>2. QED
    BY <2>1 DEF InPort
<1>8. \A f \in CameraFrames, m \in Modules :
        /\ InInbox(f, m)' <=> InInbox(f, m)
        /\ InCache(f, m)' <=> InCache(f, m)
        /\ IsAssembled(f)' <=> IsAssembled(f)
  BY <1>2 DEF InInbox, InCache, IsAssembled
<1>9. CacheTyped'
  BY <1>2, <1>4 DEF CacheTyped
<1>10. port' \in [Modules -> SUBSET CameraFrames]
  BY <1>1, <1>4 DEF CameraTyped
<1> HIDE DEF p
<1>11. CASE /\ cameraSocket' = [cameraSocket EXCEPT ![n] = Append(cameraSocket[n], p)]
            /\ lost' = lost
  <2> DEFINE s == cameraSocket[n]
  <2>1. /\ s \in Seq(CameraParts) /\ Once(s) /\ \A i \in DOMAIN s : s[i].module = n
    BY <1>4 DEF CameraTyped
  <2>2. \A m \in Modules : cameraSocket'[m] = IF m = n THEN Append(s, p) ELSE cameraSocket[m]
    BY <1>4, <1>11 DEF CameraTyped
  <2>3. ~Has(s, p)
    BY <1>6 DEF InSocket, p
  <2> HIDE DEF s
  <2> PICK t : t = Append(s, p)
    OBVIOUS
  <2>4. /\ t \in Seq(CameraParts)
        /\ \A x : Has(t, x) <=> x = p \/ Has(s, x)
        /\ Once(t)
    <3>1. s \in Seq(CameraParts)
      BY <2>1
    <3>2. p \in CameraParts
      BY <1>5
    <3>3. Once(s) /\ ~Has(s, p)
      BY <2>1, <2>3
    <3>4. t = Append(s, p)
      OBVIOUS
    <3>5. QED
      BY <3>1, <3>2, <3>3, <3>4, AppendOnce, ZenonT(30)
  <2>5. \A i \in DOMAIN t : t[i].module = n
    BY <1>5, <2>1, <2>4
  <2>a. /\ cameraSocket' = [cameraSocket EXCEPT ![n] = t]
        /\ \A m \in Modules : cameraSocket'[m] = IF m = n THEN t ELSE cameraSocket[m]
    BY <1>11, <2>2 DEF s
  <2>6. CameraTyped'
    <3>1. cameraSocket' \in [Modules -> Seq(CameraParts)]
      BY <1>4, <2>a, <2>4 DEF CameraTyped
    <3>2. QED
      BY <1>2, <1>4, <1>10, <1>11, <2>a, <2>4, <2>5, <3>1 DEF CameraTyped
  <2>7. \A f \in CameraFrames, m \in Modules : InSocket(f, m)' <=> InSocket(f, m) \/ <<f, m>> = <<g, n>>
    <3> SUFFICES ASSUME NEW f \in CameraFrames, NEW m \in Modules
                 PROVE  InSocket(f, m)' <=> InSocket(f, m) \/ <<f, m>> = <<g, n>>
      OBVIOUS
    <3>1. CASE m = n
      <4>1. InSocket(f, m) <=> Has(s, Camera!Part(f, m))
        BY <3>1 DEF InSocket, s
      <4>2. InSocket(f, m)' <=> Has(t, Camera!Part(f, m))
        BY <2>a, <3>1 DEF InSocket
      <4>3. Camera!Part(f, m) = p <=> f = g
        BY <1>5, <3>1 DEF p
      <4>4. QED
        BY <2>4, <3>1, <4>1, <4>2, <4>3
    <3>2. CASE m # n
      BY <2>a, <3>2 DEF InSocket
    <3>3. QED
      BY <3>1, <3>2
  <2>8. \A f \in CameraFrames, m \in Modules : IsLost(f, m)' <=> IsLost(f, m)
    BY <1>11 DEF IsLost
  <2>9. (\E x \in [CameraFrames \X Modules -> Places] : Located(x))'
    BY <1>3, <1>5, <1>6, <1>7, <1>8, <2>7, <2>8, PartMoves, "socket" \in Places DEF Places
  <2>10. QED
    BY <1>9, <2>6, <2>9 DEF CameraInv
<1>12. CASE lost' = lost \cup {p} /\ cameraSocket' = cameraSocket
  <2>1. CameraTyped'
    BY <1>2, <1>4, <1>5, <1>10, <1>12 DEF CameraTyped
  <2>2. \A f \in CameraFrames, m \in Modules :
          /\ InSocket(f, m)' <=> InSocket(f, m)
          /\ IsLost(f, m)' <=> IsLost(f, m) \/ <<f, m>> = <<g, n>>
    BY <1>5, <1>12 DEF InSocket, IsLost, p
  <2>3. (\E x \in [CameraFrames \X Modules -> Places] : Located(x))'
    BY <1>3, <1>5, <1>6, <1>7, <1>8, <2>2, PartMoves, "lost" \in Places DEF Places
  <2>4. QED
    BY <1>9, <2>1, <2>3 DEF CameraInv
<1>13. QED
  BY <1>1, <1>11, <1>12 DEF p

(* The aggregator takes the first part of a socket.                        *)
LEMMA AggregatesKeeps ==
  ASSUME Camera!CameraAssumption, CameraInv, NEW n \in Modules, Camera!Aggregates(n)
  PROVE  CameraInv'
<1> DEFINE s == cameraSocket[n]
           p == Head(s)
           g == p.frame
<1>1. /\ s # <<>> /\ cameraInbox' = Append(cameraInbox, p)
      /\ cameraSocket' = [cameraSocket EXCEPT ![n] = Tail(s)]
      /\ UNCHANGED <<port, cameraCache, assembled, lost>>
  BY DEF Camera!Aggregates
<1>2. PICK w \in [CameraFrames \X Modules -> Places] : Located(w)
  BY DEF CameraInv
<1>3. CameraTyped /\ CacheTyped
  BY DEF CameraInv
<1>4. /\ s \in Seq(CameraParts) /\ Once(s) /\ \A i \in DOMAIN s : s[i].module = n
  BY <1>3 DEF CameraTyped
<1>5. \A m \in Modules : cameraSocket'[m] = IF m = n THEN Tail(s) ELSE cameraSocket[m]
  BY <1>1, <1>3 DEF CameraTyped
<1> HIDE DEF s
<1>6. /\ Tail(s) \in Seq(CameraParts) /\ p \in CameraParts
      /\ Has(s, p)
      /\ \A x : Has(s, x) <=> x = p \/ Has(Tail(s), x)
      /\ Once(Tail(s)) /\ ~Has(Tail(s), p)
  <2>1. s \in Seq(CameraParts)
    BY <1>4
  <2>2. s # <<>> /\ Once(s)
    BY <1>1, <1>4
  <2>3. QED
    BY <2>1, <2>2, TailOnce
<1> HIDE DEF p
<1>7. /\ g \in CameraFrames /\ p = Camera!Part(g, n)
      /\ \A f \in CameraFrames, m \in Modules : Camera!Part(f, m) = p => f = g /\ m = n
  <2>1. p.module = n
    BY <1>4, <1>6 DEF Has
  <2>2. QED
    BY <1>6, <2>1, PartIs
<1> HIDE DEF g
<1>8. /\ InSocket(g, n) /\ ~InPort(g, n) /\ ~InInbox(g, n) /\ ~InCache(g, n)
      /\ ~IsAssembled(g) /\ ~IsLost(g, n)
  <2>1. InSocket(g, n)
    BY <1>6, <1>7 DEF InSocket, s
  <2>2. w[<<g, n>>] = "socket"
    BY <1>2, <1>7, <2>1 DEF Located
  <2>3. QED
    BY <1>2, <1>7, <2>1, <2>2 DEF Located
<1>9. \A f \in CameraFrames, m \in Modules :
        /\ InPort(f, m)' <=> InPort(f, m)
        /\ InCache(f, m)' <=> InCache(f, m)
        /\ IsAssembled(f)' <=> IsAssembled(f)
        /\ IsLost(f, m)' <=> IsLost(f, m)
  BY <1>1 DEF InPort, InCache, IsAssembled, IsLost
<1>10. CacheTyped'
  BY <1>1, <1>3 DEF CacheTyped
<1>11. \A f \in CameraFrames, m \in Modules : InSocket(f, m)' <=> InSocket(f, m) /\ <<f, m>> # <<g, n>>
  <2> SUFFICES ASSUME NEW f \in CameraFrames, NEW m \in Modules
               PROVE  InSocket(f, m)' <=> InSocket(f, m) /\ <<f, m>> # <<g, n>>
    OBVIOUS
  <2>1. CASE m = n
    <3>1. InSocket(f, m) <=> Has(s, Camera!Part(f, m))
      BY <2>1 DEF InSocket, s
    <3>2. InSocket(f, m)' <=> Has(Tail(s), Camera!Part(f, m))
      BY <1>5, <2>1 DEF InSocket
    <3>3. Camera!Part(f, m) = p <=> f = g
      BY <1>7, <2>1
    <3>4. QED
      BY <1>6, <2>1, <3>1, <3>2, <3>3
  <2>2. CASE m # n
    BY <1>5, <2>2 DEF InSocket
  <2>3. QED
    BY <2>1, <2>2
<1>12. /\ cameraInbox' \in Seq(CameraParts) /\ Once(cameraInbox')
       /\ \A x : Has(cameraInbox', x) <=> x = p \/ Has(cameraInbox, x)
  <2>1. cameraInbox \in Seq(CameraParts)
    BY <1>3 DEF CameraTyped
  <2>2. p \in CameraParts
    BY <1>6
  <2>3. Once(cameraInbox) /\ ~Has(cameraInbox, p)
    BY <1>3, <1>7, <1>8 DEF CameraTyped, InInbox
  <2> PICK t : t = cameraInbox'
    OBVIOUS
  <2>4. t = Append(cameraInbox, p)
    BY <1>1
  <2>5. /\ t \in Seq(CameraParts)
        /\ \A x : Has(t, x) <=> x = p \/ Has(cameraInbox, x)
        /\ Once(t)
    BY <2>1, <2>2, <2>3, <2>4, AppendOnce, ZenonT(30)
  <2>6. QED
    BY <2>5
<1>13. \A f \in CameraFrames, m \in Modules : InInbox(f, m)' <=> InInbox(f, m) \/ <<f, m>> = <<g, n>>
  BY <1>7, <1>12 DEF InInbox
<1>14. CameraTyped'
  <2>1. cameraSocket' \in [Modules -> Seq(CameraParts)]
    BY <1>1, <1>3, <1>6 DEF CameraTyped
  <2>2. \A m \in Modules :
          /\ Once(cameraSocket'[m])
          /\ \A i \in DOMAIN cameraSocket'[m] : cameraSocket'[m][i].module = m
    <3> SUFFICES ASSUME NEW m \in Modules
                 PROVE  /\ Once(cameraSocket'[m])
                        /\ \A i \in DOMAIN cameraSocket'[m] : cameraSocket'[m][i].module = m
      OBVIOUS
    <3>1. CASE m = n
      <4>1. cameraSocket'[m] = Tail(s)
        BY <1>5, <3>1
      <4>2. ASSUME NEW i \in DOMAIN Tail(s) PROVE Tail(s)[i].module = n
        <5>1. \E j \in DOMAIN s : s[j] = Tail(s)[i]
          BY <1>6, <4>2
        <5>2. QED
          BY <1>4, <5>1
      <4>3. QED
        BY <1>6, <3>1, <4>1, <4>2
    <3>2. CASE m # n
      BY <1>3, <1>5, <3>2 DEF CameraTyped
    <3>3. QED
      BY <3>1, <3>2
  <2>3. QED
    BY <1>1, <1>3, <1>12, <2>1, <2>2 DEF CameraTyped
<1>15. (\E x \in [CameraFrames \X Modules -> Places] : Located(x))'
  BY <1>2, <1>7, <1>8, <1>9, <1>11, <1>13, PartMoves, "inbox" \in Places DEF Places
<1>16. QED
  BY <1>10, <1>14, <1>15 DEF CameraInv

(* The parts that are kept of a frame, with one more.                      *)
CachedModules(f) == IF f \in DOMAIN cameraCache THEN DOMAIN cameraCache[f] ELSE {}

LEMMA AddedIs ==
  ASSUME Camera!CameraAssumption, CacheTyped, NEW g \in CameraFrames, NEW n \in Modules,
         n \notin CachedModules(g)
  PROVE  /\ CachedModules(g) \subseteq Modules
         /\ Camera!Added(Camera!Part(g, n))
              = [m \in CachedModules(g) \cup {n} |-> <<Camera!Part(g, m)>>]
         /\ Camera!IsComplete(Camera!Added(Camera!Part(g, n)))
              <=> CachedModules(g) \cup {n} = Modules
<1> DEFINE p == Camera!Part(g, n)
           d == CachedModules(g)
           q == Camera!PartsOf(g)
<1>1. /\ p.module = n /\ Camera!Key(p) = g
  BY PartIs
<1>2. q = [m \in d |-> <<Camera!Part(g, m)>>] /\ d \subseteq Modules
  <2>1. CASE g \in DOMAIN cameraCache
    BY <2>1 DEF CacheTyped, CachedModules, Camera!PartsOf
  <2>2. CASE g \notin DOMAIN cameraCache
    BY <2>2 DEF CachedModules, Camera!PartsOf
  <2>3. QED
    BY <2>1, <2>2
<1>3. Camera!Added(p)
        = [m \in DOMAIN q \cup {n} |->
             IF m # n THEN q[m] ELSE Append(IF n \in DOMAIN q THEN q[n] ELSE <<>>, p)]
  BY <1>1 DEF Camera!Added
<1> HIDE DEF p, d, q
<1>4. DOMAIN q = d /\ n \notin d
  BY <1>2 DEF d
<1>5. Camera!Added(p) = [m \in d \cup {n} |-> IF m # n THEN q[m] ELSE Append(<<>>, p)]
  BY <1>3, <1>4
<1>6. Append(<<>>, p) = <<p>>
  OBVIOUS
<1>7. Camera!Added(p) = [m \in d \cup {n} |-> <<Camera!Part(g, m)>>]
  BY <1>2, <1>5, <1>6 DEF p
<1>8. Camera!IsComplete(Camera!Added(p)) <=> d \cup {n} = Modules
  <2>1. DOMAIN Camera!Added(p) = d \cup {n}
    BY <1>7
  <2>2. Camera!IsComplete(Camera!Added(p)) <=> Cardinality(d \cup {n}) = Cardinality(Modules)
    BY <2>1, Zenon DEF Camera!IsComplete, Camera!Cardinality, Cardinality
  <2>3. IsFiniteSet(Modules) /\ d \cup {n} \in SUBSET Modules
    BY <1>2, Zenon DEF Camera!CameraAssumption, Camera!IsFiniteSet, IsFiniteSet
  <2>4. Cardinality(Modules) = Cardinality(d \cup {n}) => Modules = d \cup {n}
    BY <2>3, FS_Subset
  <2>5. QED
    BY <2>2, <2>4
<1>9. QED
  BY <1>2, <1>7, <1>8 DEF p, d

(* A part is kept, or completes its frame.                                 *)
LEMMA AssemblesKeeps ==
  ASSUME Camera!CameraAssumption, CameraInv, Camera!Assembles
  PROVE  CameraInv'
<1> DEFINE p == Head(cameraInbox)
           g == p.frame
           n == p.module
           d == CachedModules(g)
           parts == Camera!Added(p)
<1>1. /\ cameraInbox # <<>> /\ cameraInbox' = Tail(cameraInbox)
      /\ UNCHANGED <<port, cameraSocket, lost>>
      /\ IF Camera!IsComplete(parts)
           THEN /\ assembled' = Append(assembled, parts)
                /\ cameraCache' = [k \in DOMAIN cameraCache \ {Camera!Key(p)} |-> cameraCache[k]]
           ELSE assembled' = assembled /\ Camera!Keeps(Camera!Key(p), parts)
  BY DEF Camera!Assembles
<1>2. PICK w \in [CameraFrames \X Modules -> Places] : Located(w)
  BY DEF CameraInv
<1>3. CameraTyped /\ CacheTyped
  BY DEF CameraInv
<1> HIDE DEF p, parts
<1>4. /\ cameraInbox' \in Seq(CameraParts) /\ p \in CameraParts /\ Has(cameraInbox, p)
      /\ \A x : Has(cameraInbox, x) <=> x = p \/ Has(cameraInbox', x)
      /\ Once(cameraInbox') /\ ~Has(cameraInbox', p)
  <2>1. cameraInbox \in Seq(CameraParts)
    BY <1>3 DEF CameraTyped
  <2>2. cameraInbox # <<>> /\ Once(cameraInbox)
    BY <1>1, <1>3 DEF CameraTyped
  <2>3. QED
    BY <1>1, <2>1, <2>2, TailOnce DEF p
<1>5. /\ g \in CameraFrames /\ n \in Modules /\ p = Camera!Part(g, n) /\ Camera!Key(p) = g
      /\ \A f \in CameraFrames, m \in Modules : Camera!Part(f, m) = p => f = g /\ m = n
  <2>1. g \in CameraFrames /\ n \in Modules /\ p = Camera!Part(g, n)
    BY <1>4, PartIs
  <2>2. QED
    BY <2>1, PartIs
<1> HIDE DEF g, n
<1>6. /\ InInbox(g, n) /\ ~InPort(g, n) /\ ~InSocket(g, n) /\ ~InCache(g, n)
      /\ ~IsAssembled(g) /\ ~IsLost(g, n)
  <2>1. InInbox(g, n)
    BY <1>4, <1>5 DEF InInbox
  <2>2. w[<<g, n>>] = "inbox"
    BY <1>2, <1>5, <2>1 DEF Located
  <2>3. QED
    BY <1>2, <1>5, <2>1, <2>2 DEF Located
<1>7. n \notin d
  BY <1>6 DEF CachedModules, InCache
<1>8. /\ d \subseteq Modules
      /\ parts = [m \in d \cup {n} |-> <<Camera!Part(g, m)>>]
      /\ Camera!IsComplete(parts) <=> d \cup {n} = Modules
  BY <1>3, <1>5, <1>7, AddedIs DEF parts
<1>9. \A f \in CameraFrames, m \in Modules :
        /\ InPort(f, m)' <=> InPort(f, m)
        /\ InSocket(f, m)' <=> InSocket(f, m)
        /\ IsLost(f, m)' <=> IsLost(f, m)
        /\ InInbox(f, m)' <=> InInbox(f, m) /\ <<f, m>> # <<g, n>>
  <2>1. \A f \in CameraFrames, m \in Modules :
          /\ InPort(f, m)' <=> InPort(f, m)
          /\ InSocket(f, m)' <=> InSocket(f, m)
          /\ IsLost(f, m)' <=> IsLost(f, m)
    BY <1>1 DEF InPort, InSocket, IsLost
  <2>2. \A f \in CameraFrames, m \in Modules : InInbox(f, m)' <=> InInbox(f, m) /\ <<f, m>> # <<g, n>>
    BY <1>4, <1>5 DEF InInbox
  <2>3. QED
    BY <2>1, <2>2
<1>10. CameraTyped'
  BY <1>1, <1>3, <1>4 DEF CameraTyped
<1>11. \A f \in CameraFrames, m \in Modules : InCache(f, m) <=> m \in CachedModules(f)
  BY DEF InCache, CachedModules
<1> HIDE DEF d
<1>12. CASE Camera!IsComplete(parts)
  <2>1. /\ assembled' = Append(assembled, Whole(g))
        /\ cameraCache' = [k \in DOMAIN cameraCache \ {g} |-> cameraCache[k]]
        /\ d \cup {n} = Modules
    BY <1>1, <1>5, <1>8, <1>12 DEF Whole
  <2> DEFINE wholes == {Whole(f) : f \in CameraFrames}
  <2>2. assembled \in Seq(wholes)
    BY <1>3 DEF CacheTyped
  <2>3. Whole(g) \in wholes
    BY <1>5
  <2>4. Once(assembled) /\ ~Has(assembled, Whole(g))
    BY <1>3, <1>6 DEF CacheTyped, IsAssembled
  <2> HIDE DEF wholes
  <2> PICK t : t = assembled'
    OBVIOUS
  <2>5. t = Append(assembled, Whole(g))
    BY <2>1
  <2>6. /\ t \in Seq(wholes)
        /\ \A x : Has(t, x) <=> x = Whole(g) \/ Has(assembled, x)
        /\ Once(t)
    BY <2>2, <2>3, <2>4, <2>5, AppendOnce, ZenonT(30)
  <2>7. CacheTyped'
    <3>1. DOMAIN cameraCache' = DOMAIN cameraCache \ {g}
      BY <2>1
    <3>2. \A f \in DOMAIN cameraCache' : cameraCache'[f] = cameraCache[f] /\ f \in DOMAIN cameraCache
      BY <2>1, <3>1
    <3>3. cameraCache' = [f \in DOMAIN cameraCache' |-> cameraCache'[f]]
      BY <2>1
    <3>4. assembled' \in Seq({Whole(f) : f \in CameraFrames}) /\ Once(assembled')
      BY <2>6 DEF wholes
    <3>5. \A f \in DOMAIN cameraCache' :
            /\ DOMAIN cameraCache'[f] \subseteq Modules
            /\ DOMAIN cameraCache'[f] \notin {{}, Modules}
            /\ cameraCache'[f] = [m \in DOMAIN cameraCache'[f] |-> <<Camera!Part(f, m)>>]
      BY <1>3, <3>2 DEF CacheTyped
    <3>6. DOMAIN cameraCache' \subseteq CameraFrames
      BY <1>3, <3>1 DEF CacheTyped
    <3>7. QED
      BY <3>3, <3>4, <3>5, <3>6 DEF CacheTyped
  <2>8. \A f \in CameraFrames : IsAssembled(f)' <=> IsAssembled(f) \/ f = g
    <3> SUFFICES ASSUME NEW f \in CameraFrames PROVE IsAssembled(f)' <=> IsAssembled(f) \/ f = g
      OBVIOUS
    <3>1. Whole(f) = Whole(g) <=> f = g
      BY <1>5, WholeIs
    <3>2. QED
      BY <2>6, <3>1 DEF IsAssembled
  <2>9. \A f \in CameraFrames, m \in Modules : InCache(f, m)' <=> InCache(f, m) /\ f # g
    <3>1. DOMAIN cameraCache' = DOMAIN cameraCache \ {g}
      BY <2>1
    <3>2. \A f \in DOMAIN cameraCache' : cameraCache'[f] = cameraCache[f]
      BY <2>1
    <3>3. QED
      BY <3>1, <3>2 DEF InCache
  <2>10. PICK x \in [CameraFrames \X Modules -> Places] :
           \A f \in CameraFrames, m \in Modules :
             x[<<f, m>>] = IF f = g THEN "assembled" ELSE w[<<f, m>>]
    <3> DEFINE y == [c \in CameraFrames \X Modules |-> IF c[1] = g THEN "assembled" ELSE w[c]]
    <3>1. y \in [CameraFrames \X Modules -> Places]
      BY DEF Places
    <3>2. \A f \in CameraFrames, m \in Modules :
            y[<<f, m>>] = IF f = g THEN "assembled" ELSE w[<<f, m>>]
      OBVIOUS
    <3> HIDE DEF y
    <3>3. QED
      BY <3>1, <3>2
  <2>11. \A m \in Modules : w[<<g, m>>] = "cache" \/ m = n
    <3> SUFFICES ASSUME NEW m \in Modules, m # n PROVE w[<<g, m>>] = "cache"
      OBVIOUS
    <3>1. m \in CachedModules(g)
      BY <2>1 DEF d
    <3>2. QED
      BY <1>2, <1>5, <1>11, <3>1 DEF Located
  <2>12. w[<<g, n>>] = "inbox"
    BY <1>2, <1>5, <1>6 DEF Located
  <2>13. ASSUME NEW f \in CameraFrames, NEW m \in Modules
         PROVE  /\ InPort(f, m)' <=> x[<<f, m>>] = "port"
                /\ InSocket(f, m)' <=> x[<<f, m>>] = "socket"
                /\ InInbox(f, m)' <=> x[<<f, m>>] = "inbox"
                /\ InCache(f, m)' <=> x[<<f, m>>] = "cache"
                /\ IsAssembled(f)' <=> x[<<f, m>>] = "assembled"
                /\ IsLost(f, m)' <=> x[<<f, m>>] = "lost"
    <3>1. /\ InPort(f, m) <=> w[<<f, m>>] = "port"
          /\ InSocket(f, m) <=> w[<<f, m>>] = "socket"
          /\ InInbox(f, m) <=> w[<<f, m>>] = "inbox"
          /\ InCache(f, m) <=> w[<<f, m>>] = "cache"
          /\ IsAssembled(f) <=> w[<<f, m>>] = "assembled"
          /\ IsLost(f, m) <=> w[<<f, m>>] = "lost"
      BY <1>2 DEF Located
    <3>2. CASE f = g
      <4>1. x[<<f, m>>] = "assembled" /\ IsAssembled(f)'
        BY <2>8, <2>10, <3>2
      <4>2. ~InPort(f, m) /\ ~InSocket(f, m) /\ ~IsLost(f, m) /\ (InInbox(f, m) => m = n)
        BY <2>11, <2>12, <3>1, <3>2
      <4>3. ~InCache(f, m)'
        BY <2>9, <3>2
      <4>4. ~InInbox(f, m)'
        BY <1>9, <3>2, <4>2
      <4>5. QED
        BY <1>9, <4>1, <4>2, <4>3, <4>4
    <3>3. CASE f # g
      <4>1. x[<<f, m>>] = w[<<f, m>>] /\ <<f, m>> # <<g, n>>
        BY <2>10, <3>3
      <4>2. QED
        BY <1>9, <2>8, <2>9, <3>1, <3>3, <4>1
    <3>4. QED
      BY <3>2, <3>3
  <2>14. Located(x)'
    BY <2>13 DEF Located
  <2>15. QED
    BY <1>10, <2>7, <2>10, <2>14 DEF CameraInv
<1>13. CASE ~Camera!IsComplete(parts)
  <2>1. /\ assembled' = assembled
        /\ cameraCache' = [k \in DOMAIN cameraCache \cup {g} |-> IF k = g THEN parts ELSE cameraCache[k]]
        /\ d \cup {n} # Modules
    BY <1>1, <1>5, <1>8, <1>13 DEF Camera!Keeps
  <2>2. DOMAIN cameraCache' = DOMAIN cameraCache \cup {g}
    BY <2>1
  <2>3. \A f \in DOMAIN cameraCache' :
          cameraCache'[f] = IF f = g THEN parts ELSE cameraCache[f]
    BY <2>1, <2>2
  <2>4. CacheTyped'
    <3>1. cameraCache' = [f \in DOMAIN cameraCache' |-> cameraCache'[f]]
      BY <2>1
    <3>2. assembled' \in Seq({Whole(f) : f \in CameraFrames}) /\ Once(assembled')
      BY <1>3, <2>1 DEF CacheTyped
    <3>3. \A f \in DOMAIN cameraCache' :
            /\ DOMAIN cameraCache'[f] \subseteq Modules
            /\ DOMAIN cameraCache'[f] \notin {{}, Modules}
            /\ cameraCache'[f] = [m \in DOMAIN cameraCache'[f] |-> <<Camera!Part(f, m)>>]
      <4> SUFFICES ASSUME NEW f \in DOMAIN cameraCache'
                   PROVE  /\ DOMAIN cameraCache'[f] \subseteq Modules
                          /\ DOMAIN cameraCache'[f] \notin {{}, Modules}
                          /\ cameraCache'[f] = [m \in DOMAIN cameraCache'[f] |-> <<Camera!Part(f, m)>>]
        OBVIOUS
      <4>1. CASE f = g
        <5>1. cameraCache'[f] = parts
          BY <2>3, <4>1
        <5>2. DOMAIN parts = d \cup {n} /\ parts = [m \in DOMAIN parts |-> <<Camera!Part(g, m)>>]
          BY <1>8
        <5>3. DOMAIN parts \subseteq Modules /\ DOMAIN parts \notin {{}, Modules}
          BY <1>5, <1>8, <2>1, <5>2
        <5>4. QED
          BY <4>1, <5>1, <5>2, <5>3
      <4>2. CASE f # g
        BY <1>3, <2>2, <2>3, <4>2 DEF CacheTyped
      <4>3. QED
        BY <4>1, <4>2
    <3>4. DOMAIN cameraCache' \subseteq CameraFrames
      BY <1>3, <1>5, <2>2 DEF CacheTyped
    <3>5. QED
      BY <3>1, <3>2, <3>3, <3>4 DEF CacheTyped
  <2>5. \A f \in CameraFrames, m \in Modules : InCache(f, m)' <=> InCache(f, m) \/ <<f, m>> = <<g, n>>
    <3> SUFFICES ASSUME NEW f \in CameraFrames, NEW m \in Modules
                 PROVE  InCache(f, m)' <=> InCache(f, m) \/ <<f, m>> = <<g, n>>
      OBVIOUS
    <3>1. CASE f = g
      <4>1. InCache(f, m)' <=> m \in DOMAIN parts
        BY <2>2, <2>3, <3>1 DEF InCache
      <4>2. DOMAIN parts = d \cup {n}
        BY <1>8
      <4>3. InCache(f, m) <=> m \in d
        BY <1>11, <3>1 DEF d
      <4>4. QED
        BY <3>1, <4>1, <4>2, <4>3
    <3>2. CASE f # g
      BY <2>2, <2>3, <3>2 DEF InCache
    <3>3. QED
      BY <3>1, <3>2
  <2>6. \A f \in CameraFrames : IsAssembled(f)' <=> IsAssembled(f)
    BY <2>1 DEF IsAssembled
  <2>7. (\E x \in [CameraFrames \X Modules -> Places] : Located(x))'
    BY <1>2, <1>5, <1>6, <1>9, <2>5, <2>6, PartMoves, "cache" \in Places DEF Places
  <2>8. QED
    BY <1>10, <2>4, <2>7 DEF CameraInv
<1>14. QED
  BY <1>12, <1>13

LEMMA CameraSteps ==
  ASSUME Camera!CameraAssumption, CameraInv, [Camera!Next]_(Camera!vars)
  PROVE  CameraInv'
<1>1. CASE \E m \in Modules : Camera!Forwards(m) \/ Camera!Aggregates(m)
  BY <1>1, ForwardsKeeps, AggregatesKeeps
<1>2. CASE Camera!Assembles
  BY <1>2, AssemblesKeeps
<1>3. CASE UNCHANGED Camera!vars
  <2>1. UNCHANGED <<port, cameraSocket, cameraInbox, cameraCache, assembled, lost>>
    BY <1>3 DEF Camera!vars
  <2>2. CameraTyped' /\ CacheTyped'
    BY <2>1 DEF CameraInv, CameraTyped, CacheTyped
  <2>3. PICK w \in [CameraFrames \X Modules -> Places] : Located(w)
    BY DEF CameraInv
  <2>4. Located(w)'
    BY <2>1, <2>3 DEF Located, InPort, InSocket, InInbox, InCache, IsAssembled, IsLost
  <2>5. QED
    BY <2>2, <2>4 DEF CameraInv
<1>4. QED
  BY <1>1, <1>2, <1>3 DEF Camera!Next

LEMMA CameraBegins ==
  ASSUME Camera!CameraAssumption
  PROVE  Camera!Init => CameraInv
<1> SUFFICES ASSUME Camera!Init PROVE CameraInv
  OBVIOUS
<1>1. /\ port = [m \in Modules |-> CameraFrames] /\ cameraSocket = [m \in Modules |-> <<>>]
      /\ cameraInbox = <<>> /\ DOMAIN cameraCache = {} /\ assembled = <<>> /\ lost = {}
      /\ cameraCache = [f \in DOMAIN cameraCache |-> cameraCache[f]]
  BY DEF Camera!Init
<1>2. CameraTyped
  BY <1>1 DEF CameraTyped, Once
<1>3. CacheTyped
  BY <1>1 DEF CacheTyped, Once
<1>4. PICK w \in [CameraFrames \X Modules -> Places] : w = [c \in CameraFrames \X Modules |-> "port"]
  BY DEF Places
<1>5. Located(w)
  BY <1>1, <1>4 DEF Located, InPort, InSocket, InInbox, InCache, IsAssembled, IsLost, Has
<1>6. QED
  BY <1>2, <1>3, <1>5 DEF CameraInv

LEMMA FrameOfWhole ==
  ASSUME Camera!CameraAssumption, NEW f \in CameraFrames
  PROVE  Camera!FrameOf(Whole(f)) = f
<1> DEFINE s == {Whole(f)[m][1] : m \in DOMAIN Whole(f)}
           part == CHOOSE q \in s : TRUE
<1>1. \A q \in s : q.frame = f
  BY PartIs DEF Whole
<1>2. s # {}
  BY DEF Whole, Camera!CameraAssumption
<1>3. Camera!FrameOf(Whole(f)) = part.frame
  BY DEF Camera!FrameOf
<1> HIDE DEF s
<1>4. part \in s
  BY <1>2
<1>5. QED
  BY <1>1, <1>3, <1>4

LEMMA InvAssemblesWhole ==
  ASSUME Camera!CameraAssumption, CameraInv
  PROVE  /\ \A i \in DOMAIN assembled : \E f \in CameraFrames :
              assembled[i] = Whole(f) /\ Camera!FrameOf(assembled[i]) = f
         /\ Camera!SentWhole
<1>1. /\ assembled \in Seq({Whole(f) : f \in CameraFrames}) /\ Once(assembled)
  BY DEF CameraInv, CacheTyped
<1>2. \A i \in DOMAIN assembled : assembled[i] \in {Whole(f) : f \in CameraFrames}
  BY <1>1
<1>3. \A i \in DOMAIN assembled : \E f \in CameraFrames :
        assembled[i] = Whole(f) /\ Camera!FrameOf(assembled[i]) = f
  BY <1>2, FrameOfWhole
<1>4. \A i, j \in DOMAIN assembled :
        Camera!FrameOf(assembled[i]) = Camera!FrameOf(assembled[j]) => i = j
  BY <1>1, <1>3 DEF Once
<1>5. \A parts \in Camera!Range(assembled) :
        /\ DOMAIN parts = Modules
        /\ \A m \in Modules : parts[m] = <<Camera!Part(Camera!FrameOf(parts), m)>>
  <2>1. \A parts \in Camera!Range(assembled) : \E i \in DOMAIN assembled : parts = assembled[i]
    BY DEF Camera!Range
  <2>2. QED
    BY <1>3, <2>1 DEF Whole
<1>6. QED
  BY <1>3, <1>4, <1>5 DEF Camera!SentWhole

(* A frame that is sent on has one part of each module, all of them of the *)
(* same frame of the same scan, and no other is of that frame, although    *)
(* the parts of many frames come mixed and some never come.                *)
THEOREM WholeFramesAreSent ==
  ASSUME Camera!CameraAssumption
  PROVE  Camera!Spec => []Camera!SentWhole
<1>1. CameraInv => Camera!SentWhole
  BY InvAssemblesWhole
<1>2. Camera!Init => CameraInv
  BY CameraBegins
<1>3. CameraInv /\ [Camera!Next]_(Camera!vars) => CameraInv'
  BY CameraSteps
<1>4. QED
  BY <1>1, <1>2, <1>3, PTL DEF Camera!Spec

LEMMA InvForgetsNone ==
  ASSUME Camera!CameraAssumption, CameraInv
  PROVE  Camera!AllThatCame
<1> SUFFICES ASSUME Camera!Quiet, NEW f \in CameraFrames
             PROVE  LET came == {m \in Modules : Camera!Part(f, m) \notin lost}
                    IN /\ (came = Modules)
                            = (\E parts \in Camera!Range(assembled) : Camera!FrameOf(parts) = f)
                       /\ (came \notin {{}, Modules}) = (f \in DOMAIN cameraCache)
  BY DEF Camera!AllThatCame
<1> DEFINE came == {m \in Modules : Camera!Part(f, m) \notin lost}
<1>1. PICK w \in [CameraFrames \X Modules -> Places] : Located(w)
  BY DEF CameraInv
<1>2. \A m \in Modules : ~InPort(f, m) /\ ~InSocket(f, m) /\ ~InInbox(f, m)
  BY DEF Camera!Quiet, InPort, InSocket, InInbox, Has
<1>3. \A m \in Modules :
        /\ w[<<f, m>>] \in {"cache", "assembled", "lost"}
        /\ InCache(f, m) <=> w[<<f, m>>] = "cache"
        /\ IsAssembled(f) <=> w[<<f, m>>] = "assembled"
        /\ m \notin came <=> w[<<f, m>>] = "lost"
  BY <1>1, <1>2 DEF Located, Places, IsLost
<1>4. /\ f \in DOMAIN cameraCache =>
           DOMAIN cameraCache[f] \subseteq Modules /\ DOMAIN cameraCache[f] \notin {{}, Modules}
      /\ \A m \in Modules : InCache(f, m) <=> f \in DOMAIN cameraCache /\ m \in DOMAIN cameraCache[f]
  BY DEF CameraInv, CacheTyped, InCache
<1>5. (\E parts \in Camera!Range(assembled) : Camera!FrameOf(parts) = f) <=> IsAssembled(f)
  <2>1. \A i \in DOMAIN assembled : \E g \in CameraFrames :
          assembled[i] = Whole(g) /\ Camera!FrameOf(assembled[i]) = g
    BY InvAssemblesWhole
  <2>2. Camera!FrameOf(Whole(f)) = f
    BY FrameOfWhole
  <2>3. QED
    BY <2>1, <2>2 DEF Camera!Range, IsAssembled, Has
<1>6. came \subseteq Modules /\ \E m \in Modules : TRUE
  BY DEF Camera!CameraAssumption
<1> HIDE DEF came
<1>7. came = Modules <=> IsAssembled(f)
  <2>1. ASSUME IsAssembled(f) PROVE came = Modules
    BY <1>3, <1>6, <2>1
  <2>2. ASSUME came = Modules, ~IsAssembled(f) PROVE FALSE
    <3>1. \A m \in Modules : InCache(f, m)
      BY <1>3, <2>2
    <3>2. f \in DOMAIN cameraCache /\ \A m \in Modules : m \in DOMAIN cameraCache[f]
      BY <1>4, <1>6, <3>1
    <3>3. QED
      BY <1>4, <3>2
  <2>3. QED
    BY <2>1, <2>2
<1>8. came \notin {{}, Modules} <=> f \in DOMAIN cameraCache
  <2>1. ASSUME f \in DOMAIN cameraCache PROVE came \notin {{}, Modules}
    <3>1. PICK m \in Modules : InCache(f, m)
      BY <1>4, <2>1
    <3>2. m \in came /\ ~IsAssembled(f)
      BY <1>3, <3>1
    <3>3. QED
      BY <1>7, <3>2
  <2>2. ASSUME came \notin {{}, Modules} PROVE f \in DOMAIN cameraCache
    <3>1. PICK m \in Modules : m \in came
      BY <1>6, <2>2
    <3>2. ~IsAssembled(f)
      BY <1>7, <2>2
    <3>3. InCache(f, m)
      BY <1>3, <3>1, <3>2
    <3>4. QED
      BY <1>4, <3>3
  <2>3. QED
    BY <2>1, <2>2
<1>9. (came = Modules) = (\E parts \in Camera!Range(assembled) : Camera!FrameOf(parts) = f)
  BY <1>5, <1>7
<1>10. (came \notin {{}, Modules}) = (f \in DOMAIN cameraCache)
  BY <1>8
<1>11. QED
  BY <1>9, <1>10 DEF came

(* When nothing is on its way, each frame all of whose parts came was sent *)
(* on and is forgotten, and of the others what came is kept.               *)
THEOREM FramesAreNotForgotten ==
  ASSUME Camera!CameraAssumption
  PROVE  Camera!Spec => []Camera!AllThatCame
<1>1. CameraInv => Camera!AllThatCame
  BY InvForgetsNone
<1>2. Camera!Init => CameraInv
  BY CameraBegins
<1>3. CameraInv /\ [Camera!Next]_(Camera!vars) => CameraInv'
  BY CameraSteps
<1>4. QED
  BY <1>1, <1>2, <1>3, PTL DEF Camera!Spec

------------------------------------------------------------------------------
(* The pipeline that is drawn, expanded and folded again.  First, what is  *)
(* upstream of a node in a graph.  A set that holds all that feed one of   *)
(* its own is closed behind.                                               *)
ClosedBehind(edges, C) == \A e \in edges : e[2] \in C => e[1] \in C

(* The sets in which Upstream collects nodes; the nodes at most k edges    *)
(* away are such, so there are some.                                       *)
Collects(edges, node, depth, f) ==
  f = [k \in 0..depth |->
         IF k = 0 THEN {node}
         ELSE f[k - 1] \cup {e[1] : e \in {d \in edges : d[2] \in f[k - 1]}}]

LEMMA CollectionExists ==
  ASSUME NEW edges, NEW node, NEW depth \in Nat
  PROVE  \E f : Collects(edges, node, depth, f)
<1>. DEFINE places == {node} \cup {e[1] : e \in edges}
            Step(x, y) == y = x \/ \E e \in edges : e[2] = x /\ e[1] = y
            Walk(k, s) == s[0] = node /\ \A j \in 1..k : Step(s[j - 1], s[j])
            Reach(k) == {x \in places : \E s \in [0..k -> places] : Walk(k, s) /\ s[k] = x}
            f == [k \in 0..depth |-> Reach(k)]
<1>1. Reach(0) = {node}
  <2>1. [j \in 0..0 |-> node] \in [0..0 -> places] /\ Walk(0, [j \in 0..0 |-> node])
    OBVIOUS
  <2>2. node \in Reach(0)
    BY <2>1
  <2>3. QED
    BY <2>2
<1>2. ASSUME NEW k \in 1..depth
      PROVE  Reach(k) = Reach(k - 1) \cup {e[1] : e \in {d \in edges : d[2] \in Reach(k - 1)}}
  <2>1. ASSUME NEW x \in places, NEW y \in places, x \in Reach(k - 1), Step(x, y) PROVE y \in Reach(k)
    <3>1. PICK s \in [0..(k - 1) -> places] : Walk(k - 1, s) /\ s[k - 1] = x
      BY <2>1
    <3>. DEFINE t == [j \in 0..k |-> IF j = k THEN y ELSE s[j]]
    <3>2. /\ t \in [0..k -> places]
          /\ t[k] = y /\ \A j \in 0..(k - 1) : t[j] = s[j]
      OBVIOUS
    <3>3. ASSUME NEW j \in 1..k PROVE Step(t[j - 1], t[j])
      <4>1. CASE j = k
        BY <2>1, <3>1, <3>2, <4>1
      <4>2. CASE j # k
        <5>1. j - 1 \in 0..(k - 1) /\ j \in 0..(k - 1) /\ j \in 1..(k - 1)
          BY <4>2
        <5>2. Step(s[j - 1], s[j])
          BY <3>1, <5>1
        <5>3. QED
          BY <3>2, <5>1, <5>2
      <4>3. QED
        BY <4>1, <4>2
    <3>4. t[0] = node
      BY <3>1, <3>2
    <3>. HIDE DEF t
    <3>5. QED
      BY <3>2, <3>3, <3>4
  <2>2. ASSUME NEW y \in Reach(k) PROVE \E x \in Reach(k - 1) : Step(x, y)
    <3>1. PICK s \in [0..k -> places] : Walk(k, s) /\ s[k] = y
      OBVIOUS
    <3>. DEFINE t == [j \in 0..(k - 1) |-> s[j]]
    <3>2. /\ t \in [0..(k - 1) -> places]
          /\ \A j \in 0..(k - 1) : t[j] = s[j]
      OBVIOUS
    <3>3. \A j \in 1..(k - 1) : j \in 1..k /\ j \in 0..(k - 1) /\ j - 1 \in 0..(k - 1)
      OBVIOUS
    <3>4. Walk(k - 1, t)
      <4>1. t[0] = node
        BY <3>1, <3>2
      <4>2. ASSUME NEW j \in 1..(k - 1) PROVE Step(t[j - 1], t[j])
        <5>1. Step(s[j - 1], s[j])
          BY <3>1, <3>3
        <5>2. t[j - 1] = s[j - 1] /\ t[j] = s[j]
          BY <3>2, <3>3
        <5>. HIDE DEF t
        <5>3. QED
          BY <5>1, <5>2
      <4>. HIDE DEF t
      <4>3. QED
        BY <4>1, <4>2
    <3>5. Step(s[k - 1], y) /\ t[k - 1] = s[k - 1] /\ s[k - 1] \in places
      BY <3>1, <3>2
    <3>. HIDE DEF t
    <3>6. s[k - 1] \in Reach(k - 1)
      BY <3>2, <3>4, <3>5
    <3>7. QED
      BY <3>5, <3>6
  <2>3. \A x \in Reach(k - 1) : x \in places
    OBVIOUS
  <2>4. \A y \in Reach(k) : y \in places
    OBVIOUS
  <2>5. \A e \in edges : e[1] \in places
    OBVIOUS
  <2>. HIDE DEF Reach, places
  <2>6. QED
    BY <2>1, <2>2, <2>3, <2>4, <2>5
<1>. HIDE DEF Reach
<1>3. f = [k \in 0..depth |->
             IF k = 0 THEN {node}
             ELSE f[k - 1] \cup {e[1] : e \in {d \in edges : d[2] \in f[k - 1]}}]
  <2>1. \A k \in 0..depth : k # 0 => k \in 1..depth /\ k - 1 \in 0..depth
    OBVIOUS
  <2>2. ASSUME NEW k \in 0..depth
        PROVE  f[k] = IF k = 0 THEN {node}
                      ELSE f[k - 1] \cup {e[1] : e \in {d \in edges : d[2] \in f[k - 1]}}
    BY <1>1, <1>2, <2>1
  <2>3. QED
    BY <2>2
<1>4. QED
  BY <1>3 DEF Collects

(* Upstream is one of those sets, the last.                                *)
LEMMA UpstreamCollects ==
  ASSUME NEW edges, NEW node, NEW depth, depth = Cardinality({e[1] : e \in edges})
  PROVE  depth \in Nat => \E f : Collects(edges, node, depth, f) /\ Assign!Upstream(edges, node) = f[depth]
<1>. DEFINE visited == CHOOSE f : Collects(edges, node, depth, f)
<1>1. depth = Assign!Cardinality({e[1] : e \in edges})
  BY Zenon DEF Assign!Cardinality, Cardinality
<1>2. Assign!Upstream(edges, node) = visited[depth]
  BY <1>1, Zenon DEF Assign!Upstream, Collects
<1>3. depth \in Nat => Collects(edges, node, depth, visited)
  BY CollectionExists
<1>4. QED
  BY <1>2, <1>3

(* What is upstream of a node is the smallest such set it is in.           *)
LEMMA UpstreamLeast ==
  ASSUME NEW edges, NEW node, IsFiniteSet({e[1] : e \in edges})
  PROVE  /\ node \in Assign!Upstream(edges, node)
         /\ ClosedBehind(edges, Assign!Upstream(edges, node))
         /\ \A C : node \in C /\ ClosedBehind(edges, C) => Assign!Upstream(edges, node) \subseteq C
<1>. DEFINE before == {e[1] : e \in edges}
            depth == Cardinality(before)
            nodes == {node} \cup before
<1>1. depth \in Nat /\ IsFiniteSet(nodes) /\ Cardinality(nodes) <= depth + 1
  <2>. HIDE DEF before
  <2>1. nodes = before \cup {node} /\ IsFiniteSet(before)
    BY DEF before
  <2>2. depth \in Nat
    BY <2>1, FS_CardinalityType
  <2>3. /\ IsFiniteSet(before \cup {node})
        /\ Cardinality(before \cup {node}) = IF node \in before THEN depth ELSE depth + 1
    BY <2>1, FS_AddElement
  <2>. HIDE DEF nodes, depth
  <2>4. QED
    BY <2>1, <2>2, <2>3
<1>2. PICK f : Collects(edges, node, depth, f) /\ Assign!Upstream(edges, node) = f[depth]
  <2>1. depth \in Nat => \E f : Collects(edges, node, depth, f) /\ Assign!Upstream(edges, node) = f[depth]
    BY UpstreamCollects
  <2>. HIDE DEF depth
  <2>2. QED
    BY <1>1, <2>1
<1>3. /\ f[0] = {node}
      /\ \A k \in 1..depth : f[k] = f[k - 1] \cup {e[1] : e \in {d \in edges : d[2] \in f[k - 1]}}
  <2>1. depth \in Nat /\ Collects(edges, node, depth, f)
    BY <1>1, <1>2
  <2>. HIDE DEF depth, nodes, before
  <2>2. \A k \in 0..depth : f[k] = IF k = 0 THEN {node}
                                  ELSE f[k - 1] \cup {e[1] : e \in {d \in edges : d[2] \in f[k - 1]}}
    BY <2>1 DEF Collects
  <2>3. 0 \in 0..depth /\ \A k \in 1..depth : k \in 0..depth /\ k # 0
    BY <2>1
  <2>4. QED
    BY <2>2, <2>3
<1>. HIDE DEF depth, nodes
<1>4. ASSUME NEW k \in 1..depth PROVE k - 1 \in 0..depth /\ f[k - 1] \subseteq f[k]
  BY <1>1, <1>3
<1>5. \A k \in 0..depth : node \in f[k]
  <2>. DEFINE T == {k \in 0..depth : node \notin f[k]}
  <2>1. SUFFICES ASSUME T # {} PROVE FALSE
    OBVIOUS
  <2>2. PICK k \in T : \A j \in T : k <= j
    <3>1. T \subseteq Nat
      BY <1>1
    <3>. HIDE DEF T
    <3>2. QED
      BY <2>1, <3>1, LeastExists
  <2>3. k # 0 /\ k \in 1..depth
    BY <1>1, <1>3, <2>2
  <2>4. k - 1 \in 0..depth /\ k - 1 \notin T
    BY <1>1, <2>2, <2>3
  <2>5. QED
    BY <1>4, <2>2, <2>3, <2>4
<1>6. ASSUME NEW C, node \in C, ClosedBehind(edges, C), NEW k \in 0..depth PROVE f[k] \subseteq C
  <2>. DEFINE T == {j \in 0..depth : ~(f[j] \subseteq C)}
  <2>1. SUFFICES ASSUME T # {} PROVE FALSE
    OBVIOUS
  <2>2. PICK j \in T : \A i \in T : j <= i
    <3>1. T \subseteq Nat
      BY <1>1
    <3>. HIDE DEF T
    <3>2. QED
      BY <2>1, <3>1, LeastExists
  <2>3. j # 0 /\ j \in 1..depth
    BY <1>1, <1>3, <1>6, <2>2
  <2>4. j - 1 \in 0..depth /\ j - 1 \notin T
    BY <1>1, <2>2, <2>3
  <2>5. f[j - 1] \subseteq C
    BY <2>4
  <2>6. f[j] \subseteq C
    BY <1>3, <1>6, <2>3, <2>5 DEF ClosedBehind
  <2>7. QED
    BY <2>2, <2>6
<1>7. \A k \in 0..depth : f[k] \subseteq nodes /\ IsFiniteSet(f[k])
  <2>1. node \in nodes /\ ClosedBehind(edges, nodes)
    BY DEF ClosedBehind, nodes
  <2>2. \A k \in 0..depth : f[k] \in SUBSET nodes
    BY <1>6, <2>1
  <2>3. QED
    BY <1>1, <2>2, FS_Subset
<1>8. ASSUME NEW k \in 0..depth PROVE ClosedBehind(edges, f[k]) \/ Cardinality(f[k]) >= k + 1
  <2>. DEFINE Good(j) == ClosedBehind(edges, f[j]) \/ Cardinality(f[j]) >= j + 1
              T == {j \in 0..depth : ~Good(j)}
  <2>1. Good(0)
    <3>1. Cardinality(f[0]) = 1
      BY <1>3, FS_Singleton
    <3>2. QED
      BY <3>1
  <2>2. ASSUME NEW j \in 1..depth, Good(j - 1) PROVE Good(j)
    <3>1. CASE ClosedBehind(edges, f[j - 1])
      <4>1. f[j] = f[j - 1]
        <5>1. {e[1] : e \in {d \in edges : d[2] \in f[j - 1]}} \subseteq f[j - 1]
          BY <3>1 DEF ClosedBehind
        <5>2. f[j] = f[j - 1] \cup {e[1] : e \in {d \in edges : d[2] \in f[j - 1]}}
          BY <1>3
        <5>3. QED
          BY <5>1, <5>2
      <4>2. QED
        BY <3>1, <4>1
    <3>2. CASE ~ClosedBehind(edges, f[j - 1])
      <4>1. f[j - 1] # f[j] /\ f[j - 1] \subseteq f[j]
        BY <1>3, <3>2 DEF ClosedBehind
      <4>2. Cardinality(f[j - 1]) < Cardinality(f[j])
        <5>1. /\ f[j - 1] \in SUBSET f[j] /\ j - 1 \in 0..depth /\ j \in 0..depth
              /\ IsFiniteSet(f[j]) /\ IsFiniteSet(f[j - 1])
          BY <1>1, <1>7, <4>1
        <5>2. /\ Cardinality(f[j - 1]) <= Cardinality(f[j])
              /\ Cardinality(f[j]) = Cardinality(f[j - 1]) => f[j] = f[j - 1]
          BY <5>1, FS_Subset
        <5>3. Cardinality(f[j - 1]) \in Nat /\ Cardinality(f[j]) \in Nat
          BY <5>1, FS_CardinalityType
        <5>4. QED
          BY <4>1, <5>2, <5>3
      <4>3. Cardinality(f[j - 1]) \in Nat /\ Cardinality(f[j]) \in Nat
        BY <1>4, <1>7, FS_CardinalityType
      <4>4. QED
        BY <1>1, <2>2, <3>2, <4>2, <4>3
    <3>3. QED
      BY <3>1, <3>2
  <2>3. ASSUME T # {} PROVE FALSE
    <3>1. PICK j \in T : \A i \in T : j <= i
      <4>1. T \subseteq Nat
        BY <1>1
      <4>. HIDE DEF T
      <4>2. QED
        BY <2>3, <4>1, LeastExists
    <3>2. ~Good(j) /\ j \in 0..depth
      BY <3>1
    <3>. HIDE DEF Good
    <3>3. j # 0
      BY <2>1, <3>2
    <3>4. j \in 1..depth /\ j - 1 \in 0..depth /\ j - 1 \notin T
      BY <1>1, <3>1, <3>2, <3>3
    <3>5. QED
      BY <2>2, <3>2, <3>4
  <2>4. QED
    BY <2>3
<1>9. ClosedBehind(edges, f[depth])
  <2>1. depth \in 0..depth
    BY <1>1
  <2>2. CASE Cardinality(f[depth]) >= depth + 1
    <3>1. f[depth] = nodes
      <4>1. f[depth] \subseteq nodes /\ IsFiniteSet(f[depth])
        BY <1>7, <2>1
      <4>2. Cardinality(f[depth]) \in Nat /\ Cardinality(nodes) \in Nat
        BY <1>1, <4>1, FS_CardinalityType
      <4>3. /\ Cardinality(f[depth]) <= Cardinality(nodes)
            /\ Cardinality(nodes) = Cardinality(f[depth]) => nodes = f[depth]
        BY <1>1, <4>1, FS_Subset
      <4>4. QED
        BY <1>1, <2>2, <4>2, <4>3
    <3>2. QED
      BY <3>1 DEF ClosedBehind, nodes
  <2>3. QED
    BY <1>8, <2>1, <2>2
<1>10. QED
  BY <1>1, <1>2, <1>5, <1>6, <1>9

------------------------------------------------------------------------------
(* A pipeline as it is drawn: its edges lead from outputs to inputs, and   *)
(* every operator has one instance at least.                               *)
Drawable(c) ==
  /\ c.edges \subseteq OutPorts \X InPorts
  /\ \A o \in Operators : Assign!Copies(c, o) \in Nat \ {0}

Targets(c, p) == IF Assign!Fanout(c, p) = {} THEN {None} ELSE Assign!Fanout(c, p)

LEMMA InstanceIs ==
  ASSUME NEW c, NEW o, NEW i \in Assign!Instances(c, o)
  PROVE  /\ i.op = o /\ i.index \in 1..Assign!Copies(c, o)
         /\ \A p, t : LET n == Assign!PortNode(i, p, t)
                     IN /\ n.op = o /\ n.index = i.index /\ n.port = p /\ n.target = t
                        /\ Assign!OperatorOf(n) = i
BY DEF Assign!Instances, Assign!PortNode, Assign!OperatorOf

LEMMA PortMade ==
  ASSUME NEW c, NEW i, NEW p, i \in Assign!Instances(c, Owner[p])
  PROVE  /\ \A t \in Targets(c, p) : p \in OutPorts => Assign!PortNode(i, p, t) \in Assign!PortNodes(c)
         /\ p \in InPorts => Assign!PortNode(i, p, Owner[p]) \in Assign!PortNodes(c)
<1>1. ASSUME NEW t \in Targets(c, p), p \in OutPorts
      PROVE  Assign!PortNode(i, p, t) \in Assign!PortNodes(c)
  <2>1. Assign!PortNode(i, p, t) \in Assign!OutputNodes(c, p)
    BY <1>1 DEF Assign!OutputNodes, Targets
  <2>2. QED
    BY <1>1, <2>1 DEF Assign!PortNodes
<1>2. ASSUME p \in InPorts PROVE Assign!PortNode(i, p, Owner[p]) \in Assign!PortNodes(c)
  <2>1. i.op = Owner[p]
    BY InstanceIs
  <2>2. Assign!PortNode(i, p, Owner[p]) \in Assign!InputNodes(c, p)
    BY <2>1 DEF Assign!InputNodes
  <2>3. QED
    BY <1>2, <2>2 DEF Assign!PortNodes
<1>3. QED
  BY <1>1, <1>2

LEMMA PortIs ==
  ASSUME Assign!ExpansionAssumption, NEW c, NEW n \in Assign!PortNodes(c)
  PROVE  /\ n.port \in OutPorts \cup InPorts /\ n.op = Owner[n.port]
         /\ Assign!OperatorOf(n) \in Assign!Instances(c, Owner[n.port])
         /\ n = Assign!PortNode(Assign!OperatorOf(n), n.port, n.target)
         /\ n.port \in OutPorts => n.target \in Targets(c, n.port)
         /\ n.port \in InPorts => n.target = Owner[n.port]
<1>1. CASE \E p \in OutPorts : n \in Assign!OutputNodes(c, p)
  <2>0. PICK p \in OutPorts :
          \E i \in Assign!Instances(c, Owner[p]), t \in Targets(c, p) : n = Assign!PortNode(i, p, t)
    BY <1>1 DEF Assign!OutputNodes, Targets
  <2>1. PICK i \in Assign!Instances(c, Owner[p]), t \in Targets(c, p) : n = Assign!PortNode(i, p, t)
    BY <2>0
  <2>2. n.op = Owner[p] /\ n.port = p /\ n.target = t /\ Assign!OperatorOf(n) = i
    BY <2>1, InstanceIs
  <2>3. p \notin InPorts
    BY DEF Assign!ExpansionAssumption
  <2>4. QED
    BY <2>1, <2>2, <2>3
<1>2. CASE \E p \in InPorts : n \in Assign!InputNodes(c, p)
  <2>0. PICK p \in InPorts : \E i \in Assign!Instances(c, Owner[p]) : n = Assign!PortNode(i, p, i.op)
    BY <1>2 DEF Assign!InputNodes
  <2>1. PICK i \in Assign!Instances(c, Owner[p]) : n = Assign!PortNode(i, p, i.op)
    BY <2>0
  <2>2. /\ n.op = Owner[p] /\ n.port = p /\ n.target = i.op /\ Assign!OperatorOf(n) = i
        /\ i.op = Owner[p]
    BY <2>1, InstanceIs
  <2>3. p \notin OutPorts
    BY DEF Assign!ExpansionAssumption
  <2>4. QED
    BY <2>1, <2>2, <2>3
<1>3. QED
  BY <1>1, <1>2 DEF Assign!PortNodes

(* An edge that was drawn, between one instance at each of its ends.       *)
Link(e, i, j) ==
  <<Assign!PortNode(i, e[1], Owner[e[2]]), Assign!PortNode(j, e[2], Owner[e[2]])>>

(* Ports are connected by those and by nothing else.                       *)
LEMMA PortsConnected ==
  ASSUME Assign!ExpansionAssumption, NEW c, Drawable(c)
  PROVE  /\ \A e \in c.edges :
              \A i \in Assign!Instances(c, Owner[e[1]]), j \in Assign!Instances(c, Owner[e[2]]) :
                Link(e, i, j) \in Assign!PortEdges(Assign!Expansion(c))
         /\ \A d \in Assign!PortEdges(Assign!Expansion(c)) :
              \E e \in c.edges :
                \E i \in Assign!Instances(c, Owner[e[1]]), j \in Assign!Instances(c, Owner[e[2]]) :
                  d = Link(e, i, j)
<1>. DEFINE ports == Assign!PortNodes(c)
<1>1. /\ Assign!Expansion(c).ports = ports
      /\ Assign!Expansion(c).edges = Assign!OwnerEdges(ports) \cup Assign!DataEdges(c, ports)
  BY DEF Assign!Expansion
<1>2. \A n \in ports : n.port # None
  BY PortIs DEF Assign!ExpansionAssumption
<1>3. ASSUME NEW d \in Assign!OwnerEdges(ports) PROVE ~(d[1] \in ports /\ d[2] \in ports)
  <2>1. \A n : Assign!OperatorNode(Assign!OperatorOf(n)).port = None
    BY DEF Assign!OperatorNode
  <2>2. (\E n : d[1] = Assign!OperatorNode(Assign!OperatorOf(n))) \/ (\E n : d[2] = Assign!OperatorNode(Assign!OperatorOf(n)))
    BY DEF Assign!OwnerEdges
  <2>. HIDE DEF ports
  <2>3. QED
    BY <1>2, <2>1, <2>2
<1>4. \A d \in Assign!DataEdges(c, ports) : d[1] \in ports /\ d[2] \in ports
  BY DEF Assign!DataEdges
<1>5. Assign!PortEdges(Assign!Expansion(c)) = Assign!DataEdges(c, ports)
  <2>. HIDE DEF ports
  <2>1. QED
    BY <1>1, <1>3, <1>4 DEF Assign!PortEdges
<1>6. ASSUME NEW e \in c.edges, NEW i \in Assign!Instances(c, Owner[e[1]]),
             NEW j \in Assign!Instances(c, Owner[e[2]])
      PROVE  Link(e, i, j) \in Assign!DataEdges(c, ports)
  <2>1. e[1] \in OutPorts /\ e[2] \in InPorts /\ e = <<e[1], e[2]>>
    BY DEF Drawable
  <2>2. Owner[e[2]] \in Targets(c, e[1])
    BY DEF Targets, Assign!Fanout
  <2>3. Link(e, i, j)[1] \in ports /\ Link(e, i, j)[2] \in ports
    BY <2>1, <2>2, PortMade DEF Link
  <2>4. /\ Link(e, i, j)[1].port = e[1] /\ Link(e, i, j)[2].port = e[2]
        /\ Link(e, i, j)[1].target = Owner[e[2]] /\ Link(e, i, j)[2].op = Owner[e[2]]
    BY InstanceIs DEF Link
  <2>5. Link(e, i, j) = <<Link(e, i, j)[1], Link(e, i, j)[2]>>
    BY DEF Link
  <2>. HIDE DEF ports
  <2>6. QED
    BY <2>1, <2>3, <2>4, <2>5 DEF Assign!DataEdges, Assign!Connect
<1>7. ASSUME NEW d \in Assign!DataEdges(c, ports)
      PROVE  \E e \in c.edges :
               \E i \in Assign!Instances(c, Owner[e[1]]), j \in Assign!Instances(c, Owner[e[2]]) :
                 d = Link(e, i, j)
  <2>1. /\ d[1] \in ports /\ d[1].port \in OutPorts /\ d[2] \in ports /\ d[2].port \in InPorts
        /\ <<d[1].port, d[2].port>> \in c.edges /\ d[1].target \in {None, d[2].op}
        /\ d = <<d[1], d[2]>>
    BY DEF Assign!DataEdges, Assign!Connect
  <2>. DEFINE e == <<d[1].port, d[2].port>>
              i == Assign!OperatorOf(d[1])
              j == Assign!OperatorOf(d[2])
  <2>2. /\ i \in Assign!Instances(c, Owner[e[1]]) /\ d[1] = Assign!PortNode(i, e[1], d[1].target)
        /\ d[1].target \in Targets(c, e[1])
    BY <2>1, PortIs
  <2>3. /\ j \in Assign!Instances(c, Owner[e[2]]) /\ d[2] = Assign!PortNode(j, e[2], Owner[e[2]])
        /\ d[2].op = Owner[e[2]]
    BY <2>1, PortIs
  <2>4. d[1].target = Owner[e[2]]
    <3>1. Owner[e[2]] \in Assign!Fanout(c, e[1])
      BY <2>1 DEF Assign!Fanout
    <3>2. \A t \in Assign!Fanout(c, e[1]) : t # None
      BY DEF Assign!Fanout, Assign!ExpansionAssumption, Drawable
    <3>3. d[1].target # None
      BY <2>2, <3>1, <3>2 DEF Targets
    <3>4. QED
      BY <2>1, <2>3, <3>3
  <2>5. d = Link(e, i, j)
    BY <2>1, <2>2, <2>3, <2>4 DEF Link
  <2>. HIDE DEF e, i, j
  <2>6. QED
    BY <2>1, <2>2, <2>3, <2>5 DEF e
<1>8. QED
  BY <1>5, <1>6, <1>7

(* Ports are found at the instances they were made for.                    *)
LEMMA PortsAttached ==
  ASSUME Assign!ExpansionAssumption, NEW c, Drawable(c), NEW o \in Operators,
         NEW i \in Assign!Instances(c, o)
  PROVE  /\ {n.port : n \in Assign!Attached(i, Assign!PortNodes(c), InPorts)} = {p \in InPorts : Owner[p] = o}
         /\ {n.port : n \in Assign!Attached(i, Assign!PortNodes(c), OutPorts)} = {p \in OutPorts : Owner[p] = o}
<1>. DEFINE ports == Assign!PortNodes(c)
<1>1. ASSUME NEW n \in ports, Assign!OperatorOf(n) = i PROVE Owner[n.port] = o
  <2>1. i.op = o /\ Assign!OperatorOf(n).op = n.op
    BY InstanceIs DEF Assign!OperatorOf
  <2>2. n.op = Owner[n.port]
    BY PortIs
  <2>3. QED
    BY <1>1, <2>1, <2>2
<1>2. ASSUME NEW p \in InPorts \cup OutPorts, Owner[p] = o
      PROVE  \E n \in ports : n.port = p /\ Assign!OperatorOf(n) = i
  <2>1. CASE p \in InPorts
    <3>1. Assign!PortNode(i, p, o) \in ports
      BY <1>2, <2>1, PortMade
    <3>2. QED
      BY <3>1, InstanceIs
  <2>2. CASE p \in OutPorts
    <3>1. \E t : t \in Targets(c, p)
      BY DEF Targets
    <3>2. PICK t : t \in Targets(c, p)
      BY <3>1
    <3>3. Assign!PortNode(i, p, t) \in ports
      BY <1>2, <2>2, <3>2, PortMade
    <3>4. QED
      BY <3>3, InstanceIs
  <2>3. QED
    BY <2>1, <2>2
<1>. HIDE DEF ports
<1>3. ASSUME NEW kind, kind \subseteq InPorts \cup OutPorts
      PROVE  {n.port : n \in Assign!Attached(i, ports, kind)} = {p \in kind : Owner[p] = o}
  <2>1. \A n \in Assign!Attached(i, ports, kind) : n.port \in kind /\ Owner[n.port] = o
    BY <1>1 DEF Assign!Attached
  <2>2. ASSUME NEW p \in kind, Owner[p] = o
        PROVE  p \in {n.port : n \in Assign!Attached(i, ports, kind)}
    <3>1. PICK n \in ports : n.port = p /\ Assign!OperatorOf(n) = i
      BY <1>2, <1>3, <2>2
    <3>2. n \in Assign!Attached(i, ports, kind)
      BY <3>1 DEF Assign!Attached
    <3>3. QED
      BY <3>1, <3>2
  <2>3. QED
    BY <2>1, <2>2
<1>4. QED
  BY <1>3 DEF ports

(* What is folded back is what was drawn.                                  *)
LEMMA FoldedAsDrawn ==
  ASSUME Assign!ExpansionAssumption, NEW c, Drawable(c)
  PROVE  Assign!Folded(Assign!Expansion(c)) = Assign!Drawn(c)
<1>. DEFINE g == Assign!Expansion(c)
            ports == Assign!PortNodes(c)
            all == UNION {Assign!Instances(c, o) : o \in Operators}
            node(i) == [id |-> i, inputs |-> Assign!Attached(i, ports, InPorts),
                        outputs |-> Assign!Attached(i, ports, OutPorts), config |-> c.config[i.op]]
            folded(n) == [op |-> n.id.op, inputs |-> {m.port : m \in n.inputs},
                          outputs |-> {m.port : m \in n.outputs}, config |-> n.config]
            drawn(o) == [op |-> o, inputs |-> {p \in InPorts : Owner[p] = o},
                         outputs |-> {p \in OutPorts : Owner[p] = o}, config |-> c.config[o]]
<1>1. g.operators = {node(i) : i \in all} /\ g.ports = ports
  BY DEF Assign!Expansion
<1>2. ASSUME NEW o \in Operators PROVE [op |-> o, index |-> 1] \in Assign!Instances(c, o)
  <2>1. 1 \in 1..Assign!Copies(c, o)
    BY DEF Drawable
  <2>2. QED
    BY <2>1 DEF Assign!Instances
<1>3. ASSUME NEW o \in Operators, NEW i \in Assign!Instances(c, o) PROVE folded(node(i)) = drawn(o)
  <2>1. i.op = o
    BY InstanceIs
  <2>2. /\ {n.port : n \in Assign!Attached(i, ports, InPorts)} = {p \in InPorts : Owner[p] = o}
        /\ {n.port : n \in Assign!Attached(i, ports, OutPorts)} = {p \in OutPorts : Owner[p] = o}
    BY PortsAttached
  <2>3. /\ node(i).id = i /\ node(i).config = c.config[i.op]
        /\ node(i).inputs = Assign!Attached(i, ports, InPorts)
        /\ node(i).outputs = Assign!Attached(i, ports, OutPorts)
    OBVIOUS
  <2>. HIDE DEF node, ports
  <2>4. QED
    BY <2>1, <2>2, <2>3
<1>4. {folded(n) : n \in g.operators} = {drawn(o) : o \in Operators}
  <2>. HIDE DEF g, node, folded, drawn
  <2>1. {folded(n) : n \in g.operators} = {folded(node(i)) : i \in all}
    BY <1>1
  <2>2. \A i \in all : \E o \in Operators : i \in Assign!Instances(c, o)
    OBVIOUS
  <2>3. \A o \in Operators : \E i \in all : i \in Assign!Instances(c, o)
    BY <1>2
  <2>. HIDE DEF all
  <2>4. QED
    BY <1>3, <2>1, <2>2, <2>3
<1>5. {[port |-> n.port, op |-> n.op] : n \in g.ports}
        = {[port |-> p, op |-> Owner[p]] : p \in InPorts \cup OutPorts}
  <2>1. \A n \in ports : n.port \in InPorts \cup OutPorts /\ n.op = Owner[n.port]
    BY PortIs
  <2>2. ASSUME NEW p \in InPorts \cup OutPorts PROVE \E n \in ports : n.port = p
    <3>1. Owner[p] \in Operators
      BY DEF Assign!ExpansionAssumption
    <3>2. PICK i : i \in Assign!Instances(c, Owner[p])
      BY <1>2, <3>1
    <3>3. /\ {n.port : n \in Assign!Attached(i, ports, InPorts)} = {q \in InPorts : Owner[q] = Owner[p]}
          /\ {n.port : n \in Assign!Attached(i, ports, OutPorts)} = {q \in OutPorts : Owner[q] = Owner[p]}
      BY <3>1, <3>2, PortsAttached
    <3>. HIDE DEF ports
    <3>4. QED
      BY <3>3 DEF Assign!Attached
  <2>. HIDE DEF g, ports
  <2>3. QED
    BY <1>1, <2>1, <2>2
<1>6. {<<d[1].port, d[2].port>> : d \in Assign!PortEdges(g)} = c.edges
  <2>1. ASSUME NEW e \in c.edges,
               NEW i \in Assign!Instances(c, Owner[e[1]]), NEW j \in Assign!Instances(c, Owner[e[2]])
        PROVE  e = <<Link(e, i, j)[1].port, Link(e, i, j)[2].port>>
    BY InstanceIs DEF Link, Drawable
  <2>2. ASSUME NEW e \in c.edges
        PROVE  \E d \in Assign!PortEdges(g) : e = <<d[1].port, d[2].port>>
    <3>1. Owner[e[1]] \in Operators /\ Owner[e[2]] \in Operators
      BY DEF Drawable, Assign!ExpansionAssumption
    <3>2. PICK i \in Assign!Instances(c, Owner[e[1]]), j \in Assign!Instances(c, Owner[e[2]]) : TRUE
      BY <1>2, <3>1
    <3>3. Link(e, i, j) \in Assign!PortEdges(g)
      BY PortsConnected
    <3>4. QED
      BY <2>1, <3>3
  <2>3. ASSUME NEW d \in Assign!PortEdges(g) PROVE <<d[1].port, d[2].port>> \in c.edges
    <3>1. PICK e \in c.edges :
            \E i \in Assign!Instances(c, Owner[e[1]]), j \in Assign!Instances(c, Owner[e[2]]) : d = Link(e, i, j)
      BY PortsConnected
    <3>2. QED
      BY <2>1, <3>1
  <2>. HIDE DEF g
  <2>4. QED
    BY <2>2, <2>3
<1>. HIDE DEF ports, all, node
<1>7. QED
  BY <1>4, <1>5, <1>6, Zenon DEF Assign!Folded, Assign!Drawn

(* Between two instances, an edge that was drawn is one edge.              *)
LEMMA LinkIsOnly ==
  ASSUME Assign!ExpansionAssumption, NEW c, Drawable(c), NEW e \in c.edges,
         NEW i \in Assign!Instances(c, Owner[e[1]]), NEW j \in Assign!Instances(c, Owner[e[2]])
  PROVE  Assign!Cardinality({d \in Assign!PortEdges(Assign!Expansion(c)) :
                               /\ d[1].port = e[1] /\ Assign!OperatorOf(d[1]) = i
                               /\ d[2].port = e[2] /\ Assign!OperatorOf(d[2]) = j}) = 1
<1>. DEFINE edges == Assign!PortEdges(Assign!Expansion(c))
            Between(d) == /\ d[1].port = e[1] /\ Assign!OperatorOf(d[1]) = i
                          /\ d[2].port = e[2] /\ Assign!OperatorOf(d[2]) = j
<1>1. ASSUME NEW h, NEW k \in Assign!Instances(c, Owner[h[1]]), NEW l \in Assign!Instances(c, Owner[h[2]])
      PROVE  /\ Link(h, k, l)[1].port = h[1] /\ Assign!OperatorOf(Link(h, k, l)[1]) = k
             /\ Link(h, k, l)[2].port = h[2] /\ Assign!OperatorOf(Link(h, k, l)[2]) = l
  BY InstanceIs DEF Link
<1>2. Link(e, i, j) \in edges /\ Between(Link(e, i, j))
  BY <1>1, PortsConnected
<1>3. ASSUME NEW d \in edges, Between(d) PROVE d = Link(e, i, j)
  <2>1. PICK h \in c.edges :
          \E k \in Assign!Instances(c, Owner[h[1]]), l \in Assign!Instances(c, Owner[h[2]]) : d = Link(h, k, l)
    BY PortsConnected
  <2>2. PICK k \in Assign!Instances(c, Owner[h[1]]), l \in Assign!Instances(c, Owner[h[2]]) : d = Link(h, k, l)
    BY <2>1
  <2>3. h[1] = e[1] /\ k = i /\ h[2] = e[2] /\ l = j
    BY <1>1, <1>3, <2>2
  <2>4. QED
    BY <2>2, <2>3 DEF Link
<1>. HIDE DEF edges, Between
<1>4. {d \in edges : Between(d)} = {Link(e, i, j)}
  BY <1>2, <1>3
<1>5. Cardinality({Link(e, i, j)}) = 1
  BY FS_Singleton
<1>6. Assign!Cardinality({d \in edges : Between(d)}) = 1
  BY <1>4, <1>5, Zenon DEF Assign!Cardinality, Cardinality
<1>7. QED
  BY <1>6 DEF edges, Between

(* The peers of an output are instances of the operator it is made for.    *)
LEMMA PeersOfOne ==
  ASSUME Assign!ExpansionAssumption, NEW c, Drawable(c),
         NEW d \in Assign!PortEdges(Assign!Expansion(c))
  PROVE  d[2].op = d[1].target
<1>1. PICK e \in c.edges :
        \E i \in Assign!Instances(c, Owner[e[1]]), j \in Assign!Instances(c, Owner[e[2]]) : d = Link(e, i, j)
  BY PortsConnected
<1>2. PICK i \in Assign!Instances(c, Owner[e[1]]), j \in Assign!Instances(c, Owner[e[2]]) : d = Link(e, i, j)
  BY <1>1
<1>3. QED
  BY <1>2, InstanceIs DEF Link

------------------------------------------------------------------------------
(* What feeds what among the operators that were drawn, the loops left out *)
(* that lead from the only instance of an operator to itself.              *)
Feeds(c) == {<<Owner[e[1]], Owner[e[2]]>> : e \in c.edges}
Loops(c) ==
  Feeds(c) \ {f \in Feeds(c) : f[1] = f[2] /\ Assign!Copies(c, f[1]) = 1}

AllOf(c) == UNION {Assign!Instances(c, o) : o \in Operators}

(* An instance feeds another just when their operators are connected.      *)
LEMMA GraphIs ==
  ASSUME Assign!ExpansionAssumption, NEW c, Drawable(c)
  PROVE  LET G == Assign!OperatorGraph(Assign!Expansion(c))
         IN /\ \A x \in G : /\ x[1] \in AllOf(c) /\ x[2] \in AllOf(c)
                           /\ x[1] # x[2] /\ <<x[1].op, x[2].op>> \in Feeds(c)
            /\ \A i, j \in AllOf(c) : i # j /\ <<i.op, j.op>> \in Feeds(c) => <<i, j>> \in G
<1>. DEFINE edges == Assign!PortEdges(Assign!Expansion(c))
            G == {<<Assign!OperatorOf(d[1]), Assign!OperatorOf(d[2])>> :
                    d \in {e \in edges : Assign!OperatorOf(e[1]) # Assign!OperatorOf(e[2])}}
<1>1. Assign!OperatorGraph(Assign!Expansion(c)) = G
  BY DEF Assign!OperatorGraph
<1>2. \A e \in c.edges : Owner[e[1]] \in Operators /\ Owner[e[2]] \in Operators
  BY DEF Drawable, Assign!ExpansionAssumption
<1>3. ASSUME NEW h, NEW k \in Assign!Instances(c, Owner[h[1]]), NEW l \in Assign!Instances(c, Owner[h[2]])
      PROVE  /\ Assign!OperatorOf(Link(h, k, l)[1]) = k /\ Assign!OperatorOf(Link(h, k, l)[2]) = l
             /\ k.op = Owner[h[1]] /\ l.op = Owner[h[2]]
  BY InstanceIs DEF Link
<1>4. ASSUME NEW d \in edges
      PROVE  /\ Assign!OperatorOf(d[1]) \in AllOf(c) /\ Assign!OperatorOf(d[2]) \in AllOf(c)
             /\ <<Assign!OperatorOf(d[1]).op, Assign!OperatorOf(d[2]).op>> \in Feeds(c)
  <2>1. PICK e \in c.edges :
          \E i \in Assign!Instances(c, Owner[e[1]]), j \in Assign!Instances(c, Owner[e[2]]) : d = Link(e, i, j)
    BY PortsConnected
  <2>2. PICK i \in Assign!Instances(c, Owner[e[1]]), j \in Assign!Instances(c, Owner[e[2]]) : d = Link(e, i, j)
    BY <2>1
  <2>3. i \in AllOf(c) /\ j \in AllOf(c)
    BY <1>2 DEF AllOf
  <2>4. <<Owner[e[1]], Owner[e[2]]>> \in Feeds(c)
    BY DEF Feeds
  <2>5. QED
    BY <1>3, <2>2, <2>3, <2>4
<1>5. ASSUME NEW i \in AllOf(c), NEW j \in AllOf(c), <<i.op, j.op>> \in Feeds(c)
      PROVE  \E d \in edges : Assign!OperatorOf(d[1]) = i /\ Assign!OperatorOf(d[2]) = j
  <2>1. i \in Assign!Instances(c, i.op) /\ j \in Assign!Instances(c, j.op)
    BY InstanceIs DEF AllOf
  <2>2. PICK e \in c.edges : Owner[e[1]] = i.op /\ Owner[e[2]] = j.op
    BY <1>5 DEF Feeds
  <2>3. Link(e, i, j) \in edges
    BY <2>1, <2>2, PortsConnected
  <2>4. QED
    BY <1>3, <2>1, <2>2, <2>3
<1>. HIDE DEF edges
<1>6. \A x \in G : /\ x[1] \in AllOf(c) /\ x[2] \in AllOf(c)
                  /\ x[1] # x[2] /\ <<x[1].op, x[2].op>> \in Feeds(c)
  BY <1>4
<1>7. \A i, j \in AllOf(c) : i # j /\ <<i.op, j.op>> \in Feeds(c) => <<i, j>> \in G
  BY <1>5
<1>. HIDE DEF G
<1>8. QED
  BY <1>1, <1>6, <1>7

(* What a function yields on a finite set is finite.                       *)
LEMMA FiniteRange ==
  ASSUME NEW S, IsFiniteSet(S), NEW f, DOMAIN f = S, f = [x \in S |-> f[x]]
  PROVE  IsFiniteSet({f[x] : x \in S})
<1>1. f \in Surjection(S, {f[x] : x \in S})
  BY DEF Surjection
<1>2. QED
  BY <1>1, FS_Surjection

LEMMA GraphsAreFinite ==
  ASSUME Assign!ExpansionAssumption, NEW c, Drawable(c)
  PROVE  /\ IsFiniteSet({x[1] : x \in Assign!OperatorGraph(Assign!Expansion(c))})
         /\ IsFiniteSet({f[1] : f \in Loops(c)})
<1>1. IsFiniteSet(Operators)
  BY Zenon DEF Assign!ExpansionAssumption, Assign!IsFiniteSet, IsFiniteSet
<1>2. {f[1] : f \in Loops(c)} \in SUBSET Operators
  <2>1. \A f \in Feeds(c) : f[1] \in Operators
    BY DEF Feeds, Drawable, Assign!ExpansionAssumption
  <2>2. QED
    BY <2>1 DEF Loops
<1>3. IsFiniteSet(AllOf(c))
  <2>1. ASSUME NEW o \in Operators PROVE IsFiniteSet(Assign!Instances(c, o))
    <3>. DEFINE node == [k \in 1..Assign!Copies(c, o) |-> [op |-> o, index |-> k]]
    <3>1. IsFiniteSet(1..Assign!Copies(c, o))
      BY FS_Interval DEF Drawable
    <3>2. IsFiniteSet({node[k] : k \in 1..Assign!Copies(c, o)})
      <4>1. DOMAIN node = 1..Assign!Copies(c, o) /\ node = [k \in 1..Assign!Copies(c, o) |-> node[k]]
        OBVIOUS
      <4>. HIDE DEF node
      <4>2. QED
        BY <3>1, <4>1, FiniteRange
    <3>3. Assign!Instances(c, o) = {node[k] : k \in 1..Assign!Copies(c, o)}
      BY DEF Assign!Instances
    <3>4. QED
      BY <3>2, <3>3
  <2>2. IsFiniteSet({Assign!Instances(c, o) : o \in Operators})
    <3>. DEFINE all == [o \in Operators |-> Assign!Instances(c, o)]
    <3>1. IsFiniteSet({all[o] : o \in Operators})
      <4>1. DOMAIN all = Operators /\ all = [o \in Operators |-> all[o]]
        OBVIOUS
      <4>. HIDE DEF all
      <4>2. QED
        BY <1>1, <4>1, FiniteRange
    <3>2. {all[o] : o \in Operators} = {Assign!Instances(c, o) : o \in Operators}
      OBVIOUS
    <3>3. QED
      BY <3>1, <3>2
  <2>3. QED
    BY <2>1, <2>2, FS_UNION DEF AllOf
<1>4. {x[1] : x \in Assign!OperatorGraph(Assign!Expansion(c))} \in SUBSET AllOf(c)
  BY GraphIs
<1>5. QED
  BY <1>1, <1>2, <1>3, <1>4, FS_Subset

(* Data that can come round among the operators can among the instances.   *)
LEMMA LoopsShow ==
  ASSUME Assign!ExpansionAssumption, NEW c, Drawable(c), Assign!Cyclic(Loops(c))
  PROVE  Assign!Cyclic(Assign!OperatorGraph(Assign!Expansion(c)))
<1>. DEFINE G == Assign!OperatorGraph(Assign!Expansion(c))
            L == Loops(c)
            At(o, k) == [op |-> o, index |-> k]
<1>1. PICK f \in L : f[2] \in Assign!Upstream(L, f[1])
  BY DEF Assign!Cyclic
<1>2. /\ \A i, j \in AllOf(c) : i # j /\ <<i.op, j.op>> \in Feeds(c) => <<i, j>> \in G
      /\ IsFiniteSet({x[1] : x \in G}) /\ IsFiniteSet({x[1] : x \in L})
  BY GraphIs, GraphsAreFinite
<1>3. \A h \in L : /\ h[1] \in Operators /\ h[2] \in Operators /\ h = <<h[1], h[2]>> /\ h \in Feeds(c)
                  /\ ~(h[1] = h[2] /\ Assign!Copies(c, h[1]) = 1)
  BY DEF Loops, Feeds, Drawable, Assign!ExpansionAssumption
<1>4. \A o \in Operators : \A k \in 1..Assign!Copies(c, o) : At(o, k) \in AllOf(c) /\ At(o, k).op = o
  BY DEF AllOf, Assign!Instances
<1>5. \A o \in Operators : 1 \in 1..Assign!Copies(c, o)
  BY DEF Drawable
<1>6. \A o, p, k : o # p => At(o, k) # At(p, k)
  OBVIOUS
<1>. HIDE DEF G, L
<1>7. CASE f[1] = f[2]
  <2>1. 2 \in 1..Assign!Copies(c, f[1])
    BY <1>1, <1>3, <1>7 DEF Drawable
  <2>2. At(f[1], 1) # At(f[1], 2)
    OBVIOUS
  <2>. HIDE DEF At
  <2>3. <<At(f[1], 1), At(f[1], 2)>> \in G /\ <<At(f[1], 2), At(f[1], 1)>> \in G
    BY <1>1, <1>2, <1>3, <1>4, <1>5, <1>7, <2>1, <2>2
  <2>4. At(f[1], 1) \in Assign!Upstream(G, At(f[1], 1)) /\ ClosedBehind(G, Assign!Upstream(G, At(f[1], 1)))
    BY <1>2, UpstreamLeast
  <2>5. At(f[1], 2) \in Assign!Upstream(G, At(f[1], 1))
    BY <2>3, <2>4 DEF ClosedBehind
  <2>6. QED
    BY <2>3, <2>5 DEF Assign!Cyclic, G
<1>8. CASE f[1] # f[2]
  <2>. DEFINE U == Assign!Upstream(G, At(f[1], 1))
              C == {o \in Operators : At(o, 1) \in U}
  <2>1. At(f[1], 1) \in U /\ ClosedBehind(G, U)
    BY <1>2, UpstreamLeast
  <2>. HIDE DEF U
  <2>2. \A h \in L : h[1] # h[2] => <<At(h[1], 1), At(h[2], 1)>> \in G
    <3>. HIDE DEF At
    <3>1. QED
      BY <1>2, <1>3, <1>4, <1>5, <1>6
  <2>. HIDE DEF At
  <2>3. f[1] \in C /\ ClosedBehind(L, C)
    <3>1. f[1] \in C
      BY <1>1, <1>3, <2>1
    <3>2. ASSUME NEW h \in L, h[2] \in C PROVE h[1] \in C
      <4>1. CASE h[1] = h[2]
        BY <3>2, <4>1
      <4>2. CASE h[1] # h[2]
        <5>1. At(h[1], 1) \in U
          BY <2>1, <2>2, <3>2, <4>2 DEF ClosedBehind
        <5>2. QED
          BY <1>3, <5>1
      <4>3. QED
        BY <4>1, <4>2
    <3>3. QED
      BY <3>1, <3>2 DEF ClosedBehind
  <2>4. f[2] \in C
    <3>. HIDE DEF C
    <3>1. Assign!Upstream(L, f[1]) \subseteq C
      BY <1>2, <2>3, UpstreamLeast
    <3>2. QED
      BY <1>1, <3>1
  <2>5. <<At(f[1], 1), At(f[2], 1)>> \in G /\ At(f[2], 1) \in U
    BY <1>1, <1>8, <2>2, <2>4
  <2>6. QED
    BY <2>5 DEF Assign!Cyclic, G, U
<1>9. QED
  BY <1>7, <1>8

(* Data that can come round among the instances can among the operators.   *)
LEMMA LoopsAreDrawn ==
  ASSUME Assign!ExpansionAssumption, NEW c, Drawable(c),
         Assign!Cyclic(Assign!OperatorGraph(Assign!Expansion(c)))
  PROVE  Assign!Cyclic(Loops(c))
<1>. DEFINE G == Assign!OperatorGraph(Assign!Expansion(c))
            L == Loops(c)
<1>1. PICK x \in G : x[2] \in Assign!Upstream(G, x[1])
  BY DEF Assign!Cyclic
<1>2. /\ \A y \in G : /\ y[1] \in AllOf(c) /\ y[2] \in AllOf(c)
                      /\ y[1] # y[2] /\ <<y[1].op, y[2].op>> \in Feeds(c)
      /\ IsFiniteSet({y[1] : y \in G}) /\ IsFiniteSet({y[1] : y \in L})
  BY GraphIs, GraphsAreFinite
<1>3. \A y \in G : y[1].op # y[2].op => <<y[1].op, y[2].op>> \in L
  BY <1>2 DEF Loops
<1>. DEFINE U == Assign!Upstream(L, x[1].op)
<1>4. x[1].op \in U /\ ClosedBehind(L, U)
  BY <1>2, UpstreamLeast
<1>5. CASE x[1].op = x[2].op
  <2>1. Assign!Copies(c, x[1].op) # 1
    <3>1. /\ x[1] \in Assign!Instances(c, x[1].op) /\ x[2] \in Assign!Instances(c, x[2].op)
      <4>1. ASSUME NEW i \in AllOf(c) PROVE i \in Assign!Instances(c, i.op)
        BY InstanceIs DEF AllOf
      <4>2. x[1] \in AllOf(c) /\ x[2] \in AllOf(c)
        BY <1>2
      <4>3. QED
        BY <4>1, <4>2
    <3>2. x[1] = [op |-> x[1].op, index |-> x[1].index] /\ x[2] = [op |-> x[2].op, index |-> x[2].index]
      BY <3>1 DEF Assign!Instances
    <3>3. x[1].index # x[2].index
      BY <1>2, <1>5, <3>2
    <3>4. x[1].index \in 1..Assign!Copies(c, x[1].op) /\ x[2].index \in 1..Assign!Copies(c, x[1].op)
      BY <1>5, <3>1, InstanceIs
    <3>5. QED
      BY <3>3, <3>4
  <2>2. <<x[1].op, x[2].op>> \in L
    BY <1>2, <2>1 DEF Loops
  <2>3. QED
    BY <1>4, <1>5, <2>2 DEF Assign!Cyclic
<1>6. CASE x[1].op # x[2].op
  <2>. DEFINE C == {i \in AllOf(c) : i.op \in U}
  <2>1. <<x[1].op, x[2].op>> \in L
    BY <1>3, <1>6
  <2>. HIDE DEF U, L, G
  <2>2. x[1] \in C
    BY <1>2, <1>4
  <2>3. ASSUME NEW y \in G, y[2] \in C PROVE y[1] \in C
    <3>1. CASE y[1].op = y[2].op
      BY <1>2, <2>3, <3>1
    <3>2. CASE y[1].op # y[2].op
      BY <1>2, <1>3, <1>4, <2>3, <3>2 DEF ClosedBehind
    <3>3. QED
      BY <3>1, <3>2
  <2>4. x[2] \in C
    <3>1. ClosedBehind(G, C)
      BY <2>3 DEF ClosedBehind
    <3>. HIDE DEF C
    <3>2. Assign!Upstream(G, x[1]) \subseteq C
      BY <1>2, <2>2, <3>1, UpstreamLeast
    <3>3. QED
      BY <1>1, <3>2
  <2>5. x[2].op \in U
    BY <2>4
  <2>6. QED
    BY <2>1, <2>5 DEF Assign!Cyclic, U, L
<1>7. QED
  BY <1>5, <1>6

LEMMA CyclesAreLoops ==
  ASSUME Assign!ExpansionAssumption, NEW c, Drawable(c)
  PROVE  Assign!Cyclic(Assign!OperatorGraph(Assign!Expansion(c))) <=> Assign!Cyclic(Loops(c))
BY LoopsShow, LoopsAreDrawn

(* Each instance has ports of the graph, and they have all of them.        *)
LEMMA PortsOfInstances ==
  ASSUME Assign!ExpansionAssumption, NEW c, Drawable(c)
  PROVE  LET g == Assign!Expansion(c)
         IN /\ \A o \in g.operators : o.inputs \cup o.outputs \subseteq g.ports
            /\ g.ports = UNION {o.inputs \cup o.outputs : o \in g.operators}
<1>. DEFINE g == Assign!Expansion(c)
            ports == Assign!PortNodes(c)
            node(i) == [id |-> i, inputs |-> Assign!Attached(i, ports, InPorts),
                        outputs |-> Assign!Attached(i, ports, OutPorts), config |-> c.config[i.op]]
<1>1. g.operators = {node(i) : i \in AllOf(c)} /\ g.ports = ports
  BY DEF Assign!Expansion, AllOf
<1>2. \A n \in ports : n.port \in InPorts \cup OutPorts /\ Assign!OperatorOf(n) \in AllOf(c)
  BY PortIs DEF AllOf, Assign!ExpansionAssumption
<1>3. \A i : /\ node(i).inputs = Assign!Attached(i, ports, InPorts)
             /\ node(i).outputs = Assign!Attached(i, ports, OutPorts)
  OBVIOUS
<1>. HIDE DEF g, ports, node
<1>4. \A o \in g.operators : o.inputs \cup o.outputs \subseteq g.ports
  BY <1>1, <1>3 DEF Assign!Attached
<1>5. ASSUME NEW n \in ports PROVE \E o \in g.operators : n \in o.inputs \cup o.outputs
  <2>1. n \in node(Assign!OperatorOf(n)).inputs \cup node(Assign!OperatorOf(n)).outputs
    BY <1>2, <1>3 DEF Assign!Attached
  <2>2. QED
    BY <1>1, <1>2, <2>1
<1>6. g.ports = UNION {o.inputs \cup o.outputs : o \in g.operators}
  BY <1>1, <1>4, <1>5
<1>7. QED
  BY <1>4, <1>6 DEF g

(* What has been made of the pipeline so far is what it says.              *)
Expanded ==
  /\ Drawable(canonical)
  /\ runtime # None => runtime = Assign!Expansion(canonical)
  /\ loaded # None => loaded = Assign!Expansion(canonical)
  /\ back # None => back = Assign!Folded(Assign!Expansion(canonical))

LEMMA CopiesOf ==
  ASSUME Assign!ExpansionAssumption, NEW c, c.config \in [Operators -> Configs]
  PROVE  \A o \in Operators : Assign!Copies(c, o) \in Nat \ {0}
<1>1. ASSUME NEW o \in Operators PROVE Assign!Copies(c, o) \in Nat \ {0}
  <2>1. c.config[o].parallelism \in Nat
    BY DEF Assign!ExpansionAssumption
  <2>2. QED
    BY <2>1 DEF Assign!Copies, Assign!ExpansionAssumption
<1>2. QED
  BY <1>1

LEMMA ExpandedInit ==
  ASSUME Assign!ExpansionAssumption, Assign!Init PROVE Expanded
<1>1. canonical.config \in [Operators -> Configs] /\ canonical.edges \subseteq OutPorts \X InPorts
  BY DEF Assign!Init
<1>2. \A o \in Operators : Assign!Copies(canonical, o) \in Nat \ {0}
  BY <1>1, CopiesOf
<1>3. QED
  BY <1>1, <1>2 DEF Expanded, Drawable, Assign!Init

LEMMA ExpandedStep ==
  ASSUME Expanded, [Assign!Next]_(Assign!vars) PROVE Expanded'
<1>1. \A c : Assign!FromRuntime(Assign!ToRuntime(Assign!Expansion(c))) = Assign!Expansion(c)
  BY DEF Assign!FromRuntime, Assign!ToRuntime, Assign!Expansion
<1>2. canonical' = canonical
  BY DEF Assign!Next, Assign!Expand, Assign!Load, Assign!Fold, Assign!vars
<1>3. /\ Drawable(canonical)' <=> Drawable(canonical)
      /\ Assign!Expansion(canonical)' = Assign!Expansion(canonical)
  BY <1>2
<1>4. CASE Assign!Expand
  BY <1>2, <1>3, <1>4 DEF Assign!Expand, Expanded
<1>5. CASE Assign!Load
  BY <1>1, <1>2, <1>3, <1>5 DEF Assign!Load, Expanded
<1>6. CASE Assign!Fold
  BY <1>2, <1>3, <1>6 DEF Assign!Fold, Expanded
<1>7. CASE UNCHANGED Assign!vars
  BY <1>2, <1>3, <1>7 DEF Assign!vars, Expanded
<1>8. QED
  BY <1>4, <1>5, <1>6, <1>7 DEF Assign!Next

LEMMA ExpandedSays ==
  ASSUME Assign!ExpansionAssumption, Expanded
  PROVE  /\ Assign!RoundTrip /\ Assign!ServedOnce /\ Assign!PeersAreReplicas
         /\ Assign!SortableUnlessLoop /\ Assign!TypeOK
<1>1. Drawable(canonical)
  BY DEF Expanded
<1>2. Assign!RoundTrip
  BY <1>1, FoldedAsDrawn DEF Expanded, Assign!RoundTrip
<1>3. Assign!ServedOnce
  <2>1. ASSUME loaded # None PROVE loaded = Assign!Expansion(canonical)
    BY <2>1 DEF Expanded
  <2>2. \A e \in canonical.edges :
          \A i \in Assign!Instances(canonical, Owner[e[1]]), j \in Assign!Instances(canonical, Owner[e[2]]) :
            Assign!Cardinality({d \in Assign!PortEdges(Assign!Expansion(canonical)) :
                                  /\ d[1].port = e[1] /\ Assign!OperatorOf(d[1]) = i
                                  /\ d[2].port = e[2] /\ Assign!OperatorOf(d[2]) = j}) = 1
    BY <1>1, LinkIsOnly
  <2>3. QED
    BY <2>1, <2>2, Zenon DEF Assign!ServedOnce
<1>4. Assign!PeersAreReplicas
  <2>1. loaded # None => loaded = Assign!Expansion(canonical)
    BY DEF Expanded
  <2>2. loaded # None => \A d \in Assign!PortEdges(loaded) : d[2].op = d[1].target
    BY <1>1, <2>1, PeersOfOne
  <2>3. QED
    BY <2>2 DEF Assign!PeersAreReplicas
<1>5. Assign!SortableUnlessLoop
  <2>1. loaded # None => loaded = Assign!Expansion(canonical)
    BY DEF Expanded
  <2>2. loaded # None => (Assign!Cyclic(Assign!OperatorGraph(loaded)) <=> Assign!Cyclic(Loops(canonical)))
    BY <1>1, <2>1, CyclesAreLoops
  <2>3. QED
    BY <2>2 DEF Assign!SortableUnlessLoop, Loops, Feeds
<1>6. Assign!TypeOK
  <2>1. \A g \in {runtime, loaded} \ {None} : g = Assign!Expansion(canonical)
    BY DEF Expanded
  <2>2. \A g \in {runtime, loaded} \ {None} :
          /\ \A o \in g.operators : o.inputs \cup o.outputs \subseteq g.ports
          /\ g.ports = UNION {o.inputs \cup o.outputs : o \in g.operators}
    BY <1>1, <2>1, PortsOfInstances
  <2>3. QED
    BY <1>1, <2>2 DEF Assign!TypeOK, Drawable
<1>7. QED
  BY <1>2, <1>3, <1>4, <1>5, <1>6

(* A pipeline that is expanded, published, loaded and folded again is the  *)
(* one that was drawn; each instance is reached once from each instance    *)
(* upstream, peers are replicas of one operator, and the expanded graph has*)
(* a cycle just when data can come round through several instances         *)
(* (expand_canonical_to_runtime, _should_connect_ports, to_canonical and   *)
(* _build_operator_graph).                                                 *)
THEOREM PipelinesExpandFaithfully ==
  ASSUME Assign!ExpansionAssumption
  PROVE  Assign!Spec => [](/\ Assign!RoundTrip /\ Assign!ServedOnce /\ Assign!PeersAreReplicas
                           /\ Assign!SortableUnlessLoop /\ Assign!TypeOK)
<1>1. Assign!Init => Expanded
  BY ExpandedInit
<1>2. Expanded /\ [Assign!Next]_(Assign!vars) => Expanded'
  BY ExpandedStep
<1>3. Expanded => /\ Assign!RoundTrip /\ Assign!ServedOnce /\ Assign!PeersAreReplicas
                  /\ Assign!SortableUnlessLoop /\ Assign!TypeOK
  BY ExpandedSays
<1>4. QED
  BY <1>1, <1>2, <1>3, PTL DEF Assign!Spec

------------------------------------------------------------------------------
(* The assigner.  What a pipeline that is drawn has to be: every operator  *)
(* has one instance at least.                                              *)
HasInstances ==
  /\ runtime = Assign!Expansion(canonical)
  /\ \A o \in Operators : Assign!Copies(canonical, o) \in Nat \ {0}

(* Where the instances are, while the assigner places them.                *)
Whereabouts ==
  /\ DOMAIN assignments = DOMAIN agents
  /\ remaining \subseteq Assign!AllInstances /\ rejected \subseteq Assign!AllInstances
  /\ remaining \cap rejected = {}
  /\ \A a \in DOMAIN agents :
       /\ Assign!IsFiniteSet(assignments[a])
       /\ assignments[a] \subseteq Assign!AllInstances \ (remaining \cup rejected)
  /\ \A a, b \in DOMAIN agents : \A i \in assignments[a] \cap assignments[b] : a = b
  /\ phase \in {"assigning", "assigned", "UnassignableOperatorsError"} =>
       \A i \in Assign!AllInstances \ (remaining \cup rejected) :
         \E a \in DOMAIN agents : i \in assignments[a]

(* What the phase says of the agents and of what is left.                  *)
PhaseTells ==
  /\ phase \in {"new", "NoAgentsError", "CyclicDependenciesError", "assigning", "assigned",
                "UnassignableOperatorsError"}
  /\ phase = "new" => remaining = {} /\ rejected = {} /\ DOMAIN networks = {}
                        /\ \A a \in DOMAIN agents : assignments[a] = {}
  /\ phase = "NoAgentsError" => DOMAIN agents = {}
  /\ phase = "CyclicDependenciesError" => Assign!Cyclic(Assign!Graph)
  /\ phase \in {"assigning", "assigned", "UnassignableOperatorsError"} =>
       DOMAIN agents # {} /\ ~Assign!Cyclic(Assign!Graph)
  /\ phase \in {"assigned", "UnassignableOperatorsError"} => remaining = {}
  /\ phase = "assigned" => rejected = {}
  /\ phase = "UnassignableOperatorsError" => rejected # {}

(* Instances are where their tags are; those that are nowhere find none.   *)
PlacedByTags ==
  /\ \A i \in rejected : Assign!Matching(i) = {}
  /\ \A a \in DOMAIN agents : \A i \in assignments[a] : a \in Assign!Matching(i)

(* The networks of an instance are decided with those of its upstream ones.*)
NetworksDecided ==
  \A i \in DOMAIN networks :
    /\ i \in Assign!AllInstances \ remaining /\ Assign!Predecessors(i) \cap remaining = {}
    /\ \E a \in DOMAIN agents : i \in assignments[a] /\ networks[i] \subseteq agents[a].networks
    /\ (\E a \in Assign!Matching(i) : agents[a].networks \cap Assign!Allowed(i) # {})
         => networks[i] # {} /\ networks[i] \subseteq Assign!Allowed(i)

AssignInv ==
  HasInstances /\ Whereabouts /\ PhaseTells /\ PlacedByTags /\ NetworksDecided

(* What all pipelines and agents begin with.                               *)
AssignBegins ==
  /\ phase = "new" /\ remaining = {} /\ rejected = {}
  /\ assignments = [a \in DOMAIN agents |-> {}]
  /\ networks = [i \in {} |-> {}]

LEMMA AssignStart ==
  ASSUME AssignBegins, HasInstances PROVE AssignInv /\ Assign!Balanced
<1>1. \A a \in DOMAIN agents : assignments[a] = {} /\ Assign!IsFiniteSet({})
  <2>1. Assign!IsFiniteSet({})
    BY FS_EmptySet, Zenon DEF Assign!IsFiniteSet, IsFiniteSet
  <2>2. QED
    BY <2>1 DEF AssignBegins
<1>2. DOMAIN networks = {}
  BY DEF AssignBegins
<1>3. Whereabouts
  BY <1>1 DEF AssignBegins, Whereabouts
<1>4. PhaseTells
  BY <1>1, <1>2 DEF AssignBegins, PhaseTells
<1>5. PlacedByTags /\ NetworksDecided
  BY <1>1, <1>2 DEF AssignBegins, PlacedByTags, NetworksDecided
<1>6. Assign!Balanced
  <2>1. \A a \in DOMAIN agents : Assign!LoadOf(a) = Assign!Cardinality({})
    BY <1>1 DEF Assign!LoadOf
  <2>2. Assign!Cardinality({}) = 0
    BY FS_EmptySet, Zenon DEF Assign!Cardinality, Cardinality, IsFiniteSet
  <2>3. QED
    BY <2>1, <2>2 DEF Assign!Balanced
<1>7. QED
  BY <1>3, <1>4, <1>5, <1>6 DEF AssignInv

(* A step leaves the pipeline and the agents as they are.                  *)
LEMMA AssignRests ==
  ASSUME UNCHANGED <<canonical, runtime, agents, required>>
  PROVE  /\ Assign!AllInstances' = Assign!AllInstances
         /\ Assign!Graph' = Assign!Graph
         /\ \A i : Assign!Predecessors(i)' = Assign!Predecessors(i)
         /\ \A i : Assign!Matching(i)' = Assign!Matching(i)
         /\ HasInstances' <=> HasInstances
BY DEF Assign!AllInstances, Assign!Graph, Assign!Predecessors, Assign!Matching, HasInstances

LEMMA AssignSorts == ASSUME AssignInv, Assign!Sort PROVE AssignInv'
<1>1. UNCHANGED <<canonical, runtime, agents, required, assignments, networks, rejected>>
  BY DEF Assign!Sort, Assign!vars
<1>2. /\ phase = "new" /\ remaining' = Assign!AllInstances
      /\ rejected = {} /\ DOMAIN networks = {} /\ \A a \in DOMAIN agents : assignments[a] = {}
  BY DEF Assign!Sort, AssignInv, PhaseTells
<1>3. /\ DOMAIN agents = {} => phase' = "NoAgentsError"
      /\ DOMAIN agents # {} /\ Assign!Cyclic(Assign!Graph) => phase' = "CyclicDependenciesError"
      /\ DOMAIN agents # {} /\ ~Assign!Cyclic(Assign!Graph) => phase' = "assigning"
  BY DEF Assign!Sort
<1>4. Whereabouts'
  BY <1>1, <1>2, AssignRests DEF AssignInv, Whereabouts
<1>5. PhaseTells'
  <2>1. Assign!Cyclic(Assign!Graph)' <=> Assign!Cyclic(Assign!Graph)
    BY <1>1, AssignRests DEF Assign!Cyclic, Assign!Upstream
  <2>2. QED
    BY <1>1, <1>2, <1>3, <2>1 DEF PhaseTells
<1>6. PlacedByTags' /\ NetworksDecided'
  BY <1>1, <1>2 DEF PlacedByTags, NetworksDecided
<1>7. QED
  BY <1>1, <1>4, <1>5, <1>6, AssignRests DEF AssignInv

LEMMA AssignFinishes == ASSUME AssignInv, Assign!Finish PROVE AssignInv'
<1>1. UNCHANGED <<canonical, runtime, agents, required, remaining, assignments, networks, rejected>>
  BY DEF Assign!Finish, Assign!vars
<1>2. /\ phase = "assigning" /\ remaining = {}
      /\ rejected = {} => phase' = "assigned"
      /\ rejected # {} => phase' = "UnassignableOperatorsError"
  BY DEF Assign!Finish
<1>3. Whereabouts'
  BY <1>1, <1>2, AssignRests DEF AssignInv, Whereabouts
<1>4. PhaseTells'
  <2>1. Assign!Cyclic(Assign!Graph)' <=> Assign!Cyclic(Assign!Graph)
    BY <1>1, AssignRests DEF Assign!Cyclic, Assign!Upstream
  <2>2. QED
    BY <1>1, <1>2, <2>1 DEF PhaseTells, AssignInv
<1>5. PlacedByTags'
  BY <1>1, AssignRests DEF PlacedByTags, AssignInv
<1>6. NetworksDecided'
  BY <1>1, AssignRests DEF NetworksDecided, AssignInv, Assign!Allowed
<1>7. QED
  BY <1>1, <1>3, <1>4, <1>5, <1>6, AssignRests DEF AssignInv

LEMMA EligibleMatch ==
  ASSUME NEW i, NEW a \in Assign!LeastLoaded(Assign!Eligible(i))
  PROVE  /\ a \in DOMAIN agents /\ a \in Assign!Matching(i)
         /\ Assign!Recorded(i, a) \subseteq agents[a].networks
         /\ (\E b \in Assign!Matching(i) : agents[b].networks \cap Assign!Allowed(i) # {})
              => Assign!Recorded(i, a) # {} /\ Assign!Recorded(i, a) \subseteq Assign!Allowed(i)
<1>1. a \in Assign!Eligible(i)
  BY DEF Assign!LeastLoaded
<1>2. QED
  BY <1>1 DEF Assign!Eligible, Assign!Matching, Assign!Recorded

LEMMA AssignPlaces ==
  ASSUME AssignInv, NEW i \in Assign!AllInstances, Assign!Place(i) PROVE AssignInv'
<1>1. UNCHANGED <<canonical, runtime, agents, required, phase>>
  BY DEF Assign!Place, Assign!vars
<1>2. /\ phase = "assigning" /\ i \in remaining /\ Assign!Predecessors(i) \cap remaining = {}
      /\ remaining' = remaining \ {i}
  BY DEF Assign!Place
<1>3. Whereabouts /\ PhaseTells /\ PlacedByTags /\ NetworksDecided
  BY DEF AssignInv
<1>4. PhaseTells'
  <2>1. Assign!Cyclic(Assign!Graph)' <=> Assign!Cyclic(Assign!Graph)
    BY <1>1, AssignRests DEF Assign!Cyclic, Assign!Upstream
  <2>2. QED
    BY <1>1, <1>2, <1>3, <2>1 DEF PhaseTells
<1>5. ASSUME Assign!Matching(i) = {}, rejected' = rejected \cup {i},
             UNCHANGED <<assignments, networks>>
      PROVE  Whereabouts' /\ PlacedByTags' /\ NetworksDecided'
  <2>1. Whereabouts'
    BY <1>1, <1>2, <1>3, <1>5, AssignRests DEF Whereabouts
  <2>2. PlacedByTags'
    BY <1>1, <1>2, <1>3, <1>5, AssignRests DEF PlacedByTags
  <2>3. NetworksDecided'
    BY <1>1, <1>2, <1>3, <1>5, AssignRests DEF NetworksDecided, Assign!Allowed
  <2>4. QED
    BY <2>1, <2>2, <2>3
<1>6. ASSUME NEW a \in Assign!LeastLoaded(Assign!Eligible(i)),
             assignments' = [assignments EXCEPT ![a] = @ \cup {i}],
             networks' = [k \in DOMAIN networks \cup {i} |->
                            IF k = i THEN Assign!Recorded(i, a) ELSE networks[k]],
             rejected' = rejected
      PROVE  Whereabouts' /\ PlacedByTags' /\ NetworksDecided'
  <2>1. /\ a \in DOMAIN agents /\ a \in Assign!Matching(i)
        /\ Assign!Recorded(i, a) \subseteq agents[a].networks
        /\ (\E b \in Assign!Matching(i) : agents[b].networks \cap Assign!Allowed(i) # {})
             => Assign!Recorded(i, a) # {} /\ Assign!Recorded(i, a) \subseteq Assign!Allowed(i)
    BY EligibleMatch
  <2>2. /\ DOMAIN assignments' = DOMAIN agents
        /\ assignments'[a] = assignments[a] \cup {i}
        /\ \A b \in DOMAIN agents : b # a => assignments'[b] = assignments[b]
    BY <1>3, <1>6, <2>1 DEF Whereabouts
  <2>3. Whereabouts'
    <3>1. Assign!IsFiniteSet(assignments'[a])
      <4>1. IsFiniteSet(assignments[a])
        BY <1>3, <2>1, Zenon DEF Whereabouts, Assign!IsFiniteSet, IsFiniteSet
      <4>2. IsFiniteSet(assignments[a] \cup {i})
        BY <4>1, FS_AddElement
      <4>3. QED
        BY <2>2, <4>2, Zenon DEF Assign!IsFiniteSet, IsFiniteSet
    <3>2. \A b \in DOMAIN agents : Assign!IsFiniteSet(assignments'[b])
      BY <1>3, <2>2, <3>1 DEF Whereabouts
    <3>3. \A b \in DOMAIN agents :
            assignments'[b] \subseteq Assign!AllInstances \ (remaining' \cup rejected')
      BY <1>2, <1>3, <1>6, <2>2 DEF Whereabouts
    <3>4. \A b, c \in DOMAIN agents : \A k \in assignments'[b] \cap assignments'[c] : b = c
      <4>1. \A b \in DOMAIN agents : i \notin assignments[b]
        BY <1>2, <1>3 DEF Whereabouts
      <4>2. \A b \in DOMAIN agents : \A k \in assignments'[b] :
              IF k = i THEN b = a ELSE k \in assignments[b]
        BY <2>2, <4>1
      <4>3. QED
        BY <1>3, <4>2 DEF Whereabouts
    <3>5. \A k \in Assign!AllInstances \ (remaining' \cup rejected') :
            \E b \in DOMAIN agents : k \in assignments'[b]
      BY <1>2, <1>3, <1>6, <2>1, <2>2 DEF Whereabouts
    <3>6. QED
      BY <1>1, <1>2, <1>3, <1>6, <2>2, <3>2, <3>3, <3>4, <3>5, AssignRests DEF Whereabouts
  <2>4. PlacedByTags'
    BY <1>1, <1>3, <1>6, <2>1, <2>2, AssignRests DEF PlacedByTags
  <2>5. NetworksDecided'
    <3>1. /\ DOMAIN networks' = DOMAIN networks \cup {i}
          /\ networks'[i] = Assign!Recorded(i, a)
          /\ \A k \in DOMAIN networks : k # i => networks'[k] = networks[k]
          /\ i \notin DOMAIN networks
      BY <1>2, <1>3, <1>6 DEF NetworksDecided
    <3>2. \A k \in DOMAIN networks' : i \notin Assign!Predecessors(k)
      BY <1>2, <1>3, <3>1 DEF NetworksDecided
    <3>3. ASSUME NEW k \in DOMAIN networks' PROVE Assign!Allowed(k)' = Assign!Allowed(k)
      BY <1>1, <3>1, <3>2, AssignRests DEF Assign!Allowed
    <3>4. ASSUME NEW k \in DOMAIN networks, NEW b \in DOMAIN agents, k \in assignments[b]
          PROVE  k \in assignments'[b]
      BY <2>2, <3>4
    <3>5. \A k \in DOMAIN networks' :
            \E b \in DOMAIN agents : k \in assignments'[b] /\ networks'[k] \subseteq agents[b].networks
      BY <1>3, <2>1, <2>2, <3>1, <3>4 DEF NetworksDecided
    <3>6. \A k \in DOMAIN networks' :
            (\E b \in Assign!Matching(k) : agents[b].networks \cap Assign!Allowed(k) # {})
               => networks'[k] # {} /\ networks'[k] \subseteq Assign!Allowed(k)
      BY <1>3, <2>1, <3>1 DEF NetworksDecided
    <3>7. \A k \in DOMAIN networks' :
            k \in Assign!AllInstances \ remaining' /\ Assign!Predecessors(k) \cap remaining' = {}
      BY <1>2, <1>3, <3>1 DEF NetworksDecided, Whereabouts
    <3>8. QED
      BY <1>1, <3>3, <3>5, <3>6, <3>7, AssignRests DEF NetworksDecided
  <2>6. QED
    BY <2>3, <2>4, <2>5
<1>7. Whereabouts' /\ PlacedByTags' /\ NetworksDecided'
  BY <1>5, <1>6 DEF Assign!Place
<1>8. QED
  BY <1>1, <1>4, <1>7, AssignRests DEF AssignInv

LEMMA AssignStep ==
  ASSUME AssignInv, [Assign!AssignNext]_<<Assign!vars, Assign!assignVars>> PROVE AssignInv'
<1>1. CASE UNCHANGED <<Assign!vars, Assign!assignVars>>
  <2>1. UNCHANGED <<canonical, runtime, agents, required, phase, remaining, assignments,
                    networks, rejected>>
    BY <1>1 DEF Assign!vars, Assign!assignVars
  <2>2. Assign!Cyclic(Assign!Graph)' <=> Assign!Cyclic(Assign!Graph)
    BY <2>1, AssignRests DEF Assign!Cyclic, Assign!Upstream
  <2>3. Whereabouts' /\ PhaseTells'
    BY <2>1, <2>2, AssignRests DEF AssignInv, Whereabouts, PhaseTells
  <2>4. PlacedByTags' /\ NetworksDecided'
    BY <2>1, AssignRests DEF AssignInv, PlacedByTags, NetworksDecided, Assign!Allowed
  <2>5. QED
    BY <2>1, <2>3, <2>4, AssignRests DEF AssignInv
<1>2. CASE Assign!AssignNext
  BY <1>2, AssignSorts, AssignFinishes, AssignPlaces DEF Assign!AssignNext
<1>3. QED
  BY <1>1, <1>2

(* Loads are natural numbers, and an instance adds one to one of them.     *)
LEMMA LoadsAre ==
  ASSUME AssignInv
  PROVE  \A a \in DOMAIN agents : Assign!LoadOf(a) \in Nat
<1>1. ASSUME NEW a \in DOMAIN agents PROVE Assign!LoadOf(a) \in Nat
  <2>1. IsFiniteSet(assignments[a])
    BY Zenon DEF AssignInv, Whereabouts, Assign!IsFiniteSet, IsFiniteSet
  <2>2. Cardinality(assignments[a]) \in Nat
    BY <2>1, FS_CardinalityType
  <2>3. QED
    BY <2>2, Zenon DEF Assign!LoadOf, Assign!Cardinality, Cardinality
<1>2. QED
  BY <1>1

LEMMA LoadGrows ==
  ASSUME AssignInv, NEW i \in remaining, NEW a \in DOMAIN agents,
         assignments' = [assignments EXCEPT ![a] = @ \cup {i}]
  PROVE  /\ Assign!LoadOf(a)' = Assign!LoadOf(a) + 1
         /\ \A b \in DOMAIN agents : b # a => Assign!LoadOf(b)' = Assign!LoadOf(b)
<1>1. Whereabouts
  BY DEF AssignInv
<1>2. /\ assignments'[a] = assignments[a] \cup {i} /\ i \notin assignments[a]
      /\ \A b \in DOMAIN agents : b # a => assignments'[b] = assignments[b]
  BY <1>1 DEF Whereabouts
<1>3. Assign!LoadOf(a)' = Assign!LoadOf(a) + 1
  <2>1. IsFiniteSet(assignments[a])
    BY <1>1, Zenon DEF Whereabouts, Assign!IsFiniteSet, IsFiniteSet
  <2>2. Cardinality(assignments[a] \cup {i}) = Cardinality(assignments[a]) + 1
    BY <1>2, <2>1, FS_AddElement
  <2>3. /\ Assign!LoadOf(a) = Cardinality(assignments[a])
        /\ Assign!LoadOf(a)' = Cardinality(assignments'[a])
    BY Zenon DEF Assign!LoadOf, Assign!Cardinality, Cardinality
  <2>4. QED
    BY <1>2, <2>2, <2>3
<1>4. QED
  BY <1>2, <1>3 DEF Assign!LoadOf

LEMMA BalancedStep ==
  ASSUME AssignInv, Assign!Balanced, [Assign!AssignNext]_<<Assign!vars, Assign!assignVars>>
  PROVE  Assign!Balanced'
<1>1. ASSUME UNCHANGED <<agents, assignments>> PROVE Assign!Balanced'
  BY <1>1 DEF Assign!Balanced, Assign!LoadOf
<1>2. ASSUME NEW i \in Assign!AllInstances, Assign!Place(i),
             NEW a \in Assign!LeastLoaded(Assign!Eligible(i)),
             assignments' = [assignments EXCEPT ![a] = @ \cup {i}]
      PROVE  Assign!Balanced'
  <2>1. i \in remaining /\ UNCHANGED agents
    BY <1>2 DEF Assign!Place
  <2>2. a \in DOMAIN agents
    BY EligibleMatch
  <2>3. ASSUME \A b, c \in DOMAIN agents : agents[b] = agents[c]
        PROVE  \A b, c \in DOMAIN agents : Assign!LoadOf(b)' <= Assign!LoadOf(c)' + 1
    <3>1. Assign!Eligible(i) = DOMAIN agents
      <4>1. Assign!Matching(i) = DOMAIN agents
        BY <2>2, <2>3, EligibleMatch DEF Assign!Matching
      <4>2. QED
        BY <2>3, <4>1 DEF Assign!Eligible
    <3>2. \A b \in DOMAIN agents : Assign!LoadOf(a) <= Assign!LoadOf(b)
      BY <3>1 DEF Assign!LeastLoaded
    <3>3. \A b, c \in DOMAIN agents : Assign!LoadOf(b) <= Assign!LoadOf(c) + 1
      BY <2>3 DEF Assign!Balanced
    <3>4. /\ Assign!LoadOf(a)' = Assign!LoadOf(a) + 1
          /\ \A b \in DOMAIN agents : b # a => Assign!LoadOf(b)' = Assign!LoadOf(b)
      BY <1>2, <2>1, <2>2, LoadGrows
    <3>5. \A b \in DOMAIN agents : Assign!LoadOf(b) \in Nat
      BY LoadsAre
    <3>6. QED
      BY <2>2, <3>2, <3>3, <3>4, <3>5
  <2>4. QED
    BY <2>1, <2>3 DEF Assign!Balanced
<1>3. CASE UNCHANGED <<Assign!vars, Assign!assignVars>>
  BY <1>1, <1>3 DEF Assign!assignVars
<1>4. CASE Assign!Sort \/ Assign!Finish
  BY <1>1, <1>4 DEF Assign!Sort, Assign!Finish
<1>5. ASSUME NEW i \in Assign!AllInstances, Assign!Place(i) PROVE Assign!Balanced'
  BY <1>1, <1>2, <1>5 DEF Assign!Place
<1>6. QED
  BY <1>3, <1>4, <1>5 DEF Assign!AssignNext

(* What the invariant says in the end.                                     *)
LEMMA InstancesOfAll ==
  ASSUME HasInstances
  PROVE  /\ \A i \in Assign!AllInstances : i.op \in Operators
         /\ \A o \in Operators : \E i \in Assign!AllInstances : i.op = o
<1>1. Assign!AllInstances = UNION {Assign!Instances(canonical, o) : o \in Operators}
  <2>. DEFINE all == UNION {Assign!Instances(canonical, o) : o \in Operators}
              node(i) == [id |-> i, inputs |-> Assign!Attached(i, Assign!PortNodes(canonical), InPorts),
                          outputs |-> Assign!Attached(i, Assign!PortNodes(canonical), OutPorts),
                          config |-> canonical.config[i.op]]
  <2>1. Assign!Expansion(canonical).operators = {node(i) : i \in all}
    BY DEF Assign!Expansion
  <2>2. \A i : node(i).id = i
    OBVIOUS
  <2>3. Assign!AllInstances = {n.id : n \in {node(i) : i \in all}}
    BY <2>1 DEF HasInstances, Assign!AllInstances
  <2>. HIDE DEF all, node
  <2>4. {n.id : n \in {node(i) : i \in all}} = all
    BY <2>2
  <2>5. QED
    BY <2>3, <2>4 DEF all
<1>2. \A o \in Operators : 1 \in 1 .. Assign!Copies(canonical, o)
  BY DEF HasInstances
<1>3. \A o \in Operators : [op |-> o, index |-> 1] \in Assign!Instances(canonical, o)
  BY <1>2 DEF Assign!Instances
<1>4. \A o \in Operators : \A i \in Assign!Instances(canonical, o) : i.op = o
  BY DEF Assign!Instances
<1>5. ASSUME NEW o \in Operators PROVE \E i \in Assign!AllInstances : i.op = o
  <2>1. [op |-> o, index |-> 1] \in Assign!AllInstances
    BY <1>1, <1>3
  <2>2. QED
    BY <2>1
<1>6. QED
  BY <1>1, <1>4, <1>5

LEMMA AssignInvPossible == ASSUME AssignInv PROVE Assign!AssignedIfPossible
<1>1. Whereabouts /\ PhaseTells /\ PlacedByTags /\ HasInstances
  BY DEF AssignInv
<1>2. \A i \in Assign!AllInstances : i.op \in Operators
  BY <1>1, InstancesOfAll
<1>3. \A o \in Operators : \E i \in Assign!AllInstances : i.op = o
  BY <1>1, InstancesOfAll
<1>4. ASSUME phase = "assigned", NEW i \in Assign!AllInstances
      PROVE  \E a \in DOMAIN agents : i \in assignments[a] /\ required[i.op] \subseteq agents[a].tags
  <2>1. \E a \in DOMAIN agents : i \in assignments[a]
    BY <1>1, <1>4 DEF Whereabouts, PhaseTells
  <2>2. QED
    BY <1>1, <2>1 DEF PlacedByTags, Assign!Matching
<1>5. ASSUME phase = "assigned"
      PROVE  /\ DOMAIN agents # {} /\ ~Assign!Cyclic(Assign!Graph)
             /\ \A o \in Operators : \E a \in DOMAIN agents : required[o] \subseteq agents[a].tags
  <2>1. DOMAIN agents # {} /\ ~Assign!Cyclic(Assign!Graph)
    BY <1>1, <1>5 DEF PhaseTells
  <2>2. QED
    BY <1>3, <1>4, <1>5, <2>1
<1>6. ASSUME Assign!Ends, DOMAIN agents # {}, ~Assign!Cyclic(Assign!Graph),
             \A o \in Operators : \E a \in DOMAIN agents : required[o] \subseteq agents[a].tags
      PROVE  phase = "assigned"
  <2>1. rejected = {}
    BY <1>1, <1>2, <1>6 DEF PlacedByTags, Whereabouts, Assign!Matching
  <2>2. QED
    BY <1>1, <1>6, <2>1 DEF PhaseTells, Assign!Ends
<1>7. QED
  BY <1>4, <1>5, <1>6 DEF Assign!AssignedIfPossible

LEMMA AssignInvNetworks == ASSUME AssignInv PROVE Assign!KeepsToNetworks
BY DEF AssignInv, NetworksDecided, Assign!KeepsToNetworks, Assign!Allowed

LEMMA AssignInvTypes == ASSUME AssignInv PROVE Assign!AssignerTypeOK
<1>1. Whereabouts /\ PhaseTells /\ NetworksDecided
  BY DEF AssignInv
<1>2. ASSUME NEW i \in remaining \cup rejected
      PROVE  Assign!Cardinality({a \in DOMAIN agents : i \in assignments[a]}) = 0
  <2>1. {a \in DOMAIN agents : i \in assignments[a]} = {}
    BY <1>1 DEF Whereabouts
  <2>2. Cardinality({}) = 0
    BY FS_EmptySet
  <2>3. QED
    BY <2>1, <2>2, Zenon DEF Assign!Cardinality, Cardinality
<1>3. ASSUME phase \in {"assigning", "assigned"}, NEW i \in Assign!AllInstances,
             i \notin remaining \cup rejected
      PROVE  Assign!Cardinality({a \in DOMAIN agents : i \in assignments[a]}) = 1
  <2>1. PICK a \in DOMAIN agents : i \in assignments[a]
    BY <1>1, <1>3 DEF Whereabouts
  <2>2. {b \in DOMAIN agents : i \in assignments[b]} = {a}
    BY <1>1, <2>1 DEF Whereabouts
  <2>3. Cardinality({a}) = 1
    BY FS_Singleton
  <2>4. QED
    BY <2>2, <2>3, Zenon DEF Assign!Cardinality, Cardinality
<1>4. ASSUME NEW i \in DOMAIN networks
      PROVE  networks[i] \subseteq agents[Assign!AgentOf(i)].networks
  <2>1. PICK a \in DOMAIN agents : i \in assignments[a] /\ networks[i] \subseteq agents[a].networks
    BY <1>1 DEF NetworksDecided
  <2>2. Assign!AgentOf(i) = a
    <3>1. \A b \in DOMAIN agents : i \in assignments[b] <=> b = a
      BY <1>1, <2>1 DEF Whereabouts
    <3>2. QED
      BY <3>1, <2>1 DEF Assign!AgentOf
  <2>3. QED
    BY <2>1, <2>2
<1>5. QED
  BY <1>1, <1>2, <1>3, <1>4 DEF Assign!AssignerTypeOK, PhaseTells, Whereabouts

LEMMA AssignInits ==
  ASSUME Assign!AssignerAssumption, Assign!AssignInit
  PROVE  AssignBegins /\ HasInstances
<1>1. canonical.config \in [Operators -> Configs] /\ runtime = Assign!Expansion(canonical)
  BY DEF Assign!AssignInit, Assign!AssignerAssumption
<1>2. \A o \in Operators : Assign!Copies(canonical, o) \in Nat \ {0}
  BY <1>1, CopiesOf DEF Assign!AssignerAssumption
<1>3. QED
  BY <1>1, <1>2 DEF AssignBegins, HasInstances, Assign!AssignInit

(* A deployment is assigned if and only if there are agents, no data can   *)
(* come round and every operator finds an agent with its tags, and then    *)
(* each instance runs on one such agent; it stays on a network of those    *)
(* before it whenever an agent with its tags has one; and among agents that*)
(* are alike none is given two more than another (PipelineAssigner.assign).*)
THEOREM AssignmentsAreRight ==
  ASSUME Assign!AssignerAssumption
  PROVE  Assign!AssignSpec => [](/\ Assign!AssignedIfPossible /\ Assign!KeepsToNetworks
                                 /\ Assign!Balanced /\ Assign!AssignerTypeOK)
<1>1. Assign!AssignInit => AssignInv /\ Assign!Balanced
  BY AssignInits, AssignStart
<1>2. /\ AssignInv /\ Assign!Balanced
      /\ [Assign!AssignNext]_<<Assign!vars, Assign!assignVars>>
      => AssignInv' /\ Assign!Balanced'
  BY AssignStep, BalancedStep
<1>3. AssignInv => Assign!AssignedIfPossible /\ Assign!KeepsToNetworks /\ Assign!AssignerTypeOK
  BY AssignInvPossible, AssignInvNetworks, AssignInvTypes
<1>4. QED
  BY <1>1, <1>2, <1>3, PTL DEF Assign!AssignSpec
------------------------------------------------------------------------------
(* The grabber: batches of a dataset.  What is added up from one position  *)
(* to another.                                                             *)
Adds(sizes, from, to, f) ==
  f = [i \in from-1..to |-> IF i < from THEN 0 ELSE f[i - 1] + sizes[i]]

LEMMA AddsExists ==
  ASSUME NEW sizes, NEW from \in Nat \ {0}, NEW to \in Nat, to >= from - 1
  PROVE  \E f : Adds(sizes, from, to, f)
<1>. DEFINE T == {n \in Nat : n >= from - 1 /\ ~\E f : Adds(sizes, from, n, f)}
<1>1. SUFFICES ASSUME T # {} PROVE FALSE
  OBVIOUS
<1>2. PICK m \in T : \A n \in T : m <= n
  <2>1. T \subseteq Nat
    OBVIOUS
  <2>. HIDE DEF T
  <2>2. QED
    BY <1>1, <2>1, LeastExists
<1>3. m # from - 1
  <2>1. SUFFICES ASSUME m = from - 1 PROVE FALSE
    OBVIOUS
  <2>. DEFINE f == [i \in from-1..m |-> 0]
  <2>2. f = [i \in from-1..m |-> IF i < from THEN 0 ELSE f[i - 1] + sizes[i]]
    BY <2>1
  <2>3. QED
    BY <2>2 DEF Adds
<1>4. m - 1 \in Nat /\ m - 1 >= from - 1
  BY <1>3
<1>5. PICK f : Adds(sizes, from, m - 1, f)
  BY <1>2, <1>4
<1>. DEFINE g == [i \in from-1..m |-> IF i = m THEN f[m - 1] + sizes[m] ELSE f[i]]
<1>6. f = [i \in from-1..m-1 |-> IF i < from THEN 0 ELSE f[i - 1] + sizes[i]]
  BY <1>5 DEF Adds
<1>7. ASSUME NEW i \in from-1..m
      PROVE  g[i] = IF i < from THEN 0 ELSE g[i - 1] + sizes[i]
  <2>1. CASE i = m
    BY <1>3, <1>4, <2>1
  <2>2. CASE i # m
    <3>1. i \in from-1..m-1
      BY <2>2
    <3>2. f[i] = IF i < from THEN 0 ELSE f[i - 1] + sizes[i]
      BY <1>6, <3>1
    <3>3. i >= from => i - 1 \in from-1..m /\ i - 1 # m
      BY <3>1
    <3>4. QED
      BY <2>2, <3>2, <3>3
  <2>3. QED
    BY <2>1, <2>2
<1>8. g = [i \in from-1..m |-> IF i < from THEN 0 ELSE g[i - 1] + sizes[i]]
  BY <1>7
<1>9. QED
  BY <1>2, <1>8 DEF Adds

(* Sums up to different positions agree.                                   *)
LEMMA AddsAgree ==
  ASSUME NEW sizes \in Seq(Nat), NEW from \in Nat \ {0}, NEW to \in Nat, NEW further \in Nat,
         to <= Len(sizes), NEW f, NEW g, Adds(sizes, from, to, f), Adds(sizes, from, further, g),
         to <= further
  PROVE  \A k \in from-1..to : f[k] = g[k] /\ f[k] \in Nat
<1>. DEFINE T == {k \in from-1..to : ~(f[k] = g[k] /\ f[k] \in Nat)}
<1>1. SUFFICES ASSUME T # {} PROVE FALSE
  OBVIOUS
<1>2. PICK m \in T : \A n \in T : m <= n
  <2>1. T \subseteq Nat
    OBVIOUS
  <2>. HIDE DEF T
  <2>2. QED
    BY <1>1, <2>1, LeastExists
<1>3. /\ \A k \in from-1..to : f[k] = IF k < from THEN 0 ELSE f[k - 1] + sizes[k]
      /\ \A k \in from-1..further : g[k] = IF k < from THEN 0 ELSE g[k - 1] + sizes[k]
  BY DEF Adds
<1>4. m \in from-1..to /\ m \in from-1..further
  OBVIOUS
<1>5. m >= from
  BY <1>2, <1>3, <1>4
<1>6. f[m - 1] = g[m - 1] /\ f[m - 1] \in Nat
  <2>1. m - 1 \in from-1..to /\ m - 1 < m
    BY <1>4, <1>5
  <2>2. QED
    BY <1>2, <2>1
<1>7. sizes[m] \in Nat
  BY <1>4, <1>5
<1>8. QED
  BY <1>2, <1>3, <1>4, <1>5, <1>6, <1>7

LEMMA BytesAre ==
  ASSUME NEW sizes \in Seq(Nat), NEW from \in 1..Len(sizes)
  PROVE  /\ Emitter!Bytes(sizes, from, from - 1) = 0
         /\ \A to \in from-1..Len(sizes) : Emitter!Bytes(sizes, from, to) \in Nat
         /\ \A to \in from..Len(sizes) :
              Emitter!Bytes(sizes, from, to) = Emitter!Bytes(sizes, from, to - 1) + sizes[to]
<1>. DEFINE sum(to) == CHOOSE f : Adds(sizes, from, to, f)
<1>1. \A to : Emitter!Bytes(sizes, from, to) = sum(to)[to]
  BY Zenon DEF Emitter!Bytes, Adds
<1>2. ASSUME NEW to \in from-1..Len(sizes) PROVE Adds(sizes, from, to, sum(to))
  <2>1. from \in Nat \ {0} /\ to \in Nat /\ to >= from - 1
    OBVIOUS
  <2>2. \E f : Adds(sizes, from, to, f)
    BY <2>1, AddsExists
  <2>3. QED
    BY <2>2, Zenon
<1>. HIDE DEF sum
<1>3. Emitter!Bytes(sizes, from, from - 1) = 0
  <2>1. from - 1 \in from-1..Len(sizes)
    OBVIOUS
  <2>2. sum(from - 1) = [i \in from-1..from-1 |-> IF i < from THEN 0 ELSE sum(from - 1)[i - 1] + sizes[i]]
    BY <1>2, <2>1 DEF Adds
  <2>3. QED
    BY <1>1, <2>2
<1>4. ASSUME NEW to \in from-1..Len(sizes) PROVE Emitter!Bytes(sizes, from, to) \in Nat
  <2>1. sum(to)[to] \in Nat
    BY <1>2, AddsAgree
  <2>2. QED
    BY <1>1, <2>1
<1>5. ASSUME NEW to \in from..Len(sizes)
      PROVE  Emitter!Bytes(sizes, from, to) = Emitter!Bytes(sizes, from, to - 1) + sizes[to]
  <2>1. to \in from-1..Len(sizes) /\ to - 1 \in from-1..Len(sizes)
    OBVIOUS
  <2>2. Adds(sizes, from, to, sum(to)) /\ Adds(sizes, from, to - 1, sum(to - 1))
    BY <1>2, <2>1
  <2>3. sum(to - 1)[to - 1] = sum(to)[to - 1]
    BY <2>1, <2>2, AddsAgree
  <2>4. sum(to)[to] = sum(to)[to - 1] + sizes[to]
    BY <2>1, <2>2 DEF Adds
  <2>5. QED
    BY <1>1, <2>3, <2>4
<1>6. QED
  BY <1>3, <1>4, <1>5

(* A batch is closed where the next position would fill it, or at the end. *)
LEMMA BatchEndIs ==
  ASSUME NEW sizes \in Seq(Nat), NEW from \in 1..Len(sizes)
  PROVE  /\ Emitter!BatchEnd(sizes, from) \in from..Len(sizes)
         /\ \A k \in from+1..Emitter!BatchEnd(sizes, from) : ~Emitter!Flush(sizes, from, k)
         /\ Emitter!BatchEnd(sizes, from) < Len(sizes)
              => Emitter!Flush(sizes, from, Emitter!BatchEnd(sizes, from) + 1)
<1>. DEFINE T == {j - 1 : j \in {k \in from+1..Len(sizes) : Emitter!Flush(sizes, from, k)}} \cup {Len(sizes)}
            end == Emitter!BatchEnd(sizes, from)
<1>1. T \subseteq Nat /\ T # {}
  OBVIOUS
<1>2. end \in T /\ \A x \in T : end <= x
  <2>1. end = CHOOSE x \in T : \A y \in T : x <= y
    BY Zenon DEF Emitter!BatchEnd, Emitter!Min
  <2>. HIDE DEF T, end
  <2>2. \E x \in T : \A y \in T : x <= y
    BY <1>1, LeastExists
  <2>3. QED
    BY <2>1, <2>2
<1>. HIDE DEF end
<1>3. end \in from..Len(sizes)
  BY <1>2
<1>4. ASSUME NEW k \in from+1..end PROVE ~Emitter!Flush(sizes, from, k)
  <2>1. SUFFICES ASSUME Emitter!Flush(sizes, from, k) PROVE FALSE
    OBVIOUS
  <2>2. k \in from+1..Len(sizes)
    BY <1>3
  <2>3. k - 1 \in T
    BY <2>1, <2>2
  <2>. HIDE DEF T
  <2>4. end <= k - 1
    BY <1>2, <2>3
  <2>5. QED
    BY <1>3, <2>4
<1>5. ASSUME end < Len(sizes) PROVE Emitter!Flush(sizes, from, end + 1)
  <2>1. PICK j \in from+1..Len(sizes) : Emitter!Flush(sizes, from, j) /\ end = j - 1
    BY <1>2, <1>5
  <2>2. end + 1 = j
    BY <2>1
  <2>3. QED
    BY <2>1, <2>2
<1>6. QED
  BY <1>3, <1>4, <1>5 DEF end

(* The loop that counts the batches beforehand, up to a position.          *)
Begins(sizes, n, f) ==
  f = [i \in 1..n |-> IF i = 1 THEN 1
                      ELSE LET s == f[i - 1] IN IF Emitter!Flush(sizes, s, i) THEN i ELSE s]

LEMMA BeginsExists ==
  ASSUME NEW sizes, NEW n \in Nat
  PROVE  \E f : Begins(sizes, n, f)
<1>. DEFINE T == {k \in Nat : ~\E f : Begins(sizes, k, f)}
<1>1. SUFFICES ASSUME T # {} PROVE FALSE
  OBVIOUS
<1>2. PICK m \in T : \A k \in T : m <= k
  <2>1. T \subseteq Nat
    OBVIOUS
  <2>. HIDE DEF T
  <2>2. QED
    BY <1>1, <2>1, LeastExists
<1>3. m # 0
  <2>1. SUFFICES ASSUME m = 0 PROVE FALSE
    OBVIOUS
  <2>. DEFINE f == [i \in 1..0 |-> 0]
  <2>2. f = [i \in 1..m |-> IF i = 1 THEN 1
                            ELSE LET s == f[i - 1] IN IF Emitter!Flush(sizes, s, i) THEN i ELSE s]
    BY <2>1
  <2>3. QED
    BY <2>2 DEF Begins
<1>4. m - 1 \in Nat
  BY <1>3
<1>5. PICK f : Begins(sizes, m - 1, f)
  BY <1>2, <1>4
<1>. DEFINE at(h, i) == IF i = 1 THEN 1 ELSE IF Emitter!Flush(sizes, h[i - 1], i) THEN i ELSE h[i - 1]
            g == [i \in 1..m |-> IF i = m THEN at(f, m) ELSE f[i]]
<1>6. \A i \in 1..m-1 : f[i] = at(f, i)
  BY <1>5 DEF Begins
<1>7. ASSUME NEW i \in 1..m PROVE g[i] = at(g, i)
  <2>1. i # 1 => i - 1 \in 1..m /\ i - 1 # m /\ g[i - 1] = f[i - 1]
    OBVIOUS
  <2>2. at(g, i) = at(f, i)
    BY <2>1
  <2>3. i # m => i \in 1..m-1
    OBVIOUS
  <2>4. QED
    BY <1>6, <2>2, <2>3
<1>8. g = [i \in 1..m |-> at(g, i)]
  BY <1>7
<1>9. QED
  BY <1>2, <1>8, Zenon DEF Begins

Start(sizes) == CHOOSE f : Begins(sizes, Len(sizes), f)

LEMMA StartIs ==
  ASSUME NEW sizes \in Seq(Nat)
  PROVE  /\ \A i \in 1..Len(sizes) :
              Start(sizes)[i] = IF i = 1 THEN 1
                                ELSE IF Emitter!Flush(sizes, Start(sizes)[i - 1], i) THEN i
                                ELSE Start(sizes)[i - 1]
         /\ \A i \in 1..Len(sizes) : Start(sizes)[i] \in 1..i
<1>. DEFINE f == Start(sizes)
<1>1. Begins(sizes, Len(sizes), f)
  <2>1. Len(sizes) \in Nat
    OBVIOUS
  <2>2. \E g : Begins(sizes, Len(sizes), g)
    BY <2>1, BeginsExists
  <2>3. QED
    BY <2>2, Zenon DEF Start
<1>. HIDE DEF f
<1>2. \A i \in 1..Len(sizes) :
        f[i] = IF i = 1 THEN 1 ELSE IF Emitter!Flush(sizes, f[i - 1], i) THEN i ELSE f[i - 1]
  BY <1>1 DEF Begins
<1>3. \A i \in 1..Len(sizes) : f[i] \in 1..i
  <2>. DEFINE T == {i \in 1..Len(sizes) : f[i] \notin 1..i}
  <2>1. SUFFICES ASSUME T # {} PROVE FALSE
    OBVIOUS
  <2>2. PICK m \in T : \A k \in T : m <= k
    <3>1. T \subseteq Nat
      OBVIOUS
    <3>. HIDE DEF T
    <3>2. QED
      BY <2>1, <3>1, LeastExists
  <2>3. m # 1
    BY <1>2, <2>2
  <2>4. f[m - 1] \in 1..m-1
    <3>1. m - 1 \in 1..Len(sizes) /\ m - 1 < m
      BY <2>3
    <3>2. QED
      BY <2>2, <3>1
  <2>5. QED
    BY <1>2, <2>2, <2>3, <2>4
<1>4. QED
  BY <1>2, <1>3 DEF f

(* Both loops close the same batches.                                      *)
LEMMA StartsAgree ==
  ASSUME NEW sizes \in Seq(Nat), NEW from \in 1..Len(sizes), Start(sizes)[from] = from
  PROVE  /\ \A i \in from..Emitter!BatchEnd(sizes, from) : Start(sizes)[i] = from
         /\ Emitter!BatchEnd(sizes, from) < Len(sizes)
              => Start(sizes)[Emitter!BatchEnd(sizes, from) + 1] = Emitter!BatchEnd(sizes, from) + 1
<1>. DEFINE f == Start(sizes)
            end == Emitter!BatchEnd(sizes, from)
<1>1. /\ end \in from..Len(sizes)
      /\ \A k \in from+1..end : ~Emitter!Flush(sizes, from, k)
      /\ end < Len(sizes) => Emitter!Flush(sizes, from, end + 1)
  BY BatchEndIs
<1>2. \A i \in 1..Len(sizes) :
        f[i] = IF i = 1 THEN 1 ELSE IF Emitter!Flush(sizes, f[i - 1], i) THEN i ELSE f[i - 1]
  BY StartIs
<1>. HIDE DEF f, end
<1>3. \A i \in from..end : f[i] = from
  <2>. DEFINE T == {i \in from..end : f[i] # from}
  <2>1. SUFFICES ASSUME T # {} PROVE FALSE
    OBVIOUS
  <2>2. PICK m \in T : \A k \in T : m <= k
    <3>1. T \subseteq Nat
      BY <1>1
    <3>. HIDE DEF T
    <3>2. QED
      BY <2>1, <3>1, LeastExists
  <2>3. m # from
    BY <2>2 DEF f
  <2>4. m - 1 \in from..end /\ m - 1 < m /\ m \in from+1..end /\ m \in 1..Len(sizes) /\ m # 1
    BY <1>1, <2>3
  <2>5. f[m - 1] = from
    BY <2>2, <2>4
  <2>6. QED
    BY <1>1, <1>2, <2>2, <2>4, <2>5
<1>4. ASSUME end < Len(sizes) PROVE f[end + 1] = end + 1
  <2>1. end + 1 \in 1..Len(sizes) /\ end + 1 # 1 /\ (end + 1) - 1 = end /\ f[end] = from
    BY <1>1, <1>3, <1>4
  <2>2. QED
    BY <1>1, <1>2, <1>4, <2>1
<1>5. QED
  BY <1>3, <1>4 DEF f, end

(* An emitter at the start of a batch, or at its end.                      *)
EmitterRecord ==
  [id : Nat, sizes : Seq(Nat) \ {<<>>}, next : Nat, batch : Nat, total : Nat, frames : Nat]

Cutting(e) ==
  /\ e \in EmitterRecord
  /\ e.total = Emitter!TotalBatches(e.sizes)
  /\ e.next \in 1..Len(e.sizes) + 1
  /\ IsFiniteSet({Start(e.sizes)[i] : i \in 1..e.next - 1})
  /\ e.batch = Cardinality({Start(e.sizes)[i] : i \in 1..e.next - 1})
  /\ e.next <= Len(e.sizes) => Start(e.sizes)[e.next] = e.next

LEMMA TotalIs ==
  ASSUME NEW sizes \in Seq(Nat) \ {<<>>},
         IsFiniteSet({Start(sizes)[i] : i \in 1..Len(sizes)})
  PROVE  LET starts == {Start(sizes)[i] : i \in 1..Len(sizes)}
         IN Emitter!TotalBatches(sizes)
              = Cardinality(starts)
                - (IF Emitter!Bytes(sizes, Start(sizes)[Len(sizes)], Len(sizes)) > 0 THEN 0 ELSE 1)
BY Zenon DEF Emitter!TotalBatches, Start, Begins, Emitter!Cardinality, Cardinality

LEMMA StartsFinite ==
  ASSUME NEW sizes \in Seq(Nat), NEW n \in 0..Len(sizes)
  PROVE  IsFiniteSet({Start(sizes)[i] : i \in 1..n})
<1>1. {Start(sizes)[i] : i \in 1..n} \subseteq 1..Len(sizes)
  BY StartIs
<1>2. IsFiniteSet(1..Len(sizes))
  BY FS_Interval
<1>3. QED
  BY <1>1, <1>2, FS_Subset

LEMMA TotalIsNat ==
  ASSUME NEW sizes \in Seq(Nat) \ {<<>>}
  PROVE  Emitter!TotalBatches(sizes) \in Nat
<1>. DEFINE starts == {Start(sizes)[i] : i \in 1..Len(sizes)}
<1>1. Len(sizes) \in Nat \ {0}
  OBVIOUS
<1>2. IsFiniteSet(starts)
  BY <1>1, StartsFinite
<1>3. starts # {}
  <2>1. 1 \in 1..Len(sizes)
    BY <1>1
  <2>2. QED
    BY <2>1
<1>4. Cardinality(starts) \in Nat \ {0}
  <2>. HIDE DEF starts
  <2>1. QED
    BY <1>2, <1>3, FS_CardinalityType, FS_EmptySet
<1>5. Emitter!TotalBatches(sizes)
        = Cardinality(starts)
          - (IF Emitter!Bytes(sizes, Start(sizes)[Len(sizes)], Len(sizes)) > 0 THEN 0 ELSE 1)
  BY <1>2, TotalIs
<1>. HIDE DEF starts
<1>6. QED
  BY <1>4, <1>5

(* A new emitter is one.                                                   *)
LEMMA BeginsCutting ==
  ASSUME NEW raw, NEW id \in Nat, raw.sizes \in Seq(Nat) \ {<<>>}
  PROVE  /\ Cutting(Emitter!Emitter(raw, id))
         /\ Emitter!Emitter(raw, id).id = id /\ Emitter!Emitter(raw, id).sizes = raw.sizes
         /\ Emitter!Emitter(raw, id).next = 1 /\ Emitter!Emitter(raw, id).batch = 0
<1>. DEFINE sizes == raw.sizes
            e == Emitter!Emitter(raw, id)
<1>1. Len(sizes) \in Nat \ {0}
  OBVIOUS
<1>2. e = [id |-> id, sizes |-> sizes, next |-> 1, batch |-> 0,
           total |-> Emitter!TotalBatches(sizes), frames |-> Len(sizes)]
  BY DEF Emitter!Emitter
<1>3. Emitter!TotalBatches(sizes) \in Nat
  BY TotalIsNat
<1>4. {Start(sizes)[i] : i \in 1..1 - 1} = {}
  OBVIOUS
<1>5. Start(sizes)[1] = 1
  <2>1. 1 \in 1..Len(sizes)
    BY <1>1
  <2>2. QED
    BY <2>1, StartIs
<1>. HIDE DEF e
<1>6. e \in EmitterRecord
  BY <1>1, <1>2, <1>3 DEF EmitterRecord
<1>7. Cutting(e)
  <2>1. e.sizes = sizes /\ e.next = 1 /\ e.batch = 0 /\ e.total = Emitter!TotalBatches(sizes)
    BY <1>2
  <2>. HIDE DEF sizes
  <2>2. {Start(e.sizes)[i] : i \in 1..e.next - 1} = {}
    BY <1>4, <2>1
  <2>3. /\ IsFiniteSet({Start(e.sizes)[i] : i \in 1..e.next - 1})
        /\ Cardinality({Start(e.sizes)[i] : i \in 1..e.next - 1}) = 0
    BY <2>2, FS_EmptySet
  <2>4. e.next \in 1..Len(e.sizes) + 1 /\ Start(e.sizes)[e.next] = e.next
    BY <1>1, <1>5, <2>1
  <2>5. QED
    BY <1>6, <2>1, <2>3, <2>4 DEF Cutting
<1>8. QED
  BY <1>2, <1>7 DEF e

(* A batch of a dataset keeps the limit, and the last is as announced.     *)
BatchFits(b, sizes) ==
  /\ b.bytes >= BatchLimit => Emitter!Bytes(sizes, b.from, b.to - 1) = 0
  /\ b.to = Len(sizes) /\ b.bytes > 0 => b.total = b.index + 1

LEMMA CutsOn ==
  ASSUME NEW e, Cutting(e), e.next <= Len(e.sizes), BatchLimit \in Nat \ {0}
  PROVE  /\ Cutting(Emitter!Advanced(e))
         /\ Emitter!Advanced(e).id = e.id /\ Emitter!Advanced(e).sizes = e.sizes
         /\ Emitter!Advanced(e).next = Emitter!NextBatch(e).to + 1
         /\ Emitter!Advanced(e).batch = Emitter!NextBatch(e).index + 1
         /\ Emitter!NextBatch(e).id = e.id /\ Emitter!NextBatch(e).from = e.next
         /\ Emitter!NextBatch(e).index = e.batch
         /\ Emitter!NextBatch(e).to \in e.next..Len(e.sizes)
         /\ BatchFits(Emitter!NextBatch(e), e.sizes)
<1>. DEFINE sizes == e.sizes
            from == e.next
            end == Emitter!BatchEnd(sizes, from)
            b == Emitter!NextBatch(e)
            a == Emitter!Advanced(e)
            before == {Start(sizes)[i] : i \in 1..from - 1}
            upto == {Start(sizes)[i] : i \in 1..end}
<1>1. /\ e \in EmitterRecord /\ e.total = Emitter!TotalBatches(sizes)
      /\ sizes \in Seq(Nat) \ {<<>>} /\ from \in 1..Len(sizes)
      /\ IsFiniteSet(before) /\ e.batch = Cardinality(before) /\ Start(sizes)[from] = from
  BY DEF Cutting, EmitterRecord
<1>2. /\ b = [id |-> e.id, from |-> from, to |-> end, bytes |-> Emitter!Bytes(sizes, from, end),
             index |-> e.batch, total |-> e.total, frames |-> e.frames]
      /\ a = [e EXCEPT !.next = end + 1, !.batch = @ + 1]
  BY DEF Emitter!NextBatch, Emitter!Advanced
<1>3. /\ a \in EmitterRecord
      /\ a.id = e.id /\ a.sizes = sizes /\ a.next = end + 1 /\ a.batch = e.batch + 1
      /\ a.total = e.total
  <2>1. end \in Nat
    BY <1>1, BatchEndIs
  <2>2. e.batch \in Nat
    BY DEF Cutting, EmitterRecord
  <2>. HIDE DEF end, a, sizes
  <2>3. a = [id |-> e.id, sizes |-> e.sizes, next |-> end + 1, batch |-> e.batch + 1,
             total |-> e.total, frames |-> e.frames]
    BY <1>1, <1>2 DEF EmitterRecord
  <2>4. a \in EmitterRecord
    BY <1>1, <2>1, <2>2, <2>3 DEF EmitterRecord
  <2>5. QED
    BY <2>3, <2>4 DEF sizes
<1>4. /\ b.id = e.id /\ b.from = from /\ b.to = end /\ b.index = e.batch /\ b.total = e.total
      /\ b.bytes = Emitter!Bytes(sizes, from, end)
  BY <1>2
<1>5. /\ end \in from..Len(sizes)
      /\ \A k \in from+1..end : ~Emitter!Flush(sizes, from, k)
  BY <1>1, BatchEndIs
<1>6. /\ \A i \in from..end : Start(sizes)[i] = from
      /\ end < Len(sizes) => Start(sizes)[end + 1] = end + 1
  BY <1>1, StartsAgree
<1>. HIDE DEF a, b, end, from, sizes
<1>7. upto = before \cup {from} /\ from \notin before
  <2>1. \A i \in 1..Len(sizes) : Start(sizes)[i] \in 1..i
    BY <1>1, StartIs
  <2>2. 1..end = (1..from - 1) \cup (from..end) /\ from \in from..end
    BY <1>1, <1>5
  <2>3. upto = before \cup {Start(sizes)[i] : i \in from..end}
    BY <2>2
  <2>4. {Start(sizes)[i] : i \in from..end} = {from}
    BY <1>6, <2>2
  <2>5. from \notin before
    BY <1>1, <2>1
  <2>6. QED
    BY <2>3, <2>4, <2>5
<1>8. IsFiniteSet(upto) /\ Cardinality(upto) = e.batch + 1
  <2>. HIDE DEF upto, before
  <2>1. QED
    BY <1>1, <1>7, FS_AddElement
<1>9. Cutting(a)
  <2>1. a.next - 1 = end /\ a.next \in 1..Len(sizes) + 1
    BY <1>1, <1>3, <1>5
  <2>2. {Start(a.sizes)[i] : i \in 1..a.next - 1} = upto
    BY <1>3, <2>1
  <2>3. a.next <= Len(sizes) => end < Len(sizes)
    BY <1>1, <1>3, <1>5
  <2>. HIDE DEF upto
  <2>4. QED
    BY <1>1, <1>3, <1>6, <1>8, <2>1, <2>2, <2>3 DEF Cutting
<1>10. b.bytes >= BatchLimit => Emitter!Bytes(sizes, from, end - 1) = 0
  <2>1. CASE end = from
    BY <1>1, <2>1, BytesAre
  <2>2. CASE end # from
    <3>1. end \in from+1..end /\ end - 1 \in from-1..Len(sizes)
      BY <1>1, <1>5, <2>2
    <3>2. ~(Emitter!Bytes(sizes, from, end - 1) > 0 /\ Emitter!Bytes(sizes, from, end) >= BatchLimit)
      BY <1>5, <3>1 DEF Emitter!Flush
    <3>3. Emitter!Bytes(sizes, from, end - 1) \in Nat
      BY <1>1, <3>1, BytesAre
    <3>4. QED
      BY <1>4, <3>2, <3>3
  <2>3. QED
    BY <2>1, <2>2
<1>11. end = Len(sizes) /\ b.bytes > 0 => b.total = b.index + 1
  <2>1. SUFFICES ASSUME end = Len(sizes), b.bytes > 0 PROVE b.total = b.index + 1
    OBVIOUS
  <2>2. upto = {Start(sizes)[i] : i \in 1..Len(sizes)}
    BY <2>1
  <2>3. Start(sizes)[Len(sizes)] = from
    BY <1>1, <1>5, <1>6, <2>1
  <2>4. Emitter!Bytes(sizes, Start(sizes)[Len(sizes)], Len(sizes)) > 0
    BY <1>4, <2>1, <2>3
  <2>5. Emitter!TotalBatches(sizes) = Cardinality(upto)
    <3>1. Emitter!TotalBatches(sizes)
            = Cardinality({Start(sizes)[i] : i \in 1..Len(sizes)})
              - (IF Emitter!Bytes(sizes, Start(sizes)[Len(sizes)], Len(sizes)) > 0 THEN 0 ELSE 1)
      BY <1>1, <1>8, <2>2, TotalIs
    <3>. HIDE DEF upto
    <3>2. Cardinality(upto) \in Nat
      BY <1>8, FS_CardinalityType
    <3>3. QED
      BY <2>2, <2>4, <3>1, <3>2
  <2>. HIDE DEF upto
  <2>6. QED
    BY <1>1, <1>4, <1>8, <2>5
<1>12. BatchFits(b, sizes)
  BY <1>4, <1>10, <1>11 DEF BatchFits
<1>13. QED
  BY <1>3, <1>4, <1>5, <1>9, <1>12 DEF a, b, sizes, from

(* What is sent of a live batch or a dataset.                              *)
BatchRecord ==
  [id : Nat, from : Nat, to : Nat, bytes : Nat, index : Nat, total : Nat \cup {None},
   frames : Nat \cup {None}]

(* What was sent, s, of what was taken, t.                                 *)
EndsIn(b, t) == b.to = Len(Emitter!Positions(t[b.id]))

FollowsIn(b, n, t) ==
  IF EndsIn(b, t) THEN n.id = b.id + 1 /\ n.from = 1 /\ n.index = 0
  ELSE n.id = b.id /\ n.from = b.to + 1 /\ n.index = b.index + 1

FitsIn(b, t) ==
  /\ b.id \in 1..Len(t) /\ b.to \in DOMAIN Emitter!Positions(t[b.id])
  /\ b.total # None => t[b.id].kind = "dataset" /\ BatchFits(b, t[b.id].sizes)

SentIn(s, t) ==
  /\ s \in Seq(BatchRecord) /\ t \in Seq(Raw)
  /\ s # <<>> => s[1].id = 1 /\ s[1].from = 1
  /\ \A i \in 1..Len(s) - 1 : FollowsIn(s[i], s[i + 1], t)
  /\ \A i \in 1..Len(s) : FitsIn(s[i], t)
  /\ s = <<>> => t = <<>>
  /\ s # <<>> => s[Len(s)].id = Len(t)

LEMMA SentLonger ==
  ASSUME NEW s, NEW t, SentIn(s, t), NEW u \in Seq(Raw), Len(t) <= Len(u),
         \A n \in 1..Len(t) : u[n] = t[n],
         NEW b \in BatchRecord, FitsIn(b, u), b.id = Len(u),
         IF s = <<>> THEN b.id = 1 /\ b.from = 1 ELSE FollowsIn(s[Len(s)], b, t)
  PROVE  SentIn(Append(s, b), u)
<1>. DEFINE r == Append(s, b)
<1>1. /\ s \in Seq(BatchRecord) /\ t \in Seq(Raw)
  BY DEF SentIn
<1>2. /\ Len(s) \in Nat /\ r \in Seq(BatchRecord) /\ Len(r) = Len(s) + 1 /\ r # <<>>
      /\ r[Len(s) + 1] = b /\ \A i \in 1..Len(s) : r[i] = s[i]
      /\ s # <<>> <=> Len(s) # 0
  BY <1>1
<1>. HIDE DEF r
<1>3. ASSUME NEW i \in 1..Len(s)
      PROVE  s[i].id \in 1..Len(t) /\ u[s[i].id] = t[s[i].id] /\ FitsIn(s[i], t)
  BY DEF SentIn, FitsIn
<1>4. \A i \in 1..Len(s) : FitsIn(s[i], u)
  BY <1>1, <1>3 DEF FitsIn
<1>5. \A i \in 1..Len(s) : EndsIn(s[i], u) <=> EndsIn(s[i], t)
  BY <1>3 DEF EndsIn
<1>6. r[1].id = 1 /\ r[1].from = 1
  <2>1. CASE s = <<>>
    BY <1>2, <2>1
  <2>2. CASE s # <<>>
    <3>1. s[1].id = 1 /\ s[1].from = 1
      BY <2>2 DEF SentIn
    <3>2. 1 \in 1..Len(s)
      BY <1>2, <2>2
    <3>3. QED
      BY <1>2, <3>1, <3>2
  <2>3. QED
    BY <2>1, <2>2
<1>7. ASSUME NEW i \in 1..Len(r) - 1 PROVE FollowsIn(r[i], r[i + 1], u)
  <2>1. i \in 1..Len(s) /\ r[i] = s[i]
    BY <1>2
  <2>2. CASE i < Len(s)
    <3>1. i \in 1..Len(s) - 1 /\ r[i + 1] = s[i + 1]
      BY <1>2, <2>1, <2>2
    <3>2. FollowsIn(s[i], s[i + 1], t)
      BY <3>1 DEF SentIn
    <3>3. QED
      BY <1>5, <2>1, <3>1, <3>2 DEF FollowsIn
  <2>3. CASE i = Len(s)
    <3>1. r[i + 1] = b /\ s # <<>>
      BY <1>2, <2>1, <2>3
    <3>2. FollowsIn(s[i], b, t)
      BY <2>3, <3>1
    <3>3. QED
      BY <1>5, <2>1, <3>1, <3>2 DEF FollowsIn
  <2>4. QED
    BY <1>2, <2>1, <2>2, <2>3
<1>8. ASSUME NEW i \in 1..Len(r) PROVE FitsIn(r[i], u)
  <2>1. CASE i \in 1..Len(s)
    BY <1>2, <1>4, <2>1
  <2>2. CASE i = Len(s) + 1
    BY <1>2, <2>2
  <2>3. QED
    BY <1>2, <2>1, <2>2
<1>9. SentIn(r, u)
  BY <1>2, <1>6, <1>7, <1>8 DEF SentIn
<1>10. QED
  BY <1>9 DEF r

(* The sockets that are open; the active emitter is of the last dataset    *)
(* that was taken and the last batch that was sent is the one before its   *)
(* next.                                                                   *)
SocketsOpen ==
  /\ emitterInbox \in [Emitter!Sources -> Seq(Raw)]
  /\ \A s \in Emitter!Sources : emitterInbox[s] # <<>> => s \in emitterSocket
  /\ \E s \in Emitter!Sources : emitterSocket \subseteq {Shared, s}
  /\ emitterParameters \in [source : Emitter!Sources, sparse : BOOLEAN]

ActiveFollows ==
  active # None =>
    /\ Cutting(active)
    /\ active.id = Len(emitterTaken) /\ active.id # 0
    /\ emitterTaken[active.id].kind = "dataset" /\ emitterTaken[active.id].sizes = active.sizes
    /\ emitterSent # <<>>
    /\ emitterSent[Len(emitterSent)].to = active.next - 1
    /\ emitterSent[Len(emitterSent)].index = active.batch - 1

GrabInv ==
  /\ SocketsOpen /\ emitterCache = <<>>
  /\ SentIn(emitterSent, emitterTaken) /\ ActiveFollows
  /\ running /\ emitterSent # <<>> /\ Emitter!Idle(active)
       => EndsIn(emitterSent[Len(emitterSent)], emitterTaken)

LEMMA GrabInits == Emitter!EmitterAssumption /\ Emitter!Init => GrabInv
<1>. SUFFICES ASSUME Emitter!EmitterAssumption, Emitter!Init PROVE GrabInv
  OBVIOUS
<1>1. /\ emitterSocket = {Shared} /\ emitterInbox = [s \in Emitter!Sources |-> <<>>]
      /\ emitterParameters \in [source : Emitter!Sources, sparse : BOOLEAN]
      /\ emitterCache = <<>> /\ active = None /\ emitterSent = <<>> /\ emitterTaken = <<>>
  BY DEF Emitter!Init
<1>2. SocketsOpen
  BY <1>1 DEF SocketsOpen, Emitter!Sources
<1>3. SentIn(emitterSent, emitterTaken)
  BY <1>1 DEF SentIn
<1>4. QED
  BY <1>1, <1>2, <1>3 DEF GrabInv, ActiveFollows

(* What messages can be.                                                   *)
LEMMA RawIs ==
  ASSUME Emitter!EmitterAssumption, NEW r \in Raw
  PROVE  /\ Emitter!DecodesBatch(r) => Emitter!Positions(r) = <<1>>
         /\ Emitter!Unpacks(r) =>
              r.kind = "dataset" /\ r.sizes \in Seq(Nat) \ {<<>>} /\ Emitter!Positions(r) = r.sizes
<1>1. r \in [kind : {"live", "junk"}] \/ r \in [kind : {"dataset"}, sizes : Seq(Nat) \ {<<>>}]
  BY DEF Emitter!EmitterAssumption
<1>2. QED
  BY <1>1 DEF Emitter!DecodesBatch, Emitter!Unpacks, Emitter!Positions

(* An emitter, new or active, sends its next batch.                        *)
LEMMA GrabEmits ==
  ASSUME Emitter!EmitterAssumption, GrabInv, SocketsOpen',
         NEW e, Cutting(e), e.next <= Len(e.sizes),
         NEW t \in Seq(Raw), Len(emitterTaken) <= Len(t), t # <<>>,
         \A n \in 1..Len(emitterTaken) : t[n] = emitterTaken[n],
         e.id = Len(t), t[e.id].kind = "dataset", t[e.id].sizes = e.sizes,
         IF emitterSent = <<>> THEN Len(t) = 1 /\ e.next = 1
         ELSE LET b == emitterSent[Len(emitterSent)]
              IN IF EndsIn(b, emitterTaken) THEN Len(t) = b.id + 1 /\ e.next = 1 /\ e.batch = 0
                 ELSE Len(t) = b.id /\ e.next = b.to + 1 /\ e.batch = b.index + 1,
         emitterTaken' = t, emitterSent' = Append(emitterSent, Emitter!NextBatch(e)),
         active' = Emitter!Advanced(e), emitterCache' = <<>>
  PROVE  GrabInv'
<1>. DEFINE b == Emitter!NextBatch(e)
            a == Emitter!Advanced(e)
<1>1. BatchLimit \in Nat \ {0}
  BY DEF Emitter!EmitterAssumption
<1>2. /\ Cutting(a) /\ a.id = e.id /\ a.sizes = e.sizes
      /\ a.next = b.to + 1 /\ a.batch = b.index + 1
      /\ b.id = e.id /\ b.from = e.next /\ b.index = e.batch
      /\ b.to \in e.next..Len(e.sizes)
      /\ BatchFits(b, e.sizes)
  BY <1>1, CutsOn
<1>3. e \in EmitterRecord /\ e.next \in 1..Len(e.sizes)
  BY DEF Cutting
<1>4. b \in BatchRecord
  <2>1. b = [id |-> e.id, from |-> e.next, to |-> Emitter!BatchEnd(e.sizes, e.next),
             bytes |-> Emitter!Bytes(e.sizes, e.next, Emitter!BatchEnd(e.sizes, e.next)),
             index |-> e.batch, total |-> e.total, frames |-> e.frames]
    BY DEF Emitter!NextBatch
  <2>2. e.sizes \in Seq(Nat) /\ {e.id, e.next, e.batch, e.total, e.frames} \subseteq Nat
    BY <1>3 DEF EmitterRecord
  <2>3. Emitter!BatchEnd(e.sizes, e.next) \in e.next..Len(e.sizes)
    BY <1>3, <2>2, BatchEndIs
  <2>4. Emitter!Bytes(e.sizes, e.next, Emitter!BatchEnd(e.sizes, e.next)) \in Nat
    <3>1. Emitter!BatchEnd(e.sizes, e.next) \in e.next - 1..Len(e.sizes)
      BY <1>3, <2>2, <2>3
    <3>2. QED
      BY <1>3, <2>2, <3>1, BytesAre
  <2>5. Emitter!BatchEnd(e.sizes, e.next) \in Nat
    BY <1>3, <2>2, <2>3
  <2>6. QED
    BY <2>1, <2>2, <2>4, <2>5 DEF BatchRecord
<1>. HIDE DEF a, b
<1>5. e.sizes \in Seq(Nat) \ {<<>>} /\ Len(e.sizes) \in Nat
  BY <1>3 DEF EmitterRecord
<1>6. e.id \in 1..Len(t) /\ t[e.id] \in Raw /\ Emitter!Positions(t[e.id]) = e.sizes
  <2>1. e.id \in 1..Len(t) /\ t[e.id] \in Raw
    OBVIOUS
  <2>2. Emitter!Unpacks(t[e.id])
    BY DEF Emitter!Unpacks
  <2>3. QED
    BY <2>1, <2>2, RawIs
<1>7. FitsIn(b, t)
  BY <1>2, <1>3, <1>5, <1>6 DEF FitsIn
<1>8. SentIn(emitterSent, emitterTaken)
  BY DEF GrabInv
<1>9. SentIn(emitterSent', t)
  <2>1. IF emitterSent = <<>> THEN b.id = 1 /\ b.from = 1
        ELSE FollowsIn(emitterSent[Len(emitterSent)], b, emitterTaken)
    BY <1>2 DEF FollowsIn
  <2>2. SentIn(Append(emitterSent, b), t)
    BY <1>2, <1>4, <1>7, <1>8, <2>1, SentLonger
  <2>3. QED
    BY <2>2 DEF b
<1>10. emitterSent' # <<>> /\ emitterSent'[Len(emitterSent')] = b
  <2>1. emitterSent \in Seq(BatchRecord)
    BY <1>8 DEF SentIn
  <2>2. emitterSent' = Append(emitterSent, b)
    BY DEF b
  <2>3. QED
    BY <1>4, <2>1, <2>2
<1>11. active' = a
  BY DEF a
<1>12. ActiveFollows'
  <2>1. /\ a.id = Len(t) /\ a.id # 0 /\ t[a.id].kind = "dataset" /\ t[a.id].sizes = a.sizes
        /\ b.to = a.next - 1 /\ b.index = a.batch - 1
    <3>1. b.to \in Nat /\ b.index \in Nat
      BY <1>4 DEF BatchRecord
    <3>2. QED
      BY <1>2, <1>6, <3>1
  <2>2. QED
    BY <1>2, <1>10, <1>11, <2>1 DEF ActiveFollows
<1>13. ASSUME Emitter!Idle(active)' PROVE EndsIn(emitterSent'[Len(emitterSent')], t)
  <2>1. a # None
    BY <1>2 DEF Cutting, EmitterRecord, Emitter!EmitterAssumption
  <2>2. a.next > Len(a.sizes)
    BY <1>11, <1>13, <2>1 DEF Emitter!Idle, Emitter!Exhausted
  <2>3. b.to = Len(e.sizes)
    BY <1>2, <1>3, <1>5, <2>2
  <2>4. QED
    BY <1>2, <1>6, <1>10, <2>3 DEF EndsIn
<1>14. QED
  BY <1>9, <1>12, <1>13 DEF GrabInv

LEMMA GrabStep ==
  ASSUME Emitter!EmitterAssumption, GrabInv, [Emitter!Next]_(Emitter!vars)
  PROVE  GrabInv'
<1>1. /\ SocketsOpen /\ emitterCache = <<>> /\ SentIn(emitterSent, emitterTaken) /\ ActiveFollows
      /\ running /\ emitterSent # <<>> /\ Emitter!Idle(active)
           => EndsIn(emitterSent[Len(emitterSent)], emitterTaken)
  BY DEF GrabInv
<1>2. ASSUME SocketsOpen', UNCHANGED <<emitterCache, active, emitterSent, emitterTaken>>,
             running' => running
      PROVE  GrabInv'
  <2>1. ActiveFollows'
    BY <1>1, <1>2 DEF ActiveFollows
  <2>2. Emitter!Idle(active)' <=> Emitter!Idle(active)
    BY <1>2 DEF Emitter!Idle
  <2>3. QED
    BY <1>1, <1>2, <2>1, <2>2 DEF GrabInv
<1>3. CASE UNCHANGED Emitter!vars
  <2>1. SocketsOpen'
    BY <1>1, <1>3 DEF SocketsOpen, Emitter!vars
  <2>2. QED
    BY <1>2, <1>3, <2>1 DEF Emitter!vars
<1>4. CASE Emitter!Arrives
  <2>1. PICK s \in emitterSocket, r \in Raw : emitterInbox' = [emitterInbox EXCEPT ![s] = Append(@, r)]
    BY <1>4 DEF Emitter!Arrives
  <2>2. s \in Emitter!Sources
    BY <1>1 DEF SocketsOpen, Emitter!Sources
  <2>3. emitterInbox' \in [Emitter!Sources -> Seq(Raw)]
    BY <1>1, <2>1, <2>2 DEF SocketsOpen
  <2>4. UNCHANGED <<emitterSocket, emitterParameters, emitterCache, active, emitterSent, emitterTaken, running>>
    BY <1>4 DEF Emitter!Arrives
  <2>5. \A z \in Emitter!Sources : emitterInbox'[z] # <<>> => z \in emitterSocket
    BY <1>1, <2>1, <2>2 DEF SocketsOpen
  <2>6. SocketsOpen'
    BY <1>1, <2>3, <2>4, <2>5 DEF SocketsOpen
  <2>7. QED
    BY <1>2, <2>4, <2>6
<1>5. CASE Emitter!Sets
  <2>1. SocketsOpen'
    BY <1>1, <1>5 DEF SocketsOpen, Emitter!Sets
  <2>2. QED
    BY <1>2, <1>5, <2>1 DEF Emitter!Sets
<1>6. CASE Emitter!Shutdown
  <2>1. /\ emitterInbox' = [s \in Emitter!Sources |-> <<>>] /\ emitterSocket' = {}
        /\ emitterCache' = <<>> /\ active' = None /\ ~running'
        /\ UNCHANGED <<emitterParameters, emitterSent, emitterTaken>>
    BY <1>6 DEF Emitter!Shutdown, Emitter!InboxAfter
  <2>2. SocketsOpen'
    <3>1. emitterInbox' \in [Emitter!Sources -> Seq(Raw)]
      BY <2>1
    <3>2. QED
      BY <1>1, <2>1, <3>1 DEF SocketsOpen
  <2>3. QED
    BY <1>1, <2>1, <2>2 DEF GrabInv, ActiveFollows
<1>7. CASE Emitter!Emits
  <2>1. UNCHANGED <<emitterSocket, emitterInbox, emitterParameters, emitterTaken, running>> /\ running
    BY <1>7 DEF Emitter!Emits
  <2>2. /\ active # None /\ active.next <= Len(active.sizes)
        /\ emitterSent' = Append(emitterSent, Emitter!NextBatch(active))
        /\ active' = Emitter!Advanced(active) /\ emitterCache' = <<>>
    <3>1. ~Emitter!Idle(active) /\ Emitter!EmitsFrom(<<active>>)
      BY <1>1, <1>7 DEF Emitter!Emits
    <3>2. active # None /\ ~(active.next > Len(active.sizes))
      BY <3>1 DEF Emitter!Idle, Emitter!Exhausted
    <3>3. active.next \in Nat /\ Len(active.sizes) \in Nat
      BY <1>1, <3>2 DEF ActiveFollows, Cutting, EmitterRecord
    <3>4. Head(<<active>>) = active /\ Tail(<<active>>) = <<>>
      OBVIOUS
    <3>5. QED
      BY <3>1, <3>2, <3>3, <3>4 DEF Emitter!EmitsFrom
  <2>3. SocketsOpen'
    BY <1>1, <2>1 DEF SocketsOpen
  <2>4. /\ Cutting(active) /\ active.id = Len(emitterTaken) /\ active.id # 0
        /\ emitterTaken[active.id].kind = "dataset" /\ emitterTaken[active.id].sizes = active.sizes
        /\ emitterSent # <<>>
        /\ emitterSent[Len(emitterSent)].to = active.next - 1
        /\ emitterSent[Len(emitterSent)].index = active.batch - 1
        /\ emitterTaken \in Seq(Raw) /\ emitterSent[Len(emitterSent)].id = Len(emitterTaken)
    BY <1>1, <2>2 DEF ActiveFollows, SentIn
  <2>5. active.next \in Nat /\ active.batch \in Nat /\ Len(active.sizes) \in Nat
    BY <2>4 DEF Cutting, EmitterRecord
  <2>6. ~EndsIn(emitterSent[Len(emitterSent)], emitterTaken)
    <3>1. emitterTaken[active.id] \in Raw /\ Emitter!Unpacks(emitterTaken[active.id])
      BY <2>4 DEF Emitter!Unpacks
    <3>2. Emitter!Positions(emitterTaken[active.id]) = active.sizes
      BY <2>4, <3>1, RawIs
    <3>3. QED
      BY <2>2, <2>4, <2>5, <3>2 DEF EndsIn
  <2>7. LET b == emitterSent[Len(emitterSent)]
        IN Len(emitterTaken) = b.id /\ active.next = b.to + 1 /\ active.batch = b.index + 1
    BY <2>4, <2>5
  <2>8. emitterTaken # <<>> /\ Len(emitterTaken) <= Len(emitterTaken)
    BY <2>4
  <2>9. QED
    BY <2>1, <2>2, <2>3, <2>4, <2>6, <2>7, <2>8, GrabEmits
<1>8. CASE Emitter!Receives
  <2>. DEFINE s == emitterParameters.source
              open == Emitter!OpenSockets(s)
              box == Emitter!InboxAfter(open)
              raw == Head(box[s])
  <2>1. /\ running /\ UNCHANGED <<emitterParameters, running>> /\ Emitter!Idle(active)
        /\ emitterSocket' = open
        /\ IF box[s] = <<>> THEN emitterInbox' = box ELSE emitterInbox' = [box EXCEPT ![s] = Tail(@)]
    BY <1>8 DEF Emitter!Receives, Emitter!TakesNext
  <2>2. s \in Emitter!Sources /\ box \in [Emitter!Sources -> Seq(Raw)]
        /\ \A z \in Emitter!Sources : box[z] # <<>> => z \in open
    BY <1>1 DEF SocketsOpen, Emitter!InboxAfter
  <2>3. \E z \in Emitter!Sources : open \subseteq {Shared, z}
    BY <1>1, <2>2 DEF SocketsOpen, Emitter!OpenSockets
  <2>4. SocketsOpen'
    <3>. HIDE DEF s, box, open
    <3>1. emitterInbox' \in [Emitter!Sources -> Seq(Raw)]
      BY <2>1, <2>2
    <3>2. \A z \in Emitter!Sources : emitterInbox'[z] # <<>> => box[z] # <<>>
      BY <2>1, <2>2
    <3>3. QED
      BY <1>1, <2>1, <2>2, <2>3, <3>1, <3>2 DEF SocketsOpen
  <2>5. emitterTaken \in Seq(Raw) /\ emitterSent \in Seq(BatchRecord) /\ Len(emitterTaken) \in Nat
    BY <1>1 DEF SentIn
  <2>6. /\ emitterSent = <<>> => Len(emitterTaken) = 0
        /\ emitterSent # <<>> => /\ EndsIn(emitterSent[Len(emitterSent)], emitterTaken)
                              /\ emitterSent[Len(emitterSent)].id = Len(emitterTaken)
    BY <1>1, <2>1 DEF SentIn
  <2>7. \/ active' = None /\ UNCHANGED <<emitterCache, emitterSent, emitterTaken>>
        \/ /\ box[s] # <<>> /\ emitterTaken' = Append(emitterTaken, raw)
           /\ Emitter!DecodesBatch(raw)
           /\ emitterSent' = Append(emitterSent, Emitter!LiveBatch(Len(emitterTaken')))
           /\ active' = None /\ UNCHANGED emitterCache
        \/ /\ box[s] # <<>> /\ emitterTaken' = Append(emitterTaken, raw)
           /\ Emitter!Unpacks(raw)
           /\ Emitter!EmitsFrom(Append(emitterCache, Emitter!Emitter(raw, Len(emitterTaken'))))
    BY <1>8 DEF Emitter!Receives, Emitter!TakesNext
  <2>8. CASE active' = None /\ UNCHANGED <<emitterCache, emitterSent, emitterTaken>>
    BY <1>1, <2>1, <2>4, <2>6, <2>8 DEF GrabInv, ActiveFollows
  <2>9. ASSUME box[s] # <<>>, emitterTaken' = Append(emitterTaken, raw)
        PROVE  /\ raw \in Raw /\ emitterTaken' \in Seq(Raw) /\ Len(emitterTaken') = Len(emitterTaken) + 1
               /\ emitterTaken'[Len(emitterTaken')] = raw
               /\ \A n \in 1..Len(emitterTaken) : emitterTaken'[n] = emitterTaken[n]
    <3>1. box[s] \in Seq(Raw)
      BY <2>2
    <3>2. raw \in Raw
      BY <2>9, <3>1
    <3>. HIDE DEF raw
    <3>3. QED
      BY <2>5, <2>9, <3>2
  <2>10. ASSUME box[s] # <<>>, emitterTaken' = Append(emitterTaken, raw), Emitter!DecodesBatch(raw),
                emitterSent' = Append(emitterSent, Emitter!LiveBatch(Len(emitterTaken'))),
                active' = None, UNCHANGED emitterCache
         PROVE  GrabInv'
    <3>. DEFINE b == Emitter!LiveBatch(Len(emitterTaken'))
    <3>1. /\ raw \in Raw /\ emitterTaken' \in Seq(Raw) /\ Len(emitterTaken') = Len(emitterTaken) + 1
          /\ emitterTaken'[Len(emitterTaken')] = raw
          /\ \A n \in 1..Len(emitterTaken) : emitterTaken'[n] = emitterTaken[n]
      BY <2>9, <2>10
    <3>. HIDE DEF raw, box, open, s
    <3>2. b = [id |-> Len(emitterTaken'), from |-> 1, to |-> 1, bytes |-> 1, index |-> 0,
               total |-> None, frames |-> None]
      BY DEF Emitter!LiveBatch
    <3>. HIDE DEF b
    <3>3. b \in BatchRecord /\ b.id = Len(emitterTaken') /\ b.from = 1 /\ b.to = 1 /\ b.index = 0
          /\ b.total = None
      BY <2>5, <3>1, <3>2 DEF BatchRecord
    <3>4. Emitter!Positions(emitterTaken'[b.id]) = <<1>>
      BY <2>10, <3>1, <3>3, RawIs
    <3>5. FitsIn(b, emitterTaken') /\ EndsIn(b, emitterTaken')
      BY <2>5, <3>1, <3>3, <3>4 DEF FitsIn, EndsIn
    <3>6. IF emitterSent = <<>> THEN b.id = 1 /\ b.from = 1
          ELSE FollowsIn(emitterSent[Len(emitterSent)], b, emitterTaken)
      <4>1. emitterSent = <<>> => b.id = 1 /\ b.from = 1
        BY <2>6, <3>1, <3>3
      <4>2. emitterSent # <<>> => /\ EndsIn(emitterSent[Len(emitterSent)], emitterTaken)
                               /\ b.id = emitterSent[Len(emitterSent)].id + 1 /\ b.from = 1 /\ b.index = 0
        BY <2>6, <3>1, <3>3
      <4>3. QED
        BY <4>1, <4>2 DEF FollowsIn
    <3>7. Len(emitterTaken) <= Len(emitterTaken')
      BY <2>5, <3>1
    <3>8. SentIn(Append(emitterSent, b), emitterTaken')
      BY <1>1, <3>1, <3>3, <3>5, <3>6, <3>7, SentLonger
    <3>9. emitterSent' = Append(emitterSent, b)
      BY <2>10 DEF b
    <3>10. emitterSent'[Len(emitterSent')] = b
      BY <2>5, <3>3, <3>9
    <3>11. QED
      BY <1>1, <2>4, <2>10, <3>5, <3>8, <3>9, <3>10 DEF GrabInv, ActiveFollows
  <2>11. ASSUME box[s] # <<>>, emitterTaken' = Append(emitterTaken, raw), Emitter!Unpacks(raw),
                Emitter!EmitsFrom(Append(emitterCache, Emitter!Emitter(raw, Len(emitterTaken'))))
         PROVE  GrabInv'
    <3>. DEFINE e == Emitter!Emitter(raw, Len(emitterTaken'))
    <3>1. /\ raw \in Raw /\ emitterTaken' \in Seq(Raw) /\ Len(emitterTaken') = Len(emitterTaken) + 1
          /\ emitterTaken'[Len(emitterTaken')] = raw
          /\ \A n \in 1..Len(emitterTaken) : emitterTaken'[n] = emitterTaken[n]
      BY <2>9, <2>11
    <3>. HIDE DEF raw, box, open, s
    <3>2. raw.kind = "dataset" /\ raw.sizes \in Seq(Nat) \ {<<>>}
      BY <2>11, <3>1, RawIs
    <3>3. Len(emitterTaken') \in Nat \ {0}
      BY <2>5, <3>1
    <3>4. /\ Cutting(e) /\ e.id = Len(emitterTaken') /\ e.sizes = raw.sizes
          /\ e.next = 1 /\ e.batch = 0
      BY <3>2, <3>3, BeginsCutting
    <3>. HIDE DEF e
    <3>5. Append(emitterCache, e) = <<e>> /\ Head(<<e>>) = e /\ Tail(<<e>>) = <<>>
      BY <1>1
    <3>6. /\ emitterSent' = Append(emitterSent, Emitter!NextBatch(e)) /\ active' = Emitter!Advanced(e)
          /\ emitterCache' = <<>>
      BY <2>11, <3>5 DEF Emitter!EmitsFrom, e
    <3>7. e.next <= Len(e.sizes)
      BY <3>2, <3>4
    <3>8. emitterTaken' # <<>> /\ Len(emitterTaken) <= Len(emitterTaken')
      BY <2>5, <3>1
    <3>9. IF emitterSent = <<>> THEN Len(emitterTaken') = 1 /\ e.next = 1
          ELSE LET b == emitterSent[Len(emitterSent)]
               IN IF EndsIn(b, emitterTaken) THEN Len(emitterTaken') = b.id + 1 /\ e.next = 1 /\ e.batch = 0
                  ELSE Len(emitterTaken') = b.id /\ e.next = b.to + 1 /\ e.batch = b.index + 1
      BY <2>6, <3>1, <3>4
    <3>. DEFINE t == emitterTaken'
    <3>10. /\ t \in Seq(Raw) /\ e.id = Len(t) /\ t[e.id].kind = "dataset"
           /\ t[e.id].sizes = e.sizes /\ emitterTaken' = t
      BY <3>1, <3>2, <3>4
    <3>11. QED
      BY <2>4, <3>1, <3>4, <3>6, <3>7, <3>8, <3>9, <3>10, GrabEmits
  <2>12. QED
    BY <2>7, <2>8, <2>10, <2>11
<1>9. QED
  BY <1>3, <1>4, <1>5, <1>6, <1>7, <1>8 DEF Emitter!Next

(* What the invariant says.                                                *)
LEMMA GrabSays ==
  ASSUME Emitter!EmitterAssumption, GrabInv
  PROVE  Emitter!Streamed /\ Emitter!LimitKept /\ Emitter!Announced /\ Emitter!EmitterTypeOK
<1>1. /\ emitterSent \in Seq(BatchRecord) /\ emitterTaken \in Seq(Raw)
      /\ emitterSent # <<>> => emitterSent[1].id = 1 /\ emitterSent[1].from = 1
      /\ \A i \in 1..Len(emitterSent) - 1 : FollowsIn(emitterSent[i], emitterSent[i + 1], emitterTaken)
      /\ \A i \in 1..Len(emitterSent) : FitsIn(emitterSent[i], emitterTaken)
  BY DEF GrabInv, SentIn
<1>2. Emitter!Streamed
  BY <1>1 DEF Emitter!Streamed, FollowsIn, EndsIn, Emitter!Ends
<1>3. ASSUME NEW b \in Emitter!Range(emitterSent) PROVE FitsIn(b, emitterTaken)
  BY <1>1 DEF Emitter!Range
<1>4. Emitter!LimitKept
  BY <1>3 DEF Emitter!LimitKept, FitsIn, BatchFits
<1>5. Emitter!Announced
  <2>1. ASSUME NEW b \in Emitter!Range(emitterSent), b.total # None, Emitter!Ends(b), b.bytes > 0
        PROVE  b.total = b.index + 1
    <3>1. /\ FitsIn(b, emitterTaken) /\ emitterTaken[b.id].kind = "dataset"
          /\ b.to = Len(Emitter!Positions(emitterTaken[b.id]))
      BY <1>3, <2>1 DEF FitsIn, Emitter!Ends
    <3>2. Emitter!Positions(emitterTaken[b.id]) = emitterTaken[b.id].sizes
      BY <3>1 DEF Emitter!Positions
    <3>3. QED
      BY <2>1, <3>1, <3>2 DEF FitsIn, BatchFits
  <2>2. QED
    BY <2>1 DEF Emitter!Announced
<1>6. Emitter!EmitterTypeOK
  <2>1. PICK s \in Emitter!Sources : emitterSocket \subseteq {Shared, s}
    BY DEF GrabInv, SocketsOpen
  <2>2. Emitter!Cardinality(emitterSocket) <= 2
    <3>1. IsFiniteSet({Shared, s}) /\ Cardinality({Shared, s}) <= 2
      <4>1. IsFiniteSet({s}) /\ Cardinality({s}) = 1
        BY FS_Singleton
      <4>2. {Shared, s} = {s} \cup {Shared}
        OBVIOUS
      <4>3. QED
        BY <4>1, <4>2, FS_AddElement
    <3>2. Cardinality(emitterSocket) <= 2
      <4>1. IsFiniteSet(emitterSocket) /\ Cardinality(emitterSocket) <= Cardinality({Shared, s})
        BY <2>1, <3>1, FS_Subset
      <4>2. Cardinality(emitterSocket) \in Nat /\ Cardinality({Shared, s}) \in Nat
        BY <3>1, <4>1, FS_CardinalityType
      <4>3. QED
        BY <3>1, <4>1, <4>2
    <3>3. Emitter!Cardinality(emitterSocket) = Cardinality(emitterSocket)
      BY Zenon DEF Emitter!Cardinality, Cardinality
    <3>4. QED
      BY <3>2, <3>3
  <2>3. emitterSocket \subseteq Emitter!Sources
    BY <2>1 DEF Emitter!Sources
  <2>4. \A z \in Emitter!Sources : emitterInbox[z] \in Seq(Raw) /\ (emitterInbox[z] # <<>> => z \in emitterSocket)
    BY DEF GrabInv, SocketsOpen
  <2>5. active # None => active.sizes = emitterTaken[active.id].sizes /\ active.id = Len(emitterTaken)
    BY DEF GrabInv, ActiveFollows
  <2>6. \A b \in Emitter!Range(emitterSent) :
          b.id \in DOMAIN emitterTaken /\ b.to \in DOMAIN Emitter!Positions(emitterTaken[b.id])
    BY <1>1, <1>3 DEF FitsIn
  <2>7. emitterCache = <<>>
    BY DEF GrabInv
  <2>8. QED
    BY <1>1, <2>2, <2>3, <2>4, <2>5, <2>6, <2>7 DEF Emitter!EmitterTypeOK
<1>7. QED
  BY <1>2, <1>4, <1>5, <1>6

(* Batches follow in order of arrival, a dataset's without gap or          *)
(* repetition and with nothing between them, whatever messages arrive and  *)
(* parameters change meanwhile; they keep to the limit unless one position *)
(* alone does not, and the number announced beforehand is that of the      *)
(* batches made if the last one has data in it (EmitterManager and         *)
(* BatchEmitter).                                                          *)
THEOREM DatasetsAreStreamed ==
  ASSUME Emitter!EmitterAssumption
  PROVE  Emitter!Spec => [](/\ Emitter!Streamed /\ Emitter!LimitKept /\ Emitter!Announced
                         /\ Emitter!EmitterTypeOK)
<1>1. Emitter!Init => GrabInv
  BY GrabInits
<1>2. GrabInv /\ [Emitter!Next]_(Emitter!vars) => GrabInv'
  BY GrabStep
<1>3. GrabInv => Emitter!Streamed /\ Emitter!LimitKept /\ Emitter!Announced /\ Emitter!EmitterTypeOK
  BY GrabSays
<1>4. QED
  BY <1>1, <1>2, <1>3, PTL DEF Emitter!Spec

------------------------------------------------------------------------------
(* The reduction of centers of mass.  What is added up over the complete   *)
(* results x of a scan.                                                    *)
CompleteIn(x, s) == {i \in DOMAIN x : x[i].scan = s /\ x[i].complete}
CoversIn(x, s, p) == {i \in DOMAIN x : x[i].scan = s /\ p \in DOMAIN x[i].value}

Counts(x, s, p, f) ==
  f = [n \in 0..Len(x) |->
         IF n = 0 THEN 0 ELSE f[n - 1] + (IF n \in CompleteIn(x, s) THEN x[n].com[p].n ELSE 0)]
Counted(x, s, p) == CHOOSE f : Counts(x, s, p, f)

(* The number that each result has of a position.                          *)
Weights(x, s, p) == [i \in 1..Len(x) |-> IF i \in CompleteIn(x, s) THEN x[i].com[p].n ELSE 0]

Numbered(x, s, p) == \A i \in 1..Len(x) : i \in CompleteIn(x, s) => x[i].com[p].n \in Nat

LEMMA CountsAre ==
  ASSUME NEW A, NEW x \in Seq(A), NEW s, NEW p, Numbered(x, s, p)
  PROVE  /\ Weights(x, s, p) \in Seq(Nat) /\ Len(Weights(x, s, p)) = Len(x)
         /\ Adds(Weights(x, s, p), 1, Len(x), Counted(x, s, p))
         /\ Counted(x, s, p)[Len(x)] \in Nat
<1>. DEFINE w == Weights(x, s, p)
<1>1. Len(x) \in Nat /\ w \in [1..Len(x) -> Nat]
  BY DEF Numbered, Weights
<1>2. w \in Seq(Nat) /\ Len(w) = Len(x)
  <2>. HIDE DEF w
  <2>1. QED
    BY <1>1
<1>3. ASSUME NEW f, Adds(w, 1, Len(x), f) PROVE Counts(x, s, p, f)
  <2>1. f = [i \in 0..Len(x) |-> IF i < 1 THEN 0 ELSE f[i - 1] + w[i]]
    BY <1>3 DEF Adds
  <2>2. \A n \in 1..Len(x) : w[n] = IF n \in CompleteIn(x, s) THEN x[n].com[p].n ELSE 0
    BY DEF Weights
  <2>. HIDE DEF w
  <2>3. ASSUME NEW n \in 0..Len(x)
        PROVE  f[n] = IF n = 0 THEN 0
                      ELSE f[n - 1] + (IF n \in CompleteIn(x, s) THEN x[n].com[p].n ELSE 0)
    <3>1. n < 1 <=> n = 0
      BY <1>1
    <3>2. n # 0 => n \in 1..Len(x)
      BY <1>1
    <3>3. QED
      BY <2>1, <2>2, <3>1, <3>2
  <2>4. f = [n \in 0..Len(x) |-> f[n]]
    BY <2>1
  <2>5. QED
    BY <2>3, <2>4 DEF Counts
<1>4. ASSUME NEW f, Counts(x, s, p, f) PROVE Adds(w, 1, Len(x), f)
  <2>1. f = [n \in 0..Len(x) |-> IF n = 0 THEN 0
               ELSE f[n - 1] + (IF n \in CompleteIn(x, s) THEN x[n].com[p].n ELSE 0)]
    BY <1>4 DEF Counts
  <2>2. \A n \in 1..Len(x) : w[n] = IF n \in CompleteIn(x, s) THEN x[n].com[p].n ELSE 0
    BY DEF Weights
  <2>. HIDE DEF w
  <2>3. ASSUME NEW n \in 0..Len(x) PROVE f[n] = IF n < 1 THEN 0 ELSE f[n - 1] + w[n]
    <3>1. n < 1 <=> n = 0
      BY <1>1
    <3>2. n # 0 => n \in 1..Len(x)
      BY <1>1
    <3>3. QED
      BY <2>1, <2>2, <3>1, <3>2
  <2>4. f = [n \in 0..Len(x) |-> f[n]]
    BY <2>1
  <2>5. f = [i \in 0..Len(x) |-> IF i < 1 THEN 0 ELSE f[i - 1] + w[i]]
    BY <2>3, <2>4
  <2>6. 1 - 1 = 0
    OBVIOUS
  <2>7. QED
    BY <2>5, <2>6 DEF Adds
<1>5. \E f : Counts(x, s, p, f)
  <2>1. 1 \in Nat \ {0} /\ Len(x) >= 1 - 1
    BY <1>1
  <2>. HIDE DEF w
  <2>2. \E f : Adds(w, 1, Len(x), f)
    BY <1>1, <2>1, AddsExists
  <2>3. QED
    BY <1>3, <2>2
<1>6. Counts(x, s, p, Counted(x, s, p))
  BY <1>5, Zenon DEF Counted
<1>7. Adds(w, 1, Len(x), Counted(x, s, p))
  BY <1>4, <1>6
<1>8. Counted(x, s, p)[Len(x)] \in Nat
  <2>1. Len(x) \in 1-1..Len(x) /\ Len(x) <= Len(w)
    BY <1>1, <1>2
  <2>. HIDE DEF w
  <2>2. \A k \in 1-1..Len(x) : Counted(x, s, p)[k] \in Nat
    BY <1>1, <1>2, <1>7, <2>1, AddsAgree
  <2>3. QED
    BY <2>1, <2>2
<1>9. QED
  BY <1>2, <1>7, <1>8

(* One result more.                                                        *)
LEMMA CountedLonger ==
  ASSUME NEW A, NEW x \in Seq(A), NEW r \in A, NEW s, NEW p, Numbered(x, s, p),
         r.scan = s /\ r.complete => r.com[p].n \in Nat
  PROVE  /\ Counted(Append(x, r), s, p)[Len(x) + 1]
              = Counted(x, s, p)[Len(x)] + (IF r.scan = s /\ r.complete THEN r.com[p].n ELSE 0)
         /\ Numbered(Append(x, r), s, p)
<1>. DEFINE y == Append(x, r)
<1>1. /\ Len(x) \in Nat /\ y \in Seq(A) /\ Len(y) = Len(x) + 1 /\ y[Len(x) + 1] = r
      /\ \A i \in 1..Len(x) : y[i] = x[i]
      /\ DOMAIN x = 1..Len(x) /\ DOMAIN y = 1..Len(x) + 1
  OBVIOUS
<1>. HIDE DEF y
<1>2. \A i \in 1..Len(x) : i \in CompleteIn(y, s) <=> i \in CompleteIn(x, s)
  BY <1>1 DEF CompleteIn
<1>3. Len(x) + 1 \in CompleteIn(y, s) <=> r.scan = s /\ r.complete
  BY <1>1 DEF CompleteIn
<1>4. Numbered(y, s, p)
  <2>1. ASSUME NEW i \in 1..Len(y), i \in CompleteIn(y, s) PROVE y[i].com[p].n \in Nat
    <3>1. CASE i \in 1..Len(x)
      BY <1>1, <1>2, <2>1, <3>1 DEF Numbered
    <3>2. CASE i = Len(x) + 1
      BY <1>1, <1>3, <2>1, <3>2
    <3>3. QED
      BY <1>1, <3>1, <3>2
  <2>2. QED
    BY <2>1 DEF Numbered
<1>. DEFINE v == Weights(x, s, p)
            w == Weights(y, s, p)
            f == Counted(x, s, p)
            g == Counted(y, s, p)
<1>5. /\ v \in Seq(Nat) /\ Len(v) = Len(x) /\ Adds(v, 1, Len(x), f)
      /\ w \in Seq(Nat) /\ Len(w) = Len(y) /\ Adds(w, 1, Len(y), g)
  BY <1>1, <1>4, CountsAre
<1>6. /\ \A i \in 1..Len(x) : v[i] = w[i]
      /\ w[Len(x) + 1] = IF r.scan = s /\ r.complete THEN r.com[p].n ELSE 0
  BY <1>1, <1>2, <1>3 DEF Weights
<1>. HIDE DEF v, w, f, g
<1>7. Adds(w, 1, Len(x), f)
  <2>1. f = [i \in 1-1..Len(x) |-> IF i < 1 THEN 0 ELSE f[i - 1] + v[i]]
    BY <1>5 DEF Adds
  <2>2. ASSUME NEW i \in 1-1..Len(x) PROVE f[i] = IF i < 1 THEN 0 ELSE f[i - 1] + w[i]
    BY <1>1, <1>6, <2>1
  <2>3. f = [i \in 1-1..Len(x) |-> f[i]]
    BY <2>1
  <2>4. f = [i \in 1-1..Len(x) |-> IF i < 1 THEN 0 ELSE f[i - 1] + w[i]]
    BY <2>2, <2>3
  <2>5. QED
    BY <2>4 DEF Adds
<1>8. g[Len(x)] = f[Len(x)] /\ f[Len(x)] \in Nat
  <2>1. Len(x) \in 1-1..Len(x) /\ Len(x) <= Len(w) /\ Len(y) \in Nat /\ Len(x) <= Len(y)
    BY <1>1, <1>5
  <2>2. \A k \in 1-1..Len(x) : f[k] = g[k] /\ f[k] \in Nat
    BY <1>1, <1>5, <1>7, <2>1, AddsAgree
  <2>3. QED
    BY <2>1, <2>2
<1>9. g[Len(x) + 1] = g[Len(x)] + w[Len(x) + 1]
  BY <1>1, <1>5 DEF Adds
<1>10. QED
  BY <1>4, <1>6, <1>8, <1>9 DEF y, f, g

(* One part more.                                                          *)
LEMMA CoversLonger ==
  ASSUME NEW A, NEW x \in Seq(A), NEW r \in A, NEW s, NEW p
  PROVE  /\ Cardinality(CoversIn(x, s, p)) \in Nat
         /\ Cardinality(CoversIn(Append(x, r), s, p))
              = Cardinality(CoversIn(x, s, p)) + (IF r.scan = s /\ p \in DOMAIN r.value THEN 1 ELSE 0)
<1>. DEFINE y == Append(x, r)
<1>1. /\ Len(x) \in Nat /\ y[Len(x) + 1] = r
      /\ \A i \in 1..Len(x) : y[i] = x[i]
      /\ DOMAIN x = 1..Len(x) /\ DOMAIN y = 1..Len(x) + 1
  OBVIOUS
<1>. HIDE DEF y
<1>2. IsFiniteSet(CoversIn(x, s, p)) /\ Cardinality(CoversIn(x, s, p)) \in Nat
  <2>1. CoversIn(x, s, p) \subseteq 1..Len(x)
    BY <1>1 DEF CoversIn
  <2>2. IsFiniteSet(1..Len(x))
    BY <1>1, FS_Interval
  <2>3. IsFiniteSet(CoversIn(x, s, p))
    BY <2>1, <2>2, FS_Subset
  <2>4. QED
    BY <2>3, FS_CardinalityType
<1>3. Len(x) + 1 \notin CoversIn(x, s, p)
  BY <1>1 DEF CoversIn
<1>4. CASE r.scan = s /\ p \in DOMAIN r.value
  <2>1. CoversIn(y, s, p) = CoversIn(x, s, p) \cup {Len(x) + 1}
    BY <1>1, <1>4 DEF CoversIn
  <2>2. Cardinality(CoversIn(x, s, p) \cup {Len(x) + 1}) = Cardinality(CoversIn(x, s, p)) + 1
    BY <1>2, <1>3, FS_AddElement
  <2>3. QED
    BY <1>2, <1>4, <2>1, <2>2 DEF y
<1>5. CASE ~(r.scan = s /\ p \in DOMAIN r.value)
  <2>1. CoversIn(y, s, p) = CoversIn(x, s, p)
    BY <1>1, <1>5 DEF CoversIn
  <2>2. QED
    BY <1>2, <1>5, <2>1 DEF y
<1>6. QED
  BY <1>4, <1>5

(* What is kept of a scan and what was sent.                               *)
PartialSums(s) == [Shape[s] -> [sum : (SUBSET Reduce!Centers) \cup {None}, n : Nat]]
ReduceRecord ==
  [scan : Reduce!Scans, com : UNION {PartialSums(s) : s \in Reduce!Scans}, complete : BOOLEAN]

Keeps(s, c) ==
  /\ c \in Reduce!Caches(s) /\ ~Reduce!IsComplete(c)
  /\ \A p \in Shape[s] : c.counts[p] = 0 => c.com[p] = None

ReduceTyped ==
  /\ reducePending \subseteq Parts /\ reduceLog \in Seq(Parts) /\ reduceRepeats \in Nat
  /\ reduceSent \in Seq(ReduceRecord)
  /\ \A i \in 1..Len(reduceSent) : reduceSent[i].com \in PartialSums(reduceSent[i].scan)
  /\ DOMAIN store = Reduce!Scans
  /\ \A s \in Reduce!Scans : store[s] # None => Keeps(s, store[s])

KeptOf(c, p) == IF c = None THEN 0 ELSE c.counts[p]

PartsConserved ==
  \A s \in Reduce!Scans : \A p \in Shape[s] :
    Cardinality(CoversIn(reduceLog, s, p))
      = Counted(reduceSent, s, p)[Len(reduceSent)] + KeptOf(store[s], p)

(* Of each scan, every position is in one part.                            *)
PartsDivide ==
  /\ \A part \in Parts : DOMAIN part.value # {}
  /\ \A s \in Reduce!Scans : \A p \in Shape[s] :
       \E part \in Parts : part.scan = s /\ p \in DOMAIN part.value
  /\ \A part, other \in Parts : \A p \in DOMAIN part.value \cap DOMAIN other.value :
       part.scan = other.scan => part = other

(* While no part comes again: a scan of which parts are on their way was   *)
(* not sent in full, and what is kept is what came; any other was.         *)
Collecting(s) ==
  /\ CompleteIn(reduceSent, s) = {}
  /\ store[s] = None => \A part \in Parts : part.scan = s => part \in reducePending
  /\ store[s] # None =>
       \A part \in Parts : \A p \in DOMAIN part.value :
         part.scan = s =>
           /\ store[s].counts[p] > 0 <=> part \notin reducePending
           /\ part \notin reducePending => store[s].com[p] = part.value[p]

Collected(s) ==
  /\ \E i \in DOMAIN reduceSent :
       /\ CompleteIn(reduceSent, s) = {i}
       /\ \A part \in Parts : \A p \in DOMAIN part.value :
            part.scan = s => reduceSent[i].com[p].sum = part.value[p]
  /\ store[s] # None => store[s].messages = 0

Awaited(s) == \E part \in reducePending : part.scan = s

FirstRound ==
  reduceRepeats = 0 =>
    \A s \in Reduce!Scans : IF Awaited(s) THEN Collecting(s) ELSE Collected(s)

ReduceInv == ReduceTyped /\ PartsConserved /\ (PartsDivide => FirstRound)

LEMMA FreshKept ==
  ASSUME Reduce!ReduceAssumption, NEW s \in Reduce!Scans
  PROVE  /\ Keeps(s, Reduce!Fresh(s)) /\ Reduce!Fresh(s) # None
         /\ \A p \in Shape[s] : Reduce!Fresh(s).counts[p] = 0 /\ Reduce!Fresh(s).com[p] = None
         /\ Reduce!Fresh(s).messages = 0
<1>1. Reduce!Fresh(s) = [com |-> [p \in Shape[s] |-> None], counts |-> [p \in Shape[s] |-> 0],
                         messages |-> 0]
  BY DEF Reduce!Fresh
<1>2. Reduce!Fresh(s) \in Reduce!Caches(s)
  BY <1>1 DEF Reduce!Caches
<1>3. Shape[s] # {} /\ None \notin Reduce!Caches(s)
  BY DEF Reduce!ReduceAssumption
<1>4. ~Reduce!IsComplete(Reduce!Fresh(s))
  BY <1>1, <1>3 DEF Reduce!IsComplete
<1>5. QED
  BY <1>1, <1>2, <1>3, <1>4 DEF Keeps

LEMMA CacheIs ==
  ASSUME Reduce!ReduceAssumption, ReduceTyped, NEW s \in Reduce!Scans
  PROVE  /\ Keeps(s, Reduce!CacheOf(s)) /\ Reduce!CacheOf(s) # None
         /\ \A p \in Shape[s] : Reduce!CacheOf(s).counts[p] = KeptOf(store[s], p)
         /\ store[s] = None =>
              /\ \A p \in Shape[s] : Reduce!CacheOf(s).counts[p] = 0 /\ Reduce!CacheOf(s).com[p] = None
              /\ Reduce!CacheOf(s).messages = 0
         /\ store[s] # None => Reduce!CacheOf(s) = store[s]
<1>1. CASE store[s] = None
  BY <1>1, FreshKept, Zenon DEF Reduce!CacheOf, KeptOf
<1>2. CASE store[s] # None
  BY <1>2, Zenon DEF Reduce!CacheOf, KeptOf, ReduceTyped
<1>3. QED
  BY <1>1, <1>2

(* A part is added to what is kept.                                        *)
LEMMA PartIsAdded ==
  ASSUME Reduce!ReduceAssumption, NEW part \in Parts, NEW c, Keeps(part.scan, c)
  PROVE  LET s == part.scan
             d == Reduce!Added(c, part)
         IN /\ s \in Reduce!Scans /\ DOMAIN part.value \subseteq Shape[s]
            /\ d \in Reduce!Caches(s) /\ d # None
            /\ \A p \in Shape[s] :
                 /\ d.counts[p] = c.counts[p] + (IF p \in DOMAIN part.value THEN 1 ELSE 0)
                 /\ d.counts[p] = 0 => d.com[p] = None
                 /\ p \notin DOMAIN part.value => d.com[p] = c.com[p]
                 /\ p \in DOMAIN part.value /\ c.com[p] = None => d.com[p] = part.value[p]
<1>. DEFINE s == part.scan
            d == Reduce!Added(c, part)
            com == [p \in Shape[s] |-> IF p \in DOMAIN part.value
                      THEN Reduce!Accumulated(c.com[p], part.value[p]) ELSE c.com[p]]
            counts == [p \in Shape[s] |-> IF p \in DOMAIN part.value THEN c.counts[p] + 1 ELSE c.counts[p]]
<1>1. s \in Reduce!Scans /\ DOMAIN part.value \subseteq Shape[s] /\ None \notin Reduce!Caches(s)
  BY DEF Reduce!ReduceAssumption
<1>2. /\ c.com \in [Shape[s] -> (SUBSET Reduce!Centers) \cup {None}] /\ c.counts \in [Shape[s] -> Nat]
      /\ c.messages \in Nat
      /\ \A p \in Shape[s] : c.counts[p] = 0 => c.com[p] = None
  BY DEF Keeps, Reduce!Caches
<1>3. d = [com |-> com, counts |-> counts, messages |-> c.messages + 1]
  BY <1>2 DEF Reduce!Added
<1>4. \A p \in DOMAIN part.value : part.value[p] \in (SUBSET Reduce!Centers) \cup {None}
  BY DEF Reduce!Centers
<1>5. com \in [Shape[s] -> (SUBSET Reduce!Centers) \cup {None}]
  <2>1. ASSUME NEW old \in (SUBSET Reduce!Centers) \cup {None},
               NEW new \in (SUBSET Reduce!Centers) \cup {None}
        PROVE  Reduce!Accumulated(old, new) \in (SUBSET Reduce!Centers) \cup {None}
    BY DEF Reduce!Accumulated
  <2>2. QED
    BY <1>2, <1>4, <2>1
<1>6. counts \in [Shape[s] -> Nat] /\ c.messages + 1 \in Nat
  BY <1>2
<1>7. d.com = com /\ d.counts = counts
  BY <1>3
<1>8. d \in Reduce!Caches(s)
  <2>. HIDE DEF com, counts
  <2>1. QED
    BY <1>3, <1>5, <1>6 DEF Reduce!Caches
<1>9. ASSUME NEW p \in Shape[s]
      PROVE  /\ d.counts[p] = c.counts[p] + (IF p \in DOMAIN part.value THEN 1 ELSE 0)
             /\ d.counts[p] = 0 => d.com[p] = None
             /\ p \notin DOMAIN part.value => d.com[p] = c.com[p]
             /\ p \in DOMAIN part.value /\ c.com[p] = None => d.com[p] = part.value[p]
  <2>1. d.counts[p] = c.counts[p] + (IF p \in DOMAIN part.value THEN 1 ELSE 0)
    BY <1>2, <1>7
  <2>2. p \notin DOMAIN part.value => d.com[p] = c.com[p]
    BY <1>7
  <2>3. p \in DOMAIN part.value /\ c.com[p] = None => d.com[p] = part.value[p]
    BY <1>7 DEF Reduce!Accumulated
  <2>4. c.counts[p] \in Nat
    BY <1>2
  <2>. HIDE DEF d
  <2>5. d.counts[p] = 0 => d.com[p] = None
    BY <1>2, <2>1, <2>2, <2>4
  <2>6. QED
    BY <2>1, <2>2, <2>3, <2>5
<1>10. QED
  BY <1>1, <1>8, <1>9

(* A part that comes, for the first time or again.                         *)
Takes(part) ==
  /\ Reduce!Reduces(part, Reduce!Added(Reduce!CacheOf(part.scan), part))
  /\ reduceLog' = Append(reduceLog, part)

LEMMA TakesIs ==
  ASSUME Reduce!ReduceAssumption, ReduceTyped, NEW part \in Parts, Takes(part)
  PROVE  LET s == part.scan
             c == Reduce!CacheOf(s)
             d == Reduce!Added(c, part)
             r == [scan |-> s, com |-> Reduce!Combined(d), complete |-> Reduce!IsComplete(d)]
         IN /\ s \in Reduce!Scans /\ DOMAIN part.value \subseteq Shape[s]
            /\ d \in Reduce!Caches(s) /\ d # None
            /\ \A p \in Shape[s] :
                 /\ d.counts[p] = c.counts[p] + (IF p \in DOMAIN part.value THEN 1 ELSE 0)
                 /\ d.counts[p] = 0 => d.com[p] = None
                 /\ p \notin DOMAIN part.value => d.com[p] = c.com[p]
                 /\ p \in DOMAIN part.value /\ c.com[p] = None => d.com[p] = part.value[p]
            /\ r \in ReduceRecord /\ r.com \in PartialSums(s)
            /\ \A p \in Shape[s] : r.com[p].n = d.counts[p] /\ r.com[p].sum = d.com[p]
            /\ reduceSent' = Append(reduceSent, r) \/ (reduceSent' = reduceSent /\ ~Reduce!IsComplete(d))
            /\ store' = [store EXCEPT ![s] = IF Reduce!IsComplete(d) THEN None ELSE d]
            /\ reduceLog' = Append(reduceLog, part)
<1>. DEFINE s == part.scan
            c == Reduce!CacheOf(s)
            d == Reduce!Added(c, part)
            r == [scan |-> s, com |-> Reduce!Combined(d), complete |-> Reduce!IsComplete(d)]
<1>1. s \in Reduce!Scans
  BY DEF Reduce!ReduceAssumption
<1>2. Keeps(s, c)
  BY <1>1, CacheIs
<1>3. /\ DOMAIN part.value \subseteq Shape[s]
      /\ d \in Reduce!Caches(s) /\ d # None
      /\ \A p \in Shape[s] :
           /\ d.counts[p] = c.counts[p] + (IF p \in DOMAIN part.value THEN 1 ELSE 0)
           /\ d.counts[p] = 0 => d.com[p] = None
           /\ p \notin DOMAIN part.value => d.com[p] = c.com[p]
           /\ p \in DOMAIN part.value /\ c.com[p] = None => d.com[p] = part.value[p]
  <2>. HIDE DEF c
  <2>1. QED
    BY <1>2, PartIsAdded
<1>4. /\ reduceSent' = IF Reduce!ShouldEmit(d) THEN Append(reduceSent, r) ELSE reduceSent
      /\ store' = [store EXCEPT ![s] = IF Reduce!IsComplete(d) THEN None ELSE d]
      /\ reduceLog' = Append(reduceLog, part)
  BY DEF Takes, Reduce!Reduces
<1>. HIDE DEF d, c
<1>5. /\ d.com \in [Shape[s] -> (SUBSET Reduce!Centers) \cup {None}] /\ d.counts \in [Shape[s] -> Nat]
  BY <1>3 DEF Reduce!Caches
<1>6. r.com = [p \in Shape[s] |-> [sum |-> d.com[p], n |-> d.counts[p]]]
  BY <1>5 DEF Reduce!Combined
<1>7. r.com \in PartialSums(s)
  BY <1>5, <1>6 DEF PartialSums
<1>8. Reduce!IsComplete(d) \in BOOLEAN
  BY DEF Reduce!IsComplete
<1>9. r \in ReduceRecord
  <2>1. r.com \in UNION {PartialSums(z) : z \in Reduce!Scans}
    BY <1>1, <1>7
  <2>2. r = [scan |-> s, com |-> r.com, complete |-> Reduce!IsComplete(d)]
    OBVIOUS
  <2>. HIDE DEF r
  <2>3. QED
    BY <1>1, <1>8, <2>1, <2>2 DEF ReduceRecord
<1>10. reduceSent' = Append(reduceSent, r) \/ (reduceSent' = reduceSent /\ ~Reduce!IsComplete(d))
  BY <1>4 DEF Reduce!ShouldEmit
<1>11. \A p \in Shape[s] : r.com[p].n = d.counts[p] /\ r.com[p].sum = d.com[p]
  BY <1>6
<1>12. QED
  BY <1>1, <1>3, <1>4, <1>7, <1>9, <1>10, <1>11 DEF c, d


LEMMA TakesTyped ==
  ASSUME Reduce!ReduceAssumption, ReduceTyped, NEW part \in Parts, Takes(part)
  PROVE  /\ reduceLog' \in Seq(Parts) /\ reduceSent' \in Seq(ReduceRecord)
         /\ \A i \in 1..Len(reduceSent') : reduceSent'[i].com \in PartialSums(reduceSent'[i].scan)
         /\ DOMAIN store' = Reduce!Scans
         /\ \A s \in Reduce!Scans : store'[s] # None => Keeps(s, store'[s])
<1>. DEFINE s == part.scan
            d == Reduce!Added(Reduce!CacheOf(s), part)
            r == [scan |-> s, com |-> Reduce!Combined(d), complete |-> Reduce!IsComplete(d)]
<1>1. /\ s \in Reduce!Scans /\ d \in Reduce!Caches(s) /\ d # None
      /\ \A p \in Shape[s] : d.counts[p] = 0 => d.com[p] = None
      /\ r \in ReduceRecord /\ r.com \in PartialSums(s)
      /\ reduceSent' = Append(reduceSent, r) \/ reduceSent' = reduceSent
      /\ store' = [store EXCEPT ![s] = IF Reduce!IsComplete(d) THEN None ELSE d]
      /\ reduceLog' = Append(reduceLog, part)
  BY TakesIs
<1>2. r.scan = s
  OBVIOUS
<1>. HIDE DEF d, r
<1>3. /\ reduceLog \in Seq(Parts) /\ reduceSent \in Seq(ReduceRecord)
      /\ \A i \in 1..Len(reduceSent) : reduceSent[i].com \in PartialSums(reduceSent[i].scan)
      /\ DOMAIN store = Reduce!Scans
      /\ \A t \in Reduce!Scans : store[t] # None => Keeps(t, store[t])
  BY DEF ReduceTyped
<1>4. reduceLog' \in Seq(Parts)
  BY <1>1, <1>3
<1>5. /\ reduceSent' \in Seq(ReduceRecord)
      /\ \A i \in 1..Len(reduceSent') : reduceSent'[i].com \in PartialSums(reduceSent'[i].scan)
  <2>1. CASE reduceSent' = reduceSent
    BY <1>3, <2>1
  <2>2. CASE reduceSent' = Append(reduceSent, r)
    <3>1. /\ Len(reduceSent') = Len(reduceSent) + 1 /\ Len(reduceSent) \in Nat
          /\ reduceSent' \in Seq(ReduceRecord)
          /\ reduceSent'[Len(reduceSent) + 1] = r
          /\ \A i \in 1..Len(reduceSent) : reduceSent'[i] = reduceSent[i]
      BY <1>1, <1>3, <2>2
    <3>2. \A i \in 1..Len(reduceSent) : reduceSent'[i].com \in PartialSums(reduceSent'[i].scan)
      BY <1>3, <3>1
    <3>3. \A i \in 1..Len(reduceSent') : i \in 1..Len(reduceSent) \/ i = Len(reduceSent) + 1
      BY <3>1
    <3>4. QED
      BY <1>1, <1>2, <3>1, <3>2, <3>3
  <2>3. QED
    BY <1>1, <2>1, <2>2
<1>6. Keeps(s, d) \/ Reduce!IsComplete(d)
  BY <1>1 DEF Keeps
<1>7. DOMAIN store' = Reduce!Scans /\ \A t \in Reduce!Scans : store'[t] # None => Keeps(t, store'[t])
  BY <1>1, <1>3, <1>6
<1>8. QED
  BY <1>4, <1>5, <1>7

(* The numbers of the complete results are numbers.                        *)
LEMMA ResultsNumbered ==
  ASSUME ReduceTyped, NEW s \in Reduce!Scans, NEW p \in Shape[s]
  PROVE  Numbered(reduceSent, s, p)
<1>1. /\ reduceSent \in Seq(ReduceRecord)
      /\ \A i \in 1..Len(reduceSent) : reduceSent[i].com \in PartialSums(reduceSent[i].scan)
  BY DEF ReduceTyped
<1>2. ASSUME NEW i \in 1..Len(reduceSent), i \in CompleteIn(reduceSent, s)
      PROVE  reduceSent[i].com[p].n \in Nat
  <2>1. reduceSent[i].com \in PartialSums(s)
    BY <1>1, <1>2 DEF CompleteIn
  <2>2. QED
    BY <2>1 DEF PartialSums
<1>3. QED
  BY <1>2 DEF Numbered

LEMMA KeptNumber ==
  ASSUME ReduceTyped, NEW s \in Reduce!Scans, NEW p \in Shape[s]
  PROVE  KeptOf(store[s], p) \in Nat
<1>1. CASE store[s] = None
  BY <1>1 DEF KeptOf
<1>2. CASE store[s] # None
  <2>1. store[s].counts \in [Shape[s] -> Nat]
    BY <1>2 DEF ReduceTyped, Keeps, Reduce!Caches
  <2>2. QED
    BY <1>2, <2>1 DEF KeptOf
<1>3. QED
  BY <1>1, <1>2

LEMMA TakesConserves ==
  ASSUME Reduce!ReduceAssumption, ReduceTyped, PartsConserved, NEW part \in Parts, Takes(part)
  PROVE  PartsConserved'
<1>. DEFINE t == part.scan
            d == Reduce!Added(Reduce!CacheOf(t), part)
            r == [scan |-> t, com |-> Reduce!Combined(d), complete |-> Reduce!IsComplete(d)]
            delta(p) == IF p \in DOMAIN part.value THEN 1 ELSE 0
<1>1. /\ t \in Reduce!Scans /\ d \in Reduce!Caches(t) /\ d # None
      /\ \A p \in Shape[t] : d.counts[p] = Reduce!CacheOf(t).counts[p] + delta(p)
      /\ r \in ReduceRecord /\ r.com \in PartialSums(t)
      /\ \A p \in Shape[t] : r.com[p].n = d.counts[p]
      /\ reduceSent' = Append(reduceSent, r) \/ (reduceSent' = reduceSent /\ ~Reduce!IsComplete(d))
      /\ store' = [store EXCEPT ![t] = IF Reduce!IsComplete(d) THEN None ELSE d]
      /\ reduceLog' = Append(reduceLog, part)
  BY TakesIs
<1>2. \A p \in Shape[t] : Reduce!CacheOf(t).counts[p] = KeptOf(store[t], p)
  BY <1>1, CacheIs
<1>3. r.scan = t /\ r.complete = Reduce!IsComplete(d)
  OBVIOUS
<1>4. DOMAIN store = Reduce!Scans /\ reduceLog \in Seq(Parts) /\ reduceSent \in Seq(ReduceRecord)
  BY DEF ReduceTyped
<1>. HIDE DEF d, r
<1>5. \A p \in Shape[t] : d.counts[p] \in Nat
  BY <1>1 DEF Reduce!Caches
<1>6. ASSUME NEW s \in Reduce!Scans, NEW p \in Shape[s]
      PROVE  Cardinality(CoversIn(reduceLog', s, p))
               = Counted(reduceSent', s, p)[Len(reduceSent')] + KeptOf(store'[s], p)
  <2>. DEFINE more == IF t = s /\ p \in DOMAIN part.value THEN 1 ELSE 0
              counted == Counted(reduceSent, s, p)[Len(reduceSent)]
              full == IF t = s /\ Reduce!IsComplete(d) THEN d.counts[p] ELSE 0
  <2>1. /\ Cardinality(CoversIn(reduceLog, s, p)) \in Nat
        /\ Cardinality(CoversIn(reduceLog', s, p)) = Cardinality(CoversIn(reduceLog, s, p)) + more
    BY <1>1, <1>4, CoversLonger
  <2>2. Numbered(reduceSent, s, p)
    BY ResultsNumbered
  <2>3. counted \in Nat
    BY <1>4, <2>2, CountsAre
  <2>4. Cardinality(CoversIn(reduceLog, s, p)) = counted + KeptOf(store[s], p)
    BY DEF PartsConserved
  <2>5. KeptOf(store[s], p) \in Nat
    BY KeptNumber
  <2>6. Counted(reduceSent', s, p)[Len(reduceSent')] = counted + full
    <3>1. CASE reduceSent' = reduceSent /\ ~Reduce!IsComplete(d)
      BY <2>3, <3>1
    <3>2. CASE reduceSent' = Append(reduceSent, r)
      <4>1. Len(reduceSent') = Len(reduceSent) + 1
        BY <1>1, <1>4, <3>2
      <4>2. r.scan = s /\ r.complete => r.com[p].n \in Nat /\ r.com[p].n = d.counts[p]
        BY <1>1, <1>3, <1>5
      <4>3. Counted(Append(reduceSent, r), s, p)[Len(reduceSent) + 1]
              = counted + (IF r.scan = s /\ r.complete THEN r.com[p].n ELSE 0)
        <5>. HIDE DEF counted
        <5>1. r \in ReduceRecord /\ reduceSent \in Seq(ReduceRecord)
              /\ (r.scan = s /\ r.complete => r.com[p].n \in Nat)
          BY <1>1, <1>4, <4>2
        <5>2. QED
          BY <2>2, <5>1, CountedLonger DEF counted
      <4>4. (IF r.scan = s /\ r.complete THEN r.com[p].n ELSE 0) = full
        BY <1>3, <4>2
      <4>5. QED
        BY <3>2, <4>1, <4>3, <4>4
    <3>3. QED
      BY <1>1, <3>1, <3>2
  <2>7. KeptOf(store'[s], p) + full = KeptOf(store[s], p) + more
    <3>1. CASE s = t
      <4>1. d.counts[p] = KeptOf(store[s], p) + more
        BY <1>1, <1>2, <3>1
      <4>2. d.counts[p] \in Nat
        BY <1>5, <3>1
      <4>3. CASE Reduce!IsComplete(d)
        <5>1. KeptOf(store'[s], p) = 0
          BY <1>1, <1>4, <3>1, <4>3 DEF KeptOf
        <5>2. full = d.counts[p]
          BY <3>1, <4>3
        <5>3. QED
          BY <4>1, <4>2, <5>1, <5>2
      <4>4. CASE ~Reduce!IsComplete(d)
        <5>1. KeptOf(store'[s], p) = d.counts[p]
          BY <1>1, <1>4, <3>1, <4>4 DEF KeptOf
        <5>2. full = 0
          BY <4>4
        <5>3. QED
          BY <4>1, <4>2, <5>1, <5>2
      <4>5. QED
        BY <4>3, <4>4
    <3>2. CASE s # t
      BY <1>1, <1>4, <3>2
    <3>3. QED
      BY <3>1, <3>2
  <2>8. full \in Nat /\ more \in Nat /\ KeptOf(store'[s], p) \in Int
    <3>1. KeptOf(store'[s], p) \in Nat
      <4>1. CASE s = t
        BY <1>1, <1>4, <1>5, <4>1 DEF KeptOf
      <4>2. CASE s # t
        BY <1>1, <1>4, <2>5, <4>2
      <4>3. QED
        BY <4>1, <4>2
    <3>2. full \in Nat
      BY <1>5
    <3>3. QED
      BY <3>1, <3>2
  <2>. HIDE DEF more, counted, full
  <2>9. QED
    BY <2>1, <2>3, <2>4, <2>5, <2>6, <2>7, <2>8
<1>7. QED
  BY <1>6 DEF PartsConserved

(* A result changes the complete results of its own scan only.             *)
LEMMA OthersKept ==
  ASSUME NEW A, NEW x \in Seq(A), NEW r \in A, NEW s
  PROVE  /\ DOMAIN x \subseteq DOMAIN Append(x, r) /\ Len(x) + 1 \in DOMAIN Append(x, r)
         /\ \A i \in DOMAIN x : Append(x, r)[i] = x[i]
         /\ Append(x, r)[Len(x) + 1] = r
         /\ CompleteIn(Append(x, r), s)
              = CompleteIn(x, s) \cup (IF r.scan = s /\ r.complete THEN {Len(x) + 1} ELSE {})
<1>. DEFINE y == Append(x, r)
<1>1. /\ Len(x) \in Nat /\ y[Len(x) + 1] = r
      /\ \A i \in 1..Len(x) : y[i] = x[i]
      /\ DOMAIN x = 1..Len(x) /\ DOMAIN y = 1..Len(x) + 1
  OBVIOUS
<1>. HIDE DEF y
<1>2. /\ \A i \in DOMAIN x : i \in DOMAIN y /\ y[i] = x[i]
      /\ \A i \in DOMAIN y : i \in DOMAIN x \/ i = Len(x) + 1
      /\ Len(x) + 1 \in DOMAIN y
  BY <1>1
<1>3. CompleteIn(y, s) = CompleteIn(x, s) \cup (IF r.scan = s /\ r.complete THEN {Len(x) + 1} ELSE {})
  <2>1. \A i \in DOMAIN x : i \in CompleteIn(y, s) <=> i \in CompleteIn(x, s)
    BY <1>2 DEF CompleteIn
  <2>2. Len(x) + 1 \in CompleteIn(y, s) <=> r.scan = s /\ r.complete
    BY <1>1, <1>2 DEF CompleteIn
  <2>3. CompleteIn(y, s) \subseteq DOMAIN y /\ CompleteIn(x, s) \subseteq DOMAIN x
    BY DEF CompleteIn
  <2>4. QED
    BY <1>2, <2>1, <2>2, <2>3
<1>4. QED
  BY <1>1, <1>2, <1>3 DEF y

(* A part that comes for the first time.                                   *)
LEMMA ReceivesFirst ==
  ASSUME Reduce!ReduceAssumption, ReduceTyped, PartsDivide, FirstRound,
         NEW part \in reducePending, Takes(part), reducePending' = reducePending \ {part},
         reduceRepeats' = reduceRepeats
  PROVE  FirstRound'
<1>1. SUFFICES ASSUME reduceRepeats = 0, NEW s \in Reduce!Scans
               PROVE  IF Awaited(s)' THEN Collecting(s)' ELSE Collected(s)'
  BY DEF FirstRound
<1>2. part \in Parts /\ reducePending \subseteq Parts
  BY DEF ReduceTyped
<1>. DEFINE t == part.scan
            c == Reduce!CacheOf(t)
            d == Reduce!Added(c, part)
            r == [scan |-> t, com |-> Reduce!Combined(d), complete |-> Reduce!IsComplete(d)]
<1>3. /\ t \in Reduce!Scans /\ DOMAIN part.value \subseteq Shape[t]
      /\ d \in Reduce!Caches(t) /\ d # None
      /\ \A p \in Shape[t] :
           /\ d.counts[p] = c.counts[p] + (IF p \in DOMAIN part.value THEN 1 ELSE 0)
           /\ p \notin DOMAIN part.value => d.com[p] = c.com[p]
           /\ p \in DOMAIN part.value /\ c.com[p] = None => d.com[p] = part.value[p]
      /\ r \in ReduceRecord
      /\ \A p \in Shape[t] : r.com[p].sum = d.com[p]
      /\ reduceSent' = Append(reduceSent, r) \/ (reduceSent' = reduceSent /\ ~Reduce!IsComplete(d))
      /\ store' = [store EXCEPT ![t] = IF Reduce!IsComplete(d) THEN None ELSE d]
  BY <1>2, TakesIs
<1>4. r.scan = t /\ r.complete = Reduce!IsComplete(d)
  OBVIOUS
<1>5. /\ Keeps(t, c)
      /\ store[t] = None => \A p \in Shape[t] : c.counts[p] = 0 /\ c.com[p] = None
      /\ store[t] # None => c = store[t]
  BY <1>3, CacheIs
<1>6. DOMAIN store = Reduce!Scans /\ reduceSent \in Seq(ReduceRecord)
  BY DEF ReduceTyped
<1>7. IF Awaited(s) THEN Collecting(s) ELSE Collected(s)
  BY <1>1 DEF FirstRound
<1>. HIDE DEF c, d, r
<1>8. ASSUME NEW z
      PROVE  LET y == Append(reduceSent, r)
             IN /\ DOMAIN reduceSent \subseteq DOMAIN y /\ Len(reduceSent) + 1 \in DOMAIN y
                /\ \A i \in DOMAIN reduceSent : y[i] = reduceSent[i]
                /\ y[Len(reduceSent) + 1] = r
                /\ CompleteIn(y, z) = CompleteIn(reduceSent, z)
                     \cup (IF r.scan = z /\ r.complete THEN {Len(reduceSent) + 1} ELSE {})
  <2>1. r \in ReduceRecord
    BY <1>3
  <2>2. QED
    BY <1>6, <2>1, OthersKept
<1>9. CASE s # t
  <2>1. Awaited(s)' <=> Awaited(s)
    BY <1>9 DEF Awaited
  <2>2. store'[s] = store[s]
    BY <1>3, <1>6, <1>9
  <2>3. /\ CompleteIn(reduceSent', s) = CompleteIn(reduceSent, s)
        /\ \A i \in DOMAIN reduceSent : i \in DOMAIN reduceSent' /\ reduceSent'[i] = reduceSent[i]
    <3>1. CASE reduceSent' = reduceSent
      BY <3>1
    <3>2. CASE reduceSent' = Append(reduceSent, r)
      BY <1>4, <1>9, <1>8, <3>2
    <3>3. QED
      BY <1>3, <3>1, <3>2
  <2>4. \A other \in Parts : other.scan = s => (other \in reducePending' <=> other \in reducePending)
    BY <1>9
  <2>5. CASE Awaited(s)
    <3>1. Collecting(s)'
      BY <1>7, <2>2, <2>3, <2>4, <2>5 DEF Collecting
    <3>2. QED
      BY <2>1, <2>5, <3>1
  <2>6. CASE ~Awaited(s)
    <3>1. PICK i \in DOMAIN reduceSent :
            /\ CompleteIn(reduceSent, s) = {i}
            /\ \A other \in Parts : \A p \in DOMAIN other.value :
                 other.scan = s => reduceSent[i].com[p].sum = other.value[p]
      BY <1>7, <2>6 DEF Collected
    <3>2. store[s] # None => store[s].messages = 0
      BY <1>7, <2>6 DEF Collected
    <3>3. i \in DOMAIN reduceSent' /\ reduceSent'[i] = reduceSent[i]
      BY <2>3
    <3>4. Collected(s)'
      BY <2>2, <2>3, <3>1, <3>2, <3>3 DEF Collected
    <3>5. QED
      BY <2>1, <2>6, <3>4
  <2>7. QED
    BY <2>5, <2>6
<1>10. CASE s = t
  <2>1. Awaited(t)
    BY DEF Awaited
  <2>2. /\ CompleteIn(reduceSent, t) = {}
        /\ store[t] = None => \A other \in Parts : other.scan = t => other \in reducePending
        /\ store[t] # None =>
             \A other \in Parts : \A p \in DOMAIN other.value :
               other.scan = t =>
                 /\ store[t].counts[p] > 0 <=> other \notin reducePending
                 /\ other \notin reducePending => store[t].com[p] = other.value[p]
    BY <1>7, <1>10, <2>1 DEF Collecting
  <2>3. /\ c.counts \in [Shape[t] -> Nat]
        /\ \A p \in Shape[t] : c.counts[p] = 0 => c.com[p] = None
    BY <1>5 DEF Keeps, Reduce!Caches
  <2>4. ASSUME NEW other \in Parts, NEW p \in DOMAIN other.value, other.scan = t
        PROVE  /\ p \in Shape[t]
               /\ d.counts[p] > 0 <=> other \notin reducePending'
               /\ other \notin reducePending' => d.com[p] = other.value[p]
    <3>1. p \in Shape[t]
      BY <2>4 DEF Reduce!ReduceAssumption
    <3>2. /\ c.counts[p] > 0 <=> other \notin reducePending
          /\ other \notin reducePending => c.com[p] = other.value[p]
      <4>1. CASE store[t] = None
        <5>1. c.counts[p] = 0 /\ other \in reducePending
          BY <1>5, <2>2, <2>4, <3>1, <4>1
        <5>2. QED
          BY <5>1
      <4>2. CASE store[t] # None
        BY <1>5, <2>2, <2>4, <4>2
      <4>3. QED
        BY <4>1, <4>2
    <3>3. c.counts[p] \in Nat
      BY <2>3, <3>1
    <3>4. CASE other = part
      <4>1. c.counts[p] = 0
        BY <3>2, <3>3, <3>4
      <4>2. c.com[p] = None
        BY <2>3, <3>1, <4>1
      <4>3. d.counts[p] = 1 /\ d.com[p] = other.value[p]
        BY <1>3, <3>1, <3>4, <4>1, <4>2
      <4>4. QED
        BY <3>1, <3>4, <4>3
    <3>5. CASE other # part
      <4>1. p \notin DOMAIN part.value
        BY <1>2, <2>4, <3>5 DEF PartsDivide
      <4>2. d.counts[p] = c.counts[p] /\ d.com[p] = c.com[p]
        BY <1>3, <3>1, <3>3, <4>1
      <4>3. other \in reducePending' <=> other \in reducePending
        BY <3>5
      <4>4. QED
        BY <3>1, <3>2, <4>2, <4>3
    <3>6. QED
      BY <3>4, <3>5
  <2>5. d.counts \in [Shape[t] -> Nat]
    BY <1>3 DEF Reduce!Caches
  <2>6. Reduce!IsComplete(d) <=> ~Awaited(t)'
    <3>1. ASSUME Reduce!IsComplete(d), NEW other \in reducePending', other.scan = t PROVE FALSE
      <4>1. other \in Parts
        BY <1>2, <3>1
      <4>2. PICK p : p \in DOMAIN other.value
        BY <4>1 DEF PartsDivide
      <4>3. p \in Shape[t] /\ (d.counts[p] > 0 <=> other \notin reducePending')
        BY <2>4, <3>1, <4>1, <4>2
      <4>4. d.counts[p] > 0
        BY <2>5, <3>1, <4>3 DEF Reduce!IsComplete
      <4>5. QED
        BY <3>1, <4>3, <4>4
    <3>2. ASSUME ~Awaited(t)', NEW p \in Shape[t] PROVE d.counts[p] > 0
      <4>1. PICK other \in Parts : other.scan = t /\ p \in DOMAIN other.value
        BY <1>3, <3>2 DEF PartsDivide
      <4>2. other \notin reducePending'
        BY <3>2, <4>1 DEF Awaited
      <4>3. QED
        BY <2>4, <4>1, <4>2
    <3>3. DOMAIN d.counts = Shape[t]
      BY <2>5
    <3>4. QED
      BY <3>1, <3>2, <3>3 DEF Awaited, Reduce!IsComplete
  <2>7. CASE Reduce!IsComplete(d)
    <3>. DEFINE n == Len(reduceSent) + 1
    <3>1. reduceSent' = Append(reduceSent, r)
      BY <1>3, <2>7
    <3>2. n \in DOMAIN reduceSent' /\ reduceSent'[n] = r /\ CompleteIn(reduceSent', t) = {n}
      BY <1>4, <1>8, <2>2, <2>7, <3>1
    <3>. HIDE DEF n
    <3>3. ASSUME NEW other \in Parts, NEW p \in DOMAIN other.value, other.scan = t
          PROVE  r.com[p].sum = other.value[p]
      <4>1. other \notin reducePending'
        BY <2>6, <2>7, <3>3 DEF Awaited
      <4>2. QED
        BY <1>3, <2>4, <3>3, <4>1
    <3>4. store'[t] = None
      BY <1>3, <1>6, <2>7
    <3>5. Collected(t)'
      BY <3>2, <3>3, <3>4 DEF Collected
    <3>6. QED
      BY <1>10, <2>6, <2>7, <3>5
  <2>8. CASE ~Reduce!IsComplete(d)
    <3>1. CompleteIn(reduceSent', t) = {}
      <4>1. CASE reduceSent' = reduceSent
        BY <2>2, <4>1
      <4>2. CASE reduceSent' = Append(reduceSent, r)
        BY <1>4, <1>8, <2>2, <2>8, <4>2
      <4>3. QED
        BY <1>3, <4>1, <4>2
    <3>2. store'[t] = d /\ d # None
      BY <1>3, <1>6, <2>8
    <3>3. Collecting(t)'
      BY <2>4, <3>1, <3>2 DEF Collecting
    <3>4. QED
      BY <1>10, <2>6, <2>8, <3>3
  <2>9. QED
    BY <2>7, <2>8
<1>11. QED
  BY <1>9, <1>10

(* A part of a wrong shape leaves the scan in the store.                   *)
LEMMA RefusesKeeps ==
  ASSUME Reduce!ReduceAssumption, ReduceInv, Reduce!Refuses
  PROVE  ReduceInv'
<1>1. PICK s \in Reduce!Scans : store' = [store EXCEPT ![s] = Reduce!CacheOf(s)]
  BY DEF Reduce!Refuses
<1>2. UNCHANGED <<reducePending, reduceSent, reduceRepeats, reduceLog>>
  BY DEF Reduce!Refuses
<1>3. ReduceTyped /\ PartsConserved
  BY DEF ReduceInv
<1>4. DOMAIN store = Reduce!Scans
  BY <1>3 DEF ReduceTyped
<1>5. /\ Keeps(s, store'[s]) /\ store'[s] # None
      /\ \A p \in Shape[s] : store'[s].counts[p] = KeptOf(store[s], p)
      /\ store[s] = None =>
           (\A p \in Shape[s] : store'[s].counts[p] = 0) /\ store'[s].messages = 0
      /\ store[s] # None => store'[s] = store[s]
  <2>1. store'[s] = Reduce!CacheOf(s)
    BY <1>1, <1>4
  <2>2. QED
    BY <1>3, <2>1, CacheIs
<1>6. DOMAIN store' = Reduce!Scans /\ \A t \in Reduce!Scans \ {s} : store'[t] = store[t]
  BY <1>1, <1>4
<1>7. ReduceTyped'
  BY <1>2, <1>3, <1>5, <1>6 DEF ReduceTyped
<1>8. PartsConserved'
  <2>1. ASSUME NEW t \in Reduce!Scans, NEW p \in Shape[t]
        PROVE  KeptOf(store'[t], p) = KeptOf(store[t], p)
    <3>1. CASE t = s
      BY <1>5, <3>1 DEF KeptOf
    <3>2. CASE t # s
      BY <1>6, <3>2
    <3>3. QED
      BY <3>1, <3>2
  <2>2. QED
    BY <1>2, <1>3, <2>1 DEF PartsConserved
<1>9. ASSUME PartsDivide, FirstRound PROVE FirstRound'
  <2>1. SUFFICES ASSUME reduceRepeats = 0, NEW t \in Reduce!Scans
                 PROVE  IF Awaited(t)' THEN Collecting(t)' ELSE Collected(t)'
    BY <1>2 DEF FirstRound
  <2>2. IF Awaited(t) THEN Collecting(t) ELSE Collected(t)
    BY <1>9, <2>1 DEF FirstRound
  <2>3. Awaited(t)' <=> Awaited(t)
    BY <1>2 DEF Awaited
  <2>4. CASE store'[t] = store[t]
    <3>1. (Collecting(t)' <=> Collecting(t)) /\ (Collected(t)' <=> Collected(t))
      BY <1>2, <2>4 DEF Collecting, Collected
    <3>2. QED
      BY <2>2, <2>3, <3>1
  <2>5. CASE t = s /\ store[s] = None
    <3>1. ASSUME Awaited(t) PROVE Collecting(t)'
      <4>1. /\ CompleteIn(reduceSent, t) = {}
            /\ \A part \in Parts : part.scan = t => part \in reducePending
        BY <2>2, <2>5, <3>1 DEF Collecting
      <4>2. \A part \in Parts : \A p \in DOMAIN part.value : part.scan = t => p \in Shape[t]
        BY DEF Reduce!ReduceAssumption
      <4>3. \A part \in Parts : \A p \in DOMAIN part.value :
              part.scan = t => store'[t].counts[p] = 0
        BY <1>5, <2>5, <4>2
      <4>4. QED
        BY <1>2, <1>5, <2>5, <4>1, <4>3 DEF Collecting
    <3>2. ASSUME ~Awaited(t) PROVE Collected(t)'
      <4>1. \E i \in DOMAIN reduceSent :
              /\ CompleteIn(reduceSent, t) = {i}
              /\ \A part \in Parts : \A p \in DOMAIN part.value :
                   part.scan = t => reduceSent[i].com[p].sum = part.value[p]
        BY <2>2, <3>2 DEF Collected
      <4>2. store'[t].messages = 0
        BY <1>5, <2>5
      <4>3. QED
        BY <1>2, <4>1, <4>2 DEF Collected
    <3>3. QED
      BY <2>3, <3>1, <3>2
  <2>6. QED
    BY <1>5, <1>6, <2>4, <2>5
<1>10. QED
  BY <1>7, <1>8, <1>9 DEF ReduceInv, PartsDivide

LEMMA ReduceInits ==
  ASSUME Reduce!ReduceAssumption, Reduce!Init
  PROVE  ReduceInv
<1>1. /\ reducePending = Parts /\ store = [s \in Reduce!Scans |-> None] /\ reduceSent = <<>>
      /\ reduceRepeats = 0 /\ reduceLog = <<>>
  BY DEF Reduce!Init
<1>2. ReduceTyped
  BY <1>1 DEF ReduceTyped
<1>3. PartsConserved
  <2>1. ASSUME NEW s \in Reduce!Scans, NEW p \in Shape[s]
        PROVE  Cardinality(CoversIn(reduceLog, s, p))
                 = Counted(reduceSent, s, p)[Len(reduceSent)] + KeptOf(store[s], p)
    <3>1. CoversIn(reduceLog, s, p) = {}
      BY <1>1 DEF CoversIn
    <3>2. Cardinality(CoversIn(reduceLog, s, p)) = 0
      BY <3>1, FS_EmptySet
    <3>3. Adds(Weights(reduceSent, s, p), 1, Len(reduceSent), Counted(reduceSent, s, p))
      <4>1. reduceSent \in Seq(ReduceRecord) /\ Numbered(reduceSent, s, p)
        BY <1>1 DEF Numbered
      <4>2. QED
        BY <4>1, CountsAre
    <3>4. Len(reduceSent) = 0 /\ 1 - 1 = 0
      BY <1>1
    <3>5. Counted(reduceSent, s, p)[0] = 0
      BY <3>3, <3>4 DEF Adds
    <3>6. KeptOf(store[s], p) = 0
      BY <1>1 DEF KeptOf
    <3>7. QED
      BY <3>2, <3>4, <3>5, <3>6
  <2>2. QED
    BY <2>1 DEF PartsConserved
<1>4. ASSUME PartsDivide PROVE FirstRound
  <2>1. ASSUME NEW s \in Reduce!Scans PROVE Awaited(s) /\ Collecting(s)
    <3>1. PICK p : p \in Shape[s]
      BY <2>1 DEF Reduce!ReduceAssumption
    <3>2. PICK part \in Parts : part.scan = s
      BY <1>4, <3>1 DEF PartsDivide
    <3>3. Awaited(s)
      BY <1>1, <3>2 DEF Awaited
    <3>4. CompleteIn(reduceSent, s) = {}
      BY <1>1 DEF CompleteIn
    <3>5. Collecting(s)
      BY <1>1, <3>4 DEF Collecting
    <3>6. QED
      BY <3>3, <3>5
  <2>2. QED
    BY <2>1 DEF FirstRound
<1>5. QED
  BY <1>2, <1>3, <1>4 DEF ReduceInv

LEMMA ReduceStep ==
  ASSUME Reduce!ReduceAssumption, ReduceInv, [Reduce!Next]_(Reduce!vars)
  PROVE  ReduceInv'
<1>1. ReduceTyped /\ PartsConserved /\ (PartsDivide => FirstRound)
  BY DEF ReduceInv
<1>2. CASE Reduce!Receives
  <2>1. PICK part \in reducePending : Takes(part) /\ reducePending' = reducePending \ {part}
    BY <1>2 DEF Reduce!Receives, Takes
  <2>2. reduceRepeats' = reduceRepeats
    BY <1>2 DEF Reduce!Receives
  <2>3. part \in Parts
    BY <1>1 DEF ReduceTyped
  <2>4. /\ reduceLog' \in Seq(Parts) /\ reduceSent' \in Seq(ReduceRecord)
        /\ \A i \in 1..Len(reduceSent') : reduceSent'[i].com \in PartialSums(reduceSent'[i].scan)
        /\ DOMAIN store' = Reduce!Scans
        /\ \A s \in Reduce!Scans : store'[s] # None => Keeps(s, store'[s])
    BY <1>1, <2>1, <2>3, TakesTyped
  <2>5. ReduceTyped'
    BY <1>1, <2>1, <2>2, <2>4 DEF ReduceTyped
  <2>6. PartsConserved'
    BY <1>1, <2>1, <2>3, TakesConserves
  <2>7. PartsDivide => FirstRound'
    BY <1>1, <2>1, <2>2, ReceivesFirst
  <2>8. QED
    BY <2>5, <2>6, <2>7 DEF ReduceInv, PartsDivide
<1>3. CASE Reduce!Repeats
  <2>1. PICK part \in Parts : Takes(part)
    BY <1>3 DEF Reduce!Repeats, Takes
  <2>2. reduceRepeats' = reduceRepeats + 1 /\ reducePending' = reducePending
    BY <1>3 DEF Reduce!Repeats
  <2>3. /\ reduceLog' \in Seq(Parts) /\ reduceSent' \in Seq(ReduceRecord)
        /\ \A i \in 1..Len(reduceSent') : reduceSent'[i].com \in PartialSums(reduceSent'[i].scan)
        /\ DOMAIN store' = Reduce!Scans
        /\ \A s \in Reduce!Scans : store'[s] # None => Keeps(s, store'[s])
    BY <1>1, <2>1, TakesTyped
  <2>4. reduceRepeats \in Nat /\ reducePending \subseteq Parts
    BY <1>1 DEF ReduceTyped
  <2>5. ReduceTyped'
    BY <2>2, <2>3, <2>4 DEF ReduceTyped
  <2>6. PartsConserved'
    BY <1>1, <2>1, TakesConserves
  <2>7. FirstRound'
    BY <2>2, <2>4 DEF FirstRound
  <2>8. QED
    BY <2>5, <2>6, <2>7 DEF ReduceInv
<1>4. CASE Reduce!Refuses
  BY <1>4, RefusesKeeps
<1>5. CASE UNCHANGED Reduce!vars
  BY <1>1, <1>5 DEF Reduce!vars, ReduceInv, ReduceTyped, PartsConserved, FirstRound, Awaited,
    Collecting, Collected, PartsDivide
<1>6. QED
  BY <1>2, <1>3, <1>4, <1>5 DEF Reduce!Next

LEMMA ReduceSays ==
  ASSUME Reduce!ReduceAssumption, ReduceInv
  PROVE  /\ Reduce!Conserved /\ Reduce!ReduceTypeOK
         /\ PartsDivide => Reduce!SentAndForgotten
<1>1. ReduceTyped /\ PartsConserved /\ (PartsDivide => FirstRound)
  BY DEF ReduceInv
<1>2. Reduce!Conserved
  BY <1>1, Zenon DEF PartsConserved, Reduce!Conserved, Counted, Counts, CompleteIn, CoversIn,
    Reduce!Complete, Reduce!Covers, KeptOf, Reduce!Cardinality, Cardinality
<1>3. Reduce!ReduceTypeOK
  <2>1. ASSUME NEW s \in Reduce!Scans, store[s] # None
        PROVE  /\ ~Reduce!IsComplete(store[s]) /\ DOMAIN store[s].com = Shape[s]
               /\ \A p \in Shape[s] : store[s].counts[p] = 0 => store[s].com[p] = None
    <3>1. Keeps(s, store[s])
      BY <1>1, <2>1 DEF ReduceTyped
    <3>2. DOMAIN store[s].com = Shape[s]
      BY <3>1 DEF Keeps, Reduce!Caches
    <3>3. QED
      BY <3>1, <3>2 DEF Keeps
  <2>2. QED
    BY <1>1, <2>1 DEF ReduceTyped, Reduce!ReduceTypeOK
<1>4. ASSUME PartsDivide, reducePending = {}, reduceRepeats = 0, NEW s \in Reduce!Scans
      PROVE  /\ \E i \in DOMAIN reduceSent :
                  /\ Reduce!Complete(s) = {i}
                  /\ \A part \in Parts, p \in Shape[s] :
                       part.scan = s /\ p \in DOMAIN part.value /\ part.value[p] # None
                         => part.value[p] \subseteq reduceSent[i].com[p].sum
             /\ store[s] # None => store[s].messages = 0
  <2>1. Collected(s)
    BY <1>1, <1>4 DEF FirstRound, Awaited
  <2>2. Reduce!Complete(s) = CompleteIn(reduceSent, s)
    BY Zenon DEF Reduce!Complete, CompleteIn
  <2>3. PICK i \in DOMAIN reduceSent :
          /\ CompleteIn(reduceSent, s) = {i}
          /\ \A part \in Parts : \A p \in DOMAIN part.value :
               part.scan = s => reduceSent[i].com[p].sum = part.value[p]
    BY <2>1 DEF Collected
  <2>4. store[s] # None => store[s].messages = 0
    BY <2>1 DEF Collected
  <2>5. QED
    BY <2>2, <2>3, <2>4
<1>5. PartsDivide => Reduce!SentAndForgotten
  BY <1>4 DEF Reduce!SentAndForgotten
<1>6. QED
  BY <1>2, <1>3, <1>5

(* Each part that comes counts once, in a complete result or in what is    *)
(* kept of its scan, whatever comes again or is of a wrong shape; and when *)
(* the parts divide the scans among them and each came once, each scan was *)
(* sent in full once, with all its values, and nothing of it is kept.      *)
THEOREM PartsAreReduced ==
  ASSUME Reduce!ReduceAssumption
  PROVE  Reduce!Spec =>
           [](/\ Reduce!Conserved /\ Reduce!ReduceTypeOK
              /\ PartsDivide => Reduce!SentAndForgotten)
<1>1. Reduce!Init => ReduceInv
  BY ReduceInits
<1>2. ReduceInv /\ [Reduce!Next]_(Reduce!vars) => ReduceInv'
  BY ReduceStep
<1>3. ReduceInv => /\ Reduce!Conserved /\ Reduce!ReduceTypeOK
                   /\ PartsDivide => Reduce!SentAndForgotten
  BY ReduceSays
<1>4. QED
  BY <1>1, <1>2, <1>3, PTL DEF Reduce!Spec
================================================================================
