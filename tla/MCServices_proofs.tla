-------------------------- MODULE MCServices_proofs --------------------------
(***************************************************************************)
(* The properties of the services that TLC checks in MCServices, from what *)
(* Agent_proofs, Services_proofs and Revisions_proofs prove of each service*)
(* for all values of its constants.  A lemma "...Same" says that a service *)
(* as it is instantiated there is the one proved about with these          *)
(* constants; it is shown by expanding both.                               *)
(***************************************************************************)
EXTENDS MCServices, TLAPS

Proved == INSTANCE Services_proofs WITH
  Ids <- Pair \cup {"root", "member"}, Root <- "root", Member <- "member",
  Names <- {"root", "member", "guest_external"}, RootName <- "root",
  MemberName <- "member", ExternalName <- "guest_external",
  Pipelines <- {"hello", "p"}, Hello <- "hello", AccountRequests <- Requests,
  Kinds <- {"create", "rename", "leave", "remove", "pipeline", "external"},
  MaxAppStarts <- 1,
  JobRequests <- {"a", "bad"}, Invalid <- {"bad"}, MaxTasks <- 4,
  MaxApiErrors <- 2, MaxSlow <- 2, MaxLosses <- 1,
  Upstreams <- {1, 2}, MaxStarts <- 3, MayMoveEarly <- TRUE,
  MayTimeOut <- TRUE,
  Images <- Pair, Workers <- {"w"}, CatalogueRequests <- {"r1", "r2"},
  MaxVersion <- 1, MaxFiles <- 1, MaxErrors <- 1,
  Replicas <- {"i1", "i2"}, MaxUpdates <- 3, InvalidUpdates <- {2},
  MaxDeaths <- 0, MaxBreaks <- 1, MaxRepeats <- 1,
  Callers <- {"caller"}, Impatient <- {"loop", "caller"}, MaxValue <- 2,
  MaxOutages <- 2, MaxRefreshes <- 1, MaxLostReplies <- 1, MaxLoopUpdates <- 1,
  ATTEMPTS <- 2, MayStop <- TRUE, MayEnd <- FALSE,
  Triggers <- {"t1", "t2", "t3"}, Drains <- {"t2"}, Unknown <- {"t3"},
  HasInputs <- BOOLEAN, IsAsync <- FALSE, MaxRetries <- 3, MayFail <- TRUE

ProvedChanges == INSTANCE Services_proofs WITH
  Ids <- Pair \cup {"root", "member"}, Root <- "root", Member <- "member",
  Names <- {"root", "member", "guest_external"}, RootName <- "root",
  MemberName <- "member", ExternalName <- "guest_external",
  Pipelines <- {"hello", "p"}, Hello <- "hello", AccountRequests <- Requests,
  Kinds <- {"rename", "update", "remove"},
  MaxAppStarts <- 0,
  JobRequests <- {"a", "bad"}, Invalid <- {"bad"}, MaxTasks <- 4,
  MaxApiErrors <- 2, MaxSlow <- 2, MaxLosses <- 1,
  Upstreams <- {1, 2}, MaxStarts <- 3, MayMoveEarly <- TRUE,
  MayTimeOut <- TRUE,
  Images <- Pair, Workers <- {"w"}, CatalogueRequests <- {"r1", "r2"},
  MaxVersion <- 1, MaxFiles <- 1, MaxErrors <- 1,
  Replicas <- {"i1", "i2"}, MaxUpdates <- 3, InvalidUpdates <- {2},
  MaxDeaths <- 0, MaxBreaks <- 1, MaxRepeats <- 1,
  Callers <- {"caller"}, Impatient <- {"loop", "caller"}, MaxValue <- 2,
  MaxOutages <- 2, MaxRefreshes <- 1, MaxLostReplies <- 1, MaxLoopUpdates <- 1,
  ATTEMPTS <- 2, MayStop <- TRUE, MayEnd <- FALSE,
  Triggers <- {"t1", "t2"}, Drains <- {"t2"}, Unknown <- {},
  HasInputs <- BOOLEAN, IsAsync <- TRUE, MaxRetries <- 2, MayFail <- TRUE


-----------------------------------------------------------------------------
(* What runs in MCServices is what is proved about.                        *)
LEMMA PeopleSame ==
  /\ People!Init <=> Proved!People!Init
  /\ People!Next <=> Proved!People!Next
  /\ People!AccountsAssumption <=> Proved!People!AccountsAssumption
  /\ People!OwnersExist <=> Proved!People!OwnersExist
  /\ People!NamesApart <=> Proved!People!NamesApart
  /\ People!ChangesAsAsked <=> Proved!People!ChangesAsAsked
<1>1. People!Init <=> Proved!People!Init
  BY DEF People!Fields, People!Init, People!NewRequest, People!NoChange,
         People!User, Proved!People!Fields, Proved!People!Init,
         Proved!People!NewRequest, Proved!People!NoChange, Proved!People!User
<1>2. People!Next <=> Proved!People!Next
  BY Zenon DEF People!AsksOf, People!Authenticates, People!Changed,
         People!Changes, People!ChecksCreate, People!ChecksDelete,
         People!ChecksUpdate, People!CreatesPipeline, People!Deletes,
         People!ExternalLogin, People!Fields, People!Goes, People!Inserts,
         People!Is, People!NewRequest, People!Next, People!NoChange,
         People!Present, People!Serves, People!Starts, People!Taken,
         People!TakenByOther, People!Updates, People!User, People!Cardinality,
         Proved!People!AsksOf, Proved!People!Authenticates,
         Proved!People!Changed, Proved!People!Changes,
         Proved!People!ChecksCreate, Proved!People!ChecksDelete,
         Proved!People!ChecksUpdate, Proved!People!CreatesPipeline,
         Proved!People!Deletes, Proved!People!ExternalLogin,
         Proved!People!Fields, Proved!People!Goes, Proved!People!Inserts,
         Proved!People!Is, Proved!People!NewRequest, Proved!People!Next,
         Proved!People!NoChange, Proved!People!Present, Proved!People!Serves,
         Proved!People!Starts, Proved!People!Taken,
         Proved!People!TakenByOther, Proved!People!Updates,
         Proved!People!User, Proved!People!Cardinality
<1>3. People!AccountsAssumption <=> Proved!People!AccountsAssumption
  BY DEF People!AccountsAssumption, Proved!People!AccountsAssumption
<1>4. People!OwnersExist <=> Proved!People!OwnersExist
  BY DEF People!OwnersExist, People!Present, Proved!People!OwnersExist,
         Proved!People!Present
<1>5. People!NamesApart <=> Proved!People!NamesApart
  BY DEF People!NamesApart, People!Present, Proved!People!NamesApart,
         Proved!People!Present
<1>6. People!ChangesAsAsked <=> Proved!People!ChangesAsAsked
  BY DEF People!ChangesAsAsked, People!Fields, Proved!People!ChangesAsAsked,
         Proved!People!Fields
<1>7. QED
  BY <1>1, <1>2, <1>3, <1>4, <1>5, <1>6

LEMMA ChangesSame ==
  /\ Changes!Init <=> ProvedChanges!People!Init
  /\ Changes!Next <=> ProvedChanges!People!Next
  /\ Changes!AccountsAssumption <=> ProvedChanges!People!AccountsAssumption
  /\ People!OwnersExist <=> ProvedChanges!People!OwnersExist
  /\ People!NamesApart <=> ProvedChanges!People!NamesApart
  /\ People!ChangesAsAsked <=> ProvedChanges!People!ChangesAsAsked
<1>1. Changes!Init <=> ProvedChanges!People!Init
  BY DEF Changes!Fields, Changes!Init, Changes!NewRequest, Changes!NoChange,
         Changes!User, ProvedChanges!People!Fields, ProvedChanges!People!Init,
         ProvedChanges!People!NewRequest, ProvedChanges!People!NoChange,
         ProvedChanges!People!User
<1>2. Changes!Next <=> ProvedChanges!People!Next
  BY Zenon DEF Changes!AsksOf, Changes!Authenticates, Changes!Changed,
         Changes!Changes, Changes!ChecksCreate, Changes!ChecksDelete,
         Changes!ChecksUpdate, Changes!CreatesPipeline, Changes!Deletes,
         Changes!ExternalLogin, Changes!Fields, Changes!Goes, Changes!Inserts,
         Changes!Is, Changes!NewRequest, Changes!Next, Changes!NoChange,
         Changes!Present, Changes!Serves, Changes!Starts, Changes!Taken,
         Changes!TakenByOther, Changes!Updates, Changes!User,
         Changes!Cardinality, ProvedChanges!People!AsksOf,
         ProvedChanges!People!Authenticates, ProvedChanges!People!Changed,
         ProvedChanges!People!Changes, ProvedChanges!People!ChecksCreate,
         ProvedChanges!People!ChecksDelete, ProvedChanges!People!ChecksUpdate,
         ProvedChanges!People!CreatesPipeline, ProvedChanges!People!Deletes,
         ProvedChanges!People!ExternalLogin, ProvedChanges!People!Fields,
         ProvedChanges!People!Goes, ProvedChanges!People!Inserts,
         ProvedChanges!People!Is, ProvedChanges!People!NewRequest,
         ProvedChanges!People!Next, ProvedChanges!People!NoChange,
         ProvedChanges!People!Present, ProvedChanges!People!Serves,
         ProvedChanges!People!Starts, ProvedChanges!People!Taken,
         ProvedChanges!People!TakenByOther, ProvedChanges!People!Updates,
         ProvedChanges!People!User, ProvedChanges!People!Cardinality
<1>3. Changes!AccountsAssumption <=> ProvedChanges!People!AccountsAssumption
  BY DEF Changes!AccountsAssumption, ProvedChanges!People!AccountsAssumption
<1>4. People!OwnersExist <=> ProvedChanges!People!OwnersExist
  BY DEF People!OwnersExist, People!Present, ProvedChanges!People!OwnersExist,
         ProvedChanges!People!Present
<1>5. People!NamesApart <=> ProvedChanges!People!NamesApart
  BY DEF People!NamesApart, People!Present, ProvedChanges!People!NamesApart,
         ProvedChanges!People!Present
<1>6. People!ChangesAsAsked <=> ProvedChanges!People!ChangesAsAsked
  BY DEF People!ChangesAsAsked, People!Fields,
         ProvedChanges!People!ChangesAsAsked, ProvedChanges!People!Fields
<1>7. QED
  BY <1>1, <1>2, <1>3, <1>4, <1>5, <1>6

LEMMA JobsSame ==
  /\ Jobs!Init <=> Proved!Jobs!Init
  /\ Jobs!Next <=> Proved!Jobs!Next
  /\ Jobs!LauncherAssumption <=> Proved!Jobs!LauncherAssumption
  /\ Jobs!OneJobEach <=> Proved!Jobs!OneJobEach
  /\ Jobs!ForgottenForAReason <=> Proved!Jobs!ForgottenForAReason
<1>1. Jobs!Init <=> Proved!Jobs!Init
  BY DEF Jobs!Init, Jobs!Tasks, Proved!Jobs!Init, Proved!Jobs!Tasks
<1>2. Jobs!Next <=> Proved!Jobs!Next
  BY DEF Jobs!Answers, Jobs!ApiFails, Jobs!Begins, Jobs!CreatesConsumer,
         Jobs!Delivers, Jobs!GivesUp, Jobs!GoesTo, Jobs!JobChanges,
         Jobs!LosesConsumer, Jobs!Missed, Jobs!Monitors, Jobs!Next,
         Jobs!Prepares, Jobs!Proceeds, Jobs!Publishes, Jobs!Redelivers,
         Jobs!ReportsProgress, Jobs!Submits, Jobs!Tasks, Jobs!TasksOf,
         Jobs!Works, Jobs!bounded, Proved!Jobs!Answers, Proved!Jobs!ApiFails,
         Proved!Jobs!Begins, Proved!Jobs!CreatesConsumer,
         Proved!Jobs!Delivers, Proved!Jobs!GivesUp, Proved!Jobs!GoesTo,
         Proved!Jobs!JobChanges, Proved!Jobs!LosesConsumer,
         Proved!Jobs!Missed, Proved!Jobs!Monitors, Proved!Jobs!Next,
         Proved!Jobs!Prepares, Proved!Jobs!Proceeds, Proved!Jobs!Publishes,
         Proved!Jobs!Redelivers, Proved!Jobs!ReportsProgress,
         Proved!Jobs!Submits, Proved!Jobs!Tasks, Proved!Jobs!TasksOf,
         Proved!Jobs!Works, Proved!Jobs!bounded
<1>3. Jobs!LauncherAssumption <=> Proved!Jobs!LauncherAssumption
  BY DEF Jobs!LauncherAssumption, Proved!Jobs!LauncherAssumption
<1>4. Jobs!OneJobEach <=> Proved!Jobs!OneJobEach
  BY Zenon DEF Jobs!JobsOf, Jobs!OneJobEach, Jobs!Tasks, Jobs!TasksOf,
         Jobs!Cardinality, Proved!Jobs!JobsOf, Proved!Jobs!OneJobEach,
         Proved!Jobs!Tasks, Proved!Jobs!TasksOf, Proved!Jobs!Cardinality
<1>5. Jobs!ForgottenForAReason <=> Proved!Jobs!ForgottenForAReason
  BY DEF Jobs!ForgottenForAReason, Jobs!JobsOf, Jobs!Tasks, Jobs!TasksOf,
         Proved!Jobs!ForgottenForAReason, Proved!Jobs!JobsOf,
         Proved!Jobs!Tasks, Proved!Jobs!TasksOf
<1>6. QED
  BY <1>1, <1>2, <1>3, <1>4, <1>5

LEMMA SocketsSame ==
  /\ Sockets!Init <=> Proved!Sockets!Init
  /\ Sockets!Next <=> Proved!Sockets!Next
  /\ Sockets!MessengerAssumption <=> Proved!Sockets!MessengerAssumption
  /\ Sockets!OneAddressEach <=> Proved!Sockets!OneAddressEach
<1>1. Sockets!Init <=> Proved!Sockets!Init
  BY DEF Sockets!Addresses, Sockets!Init, Sockets!NoUpdate, Sockets!Unknown,
         Proved!Sockets!Addresses, Proved!Sockets!Init, Proved!Sockets!NoUpdate, Proved!Sockets!Unknown
<1>2. Sockets!Next <=> Proved!Sockets!Next
  BY DEF Sockets!Addresses, Proved!Sockets!Addresses, Sockets!Disconnected, Sockets!Ends, Sockets!HandleTimeout,
         Sockets!HandleUpdate, Sockets!Handles, Sockets!Known, Sockets!Next,
         Sockets!One, Sockets!NoUpdate, Sockets!Put, Sockets!Reconnect, Sockets!Removed,
         Sockets!Republishes, Sockets!SetupInput, Sockets!SetupOutputs,
         Sockets!StartTimesOut, Sockets!Steps, Sockets!Stop, Sockets!Unknown,
         Sockets!Watch, Sockets!keyVars, Sockets!socketVars,
         Sockets!watchVars, Proved!Sockets!Disconnected, Proved!Sockets!Ends,
         Proved!Sockets!HandleTimeout, Proved!Sockets!HandleUpdate,
         Proved!Sockets!Handles, Proved!Sockets!Known, Proved!Sockets!Next,
         Proved!Sockets!One, Proved!Sockets!NoUpdate, Proved!Sockets!Put,
         Proved!Sockets!Reconnect, Proved!Sockets!Removed,
         Proved!Sockets!Republishes, Proved!Sockets!SetupInput,
         Proved!Sockets!SetupOutputs, Proved!Sockets!StartTimesOut,
         Proved!Sockets!Steps, Proved!Sockets!Stop, Proved!Sockets!Unknown,
         Proved!Sockets!Watch, Proved!Sockets!keyVars,
         Proved!Sockets!socketVars, Proved!Sockets!watchVars
<1>3. Sockets!MessengerAssumption <=> Proved!Sockets!MessengerAssumption
  BY DEF Sockets!MessengerAssumption, Proved!Sockets!MessengerAssumption
<1>4. Sockets!OneAddressEach <=> Proved!Sockets!OneAddressEach
  BY DEF Sockets!Addresses, Sockets!OneAddressEach, Proved!Sockets!Addresses,
         Proved!Sockets!OneAddressEach
<1>5. QED
  BY <1>1, <1>2, <1>3, <1>4

LEMMA CatalogueSame ==
  /\ Catalogue!Init <=> Proved!Catalogue!Init
  /\ Catalogue!Next <=> Proved!Catalogue!Next
  /\ Catalogue!RefreshIsFresh <=> Proved!Catalogue!RefreshIsFresh
<1>1. Catalogue!Init <=> Proved!Catalogue!Init
  BY DEF Catalogue!Idle, Catalogue!Init, Catalogue!Nothing,
         Proved!Catalogue!Idle, Proved!Catalogue!Init,
         Proved!Catalogue!Nothing
<1>2. Catalogue!Next <=> Proved!Catalogue!Next
  BY DEF Catalogue!Answered, Catalogue!Asks, Catalogue!Entry,
         Catalogue!Fetches, Catalogue!Idle, Catalogue!Lists, Catalogue!Merged,
         Catalogue!Missing, Catalogue!Next, Catalogue!Nothing,
         Catalogue!Publishes, Catalogue!Raises, Catalogue!Skips,
         Catalogue!Stores, Proved!Catalogue!Answered, Proved!Catalogue!Asks,
         Proved!Catalogue!Entry, Proved!Catalogue!Fetches,
         Proved!Catalogue!Idle, Proved!Catalogue!Lists,
         Proved!Catalogue!Merged, Proved!Catalogue!Missing,
         Proved!Catalogue!Next, Proved!Catalogue!Nothing,
         Proved!Catalogue!Publishes, Proved!Catalogue!Raises,
         Proved!Catalogue!Skips, Proved!Catalogue!Stores
<1>3. Catalogue!RefreshIsFresh <=> Proved!Catalogue!RefreshIsFresh
  BY DEF Catalogue!AnsweredRefreshes, Catalogue!Entry,
         Catalogue!RefreshIsFresh, Proved!Catalogue!AnsweredRefreshes,
         Proved!Catalogue!Entry, Proved!Catalogue!RefreshIsFresh
<1>4. QED
  BY <1>1, <1>2, <1>3

LEMMA ParamsSame ==
  /\ Params!Init <=> Proved!Params!Init
  /\ Params!Next <=> Proved!Params!Next
  /\ Params!ParametersAssumption <=> Proved!Params!ParametersAssumption
  /\ Params!HeldNotOlder <=> Proved!Params!HeldNotOlder
<1>1. Params!Init <=> Proved!Params!Init
  BY DEF Params!Init, Proved!Params!Init
<1>2. Params!Next <=> Proved!Params!Next
  BY DEF Params!Becomes, Params!CreateConsumer, Params!Deaf, Params!Dies,
         Params!Handle, Params!HandleParameterUpdate,
         Params!InitializeParameters, Params!Kept, Params!LosesConsumer,
         Params!Next, Params!PublishAck, Params!Redeliver, Params!Spend,
         Params!UpdateParameter, Params!Works, Params!consumerVars,
         Proved!Params!Becomes, Proved!Params!CreateConsumer,
         Proved!Params!Deaf, Proved!Params!Dies, Proved!Params!Handle,
         Proved!Params!HandleParameterUpdate,
         Proved!Params!InitializeParameters, Proved!Params!Kept,
         Proved!Params!LosesConsumer, Proved!Params!Next,
         Proved!Params!PublishAck, Proved!Params!Redeliver,
         Proved!Params!Spend, Proved!Params!UpdateParameter,
         Proved!Params!Works, Proved!Params!consumerVars
<1>3. Params!ParametersAssumption <=> Proved!Params!ParametersAssumption
  BY DEF Params!ParametersAssumption, Proved!Params!ParametersAssumption
<1>4. Params!HeldNotOlder <=> Proved!Params!HeldNotOlder
  BY DEF Params!HeldNotOlder, Proved!Params!HeldNotOlder
<1>5. QED
  BY <1>1, <1>2, <1>3, <1>4

LEMMA LoopSame ==
  /\ Loop!Init <=> Proved!Keys!Init
  /\ Loop!Next <=> Proved!Keys!Next
  /\ Loop!LoopAssumption <=> Proved!Keys!LoopAssumption
  /\ Loop!CleanAfterStop <=> Proved!Keys!CleanAfterStop
  /\ Loop!NotOlder <=> Proved!Keys!NotOlder
<1>1. Loop!Init <=> Proved!Keys!Init
  BY DEF Loop!Init, Loop!Loop, Loop!Stopper, Loop!Tasks, Proved!Keys!Init,
         Proved!Keys!Loop, Proved!Keys!Stopper, Proved!Keys!Tasks
<1>2. Loop!Next <=> Proved!Keys!Next
  BY DEF Loop!Apply, Loop!Breaks, Loop!Changes, Loop!Delete, Loop!Deletes,
         Loop!DeletesAgain, Loop!Expires, Loop!Forgotten, Loop!Free,
         Loop!GivesUp, Loop!Goes, Loop!Handle, Loop!Interval, Loop!Loop,
         Loop!LoopEnds, Loop!Loses, Loop!LosesReply, Loop!Mends, Loop!Next,
         Loop!Over, Loop!Put, Loop!Reconnects, Loop!RefreshConnection,
         Loop!Returned, Loop!Serves, Loop!Shutdown, Loop!Spend, Loop!Stop,
         Loop!StopTimesOut, Loop!Stopper, Loop!StopsDeleting, Loop!Tasks,
         Loop!TimesOut, Loop!UpdateNow, Loop!Updates, Loop!localVars,
         Loop!vars, Proved!Keys!Apply, Proved!Keys!Breaks,
         Proved!Keys!Changes, Proved!Keys!Delete, Proved!Keys!Deletes,
         Proved!Keys!DeletesAgain, Proved!Keys!Expires, Proved!Keys!Forgotten,
         Proved!Keys!Free, Proved!Keys!GivesUp, Proved!Keys!Goes,
         Proved!Keys!Handle, Proved!Keys!Interval, Proved!Keys!Loop,
         Proved!Keys!LoopEnds, Proved!Keys!Loses, Proved!Keys!LosesReply,
         Proved!Keys!Mends, Proved!Keys!Next, Proved!Keys!Over,
         Proved!Keys!Put, Proved!Keys!Reconnects,
         Proved!Keys!RefreshConnection, Proved!Keys!Returned,
         Proved!Keys!Serves, Proved!Keys!Shutdown, Proved!Keys!Spend,
         Proved!Keys!Stop, Proved!Keys!StopTimesOut, Proved!Keys!Stopper,
         Proved!Keys!StopsDeleting, Proved!Keys!Tasks, Proved!Keys!TimesOut,
         Proved!Keys!UpdateNow, Proved!Keys!Updates, Proved!Keys!localVars,
         Proved!Keys!vars
<1>3. Loop!LoopAssumption <=> Proved!Keys!LoopAssumption
  BY DEF Loop!Loop, Loop!LoopAssumption, Loop!Stopper, Proved!Keys!Loop,
         Proved!Keys!LoopAssumption, Proved!Keys!Stopper
<1>4. Loop!CleanAfterStop <=> Proved!Keys!CleanAfterStop
  BY DEF Loop!CleanAfterStop, Loop!Stopper, Proved!Keys!CleanAfterStop,
         Proved!Keys!Stopper
<1>5. Loop!NotOlder <=> Proved!Keys!NotOlder
  BY DEF Loop!NotOlder, Proved!Keys!NotOlder
<1>6. QED
  BY <1>1, <1>2, <1>3, <1>4, <1>5

LEMMA KernelsSame ==
  /\ Kernels!Init <=> Proved!Process!Init
  /\ Kernels!Next <=> Proved!Process!Next
  /\ Kernels!OperatorAssumption <=> Proved!Process!OperatorAssumption
  /\ Kernels!OneKernelWhileRunning <=> Proved!Process!OneKernelWhileRunning
  /\ Kernels!FailuresShow <=> Proved!Process!FailuresShow
<1>1. Kernels!Init <=> Proved!Process!Init
  BY DEF Kernels!Init, Kernels!Main, Kernels!Tasks, Proved!Process!Init,
         Proved!Process!Main, Proved!Process!Tasks
<1>2. Kernels!Next <=> Proved!Process!Next
  BY Zenon DEF Kernels!AbandonedReturns, Kernels!Asks, Kernels!AtTurn,
         Kernels!BeginsKernel, Kernels!Checks, Kernels!Clears, Kernels!Closes,
         Kernels!EndsGroup, Kernels!ExecuteDependencies, Kernels!Exits,
         Kernels!Goes, Kernels!GroupFails, Kernels!GroupOver,
         Kernels!HandleSignal, Kernels!HandleTriggerRequest,
         Kernels!Initialize, Kernels!Kernel, Kernels!KernelFails,
         Kernels!KernelGives, Kernels!KernelGivesNothing, Kernels!Loop,
         Kernels!Main, Kernels!Next, Kernels!Recv, Kernels!Reports,
         Kernels!Returns, Kernels!Run, Kernels!Sent, Kernels!Shutdown,
         Kernels!StartFails, Kernels!Starting, Kernels!StopsMessenger,
         Kernels!Tasks, Kernels!TearsDown, Kernels!Trigger,
         Kernels!TriggerFails, Kernels!TriggerGives,
         Kernels!TriggerGivesNothing, Kernels!TriggerSent, Kernels!Without,
         Kernels!loopVars, Kernels!valVars, Kernels!RemoveAt,
         Proved!Process!AbandonedReturns, Proved!Process!Asks,
         Proved!Process!AtTurn, Proved!Process!BeginsKernel,
         Proved!Process!Checks, Proved!Process!Clears, Proved!Process!Closes,
         Proved!Process!EndsGroup, Proved!Process!ExecuteDependencies,
         Proved!Process!Exits, Proved!Process!Goes, Proved!Process!GroupFails,
         Proved!Process!GroupOver, Proved!Process!HandleSignal,
         Proved!Process!HandleTriggerRequest, Proved!Process!Initialize,
         Proved!Process!Kernel, Proved!Process!KernelFails,
         Proved!Process!KernelGives, Proved!Process!KernelGivesNothing,
         Proved!Process!Loop, Proved!Process!Main, Proved!Process!Next,
         Proved!Process!Recv, Proved!Process!Reports, Proved!Process!Returns,
         Proved!Process!Run, Proved!Process!Sent, Proved!Process!Shutdown,
         Proved!Process!StartFails, Proved!Process!Starting,
         Proved!Process!StopsMessenger, Proved!Process!Tasks,
         Proved!Process!TearsDown, Proved!Process!Trigger,
         Proved!Process!TriggerFails, Proved!Process!TriggerGives,
         Proved!Process!TriggerGivesNothing, Proved!Process!TriggerSent,
         Proved!Process!Without, Proved!Process!loopVars,
         Proved!Process!valVars, Proved!Process!RemoveAt
<1>3. Kernels!OperatorAssumption <=> Proved!Process!OperatorAssumption
  BY DEF Kernels!Main, Kernels!OperatorAssumption, Proved!Process!Main,
         Proved!Process!OperatorAssumption
<1>4. Kernels!OneKernelWhileRunning <=> Proved!Process!OneKernelWhileRunning
  BY Zenon DEF Kernels!OneKernel, Kernels!OneKernelWhileRunning,
         Kernels!Cardinality, Proved!Process!OneKernel,
         Proved!Process!OneKernelWhileRunning, Proved!Process!Cardinality
<1>5. Kernels!FailuresShow <=> Proved!Process!FailuresShow
  BY DEF Kernels!FailuresShow, Proved!Process!FailuresShow
<1>6. QED
  BY <1>1, <1>2, <1>3, <1>4, <1>5

LEMMA AsyncSame ==
  /\ Async!Init <=> ProvedChanges!Process!Init
  /\ Async!Next <=> ProvedChanges!Process!Next
  /\ Async!OperatorAssumption <=> ProvedChanges!Process!OperatorAssumption
  /\ Async!LoopOverBeforeTeardown <=> ProvedChanges!Process!LoopOverBeforeTeardown
<1>1. Async!Init <=> ProvedChanges!Process!Init
  BY DEF Async!Init, Async!Main, Async!Tasks, ProvedChanges!Process!Init,
         ProvedChanges!Process!Main, ProvedChanges!Process!Tasks
<1>2. Async!Next <=> ProvedChanges!Process!Next
  BY Zenon DEF Async!AbandonedReturns, Async!Asks, Async!AtTurn,
         Async!BeginsKernel, Async!Checks, Async!Clears, Async!Closes,
         Async!EndsGroup, Async!ExecuteDependencies, Async!Exits, Async!Goes,
         Async!GroupFails, Async!GroupOver, Async!HandleSignal,
         Async!HandleTriggerRequest, Async!Initialize, Async!Kernel,
         Async!KernelFails, Async!KernelGives, Async!KernelGivesNothing,
         Async!Loop, Async!Main, Async!Next, Async!Recv, Async!Reports,
         Async!Returns, Async!Run, Async!Sent, Async!Shutdown,
         Async!StartFails, Async!Starting, Async!StopsMessenger, Async!Tasks,
         Async!TearsDown, Async!Trigger, Async!TriggerFails,
         Async!TriggerGives, Async!TriggerGivesNothing, Async!TriggerSent,
         Async!Without, Async!loopVars, Async!valVars, Async!RemoveAt,
         ProvedChanges!Process!AbandonedReturns, ProvedChanges!Process!Asks,
         ProvedChanges!Process!AtTurn, ProvedChanges!Process!BeginsKernel,
         ProvedChanges!Process!Checks, ProvedChanges!Process!Clears,
         ProvedChanges!Process!Closes, ProvedChanges!Process!EndsGroup,
         ProvedChanges!Process!ExecuteDependencies,
         ProvedChanges!Process!Exits, ProvedChanges!Process!Goes,
         ProvedChanges!Process!GroupFails, ProvedChanges!Process!GroupOver,
         ProvedChanges!Process!HandleSignal,
         ProvedChanges!Process!HandleTriggerRequest,
         ProvedChanges!Process!Initialize, ProvedChanges!Process!Kernel,
         ProvedChanges!Process!KernelFails, ProvedChanges!Process!KernelGives,
         ProvedChanges!Process!KernelGivesNothing, ProvedChanges!Process!Loop,
         ProvedChanges!Process!Main, ProvedChanges!Process!Next,
         ProvedChanges!Process!Recv, ProvedChanges!Process!Reports,
         ProvedChanges!Process!Returns, ProvedChanges!Process!Run,
         ProvedChanges!Process!Sent, ProvedChanges!Process!Shutdown,
         ProvedChanges!Process!StartFails, ProvedChanges!Process!Starting,
         ProvedChanges!Process!StopsMessenger, ProvedChanges!Process!Tasks,
         ProvedChanges!Process!TearsDown, ProvedChanges!Process!Trigger,
         ProvedChanges!Process!TriggerFails,
         ProvedChanges!Process!TriggerGives,
         ProvedChanges!Process!TriggerGivesNothing,
         ProvedChanges!Process!TriggerSent, ProvedChanges!Process!Without,
         ProvedChanges!Process!loopVars, ProvedChanges!Process!valVars,
         ProvedChanges!Process!RemoveAt
<1>3. Async!OperatorAssumption <=> ProvedChanges!Process!OperatorAssumption
  BY DEF Async!Main, Async!OperatorAssumption, ProvedChanges!Process!Main,
         ProvedChanges!Process!OperatorAssumption
<1>4. Async!LoopOverBeforeTeardown <=> ProvedChanges!Process!LoopOverBeforeTeardown
  BY DEF Async!LoopOverBeforeTeardown, Async!Main,
         ProvedChanges!Process!LoopOverBeforeTeardown,
         ProvedChanges!Process!Main
<1>5. QED
  BY <1>1, <1>2, <1>3, <1>4

-----------------------------------------------------------------------------
(* The invariant of each service, while it is the one that runs.           *)
UsersInv ==
  /\ scenario = "people" => Proved!PeopleInv
  /\ scenario = "changes" => ProvedChanges!PeopleInv
JobsInv ==
  scenario = "jobs" => Proved!JobsTypeOK /\ Proved!HandlersCounted /\ Proved!Jobs!ForgottenForAReason
SocketsInv == scenario = "sockets" => Proved!SocketsInv
CatalogueInv == scenario = "catalogue" => Proved!CatalogueInv
ParamsInv == scenario = "params" => Proved!ParamsInv
LoopInv == scenario = "loop" => Proved!KeysInv
AgreeInv ==
  scenario = "agree" =>
    Agree!RevisionsInv /\ Agree!NoAddFails /\ Agree!RowsAgree
TasksInv ==
  /\ scenario = "tasks" => Tasks!AgentInv
  /\ scenario = "cleaning" => Cleaning!CleaningInv
RestartsInv == scenario = "restarts" => Restarts!RestartsInv
KernelsInv ==
  /\ scenario = "kernels" => Proved!KernelInv
  /\ scenario = "async" => ProvedChanges!KernelInv /\ ProvedChanges!LoopIsOver
RevisionsInv ==
  /\ scenario = "numbers" => Numbers!RevisionsInv
  /\ scenario = "pages" => Pages!RevisionsInv /\ Pages!PagesInv
  /\ AgreeInv

(* Each keeps its invariant: a step is one of the service that runs.       *)
LEMMA UsersInvariant ==
  /\ Init => UsersInv
  /\ UsersInv /\ [Next]_vars => UsersInv' /\ (scenario \in {"people", "changes"} => People!ChangesAsAsked)
<1>1. Proved!People!AccountsAssumption /\ ProvedChanges!People!AccountsAssumption
  BY ConstantsAssumption, PeopleSame, ChangesSame
<1>2. Init => UsersInv
  BY <1>1, PeopleSame, ChangesSame, Proved!PeopleInit, ProvedChanges!PeopleInit DEF Init, UsersInv
<1>3. ASSUME UsersInv, [Next]_vars, scenario = "people"
      PROVE  Proved!PeopleInv' /\ People!ChangesAsAsked /\ scenario' = "people"
  <2>1. scenario' = "people" /\ [Proved!People!Next]_(Proved!People!vars)
    BY <1>3, PeopleSame DEF Next, Only, vars, accountVars, Proved!People!vars
  <2>2. Proved!PeopleInv
    BY <1>3 DEF UsersInv
  <2>3. QED
    BY <1>1, <2>1, <2>2, PeopleSame, Proved!PeopleNext, Proved!PeopleChange
<1>4. ASSUME UsersInv, [Next]_vars, scenario = "changes"
      PROVE  ProvedChanges!PeopleInv' /\ People!ChangesAsAsked /\ scenario' = "changes"
  <2>1. scenario' = "changes" /\ [ProvedChanges!People!Next]_(ProvedChanges!People!vars)
    BY <1>4, ChangesSame DEF Next, Only, vars, accountVars, ProvedChanges!People!vars
  <2>2. ProvedChanges!PeopleInv
    BY <1>4 DEF UsersInv
  <2>3. QED
    BY <1>1, <2>1, <2>2, ChangesSame, ProvedChanges!PeopleNext, ProvedChanges!PeopleChange
<1>5. [Next]_vars => scenario' = scenario
  BY DEF Next, Only, vars
<1>6. QED
  BY <1>2, <1>3, <1>4, <1>5 DEF UsersInv

LEMMA JobsInvariant ==
  /\ Init => JobsInv
  /\ JobsInv /\ [Next]_vars => JobsInv'
<1>1. Init => JobsInv
  BY ConstantsAssumption, JobsSame, Proved!JobsInit DEF Init, JobsInv
<1>2. ASSUME JobsInv, [Next]_vars, scenario = "jobs"
      PROVE  Proved!JobsTypeOK' /\ Proved!HandlersCounted' /\ Proved!Jobs!ForgottenForAReason'
  <2>1. [Proved!Jobs!Next]_(Proved!Jobs!vars)
    BY <1>2, JobsSame DEF Next, Only, vars, launcherVars, Proved!Jobs!vars
  <2>2. Proved!JobsTypeOK /\ Proved!HandlersCounted /\ Proved!Jobs!ForgottenForAReason
    BY <1>2 DEF JobsInv
  <2>3. Proved!HandlersCounted' /\ Proved!Jobs!ForgottenForAReason'
    BY <2>1, <2>2, ConstantsAssumption, JobsSame, Proved!HandlersNext, Proved!ForgottenNext
  <2>4. CASE Proved!Jobs!Next
    BY <2>2, <2>3, <2>4, Proved!JobsStep
  <2>5. CASE UNCHANGED Proved!Jobs!vars
    BY <2>2, <2>3, <2>5 DEF Proved!JobsTypeOK, Proved!Jobs!vars
  <2>6. QED
    BY <2>1, <2>4, <2>5
<1>3. [Next]_vars => scenario' = scenario
  BY DEF Next, Only, vars
<1>4. QED
  BY <1>1, <1>2, <1>3 DEF JobsInv

LEMMA SocketsInvariant ==
  /\ Init => SocketsInv
  /\ SocketsInv /\ [Next]_vars => SocketsInv'
<1>1. Proved!Sockets!MessengerAssumption
  BY ConstantsAssumption, SocketsSame
<1>2. Init => SocketsInv
  BY <1>1, SocketsSame, Proved!SocketsInit DEF Init, SocketsInv
<1>3. ASSUME SocketsInv, [Next]_vars, scenario = "sockets"
      PROVE  Proved!SocketsInv'
  <2>1. [Proved!Sockets!Next]_(Proved!Sockets!vars)
    BY <1>3, SocketsSame DEF Next, Only, vars, messengerVars, Proved!Sockets!vars
  <2>2. QED
    BY <1>1, <1>3, <2>1, Proved!SocketsNext DEF SocketsInv
<1>4. [Next]_vars => scenario' = scenario
  BY DEF Next, Only, vars
<1>5. QED
  BY <1>2, <1>3, <1>4 DEF SocketsInv

LEMMA CatalogueInvariant ==
  /\ Init => CatalogueInv
  /\ CatalogueInv /\ [Next]_vars => CatalogueInv'
<1>1. Init => CatalogueInv
  BY CatalogueSame, Proved!CatalogueInit DEF Init, CatalogueInv
<1>2. ASSUME CatalogueInv, [Next]_vars, scenario = "catalogue"
      PROVE  Proved!CatalogueInv'
  <2>1. [Proved!Catalogue!Next]_(Proved!Catalogue!vars)
    BY <1>2, CatalogueSame DEF Next, Only, vars, catalogueVars, Proved!Catalogue!vars
  <2>2. QED
    BY <1>2, <2>1, Proved!CatalogueNext DEF CatalogueInv
<1>3. [Next]_vars => scenario' = scenario
  BY DEF Next, Only, vars
<1>4. QED
  BY <1>1, <1>2, <1>3 DEF CatalogueInv

LEMMA ParamsInvariant ==
  /\ Init => ParamsInv
  /\ ParamsInv /\ [Next]_vars => ParamsInv' /\ (scenario = "params" => Params!HeldNotOlder)
<1>1. Proved!Params!ParametersAssumption
  BY ConstantsAssumption, ParamsSame
<1>2. Init => ParamsInv
  BY <1>1, ParamsSame, Proved!ParamsInit DEF Init, ParamsInv
<1>3. ASSUME ParamsInv, [Next]_vars, scenario = "params"
      PROVE  Proved!ParamsInv' /\ Params!HeldNotOlder
  <2>1. [Proved!Params!Next]_(Proved!Params!vars)
    BY <1>3, ParamsSame DEF Next, Only, vars, parameterVars, Proved!Params!vars
  <2>2. Proved!ParamsInv' /\ Proved!Params!HeldNotOlder
    BY <1>1, <1>3, <2>1, Proved!ParamsNext DEF ParamsInv
  <2>3. QED
    BY <2>2, ParamsSame
<1>4. [Next]_vars => scenario' = scenario
  BY DEF Next, Only, vars
<1>5. QED
  BY <1>2, <1>3, <1>4 DEF ParamsInv

LEMMA LoopInvariant ==
  /\ Init => LoopInv
  /\ LoopInv /\ [Next]_vars => LoopInv' /\ (scenario = "loop" => Loop!NotOlder)
<1>1. Proved!Keys!LoopAssumption
  BY ConstantsAssumption, LoopSame
<1>2. Init => LoopInv
  BY LoopSame, Proved!KeysStart DEF Init, LoopInv
<1>3. ASSUME LoopInv, [Next]_vars, scenario = "loop"
      PROVE  Proved!KeysInv' /\ Loop!NotOlder
  <2>1. [Proved!Keys!Next]_(Proved!Keys!vars)
    BY <1>3, LoopSame DEF Next, Only, vars, loopVars, Proved!Keys!vars
  <2>2. Proved!KeysInv' /\ Proved!Keys!NotOlder
    BY <1>1, <1>3, <2>1, Proved!KeysNext DEF LoopInv
  <2>3. QED
    BY <2>2, LoopSame
<1>4. [Next]_vars => scenario' = scenario
  BY DEF Next, Only, vars
<1>5. QED
  BY <1>2, <1>3, <1>4 DEF LoopInv

LEMMA TasksInvariant ==
  /\ Init => TasksInv
  /\ TasksInv /\ [Next]_vars => TasksInv'
<1>1. Tasks!AgentAssumption /\ Cleaning!AgentAssumption
  BY ConstantsAssumption
<1>2. Init /\ scenario = "tasks" => Tasks!AgentInv
  <2>1. Init /\ scenario = "tasks" => Tasks!Init
    BY DEF Init
  <2>2. QED
    BY <1>1, <2>1, Tasks!AgentInvInit
<1>3. Init /\ scenario = "cleaning" => Cleaning!CleaningInv
  <2>1. Init /\ scenario = "cleaning" => Cleaning!Init
    BY DEF Init
  <2>2. QED
    BY <1>1, <2>1, Cleaning!CleaningInvInit
<1>4. ASSUME TasksInv, [Next]_vars, scenario = "tasks"
      PROVE  Tasks!AgentInv'
  <2>1. [Tasks!Next]_(Tasks!vars)
    BY <1>4
       DEF Next, Only, vars, agentVars, Tasks!vars, Tasks!taskVars,
           Tasks!lockVars, Tasks!podmanVars
  <2>2. QED
    BY <1>1, <1>4, <2>1, Tasks!AgentInvStep DEF TasksInv
<1>5. ASSUME TasksInv, [Next]_vars, scenario = "cleaning"
      PROVE  Cleaning!CleaningInv'
  <2>1. [Cleaning!Next]_(Cleaning!vars)
    BY <1>5
       DEF Next, Only, vars, agentVars, Cleaning!vars, Cleaning!taskVars,
           Cleaning!lockVars, Cleaning!podmanVars
  <2>2. QED
    BY <1>1, <1>5, <2>1, Cleaning!CleaningInvStep DEF TasksInv
<1>6. [Next]_vars => scenario' = scenario
  BY DEF Next, Only, vars
<1>7. QED
  BY <1>2, <1>3, <1>4, <1>5, <1>6 DEF TasksInv

LEMMA RestartsInvariant ==
  /\ Init => RestartsInv
  /\ RestartsInv /\ [Next]_vars => RestartsInv'
<1>1. Restarts!AgentAssumption
  BY ConstantsAssumption
<1>2. Init /\ scenario = "restarts" => Restarts!RestartsInv
  <2>1. Init /\ scenario = "restarts" => Restarts!Init
    BY DEF Init
  <2>2. QED
    BY <1>1, <2>1, Restarts!RestartsInvInit
<1>3. ASSUME RestartsInv, [Next]_vars, scenario = "restarts"
      PROVE  Restarts!RestartsInv'
  <2>1. [Restarts!Next]_(Restarts!vars)
    BY <1>3
       DEF Next, Only, vars, agentVars, Restarts!vars, Restarts!taskVars,
           Restarts!lockVars, Restarts!podmanVars
  <2>2. QED
    BY <1>1, <1>3, <2>1, Restarts!RestartsInvStep DEF RestartsInv
<1>4. [Next]_vars => scenario' = scenario
  BY DEF Next, Only, vars
<1>5. QED
  BY <1>2, <1>3, <1>4 DEF RestartsInv

LEMMA KernelsInvariant ==
  /\ Init => KernelsInv
  /\ KernelsInv /\ [Next]_vars => KernelsInv'
<1>1. Proved!Process!OperatorAssumption /\ ProvedChanges!Process!OperatorAssumption
  BY ConstantsAssumption, KernelsSame, AsyncSame
<1>2. Init /\ scenario = "kernels" => Proved!KernelInv
  <2>1. Init /\ scenario = "kernels" => Proved!Process!Init
    BY KernelsSame DEF Init
  <2>2. QED
    BY <1>1, <2>1, Proved!KernelInit
<1>3. Init /\ scenario = "async" => ProvedChanges!KernelInv /\ ProvedChanges!LoopIsOver
  <2>1. Init /\ scenario = "async" => ProvedChanges!Process!Init
    BY AsyncSame DEF Init
  <2>2. QED
    BY <1>1, <2>1, ProvedChanges!KernelInit
<1>4. ASSUME KernelsInv, [Next]_vars, scenario = "kernels"
      PROVE  Proved!KernelInv'
  <2>1. [Proved!Process!Next]_(Proved!Process!vars)
    BY <1>4, KernelsSame DEF Next, Only, vars, kernelVars, Proved!Process!vars
  <2>2. QED
    BY <1>1, <1>4, <2>1, Proved!KernelStep DEF KernelsInv
<1>5. ASSUME KernelsInv, [Next]_vars, scenario = "async"
      PROVE  ProvedChanges!KernelInv' /\ ProvedChanges!LoopIsOver'
  <2>1. [ProvedChanges!Process!Next]_(ProvedChanges!Process!vars)
    BY <1>5, AsyncSame DEF Next, Only, vars, kernelVars, ProvedChanges!Process!vars
  <2>2. QED
    BY <1>1, <1>5, <2>1, ProvedChanges!KernelStep DEF KernelsInv
<1>6. [Next]_vars => scenario' = scenario
  BY DEF Next, Only, vars
<1>7. QED
  BY <1>2, <1>3, <1>4, <1>5, <1>6 DEF KernelsInv

LEMMA AgreeInvariant ==
  /\ Init => AgreeInv
  /\ AgreeInv /\ [Next]_vars => AgreeInv' /\ (scenario = "agree" => Agree!KeepsRevisions)
<1>1. Agree!RevisionsAssumption
  BY ConstantsAssumption
<1>2. Init => AgreeInv
  BY <1>1, Agree!RevisionsInit, Agree!RowsAgreeInit DEF Init, AgreeInv
<1>3. ASSUME AgreeInv, [Next]_vars, scenario = "agree"
      PROVE  /\ Agree!RevisionsInv' /\ Agree!NoAddFails' /\ Agree!RowsAgree'
             /\ Agree!KeepsRevisions
  <2>1. [Agree!Next]_(Agree!vars)
    BY <1>3 DEF Next, Only, vars, revisionVars, Agree!vars
  <2>2. Agree!RevisionsInv /\ Agree!NoAddFails /\ Agree!RowsAgree
    BY <1>3 DEF AgreeInv
  <2>3. Agree!RevisionsInv' /\ Agree!NoAddFails'
    BY <1>1, <2>1, <2>2, Agree!RevisionsNext, Agree!AddsSucceed
  <2>4. "delete" \notin {"add", "rename", "duplicate"}
    OBVIOUS
  <2>5. Agree!RowsAgree' /\ Agree!KeepsRevisions
    BY <1>1, <2>1, <2>2, <2>4, Agree!RowsAgreeNext
  <2>6. QED
    BY <2>3, <2>5
<1>4. [Next]_vars => scenario' = scenario
  BY DEF Next, Only, vars
<1>5. QED
  BY <1>2, <1>3, <1>4 DEF AgreeInv

LEMMA RevisionsInvariant ==
  /\ Init => RevisionsInv
  /\ RevisionsInv /\ [Next]_vars => RevisionsInv'
<1>1. Numbers!RevisionsAssumption /\ Pages!RevisionsAssumption
  BY ConstantsAssumption
<1>2. Init => RevisionsInv
  <2>1. Init /\ scenario = "numbers" => Numbers!RevisionsInv
    BY <1>1, Numbers!RevisionsInit DEF Init
  <2>2. Init /\ scenario = "pages" => Pages!RevisionsInv /\ Pages!PagesInv
    BY <1>1, Pages!RevisionsInit, Pages!RowsAgreeInit DEF Init
  <2>3. QED
    BY <2>1, <2>2, AgreeInvariant DEF RevisionsInv
<1>3. ASSUME RevisionsInv, [Next]_vars, scenario = "numbers"
      PROVE  Numbers!RevisionsInv'
  <2>1. [Numbers!Next]_(Numbers!vars)
    BY <1>3 DEF Next, Only, vars, revisionVars, Numbers!vars
  <2>2. QED
    BY <1>1, <1>3, <2>1, Numbers!RevisionsNext DEF RevisionsInv
<1>4. ASSUME RevisionsInv, [Next]_vars, scenario = "pages"
      PROVE  Pages!RevisionsInv' /\ Pages!PagesInv'
  <2>1. [Pages!Next]_(Pages!vars)
    BY <1>4 DEF Next, Only, vars, revisionVars, Pages!vars
  <2>2. Pages!RevisionsInv /\ Pages!PagesInv
    BY <1>4 DEF RevisionsInv
  <2>3. Pages!RevisionsInv'
    BY <1>1, <2>1, <2>2, Pages!RevisionsNext
  <2>4. QED
    BY <1>1, <2>1, <2>2, <2>3, Pages!PagesNext
<1>5. [Next]_vars => scenario' = scenario
  BY DEF Next, Only, vars
<1>6. QED
  BY <1>2, <1>3, <1>4, <1>5, AgreeInvariant DEF RevisionsInv

-----------------------------------------------------------------------------
(* A user owns every pipeline and has a name of their own.                 *)
THEOREM UsersStayConsistent == Spec => []UsersConsistent
<1>1. UsersInv => UsersConsistent
  BY PeopleSame, ChangesSame DEF UsersInv, UsersConsistent, Proved!PeopleInv, ProvedChanges!PeopleInv
<1>2. QED
  BY <1>1, UsersInvariant, PTL DEF Spec

(* A request starts one job at most and is forgotten only for a reason.    *)
THEOREM JobsAreAccountedFor == Spec => []JobsAccountedFor
<1>1. JobsInv => JobsAccountedFor
  BY ConstantsAssumption, JobsSame, Proved!HandlersCountedSuffices DEF JobsInv, JobsAccountedFor
<1>2. QED
  BY <1>1, JobsInvariant, PTL DEF Spec

(* An input is connected at one address at most for each upstream port, and*)
(* at none that the port has left.                                         *)
THEOREM PortsHaveOneAddress == Spec => []OneAddressEach
<1>1. SocketsInv => OneAddressEach
  BY SocketsSame DEF SocketsInv, OneAddressEach, Proved!SocketsInv
<1>2. QED
  BY <1>1, SocketsInvariant, PTL DEF Spec

(* A refresh shows nothing older than what there was when it was asked.    *)
THEOREM CatalogueIsFresh == Spec => []RefreshIsFresh
<1>1. CatalogueInv => RefreshIsFresh
  BY CatalogueSame, Proved!CatalogueShowsFresh DEF CatalogueInv, RefreshIsFresh
<1>2. QED
  BY <1>1, CatalogueInvariant, PTL DEF Spec

(* The revisions of the pipelines are consistent, in all of its parts.     *)
THEOREM RevisionsStayConsistent == Spec => []RevisionsConsistent
<1>1. RevisionsInv => RevisionsConsistent
  BY Numbers!NumbersHaveNoGap, Agree!CurrentIsThere,
     Pages!PagesAreWhole DEF RevisionsInv, AgreeInv, RevisionsConsistent
<1>2. QED
  BY <1>1, RevisionsInvariant, PTL DEF Spec

(* A deployment has the agent to itself: its task and its trackers and,    *)
(* where nothing is restarted, what runs, except for what a teardown that  *)
(* failed has left.                                                        *)
THEOREM OneDeploymentHasTheAgent == Spec => []OneDeploymentAtATime
<1>1. TasksInv => OneDeploymentAtATime
  <2>1. /\ Tasks!OneTaskAtATime <=> Cleaning!OneTaskAtATime
        /\ Tasks!TrackedIsCurrent <=> Cleaning!TrackedIsCurrent
    BY DEF Tasks!Live, Tasks!OneTaskAtATime, Tasks!Running, Tasks!Listed,
           Tasks!Operators, Tasks!TrackedIsCurrent, Cleaning!Live,
           Cleaning!OneTaskAtATime, Cleaning!Running, Cleaning!Listed,
           Cleaning!Operators, Cleaning!TrackedIsCurrent
  <2>2. QED
    BY ConstantsAssumption, <2>1, Tasks!OneTaskSuffices, Cleaning!OneTaskSuffices,
       Cleaning!CleaningSuffices
       DEF TasksInv, OneDeploymentAtATime, Cleaning!CleaningInv
<1>2. QED
  BY <1>1, TasksInvariant, PTL DEF Spec

(* No more containers of an operator are started than there are reasons to.*)
THEOREM RestartsStayBounded == Spec => []RestartsAreBounded
<1>1. Restarts!AgentAssumption
  BY ConstantsAssumption
<1>2. RestartsInv => RestartsAreBounded
  BY <1>1, Restarts!RestartsSuffice DEF RestartsInv, RestartsAreBounded
<1>3. QED
  BY <1>2, RestartsInvariant, PTL DEF Spec

(* Who has ended leaves nothing behind: the agent, where nothing is        *)
(* restarted and its last cleanup does not fail, and the loop of a key.    *)
THEOREM EndedLeaveNothing == Spec => []LeavesNothing
<1>1. TasksInv /\ LoopInv => LeavesNothing
  BY ConstantsAssumption, LoopSame, Cleaning!CleaningSuffices
     DEF TasksInv, LoopInv, LeavesNothing, Proved!KeysInv
<1>2. QED
  BY <1>1, TasksInvariant, LoopInvariant, PTL DEF Spec

(* Kernels take turns, failures show, and the main loop ends in time.      *)
THEOREM KernelsStayAccountedFor == Spec => []KernelsAccountedFor
<1>1. KernelsInv => KernelsAccountedFor
  BY KernelsSame, AsyncSame, Proved!KernelsAsPromised, ProvedChanges!OverAsPromised
     DEF KernelsInv, KernelsAccountedFor, ProvedChanges!KernelInv
<1>2. QED
  BY <1>1, KernelsInvariant, PTL DEF Spec

(* Nothing that is stored goes back: keys, parameters, revisions, users.   *)
THEOREM NothingStoredGoesBack == Spec => NothingGoesBack
<1>. DEFINE Inv == LoopInv /\ ParamsInv /\ AgreeInv /\ UsersInv
            Forth == /\ scenario = "loop" => Loop!NotOlder
                     /\ scenario = "params" => Params!HeldNotOlder
                     /\ scenario = "agree" => Agree!KeepsRevisions
                     /\ (scenario \in {"people", "changes"}) => People!ChangesAsAsked
<1>1. Init => Inv
  BY LoopInvariant, ParamsInvariant, AgreeInvariant, UsersInvariant
<1>2. Inv /\ [Next]_vars => Inv' /\ Forth
  BY LoopInvariant, ParamsInvariant, AgreeInvariant, UsersInvariant
<1>3. QED
  <2>1. Inv /\ [Next]_vars => [Forth]_vars
    BY <1>2
  <2>2. QED
    BY <1>1, <1>2, <2>1, PTL DEF Spec, NothingGoesBack
=============================================================================
