------------------------------- MODULE Operator -------------------------------
(***************************************************************************)
(* The process of one operator: its start, the main loop that runs the     *)
(* kernel on every message, the trigger requests that run it out of band,  *)
(* the errors it reports and its shutdown.  The kernel of a plain operator *)
(* runs in a thread, which a cancelled task leaves behind; the kernel of   *)
(* an async operator is cancelled with its task.                           *)
(***************************************************************************)
EXTENDS Naturals, Sequences, FiniteSets, SequencesExt

CONSTANTS
  Triggers,     \* trigger requests, each sent at most once
  Drains,       \* those whose spec says DRAIN
  Unknown,      \* those the spec of the operator does not have
  HasInputs,    \* whether the operator has input ports
  IsAsync,      \* the operator is an AsyncOperator
  MaxRetries,   \* max_retries
  MayFail       \* the start, or a task of the group, may raise

Main == "run"
Tasks == Triggers \cup {Main}

OperatorAssumption ==
  /\ Main \notin Triggers /\ Drains \cup Unknown \subseteq Triggers
  /\ MaxRetries \in Nat \ {0}
  /\ HasInputs \cup {IsAsync, MayFail} \subseteq BOOLEAN

VARIABLES
  life,        \* how far start and shutdown have come
  event,       \* _shutdown_event
  pc,          \* the main loop and the tasks of the requests
  lock,        \* _kernel_lock: its holder, then those that wait for it
  kernels,     \* tasks whose kernel is executing, abandoned ones included
  errorState, errorCount,
  status, errors,   \* val: its status, and whether it carries error messages
  opened       \* what the dependencies and the messenger hold

vars == <<life, event, pc, lock, kernels, errorState, errorCount, status, errors, opened>>
loopVars == <<errorState, errorCount>>
valVars == <<status, errors>>

TypeOK ==
  /\ life \in {"new", "initializing", "connecting", "running", "stopping", "reported",
               "torn down", "silent", "closed", "exited", "failed"}
  /\ {event, errorState, errors} \subseteq BOOLEAN
  /\ pc \in [Tasks -> {"none", "checking", "receiving", "waiting", "sending", "ended", "refused"}]
  /\ lock \in Seq(Tasks) /\ IsInjective(lock)
  /\ ToSet(lock) = {t \in Tasks : pc[t] = "waiting"}
  /\ kernels \subseteq Tasks
  /\ errorCount \in 0..MaxRetries
  /\ status \in {"none", "initializing", "running", "shutting_down"}
  /\ opened \subseteq {"dependencies", "messenger"}

Init ==
  /\ life = "new"
  /\ event = FALSE
  /\ pc = [t \in Tasks |-> "none"]
  /\ lock = <<>>
  /\ kernels = {}
  /\ errorState = FALSE /\ errorCount = 0
  /\ status = "none" /\ errors = FALSE
  /\ opened = {}

(* The queue without a task that was cancelled while it waited.            *)
Without(t) ==
  IF \E i \in DOMAIN lock : lock[i] = t
  THEN RemoveAt(lock, CHOOSE i \in DOMAIN lock : lock[i] = t)
  ELSE lock
Goes(t, p) == pc' = [pc EXCEPT ![t] = p]
AtTurn(t) == lock # <<>> /\ lock[1] = t

------------------------------------------------------------------------------
(* start                                                                   *)
ExecuteDependencies ==
  /\ life = "new" /\ life' = "initializing"
  /\ opened' = {"dependencies"}
  /\ UNCHANGED <<event, pc, lock, kernels, loopVars, valVars>>

(* The pipeline is found and names this operator; parameters and triggers  *)
(* are taken from it; the loops of the buckets begin.                      *)
Initialize ==
  /\ life = "initializing" /\ life' = "connecting"
  /\ status' = "initializing"
  /\ UNCHANGED <<event, pc, lock, kernels, loopVars, errors, opened>>

(* The messenger has started; the task group begins.                       *)
Run ==
  /\ life = "connecting" /\ life' = "running"
  /\ opened' = opened \cup {"messenger"}
  /\ status' = "running"
  /\ \E hasInput \in HasInputs :
       LET triggerOnly == ~hasInput /\ Triggers # {}
       IN IF triggerOnly THEN UNCHANGED pc ELSE Goes(Main, "checking")
  /\ UNCHANGED <<event, lock, kernels, loopVars, errors>>

(* No pipeline, an operator the pipeline does not have, or a messenger     *)
(* that does not connect in time: the exception leaves start.              *)
StartFails ==
  /\ MayFail /\ life \in {"initializing", "connecting"}
  /\ life' = "failed"
  /\ UNCHANGED <<event, pc, lock, kernels, loopVars, valVars, opened>>

HandleSignal ==
  /\ life \notin {"new", "closed", "exited", "failed"}
  /\ ~event /\ event' = TRUE
  /\ UNCHANGED <<life, pc, lock, kernels, loopVars, valVars, opened>>

------------------------------------------------------------------------------
(* A kernel, under the lock.                                               *)

Asks(t) == lock' = Append(lock, t)

(* Mutant of BeginsKernel: a kernel does not wait for the lock.            *)
BeginsAnyhow(t) ==
  /\ t \in ToSet(lock) /\ t \notin kernels
  /\ kernels' = kernels \cup {t}
  /\ UNCHANGED <<life, event, pc, lock, loopVars, valVars, opened>>

(* An abandoned kernel of the same task has first to return: a task is     *)
(* abandoned only when it is over.                                         *)
BeginsKernel(t) ==
  /\ AtTurn(t) /\ t \notin kernels
  /\ kernels' = kernels \cup {t}
  /\ UNCHANGED <<life, event, pc, lock, loopVars, valVars, opened>>

Returns(t) ==
  /\ AtTurn(t) /\ t \in kernels
  /\ lock' = Tail(lock)
  /\ kernels' = kernels \ {t}
  /\ UNCHANGED <<life, opened, status>>

AbandonedReturns(t) ==
  /\ t \in kernels /\ pc[t] # "waiting"
  /\ kernels' = kernels \ {t}
  /\ UNCHANGED <<life, event, pc, lock, loopVars, valVars, opened>>

------------------------------------------------------------------------------
(* run: the loop looks at the event, then waits for a message.             *)
Checks ==
  /\ life = "running" /\ pc[Main] = "checking"
  /\ Goes(Main, IF event THEN "ended" ELSE "receiving")
  /\ UNCHANGED <<life, event, lock, kernels, loopVars, valVars, opened>>

Recv ==
  /\ life = "running" /\ pc[Main] = "receiving"
  /\ Goes(Main, "waiting") /\ Asks(Main)
  /\ UNCHANGED <<life, event, kernels, loopVars, valVars, opened>>

KernelFails ==
  /\ Returns(Main)
  /\ errorState' = TRUE
  /\ errors' = (errors \/ ~errorState)
  /\ errorCount' = errorCount + 1
  /\ event' = (event \/ errorCount + 1 >= MaxRetries)
  /\ Goes(Main, "checking")

(* A result that is a message ends the error state.                        *)
Clears ==
  /\ errorState' = FALSE
  /\ errors' = (errors /\ ~errorState)

KernelGives ==
  /\ Returns(Main)
  /\ Clears
  /\ errorCount' = 0
  /\ Goes(Main, "sending")
  /\ UNCHANGED event

(* The kernel returns None, as the kernel of a sink always does.           *)
KernelGivesNothing ==
  /\ Returns(Main)
  /\ errorCount' = 0
  /\ Goes(Main, "checking")
  /\ UNCHANGED <<event, errorState, errors>>

Sent ==
  /\ pc[Main] = "sending"
  /\ Goes(Main, "checking")
  /\ UNCHANGED <<life, event, lock, kernels, loopVars, valVars, opened>>

------------------------------------------------------------------------------
(* Trigger requests, from the start of the group to the unsubscription.    *)
HandleTriggerRequest(t) ==
  /\ life \in {"running", "stopping", "reported", "torn down", "silent"} /\ pc[t] = "none"
  /\ IF t \in Unknown THEN Goes(t, "refused") /\ UNCHANGED lock
     ELSE IF event THEN Goes(t, "ended") /\ UNCHANGED lock
     ELSE Goes(t, "waiting") /\ Asks(t)
  /\ UNCHANGED <<life, event, kernels, loopVars, valVars, opened>>

TriggerFails(t) ==
  /\ Returns(t)
  /\ errors' = TRUE
  /\ Goes(t, "ended")
  /\ UNCHANGED <<event, loopVars>>

TriggerGives(t) ==
  /\ Returns(t)
  /\ Goes(t, "sending")
  /\ UNCHANGED <<event, loopVars, errors>>

TriggerGivesNothing(t) ==
  /\ Returns(t)
  /\ Goes(t, "ended")
  /\ UNCHANGED <<event, loopVars, errors>>

(* A request that drains runs the kernel again until it gives nothing.     *)
TriggerSent(t) ==
  /\ pc[t] = "sending"
  /\ IF t \in Drains /\ ~event THEN Goes(t, "waiting") /\ Asks(t)
     ELSE Goes(t, "ended") /\ UNCHANGED lock
  /\ UNCHANGED <<life, event, kernels, loopVars, valVars, opened>>

------------------------------------------------------------------------------
(* The end of the group and the shutdown.  The group cancels the main loop *)
(* but not the tasks of requests.                                          *)

GroupOver ==
  /\ life = "running" /\ life' = "stopping"
  /\ pc' = [pc EXCEPT ![Main] = "ended"]
  /\ lock' = Without(Main)
  /\ kernels' = IF IsAsync THEN kernels \ {Main} ELSE kernels
  /\ UNCHANGED <<event, loopVars, valVars, opened>>

EndsGroup == event /\ GroupOver

(* A receive, a send or a consumer raises: the group ends, the event is    *)
(* not set.                                                                *)
GroupFails == MayFail /\ GroupOver

Reports ==
  /\ life = "stopping" /\ life' = "reported"
  /\ status' = "shutting_down"
  /\ UNCHANGED <<event, pc, lock, kernels, loopVars, errors, opened>>

TearsDown ==
  /\ life = "reported" /\ life' = "torn down"
  /\ opened' = opened \ {"dependencies"}
  /\ UNCHANGED <<event, pc, lock, kernels, loopVars, valVars>>

StopsMessenger ==
  /\ life = "torn down" /\ life' = "silent"
  /\ opened' = opened \ {"messenger"}
  /\ UNCHANGED <<event, pc, lock, kernels, loopVars, valVars>>

(* asyncio.run cancels the tasks that are left.                            *)
Closes ==
  /\ life = "silent" /\ life' = "closed"
  /\ pc' = [t \in Tasks |-> IF pc[t] = "refused" THEN "refused" ELSE "ended"]
  /\ lock' = <<>>
  /\ kernels' = IF IsAsync THEN {} ELSE kernels
  /\ UNCHANGED <<event, loopVars, valVars, opened>>

(* asyncio.run waits for the threads of the executor.                      *)
Exits ==
  /\ life = "closed" /\ kernels = {} /\ life' = "exited"
  /\ UNCHANGED <<event, pc, lock, kernels, loopVars, valVars, opened>>

Starting == ExecuteDependencies \/ Initialize \/ Run
Kernel(t) == BeginsKernel(t) \/ AbandonedReturns(t)
Loop == Checks \/ Recv \/ KernelFails \/ KernelGives \/ KernelGivesNothing \/ Sent
Trigger(t) == TriggerFails(t) \/ TriggerGives(t) \/ TriggerGivesNothing(t) \/ TriggerSent(t)
Shutdown == EndsGroup \/ Reports \/ TearsDown \/ StopsMessenger \/ Closes \/ Exits

Next ==
  \/ Starting \/ StartFails \/ HandleSignal
  \/ Loop \/ \E t \in Tasks : Kernel(t)
  \/ \E t \in Triggers : HandleTriggerRequest(t) \/ Trigger(t)
  \/ Shutdown \/ GroupFails

Spec == Init /\ [][Next]_vars

(* The process runs, and every kernel returns; an input may never come.    *)
Fairness ==
  /\ WF_vars(Starting) /\ WF_vars(Shutdown)
  /\ WF_vars(Checks \/ KernelFails \/ KernelGives \/ KernelGivesNothing \/ Sent)
  /\ \A t \in Tasks : WF_vars(BeginsKernel(t)) /\ WF_vars(AbandonedReturns(t))
  /\ \A t \in Triggers : WF_vars(Trigger(t))

FairSpec == Spec /\ Fairness

------------------------------------------------------------------------------
(* Properties                                                              *)

(* operator.py:724: kernels run under the lock, so no two of them run at   *)
(* the same time.                                                          *)
OneKernel == Cardinality(kernels) <= 1

(* Until the group ends, whatever the requests and the failures do, no two *)
(* kernels of the operator run at the same time.                           *)
OneKernelWhileRunning == life = "running" => OneKernel

(* When the last call of the main loop's kernel failed, the value of the   *)
(* operator carries an error, however requests fail or succeed meanwhile.  *)
FailuresShow == errorCount > 0 => errors

(* operator.py:642: a success after errors clears them.                    *)
(* Promised and not kept: see the README, further divergences.             *)
RecoveryShows == [][errorState /\ errorCount > 0 /\ errorCount' = 0 => ~errors']_vars

(* The main loop's kernel, where it can be cancelled, no longer runs when  *)
(* the resources of the dependencies are given back.                       *)
LoopOverBeforeTeardown ==
  life # "new" /\ "dependencies" \notin opened => pc[Main] \in {"none", "ended"} /\ Main \notin kernels

(* A signal ends the process, whatever its tasks are waiting for.          *)
EndedIfSignalled == event => life \in {"exited", "failed"}
SignalEnds == []<>EndedIfSignalled

(* A request that waits for the kernel gets it, or the process ends: the   *)
(* main loop cannot starve it.                                             *)
RequestsRun == \A t \in Triggers : []<>(pc[t] # "waiting")
===============================================================================
