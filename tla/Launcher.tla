------------------------------- MODULE Launcher -------------------------------
(***************************************************************************)
(* The launcher submits a batch job, whose nodes run agents, for each      *)
(* request that the app puts into a stream.  A request is handled in a     *)
(* task of its own; the server delivers it again when it was neither       *)
(* answered nor reported in progress for its ack wait.  The consumer is    *)
(* not durable: what is not answered when it is lost is not delivered to   *)
(* the next one.                                                           *)
(***************************************************************************)
EXTENDS Naturals, FiniteSets

CONSTANTS
  Requests,
  Invalid,        \* requests that do not make a job
  MaxTasks,       \* times a request may be delivered
  MaxApiErrors,   \* times the API fails in a way that is not handled
  MaxSlow,        \* times the ack wait of a request ends while a task waits for the API
  MaxLosses       \* times the launcher restarts, or its consumer is made anew

LauncherAssumption ==
  /\ Invalid \subseteq Requests
  /\ {MaxTasks, MaxApiErrors, MaxSlow, MaxLosses} \subseteq Nat

VARIABLES
  request,    \* what the server knows of each request
  consumer,   \* there is one
  task,       \* handlers: per request and delivery, where it is
  job,        \* of each task, the state of the job it submitted
  monitor,    \* of each job, what monitor_job waits for, or that it published the end
  errors,     \* requests of which an error was published
  slow,       \* times that happened, per request
  apiErrors, losses

vars == <<request, consumer, task, job, monitor, errors, apiErrors, slow, losses>>
bounded == <<apiErrors, slow, losses>>

Tasks == Requests \X (1..MaxTasks)
TasksOf(r) == {t \in Tasks : t[1] = r}
JobsOf(r) == {t \in TasksOf(r) : job[t] # "none"}

GoesTo(t, pc) == task' = [task EXCEPT ![t] = pc]
(* The server takes the first answer to what it delivered.                 *)
Answers(t, how) ==
  request' = IF request[t[1]] = "delivered" THEN [request EXCEPT ![t[1]] = how] ELSE request

Init ==
  /\ request = [r \in Requests |-> "none"] /\ consumer = TRUE
  /\ task = [t \in Tasks |-> "none"]
  /\ job = [t \in Tasks |-> "none"] /\ monitor = [t \in Tasks |-> "none"]
  /\ errors = {}
  /\ slow = [r \in Requests |-> 0] /\ apiErrors = 0 /\ losses = 0

-----------------------------------------------------------------------------

(* launch_agent of the app.  The consumer gets what is new.                *)
Publishes(r) ==
  /\ request[r] = "none"
  /\ request' = [request EXCEPT ![r] = IF consumer THEN "pending" ELSE "missed"]
  /\ UNCHANGED <<consumer, task, job, monitor, errors, bounded>>

(* submit begins: a request that does not validate is given up, for any    *)
(* other the API is asked for the machine.                                 *)
Begins(t) ==
  /\ task[t] = "none" /\ (t[2] > 1 => task[<<t[1], t[2] - 1>>] # "none")
  /\ request' = [request EXCEPT ![t[1]] = IF t[1] \in Invalid THEN "termed" ELSE "delivered"]
  /\ GoesTo(t, IF t[1] \in Invalid THEN "ended" ELSE "compute")
  /\ UNCHANGED <<consumer, job, monitor, errors, apiErrors, losses>>

Delivers(r) ==
  /\ request[r] = "pending"
  /\ \E t \in TasksOf(r) : Begins(t)
  /\ UNCHANGED slow

(* Mutant of ReportsProgress: no progress is reported.                     *)
ReportsNoProgress(r) == FALSE

(* Progress is reported each second while the job is submitted, but not    *)
(* while the API is asked for the machine and for the file.                *)
ReportsProgress(r) == \E t \in TasksOf(r) : task[t] = "submitting"
Prepares(r) == \E t \in TasksOf(r) : task[t] \in {"compute", "path"}

(* The ack wait ends.                                                      *)
Redelivers(r) ==
  /\ request[r] = "delivered" /\ ~ReportsProgress(r)
  /\ (Prepares(r) => slow[r] < MaxSlow)
  /\ slow' = IF Prepares(r) THEN [slow EXCEPT ![r] = @ + 1] ELSE slow
  /\ \E t \in TasksOf(r) : Begins(t)

(* The API fails: nothing catches it, and the task is gone.                *)
ApiFails(t) ==
  /\ task[t] \in {"compute", "path"} /\ apiErrors < MaxApiErrors
  /\ GoesTo(t, "ended") /\ apiErrors' = apiErrors + 1
  /\ UNCHANGED <<request, consumer, job, monitor, errors, slow, losses>>

Proceeds(t) ==
  /\ \/ task[t] = "compute" /\ GoesTo(t, "path")
     \/ task[t] = "path" /\ GoesTo(t, "submitting")
  /\ UNCHANGED <<request, consumer, job, monitor, errors, bounded>>

(* The machine is not active, the file is not there, or the job is not     *)
(* accepted: an error is published and the request is given up.            *)
GivesUp(t) ==
  /\ task[t] \in {"compute", "path", "submitting"}
  /\ errors' = errors \cup {t[1]} /\ Answers(t, "termed") /\ GoesTo(t, "ended")
  /\ UNCHANGED <<consumer, job, monitor, bounded>>

(* The job was submitted: the request is answered and the job monitored.   *)
Submits(t) ==
  /\ task[t] = "submitting"
  /\ Answers(t, "acked") /\ GoesTo(t, "ended")
  /\ job' = [job EXCEPT ![t] = "queued"] /\ monitor' = [monitor EXCEPT ![t] = "running"]
  /\ UNCHANGED <<consumer, errors, bounded>>

(* The batch system runs the job, or ends it, also before it runs.         *)
JobChanges(t) ==
  /\ \/ job[t] = "queued" /\ job' = [job EXCEPT ![t] = "running"]
     \/ job[t] \in {"queued", "running"} /\ job' = [job EXCEPT ![t] = "ended"]
  /\ UNCHANGED <<request, consumer, task, monitor, errors, bounded>>

(* monitor_job waits until the job runs, and then until it ends; a job     *)
(* that ended before it was seen to run is an error.                       *)
Monitors(t) ==
  /\ \/ monitor[t] = "running" /\ job[t] = "running" /\ monitor' = [monitor EXCEPT ![t] = "complete"]
     \/ monitor[t] \in {"running", "complete"} /\ job[t] = "ended"
          /\ monitor' = [monitor EXCEPT ![t] = "published"]
  /\ UNCHANGED <<request, consumer, task, job, errors, bounded>>

(* What is not answered is missed by the next consumer.                    *)
Missed ==
  request' = [r \in Requests |-> IF request[r] \in {"pending", "delivered"} THEN "missed" ELSE request[r]]

(* Messages cannot be fetched, or the launcher stops with all its tasks.   *)
LosesConsumer ==
  /\ consumer /\ losses < MaxLosses /\ losses' = losses + 1
  /\ consumer' = FALSE /\ Missed
  /\ \/ UNCHANGED <<task, monitor>>
     \/ /\ task' = [t \in Tasks |-> IF task[t] = "none" THEN "none" ELSE "ended"]
        /\ monitor' = [t \in Tasks |->
             IF monitor[t] \in {"running", "complete"} THEN "gone" ELSE monitor[t]]
  /\ UNCHANGED <<job, errors, apiErrors, slow>>

CreatesConsumer ==
  /\ ~consumer /\ consumer' = TRUE
  /\ UNCHANGED <<request, task, job, monitor, errors, bounded>>

Works(t) == Proceeds(t) \/ GivesUp(t) \/ Submits(t)

Next ==
  \/ \E r \in Requests : Publishes(r) \/ Delivers(r) \/ Redelivers(r)
  \/ \E t \in Tasks : ApiFails(t) \/ Works(t) \/ JobChanges(t) \/ Monitors(t)
  \/ LosesConsumer \/ CreatesConsumer

Spec == Init /\ [][Next]_vars
(* Messages are delivered, tasks go on, and jobs do not last for ever.     *)
FairSpec ==
  /\ Spec
  /\ \A r \in Requests : WF_vars(Delivers(r)) /\ WF_vars(Redelivers(r))
  /\ \A t \in Tasks : WF_vars(Works(t)) /\ WF_vars(JobChanges(t)) /\ WF_vars(Monitors(t))

-----------------------------------------------------------------------------

(* The server forgets a request for a reason: a job was submitted for it,  *)
(* or users were told why not, or it made no sense.                        *)
ForgottenForAReason ==
  \A r \in Requests :
    /\ request[r] = "acked" => JobsOf(r) # {}
    /\ request[r] = "termed" => r \in Invalid \cup errors

(* A request starts one job, although it is delivered anew when its task   *)
(* died or the job takes long to submit, and one more for each time the ack*)
(* wait ended while a task waited for the API: the task goes on beside the *)
(* new one, and nothing tells either of the other's job.                   *)
OneJobEach == \A r \in Requests : Cardinality(JobsOf(r)) <= 1 + slow[r]

(* A request is not delivered for ever: it is answered, or the consumer is *)
(* lost.                                                                   *)
AllAnswered == \A r \in Requests : []<>(request[r] # "delivered")

(* The end of each job is published, also of one that never ran, unless    *)
(* the launcher was restarted while the job was there.                     *)
Concluded == \A t \in Tasks : job[t] # "none" => monitor[t] \in {"published", "gone"}
EndsPublished == []<>Concluded

LauncherTypeOK ==
  /\ \A t \in Tasks :
       /\ job[t] # "none" => task[t] = "ended" /\ t[1] \notin Invalid
       /\ (job[t] = "none") = (monitor[t] = "none")
       /\ task[t] # "none" => request[t[1]] \notin {"none", "pending"}
  /\ \A r \in Requests : request[r] \in {"none", "pending", "delivered", "acked", "termed", "missed"}
  /\ ~consumer => \A r \in Requests : request[r] \notin {"pending", "delivered"}
===============================================================================
