-------------------------- MODULE DeploymentMachine --------------------------
(***************************************************************************)
(* The deployment state machine of the orchestrator: its states, its       *)
(* triggers and the table TRANSITIONS of machine.py.  A trigger that the   *)
(* table does not list for the current state raises MachineError; one      *)
(* whose destination is "=" re-enters the state and publishes nothing.     *)
(***************************************************************************)

States == {"PENDING", "AGENTS_ASSIGNED", "FAILED_TO_START",
           "FAILURE_ON_AGENT", "RUNNING", "CANCELLED"}

Terminal == {"CANCELLED", "FAILED_TO_START"}

Triggers == {"assign", "start_failure", "agent_failure", "start", "cancel"}

(* The source states of every trigger.                                     *)
Sources ==
  [assign        |-> {"PENDING"},
   start_failure |-> {"PENDING", "AGENTS_ASSIGNED", "FAILURE_ON_AGENT"},
   agent_failure |-> {"AGENTS_ASSIGNED", "RUNNING", "FAILURE_ON_AGENT"},
   start         |-> {"AGENTS_ASSIGNED", "RUNNING"},
   cancel        |-> {"PENDING", "AGENTS_ASSIGNED", "RUNNING",
                      "FAILURE_ON_AGENT", "CANCELLED"}]

(* The state a trigger moves to when it does not re-enter the source.      *)
Destination ==
  [assign        |-> "AGENTS_ASSIGNED",
   start_failure |-> "FAILED_TO_START",
   agent_failure |-> "FAILURE_ON_AGENT",
   start         |-> "RUNNING",
   cancel        |-> "CANCELLED"]

(* Mutant of Accepts: anything can be cancelled, a failed start included.  *)
AcceptsAnyCancel(t, s) == t = "cancel" \/ s \in Sources[t]

Accepts(t, s) == s \in Sources[t]

(* Mutant of Target: "=" is taken for the name of a state.                 *)
TargetVerbatim(t, s) ==
  IF s = Destination[t] \/ (t = "start_failure" /\ s = "FAILURE_ON_AGENT")
  THEN "=" ELSE Destination[t]

(* start_failure leaves FAILURE_ON_AGENT where it is; the other "=" rows   *)
(* start from the trigger's own destination.                               *)
Target(t, s) ==
  IF t = "start_failure" /\ s = "FAILURE_ON_AGENT" THEN s ELSE Destination[t]

Reenters(t, s) == Target(t, s) = s

(***************************************************************************)
(* Later[s]: the states some sequence of accepted triggers leads to from   *)
(* s, s itself excluded.  No state is later than a terminal one.           *)
(***************************************************************************)
Later ==
  [PENDING          |-> {"AGENTS_ASSIGNED", "FAILED_TO_START", "RUNNING",
                         "FAILURE_ON_AGENT", "CANCELLED"},
   AGENTS_ASSIGNED  |-> {"FAILED_TO_START", "RUNNING",
                         "FAILURE_ON_AGENT", "CANCELLED"},
   RUNNING          |-> {"FAILURE_ON_AGENT", "CANCELLED"},
   FAILURE_ON_AGENT |-> {"CANCELLED"},
   FAILED_TO_START  |-> {},
   CANCELLED        |-> {}]
==============================================================================
