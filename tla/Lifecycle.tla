------------------------------ MODULE Lifecycle ------------------------------
(***************************************************************************)
(* What a deployment promises, whoever carries it out: the states that are *)
(* announced for it only move forward and end in a terminal one, and an    *)
(* agent serves one deployment at a time and takes up only a deployment    *)
(* that has been announced and not failed to start.                        *)
(***************************************************************************)
EXTENDS DeploymentMachine

CONSTANTS Deployments, Agents, None

VARIABLES
  announced,  \* the last state announced for a deployment, None before
  serves      \* the deployment an agent carries out

lifecycleVars == <<announced, serves>>

Init ==
  /\ announced = [d \in Deployments |-> None]
  /\ serves = [a \in Agents |-> None]

Announce(d, s) ==
  /\ announced[d] = None \/ s \in Later[announced[d]]
  /\ announced' = [announced EXCEPT ![d] = s]
  /\ UNCHANGED serves

TakeUp(a, d) ==
  /\ serves[a] = None
  /\ announced[d] \notin {None, "FAILED_TO_START"}
  /\ serves' = [serves EXCEPT ![a] = d]
  /\ UNCHANGED announced

LayDown(a) ==
  /\ serves[a] # None
  /\ serves' = [serves EXCEPT ![a] = None]
  /\ UNCHANGED announced

Next ==
  \/ \E d \in Deployments, s \in States : Announce(d, s)
  \/ \E a \in Agents, d \in Deployments : TakeUp(a, d)
  \/ \E a \in Agents : LayDown(a)

Spec == Init /\ [][Next]_lifecycleVars
==============================================================================
