--------------------------------- MODULE App ---------------------------------
(***************************************************************************)
(* The deployments API of the app: the state column of its database, the   *)
(* requests of users, and the consumer of the orchestrator's updates.      *)
(***************************************************************************)
EXTENDS Streams

VARIABLE db   \* PipelineDeployment.state; None before the row exists

AppTypeOK == db \in [Deployments -> States \cup {None}]

AppInit == db = [d \in Deployments |-> None]

AppUnchanged == UNCHANGED <<assigned, lastUpdate, commands, kv, watching, watch>>

(* POST /deployments: the row is committed, then the event published.      *)
CreateDeployment(d) ==
  /\ db[d] = None
  /\ db' = [db EXCEPT ![d] = "PENDING"]
  /\ PublishEvent("RUN", d)
  /\ UNCHANGED updates /\ AppUnchanged

(* The publish raises after the commit.                                    *)
CreateLost(d) ==
  /\ db[d] = None
  /\ db' = [db EXCEPT ![d] = "PENDING"]
  /\ UNCHANGED streamVars

(* Mutant of UpdateDeployment: the orchestrator is not told.               *)
UpdateQuietly(d, s) ==
  /\ db[d] # None
  /\ db' = [db EXCEPT ![d] = s]
  /\ UNCHANGED <<events, retained, updates>> /\ AppUnchanged

(* PATCH /deployments/<id>: the state column is set to what the user says, *)
(* whatever it was; only CANCELLED is an event.                            *)
UpdateDeployment(d, s) ==
  /\ db[d] # None
  /\ db' = [db EXCEPT ![d] = s]
  /\ IF s = "CANCELLED" THEN PublishEvent("STOP", d)
                        ELSE UNCHANGED <<events, retained>>
  /\ UNCHANGED updates /\ AppUnchanged

(* The publish of the stop raises after the commit.                        *)
UpdateLost(d) ==
  /\ db[d] # None
  /\ db' = [db EXCEPT ![d] = "CANCELLED"]
  /\ UNCHANGED streamVars

(* POST /deployments/<id>/operators/<operator>/events.                     *)
RestartOperator(d) ==
  /\ db[d] # None
  /\ PublishEvent("OPERATOR_RESTART", d)
  /\ UNCHANGED <<db, updates>> /\ AppUnchanged

(* pipeline_updates_consumer.                                              *)
ConsumeUpdate ==
  /\ updates # <<>>
  /\ db' = [db EXCEPT ![Head(updates).depl] = Head(updates).state]
  /\ updates' = Tail(updates)
  /\ UNCHANGED <<events, retained>> /\ AppUnchanged

(* The app restarts: its consumer is new, and starts with what is new.     *)
RestartApp ==
  /\ updates # <<>>
  /\ updates' = <<>>
  /\ UNCHANGED <<db, events, retained>> /\ AppUnchanged
==============================================================================
