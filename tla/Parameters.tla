------------------------------ MODULE Parameters ------------------------------
(***************************************************************************)
(* One parameter of a running operator: the updates a user publishes, the  *)
(* stream that keeps the last of them, the replicas that consume it, each  *)
(* with a consumer that begins with the next update, and the               *)
(* acknowledgements by which the interface shows a value.  A value is      *)
(* named by the number of its update; 0 is the value of the deployment.    *)
(***************************************************************************)
EXTENDS Naturals, Sequences, FiniteSets

CONSTANTS
  Replicas,     \* the instances of the operator
  MaxUpdates,
  Invalid,      \* updates whose value the parameter's model refuses
  MaxDeaths,    \* containers that end and are restarted
  MaxBreaks,    \* consumers lost to an error of the connection
  MaxRepeats    \* acknowledgements of messages that are lost

ParametersAssumption ==
  {MaxUpdates, MaxDeaths, MaxBreaks, MaxRepeats} \subseteq Nat /\ Invalid \subseteq Nat \ {0}

VARIABLES
  updates,   \* how many updates have been published
  process,   \* of each replica: "down", "running" (no consumer), "consuming"
  next,      \* the first update its consumer has not delivered yet
  first,     \* the first update its consumer may deliver
  held,      \* the value in the collection its kernel reads
  acks,      \* the acknowledgements it is publishing
  shown,     \* the last one published: what the interface shows
  missed,    \* replicas that could not be told of the last valid update
  budget

vars == <<updates, process, next, first, held, acks, shown, missed, budget>>
consumerVars == <<next, first>>

Versions == 0..MaxUpdates

TypeOK ==
  /\ updates \in Versions
  /\ process \in [Replicas -> {"down", "running", "consuming"}]
  /\ \A r \in Replicas :
       /\ first[r] <= next[r] /\ next[r] <= updates + 1
       /\ held[r] <= updates /\ held[r] \notin Invalid
       /\ acks[r] \in Seq(Versions)
  /\ shown \in Versions
  /\ missed \subseteq Replicas

Init ==
  /\ updates = 0
  /\ process = [r \in Replicas |-> "down"]
  /\ next = [r \in Replicas |-> 1] /\ first = [r \in Replicas |-> 1]
  /\ held = [r \in Replicas |-> 0]
  /\ acks = [r \in Replicas |-> <<>>]
  /\ shown = 0
  /\ missed = Replicas
  /\ budget = [death |-> MaxDeaths, break |-> MaxBreaks, repeat |-> MaxRepeats]

Spend(k) == budget[k] > 0 /\ budget' = [budget EXCEPT ![k] = @ - 1]
Becomes(r, p) == process' = [process EXCEPT ![r] = p]
Deaf == {r \in Replicas : process[r] # "consuming"}

(* A user's update; the stream drops the one before it.                    *)
UpdateParameter ==
  /\ updates < MaxUpdates
  /\ updates' = updates + 1
  /\ missed' = IF updates + 1 \in Invalid THEN missed ELSE Deaf
  /\ UNCHANGED <<process, consumerVars, held, acks, shown, budget>>

Kept == {updates} \ {0}

(* initialize_parameters and publish_parameters of a new process.          *)
InitializeParameters(r) ==
  /\ process[r] = "down" /\ Becomes(r, "running")
  /\ held' = [held EXCEPT ![r] = 0]
  /\ acks' = [acks EXCEPT ![r] = <<0>>]
  /\ UNCHANGED <<updates, consumerVars, shown, missed, budget>>

(* The consumer, created first or anew, begins with the next update.       *)
CreateConsumer(r) ==
  /\ process[r] = "running" /\ Becomes(r, "consuming")
  /\ next' = [next EXCEPT ![r] = updates + 1]
  /\ first' = [first EXCEPT ![r] = updates + 1]
  /\ UNCHANGED <<updates, held, acks, shown, missed, budget>>

(* update_value: a value that does not validate leaves the old one.        *)
Handle(r, u) ==
  IF u \in Invalid THEN UNCHANGED <<held, acks>>
  ELSE /\ held' = [held EXCEPT ![r] = u]
       /\ acks' = [acks EXCEPT ![r] = Append(@, u)]

HandleParameterUpdate(r) ==
  /\ process[r] = "consuming"
  /\ \E u \in Kept :
       /\ u >= next[r] /\ \A w \in Kept : w >= next[r] => u <= w
       /\ Handle(r, u)
       /\ next' = [next EXCEPT ![r] = u + 1]
  /\ UNCHANGED <<updates, process, first, shown, missed, budget>>

(* A message whose acknowledgement is lost is delivered again.             *)
Redeliver(r) ==
  /\ process[r] = "consuming"
  /\ \E u \in Kept : first[r] <= u /\ u < next[r] /\ Handle(r, u)
  /\ UNCHANGED <<updates, process, consumerVars, shown, missed>>
  /\ Spend("repeat")

PublishAck(r) ==
  /\ acks[r] # <<>>
  /\ shown' = Head(acks[r])
  /\ acks' = [acks EXCEPT ![r] = Tail(@)]
  /\ UNCHANGED <<updates, process, consumerVars, held, missed, budget>>

LosesConsumer(r) ==
  /\ process[r] = "consuming" /\ Becomes(r, "running")
  /\ missed' = IF next[r] <= updates THEN missed \cup {r} ELSE missed
  /\ UNCHANGED <<updates, consumerVars, held, acks, shown>>
  /\ Spend("break")

(* The container ends; its agent will start another.                       *)
Dies(r) ==
  /\ process[r] # "down" /\ Becomes(r, "down")
  /\ acks' = [acks EXCEPT ![r] = <<>>]
  /\ missed' = missed \cup {r}
  /\ UNCHANGED <<updates, consumerVars, held, shown>>
  /\ Spend("death")

Works(r) == InitializeParameters(r) \/ CreateConsumer(r) \/ HandleParameterUpdate(r)

Next ==
  \/ UpdateParameter
  \/ \E r \in Replicas :
       Works(r) \/ Redeliver(r) \/ PublishAck(r) \/ LosesConsumer(r) \/ Dies(r)

Spec == Init /\ [][Next]_vars

(* Processes run and are restarted, the server delivers; users need not    *)
(* update anything.                                                        *)
FairSpec == Spec /\ \A r \in Replicas : WF_vars(Works(r)) /\ WF_vars(PublishAck(r))

------------------------------------------------------------------------------
(* While a process lives, its parameter never goes back to an older update,*)
(* though messages are delivered again and consumers are created anew.     *)
HeldNotOlder == \A r \in Replicas : process[r] # "down" => held'[r] >= held[r]
NeverOlder == [][HeldNotOlder]_vars

LastValid ==
  LET valid == {u \in 1..updates : u \notin Invalid}
  IN IF valid = {} THEN 0 ELSE CHOOSE u \in valid : \A w \in valid : w <= u

(* Every replica that had a consumer when the last update was published,   *)
(* and kept it, comes to hold that update: replicas do not stay apart.     *)
AllHoldLast == \A r \in Replicas \ missed : held[r] = LastValid
AllFollow == <>[]AllHoldLast

(* What the interface shows in the end is a value that some replica holds, *)
(* also after restarts have brought back the value of the deployment.      *)
SomeHoldsShown == \E r \in Replicas : held[r] = shown
ShownIsHeld == <>[]SomeHoldsShown
===============================================================================
