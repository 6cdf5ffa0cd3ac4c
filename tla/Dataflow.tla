------------------------------- MODULE Dataflow -------------------------------
(***************************************************************************)
(* Messages between the operators of a pipeline: a messenger sends a       *)
(* result to one peer of each of its output ports and waits until all of   *)
(* them have taken it; it receives one message from each of its input      *)
(* ports before it hands any of them to the kernel.  The sockets hold a    *)
(* bounded number of messages.  A message is known by the number its       *)
(* source gave it; results carry the number of what they were made from.   *)
(***************************************************************************)
EXTENDS Naturals, Sequences, SequencesExt, FiniteSets

CONSTANTS
  Operators, InPorts, OutPorts,
  Owner,          \* the operator of each port
  Edges,          \* pairs of an output port and an input port
  HighWaterMark,  \* messages a connection holds
  Messages        \* messages that a source makes

DataflowAssumption ==
  /\ Owner \in [InPorts \cup OutPorts -> Operators]
  /\ Edges \subseteq OutPorts \X InPorts
  /\ {HighWaterMark, Messages} \subseteq Nat \ {0}

VARIABLES
  made,       \* messages each source has made
  channel,    \* what each connection holds
  taken,      \* of each input port: what the receive under way has, 0 for nothing
  recvQueue,  \* recv_queue of each messenger
  kernel,     \* the message its kernel works on, 0 for none
  outbox,     \* output ports that have yet to take the result
  handed      \* per input port, the messages the kernel has been given

vars == <<made, channel, taken, recvQueue, kernel, outbox, handed>>

InOf(o) == {p \in InPorts : Owner[p] = o}
OutOf(o) == {p \in OutPorts : Owner[p] = o}
Sources == {o \in Operators : InOf(o) = {}}
Sinks == {o \in Operators : OutOf(o) = {}}
Ids == 1..Messages

TypeOK ==
  /\ made \in [Sources -> 0..Messages]
  /\ \A e \in Edges : channel[e] \in Seq(Ids) /\ Len(channel[e]) <= HighWaterMark
  /\ taken \in [InPorts -> 0..Messages]
  /\ \A o \in Operators :
       /\ recvQueue[o] \in Seq(InPorts \X Ids) /\ Len(recvQueue[o]) < Cardinality(InOf(o)) + 1
       /\ outbox[o] # {} => kernel[o] # 0
  /\ kernel \in [Operators -> 0..Messages]
  /\ \A o \in Operators : outbox[o] \subseteq OutOf(o)

Init ==
  /\ made = [o \in Sources |-> 0]
  /\ channel = [e \in Edges |-> <<>>]
  /\ taken = [p \in InPorts |-> 0]
  /\ recvQueue = [o \in Operators |-> <<>>]
  /\ kernel = [o \in Operators |-> 0]
  /\ outbox = [o \in Operators |-> {}]
  /\ handed = [p \in InPorts |-> <<>>]

(* A source runs its kernel without an input.                              *)
Make(o) ==
  /\ o \in Sources /\ kernel[o] = 0 /\ made[o] < Messages
  /\ made' = [made EXCEPT ![o] = @ + 1]
  /\ kernel' = [kernel EXCEPT ![o] = made[o] + 1]
  /\ outbox' = [outbox EXCEPT ![o] = OutOf(o)]
  /\ UNCHANGED <<channel, taken, recvQueue, handed>>

(* Mutant of RecvOne: of what has come the newest message is taken.        *)
TakesNewest(p) ==
  /\ recvQueue[Owner[p]] = <<>> /\ kernel[Owner[p]] = 0
  /\ taken[p] = 0
  /\ \E e \in Edges :
       /\ e[2] = p /\ channel[e] # <<>>
       /\ taken' = [taken EXCEPT ![p] = Last(channel[e])]
       /\ channel' = [channel EXCEPT ![e] = Front(@)]
  /\ UNCHANGED <<made, recvQueue, kernel, outbox, handed>>

(* _recv_and_update_metrics of one socket, while recv gathers them all.    *)
RecvOne(p) ==
  /\ recvQueue[Owner[p]] = <<>> /\ kernel[Owner[p]] = 0
  /\ taken[p] = 0
  /\ \E e \in Edges :
       /\ e[2] = p /\ channel[e] # <<>>
       /\ taken' = [taken EXCEPT ![p] = Head(channel[e])]
       /\ channel' = [channel EXCEPT ![e] = Tail(@)]
  /\ UNCHANGED <<made, recvQueue, kernel, outbox, handed>>

(* Every input has delivered: all messages go to the queue, whose first is *)
(* returned at once.                                                       *)
Gathered(o) ==
  /\ InOf(o) # {} /\ recvQueue[o] = <<>> /\ \A p \in InOf(o) : taken[p] # 0
  /\ recvQueue' = [recvQueue EXCEPT ![o] = SetToSeq({<<p, taken[p]>> : p \in InOf(o)})]
  /\ taken' = [p \in InPorts |-> IF Owner[p] = o THEN 0 ELSE taken[p]]
  /\ UNCHANGED <<made, channel, kernel, outbox, handed>>

(* recv returns the next of the queue and the kernel makes a result of it. *)
Recv(o) ==
  /\ kernel[o] = 0 /\ recvQueue[o] # <<>>
  /\ LET next == Head(recvQueue[o])
     IN /\ handed' = [handed EXCEPT ![next[1]] = Append(@, next[2])]
        /\ kernel' = [kernel EXCEPT ![o] = IF o \in Sinks THEN 0 ELSE next[2]]
  /\ recvQueue' = [recvQueue EXCEPT ![o] = Tail(@)]
  /\ outbox' = [outbox EXCEPT ![o] = OutOf(o)]
  /\ UNCHANGED <<made, channel, taken>>

(* Mutant of SendTo: a message that finds no room is dropped.              *)
SendDrops(o, e) ==
  channel' = IF Len(channel[e]) < HighWaterMark THEN [channel EXCEPT ![e] = Append(@, kernel[o])]
             ELSE channel

(* A PUSH socket gives a message to one of its peers that has room.        *)
SendTo(o, e) ==
  /\ Len(channel[e]) < HighWaterMark
  /\ channel' = [channel EXCEPT ![e] = Append(@, kernel[o])]

(* One send of the gather; send is over when the last of them is.          *)
SendOne(o, p) ==
  /\ p \in outbox[o]
  /\ \E e \in Edges : e[1] = p /\ SendTo(o, e)
  /\ outbox' = [outbox EXCEPT ![o] = @ \ {p}]
  /\ kernel' = IF outbox[o] = {p} THEN [kernel EXCEPT ![o] = 0] ELSE kernel
  /\ UNCHANGED <<made, taken, recvQueue, handed>>

Works(o) ==
  \/ Make(o) \/ Gathered(o) \/ Recv(o)
  \/ \E p \in InOf(o) : RecvOne(p)
  \/ \E p \in OutOf(o) : SendOne(o, p)

Next == \E o \in Operators : Works(o)

Spec == Init /\ [][Next]_vars

FairSpec == Spec /\ \A o \in Operators : WF_vars(Works(o))

------------------------------------------------------------------------------
(* Every input port of every operator is given each message of the source  *)
(* once: fan-out, bounded sockets and joins that wait for all their inputs *)
(* neither block one another for ever nor lose anything.                   *)
Arrived == \A o \in Sinks : \A p \in InOf(o) : ToSet(handed[p]) = Ids
AllArrive == []<>Arrived

(* No port is given a message twice.                                       *)
OnlyOnce == \A p \in InPorts : IsInjective(handed[p])

(* An operator with several inputs takes them in step: none of its ports   *)
(* is ever more than one message ahead of another.                         *)
InStep ==
  \A p, q \in InPorts : Owner[p] = Owner[q] => Len(handed[p]) <= Len(handed[q]) + 1

(* Without replicas every port is given the messages in the order in which *)
(* the source has made them, so a join sees equal numbers together.        *)
InOrder == \A p \in InPorts : \A i \in DOMAIN handed[p] : handed[p][i] = i
===============================================================================
