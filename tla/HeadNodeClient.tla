---------------------------- MODULE HeadNodeClient ----------------------------
(***************************************************************************)
(* SharedStateClient, as an operator uses it to find the head node of the  *)
(* detector's cluster.  A background process subscribes to a publisher of  *)
(* the shared state and pushes what it finds through a local queue; the    *)
(* client drains the queue whenever the operator asks.  An operator's      *)
(* parameter may name another publisher at any time.                       *)
(***************************************************************************)
EXTENDS Naturals, Sequences, FiniteSetsExt, SequencesExt

CONSTANTS
  Nodes,
  Addresses,     \* publishers an operator may be told to follow
  Unusable,      \* those of them that zmq refuses to connect to
  None,
  Limit          \* messages that a zmq queue holds

(* How often the cluster changes, the parameter is set, and a rebind of    *)
(* the local socket fails.                                                 *)
CONSTANTS MaxChanges, MaxSwitches, MaxBindErrors

ClientAssumption ==
  /\ None \notin Nodes
  /\ Unusable \subseteq Addresses
  /\ Limit \in Nat \ {0}
  /\ {MaxChanges, MaxSwitches, MaxBindErrors} \subseteq Nat

VARIABLES
  cluster,     \* per publisher, the state it publishes
  subscriber,  \* messages on their way to the background process
  process,     \* the background process
  queue,       \* updates pushed and not yet pulled
  client,      \* pub_address and what the client is doing
  head,        \* current_head_node_id
  connected,   \* _connected_node_id
  budget

vars == <<cluster, subscriber, process, queue, client, head, connected, budget>>

(* A shared state, as far as the head node goes: the nodes that have a     *)
(* node group with short id 0, in the order of node_map.                   *)
States == {s \in BoundedSeq(Nodes, 2) : \A i, j \in DOMAIN s : s[i] = s[j] => i = j}
Message(body, s) == [body |-> body, nodes |-> s]
Heartbeat == Message("HUGZ", <<>>)

HeadOf(s) == IF s = <<>> THEN None ELSE s[1]

Update(type, node) == [type |-> type, node |-> node]

Off == [pc |-> "off", address |-> None, last |-> None, next |-> None]

ClientTypeOK ==
  /\ cluster \in [Addresses -> States]
  /\ subscriber \in Seq([body : {"", "HUGZ"}, nodes : States])
  /\ queue \in Seq([type : {"state", "connected", "disconnected"},
                     node : Nodes \cup {None}])
  /\ Len(subscriber) <= Limit /\ Len(queue) <= Limit
  /\ process \in [pc : {"off", "starting", "receiving", "pushing", "telling"},
                  address : Addresses \cup {None}, last : Nodes \cup {None},
                  next : Nodes \cup {None}]
  /\ client \in [pc : {"open", "switching", "rebinding", "closing", "closed", "lost"},
                 address : Addresses]
  /\ head \in Nodes \cup {None}
  /\ connected \in Nodes \cup {None}
  /\ budget \in [{"change", "switch", "bind"} -> Nat]

Init ==
  /\ cluster \in [Addresses -> States]
  /\ subscriber = <<>>
  /\ \E a \in Addresses \ Unusable :
       /\ client = [pc |-> "open", address |-> a]
       /\ process = [Off EXCEPT !.pc = "starting", !.address = a]
  /\ queue = <<>>
  /\ head = None
  /\ connected = None
  /\ budget = [change |-> MaxChanges, switch |-> MaxSwitches, bind |-> MaxBindErrors]

Spend(k) == budget[k] > 0 /\ budget' = [budget EXCEPT ![k] = @ - 1]
Free == UNCHANGED budget

------------------------------------------------------------------------------
(* The publisher.  What it sends to a full queue is lost.                  *)
Changes(a, s) ==
  /\ cluster[a] # s
  /\ cluster' = [cluster EXCEPT ![a] = s]
  /\ UNCHANGED <<subscriber, process, queue, client, head, connected>>
  /\ Spend("change")

Listens == process.pc \in {"receiving", "pushing", "telling"}

Publishes(m) ==
  /\ Listens /\ Len(subscriber) < Limit
  /\ subscriber' = Append(subscriber, m)
  /\ UNCHANGED <<cluster, process, queue, client, head, connected>> /\ Free

PublishesState == Listens /\ Publishes(Message("", cluster[process.address]))
Beats == Publishes(Heartbeat)

------------------------------------------------------------------------------
(* The background process.  It looks at its stop event before each message *)
(* and not while a push waits for room in the queue.                       *)
Stopping == client.pc \in {"switching", "closing"}

Ends ==
  /\ process' = Off
  /\ subscriber' = <<>>
  /\ UNCHANGED <<cluster, queue, client, head, connected>> /\ Free

(* The names that the finally clause cleans up are not bound when the      *)
(* sockets could not be set up: the process ends either way.               *)
SetupFails == process.pc = "starting" /\ process.address \in Unusable /\ Ends
SetsUp ==
  /\ process.pc = "starting" /\ process.address \notin Unusable
  /\ process' = [process EXCEPT !.pc = "receiving"]
  /\ UNCHANGED <<cluster, subscriber, queue, client, head, connected>> /\ Free
SeesStop == process.pc = "receiving" /\ Stopping /\ Ends

Receives ==
  /\ process.pc = "receiving" /\ subscriber # <<>>
  /\ subscriber' = Tail(subscriber)
  /\ process' = IF subscriber[1].body = "HUGZ" THEN process
                ELSE [process EXCEPT !.pc = "pushing",
                                     !.next = HeadOf(subscriber[1].nodes)]
  /\ UNCHANGED <<cluster, queue, client, head, connected>> /\ Free

(* Mutant of PushesState: the queue has no limit.                          *)
PushesAlways ==
  /\ process.pc = "pushing"
  /\ queue' = Append(queue, Update("state", process.next))
  /\ process' = [process EXCEPT
       !.pc = IF process.next = process.last THEN "receiving" ELSE "telling"]
  /\ UNCHANGED <<cluster, subscriber, client, head, connected>> /\ Free

(* The state is pushed before the head node is compared with the last one. *)
PushesState ==
  /\ process.pc = "pushing" /\ Len(queue) < Limit
  /\ queue' = Append(queue, Update("state", process.next))
  /\ process' = [process EXCEPT
       !.pc = IF process.next = process.last THEN "receiving" ELSE "telling"]
  /\ UNCHANGED <<cluster, subscriber, client, head, connected>> /\ Free

(* Mutant of TellsHead: what does not fit into the queue is lost.          *)
TellsIfRoom ==
  /\ process.pc = "telling"
  /\ queue' = IF Len(queue) = Limit THEN queue
              ELSE Append(queue, Update(IF process.next = None THEN "disconnected"
                                        ELSE "connected", process.next))
  /\ process' = [process EXCEPT !.pc = "receiving", !.last = process.next]
  /\ UNCHANGED <<cluster, subscriber, client, head, connected>> /\ Free

(* Mutant of TellsHead: the last head node is not remembered when it goes. *)
TellsConnectedOnly ==
  /\ process.pc = "telling" /\ Len(queue) < Limit
  /\ queue' = IF process.next = None THEN queue
              ELSE Append(queue, Update("connected", process.next))
  /\ process' = [process EXCEPT !.pc = "receiving", !.last = process.next]
  /\ UNCHANGED <<cluster, subscriber, client, head, connected>> /\ Free

TellsHead ==
  /\ process.pc = "telling" /\ Len(queue) < Limit
  /\ queue' = Append(queue, Update(IF process.next = None THEN "disconnected"
                                   ELSE "connected", process.next))
  /\ process' = [process EXCEPT !.pc = "receiving", !.last = process.next]
  /\ UNCHANGED <<cluster, subscriber, client, head, connected>> /\ Free

------------------------------------------------------------------------------
(* receive_update drains what has arrived, which is a part of what has     *)
(* been pushed.  HeadAfter is the head node after its handlers.            *)
HeadAfter(us) ==
  LET news == {i \in DOMAIN us : us[i].type # "state"}
  IN IF news = {} THEN head ELSE us[Max(news)].node

Drains(n) ==
  /\ client.pc = "open" /\ n <= Len(queue)
  /\ queue' = SubSeq(queue, n + 1, Len(queue))
  /\ head' = HeadAfter(SubSeq(queue, 1, n))

(* get_current_head_node_id and get_latest_state.                          *)
Asks ==
  /\ \E n \in 1..Limit : Drains(n)
  /\ UNCHANGED <<cluster, subscriber, process, client, connected>> /\ Free

(* get_data_socket leaves the socket alone when its node is the head.      *)
GetsDataSocket ==
  /\ \E n \in 0..Limit : Drains(n)
  /\ connected' = head'
  /\ UNCHANGED <<cluster, subscriber, process, client>> /\ Free

(* update_pub_address.  It shuts down first.                               *)
Switches(a) ==
  /\ client.pc \in {"open", "lost"} /\ a # client.address
  /\ client' = [pc |-> "switching", address |-> a]
  /\ UNCHANGED <<cluster, subscriber, process, queue, head, connected>>
  /\ Spend("switch")

Closes ==
  /\ client.pc \in {"open", "lost"}
  /\ client' = [client EXCEPT !.pc = "closing"]
  /\ UNCHANGED <<cluster, subscriber, process, queue, head, connected>> /\ Free

(* A process that has not ended when its join times out.                   *)
Terminates == Stopping /\ process.pc # "off" /\ Ends

ShutsDown ==
  /\ Stopping /\ process.pc = "off"
  /\ client' = [client EXCEPT !.pc = IF @ = "switching" THEN "rebinding" ELSE "closed"]
  /\ connected' = None
  /\ queue' = <<>>
  /\ UNCHANGED <<cluster, subscriber, process, head>> /\ Free

(* The new process knows of no head node, while the client keeps the one   *)
(* it knew.                                                                *)
Rebinds ==
  /\ client.pc = "rebinding"
  /\ client' = [client EXCEPT !.pc = "open"]
  /\ process' = [Off EXCEPT !.pc = "starting", !.address = client.address]
  /\ UNCHANGED <<cluster, subscriber, queue, head, connected>> /\ Free

(* Without its socket the client raises, and a call with the same address  *)
(* returns at once: only another address brings it back.                   *)
RebindFails ==
  /\ client.pc = "rebinding"
  /\ client' = [client EXCEPT !.pc = "lost"]
  /\ UNCHANGED <<cluster, subscriber, process, queue, head, connected>>
  /\ Spend("bind")

------------------------------------------------------------------------------
Publisher == PublishesState \/ Beats
Background == \/ SetupFails \/ SetsUp \/ SeesStop
              \/ Receives \/ PushesState \/ TellsHead
Calls == GetsDataSocket \/ Asks
Shutdown == Terminates \/ ShutsDown \/ Rebinds
Closed == client.pc = "closed" /\ UNCHANGED vars

Next ==
  \/ \E a \in Addresses, s \in States : Changes(a, s)
  \/ Publisher
  \/ Background
  \/ Calls
  \/ \E a \in Addresses : Switches(a)
  \/ Closes
  \/ Shutdown
  \/ RebindFails
  \/ Closed

Spec == Init /\ [][Next]_vars

(* The publisher repeats its state, the process runs, the operator calls   *)
(* its kernel again and again, and a join has a timeout.                   *)
FairSpec ==
  /\ Spec
  /\ SF_vars(PublishesState)
  /\ WF_vars(Background)
  /\ WF_vars(GetsDataSocket)
  /\ WF_vars(Shutdown)

------------------------------------------------------------------------------
(* What the client will know once it has pulled all that is pushed is what *)
(* its process knows (_process_incoming_message, receive_update).          *)
KnowsTheHead ==
  process.pc = "receiving" /\ process.last # None /\ client.pc = "open"
    => HeadAfter(queue) = process.last

(* While the clusters stay as they are, a head node that the client takes  *)
(* up is that of the publisher it was last told to follow: nothing of an   *)
(* earlier publisher is delivered late, and no heartbeat takes the head    *)
(* away (update_pub_address, the check for body == "HUGZ").                *)
TakesPublished == head' # head => head' = HeadOf(cluster[client.address])
HeadIsPublished ==
  [][TakesPublished]_vars

(* The head node of the publisher that the client follows becomes the      *)
(* client's, and its data socket is connected to it: for good once the     *)
(* cluster no longer changes.                                              *)
Watches(a, s) == client.pc = "open" /\ client.address = a /\ cluster[a] = s
Has(s) == head = HeadOf(s) /\ connected = HeadOf(s)
Follows(a, s) == <>[]Watches(a, s) => <>[]Has(s)

UpToDate ==
  \A a \in Addresses \ Unusable : client.pc = "open" /\ client.address = a => Has(cluster[a])
CatchesUp == <>[]UpToDate

(* get_data_socket "returns a connected socket to the current head node's  *)
(* data port": also when the publisher has been changed for one whose      *)
(* cluster has no head node.                                               *)
(* Promised and not kept: see the README, further divergences.             *)
SocketOfTheHead ==
  \A a \in Addresses \ Unusable : Follows(a, <<>>)

(* A change of the publisher and a shutdown come to an end, also when the  *)
(* process waits for room in a queue that nobody drains any more.          *)
Settled == client.pc \notin {"switching", "closing"}
SwitchesEnd == []<>Settled
===============================================================================
