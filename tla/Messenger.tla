------------------------------- MODULE Messenger -------------------------------
(***************************************************************************)
(* How a ZeroMQ messenger connects its inputs to the output ports before   *)
(* them: it polls the bucket for the address of each, connects, and then   *)
(* watches the keys, so as to reconnect when an upstream operator has been *)
(* restarted at another address.  One input port, several upstream ports;  *)
(* an address is the number of its publication, 0 is a key that is absent. *)
(***************************************************************************)
EXTENDS Naturals, Sequences, SequencesExt, FiniteSets

CONSTANTS
  Upstreams,       \* the output ports before the input port, numbered in the
                   \* order in which they are set up
  MaxStarts,       \* starts of each upstream operator, the first included
  MayMoveEarly,    \* an upstream may restart before it is watched
  MayTimeOut       \* the ten seconds of the start may pass

MessengerAssumption ==
  Upstreams \subseteq Nat \ {0} /\ MaxStarts \in Nat \ {0} /\ {MayMoveEarly, MayTimeOut} \subseteq BOOLEAN

Unknown == MaxStarts + 1
NoUpdate == [up |-> 0, val |-> 0]

VARIABLES
  starts,       \* addresses that each upstream has published so far
  published,    \* the key of each upstream port
  stage,        \* of the messenger: "setup", "watching", "failed", "stopped"
  addressMap,   \* info.address_map, 0 when there is no entry
  connections,  \* how often the input socket is connected at each address
  connectedTo,  \* how often each upstream is in info.connected_to
  watched,      \* upstream ports with a watcher
  updates,      \* what each watcher has yet to give
  state,        \* the watcher's memory
  msg           \* the variable of that name, which outlives a timeout

vars == <<starts, published, stage, addressMap, connections, connectedTo, watched, updates,
          state, msg>>
keyVars == <<starts, published>>
socketVars == <<addressMap, connections, connectedTo>>
watchVars == <<watched, updates, state, msg>>

Addresses == 0..MaxStarts

TypeOK ==
  /\ starts \in [Upstreams -> Addresses] /\ published \in [Upstreams -> Addresses]
  /\ stage \in {"setup", "watching", "failed", "stopped"}
  /\ addressMap \in [Upstreams -> Addresses]
  /\ connections \in [Upstreams -> [Addresses -> Nat]]
  /\ connectedTo \in [Upstreams -> Nat]
  /\ watched \subseteq Upstreams
  /\ updates \in [Upstreams -> Seq(Addresses)]
  /\ state \in [Upstreams -> Addresses \cup {Unknown}]
  /\ msg = NoUpdate \/ (msg.up \in watched /\ msg.val \in Addresses)

Init ==
  /\ starts = [u \in Upstreams |-> 0] /\ published = [u \in Upstreams |-> 0]
  /\ stage = "setup"
  /\ addressMap = [u \in Upstreams |-> 0]
  /\ connections = [u \in Upstreams |-> [a \in Addresses |-> 0]]
  /\ connectedTo = [u \in Upstreams |-> 0]
  /\ watched = {}
  /\ updates = [u \in Upstreams |-> <<>>]
  /\ state = [u \in Upstreams |-> Unknown]
  /\ msg = NoUpdate

Put(u, a) ==
  /\ published' = [published EXCEPT ![u] = a]
  /\ updates' = IF u \in watched THEN [updates EXCEPT ![u] = Append(@, a)] ELSE updates

Known(u) == u \in watched /\ state[u] # Unknown

------------------------------------------------------------------------------
(* The upstream operators: setup_outputs binds a free port, publishes it   *)
(* and puts it again every interval; the key goes when they end.           *)
SetupOutputs(u) ==
  /\ published[u] = 0 /\ starts[u] < MaxStarts
  /\ starts[u] = 0 \/ MayMoveEarly \/ Known(u)
  /\ starts' = [starts EXCEPT ![u] = @ + 1]
  /\ Put(u, starts[u] + 1)
  /\ UNCHANGED <<stage, socketVars, watched, state, msg>>

Republishes(u) ==
  /\ published[u] # 0 /\ u \in watched /\ updates[u] = <<>>
  /\ Put(u, published[u])
  /\ UNCHANGED <<starts, stage, socketVars, watched, state, msg>>

Ends(u) ==
  /\ published[u] # 0 /\ starts[u] < MaxStarts
  /\ MayMoveEarly \/ Known(u)
  /\ Put(u, 0)
  /\ UNCHANGED <<starts, stage, socketVars, watched, state, msg>>

------------------------------------------------------------------------------
(* setup_inputs: upstream after upstream, each awaited in turn.  With each *)
(* of them bind_or_connect connects the whole address map, so the earlier  *)
(* ones are connected, and entered in connected_to, once again.            *)
One(holds) == IF holds THEN 1 ELSE 0

SetupInput(u) ==
  /\ stage = "setup" /\ addressMap[u] = 0 /\ published[u] # 0
  /\ \A v \in Upstreams : v < u => addressMap[v] # 0
  /\ addressMap' = [addressMap EXCEPT ![u] = published[u]]
  /\ connections' = [v \in Upstreams |-> [a \in Addresses |->
                       connections[v][a] + One(a # 0 /\ a = addressMap'[v])]]
  /\ connectedTo' = [v \in Upstreams |-> connectedTo[v] + One(addressMap'[v] # 0)]
  /\ UNCHANGED <<keyVars, stage, watchVars>>

StartTimesOut ==
  /\ MayTimeOut /\ stage = "setup" /\ stage' = "failed"
  /\ UNCHANGED <<keyVars, socketVars, watchVars>>

(* The watcher is given the value the key has now, and every later one.    *)
Watch(u) ==
  /\ stage = "setup" /\ \A v \in Upstreams : addressMap[v] # 0
  /\ u \notin watched /\ watched' = watched \cup {u}
  /\ updates' = [updates EXCEPT ![u] = IF published[u] = 0 THEN <<>> ELSE <<published[u]>>]
  /\ stage' = IF watched' = Upstreams THEN "watching" ELSE stage
  /\ UNCHANGED <<keyVars, socketVars, state, msg>>

------------------------------------------------------------------------------
(* Socket.disconnect and Socket.reconnect: libzmq closes every connection  *)
(* of the address, list.remove takes one entry of connected_to away.       *)
Disconnected(u) ==
  IF connectedTo[u] = 0 THEN connections[u] ELSE [connections[u] EXCEPT ![addressMap[u]] = 0]

(* Mutant of Reconnect: the old address is not disconnected.               *)
ReconnectsOver(u, a) ==
  /\ connections' = [connections EXCEPT ![u][a] = @ + 1]
  /\ connectedTo' = [connectedTo EXCEPT ![u] = @ + 1]
  /\ addressMap' = [addressMap EXCEPT ![u] = a]

Reconnect(u, a) ==
  /\ connections' = [connections EXCEPT ![u] = [Disconnected(u) EXCEPT ![a] = @ + 1]]
  /\ connectedTo' = [connectedTo EXCEPT ![u] = IF @ = 0 THEN 1 ELSE @]
  /\ addressMap' = [addressMap EXCEPT ![u] = a]

(* A removal is meant to disconnect.  The loop that does it reuses the name*)
(* of the port, so it disconnects nothing and remembers nothing.           *)

Removed(u) == UNCHANGED <<state, socketVars>>

(* What the watcher does with a message: the first value of a key is only  *)
(* remembered, so is one it has seen.                                      *)
Handles(u, a) ==
  IF state[u] = Unknown THEN state' = [state EXCEPT ![u] = a] /\ UNCHANGED socketVars
  ELSE IF a = state[u] THEN UNCHANGED <<state, socketVars>>
  ELSE IF a = 0 THEN Removed(u)
  ELSE /\ state' = [state EXCEPT ![u] = a]
       /\ IF a = addressMap[u] THEN UNCHANGED socketVars ELSE Reconnect(u, a)

HandleUpdate(u) ==
  /\ stage = "watching" /\ updates[u] # <<>>
  /\ msg' = [up |-> u, val |-> Head(updates[u])]
  /\ updates' = [updates EXCEPT ![u] = Tail(@)]
  /\ Handles(u, Head(updates[u]))
  /\ UNCHANGED <<keyVars, stage, watched>>

(* No update of u within a second: the message before is handled again.    *)
HandleTimeout(u) ==
  /\ stage = "watching" /\ updates[u] = <<>> /\ msg # NoUpdate
  /\ Handles(msg.up, msg.val)
  /\ UNCHANGED <<keyVars, stage, watched, updates, msg>>

Stop ==
  /\ stage = "watching" /\ stage' = "stopped"
  /\ connections' = [u \in Upstreams |-> [a \in Addresses |-> 0]]
  /\ connectedTo' = [u \in Upstreams |-> 0]
  /\ UNCHANGED <<keyVars, addressMap, watchVars>>

Steps(u) == SetupInput(u) \/ Watch(u) \/ HandleUpdate(u) \/ HandleTimeout(u)

Next ==
  \/ \E u \in Upstreams : SetupOutputs(u) \/ Republishes(u) \/ Ends(u) \/ Steps(u)
  \/ StartTimesOut \/ Stop

Spec == Init /\ [][Next]_vars

(* Upstream operators are restarted by their agents; nobody need stop.     *)
FairSpec ==
  /\ Spec
  /\ \A u \in Upstreams :
       /\ WF_vars(SetupOutputs(u)) /\ WF_vars(SetupInput(u)) /\ WF_vars(Watch(u))
       /\ WF_vars(HandleUpdate(u))

------------------------------------------------------------------------------
Connected(u) == connections[u][published[u]] > 0

(* messenger.py:288: the inputs follow the addresses of the upstream ports:*)
(* in the end every one is connected at the address it has now.            *)
AllConnected == stage = "watching" => \A u \in Upstreams : published[u] # 0 => Connected(u)
Follows == <>[]AllConnected

(* The same as long as no upstream moves before its watcher knows it.      *)
FollowsOnceWatched == Follows

(* Until it stops, the input is connected at the address it has for each   *)
(* upstream and at no address that an upstream has left, from which        *)
(* messages would come twice or never, however often it was connected      *)
(* there: a disconnect closes all of them, and connected_to, from which it *)
(* takes one entry, never lacks an upstream that is connected.             *)
OneAddressEach ==
  \A u \in Upstreams : \A a \in Addresses :
    (connections[u][a] > 0) <=> (stage # "stopped" /\ a # 0 /\ a = addressMap[u])
===============================================================================
