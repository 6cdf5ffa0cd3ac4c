--------------------------- MODULE PipelineExpansion ---------------------------
(***************************************************************************)
(* core/pipeline.py: the pipeline a user drew (canonical) is expanded into *)
(* the one that runs.  A parallel operator becomes several instances; an   *)
(* output port becomes one runtime port per instance and per downstream    *)
(* operator; canonical edges connect all instances at both ends.  The      *)
(* runtime pipeline is published and loaded again by agents and operators, *)
(* and it can be folded back into the canonical one.                       *)
(*                                                                         *)
(* The uuid of a runtime node is known by what it was made from: its       *)
(* canonical operator, the index of the instance, its canonical port (None *)
(* for the operator itself) and, for a port, the operator it targets.      *)
(***************************************************************************)
EXTENDS Naturals, FiniteSets

CONSTANTS
  Operators, InPorts, OutPorts,
  Owner,          \* the canonical operator of each port
  Configs,        \* parallel configurations an operator may have
  DefaultFactor,  \* DEFAULT_PARALLEL_FACTOR
  None

ExpansionAssumption ==
  /\ IsFiniteSet(Operators)
  /\ InPorts \cap OutPorts = {}
  /\ Owner \in [InPorts \cup OutPorts -> Operators]
  /\ Configs \subseteq [parallel : BOOLEAN, parallelism : Nat]
  /\ DefaultFactor \in Nat \ {0}
  /\ None \notin Operators \cup InPorts \cup OutPorts

VARIABLES
  canonical,   \* the configuration of each operator, and the edges
  runtime,     \* the graph made by the orchestrator, None before
  loaded,      \* the graph an agent or an operator has loaded, None before
  back         \* the canonical pipeline folded back from it, None before

vars == <<canonical, runtime, loaded, back>>

(* parallelism 0 stands for an operator that sets none.                    *)
Copies(c, o) ==
  IF ~c.config[o].parallel THEN 1
  ELSE IF c.config[o].parallelism = 0 THEN DefaultFactor
  ELSE c.config[o].parallelism

Instances(c, o) == {[op |-> o, index |-> i] : i \in 1..Copies(c, o)}

OperatorNode(i) == [op |-> i.op, index |-> i.index, port |-> None, target |-> None]
PortNode(i, p, t) == [op |-> i.op, index |-> i.index, port |-> p, target |-> t]
OperatorOf(n) == [op |-> n.op, index |-> n.index]

(* get_port_fanout_map: downstream operators, not ports.                   *)
Fanout(c, p) == {Owner[e[2]] : e \in {d \in c.edges : d[1] = p}}

OutputNodes(c, p) ==
  LET targets == IF Fanout(c, p) = {} THEN {None} ELSE Fanout(c, p)
  IN {PortNode(i, p, t) : i \in Instances(c, Owner[p]), t \in targets}

InputNodes(c, p) == {PortNode(i, p, i.op) : i \in Instances(c, Owner[p])}

(* Mutant of Connect: the target of an output is not looked at.            *)
ConnectAll(src, dst) == TRUE

(* _should_connect_ports: an output made for one operator leads to no      *)
(* other.                                                                  *)
Connect(src, dst) == src.target \in {None, dst.op}

PortNodes(c) ==
  (UNION {OutputNodes(c, p) : p \in OutPorts}) \cup (UNION {InputNodes(c, p) : p \in InPorts})

(* From operators to their outputs and from inputs to their operators.     *)
OwnerEdges(ports) ==
  {<<OperatorNode(OperatorOf(n)), n>> : n \in {m \in ports : m.port \in OutPorts}}
    \cup {<<n, OperatorNode(OperatorOf(n))>> : n \in {m \in ports : m.port \in InPorts}}

DataEdges(c, ports) ==
  {e \in {n \in ports : n.port \in OutPorts} \X {n \in ports : n.port \in InPorts} :
     /\ <<e[1].port, e[2].port>> \in c.edges
     /\ Connect(e[1], e[2])}

(* _attach_ports_to_operators.                                             *)
Attached(i, ports, kind) == {n \in ports : n.port \in kind /\ OperatorOf(n) = i}

(* expand_canonical_to_runtime.                                            *)
Expansion(c) ==
  LET ports == PortNodes(c)
      instances == UNION {Instances(c, o) : o \in Operators}
  IN [operators |-> {[id |-> i,
                      inputs |-> Attached(i, ports, InPorts),
                      outputs |-> Attached(i, ports, OutPorts),
                      config |-> c.config[i.op]] : i \in instances},
      ports |-> ports,
      edges |-> OwnerEdges(ports) \cup DataEdges(c, ports)]

PortEdges(g) == {e \in g.edges : e[1] \in g.ports /\ e[2] \in g.ports}

(* _build_operator_graph: which instances feed which others.               *)
OperatorGraph(g) ==
  {<<OperatorOf(e[1]), OperatorOf(e[2])>> :
     e \in {d \in PortEdges(g) : OperatorOf(d[1]) # OperatorOf(d[2])}}

(* from_upstream_subgraph: all a node depends on.                          *)
Upstream(edges, node) ==
  LET depth == Cardinality({e[1] : e \in edges})
      visited[k \in 0..depth] ==
        IF k = 0 THEN {node}
        ELSE LET seen == visited[k - 1] IN seen \cup {e[1] : e \in {d \in edges : d[2] \in seen}}
  IN visited[depth]

Cyclic(edges) == \E e \in edges : e[2] \in Upstream(edges, e[1])

(* to_canonical: what the instances have in common, once.                  *)
Folded(g) ==
  [operators |-> {[op |-> o.id.op,
                   inputs |-> {n.port : n \in o.inputs},
                   outputs |-> {n.port : n \in o.outputs},
                   config |-> o.config] : o \in g.operators},
   ports |-> {[port |-> n.port, op |-> n.op] : n \in g.ports},
   edges |-> {<<e[1].port, e[2].port>> : e \in PortEdges(g)}]

Drawn(c) ==
  [operators |-> {[op |-> o,
                   inputs |-> {p \in InPorts : Owner[p] = o},
                   outputs |-> {p \in OutPorts : Owner[p] = o},
                   config |-> c.config[o]] : o \in Operators},
   ports |-> {[port |-> p, op |-> Owner[p]] : p \in InPorts \cup OutPorts},
   edges |-> c.edges]

Init ==
  /\ canonical \in [config : [Operators -> Configs], edges : SUBSET (OutPorts \X InPorts)]
  /\ runtime = None /\ loaded = None /\ back = None

(* The orchestrator expands the pipeline of a deployment.                  *)
Expand ==
  /\ runtime = None
  /\ runtime' = Expansion(canonical)
  /\ UNCHANGED <<canonical, loaded, back>>

(* The nodes by type, and the edges without their data.                    *)
ToRuntime(g) == [operators |-> g.operators, ports |-> g.ports, edges |-> g.edges]

(* Every operator and port is added as a node, then the edges.             *)
FromRuntime(p) == [operators |-> p.operators, ports |-> p.ports, edges |-> p.edges]

(* to_runtime and from_runtime_pipeline, at an agent or an operator.       *)
Load ==
  /\ runtime # None /\ loaded = None
  /\ loaded' = FromRuntime(ToRuntime(runtime))
  /\ UNCHANGED <<canonical, runtime, back>>

Fold ==
  /\ loaded # None /\ back = None
  /\ back' = Folded(loaded)
  /\ UNCHANGED <<canonical, runtime, loaded>>

Next == Expand \/ Load \/ Fold

Spec == Init /\ [][Next]_vars

(* What is expanded, published, loaded and folded again is the pipeline    *)
(* that was drawn: no operator, port or edge is lost on the way and none   *)
(* is made up, whatever is parallel, unconnected or connected to itself.   *)
RoundTrip == back # None => back = Drawn(canonical)

(* An instance sends each result over all its runtime output ports, one    *)
(* message each.  Each instance of a downstream operator is reached by one *)
(* and only one of them for every edge that was drawn, so no replica is    *)
(* left out and no operator is sent a result twice.                        *)
ServedOnce ==
  loaded # None =>
    \A e \in canonical.edges :
      \A i \in Instances(canonical, Owner[e[1]]), j \in Instances(canonical, Owner[e[2]]) :
        Cardinality({d \in PortEdges(loaded) :
                       /\ d[1].port = e[1] /\ OperatorOf(d[1]) = i
                       /\ d[2].port = e[2] /\ OperatorOf(d[2]) = j}) = 1

(* The peers of one runtime output port share its messages between them,   *)
(* so they must be replicas of one operator: were another operator among   *)
(* them, each would miss what the other takes.                             *)
PeersAreReplicas ==
  loaded # None =>
    \A d \in PortEdges(loaded), e \in PortEdges(loaded) : d[1] = e[1] => d[2].op = e[2].op

(* The assigner, which sorts the instances, refuses just the pipelines in  *)
(* which data can come round through several of them: those with a cycle   *)
(* of operators, and those where a replicated operator feeds itself.  One  *)
(* instance that feeds itself is not refused.                              *)
SortableUnlessLoop ==
  LET feeds == {<<Owner[e[1]], Owner[e[2]]>> : e \in canonical.edges}
      harmless == {f \in feeds : f[1] = f[2] /\ Copies(canonical, f[1]) = 1}
  IN loaded # None => (Cyclic(OperatorGraph(loaded)) <=> Cyclic(feeds \ harmless))

(* The runtime ids in an operator's maps are ports of the graph and the    *)
(* graph connects ports of the right kinds only.                           *)
TypeOK ==
  /\ canonical.edges \subseteq OutPorts \X InPorts
  /\ \A g \in {runtime, loaded} \ {None} :
       /\ \A o \in g.operators : o.inputs \cup o.outputs \subseteq g.ports
       /\ g.ports = UNION {o.inputs \cup o.outputs : o \in g.operators}
===============================================================================
