------------------------------- MODULE Assigner -------------------------------
(***************************************************************************)
(* orchestrator/assign.py: the instances of an expanded pipeline are given *)
(* to the agents one after another, upstream ones first, each to an agent  *)
(* that has its tags, on a network of its upstream operators if there is   *)
(* one, and among those to one with the fewest operators.                  *)
(*                                                                         *)
(* The order is any topological order: which one networkx finds depends on *)
(* the order of nodes in the graph.                                        *)
(***************************************************************************)
EXTENDS PipelineExpansion

CONSTANTS
  Agents, Networks, Tags,
  Drawings   \* canonical pipelines to run

AssignerAssumption ==
  /\ ExpansionAssumption
  /\ Drawings \subseteq [config : [Operators -> Configs], edges : SUBSET (OutPorts \X InPorts)]

VARIABLES
  agents,      \* the agents the orchestrator knows: networks and tags
  required,    \* tags of each canonical operator
  phase,       \* of the assigner, or the error it raised
  remaining,   \* instances still to be placed
  assignments, \* instances of each agent
  networks,    \* operator_networks: of each instance that is placed
  rejected     \* unassignable_operators

assignVars == <<agents, required, phase, remaining, assignments, networks, rejected>>

Graph == OperatorGraph(runtime)
AllInstances == {o.id : o \in runtime.operators}
AgentOf(i) == CHOOSE a \in DOMAIN agents : i \in assignments[a]
Predecessors(i) == {e[1] : e \in {d \in Graph : d[2] = i}}

(* Types; while it is assigning, an instance is with one agent unless it   *)
(* waits or was rejected.                                                  *)
AssignerTypeOK ==
  /\ phase \in {"new", "NoAgentsError", "CyclicDependenciesError", "assigning",
                "UnassignableOperatorsError", "assigned"}
  /\ DOMAIN assignments = DOMAIN agents
  /\ phase \in {"assigning", "assigned"} =>
       /\ \A i \in AllInstances :
            Cardinality({a \in DOMAIN agents : i \in assignments[a]})
              = IF i \in remaining \cup rejected THEN 0 ELSE 1
       /\ \A i \in DOMAIN networks : networks[i] \subseteq agents[AgentOf(i)].networks

AssignInit ==
  /\ canonical \in Drawings /\ loaded = None /\ back = None
  /\ runtime = Expansion(canonical)
  /\ \E known \in SUBSET Agents :
       agents \in [known -> [networks : SUBSET Networks, tags : SUBSET Tags]]
  /\ required \in [Operators -> SUBSET Tags]
  /\ phase = "new"
  /\ remaining = {}
  /\ assignments = [a \in DOMAIN agents |-> {}]
  /\ networks = [i \in {} |-> {}]
  /\ rejected = {}

(* PipelineAssigner.__init__.                                              *)
Sort ==
  /\ phase = "new"
  /\ remaining' = AllInstances
  /\ phase' = IF DOMAIN agents = {} THEN "NoAgentsError"
              ELSE IF Cyclic(Graph) THEN "CyclicDependenciesError"
              ELSE "assigning"
  /\ UNCHANGED <<vars, agents, required, assignments, networks, rejected>>

Matching(i) == {a \in DOMAIN agents : required[i.op] \subseteq agents[a].tags}

(* _get_predecessor_networks: those of all upstream operators together.    *)
Allowed(i) == UNION {networks[p] : p \in Predecessors(i) \cap DOMAIN networks}

(* Mutant of Eligible: networks do not count.                              *)
EligibleByTags(i) == Matching(i)

(* With no agent on those networks, every agent that has the tags will do. *)
Eligible(i) ==
  LET near == {a \in Matching(i) : agents[a].networks \cap Allowed(i) # {}}
  IN IF near = {} THEN Matching(i) ELSE near

LoadOf(a) == Cardinality(assignments[a])

(* _select_best_agent: any of those with the fewest operators.             *)
LeastLoaded(candidates) ==
  {a \in candidates : \A b \in candidates : LoadOf(a) <= LoadOf(b)}

(* Of the networks of the agent, those it was chosen for.                  *)
Recorded(i, a) ==
  LET shared == agents[a].networks \cap Allowed(i)
  IN IF shared = {} THEN agents[a].networks ELSE shared

(* The loop of assign.                                                     *)
Place(i) ==
  /\ phase = "assigning"
  /\ i \in remaining /\ Predecessors(i) \cap remaining = {}
  /\ remaining' = remaining \ {i}
  /\ \/ /\ Matching(i) = {}
        /\ rejected' = rejected \cup {i}
        /\ UNCHANGED <<assignments, networks>>
     \/ \E a \in LeastLoaded(Eligible(i)) :
          /\ assignments' = [assignments EXCEPT ![a] = @ \cup {i}]
          /\ networks' = [k \in DOMAIN networks \cup {i} |->
                            IF k = i THEN Recorded(i, a) ELSE networks[k]]
          /\ rejected' = rejected
  /\ UNCHANGED <<vars, agents, required, phase>>

(* NetworkPreferenceError is never raised: no reason mentions a network.   *)
Finish ==
  /\ phase = "assigning" /\ remaining = {}
  /\ phase' = IF rejected = {} THEN "assigned" ELSE "UnassignableOperatorsError"
  /\ UNCHANGED <<vars, agents, required, remaining, assignments, networks, rejected>>

AssignNext == Sort \/ Finish \/ \E i \in AllInstances : Place(i)

AssignSpec == AssignInit /\ [][AssignNext]_<<vars, assignVars>>

Ends == phase \notin {"new", "assigning"}

(* A deployment is assigned if and only if it can be: there are agents, no *)
(* data can come round, and every operator finds an agent with its tags.   *)
(* Then every instance runs on one agent that has its tags.                *)
AssignedIfPossible ==
  Ends =>
    /\ phase = "assigned" <=>
         /\ DOMAIN agents # {}
         /\ ~Cyclic(Graph)
         /\ \A o \in Operators : \E a \in DOMAIN agents : required[o] \subseteq agents[a].tags
    /\ phase = "assigned" =>
         \A i \in AllInstances :
           \E a \in DOMAIN agents : i \in assignments[a] /\ required[i.op] \subseteq agents[a].tags

(* An instance with upstream operators stays on a network they were placed *)
(* for whenever an agent with its tags has one, whatever the loads are.    *)
KeepsToNetworks ==
  \A i \in DOMAIN networks :
    LET upstream == UNION {networks[p] : p \in Predecessors(i) \cap DOMAIN networks}
    IN (\E a \in Matching(i) : agents[a].networks \cap upstream # {})
         => networks[i] # {} /\ networks[i] \subseteq upstream

(* When tags and networks leave the choice free, no agent is given two     *)
(* operators more than another.                                            *)
Balanced ==
  (\A a, b \in DOMAIN agents : agents[a] = agents[b])
    => \A a, b \in DOMAIN agents : LoadOf(a) <= LoadOf(b) + 1

SharesNetwork(a, b) == agents[a].networks \cap agents[b].networks # {}

(* An operator is cut off from the network of an upstream operator only    *)
(* when every agent with its tags is cut off from one of them.             *)
(* Promised and not kept: see the README, further divergences.             *)
CrossesOnlyWhenNecessary ==
  phase = "assigned" =>
    \A i \in AllInstances :
      LET upstream == {AgentOf(p) : p \in Predecessors(i)}
      IN (\E a \in Matching(i) : \A u \in upstream : SharesNetwork(a, u))
           => \A u \in upstream : SharesNetwork(AgentOf(i), u)

(* A pipeline is not assigned across networks that do not meet.            *)
(* Promised and not kept: see the README, further divergences.             *)
RefusesCutNetworks ==
  phase = "assigned" =>
    \A e \in Graph : SharesNetwork(AgentOf(e[1]), AgentOf(e[2]))
===============================================================================
