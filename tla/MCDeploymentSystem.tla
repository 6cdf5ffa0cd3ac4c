------------------------- MODULE MCDeploymentSystem -------------------------
EXTENDS DeploymentSystem, TLC

(* Deployments are interchangeable, and so are agents.                     *)
Symmetry == Permutations(Deployments) \cup Permutations(Agents)
==============================================================================
