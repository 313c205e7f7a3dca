--------------------------- MODULE MCTopologyGraph ---------------------------
(* Model-checking instance of TopologyGraph.                                *)
EXTENDS TopologyGraph, TLC

CONSTANTS pod, rs, svc, node, owns, selects

(* Neither keys nor relations are told apart.                               *)
Symmetric == Permutations(Keys) \union Permutations(Relations)
==============================================================================
