--------------------------- MODULE MCIncidentFlow ---------------------------
EXTENDS IncidentFlow

(* A Pod and a Deployment of one namespace; messages that differ only in   *)
(* what NormalizeMessage replaces.                                         *)
MCResources == {"pod", "deployment"}
MCPods == {"pod"}
MCNamespaceOf == [r \in MCResources |-> "default"]
MCNormalized == [m \in Messages |-> "probe of <ip> failed"]

(* No operator tells one message, or one symptom, from another.            *)
Symmetry == Permutations(Messages) \union Permutations(Symptoms)
=============================================================================
