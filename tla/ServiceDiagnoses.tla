-------------------------- MODULE ServiceDiagnoses --------------------------
(***************************************************************************)
(* The network diagnosis of a Service as the server runs it, on the        *)
(* snapshot that BuildNetwork makes of the objects in the inventory,       *)
(* beside what a diagnosis of the Service by rules observes of the same    *)
(* objects; and on any other snapshot, which the analysis is built for and *)
(* its tests give it, without such objects (a NetworkPolicy that denies).  *)
(***************************************************************************)
EXTENDS NetworkAnalysis

CONSTANTS
  Clusters,  \* the objects around the Service, see ClusterObjects
  Sources    \* of [kind, name, selector]

(* What the API server admits, as far as the two readings rely on it: a    *)
(* port is a number of 16 bits, a name is not one, and a name stands for   *)
(* one port of a Pod (unique in a container by its validation; that two    *)
(* containers of a Pod do not share a name is assumed, see the README).    *)
PortNumbers == 1 .. 65535

IsList(list) == Len(list) \in Nat /\ DOMAIN list = 1 .. Len(list)

WellFormedPod(pod) ==
  /\ IsList(pod.ports)
  /\ \A i \in DOMAIN pod.ports :
       pod.ports[i].number \in PortNumbers /\ pod.ports[i].name \notin PortNumbers
  /\ \A i, j \in DOMAIN pod.ports :
       pod.ports[i].name = pod.ports[j].name /\ pod.ports[i].name # Absent
         => pod.ports[i].number = pod.ports[j].number

WellFormedService(service) ==
  /\ IsList(service.ports)
  /\ \A i \in DOMAIN service.ports : service.ports[i].port \in PortNumbers

ASSUME ClustersAssumption ==
  /\ Absent \notin PortNumbers /\ Absent \notin Clusters /\ Absent # "source_not_ready"
  /\ \A c \in Clusters :
       /\ c.service = Absent \/ WellFormedService(c.service)
       /\ \A p \in DOMAIN c.pods : WellFormedPod(c.pods[p])

VARIABLES
  cluster,   \* or Absent, without objects
  source

serviceVars == <<vars, cluster, source>>

ServiceInit ==
  /\ \/ /\ cluster \in Clusters
        /\ source \in Sources
        /\ snapshot = BuildNetwork(cluster, source)
     \/ /\ cluster = Absent
        /\ source = Absent
        /\ snapshot \in Snapshots
  /\ Idle

ServiceNext == Next /\ UNCHANGED <<cluster, source>>

ServiceSpec == ServiceInit /\ [][ServiceNext]_serviceVars

-----------------------------------------------------------------------------
HasStep(id, status) ==
  \E i \in DOMAIN steps : steps[i].id = id /\ steps[i].status = status

(* A source the inventory does not hold: no such Pod, or a workload        *)
(* without a selector.                                                     *)
UnknownSource ==
  \/ source.kind = "Pod" /\ source.name \notin DOMAIN cluster.pods
  \/ source.kind # "Pod" /\ source.selector = {}

(* Two diagnoses of one Service do not contradict each other, although     *)
(* each computes selection, readiness and ports in code of its own: a step *)
(* of the path fails or passes exactly when the observation of the rules   *)
(* says so.  For ports the rules look at all of the Service, the path at   *)
(* the one requested.  And a source that the inventory does not hold is    *)
(* missing evidence to the path, never a ready or a broken one.            *)
ReadingsAgree ==
  /\ cluster # Absent /\ UnknownSource
       => rootCause # "source_not_ready" /\ ~HasStep("source", "PASSED")
  /\ cluster # Absent /\ cluster.service # Absent =>
       LET observed == ServiceObservation(cluster) IN
         /\ HasStep("selector", "PASSED") => observed.selectorMatches
         /\ HasStep("selector", "FAILED") => ~observed.selectorMatches
         /\ HasStep("ready-endpoints", "PASSED") => observed.readyEndpoints
         /\ HasStep("ready-endpoints", "FAILED") \/ HasStep("endpointslices", "FAILED")
              => ~observed.readyEndpoints
         /\ HasStep("target-port", "FAILED") => observed.targetPortMatches = FALSE
         /\ HasStep("target-port", "PASSED") /\ Len(cluster.service.ports) = 1
              => observed.targetPortMatches = TRUE
=============================================================================
