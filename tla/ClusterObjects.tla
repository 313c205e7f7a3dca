--------------------------- MODULE ClusterObjects ---------------------------
(***************************************************************************)
(* The objects around one Service as a diagnosis reads them from the       *)
(* inventory, and the two readings of them: buildServiceObservation for    *)
(* the rules and BuildNetwork for the path analysis, both of               *)
(* internal/diagnosis/observation.go.                                      *)
(*                                                                         *)
(* All objects are those of the one namespace that both readings filter    *)
(* by.  A selector and the labels of a Pod are sets of key-value pairs.    *)
(***************************************************************************)
EXTENDS Integers, Sequences

CONSTANT Absent

(* cluster is a record of                                                  *)
(*   service   Absent, or [selector, ports]: a set of labels and a         *)
(*             sequence of [port, target], a target a number, the name of  *)
(*             a container port, or Absent                                 *)
(*   pods      a function from names to                                    *)
(*             [labels, running, ready, ports]: ports is the sequence of   *)
(*             [name, number] of all its containers                        *)
(*   slices    a set of [own, endpoints]: whether it is labelled with the  *)
(*             Service, and the ready conditions TRUE, FALSE or Absent     *)
(*   policy    whether the namespace has a NetworkPolicy                   *)

LabelsMatch(selector, labels) == selector # {} /\ selector \subseteq labels

TargetOf(servicePort) ==
  IF servicePort.target = Absent THEN servicePort.port ELSE servicePort.target

-----------------------------------------------------------------------------
(* For the rules.                                                          *)

Backends(cluster) ==
  {p \in DOMAIN cluster.pods :
     LabelsMatch(cluster.service.selector, cluster.pods[p].labels)}

PodDeclaresNumber(pod, target) ==
  \E i \in DOMAIN pod.ports : target = pod.ports[i].number

PodDeclaresPort(pod, target) ==
  \E i \in DOMAIN pod.ports : target \in {pod.ports[i].name, pod.ports[i].number}

(* Endpoints are counted only to be compared with none.                    *)
SomeReady(cluster) ==
  \E slice \in cluster.slices : slice.own /\ TRUE \in slice.endpoints

TargetPortMatches(cluster) ==
  IF Backends(cluster) = {} THEN Absent
  ELSE \A i \in DOMAIN cluster.service.ports, p \in Backends(cluster) :
         PodDeclaresPort(cluster.pods[p], TargetOf(cluster.service.ports[i]))

ServiceObservation(cluster) ==
  [selectorMatches |-> Backends(cluster) # {},
   readyEndpoints |-> SomeReady(cluster),
   targetPortMatches |-> TargetPortMatches(cluster)]

-----------------------------------------------------------------------------
(* For the path analysis.                                                  *)

(* networkPod keeps the ports of all containers in one map by name, or by  *)
(* number where there is no name: of two with one name the last counts.    *)
ContainerPorts(pod) ==
  LET Key(i) == IF pod.ports[i].name = Absent THEN pod.ports[i].number
                ELSE pod.ports[i].name
  IN  [key \in {Key(i) : i \in DOMAIN pod.ports} |->
         pod.ports[CHOOSE i \in DOMAIN pod.ports :
                     Key(i) = key /\ \A j \in DOMAIN pod.ports : Key(j) = key => j <= i].number]

NetworkPod(pod) ==
  [labels |-> pod.labels, running |-> pod.running, ready |-> pod.ready,
   containerPorts |-> ContainerPorts(pod)]

NoService ==
  [sourcePods |-> {}, service |-> Absent, backendPods |-> {}, slices |-> {},
   policy |-> [applicable |-> FALSE, denied |-> FALSE]]

(* The source is a Pod, or a workload with its selector (empty when there  *)
(* is no such workload).  Nothing sets denied.                             *)
SourcePods(cluster, source) ==
  IF source.kind = "Pod"
  THEN {cluster.pods[p] : p \in DOMAIN cluster.pods \intersect {source.name}}
  ELSE {cluster.pods[p] : p \in {p \in DOMAIN cluster.pods :
                                   LabelsMatch(source.selector, cluster.pods[p].labels)}}

BuildNetwork(cluster, source) ==
  IF cluster.service = Absent THEN NoService
  ELSE [sourcePods |-> {NetworkPod(pod) : pod \in SourcePods(cluster, source)},
        service |-> [selector |-> cluster.service.selector,
                     ports |-> [i \in DOMAIN cluster.service.ports |->
                                  [port |-> cluster.service.ports[i].port,
                                   target |-> TargetOf(cluster.service.ports[i])]]],
        backendPods |-> {NetworkPod(cluster.pods[p]) : p \in DOMAIN cluster.pods},
        slices |-> cluster.slices,
        policy |-> [applicable |-> cluster.policy, denied |-> FALSE]]
=============================================================================
