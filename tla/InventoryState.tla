--------------------------- MODULE InventoryState ---------------------------
(***************************************************************************)
(* The state that the inventory gives to a resource, which every list, the *)
(* topology and the diagnosis pages show beside a diagnosis: summarize of  *)
(* internal/inventory/inventory.go, for every kind of resource.  Module    *)
(* RuleDiagnosis describes the resources; a count or a phase that is not   *)
(* there reads as 0 or Absent.  Texts and counts for display are left out. *)
(***************************************************************************)
EXTENDS ClusterObjects

Starting == {"ContainerCreating", "PodInitializing"}

(* Some container waits for a reason other than being started.             *)
Stuck(pod) ==
  \E i \in DOMAIN pod.containers : pod.containers[i].waiting \notin {Absent} \union Starting

Works(pod) ==
  \/ pod.phase = "Succeeded"
  \/ /\ pod.phase = "Running"
     /\ pod.containers # <<>>
     /\ \A i \in DOMAIN pod.containers : pod.containers[i].ready

PodState(pod) ==
  IF Stuck(pod) \/ pod.phase = "Failed" THEN "critical"
  ELSE IF Works(pod) THEN "healthy" ELSE "warning"

(* endpointCounts: an endpoint without a ready condition counts as ready.  *)
(* The two counts are compared with each other and with none only.         *)
Endpoints(cluster) == UNION {slice.endpoints : slice \in {s \in cluster.slices : s.own}}

CountsReported(conditions) == {c \in conditions : c \in BOOLEAN}
CountsReady(conditions) == {c \in conditions : c # FALSE}

SliceState(endpoints) ==
  IF CountsReady(endpoints) = {} THEN "critical"
  ELSE IF CountsReady(endpoints) # endpoints THEN "warning" ELSE "healthy"

ServiceState(service) ==
  IF service.external THEN "healthy" ELSE SliceState(Endpoints(service.cluster))

ClaimState(phase) ==
  CASE phase = "Bound" -> "healthy" [] phase = "Lost" -> "critical" [] OTHER -> "warning"

NodeState(ready) ==
  CASE ready = TRUE -> "healthy" [] ready = FALSE -> "critical" [] OTHER -> "unknown"

NamespaceState(phase) ==
  CASE phase = "Active" -> "healthy" [] phase = "Terminating" -> "warning" [] OTHER -> "unknown"

VolumeState(phase) ==
  CASE phase \in {"Bound", "Available"} -> "healthy" [] phase = "Failed" -> "critical"
    [] OTHER -> "warning"

(* Deployment, StatefulSet and ReplicaSet, whose ready replicas are taken  *)
(* for available.                                                          *)
ReplicasState(desired, available) ==
  IF available >= desired THEN "healthy" ELSE IF available = 0 THEN "critical" ELSE "warning"

DaemonSetState(desired, available) ==
  IF desired > 0 /\ available >= desired THEN "healthy" ELSE "warning"

JobState(job) ==
  IF job.failed > 0 THEN "critical"
  ELSE IF job.succeeded >= (IF job.completions = 0 THEN 1 ELSE job.completions)
  THEN "healthy" ELSE "warning"

CronJobState(cron) ==
  IF cron.suspended \/ cron.active \/ cron.scheduled THEN "healthy" ELSE "critical"

IngressState(ingress) ==
  IF ingress.address THEN "healthy" ELSE IF ingress.routed THEN "warning" ELSE "critical"

(* A false condition is a warning, whatever its type means.                *)
ConditionsState(conditions, none) ==
  IF conditions = {} THEN none ELSE IF FALSE \in conditions THEN "warning" ELSE "healthy"

AutoscalerState(hpa) ==
  ConditionsState(hpa.conditions,
                  IF hpa.desired > 0 /\ hpa.available > 0 THEN "healthy" ELSE "unknown")

BudgetState(desired, available) == IF available >= desired THEN "healthy" ELSE "warning"

Workloads == {"Deployment", "StatefulSet", "ReplicaSet"}

State(r) ==
  CASE r.kind = "Pod" -> PodState(r)
    [] r.kind = "Service" -> ServiceState(r)
    [] r.kind = "EndpointSlice" -> SliceState(r.endpoints)
    [] r.kind = "PersistentVolumeClaim" -> ClaimState(r.phase)
    [] r.kind = "PersistentVolume" -> VolumeState(r.phase)
    [] r.kind = "Namespace" -> NamespaceState(r.phase)
    [] r.kind = "Node" -> NodeState(r.ready)
    [] r.kind \in Workloads -> ReplicasState(r.desired, r.available)
    [] r.kind = "DaemonSet" -> DaemonSetState(r.desired, r.available)
    [] r.kind = "Job" -> JobState(r)
    [] r.kind = "CronJob" -> CronJobState(r)
    [] r.kind = "Ingress" -> IngressState(r)
    [] r.kind \in {"NetworkPolicy", "StorageClass"} ->
         IF r.specified THEN "healthy" ELSE "critical"
    [] r.kind = "HorizontalPodAutoscaler" -> AutoscalerState(r)
    [] r.kind = "PodDisruptionBudget" -> BudgetState(r.desired, r.available)
    [] r.kind = "Event" -> IF r.warning THEN "warning" ELSE "healthy"
    [] r.kind = "ConfigMap" -> "healthy"
    [] OTHER -> ConditionsState(r.conditions, "unknown")
=============================================================================
