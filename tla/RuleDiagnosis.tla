---------------------------- MODULE RuleDiagnosis ---------------------------
(***************************************************************************)
(* A resource diagnosis: Build of internal/diagnosis/observation.go makes  *)
(* an observation of the target, the rules of internal/rules/rules.go turn *)
(* it into evidence, steps and hypotheses in the loop of Engine.Run        *)
(* (internal/diagnosis/engine.go), and BuildReport of report.go draws the  *)
(* report.                                                                 *)
(*                                                                         *)
(* Cancellation and failure of the task are in DiagnosisService.  The      *)
(* engine of the server has no dependencies between rules, so its loop is  *)
(* one pass over the catalogue.                                            *)
(***************************************************************************)
EXTENDS InventoryState, FiniteSets

(* The resources that are diagnosed; besides its kind a target has         *)
(*   Pod       phase;                                                      *)
(*             ready: TRUE, FALSE or Absent, the condition Ready;          *)
(*             scheduled: "True", "False", "Unschedulable" (false for that *)
(*             reason) or Absent, the condition PodScheduled;              *)
(*             message: those of the words "insufficient", "taint" in it;  *)
(*             containers: a sequence of [ready, waiting, terminated], the *)
(*             last two reasons or Absent, terminated that of the last run;*)
(*             events: a sequence of [own, readiness, unhealthy]: the Pod  *)
(*             is the involved object, the message mentions the readiness  *)
(*             probe, the reason is Unhealthy                              *)
(*   Service   cluster, see ClusterObjects; external: its type is          *)
(*             ExternalName                                                *)
(*   Node      ready                                                       *)
(*   PersistentVolumeClaim  phase, or Absent                               *)
(*   PodDisruptionBudget  reported: its controller has written a status,   *)
(*             of which both numbers are                                   *)
(* and other kinds, which have a state and no rules, what InventoryState   *)
(* reads of them.                                                          *)
CONSTANT Targets

Conditions == {TRUE, FALSE, Absent}
Reasons == {Absent} \union STRING

(* The phases and the reasons that the code knows.                         *)
Phases == {"Pending", "Running", "Succeeded", "Failed", "Bound", "Lost", "Available",
           "Active", "Terminating"}
FaultReasons == {"CrashLoopBackOff", "OOMKilled", "ImagePullBackOff", "ErrImagePull",
                 "CreateContainerConfigError"}

(* The kubelet reports nothing of a Pod that no node was found for.        *)
IsPod(r) ==
  /\ r \in [kind : {"Pod"}, phase : Reasons, ready : Conditions, scheduled : Reasons,
            message : SUBSET {"insufficient", "taint"},
            containers : Seq([ready : BOOLEAN, waiting : Reasons, terminated : Reasons]),
            events : Seq([own : BOOLEAN, readiness : BOOLEAN, unhealthy : BOOLEAN])]
  /\ r.scheduled = "Unschedulable" => r.phase # "Succeeded" /\ r.containers = <<>>

IsService(r) ==
  /\ r = [kind |-> "Service", external |-> r.external, cluster |-> r.cluster]
  /\ r.cluster = [service |-> r.cluster.service, pods |-> r.cluster.pods,
                  slices |-> r.cluster.slices, policy |-> r.cluster.policy]
  /\ \A slice \in r.cluster.slices : slice.endpoints \subseteq Conditions

IsResource(r) ==
  CASE r.kind = "Pod" -> IsPod(r)
    [] r.kind = "Service" -> IsService(r)
    [] r.kind \in Workloads \union {"DaemonSet", "PodDisruptionBudget"} ->
         /\ r.desired \in Nat /\ r.available \in Nat
         /\ r.kind = "PodDisruptionBudget" /\ ~r.reported => r.desired = 0 /\ r.available = 0
    [] r.kind = "Job" -> r.completions \in Nat
    [] OTHER -> TRUE

ASSUME TargetsAssumption ==
  /\ Absent \notin BOOLEAN /\ Absent \notin Phases \union FaultReasons
  /\ \A r \in Targets : IsResource(r)

Facts == {"waiting", "terminated", "readinessProbeFailed", "selectorMatches",
          "readyEndpoints", "targetPortMatches", "insufficientResources",
          "taintMismatch", "pvcPhase", "nodeReady"}

-----------------------------------------------------------------------------
(* Catalog(): a rule applies to a kind, reads one fact and matches at one  *)
(* value of it.                                                            *)
Rule(id, kind, fact, value) == [id |-> id, kind |-> kind, fact |-> fact, value |-> value]

Catalog == <<
  Rule("POD-CRASHLOOP", "Pod", "waiting", "CrashLoopBackOff"),
  Rule("POD-OOMKILLED", "Pod", "terminated", "OOMKilled"),
  Rule("POD-IMAGEPULLBACKOFF", "Pod", "waiting", "ImagePullBackOff"),
  Rule("POD-ERRIMAGEPULL", "Pod", "waiting", "ErrImagePull"),
  Rule("POD-CONFIG", "Pod", "waiting", "CreateContainerConfigError"),
  Rule("POD-READINESS", "Pod", "readinessProbeFailed", TRUE),
  Rule("SVC-SELECTOR", "Service", "selectorMatches", FALSE),
  Rule("SVC-ENDPOINT", "Service", "readyEndpoints", FALSE),
  Rule("SVC-TARGETPORT", "Service", "targetPortMatches", FALSE),
  Rule("SCHED-RESOURCES", "Pod", "insufficientResources", TRUE),
  Rule("SCHED-TAINT", "Pod", "taintMismatch", TRUE),
  Rule("PVC-PENDING", "PersistentVolumeClaim", "pvcPhase", "Pending"),
  Rule("NODE-NOTREADY", "Node", "nodeReady", FALSE)>>

RuleIds == {Catalog[i].id : i \in DOMAIN Catalog}
RulesOf(kind) == {Catalog[i].id : i \in {i \in DOMAIN Catalog : Catalog[i].kind = kind}}

RoleUnlessMatched(rule, o) ==
  IF o[rule.fact] # Absent /\ o[rule.fact] = rule.value THEN "supporting" ELSE "contradicting"

(* Evaluate: the role of the one piece of evidence.                        *)
Role(rule, o) == IF o[rule.fact] = Absent THEN "missing"
                 ELSE IF o[rule.fact] = rule.value THEN "supporting" ELSE "contradicting"

-----------------------------------------------------------------------------
(* Build.                                                                  *)

First(places) == CHOOSE i \in places : \A j \in places : i <= j
Last(places) == CHOOSE i \in places : \A j \in places : j <= i

(* A later container overwrites the reason of an earlier one.              *)
LastReasonFirst(reasons) ==
  LET known == {i \in DOMAIN reasons : reasons[i] # Absent}
  IN  IF known = {} THEN Absent ELSE reasons[First(known)]

LastReason(reasons) ==
  LET known == {i \in DOMAIN reasons : reasons[i] # Absent}
  IN  IF known = {} THEN Absent ELSE reasons[Last(known)]

(* Only a true Ready condition counts, and the last event about the        *)
(* readiness probe counts more.                                            *)
ReadinessOfAnyPod(pod) ==
  LET about == {i \in DOMAIN pod.events : pod.events[i].readiness}
  IN  IF about # {} THEN pod.events[Last(about)].unhealthy
      ELSE IF pod.ready = TRUE THEN FALSE ELSE Absent

ReadinessProbeFailed(pod) ==
  LET about == {i \in DOMAIN pod.events : pod.events[i].own /\ pod.events[i].readiness}
  IN  IF about # {} THEN pod.events[Last(about)].unhealthy
      ELSE IF pod.ready = TRUE THEN FALSE ELSE Absent

(* What the inventory holds of a target and the objects about it, when it  *)
(* follows no resources of some kinds (see InventorySync).                 *)
LookedUp(kind) == CASE kind = "Pod" -> {"Event"}
                    [] kind = "Service" -> {"Pod", "EndpointSlice"}
                    [] OTHER -> {}

Collected(resource, unfollowed) ==
  CASE resource.kind = "Pod" /\ "Event" \in unfollowed -> [resource EXCEPT !.events = <<>>]
    [] resource.kind = "Service" ->
         [resource EXCEPT
            !.cluster.pods = IF "Pod" \in unfollowed THEN <<>> ELSE @,
            !.cluster.slices = IF "EndpointSlice" \in unfollowed THEN {} ELSE @]
    [] OTHER -> resource

Unobserved == [f \in Facts |-> Absent]

PodObservation(pod) ==
  [Unobserved EXCEPT
     !.waiting = LastReason([i \in DOMAIN pod.containers |-> pod.containers[i].waiting]),
     !.terminated = LastReason([i \in DOMAIN pod.containers |-> pod.containers[i].terminated]),
     !.readinessProbeFailed = ReadinessProbeFailed(pod),
     !.insufficientResources = IF pod.scheduled = "Unschedulable"
                               THEN "insufficient" \in pod.message ELSE Absent,
     !.taintMismatch = IF pod.scheduled = "Unschedulable"
                       THEN "taint" \in pod.message ELSE Absent]

Observe(resource) ==
  CASE resource.kind = "Pod" -> PodObservation(resource)
    [] resource.kind = "Service" ->
         LET o == ServiceObservation(resource.cluster)
         IN  [f \in Facts |-> IF f \in DOMAIN o THEN o[f] ELSE Absent]
    [] resource.kind = "PersistentVolumeClaim" -> [Unobserved EXCEPT !.pvcPhase = resource.phase]
    [] resource.kind = "Node" -> [Unobserved EXCEPT !.nodeReady = resource.ready]
    [] OTHER -> Unobserved

-----------------------------------------------------------------------------
NoReport == [verdict |-> Absent]

VARIABLES
  target,
  unfollowed,   \* kinds that the inventory does not follow
  observation,  \* or Absent, before Build
  completed,    \* rules the engine is done with
  steps,        \* task.Steps: [rule, outcome]
  hypotheses,   \* task.Hypotheses: [rule, role]
  report

vars == <<target, unfollowed, observation, completed, steps, hypotheses, report>>

Init ==
  /\ target \in Targets
  /\ unfollowed \in SUBSET LookedUp(target.kind)
  /\ observation = Absent
  /\ completed = 0
  /\ steps = <<>>
  /\ hypotheses = <<>>
  /\ report = NoReport

Build ==
  /\ observation = Absent
  /\ observation' = Observe(Collected(target, unfollowed))
  /\ UNCHANGED <<target, unfollowed, completed, steps, hypotheses, report>>

Current == Catalog[completed + 1]
Running == observation # Absent /\ completed < Len(Catalog)
Applies == Current.kind = target.kind

NotApplicable ==
  /\ Running /\ ~Applies
  /\ completed' = completed + 1
  /\ UNCHANGED <<target, unfollowed, observation, steps, hypotheses, report>>

Outcome(role) == CASE role = "supporting" -> "FAILED"
                   [] role = "contradicting" -> "PASSED"
                   [] role = "missing" -> "UNKNOWN"

EvaluateUntilFailed ==
  /\ Running /\ Applies
  /\ completed' = IF Role(Current, observation) = "supporting" THEN Len(Catalog)
                  ELSE completed + 1
  /\ steps' = Append(steps, [rule |-> Current.id, outcome |-> Outcome(Role(Current, observation))])
  /\ hypotheses' = Append(hypotheses, [rule |-> Current.id, role |-> Role(Current, observation)])
  /\ UNCHANGED <<target, unfollowed, observation, report>>

Evaluate ==
  /\ Running /\ Applies
  /\ completed' = completed + 1
  /\ steps' = Append(steps, [rule |-> Current.id, outcome |-> Outcome(Role(Current, observation))])
  /\ hypotheses' = Append(hypotheses, [rule |-> Current.id, role |-> Role(Current, observation)])
  /\ UNCHANGED <<target, unfollowed, observation, report>>

StepsWith(outcome) == {steps[i].rule : i \in {i \in DOMAIN steps : steps[i].outcome = outcome}}

(* Confirmed are the hypotheses with supporting evidence; those with       *)
(* missing evidence become no issue, and no issue is ever suspected.       *)
Confirmed == {i \in DOMAIN hypotheses : hypotheses[i].role = "supporting"}

Verdict ==
  IF steps = <<>> THEN "INCONCLUSIVE"
  ELSE IF Confirmed # {} THEN "CONFIRMED"
  ELSE IF StepsWith("UNKNOWN") # {} THEN "INCONCLUSIVE"
  ELSE "NO_ISSUE"

BuildReport ==
  /\ observation # Absent /\ completed = Len(Catalog)
  /\ report = NoReport
  /\ report' = [verdict |-> Verdict,
                rootCause |-> IF Confirmed = {} THEN Absent
                              ELSE hypotheses[First(Confirmed)].rule,
                confirmed |-> {hypotheses[i].rule : i \in Confirmed},
                healthy |-> StepsWith("PASSED"),
                unknown |-> StepsWith("UNKNOWN"),
                checked |-> Len(steps) - Cardinality(StepsWith("UNKNOWN")),
                total |-> Len(steps)]
  /\ UNCHANGED <<target, unfollowed, observation, completed, steps, hypotheses>>

Next == Build \/ NotApplicable \/ Evaluate \/ BuildReport

Spec == Init /\ [][Next]_vars

-----------------------------------------------------------------------------
(* What the objects themselves show, container by container and event by   *)
(* event: the fault of a rule, or that they say nothing about it.          *)

HasFault(pod, id) ==
  LET Waits(reason) == \E i \in DOMAIN pod.containers : pod.containers[i].waiting = reason
  IN  CASE id = "POD-CRASHLOOP" -> Waits("CrashLoopBackOff")
        [] id = "POD-IMAGEPULLBACKOFF" -> Waits("ImagePullBackOff")
        [] id = "POD-ERRIMAGEPULL" -> Waits("ErrImagePull")
        [] id = "POD-CONFIG" -> Waits("CreateContainerConfigError")
        [] id = "POD-OOMKILLED" ->
             \E i \in DOMAIN pod.containers : pod.containers[i].terminated = "OOMKilled"
        [] id = "POD-READINESS" ->
             \E i \in DOMAIN pod.events :
               pod.events[i].own /\ pod.events[i].readiness /\ pod.events[i].unhealthy
        [] id = "SCHED-RESOURCES" -> pod.scheduled = "Unschedulable" /\ "insufficient" \in pod.message
        [] id = "SCHED-TAINT" -> pod.scheduled = "Unschedulable" /\ "taint" \in pod.message

Shows(id) ==
  CASE target.kind = "Pod" -> HasFault(target, id)
    [] id = "SVC-SELECTOR" ->
         \A p \in DOMAIN target.cluster.pods :
           LET selector == target.cluster.service.selector
           IN  selector = {} \/ \E l \in selector : l \notin target.cluster.pods[p].labels
    [] id = "SVC-ENDPOINT" ->
         \A slice \in target.cluster.slices : slice.own => TRUE \notin slice.endpoints
    [] id = "SVC-TARGETPORT" ->
         \E p \in Backends(target.cluster), i \in DOMAIN target.cluster.service.ports :
           ~PodDeclaresPort(target.cluster.pods[p], TargetOf(target.cluster.service.ports[i]))
    [] id = "PVC-PENDING" -> target.phase = "Pending"
    [] id = "NODE-NOTREADY" -> target.ready = FALSE

Held == Collected(target, unfollowed)

Silent(id) ==
  CASE id \in {"POD-CRASHLOOP", "POD-IMAGEPULLBACKOFF", "POD-ERRIMAGEPULL", "POD-CONFIG"} ->
         \A i \in DOMAIN Held.containers : Held.containers[i].waiting = Absent
    [] id = "POD-OOMKILLED" ->
         \A i \in DOMAIN Held.containers : Held.containers[i].terminated = Absent
    [] id = "POD-READINESS" ->
         /\ Held.ready # TRUE
         /\ \A i \in DOMAIN Held.events : ~(Held.events[i].own /\ Held.events[i].readiness)
    [] id \in {"SCHED-RESOURCES", "SCHED-TAINT"} -> Held.scheduled # "Unschedulable"
    [] id = "SVC-TARGETPORT" -> Backends(Held.cluster) = {}
    [] id = "PVC-PENDING" -> Held.phase = Absent
    [] id = "NODE-NOTREADY" -> Held.ready = Absent
    [] OTHER -> FALSE

Reported == report # NoReport

(* The kinds of resources that have no status to be missing, or that ask   *)
(* for nothing: the others are reported on by a controller.                *)
Unreported ==
  CASE target.kind = "Pod" -> target.phase = Absent /\ target.containers = <<>>
    [] target.kind = "Service" -> ~target.external /\ Endpoints(Held.cluster) = {}
    [] target.kind = "EndpointSlice" -> target.endpoints = {}
    [] target.kind \in {"PersistentVolumeClaim", "PersistentVolume", "Namespace"} ->
         target.phase = Absent
    [] target.kind = "Node" -> target.ready = Absent
    [] target.kind \in Workloads -> target.available = 0 /\ target.desired > 0
    [] target.kind = "DaemonSet" -> target.available = 0
    [] target.kind = "Job" -> target.succeeded = 0
    [] target.kind = "Ingress" -> ~target.address
    [] target.kind = "HorizontalPodAutoscaler" ->
         target.conditions = {} /\ target.available = 0
    [] target.kind = "PodDisruptionBudget" -> ~target.reported
    [] target.kind = "Other" -> target.conditions = {}
    [] OTHER -> FALSE

(* Missing data is never presented as healthy: a check on which the objects*)
(* the inventory holds say nothing is reported unknown, and "no issue"     *)
(* needs that they say something to every check there is, and that there   *)
(* is one; and no list shows a resource as healthy of which no controller  *)
(* has reported anything.  The exception is a PodDisruptionBudget: both    *)
(* the numbers that the inventory compares are of its status, and where    *)
(* there is none they read 0 of 0, which passes for a budget that is met   *)
(* (inventory.go:672-676), against README.md:142: "Missing data is never   *)
(* rendered as 'no problem found'".                                        *)
MissingIsNeverHealthy ==
  /\ Unreported => State(Held) # "healthy" \/ target.kind = "PodDisruptionBudget"
  /\ Reported =>
       /\ \A id \in RuleIds : id \in report.healthy \union report.confirmed => ~Silent(id)
       /\ report.verdict = "NO_ISSUE" =>
            /\ report.healthy = RulesOf(target.kind)
            /\ report.healthy # {}

(* The condition Ready of a Pod says that its readiness probe succeeds.    *)
Denied(id) == id = "POD-READINESS" /\ target.ready = TRUE

EventsEndUnhealthy ==
  LET about == {i \in DOMAIN Held.events : Held.events[i].own /\ Held.events[i].readiness}
  IN  about # {} /\ Held.events[Last(about)].unhealthy

(* What is confirmed is there: some container, event, Pod, slice or        *)
(* condition of the target shows the fault, and no condition denies it.    *)
(* There are two exceptions.  The Pod's last event about its readiness     *)
(* probe outranks its condition Ready, however old it is: a Pod that has   *)
(* become ready is confirmed to fail its probe (observation.go:115),       *)
(* against docs/adr/0002-deterministic-rules.md:7.  And where the inventory*)
(* does not follow the kind of a Service's Pods or EndpointSlices, their   *)
(* absence from it is taken for their absence from the cluster, against    *)
(* docs/architecture/overview.md:45.                                       *)
ConfirmedIsShown ==
  Reported => \A id \in report.confirmed :
                \/ Shows(id) /\ (Denied(id) => EventsEndUnhealthy)
                \/ id = "SVC-SELECTOR" /\ "Pod" \in unfollowed
                \/ id = "SVC-ENDPOINT" /\ "EndpointSlice" \in unfollowed

Place(id) == CHOOSE i \in DOMAIN Catalog : Catalog[i].id = id

(* Every rule of the kind is evaluated once, in the order of the catalogue,*)
(* and is in one list of the report, the counts add up, and the root cause *)
(* is the first rule of the catalogue that is confirmed.                   *)
ReportCoversCatalog ==
  Reported =>
    /\ {steps[i].rule : i \in DOMAIN steps} = RulesOf(target.kind)
    /\ \A i, j \in DOMAIN steps : i < j => Place(steps[i].rule) < Place(steps[j].rule)
    /\ report.confirmed = StepsWith("FAILED")
    /\ report.checked = Cardinality(report.confirmed) + Cardinality(report.healthy)
    /\ IF report.verdict = "CONFIRMED"
       THEN /\ report.rootCause \in report.confirmed
            /\ \A id \in report.confirmed : Place(report.rootCause) <= Place(id)
       ELSE report.rootCause = Absent

(* The state in the lists and the verdict of a diagnosis contradict each   *)
(* other only where the two look at different things: a Lost claim is not  *)
(* Pending; a healthy Pod may have been killed before, or have an old event*)
(* of its probe; the inventory asks for neither selector nor ports of a    *)
(* Service, and takes an endpoint without a ready condition for ready.     *)
AgreesWithInventory ==
  Reported =>
    /\ State(Held) = "critical" /\ report.verdict = "NO_ISSUE" =>
         target.kind = "PersistentVolumeClaim" /\ target.phase = "Lost"
    /\ State(Held) = "healthy" =>
         \A id \in report.confirmed :
           \/ id \in {"POD-OOMKILLED", "POD-READINESS", "SVC-SELECTOR", "SVC-TARGETPORT"}
           \/ /\ id = "SVC-ENDPOINT"
              /\ target.external \/ Absent \in Endpoints(Held.cluster)

ReasonOf(container, id) == IF id = "POD-OOMKILLED" THEN container.terminated ELSE container.waiting
FaultOf(id) == Catalog[Place(id)].value

(* A check is reported healthy although the target shows its fault only    *)
(* where a later reading has taken the place of the one that shows it: a   *)
(* later container with another reason, a later event about the probe, or  *)
(* the condition Ready of a Pod whose events the inventory does not hold.  *)
HealthyIsOverwritten ==
  Reported => \A id \in report.healthy :
    Shows(id) =>
      IF id = "POD-READINESS"
      THEN \/ "Event" \in unfollowed /\ target.ready = TRUE
           \/ \E i, j \in DOMAIN target.events :
                i < j /\ target.events[i].unhealthy /\ ~target.events[j].unhealthy
      ELSE \E i, j \in DOMAIN target.containers :
             /\ i < j
             /\ ReasonOf(target.containers[i], id) = FaultOf(id)
             /\ ReasonOf(target.containers[j], id) \notin {Absent, FaultOf(id)}
=============================================================================
