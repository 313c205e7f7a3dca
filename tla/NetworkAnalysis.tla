--------------------------- MODULE NetworkAnalysis --------------------------
(***************************************************************************)
(* A network diagnosis: the path analysis Analyze of                       *)
(* internal/network/analyzer.go, the results the server draws from its     *)
(* steps (createNetworkDiagnosis of internal/api/server.go) and the report *)
(* of BuildNetworkReport (internal/diagnosis/report.go).                   *)
(*                                                                         *)
(* Every step of the path is an action, in the order of the code.  The     *)
(* texts of steps, remediation and verification are left out.              *)
(***************************************************************************)
EXTENDS ClusterObjects, FiniteSets

CONSTANTS
  Snapshots,   \* the snapshots that are analysed, see BuildNetwork
  Requests,    \* of [port, activeProbe]
  Probes       \* what the probe runner answers: "result" or "error"

Path == <<"source", "dns", "service", "selector", "endpointslices",
          "ready-endpoints", "service-port", "target-port", "network-policy",
          "active-probe">>

Roles == {"supporting", "missing", "neutral"}
NoReport == [verdict |-> Absent]

VARIABLES
  snapshot,
  request,
  steps,       \* result.Steps
  rootCause,   \* result.RootCause, or Absent
  returned,    \* Analyze has returned
  hypothesis,  \* evidence of the hypothesis, by role
  report

vars == <<snapshot, request, steps, rootCause, returned, hypothesis, report>>

Step(id, status, role) == [id |-> id, status |-> status, role |-> role]

(* Before the first step.                                                  *)
Idle ==
  /\ request \in Requests
  /\ steps = <<>>
  /\ rootCause = Absent
  /\ returned = FALSE
  /\ hypothesis = [role \in Roles |-> {}]
  /\ report = NoReport

Init == snapshot \in Snapshots /\ Idle

-----------------------------------------------------------------------------
(* Selecting from a snapshot.                                              *)

SelectPods == {pod \in snapshot.backendPods :
                 LabelsMatch(snapshot.service.selector, pod.labels)}
OwnSlices == {slice \in snapshot.slices : slice.own}

ReadyEndpoints == \E slice \in OwnSlices : TRUE \in slice.endpoints

(* The first service port with the requested number.                       *)
HasServicePort ==
  \E i \in DOMAIN snapshot.service.ports : snapshot.service.ports[i].port = request.port
FindServicePort ==
  LET ports == snapshot.service.ports
      i == CHOOSE i \in DOMAIN ports :
             /\ ports[i].port = request.port
             /\ \A j \in DOMAIN ports : ports[j].port = request.port => i <= j
  IN  ports[i]

ResolveTargetPort(target, ports) ==
  IF target \in 1 .. 65535 THEN target
  ELSE IF target \in DOMAIN ports THEN ports[target] ELSE Absent

Declares(pod) ==
  \E key \in DOMAIN pod.containerPorts :
    pod.containerPorts[key] = ResolveTargetPort(FindServicePort.target, pod.containerPorts)
Mismatched == {pod \in SelectPods : ~Declares(pod)}

-----------------------------------------------------------------------------
(* appendSkippedSteps: what the path did not reach, in its order.          *)
WithSkipped(done) ==
  LET left == {i \in DOMAIN Path : \A j \in DOMAIN done : done[j].id # Path[i]}
      Nth(n) == CHOOSE i \in left : Cardinality({k \in left : k < i}) = n - 1
  IN  done \o [n \in 1 .. Cardinality(left) |-> Step(Path[Nth(n)], "SKIPPED", "missing")]

At(id) == ~returned /\ Path[Len(steps) + 1] = id

Goes(id, status, role) ==
  /\ steps' = Append(steps, Step(id, status, role))
  /\ UNCHANGED <<snapshot, request, rootCause, returned, hypothesis, report>>
Passes(id) == Goes(id, "PASSED", "neutral")

(* fail(): the analysis returns.                                           *)
FailsWithFirstCause(id, cause) ==
  /\ steps' = WithSkipped(Append(steps, Step(id, "FAILED", "supporting")))
  /\ rootCause' = IF rootCause = Absent THEN cause ELSE rootCause
  /\ returned' = TRUE
  /\ UNCHANGED <<snapshot, request, hypothesis, report>>

Fails(id, cause) ==
  /\ steps' = WithSkipped(Append(steps, Step(id, "FAILED", "supporting")))
  /\ rootCause' = cause
  /\ returned' = TRUE
  /\ UNCHANGED <<snapshot, request, hypothesis, report>>

(* A source that is not ready is a failed step and the root cause so far,  *)
(* but the analysis goes on.                                               *)
Source ==
  /\ At("source")
  /\ \/ snapshot.sourcePods = {} /\ Goes("source", "MISSING", "missing")
     \/ /\ \E pod \in snapshot.sourcePods : pod.running /\ pod.ready
        /\ Passes("source")
     \/ /\ snapshot.sourcePods # {}
        /\ \A pod \in snapshot.sourcePods : ~(pod.running /\ pod.ready)
        /\ steps' = Append(steps, Step("source", "FAILED", "supporting"))
        /\ rootCause' = "source_not_ready"
        /\ UNCHANGED <<snapshot, request, returned, hypothesis, report>>

Dns == At("dns") /\ Goes("dns", "SKIPPED", "missing")

Service ==
  /\ At("service")
  /\ \/ snapshot.service = Absent /\ Fails("service", "service_not_found")
     \/ snapshot.service # Absent /\ Passes("service")

Selector ==
  /\ At("selector")
  /\ \/ SelectPods = {} /\ Fails("selector", "service_selector_mismatch")
     \/ SelectPods # {} /\ Passes("selector")

EndpointSlices ==
  /\ At("endpointslices")
  /\ \/ OwnSlices = {} /\ Fails("endpointslices", "no_endpointslice")
     \/ OwnSlices # {} /\ Passes("endpointslices")

ReadyEndpoint ==
  /\ At("ready-endpoints")
  /\ \/ ~ReadyEndpoints /\ Fails("ready-endpoints", "no_ready_endpoint")
     \/ ReadyEndpoints /\ Passes("ready-endpoints")

ServicePort ==
  /\ At("service-port")
  /\ \/ ~HasServicePort /\ Fails("service-port", "service_port_not_found")
     \/ HasServicePort /\ Passes("service-port")

TargetPortGoesOn ==
  /\ At("target-port")
  /\ IF Mismatched = {} THEN Passes("target-port")
     ELSE Goes("target-port", "FAILED", "supporting")

TargetPort ==
  /\ At("target-port")
  /\ \/ Mismatched # {} /\ Fails("target-port", "target_port_mismatch")
     \/ Mismatched = {} /\ Passes("target-port")

NetworkPolicy ==
  /\ At("network-policy")
  /\ \/ snapshot.policy.denied /\ Fails("network-policy", "network_policy_denied")
     \/ /\ ~snapshot.policy.denied
        /\ IF snapshot.policy.applicable THEN Passes("network-policy")
           ELSE Goes("network-policy", "MISSING", "missing")

(* An error of the runner, that it is disabled among them, is a failed     *)
(* step; what a result says of its success is not looked at.               *)
ActiveProbe ==
  /\ At("active-probe")
  /\ \/ /\ request.activeProbe
        /\ \E answer \in Probes :
             steps' = Append(steps,
                        IF answer = "error" THEN Step("active-probe", "FAILED", "supporting")
                        ELSE Step("active-probe", "PASSED", "neutral"))
     \/ /\ ~request.activeProbe
        /\ steps' = Append(steps, Step("active-probe", "SKIPPED", "neutral"))
  /\ returned' = TRUE
  /\ UNCHANGED <<snapshot, request, rootCause, hypothesis, report>>

-----------------------------------------------------------------------------
IdsWith(statuses) == {steps[i].id : i \in {i \in DOMAIN steps : steps[i].status \in statuses}}

FirstFailed ==
  LET failed == {i \in DOMAIN steps : steps[i].status = "FAILED"}
  IN  IF failed = {} THEN Absent
      ELSE steps[CHOOSE i \in failed : \A j \in failed : i <= j].id

(* The evidence of all steps is sorted by role into the hypothesis, then   *)
(* the report is built from the steps.                                     *)
ReportLatest ==
  /\ returned
  /\ report = NoReport
  /\ hypothesis' = [role \in Roles |->
                      {steps[i].id : i \in {i \in DOMAIN steps : steps[i].role = role}}]
  /\ report' = [verdict |-> IF IdsWith({"FAILED"}) # {} THEN "CONFIRMED"
                            ELSE IF IdsWith({"MISSING"}) # {} THEN "INCONCLUSIVE"
                            ELSE "NO_ISSUE",
                rootCause |-> rootCause,
                blockedAt |-> FirstFailed,
                confirmed |-> IdsWith({"FAILED"}),
                healthy |-> IdsWith({"PASSED"}),
                unknown |-> IdsWith({"MISSING"}),
                checked |-> Cardinality({i \in DOMAIN steps : steps[i].status \in {"PASSED", "FAILED"}}),
                total |-> Len(steps)]
  /\ UNCHANGED <<snapshot, request, steps, rootCause, returned>>

Report ==
  /\ returned
  /\ report = NoReport
  /\ hypothesis' = [role \in Roles |->
                      {steps[i].id : i \in {i \in DOMAIN steps : steps[i].role = role}}]
  /\ report' = [verdict |-> IF IdsWith({"FAILED"}) # {} THEN "CONFIRMED"
                            ELSE IF IdsWith({"MISSING", "SKIPPED"}) # {} THEN "INCONCLUSIVE"
                            ELSE "NO_ISSUE",
                rootCause |-> rootCause,
                blockedAt |-> FirstFailed,
                confirmed |-> IdsWith({"FAILED"}),
                healthy |-> IdsWith({"PASSED"}),
                unknown |-> IdsWith({"MISSING", "SKIPPED"}),
                checked |-> Cardinality({i \in DOMAIN steps : steps[i].status \in {"PASSED", "FAILED"}}),
                total |-> Len(steps)]
  /\ UNCHANGED <<snapshot, request, steps, rootCause, returned>>

Next ==
  \/ Source \/ Dns \/ Service \/ Selector \/ EndpointSlices \/ ReadyEndpoint
  \/ ServicePort \/ TargetPort \/ NetworkPolicy \/ ActiveProbe \/ Report

Spec == Init /\ [][Next]_vars

-----------------------------------------------------------------------------
(* A result accounts for the whole path: wherever the analysis stops,      *)
(* every step is there once, in order, and nothing is found healthy or     *)
(* blocked behind the step at which traffic is blocked; only a source that *)
(* is not ready does not end the analysis.                                 *)
PathIsWhole ==
  /\ returned => [i \in DOMAIN steps |-> steps[i].id] = Path
  /\ \A i, j \in DOMAIN steps :
       i < j /\ i # 1 /\ steps[i].status = "FAILED" => steps[j].status = "SKIPPED"

(* The root cause is that of the last step that failed, and only a failed  *)
(* probe is confirmed without one.                                         *)
CauseOf(id) ==
  CASE id = "source" -> "source_not_ready"
    [] id = "service" -> "service_not_found"
    [] id = "selector" -> "service_selector_mismatch"
    [] id = "endpointslices" -> "no_endpointslice"
    [] id = "ready-endpoints" -> "no_ready_endpoint"
    [] id = "service-port" -> "service_port_not_found"
    [] id = "target-port" -> "target_port_mismatch"
    [] id = "network-policy" -> "network_policy_denied"
RootCauseIsLastBreak ==
  LET failed == {i \in DOMAIN steps : steps[i].status = "FAILED" /\ i # Len(Path)}
      last == CHOOSE i \in failed : \A j \in failed : j <= i
  IN  rootCause = IF failed = {} THEN Absent ELSE CauseOf(steps[last].id)

(* The report and the hypothesis are drawn from the same steps by two      *)
(* loops: every step is in one list of the report, the counts add up, what *)
(* supports the hypothesis is what is confirmed, what it misses is unknown.*)
(* Since DNS is never resolved, no report says that there is no issue.     *)
ListsAgree ==
  report # NoReport =>
    /\ report.confirmed \union report.healthy \union report.unknown = {Path[i] : i \in DOMAIN Path}
    /\ report.confirmed \intersect report.healthy = {}
    /\ (report.confirmed \union report.healthy) \intersect report.unknown = {}
    /\ report.total = Len(Path)
    /\ report.checked + Cardinality(report.unknown) = report.total
    /\ hypothesis["supporting"] = report.confirmed
    /\ hypothesis["missing"] \subseteq report.unknown
    /\ report.verdict = "CONFIRMED" <=> hypothesis["supporting"] # {}
    /\ report.verdict # "NO_ISSUE"
=============================================================================
