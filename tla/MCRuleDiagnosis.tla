-------------------------- MODULE MCRuleDiagnosis ---------------------------
(* Model-checking instances of RuleDiagnosis.                               *)
EXTENDS RuleDiagnosis

CONSTANTS http, app, front, back

Upto(n, S) == UNION {[1 .. m -> S] : m \in 0 .. n}

Containers ==
  {c \in [ready : BOOLEAN,
           waiting : {Absent, "CrashLoopBackOff", "ImagePullBackOff", "ContainerCreating"},
           terminated : {Absent, "OOMKilled", "Error"}] : c.ready => c.waiting = Absent}
Events ==
  {[own |-> TRUE, readiness |-> TRUE, unhealthy |-> TRUE],
   [own |-> TRUE, readiness |-> TRUE, unhealthy |-> FALSE],
   [own |-> TRUE, readiness |-> FALSE, unhealthy |-> TRUE],
   [own |-> FALSE, readiness |-> TRUE, unhealthy |-> TRUE]}
ReadyValues == {TRUE, FALSE, Absent}

(* Pods by their containers, and Pods by their conditions and events; the   *)
(* kubelet has reported nothing of a Pod that is not scheduled.             *)
Pods ==
  [kind : {"Pod"}, phase : {"Running", "Succeeded", "Failed"}, ready : {TRUE, FALSE},
   scheduled : {"True"}, message : {{}}, containers : Upto(2, Containers), events : {<<>>}]
    \union
  {pod \in [kind : {"Pod"}, phase : {"Pending", "Running"}, ready : ReadyValues,
            scheduled : {Absent, "True", "False", "Unschedulable"},
            message : SUBSET {"insufficient", "taint"},
            containers : {<<>>, <<[ready |-> TRUE, waiting |-> Absent, terminated |-> Absent]>>,
                          <<[ready |-> FALSE, waiting |-> "ErrImagePull", terminated |-> Absent]>>},
            events : Upto(2, Events)] :
     /\ pod.scheduled # "True" =>
          pod.phase = "Pending" /\ pod.ready # TRUE /\ pod.containers = <<>>
     /\ pod.scheduled # "Unschedulable" => pod.message = {}}

Services ==
  [kind : {"Service"}, external : BOOLEAN,
   cluster :
     [service : [selector : {{}, {app}},
                 ports : {<<>>, <<[port |-> 80, target |-> http]>>,
                          <<[port |-> 80, target |-> 8080], [port |-> 9090, target |-> Absent]>>}],
      pods : UNION {[names -> [labels : {{}, {app}}, running : {TRUE}, ready : {TRUE},
                               ports : {<<>>, <<[name |-> http, number |-> 8080]>>,
                                        <<[name |-> http, number |-> 8080],
                                          [name |-> Absent, number |-> 9090]>>}]] :
                    names \in {{back}, {front, back}}},
      slices : {{}, {[own |-> FALSE, endpoints |-> {TRUE}]},
                {[own |-> TRUE, endpoints |-> {FALSE, Absent}]},
                {[own |-> TRUE, endpoints |-> {Absent}]},
                {[own |-> TRUE, endpoints |-> {FALSE}]},
                {[own |-> TRUE, endpoints |-> {}], [own |-> TRUE, endpoints |-> {TRUE}]}},
      policy : {FALSE}]]

Counts == 0 .. 2

(* The kinds with a state and no rules.                                     *)
Others ==
  [kind : {"PersistentVolume"}, phase : {"Available", "Bound", "Released", "Failed", Absent}]
    \union [kind : {"Namespace"}, phase : {"Active", "Terminating", Absent}]
    \union [kind : {"EndpointSlice"}, endpoints : SUBSET ReadyValues]
    \union [kind : Workloads \union {"DaemonSet"}, desired : Counts, available : Counts]
    \union [kind : {"PodDisruptionBudget"}, reported : {TRUE}, desired : Counts,
            available : Counts]
    \union [kind : {"PodDisruptionBudget"}, reported : {FALSE}, desired : {0}, available : {0}]
    \union [kind : {"Job"}, completions : Counts, succeeded : Counts, failed : 0 .. 1]
    \union [kind : {"CronJob"}, suspended : BOOLEAN, active : BOOLEAN, scheduled : BOOLEAN]
    \union [kind : {"Ingress"}, address : BOOLEAN, routed : BOOLEAN]
    \union [kind : {"NetworkPolicy", "StorageClass"}, specified : BOOLEAN]
    \union [kind : {"HorizontalPodAutoscaler"}, desired : Counts, available : Counts,
            conditions : SUBSET BOOLEAN]
    \union [kind : {"Event"}, warning : BOOLEAN]
    \union [kind : {"ConfigMap"}]
    \union [kind : {"Other"}, conditions : SUBSET BOOLEAN]

AllTargets ==
  Pods \union Services \union Others
    \union [kind : {"PersistentVolumeClaim"}, phase : {"Pending", "Bound", "Lost", Absent}]
    \union [kind : {"Node"}, ready : ReadyValues]
=============================================================================
