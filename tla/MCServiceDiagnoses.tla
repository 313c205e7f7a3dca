------------------------- MODULE MCServiceDiagnoses -------------------------
(* Model-checking instances of ServiceDiagnoses.                            *)
EXTENDS ServiceDiagnoses, TLC

CONSTANTS http, app, tier, front, back

(* Snapshots of any kind.                                                   *)

Pod(labels, ready, ports) ==
  [labels |-> labels, running |-> TRUE, ready |-> ready, containerPorts |-> ports]

(* A Pod that calls its port 8080 http, one with another port, and one that *)
(* the selectors below do not select.                                       *)
Named == Pod({app, tier}, TRUE, http :> 8080)
Other == Pod({app}, FALSE, 9090 :> 9090)
Alien == Pod({}, TRUE, http :> 8080)

AllServices ==
  {Absent} \union
  [selector : {{}, {app}, {app, tier}},
   ports : {<<>>, <<[port |-> 80, target |-> http]>>, <<[port |-> 80, target |-> 9090]>>,
            <<[port |-> 81, target |-> 1], [port |-> 80, target |-> 8080],
              [port |-> 80, target |-> 0]>>}]

AllSnapshots ==
  [sourcePods : {{}, {Other}, {Other, Named}},
   service : AllServices,
   backendPods : {{}, {Alien}, {Named, Alien}, {Named, Other}},
   slices : {{}, {[own |-> FALSE, endpoints |-> {TRUE}]}, {[own |-> TRUE, endpoints |-> {FALSE, Absent}]},
             {[own |-> TRUE, endpoints |-> {}], [own |-> TRUE, endpoints |-> {TRUE, FALSE}]}},
   policy : {[applicable |-> FALSE, denied |-> FALSE], [applicable |-> TRUE, denied |-> FALSE],
             [applicable |-> TRUE, denied |-> TRUE]}]

(* Objects around a Service.                                                *)

At8080 == [name |-> http, number |-> 8080]
At9090 == [name |-> Absent, number |-> 9090]

PodsWith(portLists) ==
  [labels : {{}, {app}, {app, tier}}, running : {TRUE}, ready : BOOLEAN, ports : portLists]

ClustersWith(portLists) ==
  [service : {Absent} \union
     [selector : {{}, {app}},
      ports : {<<[port |-> 80, target |-> http]>>, <<[port |-> 80, target |-> 9090]>>,
               <<[port |-> 80, target |-> 8080]>>,
               <<[port |-> 81, target |-> 1], [port |-> 80, target |-> 8080]>>,
               <<[port |-> 9090, target |-> Absent], [port |-> 80, target |-> Absent]>>}],
   pods : UNION {[names -> PodsWith(portLists)] : names \in {{back}, {front, back}}},
   slices : {{}, {[own |-> FALSE, endpoints |-> {TRUE}]}, {[own |-> TRUE, endpoints |-> {FALSE, Absent}]},
             {[own |-> TRUE, endpoints |-> {TRUE}]}},
   policy : {TRUE}]

(* Every name stands for one port of a Pod.                                 *)
UniqueNames == ClustersWith({<<>>, <<At8080>>, <<At9090, At8080>>})

AnySource ==
  {[kind |-> "Pod", name |-> front, selector |-> {}],
   [kind |-> "Deployment", name |-> Absent, selector |-> {}],
   [kind |-> "Deployment", name |-> Absent, selector |-> {tier}]}

AllRequests == {r \in [port : {80, 9090}, activeProbe : BOOLEAN] :
                  r.activeProbe => r.port = 80}
=============================================================================
