----------------------- MODULE ServiceDiagnoses_proofs ----------------------
(***************************************************************************)
(* That every network diagnosis accounts for the whole path, names the     *)
(* cause of its last break, sorts its steps into lists that add up, and    *)
(* does not contradict what the rules observe of the same objects, for     *)
(* every snapshot, cluster, source and request.                            *)
(*                                                                         *)
(* Every step of the analysis either adds one step to the path or ends it  *)
(* (StepsOfThePath); the invariant is kept in these two cases, and not     *)
(* once for each of the ten actions.                                       *)
(***************************************************************************)
EXTENDS ServiceDiagnoses, FiniteSetTheorems, WellFoundedInduction, TLAPS

PathIds == {Path[i] : i \in 1 .. 10}
Statuses == {"PASSED", "FAILED", "MISSING", "SKIPPED"}
StepRecords == [id : PathIds, status : Statuses, role : Roles]

(* The role that goes with a status: a step that was not asked for is      *)
(* neutral, one that could not be looked at is missing.                    *)
Kinds == {<<"PASSED", "neutral">>, <<"FAILED", "supporting">>,
          <<"MISSING", "missing">>, <<"SKIPPED", "missing">>,
          <<"SKIPPED", "neutral">>}

-----------------------------------------------------------------------------
(* The invariant.                                                          *)

(* The steps are the path as far as it goes, and the analysis returns with *)
(* the last one.                                                           *)
StepsInv ==
  /\ steps \in Seq(StepRecords)
  /\ Len(steps) \in 0 .. 10
  /\ \A i \in 1 .. Len(steps) :
       steps[i].id = Path[i] /\ <<steps[i].status, steps[i].role>> \in Kinds
  /\ returned \in BOOLEAN
  /\ returned <=> Len(steps) = 10
  /\ 2 <= Len(steps) => steps[2].status = "SKIPPED"

(* Where the analysis goes on, everything but the source was in order.     *)
BlockInv ==
  /\ \A i, j \in 1 .. Len(steps) :
       i < j /\ i # 1 /\ steps[i].status = "FAILED" => steps[j].status = "SKIPPED"
  /\ ~returned => \A i \in 2 .. Len(steps) : steps[i].status # "FAILED"
  /\ ~returned => \A i \in 3 .. 8 : i <= Len(steps) => steps[i].status = "PASSED"

(* The step m is the last break, or there is none.                         *)
CauseInv ==
  \/ /\ rootCause = Absent
     /\ \A i \in 1 .. 9 : i <= Len(steps) => steps[i].status # "FAILED"
  \/ \E m \in 1 .. 9 :
       /\ m <= Len(steps)
       /\ steps[m].status = "FAILED"
       /\ \A i \in 1 .. 9 : m < i /\ i <= Len(steps) => steps[i].status # "FAILED"
       /\ rootCause = CauseOf(Path[m])

(* What a step with a status says of the snapshot.                         *)
Says(i, status) ==
  /\ i = 1 /\ status \in {"PASSED", "FAILED"} => snapshot.sourcePods # {}
  /\ i = 4 /\ status = "PASSED" => SelectPods # {}
  /\ i = 4 /\ status = "FAILED" => SelectPods = {}
  /\ i = 5 /\ status = "FAILED" => OwnSlices = {}
  /\ i = 6 /\ status = "PASSED" => ReadyEndpoints
  /\ i = 6 /\ status = "FAILED" => ~ReadyEndpoints
  /\ i = 7 /\ status = "PASSED" => HasServicePort
  /\ i = 8 /\ status = "PASSED" => Mismatched = {}
  /\ i = 8 /\ status = "FAILED" => Mismatched # {}
  /\ i = 8 /\ status \in {"PASSED", "FAILED"} => HasServicePort /\ SelectPods # {}

SaysInv == \A i \in 1 .. Len(steps) : Says(i, steps[i].status)

ReportInv == report # NoReport => returned /\ ListsAgree

ObjectsInv ==
  cluster # Absent =>
    /\ cluster \in Clusters
    /\ source \in Sources
    /\ snapshot = BuildNetwork(cluster, source)

NetworkInv == StepsInv /\ BlockInv /\ CauseInv /\ SaysInv /\ ReportInv /\ ObjectsInv

-----------------------------------------------------------------------------
(* The path.                                                               *)

(* The steps of the path have ten different names.                         *)
LEMMA PathIs ==
  /\ DOMAIN Path = 1 .. 10 /\ Len(Path) = 10
  /\ Path = [i \in 1 .. 10 |-> Path[i]]
  /\ \A i, j \in 1 .. 10 : Path[i] = Path[j] => i = j
  /\ Path[1] = "source" /\ Path[2] = "dns" /\ Path[3] = "service"
  /\ Path[4] = "selector" /\ Path[5] = "endpointslices"
  /\ Path[6] = "ready-endpoints" /\ Path[7] = "service-port"
  /\ Path[8] = "target-port" /\ Path[9] = "network-policy"
  /\ Path[10] = "active-probe"
<1>1. DOMAIN Path = 1 .. 10 /\ Len(Path) = 10
  BY DEF Path
<1>2. Path = [i \in 1 .. 10 |-> Path[i]]
  BY <1>1 DEF Path
<1>3. \A i, j \in 1 .. 10 : Path[i] = Path[j] => i = j
  BY DEF Path
<1>4. /\ Path[1] = "source" /\ Path[2] = "dns" /\ Path[3] = "service"
      /\ Path[4] = "selector" /\ Path[5] = "endpointslices"
      /\ Path[6] = "ready-endpoints" /\ Path[7] = "service-port"
      /\ Path[8] = "target-port" /\ Path[9] = "network-policy"
      /\ Path[10] = "active-probe"
  BY DEF Path
<1> QED BY <1>1, <1>2, <1>3, <1>4

(* What the path did not reach follows in its order, skipped: the n-th     *)
(* step that is left is the one behind the m that are done.                *)
LEMMA WithSkippedIs ==
  ASSUME NEW m \in 1 .. 10, NEW done \in Seq(StepRecords), Len(done) = m,
         \A i \in 1 .. m : done[i].id = Path[i]
  PROVE  /\ WithSkipped(done) \in Seq(StepRecords)
         /\ Len(WithSkipped(done)) = 10
         /\ \A i \in 1 .. m : WithSkipped(done)[i] = done[i]
         /\ \A i \in m + 1 .. 10 :
              WithSkipped(done)[i] = Step(Path[i], "SKIPPED", "missing")
<1> DEFINE left == {i \in DOMAIN Path : \A j \in DOMAIN done : done[j].id # Path[i]}
           Nth(n) == CHOOSE i \in left : Cardinality({k \in left : k < i}) = n - 1
           rest == [n \in 1 .. Cardinality(left) |->
                      Step(Path[Nth(n)], "SKIPPED", "missing")]
<1>1. left = m + 1 .. 10
  <2>1. DOMAIN done = 1 .. m /\ DOMAIN Path = 1 .. 10
    BY PathIs
  <2>2. ASSUME NEW i \in 1 .. 10
        PROVE  (\A j \in DOMAIN done : done[j].id # Path[i]) <=> i > m
    <3>1. ASSUME i > m, NEW j \in 1 .. m
          PROVE  done[j].id # Path[i]
      <4>1. done[j].id = Path[j] /\ j \in 1 .. 10 /\ j # i
        BY <3>1
      <4> QED BY <4>1, PathIs
    <3>2. i <= m => i \in 1 .. m /\ done[i].id = Path[i]
      OBVIOUS
    <3> QED BY <3>1, <3>2, <2>1
  <2>3. left = {i \in 1 .. 10 : i > m}
    BY <2>1, <2>2
  <2> QED BY <2>3
<1>2. Cardinality(left) = 10 - m
  <2>1. m + 1 \in Int /\ 10 \in Int
    OBVIOUS
  <2>2. Cardinality(m + 1 .. 10) = IF m + 1 > 10 THEN 0 ELSE 10 - (m + 1) + 1
    BY <2>1, FS_Interval
  <2>3. Cardinality(m + 1 .. 10) = 10 - m
    BY <2>2
  <2> HIDE DEF left
  <2> QED BY <1>1, <2>3
<1>3. ASSUME NEW n \in 1 .. 10 - m
      PROVE  Nth(n) = m + n
  <2>1. \A i \in left : {k \in left : k < i} = m + 1 .. i - 1
    BY <1>1
  <2>2. ASSUME NEW i \in left
        PROVE  Cardinality(m + 1 .. i - 1) = (i - 1) - m
    <3>1. m + 1 \in Int /\ i - 1 \in Int /\ m + 1 <= i /\ i \in Int
      BY <1>1
    <3>2. Cardinality(m + 1 .. i - 1) =
            IF m + 1 > i - 1 THEN 0 ELSE (i - 1) - (m + 1) + 1
      BY <3>1, FS_Interval
    <3> HIDE DEF left
    <3> QED BY <3>1, <3>2
  <2>3. \A i \in left : Cardinality({k \in left : k < i}) = (i - 1) - m
    BY <2>1, <2>2
  <2>4. m + n \in left /\ \A i \in left : i \in Int
    BY <1>1
  <2>5. ASSUME NEW i \in left
        PROVE  (Cardinality({k \in left : k < i}) = n - 1) <=> i = m + n
    <3>1. Cardinality({k \in left : k < i}) = (i - 1) - m /\ i \in Int
      BY <2>3, <2>4
    <3> HIDE DEF left
    <3> QED BY <3>1
  <2> HIDE DEF left
  <2> QED BY <2>4, <2>5
<1>4. rest = [n \in 1 .. 10 - m |-> Step(Path[m + n], "SKIPPED", "missing")]
  <2> HIDE DEF left, Nth
  <2> QED BY <1>2, <1>3
<1>5. WithSkipped(done) = done \o rest
  BY DEF WithSkipped
<1> HIDE DEF left, Nth, rest
<1>6. \A i \in 1 .. 10 : Step(Path[i], "SKIPPED", "missing") \in StepRecords
  BY DEF Step, StepRecords, PathIds, Statuses, Roles
<1>7. rest \in Seq(StepRecords) /\ Len(rest) = 10 - m
  <2>1. \A n \in 1 .. 10 - m : m + n \in 1 .. 10
    OBVIOUS
  <2>2. \A n \in 1 .. 10 - m : Step(Path[m + n], "SKIPPED", "missing") \in StepRecords
    BY <2>1, <1>6
  <2>3. rest \in [1 .. 10 - m -> StepRecords] /\ 10 - m \in Nat
    BY <1>4, <2>2
  <2> QED BY <2>3
<1>8. WithSkipped(done) \in Seq(StepRecords) /\ Len(WithSkipped(done)) = 10
  BY <1>5, <1>7
<1>9. \A i \in 1 .. m : WithSkipped(done)[i] = done[i]
  BY <1>5, <1>7
<1>10. ASSUME NEW i \in m + 1 .. 10
       PROVE  WithSkipped(done)[i] = Step(Path[i], "SKIPPED", "missing")
  <2>1. WithSkipped(done)[i] = rest[i - m]
    BY <1>5, <1>7
  <2> QED BY <2>1, <1>4
<1> QED BY <1>8, <1>9, <1>10

(* The steps are the beginning of the path.                                *)
LEMMA StepsShape ==
  ASSUME StepsInv
  PROVE  /\ Len(steps) \in 0 .. 10 /\ DOMAIN steps = 1 .. Len(steps)
         /\ \A i \in DOMAIN steps : i \in 1 .. 10 /\ steps[i].id = Path[i]
<1>1. Len(steps) \in 0 .. 10 /\ steps \in Seq(StepRecords)
  BY DEF StepsInv
<1>2. DOMAIN steps = 1 .. Len(steps)
  BY <1>1
<1>3. \A i \in 1 .. Len(steps) : steps[i].id = Path[i]
  BY DEF StepsInv
<1>4. \A l \in 0 .. 10 : \A i \in 1 .. l : i \in 1 .. 10
  OBVIOUS
<1>5. \A i \in DOMAIN steps : i \in 1 .. 10 /\ steps[i].id = Path[i]
  BY <1>1, <1>2, <1>3, <1>4
<1> QED BY <1>1, <1>2, <1>5

-----------------------------------------------------------------------------
(* The two ways of the analysis: it adds the step n and goes on, or it     *)
(* ends with it.                                                           *)
GoesOn(n, status, role) ==
  /\ <<status, role>> \in Kinds
  /\ n = 2 => status = "SKIPPED"
  /\ n \in 3 .. 8 => status = "PASSED"
  /\ status = "FAILED" => n \in {1, 10}
  /\ Says(n, status)
  /\ steps' = Append(steps, Step(Path[n], status, role))
  /\ rootCause' = IF n = 1 /\ status = "FAILED" THEN CauseOf(Path[1]) ELSE rootCause
  /\ returned' = (n = 10)

EndsWith(n) ==
  /\ n \in 3 .. 9
  /\ Says(n, "FAILED")
  /\ steps' = WithSkipped(Append(steps, Step(Path[n], "FAILED", "supporting")))
  /\ rootCause' = CauseOf(Path[n])
  /\ returned' = TRUE

PathStep ==
  /\ ~returned
  /\ UNCHANGED <<snapshot, request, hypothesis, report>>
  /\ \/ EndsWith(Len(steps) + 1)
     \/ \E status \in Statuses, role \in Roles : GoesOn(Len(steps) + 1, status, role)

(* The step that is due is the one behind the last.                        *)
LEMMA AtIs ==
  ASSUME StepsInv, NEW n \in 1 .. 10, At(Path[n])
  PROVE  ~returned /\ Len(steps) + 1 = n
<1>1. ~returned /\ Path[Len(steps) + 1] = Path[n]
  BY DEF At
<1>2. Len(steps) + 1 \in 1 .. 10
  <2>1. Len(steps) \in 0 .. 10 /\ (returned <=> Len(steps) = 10)
    BY DEF StepsInv
  <2>2. Len(steps) # 10
    BY <1>1, <2>1
  <2>3. \A l \in 0 .. 10 : l # 10 => l + 1 \in 1 .. 10
    OBVIOUS
  <2> QED BY <2>1, <2>2, <2>3
<1> QED BY <1>1, <1>2, PathIs

(* A step that passes goes on, if what it says is so.                      *)
LEMMA GoesIsPathStep ==
  ASSUME StepsInv, NEW n \in 1 .. 10, At(Path[n]),
         NEW status \in Statuses, NEW role \in Roles, <<status, role>> \in Kinds,
         Goes(Path[n], status, role), status # "FAILED", n # 10, Says(n, status),
         n = 2 => status = "SKIPPED", n \in 3 .. 8 => status = "PASSED"
  PROVE  PathStep
<1>1. ~returned /\ Len(steps) + 1 = n
  BY AtIs
<1>2. returned' = (n = 10)
  <2>1. returned' = returned /\ returned \in BOOLEAN
    BY DEF Goes, StepsInv
  <2> QED BY <1>1, <2>1
<1>3. GoesOn(n, status, role)
  BY <1>2 DEF Goes, GoesOn
<1> QED BY <1>1, <1>3 DEF PathStep, Goes

(* A step that fails ends the analysis, if what it says is so.             *)
LEMMA FailsIsPathStep ==
  ASSUME StepsInv, NEW n \in 3 .. 9, At(Path[n]), Says(n, "FAILED"),
         Fails(Path[n], CauseOf(Path[n]))
  PROVE  PathStep
<1>1. ~returned /\ Len(steps) + 1 = n
  BY AtIs
<1>2. EndsWith(n)
  BY DEF Fails, EndsWith
<1> QED BY <1>1, <1>2 DEF PathStep, Fails

(* The causes of the steps that end the analysis.                          *)
LEMMA CausesAre ==
  /\ CauseOf(Path[1]) = "source_not_ready"
  /\ CauseOf(Path[3]) = "service_not_found"
  /\ CauseOf(Path[4]) = "service_selector_mismatch"
  /\ CauseOf(Path[5]) = "no_endpointslice"
  /\ CauseOf(Path[6]) = "no_ready_endpoint"
  /\ CauseOf(Path[7]) = "service_port_not_found"
  /\ CauseOf(Path[8]) = "target_port_mismatch"
  /\ CauseOf(Path[9]) = "network_policy_denied"
BY PathIs DEF CauseOf

(* Past the service, everything the analysis looked at was in order.       *)
LEMMA PassedSoFar ==
  ASSUME StepsInv, BlockInv, SaysInv, ~returned
  PROVE  /\ Len(steps) >= 4 => SelectPods # {}
         /\ Len(steps) >= 7 => HasServicePort
<1>1. \A i \in 3 .. 8 : i <= Len(steps) => i \in 1 .. Len(steps)
                                           /\ steps[i].status = "PASSED"
  BY DEF StepsInv, BlockInv
<1>2. Len(steps) >= 4 => Says(4, "PASSED")
  BY <1>1 DEF SaysInv, StepsInv
<1>3. Len(steps) >= 7 => Says(7, "PASSED")
  BY <1>1 DEF SaysInv, StepsInv
<1> QED BY <1>2, <1>3 DEF Says

(* Every step of the analysis is one of the two.                           *)
LEMMA StepsOfThePath ==
  ASSUME StepsInv, BlockInv, SaysInv, Next
  PROVE  PathStep \/ Report
<1> USE DEF Kinds, Statuses, Roles
<1>1. CASE Source
  <2>1. At(Path[1])
    BY <1>1, PathIs DEF Source
  <2>2. CASE snapshot.sourcePods = {} /\ Goes("source", "MISSING", "missing")
    <3>1. Says(1, "MISSING")
      BY DEF Says
    <3> QED BY <2>1, <2>2, <3>1, PathIs, GoesIsPathStep
  <2>3. CASE /\ \E pod \in snapshot.sourcePods : pod.running /\ pod.ready
             /\ Passes("source")
    <3>1. Says(1, "PASSED")
      BY <2>3 DEF Says
    <3> QED BY <2>1, <2>3, <3>1, PathIs, GoesIsPathStep DEF Passes
  <2>4. CASE /\ snapshot.sourcePods # {}
             /\ steps' = Append(steps, Step("source", "FAILED", "supporting"))
             /\ rootCause' = "source_not_ready"
             /\ UNCHANGED <<snapshot, request, returned, hypothesis, report>>
    <3>1. ~returned /\ Len(steps) + 1 = 1
      BY <2>1, AtIs
    <3>2. Says(1, "FAILED")
      BY <2>4 DEF Says
    <3>3. returned' = (1 = 10)
      BY <3>1, <2>4 DEF StepsInv
    <3>4. GoesOn(1, "FAILED", "supporting")
      BY <2>4, <3>2, <3>3, PathIs, CausesAre DEF GoesOn
    <3> QED BY <3>1, <3>4, <2>4 DEF PathStep
  <2> QED BY <1>1, <2>2, <2>3, <2>4 DEF Source
<1>2. CASE Dns
  <2>1. At(Path[2]) /\ Goes(Path[2], "SKIPPED", "missing")
    BY <1>2, PathIs DEF Dns
  <2>2. Says(2, "SKIPPED")
    BY DEF Says
  <2> QED BY <2>1, <2>2, GoesIsPathStep
<1>3. CASE Service
  <2>1. At(Path[3])
    BY <1>3, PathIs DEF Service
  <2>2. Says(3, "PASSED") /\ Says(3, "FAILED")
    BY DEF Says
  <2>3. Fails(Path[3], CauseOf(Path[3])) \/ Passes(Path[3])
    BY <1>3, PathIs, CausesAre DEF Service
  <2> QED BY <2>1, <2>2, <2>3, GoesIsPathStep, FailsIsPathStep DEF Passes
<1>4. CASE Selector
  <2>1. At(Path[4])
    BY <1>4, PathIs DEF Selector
  <2>2. \/ Says(4, "FAILED") /\ Fails(Path[4], CauseOf(Path[4]))
        \/ Says(4, "PASSED") /\ Passes(Path[4])
    BY <1>4, PathIs, CausesAre DEF Selector, Says
  <2> QED BY <2>1, <2>2, GoesIsPathStep, FailsIsPathStep DEF Passes
<1>5. CASE EndpointSlices
  <2>1. At(Path[5])
    BY <1>5, PathIs DEF EndpointSlices
  <2>2. \/ Says(5, "FAILED") /\ Fails(Path[5], CauseOf(Path[5]))
        \/ Says(5, "PASSED") /\ Passes(Path[5])
    BY <1>5, PathIs, CausesAre DEF EndpointSlices, Says
  <2> QED BY <2>1, <2>2, GoesIsPathStep, FailsIsPathStep DEF Passes
<1>6. CASE ReadyEndpoint
  <2>1. At(Path[6])
    BY <1>6, PathIs DEF ReadyEndpoint
  <2>2. \/ Says(6, "FAILED") /\ Fails(Path[6], CauseOf(Path[6]))
        \/ Says(6, "PASSED") /\ Passes(Path[6])
    BY <1>6, PathIs, CausesAre DEF ReadyEndpoint, Says
  <2> QED BY <2>1, <2>2, GoesIsPathStep, FailsIsPathStep DEF Passes
<1>7. CASE ServicePort
  <2>1. At(Path[7])
    BY <1>7, PathIs DEF ServicePort
  <2>2. \/ Says(7, "FAILED") /\ Fails(Path[7], CauseOf(Path[7]))
        \/ Says(7, "PASSED") /\ Passes(Path[7])
    BY <1>7, PathIs, CausesAre DEF ServicePort, Says
  <2> QED BY <2>1, <2>2, GoesIsPathStep, FailsIsPathStep DEF Passes
<1>8. CASE TargetPort
  <2>1. At(Path[8])
    BY <1>8, PathIs DEF TargetPort
  <2>2. ~returned /\ Len(steps) + 1 = 8
    BY <2>1, AtIs
  <2>3. SelectPods # {} /\ HasServicePort
    BY <2>2, PassedSoFar DEF StepsInv
  <2>4. \/ Says(8, "FAILED") /\ Fails(Path[8], CauseOf(Path[8]))
        \/ Says(8, "PASSED") /\ Passes(Path[8])
    BY <1>8, <2>3, PathIs, CausesAre DEF TargetPort, Says
  <2> QED BY <2>1, <2>4, GoesIsPathStep, FailsIsPathStep DEF Passes
<1>9. CASE NetworkPolicy
  <2>1. At(Path[9])
    BY <1>9, PathIs DEF NetworkPolicy
  <2>2. \A status \in Statuses : Says(9, status)
    BY DEF Says
  <2>3. \/ Fails(Path[9], CauseOf(Path[9]))
        \/ Goes(Path[9], "PASSED", "neutral")
        \/ Goes(Path[9], "MISSING", "missing")
    BY <1>9, PathIs, CausesAre DEF NetworkPolicy, Passes
  <2> QED BY <2>1, <2>2, <2>3, GoesIsPathStep, FailsIsPathStep
<1>10. CASE ActiveProbe
  <2>1. At(Path[10])
    BY <1>10, PathIs DEF ActiveProbe
  <2>2. ~returned /\ Len(steps) + 1 = 10
    BY <2>1, AtIs
  <2>3. \A status \in Statuses : Says(10, status)
    BY DEF Says
  <2>4. \/ steps' = Append(steps, Step(Path[10], "FAILED", "supporting"))
        \/ steps' = Append(steps, Step(Path[10], "PASSED", "neutral"))
        \/ steps' = Append(steps, Step(Path[10], "SKIPPED", "neutral"))
    BY <1>10, PathIs DEF ActiveProbe
  <2>5. /\ returned' = (10 = 10)
        /\ UNCHANGED <<snapshot, request, rootCause, hypothesis, report>>
    BY <1>10 DEF ActiveProbe
  <2>6. \/ GoesOn(10, "FAILED", "supporting")
        \/ GoesOn(10, "PASSED", "neutral")
        \/ GoesOn(10, "SKIPPED", "neutral")
    BY <2>3, <2>4, <2>5 DEF GoesOn
  <2> QED BY <2>2, <2>5, <2>6 DEF PathStep
<1> QED BY <1>1, <1>2, <1>3, <1>4, <1>5, <1>6, <1>7, <1>8, <1>9, <1>10 DEF Next

-----------------------------------------------------------------------------
(* What the two ways make of the steps: those before stay, the step n has  *)
(* its status, and what follows it, if anything, is skipped.               *)
StepsAre(n, status, role, length) ==
  /\ steps' \in Seq(StepRecords)
  /\ Len(steps') = length
  /\ \A i \in 1 .. n - 1 : steps'[i] = steps[i]
  /\ steps'[n] = Step(Path[n], status, role)
  /\ \A i \in n + 1 .. length : steps'[i] = Step(Path[i], "SKIPPED", "missing")

LEMMA AppendedAre ==
  ASSUME StepsInv, ~returned, NEW status \in Statuses, NEW role \in Roles,
         NEW n, n = Len(steps) + 1
  PROVE  LET after == Append(steps, Step(Path[n], status, role)) IN
         /\ n \in 1 .. 10
         /\ after \in Seq(StepRecords)
         /\ Len(after) = n
         /\ \A i \in 1 .. n - 1 : after[i] = steps[i]
         /\ after[n] = Step(Path[n], status, role)
<1>1. Len(steps) \in 0 .. 10 /\ Len(steps) # 10 /\ steps \in Seq(StepRecords)
  BY DEF StepsInv
<1>2. n \in 1 .. 10 /\ n - 1 = Len(steps)
  <2>1. \A l \in 0 .. 10 : l # 10 => l + 1 \in 1 .. 10 /\ (l + 1) - 1 = l
    OBVIOUS
  <2> QED BY <1>1, <2>1
<1>3. Step(Path[n], status, role) \in StepRecords
  BY <1>2 DEF Step, StepRecords, PathIds
<1> QED BY <1>1, <1>2, <1>3

LEMMA GoesOnAre ==
  ASSUME StepsInv, ~returned, NEW status \in Statuses, NEW role \in Roles,
         NEW n, n = Len(steps) + 1, GoesOn(n, status, role)
  PROVE  n \in 1 .. 10 /\ StepsAre(n, status, role, n)
<1>1. steps' = Append(steps, Step(Path[n], status, role))
  BY DEF GoesOn
<1>2. n \in 1 .. 10 /\ \A i \in n + 1 .. n : FALSE
  BY AppendedAre
<1> QED BY <1>1, <1>2, AppendedAre DEF StepsAre

LEMMA EndsWithAre ==
  ASSUME StepsInv, ~returned, NEW n, n = Len(steps) + 1, EndsWith(n)
  PROVE  n \in 3 .. 9 /\ StepsAre(n, "FAILED", "supporting", 10)
<1> DEFINE done == Append(steps, Step(Path[n], "FAILED", "supporting"))
<1>1. "FAILED" \in Statuses /\ "supporting" \in Roles
  BY DEF Statuses, Roles
<1>2. /\ n \in 1 .. 10
      /\ done \in Seq(StepRecords)
      /\ Len(done) = n
      /\ \A i \in 1 .. n - 1 : done[i] = steps[i]
      /\ done[n] = Step(Path[n], "FAILED", "supporting")
  BY <1>1, AppendedAre
<1>3. steps' = WithSkipped(done) /\ n \in 3 .. 9
  BY DEF EndsWith
<1> HIDE DEF done
<1>4. \A i \in 1 .. n : done[i].id = Path[i]
  <2>1. done[n].id = Path[n]
    BY <1>2 DEF Step
  <2>2. \A i \in 1 .. n - 1 : steps[i].id = Path[i]
    <3>1. n - 1 = Len(steps)
      <4>1. \A l \in 0 .. 10 : (l + 1) - 1 = l
        OBVIOUS
      <4> QED BY <4>1 DEF StepsInv
    <3> QED BY <3>1 DEF StepsInv
  <2> QED BY <1>2, <2>1, <2>2
<1>5. /\ WithSkipped(done) \in Seq(StepRecords)
      /\ Len(WithSkipped(done)) = 10
      /\ \A i \in 1 .. n : WithSkipped(done)[i] = done[i]
      /\ \A i \in n + 1 .. 10 :
           WithSkipped(done)[i] = Step(Path[i], "SKIPPED", "missing")
  BY <1>2, <1>4, WithSkippedIs
<1> QED BY <1>2, <1>3, <1>5 DEF StepsAre

(* The part of a path step the parts of the invariant are kept by.         *)
Taken(n, status, length) ==
  /\ n = Len(steps) + 1
  /\ length \in n .. 10 /\ Len(steps') = length
  /\ \A i \in 1 .. n - 1 : steps'[i] = steps[i]
  /\ steps'[n].status = status
  /\ \A i \in n + 1 .. length : steps'[i].status = "SKIPPED"
  /\ Says(n, status)
  /\ \/ /\ length = n
        /\ returned' = (n = 10)
        /\ n \in 3 .. 8 => status = "PASSED"
        /\ status = "FAILED" => n \in {1, 10}
        /\ rootCause' = IF n = 1 /\ status = "FAILED" THEN CauseOf(Path[1])
                        ELSE rootCause
     \/ /\ length = 10 /\ n \in 3 .. 9 /\ status = "FAILED"
        /\ returned' = TRUE
        /\ rootCause' = CauseOf(Path[n])

LEMMA PathStepTaken ==
  ASSUME StepsInv, PathStep
  PROVE  \E n \in 1 .. 10, status \in Statuses, length \in 1 .. 10 :
           Taken(n, status, length)
<1> DEFINE n == Len(steps) + 1
<1>1. ~returned
  BY DEF PathStep
<1>2. ASSUME EndsWith(n)
      PROVE  Taken(n, "FAILED", 10) /\ n \in 1 .. 10
  <2>1. n \in 3 .. 9 /\ StepsAre(n, "FAILED", "supporting", 10)
    BY <1>1, <1>2, EndsWithAre
  <2>2. n = Len(steps) + 1
    OBVIOUS
  <2> HIDE DEF n
  <2>3. /\ steps'[n].status = "FAILED" /\ Len(steps') = 10
        /\ \A i \in 1 .. n - 1 : steps'[i] = steps[i]
        /\ \A i \in n + 1 .. 10 : steps'[i].status = "SKIPPED"
    <3>1. /\ steps'[n] = Step(Path[n], "FAILED", "supporting")
          /\ \A i \in n + 1 .. 10 : steps'[i] = Step(Path[i], "SKIPPED", "missing")
          /\ Len(steps') = 10
          /\ \A i \in 1 .. n - 1 : steps'[i] = steps[i]
      BY <2>1 DEF StepsAre
    <3>2. \A id, status, role : Step(id, status, role).status = status
      BY DEF Step
    <3> QED BY <3>1, <3>2
  <2>4. Says(n, "FAILED") /\ returned' = TRUE /\ rootCause' = CauseOf(Path[n])
    BY <1>2 DEF EndsWith
  <2>5. n \in 1 .. 10 /\ 10 \in n .. 10
    BY <2>1
  <2> QED BY <2>1, <2>2, <2>3, <2>4, <2>5 DEF Taken
<1>3. ASSUME NEW status \in Statuses, NEW role \in Roles, GoesOn(n, status, role)
      PROVE  Taken(n, status, n) /\ n \in 1 .. 10
  <2>1. n \in 1 .. 10 /\ StepsAre(n, status, role, n)
    BY <1>1, <1>3, GoesOnAre
  <2>2. n \in Int /\ n = Len(steps) + 1
    BY <2>1
  <2> HIDE DEF n
  <2> QED BY <1>3, <2>1, <2>2 DEF Taken, StepsAre, Step, GoesOn
<1> HIDE DEF n
<1>4. EndsWith(n) \/ \E status \in Statuses, role \in Roles : GoesOn(n, status, role)
  BY DEF PathStep, n
<1> QED BY <1>2, <1>3, <1>4 DEF Statuses

LEMMA PathStepKeepsStepsInv ==
  ASSUME StepsInv, PathStep
  PROVE  StepsInv'
<1> DEFINE n == Len(steps) + 1
           Right(s, i) == s[i].id = Path[i] /\ <<s[i].status, s[i].role>> \in Kinds
<1>1. ~returned /\ \A i \in 1 .. Len(steps) : Right(steps, i)
  BY DEF PathStep, StepsInv
<1>2. ASSUME NEW status \in Statuses, NEW role \in Roles, NEW length \in 1 .. 10,
             n \in 1 .. length, <<status, role>> \in Kinds,
             n = 2 => status = "SKIPPED",
             StepsAre(n, status, role, length), returned' = (length = 10)
      PROVE  StepsInv'
  <2>1. \A i \in 1 .. n - 1 : Right(steps', i)
    BY <1>1, <1>2 DEF StepsAre
  <2>2. Right(steps', n)
    BY <1>2 DEF StepsAre, Step
  <2>3. ASSUME NEW i \in n + 1 .. length
        PROVE  Right(steps', i)
    <3>1. steps'[i] = Step(Path[i], "SKIPPED", "missing")
      BY <1>2 DEF StepsAre
    <3>2. /\ Step(Path[i], "SKIPPED", "missing").id = Path[i]
          /\ Step(Path[i], "SKIPPED", "missing").status = "SKIPPED"
          /\ Step(Path[i], "SKIPPED", "missing").role = "missing"
      BY DEF Step
    <3> QED BY <3>1, <3>2 DEF Kinds
  <2>4. \A i \in 1 .. length : Right(steps', i)
    <3> HIDE DEF Right
    <3> QED BY <1>2, <2>1, <2>2, <2>3
  <2>5. steps' \in Seq(StepRecords) /\ Len(steps') = length
    BY <1>2 DEF StepsAre
  <2>6. 2 <= length => steps'[2].status = "SKIPPED"
    <3>1. CASE n = 1
      <4>1. 2 <= length => 2 \in n + 1 .. length
        BY <3>1
      <4>2. 2 <= length => steps'[2] = Step(Path[2], "SKIPPED", "missing")
        BY <4>1, <1>2 DEF StepsAre
      <4> QED BY <4>2 DEF Step
    <3>2. CASE n = 2
      BY <3>2, <1>2 DEF StepsAre, Step
    <3>3. CASE n > 2
      BY <3>3, <1>2 DEF StepsAre, StepsInv
    <3> QED BY <1>2, <3>1, <3>2, <3>3
  <2> HIDE DEF n
  <2>7. returned' \in BOOLEAN /\ (returned' <=> length = 10)
    BY <1>2
  <2> QED BY <2>4, <2>5, <2>6, <2>7 DEF StepsInv
<1>3. CASE EndsWith(n)
  <2>1. n \in 3 .. 9 /\ StepsAre(n, "FAILED", "supporting", 10)
    BY <1>1, <1>3, EndsWithAre
  <2>2. returned' = (10 = 10)
    BY <1>3 DEF EndsWith
  <2> HIDE DEF n
  <2> QED BY <1>2, <2>1, <2>2 DEF Statuses, Roles, Kinds
<1>4. ASSUME NEW status \in Statuses, NEW role \in Roles, GoesOn(n, status, role)
      PROVE  StepsInv'
  <2>1. n \in 1 .. 10 /\ StepsAre(n, status, role, n)
    BY <1>1, <1>4, GoesOnAre
  <2>2. /\ returned' = (n = 10) /\ <<status, role>> \in Kinds
        /\ n = 2 => status = "SKIPPED"
    BY <1>4 DEF GoesOn
  <2> HIDE DEF n
  <2> QED BY <1>2, <2>1, <2>2
<1> QED BY <1>3, <1>4 DEF PathStep

(* The lengths of the steps before and after.                              *)
LEMMA TakenLengths ==
  ASSUME StepsInv, NEW n \in 1 .. 10, NEW status, NEW length \in 1 .. 10,
         Taken(n, status, length)
  PROVE  /\ Len(steps) = n - 1 /\ Len(steps') = length /\ n <= length
         /\ \A i \in 1 .. length :
              \/ i < n /\ i \in 1 .. Len(steps) /\ steps'[i] = steps[i]
              \/ i = n /\ steps'[i].status = status
              \/ i > n /\ steps'[i].status = "SKIPPED" /\ length = 10 /\ n \in 3 .. 9
<1>1. Len(steps) = n - 1
  <2>1. \A l \in 0 .. 10 : (l + 1) - 1 = l
    OBVIOUS
  <2> QED BY <2>1 DEF StepsInv, Taken
<1>2. Len(steps') = length /\ n <= length
  BY DEF Taken
<1>3. ASSUME NEW i \in 1 .. length
      PROVE  \/ i < n /\ i \in 1 .. n - 1 /\ steps'[i] = steps[i]
             \/ i = n /\ steps'[i].status = status
             \/ i > n /\ steps'[i].status = "SKIPPED" /\ length = 10 /\ n \in 3 .. 9
  <2>1. CASE i < n
    <3>1. i \in 1 .. n - 1
      BY <2>1
    <3> QED BY <2>1, <3>1 DEF Taken
  <2>2. CASE i = n
    BY <2>2 DEF Taken
  <2>3. CASE i > n
    <3>1. i \in n + 1 .. length /\ length # n
      BY <2>3
    <3> QED BY <2>3, <3>1 DEF Taken
  <2> QED BY <2>1, <2>2, <2>3
<1> QED BY <1>1, <1>2, <1>3

LEMMA TakenKeepsBlockInv ==
  ASSUME StepsInv, BlockInv, ~returned,
         NEW n \in 1 .. 10, NEW status \in Statuses, NEW length \in 1 .. 10,
         Taken(n, status, length)
  PROVE  BlockInv'
<1>1. /\ Len(steps) = n - 1 /\ Len(steps') = length /\ n <= length
      /\ \A i \in 1 .. length :
           \/ i < n /\ i \in 1 .. n - 1 /\ steps'[i] = steps[i]
           \/ i = n /\ steps'[i].status = status
           \/ i > n /\ steps'[i].status = "SKIPPED" /\ length = 10 /\ n \in 3 .. 9
  BY TakenLengths
<1>2. \A i \in 1 .. n - 1 : i # 1 => steps[i].status # "FAILED"
  BY <1>1 DEF BlockInv
<1>3. \A i \in 1 .. n - 1 : i \in 3 .. 8 => steps[i].status = "PASSED"
  BY <1>1 DEF BlockInv
<1>4. ASSUME NEW i \in 1 .. length, NEW j \in 1 .. length,
             i < j, i # 1, steps'[i].status = "FAILED"
      PROVE  steps'[j].status = "SKIPPED"
  <2>1. i >= n
    BY <1>1, <1>2, <1>4
  <2>2. j > n
    BY <2>1, <1>4
  <2> QED BY <2>2, <1>1
<1>5. ASSUME ~returned', NEW i \in 1 .. length
      PROVE  /\ i # 1 => steps'[i].status # "FAILED"
             /\ i \in 3 .. 8 => steps'[i].status = "PASSED"
  <2>1. /\ length = n
        /\ n # 10
        /\ n \in 3 .. 8 => status = "PASSED"
        /\ status = "FAILED" => n \in {1, 10}
    BY <1>5 DEF Taken
  <2>2. CASE i < n
    BY <2>2, <1>1, <1>2, <1>3
  <2>3. CASE i = n
    BY <2>3, <2>1, <1>1
  <2> QED BY <2>1, <2>2, <2>3
<1>6. \A i \in 2 .. length : i \in 1 .. length /\ i # 1
  OBVIOUS
<1>7. \A i \in 3 .. 8 : i <= length => i \in 1 .. length
  OBVIOUS
<1> QED BY <1>1, <1>4, <1>5, <1>6, <1>7 DEF BlockInv

LEMMA TakenKeepsCauseInv ==
  ASSUME StepsInv, BlockInv, CauseInv, ~returned,
         NEW n \in 1 .. 10, NEW status \in Statuses, NEW length \in 1 .. 10,
         Taken(n, status, length)
  PROVE  CauseInv'
<1>1. /\ Len(steps) = n - 1 /\ Len(steps') = length /\ n <= length
      /\ \A i \in 1 .. length :
           \/ i < n /\ i \in 1 .. n - 1 /\ steps'[i] = steps[i]
           \/ i = n /\ steps'[i].status = status
           \/ i > n /\ steps'[i].status = "SKIPPED" /\ length = 10 /\ n \in 3 .. 9
  BY TakenLengths
(* The step n is the last break, or does not count as one.                 *)
<1>2. CASE status = "FAILED" /\ n # 10
  <2>1. n \in 1 .. 9 /\ n <= length /\ steps'[n].status = "FAILED"
    BY <1>1, <1>2
  <2>2. \A i \in 1 .. 9 : n < i /\ i <= length => steps'[i].status # "FAILED"
    <3>1. \A i \in 1 .. 9 : i <= length => i \in 1 .. length
      OBVIOUS
    <3> QED BY <3>1, <1>1
  <2>3. rootCause' = CauseOf(Path[n])
    BY <1>2 DEF Taken
  <2> QED BY <1>1, <2>1, <2>2, <2>3 DEF CauseInv
<1>3. CASE status # "FAILED" \/ n = 10
  <2>1. rootCause' = rootCause
    BY <1>3 DEF Taken
  <2>2. \A i \in 1 .. 9 : i <= length /\ ~(i <= n - 1) => steps'[i].status # "FAILED"
    <3>1. \A i \in 1 .. 9 : i <= length => i \in 1 .. length
      OBVIOUS
    <3>2. \A i \in 1 .. 9 : i <= length /\ ~(i <= n - 1) => i >= n /\ i # 10
      OBVIOUS
    <3> QED BY <3>1, <3>2, <1>1, <1>3
  <2>3. \A i \in 1 .. 9 : i <= n - 1 => i <= length /\ steps'[i] = steps[i]
    <3>1. \A i \in 1 .. 9 : i <= n - 1 => i \in 1 .. length /\ i < n
      BY <1>1
    <3> QED BY <3>1, <1>1
  <2>4. CASE /\ rootCause = Absent
             /\ \A i \in 1 .. 9 : i <= n - 1 => steps[i].status # "FAILED"
    <3>1. \A i \in 1 .. 9 : i <= length => steps'[i].status # "FAILED"
      BY <2>2, <2>3, <2>4
    <3> QED BY <1>1, <2>1, <2>4, <3>1 DEF CauseInv
  <2>5. CASE \E m \in 1 .. 9 :
               /\ m <= n - 1
               /\ steps[m].status = "FAILED"
               /\ \A i \in 1 .. 9 : m < i /\ i <= n - 1 => steps[i].status # "FAILED"
               /\ rootCause = CauseOf(Path[m])
    <3>1. PICK m \in 1 .. 9 :
            /\ m <= n - 1
            /\ steps[m].status = "FAILED"
            /\ \A i \in 1 .. 9 : m < i /\ i <= n - 1 => steps[i].status # "FAILED"
            /\ rootCause = CauseOf(Path[m])
      BY <2>5
    <3>2. m <= length /\ steps'[m].status = "FAILED"
      BY <3>1, <2>3
    <3>3. \A i \in 1 .. 9 : m < i /\ i <= length => steps'[i].status # "FAILED"
      BY <3>1, <2>2, <2>3
    <3> QED BY <1>1, <2>1, <3>1, <3>2, <3>3 DEF CauseInv
  <2> QED BY <1>1, <2>4, <2>5 DEF CauseInv
<1> QED BY <1>2, <1>3

(* Nothing the analysis reads changes while it runs.                       *)
LEMMA SaysStays ==
  ASSUME UNCHANGED <<snapshot, request>>
  PROVE  \A i, status : Says(i, status) => Says(i, status)'
<1>1. SelectPods' = SelectPods /\ OwnSlices' = OwnSlices
  BY DEF SelectPods, OwnSlices
<1>2. ReadyEndpoints' = ReadyEndpoints /\ HasServicePort' = HasServicePort
  BY <1>1 DEF ReadyEndpoints, HasServicePort
<1>3. FindServicePort' = FindServicePort
  BY DEF FindServicePort
<1>4. Mismatched' = Mismatched
  BY <1>1, <1>3 DEF Mismatched, Declares
<1>5. ASSUME NEW i, NEW status, Says(i, status)
      PROVE  Says(i, status)'
  BY <1>1, <1>2, <1>4, <1>5 DEF Says
<1> QED BY <1>5

LEMMA TakenKeepsSaysInv ==
  ASSUME StepsInv, SaysInv, UNCHANGED <<snapshot, request>>,
         NEW n \in 1 .. 10, NEW status \in Statuses, NEW length \in 1 .. 10,
         Taken(n, status, length)
  PROVE  SaysInv'
<1>1. /\ Len(steps) = n - 1 /\ Len(steps') = length /\ n <= length
      /\ \A i \in 1 .. length :
           \/ i < n /\ i \in 1 .. n - 1 /\ steps'[i] = steps[i]
           \/ i = n /\ steps'[i].status = status
           \/ i > n /\ steps'[i].status = "SKIPPED" /\ length = 10 /\ n \in 3 .. 9
  BY TakenLengths
<1>2. Says(n, status) /\ \A i : Says(i, "SKIPPED")
  BY DEF Taken, Says
<1>3. \A i \in 1 .. length : Says(i, steps'[i].status)
  <2>1. \A i \in 1 .. n - 1 : Says(i, steps[i].status)
    BY <1>1 DEF SaysInv
  <2> QED BY <1>1, <1>2, <2>1
<1> QED BY <1>1, <1>3, SaysStays DEF SaysInv

-----------------------------------------------------------------------------
(* The report.                                                             *)

(* As many steps have a name as have a place.                              *)
LEMMA AsManyIds ==
  ASSUME NEW places \in SUBSET (1 .. 10)
  PROVE  /\ IsFiniteSet(places)
         /\ Cardinality({Path[i] : i \in places}) = Cardinality(places)
<1> DEFINE ids == {Path[i] : i \in places}
           f == [i \in places |-> Path[i]]
<1>1. IsFiniteSet(places)
  <2>1. 1 \in Int /\ 10 \in Int
    OBVIOUS
  <2>2. IsFiniteSet(1 .. 10)
    BY <2>1, FS_Interval
  <2> QED BY <2>2, FS_Subset
<1>2. f \in Bijection(places, ids)
  <2>1. f \in [places -> ids] /\ \A y \in ids : \E x \in places : f[x] = y
    OBVIOUS
  <2>2. \A x, y \in places : f[x] = f[y] => x = y
    BY PathIs
  <2> HIDE DEF f, ids
  <2> QED BY <2>1, <2>2 DEF Bijection, Injection, Surjection, IsInjective
<1>3. ExistsBijection(places, ids)
  BY <1>2 DEF ExistsBijection
<1>4. Cardinality(ids) = Cardinality(places)
  <2> HIDE DEF ids, f
  <2> QED BY <1>1, <1>3, FS_Bijection
<1> QED BY <1>1, <1>4

(* The report of a whole path sorts every step into one list.              *)
LEMMA ReportListsAgree ==
  ASSUME StepsInv, Report
  PROVE  ListsAgree'
<1> DEFINE Places(T) == {i \in 1 .. 10 : steps[i].status \in T}
           Ids(T) == {Path[i] : i \in Places(T)}
           checked == Places({"PASSED", "FAILED"})
           rest == Places({"MISSING", "SKIPPED"})
<1>1. /\ DOMAIN steps = 1 .. 10 /\ Len(steps) = 10
      /\ steps[2].status = "SKIPPED"
      /\ \A i \in 1 .. 10 : /\ steps[i].id = Path[i]
                            /\ <<steps[i].status, steps[i].role>> \in Kinds
  <2>1. Len(steps) = 10
    BY DEF StepsInv, Report
  <2> QED BY <2>1 DEF StepsInv
<1>2. \A T : IdsWith(T) = Ids(T)
  BY <1>1 DEF IdsWith
<1>3. \A i \in 1 .. 10 : steps[i].status \in Statuses
  BY <1>1 DEF Kinds, Statuses
<1>4. Places({"FAILED"}) \union Places({"PASSED"}) \union rest = 1 .. 10
  BY <1>3 DEF Statuses
<1>5. 2 \in rest
  BY <1>1
<1>6. hypothesis'["supporting"] = Ids({"FAILED"}) /\ hypothesis'["missing"] \subseteq Ids({"MISSING", "SKIPPED"})
  <2>1. hypothesis' = [role \in Roles |->
                         {steps[i].id : i \in {i \in DOMAIN steps : steps[i].role = role}}]
    BY DEF Report
  <2>2. ASSUME NEW i \in 1 .. 10
        PROVE  /\ (steps[i].role = "supporting") <=> (steps[i].status = "FAILED")
               /\ (steps[i].role = "missing") => (steps[i].status \in {"MISSING", "SKIPPED"})
    BY <1>1 DEF Kinds
  <2>3. /\ hypothesis'["supporting"] = {steps[i].id : i \in {i \in 1 .. 10 : steps[i].role = "supporting"}}
        /\ hypothesis'["missing"] = {steps[i].id : i \in {i \in 1 .. 10 : steps[i].role = "missing"}}
    BY <1>1, <2>1 DEF Roles
  <2>4. {i \in 1 .. 10 : steps[i].role = "supporting"} = Places({"FAILED"})
    <3>1. \A i : i \in Places({"FAILED"}) <=> i \in 1 .. 10 /\ steps[i].status = "FAILED"
      OBVIOUS
    <3>2. \A i \in 1 .. 10 : (steps[i].role = "supporting") <=> (i \in Places({"FAILED"}))
      BY <2>2, <3>1
    <3>3. Places({"FAILED"}) \subseteq 1 .. 10
      OBVIOUS
    <3> HIDE DEF Places
    <3> QED BY <3>2, <3>3
  <2>5. {i \in 1 .. 10 : steps[i].role = "missing"} \subseteq rest
    <3>1. \A i : i \in rest <=> i \in 1 .. 10 /\ steps[i].status \in {"MISSING", "SKIPPED"}
      OBVIOUS
    <3>2. \A i \in 1 .. 10 : (steps[i].role = "missing") => (i \in rest)
      BY <2>2, <3>1
    <3> HIDE DEF rest
    <3> QED BY <3>2
  <2>6. ASSUME NEW S \in SUBSET (1 .. 10)
        PROVE  {steps[i].id : i \in S} = {Path[i] : i \in S}
    <3>1. \A i \in S : steps[i].id = Path[i]
      BY <1>1
    <3> QED BY <3>1
  <2> HIDE DEF Places
  <2>7. Places({"FAILED"}) \in SUBSET (1 .. 10) /\ {i \in 1 .. 10 : steps[i].role = "missing"} \in SUBSET (1 .. 10)
    BY DEF Places
  <2>8. hypothesis'["supporting"] = {Path[i] : i \in Places({"FAILED"})}
    BY <2>3, <2>4, <2>6, <2>7
  <2>9. hypothesis'["missing"] \subseteq {Path[i] : i \in rest}
    <3> DEFINE missing == {i \in 1 .. 10 : steps[i].role = "missing"}
    <3>1. hypothesis'["missing"] = {Path[i] : i \in missing}
      BY <2>3, <2>6, <2>7
    <3>2. missing \subseteq rest
      BY <2>5
    <3> HIDE DEF rest, missing
    <3> QED BY <3>1, <3>2
  <2> QED BY <2>8, <2>9
<1>7. Cardinality(checked) + Cardinality(Ids({"MISSING", "SKIPPED"})) = 10
  <2>1. checked \in SUBSET (1 .. 10) /\ rest \in SUBSET (1 .. 10)
    OBVIOUS
  <2>2. checked \union rest = 1 .. 10 /\ checked \intersect rest = {}
    BY <1>3 DEF Statuses
  <2> HIDE DEF checked, rest, Places
  <2>3. /\ IsFiniteSet(checked) /\ IsFiniteSet(rest)
        /\ Cardinality({Path[i] : i \in rest}) = Cardinality(rest)
    BY <2>1, AsManyIds
  <2>4. Cardinality(checked \union rest) =
          Cardinality(checked) + Cardinality(rest) - Cardinality(checked \intersect rest)
    BY <2>3, FS_Union
  <2>5. Cardinality(1 .. 10) = 10
    <3>1. 1 \in Int /\ 10 \in Int
      OBVIOUS
    <3>2. Cardinality(1 .. 10) = IF 1 > 10 THEN 0 ELSE 10 - 1 + 1
      BY <3>1, FS_Interval
    <3> QED BY <3>2
  <2>6. Cardinality({}) = 0
    BY FS_EmptySet
  <2>7. Cardinality(checked) \in Nat /\ Cardinality(rest) \in Nat
    BY <2>3, FS_CardinalityType
  <2>8. Cardinality(checked) + Cardinality(rest) = 10
    <3>1. 10 = Cardinality(checked) + Cardinality(rest) - 0
      BY <2>2, <2>4, <2>5, <2>6
    <3>2. \A a, b \in Nat : 10 = a + b - 0 => a + b = 10
      OBVIOUS
    <3> QED BY <2>7, <3>1, <3>2
  <2> QED BY <2>3, <2>8 DEF rest
<1>8. /\ report'.confirmed = Ids({"FAILED"})
      /\ report'.healthy = Ids({"PASSED"})
      /\ report'.unknown = Ids({"MISSING", "SKIPPED"})
      /\ report'.total = 10
      /\ report'.checked = Cardinality(checked)
      /\ report'.verdict = IF Ids({"FAILED"}) # {} THEN "CONFIRMED"
                           ELSE IF Ids({"MISSING", "SKIPPED"}) # {} THEN "INCONCLUSIVE"
                           ELSE "NO_ISSUE"
  <2>1. {i \in DOMAIN steps : steps[i].status \in {"PASSED", "FAILED"}} = checked
    BY <1>1
  <2> HIDE DEF Ids, checked
  <2> QED BY <1>1, <1>2, <2>1 DEF Report
<1>9. Ids({"FAILED"}) \union Ids({"PASSED"}) \union Ids({"MISSING", "SKIPPED"})
        = {Path[i] : i \in DOMAIN Path}
  BY <1>4, PathIs
<1>10. /\ Ids({"FAILED"}) \intersect Ids({"PASSED"}) = {}
       /\ (Ids({"FAILED"}) \union Ids({"PASSED"})) \intersect Ids({"MISSING", "SKIPPED"}) = {}
  BY PathIs
<1>11. Ids({"MISSING", "SKIPPED"}) # {}
  BY <1>5
<1>12. Len(Path) = 10
  BY PathIs
<1> HIDE DEF Ids, checked, rest, Places
<1>13. /\ report'.verdict = "CONFIRMED" <=> Ids({"FAILED"}) # {}
       /\ report'.verdict # "NO_ISSUE"
  BY <1>8, <1>11
<1> QED BY <1>6, <1>7, <1>8, <1>9, <1>10, <1>12, <1>13 DEF ListsAgree

-----------------------------------------------------------------------------
(* The two readings of the objects.                                        *)

(* The order of the natural numbers descends for finitely many steps only.*)
LEMMA LessThanIsWellFounded ==
  IsWellFoundedOn({ss \in Nat \X Nat : ss[1] < ss[2]}, Nat)
BY NatLessThanWellFounded DEF OpToRel

(* Every set of natural numbers that is not empty has a smallest member.   *)
LEMMA SmallestMember ==
  ASSUME NEW S \in SUBSET Nat, S # {}
  PROVE  \E x \in S : \A y \in S : x <= y
<1> DEFINE Less == {ss \in Nat \X Nat : ss[1] < ss[2]}
<1>1. PICK x \in S : \A y \in S : ~ (<<y, x>> \in Less)
  <2>1. IsWellFoundedOn(Less, Nat)
    BY LessThanIsWellFounded
  <2> HIDE DEF Less
  <2> QED BY <2>1, WFMin
<1>2. ASSUME NEW y \in S PROVE x <= y
  <2>1. x \in Nat /\ y \in Nat
    OBVIOUS
  <2>2. y < x => <<y, x>> \in Less
    BY <2>1
  <2>3. ~ (y < x)
    BY <1>1, <2>2
  <2> QED BY <2>1, <2>3
<1> QED BY <1>2

(* Every set of positions of a list that is not empty has a last one.      *)
LEMMA LastMember ==
  ASSUME NEW n \in Nat, NEW S \in SUBSET (1 .. n), S # {}
  PROVE  \E x \in S : \A y \in S : y <= x
<1> DEFINE Flipped == {m \in Nat : n - m \in S}
<1>1. PICK m \in Flipped : \A y \in Flipped : m <= y
  <2>1. PICK x \in S : TRUE
    OBVIOUS
  <2>2. n - x \in Nat /\ n - (n - x) = x
    OBVIOUS
  <2>3. Flipped # {} /\ Flipped \in SUBSET Nat
    BY <2>1, <2>2
  <2> HIDE DEF Flipped
  <2> QED BY <2>3, SmallestMember
<1>2. n - m \in S
  OBVIOUS
<1>3. ASSUME NEW y \in S PROVE y <= n - m
  <2>1. n - y \in Nat /\ n - (n - y) = y
    OBVIOUS
  <2>2. m <= n - y
    BY <2>1, <1>1
  <2> QED BY <2>2
<1> QED BY <1>2, <1>3

(* networkPod keeps every declared number, under a key of its own.         *)
LEMMA ContainerPortsAre ==
  ASSUME NEW pod, WellFormedPod(pod), Absent \notin PortNumbers
  PROVE  LET Key(i) == IF pod.ports[i].name = Absent THEN pod.ports[i].number
                       ELSE pod.ports[i].name
             kept == ContainerPorts(pod)
         IN  /\ \A i \in DOMAIN pod.ports :
                  Key(i) \in DOMAIN kept /\ kept[Key(i)] = pod.ports[i].number
             /\ \A key \in DOMAIN kept : \E i \in DOMAIN pod.ports :
                  key = Key(i) /\ kept[key] = pod.ports[i].number
<1> DEFINE Key(i) == IF pod.ports[i].name = Absent THEN pod.ports[i].number
                     ELSE pod.ports[i].name
           places == DOMAIN pod.ports
           Last(key) == CHOOSE i \in places :
                          Key(i) = key /\ \A j \in places : Key(j) = key => j <= i
           kept == ContainerPorts(pod)
<1>1. kept = [key \in {Key(i) : i \in places} |-> pod.ports[Last(key)].number]
  BY DEF ContainerPorts
<1>2. ASSUME NEW i \in places, NEW j \in places, Key(i) = Key(j)
      PROVE  pod.ports[i].number = pod.ports[j].number
  BY <1>2 DEF WellFormedPod
<1>3. Len(pod.ports) \in Nat /\ places = 1 .. Len(pod.ports)
  BY DEF WellFormedPod, IsList
<1> HIDE DEF Key, kept, places
<1>4. ASSUME NEW i \in places
      PROVE  Last(Key(i)) \in places /\ Key(Last(Key(i))) = Key(i)
  <2> DEFINE same == {j \in places : Key(j) = Key(i)}
  <2>1. same \in SUBSET (1 .. Len(pod.ports)) /\ i \in same
    BY <1>3
  <2> HIDE DEF same
  <2>2. \E x \in same : \A y \in same : y <= x
    BY <1>3, <2>1, LastMember
  <2>3. \E x \in places : Key(x) = Key(i) /\ \A j \in places : Key(j) = Key(i) => j <= x
    BY <2>2 DEF same
  <2> QED BY <2>3
<1> HIDE DEF Last
<1>5. ASSUME NEW i \in places
      PROVE  Key(i) \in DOMAIN kept /\ kept[Key(i)] = pod.ports[i].number
  <2>1. Key(i) \in DOMAIN kept /\ kept[Key(i)] = pod.ports[Last(Key(i))].number
    BY <1>1
  <2> QED BY <1>2, <1>4, <2>1
<1>6. ASSUME NEW key \in DOMAIN kept
      PROVE  \E i \in places : key = Key(i) /\ kept[key] = pod.ports[i].number
  BY <1>1, <1>5
<1> QED BY <1>5, <1>6 DEF Key, kept, places

(* The path and the rules agree on whether a Pod has the target port.      *)
LEMMA PortsAgree ==
  ASSUME NEW pod, WellFormedPod(pod), Absent \notin PortNumbers,
         NEW target, target # Absent
  PROVE  (\E key \in DOMAIN ContainerPorts(pod) :
            ContainerPorts(pod)[key] = ResolveTargetPort(target, ContainerPorts(pod)))
           <=> PodDeclaresPort(pod, target)
<1> DEFINE Key(i) == IF pod.ports[i].name = Absent THEN pod.ports[i].number
                     ELSE pod.ports[i].name
           kept == ContainerPorts(pod)
           places == DOMAIN pod.ports
<1>1. /\ \A i \in places : Key(i) \in DOMAIN kept /\ kept[Key(i)] = pod.ports[i].number
      /\ \A key \in DOMAIN kept : \E i \in places :
           key = Key(i) /\ kept[key] = pod.ports[i].number
  BY ContainerPortsAre
<1>2. \A i \in places : pod.ports[i].number \in PortNumbers
                        /\ pod.ports[i].name \notin PortNumbers
  BY DEF WellFormedPod
<1>3. ResolveTargetPort(target, kept) =
        IF target \in PortNumbers THEN target
        ELSE IF target \in DOMAIN kept THEN kept[target] ELSE Absent
  BY SMTT(30) DEF ResolveTargetPort, PortNumbers
<1>4. PodDeclaresPort(pod, target) <=>
        \E i \in places : target = pod.ports[i].name \/ target = pod.ports[i].number
  BY DEF PodDeclaresPort
<1> HIDE DEF kept, places
<1>5. ASSUME NEW i \in places, target = pod.ports[i].number
      PROVE  \E key \in DOMAIN kept : kept[key] = ResolveTargetPort(target, kept)
  <2>1. Key(i) \in DOMAIN kept /\ kept[Key(i)] = target /\ target \in PortNumbers
    BY <1>1, <1>2, <1>5
  <2> HIDE DEF Key
  <2> QED BY <2>1, <1>3
<1>6. ASSUME NEW i \in places, target = pod.ports[i].name
      PROVE  \E key \in DOMAIN kept : kept[key] = ResolveTargetPort(target, kept)
  <2>1. Key(i) = target /\ target \notin PortNumbers
    BY <1>2, <1>6
  <2>2. target \in DOMAIN kept
    BY <1>1, <2>1
  <2> QED BY <1>3, <2>1, <2>2
<1>7. ASSUME NEW key \in DOMAIN kept, kept[key] = ResolveTargetPort(target, kept)
      PROVE  \E i \in places : target = pod.ports[i].name \/ target = pod.ports[i].number
  <2>1. PICK i \in places : key = Key(i) /\ kept[key] = pod.ports[i].number
    BY <1>1
  <2>2. pod.ports[i].number \in PortNumbers
    BY <1>2
  <2>3. CASE target \in PortNumbers
    BY <1>3, <1>7, <2>1, <2>3
  <2>4. CASE target \notin PortNumbers
    <3>1. target \in DOMAIN kept
      BY <1>3, <1>7, <2>1, <2>2, <2>4
    <3>2. PICK j \in places : target = Key(j)
      BY <1>1, <3>1
    <3> QED BY <3>2, <1>2, <2>4
  <2> QED BY <2>3, <2>4
<1> QED BY <1>4, <1>5, <1>6, <1>7 DEF kept

(* What the path looks at is what the rules observe.                       *)
LEMMA SnapshotIs ==
  ASSUME ObjectsInv, cluster # Absent, cluster.service # Absent
  PROVE  /\ SelectPods = {NetworkPod(cluster.pods[p]) : p \in Backends(cluster)}
         /\ ReadyEndpoints <=> SomeReady(cluster)
         /\ OwnSlices = {} => ~SomeReady(cluster)
         /\ snapshot.service.ports =
              [i \in DOMAIN cluster.service.ports |->
                 [port |-> cluster.service.ports[i].port,
                  target |-> TargetOf(cluster.service.ports[i])]]
<1>1. snapshot =
        [sourcePods |-> {NetworkPod(pod) : pod \in SourcePods(cluster, source)},
         service |-> [selector |-> cluster.service.selector,
                      ports |-> [i \in DOMAIN cluster.service.ports |->
                                   [port |-> cluster.service.ports[i].port,
                                    target |-> TargetOf(cluster.service.ports[i])]]],
         backendPods |-> {NetworkPod(cluster.pods[p]) : p \in DOMAIN cluster.pods},
         slices |-> cluster.slices,
         policy |-> [applicable |-> cluster.policy, denied |-> FALSE]]
  BY DEF ObjectsInv, BuildNetwork
<1>2. /\ snapshot.service.selector = cluster.service.selector
      /\ snapshot.service.ports =
           [i \in DOMAIN cluster.service.ports |->
              [port |-> cluster.service.ports[i].port,
               target |-> TargetOf(cluster.service.ports[i])]]
      /\ snapshot.backendPods = {NetworkPod(cluster.pods[p]) : p \in DOMAIN cluster.pods}
      /\ snapshot.slices = cluster.slices
  BY <1>1
<1>3. \A pod : NetworkPod(pod).labels = pod.labels
  BY DEF NetworkPod
<1>4. SelectPods = {NetworkPod(cluster.pods[p]) : p \in Backends(cluster)}
  BY <1>2, <1>3 DEF SelectPods, Backends
<1>5. OwnSlices = {slice \in cluster.slices : slice.own}
  BY <1>2 DEF OwnSlices
<1>6. (ReadyEndpoints <=> SomeReady(cluster)) /\ (OwnSlices = {} => ~SomeReady(cluster))
  BY <1>5 DEF ReadyEndpoints, SomeReady
<1> QED BY <1>2, <1>4, <1>6

(* The requested port is one of the Service's, with its target.            *)
LEMMA RequestedPortIs ==
  ASSUME ObjectsInv, cluster # Absent, cluster.service # Absent, HasServicePort
  PROVE  \E i \in DOMAIN cluster.service.ports :
           /\ FindServicePort.target = TargetOf(cluster.service.ports[i])
           /\ TargetOf(cluster.service.ports[i]) # Absent
<1> DEFINE listed == cluster.service.ports
           ports == snapshot.service.ports
           asked == {i \in DOMAIN ports : ports[i].port = request.port}
           first == CHOOSE i \in DOMAIN ports :
                      /\ ports[i].port = request.port
                      /\ \A j \in DOMAIN ports : ports[j].port = request.port => i <= j
<1>1. /\ Absent \notin PortNumbers /\ IsList(listed)
      /\ \A i \in DOMAIN listed : listed[i].port \in PortNumbers
  BY ClustersAssumption DEF ObjectsInv, WellFormedService
<1>2. ports = [i \in DOMAIN listed |->
                 [port |-> listed[i].port, target |-> TargetOf(listed[i])]]
  BY SnapshotIs
<1>3. DOMAIN ports = DOMAIN listed /\ DOMAIN listed \in SUBSET Nat
  BY <1>1, <1>2 DEF IsList
<1>4. asked # {} /\ FindServicePort = ports[first]
  BY DEF HasServicePort, FindServicePort
<1> HIDE DEF listed, ports
<1>5. \E x \in asked : \A y \in asked : x <= y
  <2>1. asked \in SUBSET Nat
    BY <1>3
  <2> HIDE DEF asked
  <2> QED BY <1>4, <2>1, SmallestMember
<1>6. first \in DOMAIN ports
  <2>1. \E x \in DOMAIN ports :
          /\ ports[x].port = request.port
          /\ \A y \in DOMAIN ports : ports[y].port = request.port => x <= y
    BY <1>5
  <2> QED BY <2>1
<1> HIDE DEF first, asked
<1>7. FindServicePort.target = TargetOf(listed[first]) /\ first \in DOMAIN listed
  BY <1>2, <1>3, <1>4, <1>6
<1>8. TargetOf(listed[first]) # Absent
  BY <1>1, <1>7 DEF TargetOf
<1> QED BY <1>7, <1>8 DEF listed

(* For the requested port the path finds a Pod without the target port     *)
(* where the rules find one; they look at the other ports too.             *)
LEMMA TargetsAgree ==
  ASSUME ObjectsInv, cluster # Absent, cluster.service # Absent,
         HasServicePort, SelectPods # {}
  PROVE  /\ Mismatched # {} => TargetPortMatches(cluster) = FALSE
         /\ Mismatched = {} /\ Len(cluster.service.ports) = 1
              => TargetPortMatches(cluster) = TRUE
<1> DEFINE listed == cluster.service.ports
           target == FindServicePort.target
           Agrees(i, p) == PodDeclaresPort(cluster.pods[p], TargetOf(listed[i]))
<1>1. /\ Absent \notin PortNumbers /\ IsList(listed)
      /\ \A p \in DOMAIN cluster.pods : WellFormedPod(cluster.pods[p])
  BY ClustersAssumption DEF ObjectsInv, WellFormedService
<1>2. PICK i \in DOMAIN listed : target = TargetOf(listed[i]) /\ target # Absent
  BY RequestedPortIs
<1>3. /\ SelectPods = {NetworkPod(cluster.pods[p]) : p \in Backends(cluster)}
      /\ Backends(cluster) # {} /\ Backends(cluster) \subseteq DOMAIN cluster.pods
  BY SnapshotIs DEF Backends
<1>4. ASSUME NEW p \in Backends(cluster)
      PROVE  Declares(NetworkPod(cluster.pods[p])) <=> Agrees(i, p)
  <2>1. WellFormedPod(cluster.pods[p])
    BY <1>1, <1>3
  <2>2. NetworkPod(cluster.pods[p]).containerPorts = ContainerPorts(cluster.pods[p])
    BY DEF NetworkPod
  <2> QED BY <1>1, <1>2, <2>1, <2>2, PortsAgree DEF Declares
<1>5. TargetPortMatches(cluster) =
        (\A j \in DOMAIN listed, p \in Backends(cluster) : Agrees(j, p))
  BY <1>3 DEF TargetPortMatches
<1>6. Mismatched = {} <=> \A p \in Backends(cluster) : Agrees(i, p)
  <2>1. Mismatched = {} <=>
          \A p \in Backends(cluster) : Declares(NetworkPod(cluster.pods[p]))
    BY <1>3 DEF Mismatched
  <2> QED BY <1>4, <2>1
<1>7. Len(listed) = 1 => \A j \in DOMAIN listed : j = i
  BY <1>1, <1>2 DEF IsList
<1> HIDE DEF Agrees, listed
<1>8. ASSUME Mismatched # {}
      PROVE  TargetPortMatches(cluster) = FALSE
  <2>1. ~(\A j \in DOMAIN listed, p \in Backends(cluster) : Agrees(j, p))
    BY <1>2, <1>6, <1>8
  <2> QED BY <1>5, <2>1
<1>9. ASSUME Mismatched = {}, Len(listed) = 1
      PROVE  TargetPortMatches(cluster) = TRUE
  <2>1. \A j \in DOMAIN listed, p \in Backends(cluster) : Agrees(j, p)
    BY <1>6, <1>7, <1>9
  <2> QED BY <1>5, <2>1
<1> QED BY <1>8, <1>9 DEF listed

(* A step is at its place of the path and says what it says.               *)
LEMMA StepSays ==
  ASSUME StepsInv, SaysInv, NEW n \in 1 .. 10, NEW status, HasStep(Path[n], status)
  PROVE  n <= Len(steps) /\ steps[n].status = status /\ Says(n, status)
<1>1. PICK i \in DOMAIN steps : steps[i].id = Path[n] /\ steps[i].status = status
  BY DEF HasStep
<1>2. i \in 1 .. Len(steps) /\ i \in 1 .. 10 /\ Path[i] = Path[n]
  BY <1>1, StepsShape
<1>3. i = n
  BY <1>2, PathIs
<1> QED BY <1>1, <1>2, <1>3 DEF SaysInv

(* Without the source in the inventory there are no source Pods.           *)
LEMMA UnknownHasNoPods ==
  ASSUME ObjectsInv, cluster # Absent, UnknownSource
  PROVE  snapshot.sourcePods = {}
<1>1. CASE cluster.service = Absent
  BY <1>1 DEF ObjectsInv, BuildNetwork, NoService
<1>2. CASE cluster.service # Absent
  <2>1. SourcePods(cluster, source) = {}
    BY DEF SourcePods, UnknownSource, LabelsMatch
  <2>2. snapshot.sourcePods = {NetworkPod(pod) : pod \in SourcePods(cluster, source)}
    BY <1>2 DEF ObjectsInv, BuildNetwork
  <2> QED BY <2>1, <2>2
<1> QED BY <1>1, <1>2

LEMMA InvReadingsAgree ==
  ASSUME StepsInv, CauseInv, SaysInv, ObjectsInv
  PROVE  ReadingsAgree
<1>1. ASSUME cluster # Absent, UnknownSource
      PROVE  rootCause # "source_not_ready" /\ ~HasStep("source", "PASSED")
  <2>1. snapshot.sourcePods = {}
    BY <1>1, UnknownHasNoPods
  <2>2. ~Says(1, "PASSED") /\ ~Says(1, "FAILED")
    BY <2>1 DEF Says
  <2>3. ~HasStep("source", "PASSED")
    BY <2>2, StepSays, PathIs
  <2>4. ASSUME rootCause = "source_not_ready"
        PROVE  FALSE
    <3>1. PICK m \in 1 .. 9 :
            /\ m <= Len(steps)
            /\ steps[m].status = "FAILED"
            /\ rootCause = CauseOf(Path[m])
      BY <2>4, ClustersAssumption DEF CauseInv
    <3>2. Says(m, "FAILED") /\ m # 2
      BY <3>1 DEF SaysInv, StepsInv
    <3>3. m \in 3 .. 9
      BY <2>2, <3>2
    <3> QED BY <2>4, <3>1, <3>3, CausesAre
  <2> QED BY <2>3, <2>4
<1>2. ASSUME cluster # Absent, cluster.service # Absent
      PROVE  LET observed == ServiceObservation(cluster) IN
               /\ HasStep("selector", "PASSED") => observed.selectorMatches
               /\ HasStep("selector", "FAILED") => ~observed.selectorMatches
               /\ HasStep("ready-endpoints", "PASSED") => observed.readyEndpoints
               /\ HasStep("ready-endpoints", "FAILED") \/ HasStep("endpointslices", "FAILED")
                    => ~observed.readyEndpoints
               /\ HasStep("target-port", "FAILED") => observed.targetPortMatches = FALSE
               /\ HasStep("target-port", "PASSED") /\ Len(cluster.service.ports) = 1
                    => observed.targetPortMatches = TRUE
  <2> DEFINE observed == ServiceObservation(cluster)
  <2>1. /\ observed.selectorMatches = (Backends(cluster) # {})
        /\ observed.readyEndpoints = SomeReady(cluster)
        /\ observed.targetPortMatches = TargetPortMatches(cluster)
    BY DEF ServiceObservation
  <2>2. /\ SelectPods = {} <=> Backends(cluster) = {}
        /\ ReadyEndpoints <=> SomeReady(cluster)
        /\ OwnSlices = {} => ~SomeReady(cluster)
    BY <1>2, SnapshotIs
  <2>3. /\ HasStep("selector", "PASSED") => Says(4, "PASSED")
        /\ HasStep("selector", "FAILED") => Says(4, "FAILED")
        /\ HasStep("endpointslices", "FAILED") => Says(5, "FAILED")
        /\ HasStep("ready-endpoints", "PASSED") => Says(6, "PASSED")
        /\ HasStep("ready-endpoints", "FAILED") => Says(6, "FAILED")
        /\ HasStep("target-port", "PASSED") => Says(8, "PASSED")
        /\ HasStep("target-port", "FAILED") => Says(8, "FAILED")
    BY StepSays, PathIs
  <2>4. /\ HasStep("selector", "PASSED") => Backends(cluster) # {}
        /\ HasStep("selector", "FAILED") => ~(Backends(cluster) # {})
    BY <2>2, <2>3 DEF Says
  <2>5. /\ HasStep("ready-endpoints", "PASSED") => SomeReady(cluster)
        /\ HasStep("ready-endpoints", "FAILED") \/ HasStep("endpointslices", "FAILED")
             => ~SomeReady(cluster)
    BY <2>2, <2>3 DEF Says
  <2>6. HasStep("target-port", "FAILED") => TargetPortMatches(cluster) = FALSE
    BY <1>2, <2>3, TargetsAgree DEF Says
  <2>7. HasStep("target-port", "PASSED") /\ Len(cluster.service.ports) = 1
          => TargetPortMatches(cluster) = TRUE
    BY <1>2, <2>3, TargetsAgree DEF Says
  <2> HIDE DEF observed
  <2>8. /\ HasStep("selector", "PASSED") => observed.selectorMatches
        /\ HasStep("selector", "FAILED") => ~observed.selectorMatches
    BY <2>1, <2>4
  <2>9. /\ HasStep("ready-endpoints", "PASSED") => observed.readyEndpoints
        /\ HasStep("ready-endpoints", "FAILED") \/ HasStep("endpointslices", "FAILED")
             => ~observed.readyEndpoints
    BY <2>1, <2>5
  <2>10. /\ HasStep("target-port", "FAILED") => observed.targetPortMatches = FALSE
         /\ HasStep("target-port", "PASSED") /\ Len(cluster.service.ports) = 1
              => observed.targetPortMatches = TRUE
    BY <2>1, <2>6, <2>7
  <2> QED BY <2>8, <2>9, <2>10 DEF observed
<1> QED BY <1>1, <1>2 DEF ReadingsAgree

-----------------------------------------------------------------------------
(* The theorems.                                                           *)

LEMMA NetworkInvInit == ServiceInit => NetworkInv
<1> SUFFICES ASSUME ServiceInit PROVE NetworkInv
  OBVIOUS
<1>1. steps = <<>> /\ rootCause = Absent /\ returned = FALSE /\ report = NoReport
  BY DEF ServiceInit, Idle
<1>2. Len(steps) = 0 /\ steps \in Seq(StepRecords)
  BY <1>1
<1>3. ObjectsInv
  BY DEF ServiceInit, ObjectsInv
<1>4. \A i \in 1 .. Len(steps) : FALSE
  BY <1>2
<1>5. StepsInv
  <2>1. Len(steps) \in 0 .. 10 /\ ~(2 <= Len(steps)) /\ Len(steps) # 10
    BY <1>2
  <2> QED BY <1>1, <1>2, <1>4, <2>1 DEF StepsInv
<1>6. BlockInv /\ SaysInv
  BY <1>2, <1>4 DEF BlockInv, SaysInv
<1>7. CauseInv
  BY <1>1, <1>2 DEF CauseInv
<1> QED BY <1>1, <1>3, <1>5, <1>6, <1>7 DEF NetworkInv, ReportInv

LEMMA NetworkInvNext == NetworkInv /\ [ServiceNext]_serviceVars => NetworkInv'
<1> SUFFICES ASSUME NetworkInv, [ServiceNext]_serviceVars PROVE NetworkInv'
  OBVIOUS
<1> USE DEF NetworkInv
<1>1. CASE PathStep /\ UNCHANGED <<cluster, source>>
  <2>1. ~returned /\ UNCHANGED <<snapshot, request, hypothesis, report>>
    BY <1>1 DEF PathStep
  <2>2. PICK n \in 1 .. 10, status \in Statuses, length \in 1 .. 10 :
          Taken(n, status, length)
    BY <1>1, PathStepTaken
  <2>3. StepsInv'
    BY <1>1, PathStepKeepsStepsInv
  <2>4. BlockInv' /\ CauseInv' /\ SaysInv'
    BY <2>1, <2>2, TakenKeepsBlockInv, TakenKeepsCauseInv, TakenKeepsSaysInv
  <2>5. ReportInv'
    BY <2>1 DEF ReportInv, NoReport
  <2>6. ObjectsInv'
    BY <1>1, <2>1 DEF ObjectsInv
  <2> QED BY <2>3, <2>4, <2>5, <2>6
<1>2. CASE Report /\ UNCHANGED <<cluster, source>>
  <2>1. ListsAgree' /\ returned
    BY <1>2, ReportListsAgree DEF Report
  <2>2. UNCHANGED <<snapshot, request, steps, rootCause, returned>>
    BY <1>2 DEF Report
  <2>3. StepsInv' /\ BlockInv' /\ CauseInv'
    BY <2>2 DEF StepsInv, BlockInv, CauseInv
  <2>4. SaysInv'
    BY <2>2, SaysStays DEF SaysInv
  <2>5. ObjectsInv'
    BY <1>2, <2>2 DEF ObjectsInv
  <2> QED BY <2>1, <2>2, <2>3, <2>4, <2>5 DEF ReportInv
<1>3. CASE UNCHANGED serviceVars
  <2>1. UNCHANGED <<snapshot, request, steps, rootCause, returned, hypothesis, report,
                    cluster, source>>
    BY <1>3 DEF serviceVars, vars
  <2>2. StepsInv' /\ BlockInv' /\ CauseInv'
    BY <2>1 DEF StepsInv, BlockInv, CauseInv
  <2>3. SaysInv'
    BY <2>1, SaysStays DEF SaysInv
  <2>4. ReportInv'
    BY <2>1 DEF ReportInv, ListsAgree, NoReport
  <2>5. ObjectsInv'
    BY <2>1 DEF ObjectsInv
  <2> QED BY <2>2, <2>3, <2>4, <2>5
<1> QED BY <1>1, <1>2, <1>3, StepsOfThePath DEF ServiceNext

LEMMA NetworkInvHolds == ServiceSpec => []NetworkInv
BY NetworkInvInit, NetworkInvNext, PTL DEF ServiceSpec

(* Wherever the analysis of analyzer.go stops, appendSkippedSteps makes    *)
(* the path whole, and nothing behind a break is found in order.           *)
THEOREM EveryPathIsWhole == ServiceSpec => []PathIsWhole
<1>1. ASSUME StepsInv, BlockInv
      PROVE  PathIsWhole
  <2>1. DOMAIN steps = 1 .. Len(steps) /\ \A i \in 1 .. Len(steps) : steps[i].id = Path[i]
    BY <1>1, StepsShape
  <2>2. ASSUME returned
        PROVE  [i \in DOMAIN steps |-> steps[i].id] = Path
    <3>1. DOMAIN steps = 1 .. 10 /\ \A i \in 1 .. 10 : steps[i].id = Path[i]
      BY <1>1, <2>1, <2>2 DEF StepsInv
    <3>2. [i \in DOMAIN steps |-> steps[i].id] = [i \in 1 .. 10 |-> Path[i]]
      BY <3>1
    <3> QED BY <3>2, PathIs
  <2> QED BY <1>1, <2>1, <2>2 DEF PathIsWhole, BlockInv
<1> QED BY <1>1, NetworkInvHolds, PTL DEF NetworkInv

(* The root cause is the one of the last break: fail() replaces what a     *)
(* source that is not ready left there.                                    *)
THEOREM RootCauseIsOfLastBreak == ServiceSpec => []RootCauseIsLastBreak
<1>1. ASSUME StepsInv, CauseInv
      PROVE  RootCauseIsLastBreak
  <2> DEFINE failed == {i \in DOMAIN steps : steps[i].status = "FAILED" /\ i # Len(Path)}
             last == CHOOSE i \in failed : \A j \in failed : j <= i
  <2>1. \A i : i \in failed <=>
           i \in 1 .. 9 /\ i <= Len(steps) /\ steps[i].status = "FAILED"
    <3>1. DOMAIN steps = 1 .. Len(steps) /\ Len(steps) \in 0 .. 10 /\ Len(Path) = 10
      BY <1>1, PathIs DEF StepsInv
    <3> QED BY <3>1
  <2>2. CASE /\ rootCause = Absent
             /\ \A i \in 1 .. 9 : i <= Len(steps) => steps[i].status # "FAILED"
    <3>1. failed = {}
      <4> HIDE DEF failed
      <4> QED BY <2>1, <2>2
    <3> QED BY <2>2, <3>1 DEF RootCauseIsLastBreak
  <2>3. ASSUME NEW m \in 1 .. 9, m <= Len(steps), steps[m].status = "FAILED",
               \A i \in 1 .. 9 : m < i /\ i <= Len(steps) => steps[i].status # "FAILED",
               rootCause = CauseOf(Path[m])
        PROVE  RootCauseIsLastBreak
    <3>1. m \in failed /\ \A i \in failed : i <= m /\ i \in 1 .. 9
      <4> HIDE DEF failed
      <4> QED BY <2>1, <2>3
    <3>2. last = m
      <4> HIDE DEF failed
      <4>1. \A i \in failed : (\A j \in failed : j <= i) => i = m
        BY <3>1
      <4> QED BY <3>1, <4>1
    <3>3. steps[m].id = Path[m]
      <4>1. m \in 1 .. Len(steps) /\ DOMAIN steps = 1 .. Len(steps)
        BY <1>1, <2>3, StepsShape
      <4> QED BY <1>1, <4>1, StepsShape
    <3>4. failed # {}
      <4> HIDE DEF failed
      <4> QED BY <3>1
    <3>5. rootCause = IF failed = {} THEN Absent ELSE CauseOf(steps[last].id)
      <4> HIDE DEF failed, last
      <4> QED BY <2>3, <3>2, <3>3, <3>4
    <3> QED BY <3>5 DEF RootCauseIsLastBreak
  <2> QED BY <1>1, <2>2, <2>3 DEF CauseInv
<1> QED BY <1>1, NetworkInvHolds, PTL DEF NetworkInv

(* The lists BuildNetworkReport draws from the steps and the evidence the  *)
(* server draws from them agree, and their counts add up to the path.      *)
THEOREM ReportsListThePath == ServiceSpec => []ListsAgree
<1>1. ASSUME ReportInv
      PROVE  ListsAgree
  BY <1>1 DEF ReportInv, ListsAgree
<1> QED BY <1>1, NetworkInvHolds, PTL DEF NetworkInv

(* The path analysis and the observation of the rules do not contradict    *)
(* each other about one Service.                                           *)
THEOREM ReadingsNeverContradict == ServiceSpec => []ReadingsAgree
BY InvReadingsAgree, NetworkInvHolds, PTL DEF NetworkInv
=============================================================================
