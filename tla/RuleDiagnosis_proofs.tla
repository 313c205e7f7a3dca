------------------------ MODULE RuleDiagnosis_proofs ------------------------
(***************************************************************************)
(* That the report of a resource diagnosis covers the catalogue, confirms  *)
(* only what the objects show, calls nothing healthy that they are silent  *)
(* about, and does not contradict the state in the inventory but where it  *)
(* is documented to, for every target and every set of kinds that the      *)
(* inventory does not follow.                                              *)
(*                                                                         *)
(* The engine's loop is reasoned about once (RunInv): when it is done, a   *)
(* report holds the roles of the rules of the target's kind and nothing    *)
(* else (ReportIs).  What is left is about the observation, kind by kind.  *)
(***************************************************************************)
EXTENDS RuleDiagnosis, FiniteSetTheorems, WellFoundedInduction, TLAPS

RolesOfRules == {"supporting", "contradicting", "missing"}
Outcomes == {"FAILED", "PASSED", "UNKNOWN"}

-----------------------------------------------------------------------------
(* The invariant.                                                          *)

TargetInv ==
  /\ target \in Targets
  /\ unfollowed \subseteq LookedUp(target.kind)
  /\ completed \in 0 .. 13
  /\ observation = Absent => completed = 0
  /\ observation # Absent => observation = Observe(Held)

(* A step and its hypothesis say what their rule, one of the first n that  *)
(* is about the kind, makes of the observation o.                          *)
Evaluated(step, hypothesis, n, kind, o) ==
  LET k == Place(step.rule)
      role == Role(Catalog[k], o)
  IN  /\ k \in 1 .. n
      /\ Catalog[k].id = step.rule
      /\ Catalog[k].kind = kind
      /\ step.outcome = Outcome(role)
      /\ hypothesis.rule = step.rule
      /\ hypothesis.role = role

(* The rules of the kind that the loop is past have their step, in order.  *)
StepsInv ==
  /\ steps \in Seq([rule : RuleIds, outcome : Outcomes])
  /\ hypotheses \in Seq([rule : RuleIds, role : RolesOfRules])
  /\ Len(hypotheses) = Len(steps)
  /\ \A i \in 1 .. Len(steps) :
       Evaluated(steps[i], hypotheses[i], completed, target.kind, observation)
  /\ \A i, j \in 1 .. Len(steps) : i < j => Place(steps[i].rule) < Place(steps[j].rule)
  /\ \A k \in 1 .. completed : Catalog[k].kind = target.kind =>
       \E i \in 1 .. Len(steps) : steps[i].rule = Catalog[k].id

TheReport ==
  [verdict |-> Verdict,
   rootCause |-> IF Confirmed = {} THEN Absent ELSE hypotheses[First(Confirmed)].rule,
   confirmed |-> {hypotheses[i].rule : i \in Confirmed},
   healthy |-> StepsWith("PASSED"),
   unknown |-> StepsWith("UNKNOWN"),
   checked |-> Len(steps) - Cardinality(StepsWith("UNKNOWN")),
   total |-> Len(steps)]

ReportInv ==
  Reported => completed = 13 /\ observation # Absent /\ report = TheReport

RunInv == TargetInv /\ StepsInv /\ ReportInv

-----------------------------------------------------------------------------
(* The catalogue.                                                          *)

(* The rules at their places; no two have one ID.                          *)
LEMMA CatalogIs ==
  /\ DOMAIN Catalog = 1 .. 13 /\ Len(Catalog) = 13
  /\ Catalog[1] = Rule("POD-CRASHLOOP", "Pod", "waiting", "CrashLoopBackOff")
  /\ Catalog[2] = Rule("POD-OOMKILLED", "Pod", "terminated", "OOMKilled")
  /\ Catalog[3] = Rule("POD-IMAGEPULLBACKOFF", "Pod", "waiting", "ImagePullBackOff")
  /\ Catalog[4] = Rule("POD-ERRIMAGEPULL", "Pod", "waiting", "ErrImagePull")
  /\ Catalog[5] = Rule("POD-CONFIG", "Pod", "waiting", "CreateContainerConfigError")
  /\ Catalog[6] = Rule("POD-READINESS", "Pod", "readinessProbeFailed", TRUE)
  /\ Catalog[7] = Rule("SVC-SELECTOR", "Service", "selectorMatches", FALSE)
  /\ Catalog[8] = Rule("SVC-ENDPOINT", "Service", "readyEndpoints", FALSE)
  /\ Catalog[9] = Rule("SVC-TARGETPORT", "Service", "targetPortMatches", FALSE)
  /\ Catalog[10] = Rule("SCHED-RESOURCES", "Pod", "insufficientResources", TRUE)
  /\ Catalog[11] = Rule("SCHED-TAINT", "Pod", "taintMismatch", TRUE)
  /\ Catalog[12] = Rule("PVC-PENDING", "PersistentVolumeClaim", "pvcPhase", "Pending")
  /\ Catalog[13] = Rule("NODE-NOTREADY", "Node", "nodeReady", FALSE)
BY DEF Catalog

(* The same, field by field.                                               *)
LEMMA RulesAre ==
  /\ Catalog[1].id = "POD-CRASHLOOP" /\ Catalog[2].id = "POD-OOMKILLED"
  /\ Catalog[3].id = "POD-IMAGEPULLBACKOFF" /\ Catalog[4].id = "POD-ERRIMAGEPULL"
  /\ Catalog[5].id = "POD-CONFIG" /\ Catalog[6].id = "POD-READINESS"
  /\ Catalog[7].id = "SVC-SELECTOR" /\ Catalog[8].id = "SVC-ENDPOINT"
  /\ Catalog[9].id = "SVC-TARGETPORT" /\ Catalog[10].id = "SCHED-RESOURCES"
  /\ Catalog[11].id = "SCHED-TAINT" /\ Catalog[12].id = "PVC-PENDING"
  /\ Catalog[13].id = "NODE-NOTREADY"
  /\ \A k \in {1, 2, 3, 4, 5, 6, 10, 11} : Catalog[k].kind = "Pod"
  /\ \A k \in {7, 8, 9} : Catalog[k].kind = "Service"
  /\ Catalog[12].kind = "PersistentVolumeClaim" /\ Catalog[13].kind = "Node"
  /\ \A k \in {1, 3, 4, 5} : Catalog[k].fact = "waiting"
  /\ Catalog[2].fact = "terminated" /\ Catalog[6].fact = "readinessProbeFailed"
  /\ Catalog[7].fact = "selectorMatches" /\ Catalog[8].fact = "readyEndpoints"
  /\ Catalog[9].fact = "targetPortMatches" /\ Catalog[10].fact = "insufficientResources"
  /\ Catalog[11].fact = "taintMismatch" /\ Catalog[12].fact = "pvcPhase"
  /\ Catalog[13].fact = "nodeReady"
  /\ Catalog[1].value = "CrashLoopBackOff" /\ Catalog[2].value = "OOMKilled"
  /\ Catalog[3].value = "ImagePullBackOff" /\ Catalog[4].value = "ErrImagePull"
  /\ Catalog[5].value = "CreateContainerConfigError"
  /\ \A k \in {6, 10, 11} : Catalog[k].value = TRUE
  /\ \A k \in {7, 8, 9, 13} : Catalog[k].value = FALSE
  /\ Catalog[12].value = "Pending"
BY CatalogIs DEF Rule

LEMMA IdsAreUnique ==
  ASSUME NEW i \in 1 .. 13, NEW j \in 1 .. 13, Catalog[i].id = Catalog[j].id
  PROVE  i = j
BY RulesAre

LEMMA PlaceIs ==
  ASSUME NEW k \in 1 .. 13
  PROVE  Place(Catalog[k].id) = k /\ Catalog[k].id \in RuleIds
<1>1. \A i \in DOMAIN Catalog : Catalog[i].id = Catalog[k].id => i = k
  BY CatalogIs, IdsAreUnique
<1>2. k \in DOMAIN Catalog
  BY CatalogIs
<1> QED BY <1>1, <1>2 DEF Place, RuleIds

LEMMA PlacesAre ==
  ASSUME NEW id \in RuleIds
  PROVE  Place(id) \in 1 .. 13 /\ Catalog[Place(id)].id = id
<1>1. PICK k \in 1 .. 13 : id = Catalog[k].id
  BY CatalogIs DEF RuleIds
<1> QED BY <1>1, PlaceIs

LEMMA RoleIsRole ==
  ASSUME NEW rule, NEW o
  PROVE  Role(rule, o) \in RolesOfRules /\ Outcome(Role(rule, o)) \in Outcomes
BY DEF Role, RolesOfRules, Outcome, Outcomes

LEMMA OutcomeIs ==
  ASSUME NEW role \in RolesOfRules
  PROVE  /\ Outcome(role) = "FAILED" <=> role = "supporting"
         /\ Outcome(role) = "PASSED" <=> role = "contradicting"
         /\ Outcome(role) = "UNKNOWN" <=> role = "missing"
BY DEF Outcome, RolesOfRules

-----------------------------------------------------------------------------
(* The loop of the engine keeps the invariant.                             *)

(* A step that is right stays so while the loop goes on.                   *)
LEMMA EvaluatedStays ==
  ASSUME NEW n \in Nat, NEW m \in Nat, n <= m, NEW kind, NEW o,
         NEW step, NEW hypothesis, Evaluated(step, hypothesis, n, kind, o)
  PROVE  Evaluated(step, hypothesis, m, kind, o)
<1>1. Place(step.rule) \in 1 .. n => Place(step.rule) \in 1 .. m
  OBVIOUS
<1> QED BY <1>1 DEF Evaluated

(* A rule that does not apply leaves no step behind.                       *)
LEMMA SkippingKeepsStepsInv ==
  ASSUME TargetInv, StepsInv, NotApplicable
  PROVE  StepsInv'
<1>1. /\ completed \in 0 .. 12 /\ completed' = completed + 1
      /\ Catalog[completed + 1].kind # target.kind
      /\ UNCHANGED <<target, observation, steps, hypotheses>>
  BY CatalogIs DEF NotApplicable, Running, Applies, Current, TargetInv
<1>2. ASSUME NEW i \in 1 .. Len(steps)
      PROVE  Evaluated(steps[i], hypotheses[i], completed', target.kind, observation)
  <2>1. completed \in Nat /\ completed' \in Nat /\ completed <= completed'
    BY <1>1
  <2>2. Evaluated(steps[i], hypotheses[i], completed, target.kind, observation)
    BY DEF StepsInv
  <2> QED BY <2>1, <2>2, EvaluatedStays
<1>3. ASSUME NEW k \in 1 .. completed', Catalog[k].kind = target.kind
      PROVE  \E i \in 1 .. Len(steps) : steps[i].rule = Catalog[k].id
  <2>1. k \in 1 .. completed
    BY <1>1, <1>3
  <2> QED BY <1>3, <2>1 DEF StepsInv
<1> QED BY <1>1, <1>2, <1>3 DEF StepsInv

(* A rule that applies adds one step, behind those of earlier rules.       *)
LEMMA EvaluatingKeepsStepsInv ==
  ASSUME TargetInv, StepsInv, Evaluate
  PROVE  StepsInv'
<1> DEFINE k == completed + 1
           role == Role(Catalog[k], observation)
           step == [rule |-> Catalog[k].id, outcome |-> Outcome(role)]
           hypothesis == [rule |-> Catalog[k].id, role |-> role]
           n == Len(steps)
<1>1. /\ k \in 1 .. 13 /\ completed \in 0 .. 12 /\ completed' = k
      /\ Catalog[k].kind = target.kind
      /\ UNCHANGED <<target, observation>>
      /\ steps' = Append(steps, step)
      /\ hypotheses' = Append(hypotheses, hypothesis)
  BY CatalogIs DEF Evaluate, Running, Applies, Current, TargetInv
<1>2. role \in RolesOfRules /\ Outcome(role) \in Outcomes
  BY RoleIsRole
<1>3. Place(Catalog[k].id) = k /\ Catalog[k].id \in RuleIds
  BY <1>1, PlaceIs
<1>4. /\ step \in [rule : RuleIds, outcome : Outcomes]
      /\ hypothesis \in [rule : RuleIds, role : RolesOfRules]
      /\ step.rule = Catalog[k].id /\ step.outcome = Outcome(role)
      /\ hypothesis.rule = Catalog[k].id /\ hypothesis.role = role
  BY <1>2, <1>3
<1>5. n \in Nat /\ k \in Nat /\ completed \in Nat /\ completed < k
  BY <1>1 DEF StepsInv
<1>6. /\ steps \in Seq([rule : RuleIds, outcome : Outcomes])
      /\ hypotheses \in Seq([rule : RuleIds, role : RolesOfRules])
      /\ Len(steps) = n /\ Len(hypotheses) = n
  BY DEF StepsInv
<1>7. ASSUME NEW i \in 1 .. n
      PROVE  /\ Evaluated(steps[i], hypotheses[i], completed, target.kind, observation)
             /\ Place(steps[i].rule) \in 1 .. completed
  BY DEF StepsInv, Evaluated
<1> HIDE DEF step, hypothesis, k, n
<1>8. /\ steps' \in Seq([rule : RuleIds, outcome : Outcomes])
      /\ hypotheses' \in Seq([rule : RuleIds, role : RolesOfRules])
      /\ Len(steps') = n + 1 /\ Len(hypotheses') = n + 1
      /\ \A i \in 1 .. n : steps'[i] = steps[i] /\ hypotheses'[i] = hypotheses[i]
      /\ steps'[n + 1] = step /\ hypotheses'[n + 1] = hypothesis
  BY <1>1, <1>4, <1>5, <1>6
<1>9. Evaluated(step, hypothesis, k, target.kind, observation)
  <2>1. k \in 1 .. k
    BY <1>1
  <2> QED BY <1>1, <1>3, <1>4, <2>1 DEF Evaluated
<1>10. ASSUME NEW i \in 1 .. n + 1
       PROVE  Evaluated(steps'[i], hypotheses'[i], completed', target.kind, observation)
  <2>1. CASE i \in 1 .. n
    <3>1. Evaluated(steps[i], hypotheses[i], k, target.kind, observation)
      BY <1>5, <1>7, <2>1, EvaluatedStays
    <3> QED BY <1>1, <1>8, <2>1, <3>1
  <2>2. CASE i = n + 1
    BY <1>1, <1>8, <1>9, <2>2
  <2> QED BY <1>5, <2>1, <2>2
<1>11. ASSUME NEW i \in 1 .. n + 1, NEW j \in 1 .. n + 1, i < j
       PROVE  Place(steps'[i].rule) < Place(steps'[j].rule)
  <2>1. i \in 1 .. n /\ steps'[i] = steps[i]
    BY <1>5, <1>8, <1>11
  <2>2. CASE j \in 1 .. n
    <3>1. Place(steps[i].rule) < Place(steps[j].rule)
      BY <1>11, <2>1, <2>2 DEF StepsInv, n
    <3> QED BY <1>8, <2>1, <2>2, <3>1
  <2>3. CASE j = n + 1
    <3>1. Place(steps'[j].rule) = k
      BY <1>3, <1>4, <1>8, <2>3
    <3> QED BY <1>5, <1>7, <2>1, <3>1
  <2> QED BY <1>5, <2>2, <2>3
<1>12. ASSUME NEW l \in 1 .. k, Catalog[l].kind = target.kind
       PROVE  \E i \in 1 .. n + 1 : steps'[i].rule = Catalog[l].id
  <2>1. CASE l = k
    BY <1>4, <1>5, <1>8, <2>1
  <2>2. CASE l # k
    <3>1. l \in 1 .. completed
      BY <2>2, <1>5 DEF k
    <3>2. PICK i \in 1 .. n : steps[i].rule = Catalog[l].id
      BY <1>12, <3>1 DEF StepsInv, n
    <3>3. i \in 1 .. n + 1
      BY <1>5
    <3> QED BY <1>8, <3>2, <3>3
  <2> QED BY <2>1, <2>2
<1> QED BY <1>1, <1>8, <1>10, <1>11, <1>12 DEF StepsInv

LEMMA RunInvInit == Init => RunInv
<1> SUFFICES ASSUME Init PROVE RunInv
  OBVIOUS
<1>1. /\ target \in Targets /\ unfollowed \subseteq LookedUp(target.kind)
      /\ observation = Absent /\ completed = 0
      /\ steps = <<>> /\ hypotheses = <<>> /\ report = NoReport
  BY DEF Init
<1>2. TargetInv
  BY <1>1 DEF TargetInv
<1>3. StepsInv
  <2>1. /\ Len(steps) = 0 /\ Len(hypotheses) = 0
        /\ steps \in Seq([rule : RuleIds, outcome : Outcomes])
        /\ hypotheses \in Seq([rule : RuleIds, role : RolesOfRules])
    BY <1>1
  <2>2. \A i \in 1 .. Len(steps) : FALSE
    BY <2>1
  <2>3. \A i \in 1 .. completed : FALSE
    BY <1>1
  <2> QED BY <2>1, <2>2, <2>3 DEF StepsInv
<1> QED BY <1>1, <1>2, <1>3 DEF RunInv, ReportInv, Reported

LEMMA RunInvNext == RunInv /\ [Next]_vars => RunInv'
<1> SUFFICES ASSUME RunInv, [Next]_vars PROVE RunInv'
  OBVIOUS
<1>1. TargetInv /\ StepsInv /\ ReportInv
  BY DEF RunInv
<1>2. CASE Build
  <2>1. /\ observation = Absent /\ observation' = Observe(Held)
        /\ UNCHANGED <<target, unfollowed, completed, steps, hypotheses, report>>
    BY <1>2 DEF Build, Held
  <2>2. completed = 0 /\ Held' = Held
    BY <1>1, <2>1 DEF TargetInv, Held
  <2>3. TargetInv'
    BY <1>1, <2>1, <2>2 DEF TargetInv
  <2>4. \A i \in 1 .. Len(steps) : FALSE
    BY <1>1, <2>2 DEF StepsInv, Evaluated
  <2>5. StepsInv'
    BY <1>1, <2>1, <2>4 DEF StepsInv
  <2>6. ReportInv'
    BY <1>1, <2>1 DEF ReportInv, Reported, NoReport
  <2> QED BY <2>3, <2>5, <2>6 DEF RunInv
<1>3. CASE NotApplicable
  <2>1. /\ completed \in 0 .. 12 /\ completed' = completed + 1 /\ observation # Absent
        /\ UNCHANGED <<target, unfollowed, observation, report>>
    BY <1>1, <1>3, CatalogIs DEF NotApplicable, Running, TargetInv
  <2>2. TargetInv'
    BY <1>1, <2>1 DEF TargetInv, Held
  <2>3. ReportInv'
    BY <1>1, <2>1 DEF ReportInv, Reported, NoReport
  <2> QED BY <1>1, <1>3, <2>2, <2>3, SkippingKeepsStepsInv DEF RunInv
<1>4. CASE Evaluate
  <2>1. /\ completed \in 0 .. 12 /\ completed' = completed + 1 /\ observation # Absent
        /\ UNCHANGED <<target, unfollowed, observation, report>>
    BY <1>1, <1>4, CatalogIs DEF Evaluate, Running, TargetInv
  <2>2. TargetInv'
    BY <1>1, <2>1 DEF TargetInv, Held
  <2>3. ReportInv'
    BY <1>1, <2>1 DEF ReportInv, Reported, NoReport
  <2> QED BY <1>1, <1>4, <2>2, <2>3, EvaluatingKeepsStepsInv DEF RunInv
<1>5. CASE BuildReport
  <2>1. /\ observation # Absent /\ completed = 13 /\ report' = TheReport
        /\ UNCHANGED <<target, unfollowed, observation, completed, steps, hypotheses>>
    BY <1>5, CatalogIs DEF BuildReport, TheReport
  <2>2. TheReport' = TheReport
    BY <2>1 DEF TheReport, Verdict, Confirmed, StepsWith
  <2>3. TargetInv' /\ StepsInv'
    BY <1>1, <2>1 DEF TargetInv, Held, StepsInv
  <2>4. ReportInv'
    BY <2>1, <2>2 DEF ReportInv
  <2> QED BY <2>3, <2>4 DEF RunInv
<1>6. CASE UNCHANGED vars
  <2>1. UNCHANGED <<target, unfollowed, observation, completed, steps, hypotheses, report>>
    BY <1>6 DEF vars
  <2>2. TargetInv' /\ StepsInv'
    BY <1>1, <2>1 DEF TargetInv, Held, StepsInv
  <2>3. ReportInv'
    BY <1>1, <2>1 DEF ReportInv, Reported, NoReport, TheReport, Verdict, Confirmed,
       StepsWith
  <2> QED BY <2>2, <2>3 DEF RunInv
<1> QED BY <1>2, <1>3, <1>4, <1>5, <1>6 DEF Next

LEMMA RunInvHolds == Spec => []RunInv
BY RunInvInit, RunInvNext, PTL DEF Spec

-----------------------------------------------------------------------------
(* What a report holds.                                                    *)

(* The order of the natural numbers descends for finitely many steps only.*)
LEMMA LessThanIsWellFounded ==
  IsWellFoundedOn({ss \in Nat \X Nat : ss[1] < ss[2]}, Nat)
BY NatLessThanWellFounded DEF OpToRel

(* Every set of natural numbers that is not empty has a smallest member.   *)
LEMMA SmallestMember ==
  ASSUME NEW S \in SUBSET Nat, S # {}
  PROVE  \E x \in S : \A y \in S : x <= y
<1> DEFINE Less == {ss \in Nat \X Nat : ss[1] < ss[2]}
<1>1. PICK x \in S : \A y \in S : ~ (<<y, x>> \in Less)
  <2>1. IsWellFoundedOn(Less, Nat)
    BY LessThanIsWellFounded
  <2> HIDE DEF Less
  <2> QED BY <2>1, WFMin
<1>2. ASSUME NEW y \in S PROVE x <= y
  <2>1. x \in Nat /\ y \in Nat
    OBVIOUS
  <2>2. y < x => <<y, x>> \in Less
    BY <2>1
  <2>3. ~ (y < x)
    BY <1>1, <2>2
  <2> QED BY <2>1, <2>3
<1> QED BY <1>2

(* Every set of positions of a list that is not empty has a last one.      *)
LEMMA LastMember ==
  ASSUME NEW n \in Nat, NEW S \in SUBSET (1 .. n), S # {}
  PROVE  \E x \in S : \A y \in S : y <= x
<1> DEFINE Flipped == {m \in Nat : n - m \in S}
<1>1. PICK m \in Flipped : \A y \in Flipped : m <= y
  <2>1. PICK x \in S : TRUE
    OBVIOUS
  <2>2. n - x \in Nat /\ n - (n - x) = x
    OBVIOUS
  <2>3. Flipped # {} /\ Flipped \in SUBSET Nat
    BY <2>1, <2>2
  <2> HIDE DEF Flipped
  <2> QED BY <2>3, SmallestMember
<1>2. n - m \in S
  OBVIOUS
<1>3. ASSUME NEW y \in S PROVE y <= n - m
  <2>1. n - y \in Nat /\ n - (n - y) = y
    OBVIOUS
  <2>2. m <= n - y
    BY <2>1, <1>1
  <2> QED BY <2>2
<1> QED BY <1>2, <1>3

(* The rules of the kind that play a role in the observation.              *)
InRole(role) ==
  {Catalog[k].id : k \in {k \in 1 .. 13 : /\ Catalog[k].kind = target.kind
                                          /\ Role(Catalog[k], observation) = role}}

LEMMA StepsInRole ==
  ASSUME StepsInv, completed = 13, NEW role \in RolesOfRules
  PROVE  StepsWith(Outcome(role)) = InRole(role)
<1>1. DOMAIN steps = 1 .. Len(steps)
  BY DEF StepsInv
<1>2. ASSUME NEW i \in 1 .. Len(steps), steps[i].outcome = Outcome(role)
      PROVE  steps[i].rule \in InRole(role)
  <2> DEFINE k == Place(steps[i].rule)
  <2>1. /\ k \in 1 .. 13 /\ Catalog[k].id = steps[i].rule /\ Catalog[k].kind = target.kind
        /\ Outcome(Role(Catalog[k], observation)) = Outcome(role)
    BY <1>2 DEF StepsInv, Evaluated
  <2> HIDE DEF k
  <2>2. Role(Catalog[k], observation) = role
    BY <2>1, RoleIsRole, OutcomeIs DEF RolesOfRules
  <2> QED BY <2>1, <2>2 DEF InRole
<1>3. ASSUME NEW k \in 1 .. 13, Catalog[k].kind = target.kind,
             Role(Catalog[k], observation) = role
      PROVE  \E i \in 1 .. Len(steps) :
               steps[i].rule = Catalog[k].id /\ steps[i].outcome = Outcome(role)
  <2>1. PICK i \in 1 .. Len(steps) : steps[i].rule = Catalog[k].id
    BY <1>3 DEF StepsInv
  <2>2. Place(steps[i].rule) = k
    BY <2>1, PlaceIs
  <2>3. steps[i].outcome = Outcome(Role(Catalog[k], observation))
    BY <2>2 DEF StepsInv, Evaluated
  <2> QED BY <1>3, <2>1, <2>3
<1>4. StepsWith(Outcome(role)) \subseteq InRole(role)
  BY <1>1, <1>2 DEF StepsWith
<1>5. InRole(role) \subseteq StepsWith(Outcome(role))
  BY <1>1, <1>3 DEF StepsWith, InRole
<1> QED BY <1>4, <1>5

LEMMA ConfirmedAre ==
  ASSUME StepsInv
  PROVE  /\ DOMAIN steps = 1 .. Len(steps) /\ DOMAIN hypotheses = 1 .. Len(steps)
         /\ \A i \in 1 .. Len(steps) : i \in Confirmed <=> steps[i].outcome = "FAILED"
         /\ Confirmed \subseteq 1 .. Len(steps)
         /\ {hypotheses[i].rule : i \in Confirmed} = StepsWith("FAILED")
<1>1. /\ DOMAIN steps = 1 .. Len(steps) /\ DOMAIN hypotheses = 1 .. Len(steps)
  BY DEF StepsInv
<1>2. ASSUME NEW i \in 1 .. Len(steps)
      PROVE  /\ i \in Confirmed <=> steps[i].outcome = "FAILED"
             /\ hypotheses[i].rule = steps[i].rule
  <2> DEFINE role == Role(Catalog[Place(steps[i].rule)], observation)
  <2>1. /\ steps[i].outcome = Outcome(role) /\ hypotheses[i].role = role
        /\ hypotheses[i].rule = steps[i].rule
    BY DEF StepsInv, Evaluated
  <2>2. role \in RolesOfRules
    BY RoleIsRole
  <2> HIDE DEF role
  <2>3. steps[i].outcome = "FAILED" <=> hypotheses[i].role = "supporting"
    BY <2>1, <2>2, OutcomeIs
  <2> QED BY <1>1, <2>1, <2>3 DEF Confirmed
<1>3. Confirmed \subseteq 1 .. Len(steps)
  BY <1>1 DEF Confirmed
<1>4. {hypotheses[i].rule : i \in Confirmed} = StepsWith("FAILED")
  BY <1>1, <1>2, <1>3 DEF StepsWith
<1> QED BY <1>1, <1>2, <1>3, <1>4

(* The lists of a report are the rules of the kind by the role they play.  *)
LEMMA ReportIs ==
  ASSUME RunInv, Reported
  PROVE  /\ target \in Targets /\ unfollowed \subseteq LookedUp(target.kind)
         /\ observation = Observe(Held)
         /\ report.confirmed = InRole("supporting")
         /\ report.healthy = InRole("contradicting")
         /\ report.unknown = InRole("missing")
<1>1. /\ StepsInv /\ completed = 13 /\ observation # Absent /\ report = TheReport
      /\ TargetInv
  BY DEF RunInv, ReportInv
<1>2. /\ StepsWith("FAILED") = InRole("supporting")
      /\ StepsWith("PASSED") = InRole("contradicting")
      /\ StepsWith("UNKNOWN") = InRole("missing")
  BY <1>1, StepsInRole, OutcomeIs DEF RolesOfRules
<1>3. /\ report.confirmed = {hypotheses[i].rule : i \in Confirmed}
      /\ report.healthy = StepsWith("PASSED") /\ report.unknown = StepsWith("UNKNOWN")
  BY <1>1 DEF TheReport
<1>4. /\ target \in Targets /\ unfollowed \subseteq LookedUp(target.kind)
      /\ observation = Observe(Held)
  BY <1>1 DEF TargetInv
<1> QED BY <1>1, <1>2, <1>3, <1>4, ConfirmedAre

(* Every rule of the kind plays one of the three roles.                    *)
LEMMA RulesInRoles ==
  RulesOf(target.kind) = InRole("supporting") \union InRole("contradicting")
                           \union InRole("missing")
<1>1. RulesOf(target.kind) = {Catalog[k].id : k \in {k \in 1 .. 13 : Catalog[k].kind = target.kind}}
  BY CatalogIs DEF RulesOf
<1>2. \A k \in 1 .. 13 : Role(Catalog[k], observation) \in {"supporting", "contradicting", "missing"}
  BY RoleIsRole DEF RolesOfRules
<1> QED BY <1>1, <1>2 DEF InRole

(* "No issue" is said only if there is a check and all are passed.         *)
LEMMA NoIssueIs ==
  ASSUME RunInv, Reported, report.verdict = "NO_ISSUE"
  PROVE  report.healthy = RulesOf(target.kind) /\ report.healthy # {}
<1>1. /\ StepsInv /\ completed = 13 /\ report = TheReport
  BY DEF RunInv, ReportInv
<1>2. Verdict = "NO_ISSUE"
  BY <1>1 DEF TheReport
<1>3. steps # <<>> /\ Confirmed = {} /\ StepsWith("UNKNOWN") = {}
  BY <1>2 DEF Verdict
<1>4. report.confirmed = {} /\ report.unknown = {}
  BY <1>1, <1>3 DEF TheReport
<1>5. report.healthy = RulesOf(target.kind)
  BY <1>4, ReportIs, RulesInRoles
<1>6. RulesOf(target.kind) # {}
  <2>1. Len(steps) \in Nat /\ Len(steps) # 0
    BY <1>1, <1>3 DEF StepsInv
  <2>2. 1 \in 1 .. Len(steps)
    BY <2>1
  <2>3. PICK k \in 1 .. 13 : Catalog[k].kind = target.kind
    BY <1>1, <2>2 DEF StepsInv, Evaluated
  <2> QED BY <2>3, CatalogIs DEF RulesOf
<1> QED BY <1>5, <1>6

-----------------------------------------------------------------------------
(* The counts and the root cause.                                          *)

(* Steps of one place have as many rules as there are steps.               *)
LEMMA AsManyRules ==
  ASSUME StepsInv, NEW places \in SUBSET (1 .. Len(steps))
  PROVE  /\ IsFiniteSet(places)
         /\ Cardinality({steps[i].rule : i \in places}) = Cardinality(places)
<1> DEFINE rules == {steps[i].rule : i \in places}
           f == [i \in places |-> steps[i].rule]
<1>1. IsFiniteSet(places)
  <2>1. 1 \in Int /\ Len(steps) \in Int
    BY DEF StepsInv
  <2>2. IsFiniteSet(1 .. Len(steps))
    BY <2>1, FS_Interval
  <2> QED BY <2>2, FS_Subset
<1>2. \A i, j \in places : steps[i].rule = steps[j].rule => i = j
  <2>1. ASSUME NEW i \in places, NEW j \in places, steps[i].rule = steps[j].rule
        PROVE  ~(i < j)
    <3>1. Place(steps[i].rule) \in Int /\ i \in 1 .. Len(steps) /\ j \in 1 .. Len(steps)
      BY DEF StepsInv, Evaluated
    <3>2. i < j => Place(steps[i].rule) < Place(steps[j].rule)
      BY <3>1 DEF StepsInv
    <3> QED BY <2>1, <3>1, <3>2
  <2>2. \A i \in places : i \in Int
    BY DEF StepsInv
  <2>3. \A i, j \in places : i < j \/ j < i \/ i = j
    BY <2>2
  <2> QED BY <2>1, <2>3
<1>3. f \in Bijection(places, rules)
  <2>1. f \in [places -> rules] /\ \A y \in rules : \E x \in places : f[x] = y
    OBVIOUS
  <2>2. \A x, y \in places : f[x] = f[y] => x = y
    BY <1>2
  <2> HIDE DEF f, rules
  <2> QED BY <2>1, <2>2 DEF Bijection, Injection, Surjection, IsInjective
<1>4. ExistsBijection(places, rules)
  BY <1>3 DEF ExistsBijection
<1> HIDE DEF rules, f
<1>5. Cardinality(rules) = Cardinality(places)
  BY <1>1, <1>4, FS_Bijection
<1> QED BY <1>1, <1>5 DEF rules

(* What is not unknown is confirmed or healthy.                            *)
LEMMA CountsAddUp ==
  ASSUME StepsInv
  PROVE  Len(steps) - Cardinality(StepsWith("UNKNOWN"))
           = Cardinality(StepsWith("FAILED")) + Cardinality(StepsWith("PASSED"))
<1> DEFINE n == Len(steps)
           With(outcome) == {i \in 1 .. n : steps[i].outcome = outcome}
           F == With("FAILED")
           P == With("PASSED")
           U == With("UNKNOWN")
<1>1. n \in Nat /\ DOMAIN steps = 1 .. n
      /\ \A i \in 1 .. n : steps[i].outcome \in Outcomes
  <2>1. \A i \in 1 .. n : steps[i].outcome \in Outcomes
    BY RoleIsRole DEF StepsInv, Evaluated
  <2> QED BY <2>1 DEF StepsInv
<1>2. \A outcome : StepsWith(outcome) = {steps[i].rule : i \in With(outcome)}
  BY <1>1 DEF StepsWith
<1>3. /\ F \in SUBSET (1 .. n) /\ P \in SUBSET (1 .. n) /\ U \in SUBSET (1 .. n)
      /\ (F \union P) \union U = 1 .. n
      /\ F \intersect P = {} /\ (F \union P) \intersect U = {}
  BY <1>1 DEF Outcomes
<1>4. /\ StepsWith("FAILED") = {steps[i].rule : i \in F}
      /\ StepsWith("PASSED") = {steps[i].rule : i \in P}
      /\ StepsWith("UNKNOWN") = {steps[i].rule : i \in U}
  BY <1>2
<1> HIDE DEF F, P, U, With
<1>5. /\ IsFiniteSet(F) /\ Cardinality(StepsWith("FAILED")) = Cardinality(F)
      /\ IsFiniteSet(P) /\ Cardinality(StepsWith("PASSED")) = Cardinality(P)
      /\ IsFiniteSet(U) /\ Cardinality(StepsWith("UNKNOWN")) = Cardinality(U)
  BY <1>3, <1>4, AsManyRules
<1>6. /\ IsFiniteSet(F \union P)
      /\ Cardinality(F \union P) = Cardinality(F) + Cardinality(P) - Cardinality(F \intersect P)
  BY <1>5, FS_Union
<1>7. Cardinality((F \union P) \union U) =
        Cardinality(F \union P) + Cardinality(U) - Cardinality((F \union P) \intersect U)
  BY <1>5, <1>6, FS_Union
<1>8. Cardinality(1 .. n) = n
  <2>1. 1 \in Int /\ n \in Int
    BY <1>1
  <2>2. Cardinality(1 .. n) = IF 1 > n THEN 0 ELSE n - 1 + 1
    BY <2>1, FS_Interval
  <2> HIDE DEF n
  <2> QED BY <1>1, <2>2
<1>9. Cardinality({}) = 0
  BY FS_EmptySet
<1>10. Cardinality(F) \in Nat /\ Cardinality(P) \in Nat /\ Cardinality(U) \in Nat
  BY <1>5, FS_CardinalityType
<1>11. n = (Cardinality(F) + Cardinality(P) - 0) + Cardinality(U) - 0
  BY <1>3, <1>6, <1>7, <1>8, <1>9
<1> DEFINE a == Cardinality(F)
           b == Cardinality(P)
           c == Cardinality(U)
<1> HIDE DEF a, b, c, n
<1>12. a \in Nat /\ b \in Nat /\ c \in Nat /\ n = (a + b - 0) + c - 0
  BY <1>10, <1>11 DEF a, b, c
<1>13. n - c = a + b
  BY <1>12
<1> QED BY <1>5, <1>13 DEF a, b, c, n

(* The report of BuildReport covers the catalogue of the kind once and in  *)
(* order, its counts add up, and its root cause is the first rule that is  *)
(* confirmed.                                                              *)
THEOREM ReportsCoverCatalog == Spec => []ReportCoversCatalog
<1>1. ASSUME RunInv, Reported
      PROVE  ReportCoversCatalog
  <2>1. StepsInv /\ completed = 13 /\ report = TheReport
    BY <1>1 DEF RunInv, ReportInv
  <2>2. {steps[i].rule : i \in DOMAIN steps} = RulesOf(target.kind)
    <3>1. DOMAIN steps = 1 .. Len(steps)
      BY <2>1, ConfirmedAre
    <3>2. ASSUME NEW i \in 1 .. Len(steps)
          PROVE  \E k \in 1 .. 13 : Catalog[k].kind = target.kind /\ steps[i].rule = Catalog[k].id
      BY <2>1 DEF StepsInv, Evaluated
    <3>3. ASSUME NEW k \in 1 .. 13, Catalog[k].kind = target.kind
          PROVE  \E i \in 1 .. Len(steps) : steps[i].rule = Catalog[k].id
      BY <2>1, <3>3 DEF StepsInv
    <3>4. RulesOf(target.kind) =
            {Catalog[k].id : k \in {k \in 1 .. 13 : Catalog[k].kind = target.kind}}
      BY CatalogIs DEF RulesOf
    <3>5. ASSUME NEW i \in 1 .. Len(steps)
          PROVE  steps[i].rule \in RulesOf(target.kind)
      BY <3>2, <3>4
    <3>6. ASSUME NEW id \in RulesOf(target.kind)
          PROVE  id \in {steps[i].rule : i \in 1 .. Len(steps)}
      BY <3>3, <3>4
    <3> QED BY <3>1, <3>5, <3>6
  <2>3. \A i, j \in DOMAIN steps : i < j => Place(steps[i].rule) < Place(steps[j].rule)
    BY <2>1, ConfirmedAre DEF StepsInv
  <2>4. report.confirmed = StepsWith("FAILED") /\ report.healthy = StepsWith("PASSED")
    BY <2>1, ConfirmedAre DEF TheReport
  <2>5. report.checked = Cardinality(report.confirmed) + Cardinality(report.healthy)
    BY <2>1, <2>4, CountsAddUp DEF TheReport
  <2>6. report.verdict = "CONFIRMED" <=> Confirmed # {}
    <3>1. report.verdict = Verdict
      BY <2>1 DEF TheReport
    <3>2. steps = <<>> => Confirmed = {}
      <4>1. steps = <<>> => Len(steps) = 0
        OBVIOUS
      <4>2. Confirmed \subseteq 1 .. Len(steps)
        BY <2>1, ConfirmedAre
      <4> QED BY <4>1, <4>2
    <3> QED BY <3>1, <3>2 DEF Verdict
  <2>7. ASSUME Confirmed = {}
        PROVE  report.rootCause = Absent
    BY <2>1, <2>7 DEF TheReport
  <2>8. ASSUME Confirmed # {}
        PROVE  /\ report.rootCause \in report.confirmed
               /\ \A id \in report.confirmed : Place(report.rootCause) <= Place(id)
    <3> DEFINE first == First(Confirmed)
    <3>1. Confirmed \in SUBSET Nat /\ Confirmed \subseteq 1 .. Len(steps)
      BY <2>1, ConfirmedAre DEF StepsInv
    <3>2. first \in Confirmed /\ \A i \in Confirmed : first <= i
      BY <2>8, <3>1, SmallestMember DEF First
    <3>3. report.rootCause = hypotheses[first].rule
          /\ report.confirmed = {hypotheses[i].rule : i \in Confirmed}
      BY <2>1, <2>8 DEF TheReport
    <3> HIDE DEF first
    <3>4. ASSUME NEW i \in Confirmed
          PROVE  Place(hypotheses[first].rule) <= Place(hypotheses[i].rule)
      <4>1. /\ hypotheses[first].rule = steps[first].rule
            /\ hypotheses[i].rule = steps[i].rule
            /\ Place(steps[first].rule) \in Int /\ Place(steps[i].rule) \in Int
        <5>1. ASSUME NEW j \in 1 .. Len(steps)
              PROVE  hypotheses[j].rule = steps[j].rule /\ Place(steps[j].rule) \in 1 .. 13
          BY <2>1 DEF StepsInv, Evaluated
        <5>2. first \in 1 .. Len(steps) /\ i \in 1 .. Len(steps)
          BY <3>1, <3>2
        <5> QED BY SMTT(30), <5>1, <5>2
      <4>2. first < i => Place(steps[first].rule) < Place(steps[i].rule)
        BY <2>1, <3>1, <3>2 DEF StepsInv
      <4>3. first < i \/ first = i
        BY <3>1, <3>2
      <4> QED BY <4>1, <4>2, <4>3
    <3> QED BY <3>2, <3>3, <3>4
  <2> QED BY <2>2, <2>3, <2>4, <2>5, <2>6, <2>7, <2>8 DEF ReportCoversCatalog
<1>2. ASSUME RunInv
      PROVE  ReportCoversCatalog
  BY <1>1, <1>2 DEF ReportCoversCatalog
<1> QED BY <1>2, RunInvHolds, PTL

-----------------------------------------------------------------------------
(* The observation of a Pod.                                               *)

(* The reason that is read is that of the last container that has one.     *)
LEMMA LastReasonIs ==
  ASSUME NEW n \in Nat, NEW reasons, DOMAIN reasons = 1 .. n
  PROVE  \/ LastReason(reasons) = Absent /\ \A i \in 1 .. n : reasons[i] = Absent
         \/ \E i \in 1 .. n : /\ reasons[i] # Absent
                              /\ LastReason(reasons) = reasons[i]
                              /\ \A j \in 1 .. n : i < j => reasons[j] = Absent
<1> DEFINE known == {i \in 1 .. n : reasons[i] # Absent}
           last == Last(known)
<1>1. LastReason(reasons) = IF known = {} THEN Absent ELSE reasons[last]
  BY DEF LastReason
<1>2. CASE known = {}
  BY <1>1, <1>2
<1>3. CASE known # {}
  <2>1. last \in known /\ \A j \in known : j <= last
    BY <1>3, LastMember DEF Last
  <2> HIDE DEF last
  <2>2. last \in 1 .. n /\ reasons[last] # Absent /\ LastReason(reasons) = reasons[last]
    BY <1>1, <1>3, <2>1
  <2>3. ASSUME NEW j \in 1 .. n, last < j PROVE reasons[j] = Absent
    <3>1. j \in known => j <= last
      BY <2>1
    <3>2. j \notin known
      BY <2>2, <2>3, <3>1
    <3> QED BY <3>2
  <2> QED BY <2>2, <2>3
<1> QED BY <1>2, <1>3

(* It is missing only if all are, it is that of some container, and one    *)
(* that it is not stands before one that is another.                       *)
LEMMA ReasonReading ==
  ASSUME NEW n \in Nat, NEW reasons, DOMAIN reasons = 1 .. n,
         NEW value, value # Absent
  PROVE  /\ LastReason(reasons) = Absent <=> \A i \in 1 .. n : reasons[i] = Absent
         /\ LastReason(reasons) = value => \E i \in 1 .. n : reasons[i] = value
         /\ LastReason(reasons) \notin {Absent, value} =>
              \A i \in 1 .. n : reasons[i] = value =>
                \E j \in 1 .. n : i < j /\ reasons[j] \notin {Absent, value}
<1> DEFINE read == LastReason(reasons)
<1>1. CASE read = Absent /\ \A i \in 1 .. n : reasons[i] = Absent
  BY <1>1
<1>2. CASE \E i \in 1 .. n : /\ reasons[i] # Absent
                             /\ read = reasons[i]
                             /\ \A j \in 1 .. n : i < j => reasons[j] = Absent
  <2>1. PICK j \in 1 .. n : /\ reasons[j] # Absent
                            /\ read = reasons[j]
                            /\ \A l \in 1 .. n : j < l => reasons[l] = Absent
    BY <1>2
  <2> HIDE DEF read
  <2>2. ASSUME NEW i \in 1 .. n, reasons[i] = value, read \notin {Absent, value}
        PROVE  i < j
    <3>1. ~(j < i) /\ i # j
      BY <2>1, <2>2
    <3> QED BY <3>1
  <2> QED BY <2>1, <2>2 DEF read
<1> HIDE DEF read
<1> QED BY <1>1, <1>2, LastReasonIs DEF read

(* The last event about the probe decides, or the condition Ready.         *)
LEMMA ReadinessIs ==
  ASSUME NEW pod, NEW n \in Nat, DOMAIN pod.events = 1 .. n
  PROVE  \/ /\ \A i \in 1 .. n : ~(pod.events[i].own /\ pod.events[i].readiness)
            /\ ReadinessProbeFailed(pod) = IF pod.ready = TRUE THEN FALSE ELSE Absent
         \/ \E i \in 1 .. n :
              /\ pod.events[i].own /\ pod.events[i].readiness
              /\ ReadinessProbeFailed(pod) = pod.events[i].unhealthy
              /\ \A j \in 1 .. n : pod.events[j].own /\ pod.events[j].readiness => j <= i
<1> DEFINE about == {i \in 1 .. n : pod.events[i].own /\ pod.events[i].readiness}
           last == Last(about)
<1>1. ReadinessProbeFailed(pod) =
        IF about # {} THEN pod.events[last].unhealthy
        ELSE IF pod.ready = TRUE THEN FALSE ELSE Absent
  BY DEF ReadinessProbeFailed
<1>2. CASE about = {}
  BY <1>1, <1>2
<1>3. CASE about # {}
  <2>1. last \in about /\ \A j \in about : j <= last
    BY <1>3, LastMember DEF Last
  <2> HIDE DEF last
  <2>2. ReadinessProbeFailed(pod) = pod.events[last].unhealthy
    BY <1>1, <1>3
  <2> QED BY <2>1, <2>2
<1> QED BY <1>2, <1>3

(* Without its events a Pod is what it is with them.                       *)
LEMMA HeldPodIs ==
  ASSUME target.kind = "Pod", IsPod(target)
  PROVE  /\ Held.kind = "Pod" /\ Held.phase = target.phase /\ Held.ready = target.ready
         /\ Held.scheduled = target.scheduled /\ Held.message = target.message
         /\ Held.containers = target.containers
         /\ Held.events = IF "Event" \in unfollowed THEN <<>> ELSE target.events
<1>1. Held = IF "Event" \in unfollowed THEN [target EXCEPT !.events = <<>>] ELSE target
  BY DEF Held, Collected
<1>2. target \in [kind : {"Pod"}, phase : Reasons, ready : Conditions, scheduled : Reasons,
                  message : SUBSET {"insufficient", "taint"},
                  containers : Seq([ready : BOOLEAN, waiting : Reasons, terminated : Reasons]),
                  events : Seq([own : BOOLEAN, readiness : BOOLEAN, unhealthy : BOOLEAN])]
  BY DEF IsPod
<1>3. CASE "Event" \in unfollowed
  <2>1. Held = [target EXCEPT !.events = <<>>]
    BY <1>1, <1>3
  <2> QED BY <1>2, <1>3, <2>1
<1>4. CASE "Event" \notin unfollowed
  BY <1>1, <1>4
<1> QED BY <1>3, <1>4

LEMMA PodObservationIs ==
  ASSUME NEW pod
  PROVE  /\ PodObservation(pod)["waiting"] =
              LastReason([i \in DOMAIN pod.containers |-> pod.containers[i].waiting])
         /\ PodObservation(pod)["terminated"] =
              LastReason([i \in DOMAIN pod.containers |-> pod.containers[i].terminated])
         /\ PodObservation(pod)["readinessProbeFailed"] = ReadinessProbeFailed(pod)
         /\ PodObservation(pod)["insufficientResources"] =
              IF pod.scheduled = "Unschedulable" THEN "insufficient" \in pod.message ELSE Absent
         /\ PodObservation(pod)["taintMismatch"] =
              IF pod.scheduled = "Unschedulable" THEN "taint" \in pod.message ELSE Absent
BY DEF PodObservation, Unobserved, Facts

(* What the observation of a Pod says of its containers, its events and    *)
(* its condition PodScheduled.                                             *)
LEMMA PodFacts ==
  ASSUME observation = Observe(Held), target.kind = "Pod", IsPod(target)
  PROVE  LET n == Len(target.containers)
             waiting == [i \in 1 .. n |-> target.containers[i].waiting]
             terminated == [i \in 1 .. n |-> target.containers[i].terminated]
         IN  /\ n \in Nat /\ DOMAIN target.containers = 1 .. n
             /\ observation["waiting"] = LastReason(waiting)
             /\ observation["terminated"] = LastReason(terminated)
             /\ observation["readinessProbeFailed"] = ReadinessProbeFailed(Held)
             /\ observation["insufficientResources"] =
                  IF target.scheduled = "Unschedulable"
                  THEN "insufficient" \in target.message ELSE Absent
             /\ observation["taintMismatch"] =
                  IF target.scheduled = "Unschedulable"
                  THEN "taint" \in target.message ELSE Absent
<1>1. Held.kind = "Pod" /\ Held.containers = target.containers
      /\ Held.scheduled = target.scheduled /\ Held.message = target.message
  BY HeldPodIs
<1>2. observation = PodObservation(Held)
  BY <1>1 DEF Observe
<1>3. target.containers \in Seq([ready : BOOLEAN, waiting : Reasons, terminated : Reasons])
  BY DEF IsPod
<1>4. Len(target.containers) \in Nat /\ DOMAIN target.containers = 1 .. Len(target.containers)
  BY <1>3
<1> QED BY <1>1, <1>2, <1>4, PodObservationIs

(* The events that the inventory holds of a Pod.                           *)
LEMMA HeldEventsAre ==
  ASSUME target.kind = "Pod", IsPod(target)
  PROVE  /\ Len(Held.events) \in Nat /\ DOMAIN Held.events = 1 .. Len(Held.events)
         /\ \A i \in DOMAIN Held.events :
              /\ Held.events[i].own \in BOOLEAN /\ Held.events[i].readiness \in BOOLEAN
              /\ Held.events[i].unhealthy \in BOOLEAN
         /\ "Event" \in unfollowed => DOMAIN Held.events = {}
         /\ "Event" \notin unfollowed => Held.events = target.events
<1>1. Held.events = IF "Event" \in unfollowed THEN <<>> ELSE target.events
  BY HeldPodIs
<1>2. target.events \in Seq([own : BOOLEAN, readiness : BOOLEAN, unhealthy : BOOLEAN])
  BY DEF IsPod
<1>3. CASE "Event" \in unfollowed
  <2>1. Held.events = <<>>
    BY <1>1, <1>3
  <2> QED BY <1>3, <2>1
<1>4. CASE "Event" \notin unfollowed
  <2>1. Held.events = target.events
    BY <1>1, <1>4
  <2> DEFINE events == target.events
             Event == [own : BOOLEAN, readiness : BOOLEAN, unhealthy : BOOLEAN]
  <2>2. events \in Seq(Event)
    BY <1>2
  <2>3. \A e \in Event :
          e.own \in BOOLEAN /\ e.readiness \in BOOLEAN /\ e.unhealthy \in BOOLEAN
    OBVIOUS
  <2> HIDE DEF events, Event
  <2>4. /\ Len(events) \in Nat /\ DOMAIN events = 1 .. Len(events)
        /\ \A i \in 1 .. Len(events) : events[i] \in Event
    BY <2>2
  <2>5. Held.events = events
    BY <2>1 DEF events
  <2> QED BY <1>4, <2>1, <2>3, <2>4, <2>5
<1> QED BY <1>3, <1>4

-----------------------------------------------------------------------------
(* The observation of the other kinds.                                     *)

LEMMA HeldServiceIs ==
  ASSUME target.kind = "Service", IsService(target)
  PROVE  /\ Held.kind = "Service" /\ Held.external = target.external
         /\ Held.cluster.service = target.cluster.service
         /\ Held.cluster.pods = IF "Pod" \in unfollowed THEN <<>> ELSE target.cluster.pods
         /\ Held.cluster.slices =
              IF "EndpointSlice" \in unfollowed THEN {} ELSE target.cluster.slices
<1>1. /\ target = [kind |-> "Service", external |-> target.external, cluster |-> target.cluster]
      /\ target.cluster = [service |-> target.cluster.service, pods |-> target.cluster.pods,
                           slices |-> target.cluster.slices, policy |-> target.cluster.policy]
  BY DEF IsService
<1>2. Held = [target EXCEPT
                !.cluster.pods = IF "Pod" \in unfollowed THEN <<>> ELSE @,
                !.cluster.slices = IF "EndpointSlice" \in unfollowed THEN {} ELSE @]
  BY DEF Held, Collected
<1> QED BY <1>1, <1>2

LEMMA ServiceFacts ==
  ASSUME observation = Observe(Held), target.kind = "Service", IsService(target)
  PROVE  /\ observation["selectorMatches"] = (Backends(Held.cluster) # {})
         /\ observation["readyEndpoints"] = SomeReady(Held.cluster)
         /\ observation["targetPortMatches"] = TargetPortMatches(Held.cluster)
<1>1. Held.kind = "Service"
  BY HeldServiceIs
<1> DEFINE o == ServiceObservation(Held.cluster)
<1>2. observation = [f \in Facts |-> IF f \in DOMAIN o THEN o[f] ELSE Absent]
  BY <1>1 DEF Observe
<1>3. /\ DOMAIN o = {"selectorMatches", "readyEndpoints", "targetPortMatches"}
      /\ o["selectorMatches"] = (Backends(Held.cluster) # {})
      /\ o["readyEndpoints"] = SomeReady(Held.cluster)
      /\ o["targetPortMatches"] = TargetPortMatches(Held.cluster)
  BY DEF ServiceObservation
<1> HIDE DEF o
<1>4. {"selectorMatches", "readyEndpoints", "targetPortMatches"} \subseteq Facts
  BY DEF Facts
<1>5. \A f \in {"selectorMatches", "readyEndpoints", "targetPortMatches"} : observation[f] = o[f]
  BY <1>2, <1>3, <1>4
<1> QED BY <1>3, <1>5

(* The Pods that the Service selects are those of the cluster, or none     *)
(* when the inventory does not follow Pods.                                *)
LEMMA HeldBackendsAre ==
  ASSUME target.kind = "Service", IsService(target)
  PROVE  /\ "Pod" \in unfollowed => Backends(Held.cluster) = {}
         /\ "Pod" \notin unfollowed =>
              /\ Held.cluster.pods = target.cluster.pods
              /\ Backends(Held.cluster) = Backends(target.cluster)
<1>1. CASE "Pod" \in unfollowed
  <2>1. Held.cluster.pods = <<>>
    BY <1>1, HeldServiceIs
  <2>2. DOMAIN Held.cluster.pods = {}
    BY <2>1
  <2> QED BY <1>1, <2>2 DEF Backends
<1>2. CASE "Pod" \notin unfollowed
  <2>1. Held.cluster.pods = target.cluster.pods /\ Held.cluster.service = target.cluster.service
    BY <1>2, HeldServiceIs
  <2> QED BY <1>2, <2>1 DEF Backends
<1> QED BY <1>1, <1>2

LEMMA HeldOthersAre ==
  ASSUME target.kind \notin {"Pod", "Service"}
  PROVE  Held = target
BY DEF Held, Collected

LEMMA ClaimAndNodeFacts ==
  ASSUME observation = Observe(Held)
  PROVE  /\ target.kind = "PersistentVolumeClaim" => observation["pvcPhase"] = target.phase
         /\ target.kind = "Node" => observation["nodeReady"] = target.ready
<1>1. CASE target.kind = "PersistentVolumeClaim"
  <2>1. Held = target
    BY <1>1, HeldOthersAre
  <2>2. observation = [Unobserved EXCEPT !.pvcPhase = target.phase]
    BY <1>1, <2>1 DEF Observe
  <2> QED BY <1>1, <2>2 DEF Unobserved, Facts
<1>2. CASE target.kind = "Node"
  <2>1. Held = target
    BY <1>2, HeldOthersAre
  <2>2. observation = [Unobserved EXCEPT !.nodeReady = target.ready]
    BY <1>2, <2>1 DEF Observe
  <2> QED BY <1>2, <2>2 DEF Unobserved, Facts
<1> QED BY <1>1, <1>2

-----------------------------------------------------------------------------
(* The rules that a list of the report names, one kind after the other.    *)

LEMMA InRoleIs ==
  ASSUME NEW role, NEW id \in InRole(role)
  PROVE  \E k \in 1 .. 13 : /\ id = Catalog[k].id /\ Catalog[k].kind = target.kind
                            /\ Role(Catalog[k], observation) = role
BY DEF InRole

LEMMA RoleIs ==
  ASSUME NEW rule, NEW o
  PROVE  /\ Role(rule, o) = "missing" <=> o[rule.fact] = Absent
         /\ Role(rule, o) = "supporting" => o[rule.fact] # Absent /\ o[rule.fact] = rule.value
         /\ Role(rule, o) = "contradicting" => o[rule.fact] # Absent /\ o[rule.fact] # rule.value
BY DEF Role

(* A Pod, a Service, a claim and a Node are what TargetsAssumption says.   *)
LEMMA TargetIs ==
  ASSUME target \in Targets
  PROVE  /\ target.kind = "Pod" => IsPod(target)
         /\ target.kind = "Service" => IsService(target)
         /\ Absent \notin BOOLEAN \union Phases \union FaultReasons
<1>1. IsResource(target) /\ Absent \notin BOOLEAN \union Phases \union FaultReasons
  BY TargetsAssumption
<1>2. ASSUME target.kind = "Pod" PROVE IsPod(target)
  BY <1>1, <1>2 DEF IsResource, Workloads
<1>3. ASSUME target.kind = "Service" PROVE IsService(target)
  BY <1>1, <1>3 DEF IsResource, Workloads
<1> QED BY <1>1, <1>2, <1>3

-----------------------------------------------------------------------------
(* Missing data.                                                           *)

(* A Pod nothing is reported of has no container that works; a Service     *)
(* without endpoints has none that is ready.                               *)
LEMMA UnreportedPodOrService ==
  ASSUME target \in Targets, target.kind \in {"Pod", "Service"}, Unreported
  PROVE  State(Held) # "healthy"
<1>1. CASE target.kind = "Pod"
  <2>1. target.phase = Absent /\ target.containers = <<>>
    BY <1>1 DEF Unreported, Workloads
  <2>2. Held.kind = "Pod" /\ Held.phase = Absent /\ Held.containers = <<>>
    BY <1>1, <2>1, TargetIs, HeldPodIs
  <2>3. Absent # "Succeeded" /\ Absent # "Running"
    BY TargetIs DEF Phases
  <2>4. ~Works(Held)
    BY <2>2, <2>3 DEF Works
  <2>5. State(Held) = PodState(Held)
    BY <2>2 DEF State, Workloads
  <2> QED BY <2>4, <2>5 DEF PodState
<1>2. CASE target.kind = "Service"
  <2>1. ~target.external /\ Endpoints(Held.cluster) = {}
    BY <1>2 DEF Unreported, Workloads
  <2>2. Held.kind = "Service" /\ ~Held.external
    BY <1>2, <2>1, TargetIs, HeldServiceIs
  <2>3. State(Held) = SliceState({})
    BY <2>1, <2>2 DEF State, ServiceState, Workloads
  <2> QED BY <2>3 DEF SliceState, CountsReady
<1> QED BY <1>1, <1>2

(* Of the other kinds but one, by what a controller would have written.    *)
LEMMA UnreportedIsNotHealthy ==
  ASSUME target \in Targets, Unreported, target.kind # "PodDisruptionBudget"
  PROVE  State(Held) # "healthy"
<1>1. CASE target.kind \in {"Pod", "Service"}
  BY <1>1, UnreportedPodOrService
<1>2. CASE target.kind \notin {"Pod", "Service"}
  <2>1. Held = target
    BY <1>2, HeldOthersAre
  <2>2. IsResource(target) /\ Absent \notin BOOLEAN \union Phases
    BY TargetsAssumption
  <2>3. CASE target.kind = "EndpointSlice"
    <3>1. target.endpoints = {}
      BY <2>3 DEF Unreported, Workloads
    <3> QED BY <2>1, <2>3, <3>1 DEF State, SliceState, CountsReady,
                                                 Workloads
  <2>4. CASE target.kind \in {"PersistentVolumeClaim", "PersistentVolume", "Namespace"}
    <3>1. target.phase = Absent
      BY <2>4 DEF Unreported, Workloads
    <3>2. Absent \notin {"Bound", "Lost", "Available", "Failed", "Active", "Terminating"}
      BY <2>2 DEF Phases
    <3> QED BY <2>1, <2>4, <3>1, <3>2 DEF State, ClaimState, VolumeState,
                                                       NamespaceState, Workloads
  <2>5. CASE target.kind = "Node"
    <3>1. target.ready = Absent
      BY <2>5 DEF Unreported, Workloads
    <3>2. Absent # TRUE /\ Absent # FALSE
      BY <2>2
    <3> QED BY <2>1, <2>5, <3>1, <3>2 DEF State, NodeState, Workloads
  <2>6. CASE target.kind \in Workloads
    <3>1. target.available = 0 /\ target.desired > 0
      BY <2>6 DEF Unreported, Workloads
    <3>2. target.desired \in Nat /\ target.available \in Nat
      BY <2>2, <2>6 DEF IsResource, Workloads
    <3>3. State(Held) = ReplicasState(target.desired, 0)
      BY <2>1, <2>6, <3>1 DEF State, Workloads
    <3>4. ~(0 >= target.desired)
      BY <3>1, <3>2
    <3> QED BY <3>3, <3>4 DEF ReplicasState
  <2>7. CASE target.kind = "DaemonSet"
    <3>1. target.available = 0
      BY <2>7 DEF Unreported, Workloads
    <3>2. target.desired \in Nat
      BY <2>2, <2>7 DEF IsResource, Workloads
    <3>3. State(Held) = DaemonSetState(target.desired, 0)
      BY <2>1, <2>7, <3>1 DEF State, Workloads
    <3>4. ~(target.desired > 0 /\ 0 >= target.desired)
      BY <3>2
    <3> QED BY <3>3, <3>4 DEF DaemonSetState
  <2>8. CASE target.kind = "Job"
    <3>1. target.succeeded = 0
      BY <2>8 DEF Unreported, Workloads
    <3>2. target.completions \in Nat
      BY <2>2, <2>8 DEF IsResource, Workloads
    <3>3. State(Held) = JobState(target)
      BY <2>1, <2>8 DEF State, Workloads
    <3>4. ~(0 >= (IF target.completions = 0 THEN 1 ELSE target.completions))
      BY <3>2
    <3> QED BY <3>1, <3>3, <3>4 DEF JobState
  <2>9. CASE target.kind = "Ingress"
    <3>1. ~target.address
      BY <2>9 DEF Unreported, Workloads
    <3> QED BY <2>1, <2>9, <3>1 DEF State, IngressState, Workloads
  <2>10. CASE target.kind = "HorizontalPodAutoscaler"
    <3>1. target.conditions = {} /\ target.available = 0
      BY <2>10 DEF Unreported, Workloads
    <3>2. State(Held) = AutoscalerState(target)
      BY <2>1, <2>10 DEF State, Workloads
    <3> QED BY <3>1, <3>2 DEF AutoscalerState, ConditionsState
  <2>12. CASE target.kind = "Other"
    <3>1. target.conditions = {}
      BY <2>12 DEF Unreported, Workloads
    <3>2. State(Held) = ConditionsState(target.conditions, "unknown")
      BY <2>1, <2>12 DEF State, Workloads
    <3> QED BY <3>1, <3>2 DEF ConditionsState
  <2> QED BY <1>2, <2>3, <2>4, <2>5, <2>6, <2>7, <2>8, <2>9, <2>10, <2>12
          DEF Unreported, Workloads
<1> QED BY <1>1, <1>2

(* A fact about which the objects are silent is not observed.              *)
LEMMA SilentIsMissing ==
  ASSUME RunInv, Reported, NEW k \in 1 .. 13, Catalog[k].kind = target.kind,
         Silent(Catalog[k].id)
  PROVE  observation[Catalog[k].fact] = Absent
<1> DEFINE id == Catalog[k].id
<1>1. target \in Targets /\ observation = Observe(Held)
  BY ReportIs
<1>2. Silent(id)
  OBVIOUS
<1>3. CASE k \in {1, 3, 4, 5}
  <2>1. /\ target.kind = "Pod" /\ Catalog[k].fact = "waiting"
        /\ id \in {"POD-CRASHLOOP", "POD-IMAGEPULLBACKOFF", "POD-ERRIMAGEPULL", "POD-CONFIG"}
    BY <1>3, RulesAre
  <2>2. IsPod(target) /\ Held.containers = target.containers
    BY <1>1, <2>1, TargetIs, HeldPodIs
  <2>3. \A i \in DOMAIN target.containers : target.containers[i].waiting = Absent
    BY <1>2, <2>1, <2>2 DEF Silent
  <2> DEFINE n == Len(target.containers)
             waiting == [i \in 1 .. n |-> target.containers[i].waiting]
  <2>4. n \in Nat /\ DOMAIN target.containers = 1 .. n
        /\ observation["waiting"] = LastReason(waiting)
    BY <1>1, <2>1, <2>2, PodFacts
  <2>5. DOMAIN waiting = 1 .. n /\ \A i \in 1 .. n : waiting[i] = Absent
    BY <2>3, <2>4
  <2> HIDE DEF n, waiting
  <2>6. LastReason(waiting) = Absent
    BY <2>4, <2>5, LastReasonIs
  <2> QED BY <2>1, <2>4, <2>6
<1>4. CASE k = 2
  <2>1. target.kind = "Pod" /\ Catalog[k].fact = "terminated" /\ id = "POD-OOMKILLED"
    BY <1>4, RulesAre
  <2>2. IsPod(target) /\ Held.containers = target.containers
    BY <1>1, <2>1, TargetIs, HeldPodIs
  <2>3. \A i \in DOMAIN target.containers : target.containers[i].terminated = Absent
    BY <1>2, <2>1, <2>2 DEF Silent
  <2> DEFINE n == Len(target.containers)
             terminated == [i \in 1 .. n |-> target.containers[i].terminated]
  <2>4. n \in Nat /\ DOMAIN target.containers = 1 .. n
        /\ observation["terminated"] = LastReason(terminated)
    BY <1>1, <2>1, <2>2, PodFacts
  <2>5. DOMAIN terminated = 1 .. n /\ \A i \in 1 .. n : terminated[i] = Absent
    BY <2>3, <2>4
  <2> HIDE DEF n, terminated
  <2>6. LastReason(terminated) = Absent
    BY <2>4, <2>5, LastReasonIs
  <2> QED BY <2>1, <2>4, <2>6
<1>5. CASE k = 6
  <2>1. target.kind = "Pod" /\ Catalog[k].fact = "readinessProbeFailed" /\ id = "POD-READINESS"
    BY <1>5, RulesAre
  <2>2. IsPod(target)
    BY <1>1, <2>1, TargetIs
  <2>3. /\ Held.ready # TRUE
        /\ \A i \in DOMAIN Held.events : ~(Held.events[i].own /\ Held.events[i].readiness)
    BY <1>2, <2>1 DEF Silent
  <2>4. Len(Held.events) \in Nat /\ DOMAIN Held.events = 1 .. Len(Held.events)
    BY <2>1, <2>2, HeldEventsAre
  <2>5. ReadinessProbeFailed(Held) = Absent
    BY <2>3, <2>4, ReadinessIs
  <2>6. observation["readinessProbeFailed"] = ReadinessProbeFailed(Held)
    BY <1>1, <2>1, <2>2, PodFacts
  <2> QED BY <2>1, <2>5, <2>6
<1>6. CASE k \in {10, 11}
  <2>1. /\ target.kind = "Pod" /\ id \in {"SCHED-RESOURCES", "SCHED-TAINT"}
        /\ Catalog[k].fact \in {"insufficientResources", "taintMismatch"}
    BY <1>6, RulesAre
  <2>2. IsPod(target) /\ Held.scheduled = target.scheduled
    BY <1>1, <2>1, TargetIs, HeldPodIs
  <2>3. target.scheduled # "Unschedulable"
    BY <1>2, <2>1, <2>2 DEF Silent
  <2>4. /\ observation["insufficientResources"] = Absent
        /\ observation["taintMismatch"] = Absent
    BY <1>1, <2>1, <2>2, <2>3, PodFacts
  <2> QED BY <2>1, <2>4
<1>7. CASE k \in {7, 8}
  <2>1. id \in {"SVC-SELECTOR", "SVC-ENDPOINT"}
    BY <1>7, RulesAre
  <2> QED BY <1>2, <2>1 DEF Silent
<1>8. CASE k = 9
  <2>1. /\ target.kind = "Service" /\ id = "SVC-TARGETPORT"
        /\ Catalog[k].fact = "targetPortMatches"
    BY <1>8, RulesAre
  <2>2. Backends(Held.cluster) = {}
    BY <1>2, <2>1 DEF Silent
  <2>3. observation["targetPortMatches"] = TargetPortMatches(Held.cluster)
    BY <1>1, <2>1, TargetIs, ServiceFacts
  <2> QED BY <2>1, <2>2, <2>3 DEF TargetPortMatches
<1>9. CASE k \in {12, 13}
  <2>1. \/ /\ target.kind = "PersistentVolumeClaim" /\ id = "PVC-PENDING"
           /\ Catalog[k].fact = "pvcPhase"
        \/ /\ target.kind = "Node" /\ id = "NODE-NOTREADY"
           /\ Catalog[k].fact = "nodeReady"
    BY <1>9, RulesAre
  <2>2. Held = target
    BY <2>1, HeldOthersAre
  <2> QED BY <1>1, <1>2, <2>1, <2>2, ClaimAndNodeFacts DEF Silent
<1> QED BY <1>3, <1>4, <1>5, <1>6, <1>7, <1>8, <1>9

(* Missing data is never presented as healthy, nor as confirmed: in no     *)
(* check of a report, in no verdict "no issue", and in no list for any     *)
(* resource of any kind but one, the PodDisruptionBudget without a status. *)
THEOREM MissingDataIsNotHealthy == Spec => []MissingIsNeverHealthy
<1>1. ASSUME RunInv, Reported, NEW id \in report.healthy \union report.confirmed
      PROVE  ~Silent(id)
  <2>1. PICK k \in 1 .. 13 : /\ id = Catalog[k].id /\ Catalog[k].kind = target.kind
                             /\ Role(Catalog[k], observation) # "missing"
    BY <1>1, ReportIs, InRoleIs
  <2>2. observation[Catalog[k].fact] # Absent
    BY <2>1, RoleIs
  <2> QED BY <1>1, <2>1, <2>2, SilentIsMissing
<1>2. ASSUME RunInv
      PROVE  MissingIsNeverHealthy
  <2>1. Unreported => State(Held) # "healthy" \/ target.kind = "PodDisruptionBudget"
    BY <1>2, UnreportedIsNotHealthy DEF RunInv, TargetInv
  <2> QED BY <1>1, <1>2, <2>1, NoIssueIs DEF MissingIsNeverHealthy
<1> QED BY <1>2, RunInvHolds, PTL

-----------------------------------------------------------------------------
(* What is confirmed.                                                      *)

LEMMA ReadingsAre ==
  ASSUME observation = Observe(Held), target.kind = "Pod", IsPod(target),
         NEW value \in FaultReasons
  PROVE  LET n == Len(target.containers)
             Waits(i) == target.containers[i].waiting
             Ended(i) == target.containers[i].terminated
         IN  /\ n \in Nat /\ DOMAIN target.containers = 1 .. n
             /\ observation["waiting"] = Absent => \A i \in 1 .. n : Waits(i) = Absent
             /\ n = 0 => observation["waiting"] = Absent
             /\ observation["waiting"] = value => \E i \in 1 .. n : Waits(i) = value
             /\ observation["waiting"] \notin {Absent, value} =>
                  \A i \in 1 .. n : Waits(i) = value =>
                    \E j \in 1 .. n : i < j /\ Waits(j) \notin {Absent, value}
             /\ observation["terminated"] = value => \E i \in 1 .. n : Ended(i) = value
             /\ observation["terminated"] \notin {Absent, value} =>
                  \A i \in 1 .. n : Ended(i) = value =>
                    \E j \in 1 .. n : i < j /\ Ended(j) \notin {Absent, value}
<1> DEFINE n == Len(target.containers)
           waiting == [i \in 1 .. n |-> target.containers[i].waiting]
           terminated == [i \in 1 .. n |-> target.containers[i].terminated]
<1>1. /\ n \in Nat /\ DOMAIN target.containers = 1 .. n
      /\ observation["waiting"] = LastReason(waiting)
      /\ observation["terminated"] = LastReason(terminated)
  BY PodFacts
<1>2. /\ DOMAIN waiting = 1 .. n /\ DOMAIN terminated = 1 .. n
      /\ \A i \in 1 .. n : /\ waiting[i] = target.containers[i].waiting
                           /\ terminated[i] = target.containers[i].terminated
  OBVIOUS
<1>3. value # Absent
  BY TargetsAssumption
<1> HIDE DEF waiting, terminated, n
<1>4. /\ LastReason(waiting) = Absent <=> \A i \in 1 .. n : waiting[i] = Absent
      /\ LastReason(waiting) = value => \E i \in 1 .. n : waiting[i] = value
      /\ LastReason(waiting) \notin {Absent, value} =>
           \A i \in 1 .. n : waiting[i] = value =>
             \E j \in 1 .. n : i < j /\ waiting[j] \notin {Absent, value}
  BY <1>1, <1>2, <1>3, ReasonReading
<1>5. /\ LastReason(terminated) = Absent <=> \A i \in 1 .. n : terminated[i] = Absent
      /\ LastReason(terminated) = value => \E i \in 1 .. n : terminated[i] = value
      /\ LastReason(terminated) \notin {Absent, value} =>
           \A i \in 1 .. n : terminated[i] = value =>
             \E j \in 1 .. n : i < j /\ terminated[j] \notin {Absent, value}
  BY <1>1, <1>2, <1>3, ReasonReading
<1>6. n = 0 => \A i \in 1 .. n : FALSE
  OBVIOUS
<1>7. n = 0 => LastReason(waiting) = Absent
  BY <1>4, <1>6
<1> DEFINE w == observation["waiting"]
           e == observation["terminated"]
<1>8. w = LastReason(waiting) /\ e = LastReason(terminated)
  BY <1>1
<1> HIDE DEF w, e
<1>9. /\ w = Absent => \A i \in 1 .. n : target.containers[i].waiting = Absent
      /\ n = 0 => w = Absent
      /\ w = value => \E i \in 1 .. n : target.containers[i].waiting = value
  BY <1>2, <1>4, <1>7, <1>8
<1>10. ASSUME w \notin {Absent, value},
              NEW i \in 1 .. n, target.containers[i].waiting = value
       PROVE  \E j \in 1 .. n : i < j /\ target.containers[j].waiting \notin {Absent, value}
  BY <1>2, <1>4, <1>8, <1>10
<1>11. e = value => \E i \in 1 .. n : target.containers[i].terminated = value
  BY <1>2, <1>5, <1>8
<1>12. ASSUME e \notin {Absent, value},
              NEW i \in 1 .. n, target.containers[i].terminated = value
       PROVE  \E j \in 1 .. n : i < j /\ target.containers[j].terminated \notin {Absent, value}
  BY <1>2, <1>5, <1>8, <1>12
<1> QED BY <1>1, <1>9, <1>10, <1>11, <1>12 DEF n, w, e

(* Every rule of a Pod by what it reads.                                   *)
LEMMA PodRulesAre ==
  ASSUME NEW k \in 1 .. 13, Catalog[k].kind = "Pod"
  PROVE  \/ /\ k \in {1, 3, 4, 5} /\ Catalog[k].fact = "waiting"
            /\ Catalog[k].value \in FaultReasons
         \/ /\ k = 2 /\ Catalog[k].fact = "terminated" /\ Catalog[k].value = "OOMKilled"
         \/ /\ k = 6 /\ Catalog[k].fact = "readinessProbeFailed" /\ Catalog[k].value = TRUE
         \/ /\ k = 10 /\ Catalog[k].fact = "insufficientResources" /\ Catalog[k].value = TRUE
         \/ /\ k = 11 /\ Catalog[k].fact = "taintMismatch" /\ Catalog[k].value = TRUE
BY RulesAre DEF FaultReasons

(* The fault of a rule about waiting or about the last run is that some    *)
(* container has its reason.                                               *)
LEMMA FaultsAre ==
  ASSUME NEW pod
  PROVE  /\ \A k \in {1, 3, 4, 5} : HasFault(pod, Catalog[k].id) <=>
              \E i \in DOMAIN pod.containers : pod.containers[i].waiting = Catalog[k].value
         /\ HasFault(pod, Catalog[2].id) <=>
              \E i \in DOMAIN pod.containers : pod.containers[i].terminated = "OOMKilled"
         /\ HasFault(pod, Catalog[6].id) <=>
              \E i \in DOMAIN pod.events :
                pod.events[i].own /\ pod.events[i].readiness /\ pod.events[i].unhealthy
         /\ HasFault(pod, Catalog[10].id) <=>
              pod.scheduled = "Unschedulable" /\ "insufficient" \in pod.message
         /\ HasFault(pod, Catalog[11].id) <=>
              pod.scheduled = "Unschedulable" /\ "taint" \in pod.message
<1>1. ASSUME NEW k \in {1, 3, 4, 5}
      PROVE  HasFault(pod, Catalog[k].id) <=>
               \E i \in DOMAIN pod.containers : pod.containers[i].waiting = Catalog[k].value
  <2>1. \/ Catalog[k].id = "POD-CRASHLOOP" /\ Catalog[k].value = "CrashLoopBackOff"
        \/ Catalog[k].id = "POD-IMAGEPULLBACKOFF" /\ Catalog[k].value = "ImagePullBackOff"
        \/ Catalog[k].id = "POD-ERRIMAGEPULL" /\ Catalog[k].value = "ErrImagePull"
        \/ Catalog[k].id = "POD-CONFIG" /\ Catalog[k].value = "CreateContainerConfigError"
    BY RulesAre
  <2> QED BY <2>1 DEF HasFault
<1>2. HasFault(pod, Catalog[2].id) <=>
        \E i \in DOMAIN pod.containers : pod.containers[i].terminated = "OOMKilled"
  BY RulesAre DEF HasFault
<1>3. HasFault(pod, Catalog[6].id) <=>
        \E i \in DOMAIN pod.events :
          pod.events[i].own /\ pod.events[i].readiness /\ pod.events[i].unhealthy
  BY RulesAre DEF HasFault
<1>4. /\ HasFault(pod, Catalog[10].id) <=>
           pod.scheduled = "Unschedulable" /\ "insufficient" \in pod.message
      /\ HasFault(pod, Catalog[11].id) <=>
           pod.scheduled = "Unschedulable" /\ "taint" \in pod.message
  BY RulesAre DEF HasFault
<1> QED BY <1>1, <1>2, <1>3, <1>4

(* What a Pod is reported to have, it has.                                 *)
LEMMA SupportedPodShows ==
  ASSUME observation = Observe(Held), target \in Targets, target.kind = "Pod",
         NEW k \in 1 .. 13, Catalog[k].kind = "Pod",
         observation[Catalog[k].fact] # Absent,
         observation[Catalog[k].fact] = Catalog[k].value
  PROVE  HasFault(target, Catalog[k].id)
<1> DEFINE value == Catalog[k].value
           fact == Catalog[k].fact
<1>1. IsPod(target) /\ "OOMKilled" \in FaultReasons
  BY TargetIs DEF FaultReasons
<1>2. observation[fact] = value /\ observation[fact] # Absent
  OBVIOUS
<1>3. CASE k \in {1, 3, 4, 5}
  <2>1. fact = "waiting" /\ value \in FaultReasons
    BY <1>3, PodRulesAre
  <2>2. \E i \in DOMAIN target.containers : target.containers[i].waiting = value
    BY <1>1, <1>2, <2>1, ReadingsAre
  <2> QED BY <1>3, <2>2, FaultsAre
<1>4. CASE k = 2
  <2>1. observation["terminated"] = "OOMKilled"
    BY <1>2, <1>4, PodRulesAre
  <2>2. \E i \in DOMAIN target.containers : target.containers[i].terminated = "OOMKilled"
    BY <1>1, <2>1, ReadingsAre
  <2> QED BY <1>4, <2>2, FaultsAre
<1>5. CASE k = 6
  <2>1. observation["readinessProbeFailed"] = TRUE
    <3>1. fact = "readinessProbeFailed" /\ value = TRUE
      BY <1>5, RulesAre
    <3> HIDE DEF fact, value
    <3> QED BY <1>2, <3>1
  <2>2. ReadinessProbeFailed(Held) = TRUE
    BY <1>1, <2>1, PodFacts
  <2>3. Len(Held.events) \in Nat /\ DOMAIN Held.events = 1 .. Len(Held.events)
    BY <1>1, HeldEventsAre
  <2>4. PICK i \in DOMAIN Held.events : /\ Held.events[i].own /\ Held.events[i].readiness
                                        /\ Held.events[i].unhealthy = TRUE
    <3>1. Absent # TRUE
      BY TargetsAssumption
    <3> QED BY <2>2, <2>3, <3>1, ReadinessIs
  <2>5. Held.events = target.events
    BY <1>1, <2>4, HeldEventsAre
  <2> QED BY <1>5, <2>4, <2>5, FaultsAre
<1>6. CASE k = 10
  <2>1. observation["insufficientResources"] # Absent /\ observation["insufficientResources"] = TRUE
    <3>1. fact = "insufficientResources" /\ value = TRUE
      BY <1>6, RulesAre
    <3> HIDE DEF fact, value
    <3> QED BY <1>2, <3>1
  <2>2. target.scheduled = "Unschedulable" /\ "insufficient" \in target.message
    BY <1>1, <2>1, PodFacts
  <2> QED BY <1>6, <2>2, FaultsAre
<1>7. CASE k = 11
  <2>1. observation["taintMismatch"] # Absent /\ observation["taintMismatch"] = TRUE
    <3>1. fact = "taintMismatch" /\ value = TRUE
      BY <1>7, RulesAre
    <3> HIDE DEF fact, value
    <3> QED BY <1>2, <3>1
  <2>2. target.scheduled = "Unschedulable" /\ "taint" \in target.message
    BY <1>1, <2>1, PodFacts
  <2> QED BY <1>7, <2>2, FaultsAre
<1> QED BY <1>3, <1>4, <1>5, <1>6, <1>7, PodRulesAre

(* What a Service is reported to have, it has, unless the inventory does   *)
(* not follow the kind.                                                    *)
LEMMA SupportedServiceShows ==
  ASSUME observation = Observe(Held), target \in Targets, target.kind = "Service",
         NEW k \in 7 .. 9,
         observation[Catalog[k].fact] # Absent,
         observation[Catalog[k].fact] = Catalog[k].value
  PROVE  \/ Shows(Catalog[k].id)
         \/ Catalog[k].id = "SVC-SELECTOR" /\ "Pod" \in unfollowed
         \/ Catalog[k].id = "SVC-ENDPOINT" /\ "EndpointSlice" \in unfollowed
<1> DEFINE value == Catalog[k].value
           fact == Catalog[k].fact
           id == Catalog[k].id
<1>1. IsService(target) /\ Absent \notin BOOLEAN
  BY TargetIs
<1>2. observation[fact] = value /\ observation[fact] # Absent
  OBVIOUS
<1>3. CASE k = 7
  <2>1. fact = "selectorMatches" /\ value = FALSE /\ id = "SVC-SELECTOR"
    BY <1>3, RulesAre
  <2>2. CASE "Pod" \notin unfollowed
    <3>1. observation["selectorMatches"] = FALSE
      <4> HIDE DEF fact, value
      <4> QED BY <1>2, <2>1
    <3>2. Backends(target.cluster) = {}
      BY <1>1, <2>2, <3>1, ServiceFacts, HeldBackendsAre
    <3>3. ASSUME NEW p \in DOMAIN target.cluster.pods
          PROVE  ~LabelsMatch(target.cluster.service.selector, target.cluster.pods[p].labels)
      BY <3>2 DEF Backends
    <3>4. Shows(id)
      BY <2>1, <3>3 DEF Shows, LabelsMatch
    <3> QED BY <3>4
  <2> QED BY <2>1, <2>2
<1>4. CASE k = 8
  <2>1. fact = "readyEndpoints" /\ value = FALSE /\ id = "SVC-ENDPOINT"
    BY <1>4, RulesAre
  <2>2. CASE "EndpointSlice" \notin unfollowed
    <3>1. observation["readyEndpoints"] = FALSE
      <4> HIDE DEF fact, value
      <4> QED BY <1>2, <2>1
    <3>2. Held.cluster.slices = target.cluster.slices
      BY <1>1, <2>2, HeldServiceIs
    <3>3. ~SomeReady(Held.cluster)
      BY <1>1, <3>1, ServiceFacts
    <3>4. \A slice \in target.cluster.slices : slice.own => TRUE \notin slice.endpoints
      BY <3>2, <3>3 DEF SomeReady
    <3>5. Shows(id)
      BY <2>1, <3>4 DEF Shows
    <3> QED BY <3>5
  <2> QED BY <2>1, <2>2
<1>5. CASE k = 9
  <2>1. fact = "targetPortMatches" /\ value = FALSE /\ id = "SVC-TARGETPORT"
    BY <1>5, RulesAre
  <2>2. observation["targetPortMatches"] # Absent /\ observation["targetPortMatches"] = FALSE
    <3> HIDE DEF fact, value
    <3> QED BY <1>2, <2>1
  <2>3. /\ TargetPortMatches(Held.cluster) # Absent
        /\ TargetPortMatches(Held.cluster) = FALSE
    BY <1>1, <2>2, ServiceFacts
  <2>4. /\ Backends(Held.cluster) # {}
        /\ \E i \in DOMAIN Held.cluster.service.ports, p \in Backends(Held.cluster) :
             ~PodDeclaresPort(Held.cluster.pods[p], TargetOf(Held.cluster.service.ports[i]))
    BY <2>3 DEF TargetPortMatches
  <2>5. /\ Held.cluster.pods = target.cluster.pods
        /\ Held.cluster.service = target.cluster.service
        /\ Backends(Held.cluster) = Backends(target.cluster)
    BY <1>1, <2>4, HeldBackendsAre, HeldServiceIs
  <2>6. Shows(id)
    BY <2>1, <2>4, <2>5 DEF Shows
  <2> QED BY <2>6
<1> QED BY <1>3, <1>4, <1>5

(* A Pod whose condition Ready is true is confirmed to fail its readiness  *)
(* probe only by the last of its own events about it.                      *)
LEMMA DeniedByEvents ==
  ASSUME observation = Observe(Held), target \in Targets, target.kind = "Pod",
         NEW k \in 1 .. 13, Catalog[k].kind = "Pod",
         observation[Catalog[k].fact] # Absent,
         observation[Catalog[k].fact] = Catalog[k].value,
         Denied(Catalog[k].id)
  PROVE  EventsEndUnhealthy
<1> DEFINE value == Catalog[k].value
           fact == Catalog[k].fact
           n == Len(Held.events)
           about == {i \in DOMAIN Held.events : Held.events[i].own /\ Held.events[i].readiness}
<1>1. IsPod(target) /\ Absent # TRUE
  BY TargetIs, TargetsAssumption
<1>2. observation["readinessProbeFailed"] = TRUE
  <2>1. k = 6
    BY RulesAre DEF Denied
  <2>2. fact = "readinessProbeFailed" /\ value = TRUE
    BY <2>1, RulesAre
  <2>3. observation[fact] = value
    OBVIOUS
  <2> HIDE DEF fact, value
  <2> QED BY <2>2, <2>3
<1>3. ReadinessProbeFailed(Held) = TRUE
  BY <1>1, <1>2, PodFacts
<1>4. n \in Nat /\ DOMAIN Held.events = 1 .. n
  BY <1>1, HeldEventsAre
<1>5. PICK i \in 1 .. n :
        /\ Held.events[i].own /\ Held.events[i].readiness
        /\ ReadinessProbeFailed(Held) = Held.events[i].unhealthy
        /\ \A j \in 1 .. n : Held.events[j].own /\ Held.events[j].readiness => j <= i
  BY <1>1, <1>3, <1>4, ReadinessIs
<1>6. i \in about /\ \A j \in about : j <= i
  BY <1>4, <1>5
<1>7. Last(about) \in about /\ \A j \in about : j <= Last(about)
  BY <1>6 DEF Last
<1>8. Last(about) = i
  <2> DEFINE last == Last(about)
  <2>1. about \subseteq Nat
    BY <1>4
  <2>2. last \in about /\ i <= last /\ last <= i
    BY <1>6, <1>7
  <2>3. last \in Nat /\ i \in Nat
    BY <1>4, <1>5, <2>1, <2>2
  <2> HIDE DEF about, last
  <2>4. last = i
    BY <2>2, <2>3
  <2> QED BY <2>4 DEF last
<1> QED BY <1>3, <1>5, <1>6, <1>8 DEF EventsEndUnhealthy

(* What a report confirms is there: the objects of the cluster show the    *)
(* fault, and a condition that denies it is outranked by the Pod's last    *)
(* event about its readiness probe only; but for a Service's Pods and      *)
(* EndpointSlices when the inventory does not follow their kind.           *)
THEOREM ConfirmedFaultsAreShown == Spec => []ConfirmedIsShown
<1>1. ASSUME RunInv, Reported, NEW id \in report.confirmed
      PROVE  \/ Shows(id) /\ (Denied(id) => EventsEndUnhealthy)
             \/ id = "SVC-SELECTOR" /\ "Pod" \in unfollowed
             \/ id = "SVC-ENDPOINT" /\ "EndpointSlice" \in unfollowed
  <2>1. target \in Targets /\ observation = Observe(Held)
    BY <1>1, ReportIs
  <2>2. PICK k \in 1 .. 13 : /\ id = Catalog[k].id /\ Catalog[k].kind = target.kind
                             /\ Role(Catalog[k], observation) = "supporting"
    BY <1>1, ReportIs, InRoleIs
  <2>3. observation[Catalog[k].fact] # Absent
        /\ observation[Catalog[k].fact] = Catalog[k].value
    BY <2>2, RoleIs
  <2>4. CASE target.kind = "Pod"
    <3>1. HasFault(target, id)
      BY <2>1, <2>2, <2>3, <2>4, SupportedPodShows
    <3>2. id \notin {"SVC-SELECTOR", "SVC-ENDPOINT", "SVC-TARGETPORT", "PVC-PENDING",
                     "NODE-NOTREADY"}
      BY <2>2, <2>4, RulesAre
    <3>3. Denied(id) => EventsEndUnhealthy
      BY <2>1, <2>2, <2>3, <2>4, DeniedByEvents
    <3> QED BY <2>4, <3>1, <3>2, <3>3 DEF Shows
  <2>5. CASE k \in 7 .. 9
    <3>1. target.kind = "Service"
      BY <2>2, <2>5, RulesAre
    <3>2. ~Denied(id)
      BY <2>2, <2>5, RulesAre DEF Denied
    <3> QED BY <2>1, <2>2, <2>3, <2>5, <3>1, <3>2, SupportedServiceShows
  <2>6. CASE k = 12
    <3>1. /\ target.kind = "PersistentVolumeClaim" /\ id = "PVC-PENDING"
          /\ observation["pvcPhase"] = "Pending"
      BY <2>2, <2>3, <2>6, RulesAre
    <3>2. target.phase = "Pending"
      BY <2>1, <3>1, ClaimAndNodeFacts
    <3> QED BY <3>1, <3>2 DEF Shows, Denied
  <2>7. CASE k = 13
    <3>1. target.kind = "Node" /\ id = "NODE-NOTREADY" /\ observation["nodeReady"] = FALSE
      BY <2>2, <2>3, <2>7, RulesAre
    <3>2. target.ready = FALSE
      BY <2>1, <3>1, ClaimAndNodeFacts
    <3> QED BY <3>1, <3>2 DEF Shows, Denied
  <2> QED BY <2>2, <2>4, <2>5, <2>6, <2>7, RulesAre
<1>2. ASSUME RunInv
      PROVE  ConfirmedIsShown
  BY <1>1, <1>2 DEF ConfirmedIsShown
<1> QED BY <1>2, RunInvHolds, PTL

-----------------------------------------------------------------------------
(* The state in the inventory.                                             *)

(* A Pod that works has no container that waits for a fault and was        *)
(* scheduled.                                                              *)
LEMMA HealthyPodHasNoFault ==
  ASSUME target \in Targets, target.kind = "Pod", State(Held) = "healthy",
         NEW k \in {1, 3, 4, 5, 10, 11}
  PROVE  ~HasFault(target, Catalog[k].id)
<1>1. IsPod(target)
  BY TargetIs
<1>2. /\ Held.kind = "Pod" /\ Held.phase = target.phase /\ Held.containers = target.containers
  BY <1>1, HeldPodIs
<1>3. ~Stuck(Held) /\ Works(Held)
  BY <1>2 DEF State, Workloads, PodState
<1>4. CASE k \in {1, 3, 4, 5}
  <2>1. Catalog[k].value \notin {Absent} \union Starting
    <3>1. Catalog[k].value \in FaultReasons
      BY <1>4, RulesAre DEF FaultReasons
    <3> QED BY <3>1, TargetsAssumption DEF FaultReasons, Starting
  <2>2. ASSUME NEW i \in DOMAIN target.containers
        PROVE  target.containers[i].waiting # Catalog[k].value
    BY <1>2, <1>3, <2>1 DEF Stuck
  <2> QED BY <1>4, <2>2, FaultsAre
<1>5. CASE k \in {10, 11}
  <2>1. target.scheduled # "Unschedulable"
    BY <1>1, <1>2, <1>3 DEF IsPod, Works
  <2> QED BY <1>5, <2>1, FaultsAre
<1> QED BY <1>4, <1>5

(* A Service with an endpoint that is ready for the rules is not critical; *)
(* one without, and healthy, has an endpoint without a condition.          *)
LEMMA ServiceStateIs ==
  ASSUME target \in Targets, target.kind = "Service"
  PROVE  /\ SomeReady(Held.cluster) => State(Held) # "critical"
         /\ State(Held) = "healthy" =>
              \/ target.external
              \/ SomeReady(Held.cluster)
              \/ Absent \in Endpoints(Held.cluster)
<1> DEFINE ends == Endpoints(Held.cluster)
<1>1. IsService(target) /\ Absent \notin BOOLEAN
  BY TargetIs
<1>2. /\ Held.kind = "Service" /\ Held.external = target.external
      /\ Held.cluster.slices = IF "EndpointSlice" \in unfollowed THEN {}
                               ELSE target.cluster.slices
  BY <1>1, HeldServiceIs
<1>3. State(Held) = IF target.external THEN "healthy" ELSE SliceState(ends)
  BY <1>2 DEF State, Workloads, ServiceState
<1>4. SomeReady(Held.cluster) <=> TRUE \in ends
  BY DEF SomeReady, Endpoints
<1>5. ends \subseteq Conditions
  BY <1>1, <1>2 DEF Endpoints, IsService
<1> HIDE DEF ends
<1>6. TRUE \in ends => SliceState(ends) # "critical"
  <2>1. TRUE \in ends => TRUE \in CountsReady(ends)
    BY DEF CountsReady
  <2> QED BY <2>1 DEF SliceState
<1>7. SliceState(ends) = "healthy" => TRUE \in ends \/ Absent \in ends
  <2>1. SliceState(ends) = "healthy" => CountsReady(ends) # {}
    BY DEF SliceState
  <2>2. CountsReady(ends) # {} => \E e \in ends : e # FALSE
    BY DEF CountsReady
  <2> QED BY <1>5, <2>1, <2>2 DEF Conditions
<1> QED BY <1>3, <1>4, <1>6, <1>7 DEF ends

(* "No issue" of a Pod would need that it was not scheduled, for the rules *)
(* about that, and that it has a container, for those about containers.    *)
LEMMA PodsAlwaysHaveIssues ==
  ASSUME RunInv, Reported, target.kind = "Pod"
  PROVE  report.verdict # "NO_ISSUE"
<1> SUFFICES ASSUME report.verdict = "NO_ISSUE" PROVE FALSE
  OBVIOUS
<1>1. target \in Targets /\ observation = Observe(Held) /\ IsPod(target)
  BY ReportIs, TargetIs
<1>2. InRole("contradicting") = RulesOf("Pod")
  BY NoIssueIs, ReportIs
<1>3. ASSUME NEW k \in {1, 10}
      PROVE  observation[Catalog[k].fact] # Absent
  <2>1. Catalog[k].id \in RulesOf("Pod")
    BY RulesAre, CatalogIs DEF RulesOf
  <2>2. PICK l \in 1 .. 13 : /\ Catalog[k].id = Catalog[l].id
                             /\ Role(Catalog[l], observation) = "contradicting"
    BY <1>2, <2>1, InRoleIs
  <2>3. l = k
    BY <2>2, IdsAreUnique
  <2> QED BY <2>2, <2>3, RoleIs
<1>4. observation["waiting"] # Absent /\ observation["insufficientResources"] # Absent
  BY <1>3, RulesAre
<1>5. target.containers = <<>>
  BY <1>1, <1>4, PodFacts DEF IsPod
<1>6. Len(target.containers) = 0
  BY <1>5
<1>7. "OOMKilled" \in FaultReasons
  BY DEF FaultReasons
<1> QED BY <1>1, <1>4, <1>6, <1>7, ReadingsAre

(* The report and the state in the inventory contradict each other only    *)
(* where the two look at different things.                                 *)
THEOREM ReportsAgreeWithInventory == Spec => []AgreesWithInventory
<1>1. ASSUME RunInv, Reported, State(Held) = "critical", report.verdict = "NO_ISSUE"
      PROVE  target.kind = "PersistentVolumeClaim" /\ target.phase = "Lost"
  <2>1. target \in Targets /\ observation = Observe(Held)
    BY <1>1, ReportIs
  <2>2. InRole("contradicting") = RulesOf(target.kind)
    BY <1>1, NoIssueIs, ReportIs
  <2>3. \E k \in 1 .. 13 : Catalog[k].kind = target.kind
    BY <1>1, NoIssueIs, CatalogIs DEF RulesOf
  <2>4. ASSUME NEW k \in 1 .. 13, Catalog[k].kind = target.kind
        PROVE  /\ observation[Catalog[k].fact] # Absent
               /\ observation[Catalog[k].fact] # Catalog[k].value
    <3>1. Catalog[k].id \in RulesOf(target.kind)
      BY <2>4, CatalogIs DEF RulesOf
    <3>2. PICK l \in 1 .. 13 : /\ Catalog[k].id = Catalog[l].id
                               /\ Role(Catalog[l], observation) = "contradicting"
      BY <2>2, <3>1, InRoleIs
    <3>3. l = k
      BY <3>2, IdsAreUnique
    <3> QED BY <3>2, <3>3, RoleIs
  <2>5. target.kind # "Pod"
    BY <1>1, PodsAlwaysHaveIssues
  <2>6. target.kind # "Service"
    <3> SUFFICES ASSUME target.kind = "Service" PROVE FALSE
      OBVIOUS
    <3>1. 8 \in 1 .. 13 /\ Catalog[8].kind = target.kind
          /\ Catalog[8].fact = "readyEndpoints" /\ Catalog[8].value = FALSE
      BY RulesAre
    <3>2. observation["readyEndpoints"] # FALSE
      BY <2>4, <3>1
    <3>3. SomeReady(Held.cluster) # FALSE
      BY <2>1, <3>2, TargetIs, ServiceFacts
    <3>4. SomeReady(Held.cluster)
      BY <3>3 DEF SomeReady
    <3> QED BY <1>1, <2>1, <3>4, ServiceStateIs
  <2>7. CASE target.kind = "Node"
    <3>1. 13 \in 1 .. 13 /\ Catalog[13].kind = target.kind
          /\ Catalog[13].fact = "nodeReady" /\ Catalog[13].value = FALSE
      BY <2>7, RulesAre
    <3>2. observation["nodeReady"] # FALSE
      BY <2>4, <3>1
    <3>3. target.ready # FALSE
      BY <2>1, <2>7, <3>2, ClaimAndNodeFacts
    <3>4. State(Held) = NodeState(target.ready)
      BY <2>7, HeldOthersAre DEF State, Workloads
    <3>5. NodeState(target.ready) # "critical"
      BY <3>3 DEF NodeState
    <3> QED BY <1>1, <3>4, <3>5
  <2>8. CASE target.kind = "PersistentVolumeClaim"
    <3>1. State(Held) = ClaimState(target.phase)
      BY <2>8, HeldOthersAre DEF State, Workloads
    <3> QED BY <1>1, <2>8, <3>1 DEF ClaimState
  <2> QED BY <2>3, <2>5, <2>6, <2>7, <2>8, RulesAre
<1>2. ASSUME RunInv, Reported, State(Held) = "healthy", NEW id \in report.confirmed
      PROVE  \/ id \in {"POD-OOMKILLED", "POD-READINESS", "SVC-SELECTOR", "SVC-TARGETPORT"}
             \/ /\ id = "SVC-ENDPOINT"
                /\ target.external \/ Absent \in Endpoints(Held.cluster)
  <2>1. target \in Targets /\ observation = Observe(Held)
    BY <1>2, ReportIs
  <2>2. PICK k \in 1 .. 13 : /\ id = Catalog[k].id /\ Catalog[k].kind = target.kind
                             /\ Role(Catalog[k], observation) = "supporting"
    BY <1>2, ReportIs, InRoleIs
  <2>3. observation[Catalog[k].fact] # Absent
        /\ observation[Catalog[k].fact] = Catalog[k].value
    BY <2>2, RoleIs
  <2>4. k \notin {1, 3, 4, 5, 10, 11}
    <3> SUFFICES ASSUME k \in {1, 3, 4, 5, 10, 11} PROVE FALSE
      OBVIOUS
    <3>1. target.kind = "Pod"
      BY <2>2, RulesAre
    <3>2. HasFault(target, Catalog[k].id)
      BY <2>1, <2>2, <2>3, <3>1, SupportedPodShows
    <3> QED BY <1>2, <2>1, <3>1, <3>2, HealthyPodHasNoFault
  <2>5. CASE k \in {2, 6, 7, 9}
    BY <2>2, <2>5, RulesAre
  <2>6. CASE k = 8
    <3>1. /\ target.kind = "Service" /\ id = "SVC-ENDPOINT"
          /\ observation["readyEndpoints"] = FALSE
      BY <2>2, <2>3, <2>6, RulesAre
    <3>2. ~SomeReady(Held.cluster)
      BY <2>1, <3>1, TargetIs, ServiceFacts
    <3> QED BY <1>2, <2>1, <3>1, <3>2, ServiceStateIs
  <2>7. k # 12
    <3> SUFFICES ASSUME k = 12 PROVE FALSE
      OBVIOUS
    <3>1. target.kind = "PersistentVolumeClaim" /\ observation["pvcPhase"] = "Pending"
      BY <2>2, <2>3, RulesAre
    <3>2. target.phase = "Pending"
      BY <2>1, <3>1, ClaimAndNodeFacts
    <3>3. State(Held) = ClaimState("Pending")
      BY <3>1, <3>2, HeldOthersAre DEF State, Workloads
    <3> QED BY <1>2, <3>3 DEF ClaimState
  <2>8. k # 13
    <3> SUFFICES ASSUME k = 13 PROVE FALSE
      OBVIOUS
    <3>1. target.kind = "Node" /\ observation["nodeReady"] = FALSE
      BY <2>2, <2>3, RulesAre
    <3>2. target.ready = FALSE
      BY <2>1, <3>1, ClaimAndNodeFacts
    <3>3. State(Held) = NodeState(FALSE)
      BY <3>1, <3>2, HeldOthersAre DEF State, Workloads
    <3> QED BY <1>2, <3>3 DEF NodeState
  <2> QED BY <2>4, <2>5, <2>6, <2>7, <2>8
<1>3. ASSUME RunInv
      PROVE  AgreesWithInventory
  BY <1>1, <1>2, <1>3 DEF AgreesWithInventory
<1> QED BY <1>3, RunInvHolds, PTL

-----------------------------------------------------------------------------
(* What is healthy although it is there.                                   *)

(* Of the probe, when the last event about it is of success, or when the   *)
(* inventory has no event and the Pod is ready.                            *)
LEMMA ReadinessIsOverwritten ==
  ASSUME observation = Observe(Held), target \in Targets, target.kind = "Pod",
         observation["readinessProbeFailed"] # Absent,
         observation["readinessProbeFailed"] # TRUE,
         HasFault(target, Catalog[6].id)
  PROVE  \/ "Event" \in unfollowed /\ target.ready = TRUE
         \/ \E i, j \in DOMAIN target.events :
              i < j /\ target.events[i].unhealthy /\ ~target.events[j].unhealthy
<1>1. IsPod(target) /\ Held.ready = target.ready
  BY TargetIs, HeldPodIs
<1>2. ReadinessProbeFailed(Held) # Absent /\ ReadinessProbeFailed(Held) # TRUE
  BY <1>1, PodFacts
<1> DEFINE n == Len(Held.events)
           About(i) == Held.events[i].own /\ Held.events[i].readiness
<1>3. /\ n \in Nat /\ DOMAIN Held.events = 1 .. n
      /\ \A i \in 1 .. n : Held.events[i].unhealthy \in BOOLEAN
      /\ "Event" \in unfollowed => DOMAIN Held.events = {}
      /\ "Event" \notin unfollowed => Held.events = target.events
  BY <1>1, HeldEventsAre
<1>4. PICK i \in DOMAIN target.events :
        /\ target.events[i].own /\ target.events[i].readiness /\ target.events[i].unhealthy
  BY FaultsAre
<1>5. CASE "Event" \in unfollowed
  <2>1. ReadinessProbeFailed(Held) = IF Held.ready = TRUE THEN FALSE ELSE Absent
    BY <1>3, <1>5, ReadinessIs
  <2> QED BY <1>1, <1>2, <1>5, <2>1
<1>6. CASE "Event" \notin unfollowed
  <2>1. i \in 1 .. n /\ About(i) /\ Held.events[i].unhealthy
    BY <1>3, <1>4, <1>6
  <2>2. PICK j \in 1 .. n : /\ ReadinessProbeFailed(Held) = Held.events[j].unhealthy
                            /\ \A l \in 1 .. n : About(l) => l <= j
    BY <1>3, <2>1, ReadinessIs
  <2>3. ~Held.events[j].unhealthy
    BY <1>2, <1>3, <2>2
  <2>4. i <= j /\ i # j
    BY <2>1, <2>2, <2>3
  <2>5. i < j
    <3> HIDE DEF n, About
    <3> QED BY <1>3, <2>1, <2>2, <2>4
  <2> QED BY <1>3, <1>6, <2>1, <2>3, <2>5
<1> QED BY <1>5, <1>6

(* Of the reasons of containers, when a later container has another one;   *)
(* of the scheduler's, never.                                              *)
LEMMA PodFaultIsOverwritten ==
  ASSUME observation = Observe(Held), target \in Targets, target.kind = "Pod",
         NEW k \in 1 .. 13, Catalog[k].kind = "Pod", k # 6,
         observation[Catalog[k].fact] # Absent,
         observation[Catalog[k].fact] # Catalog[k].value,
         HasFault(target, Catalog[k].id)
  PROVE  \E i, j \in DOMAIN target.containers :
           /\ i < j
           /\ ReasonOf(target.containers[i], Catalog[k].id) = Catalog[k].value
           /\ ReasonOf(target.containers[j], Catalog[k].id) \notin {Absent, Catalog[k].value}
<1> DEFINE value == Catalog[k].value
           id == Catalog[k].id
           n == Len(target.containers)
<1>1. IsPod(target)
  BY TargetIs
<1>2. CASE k \in {1, 3, 4, 5}
  <2>1. /\ Catalog[k].fact = "waiting" /\ value \in FaultReasons /\ id # "POD-OOMKILLED"
    BY <1>2, RulesAre DEF FaultReasons
  <2>2. PICK i \in DOMAIN target.containers : target.containers[i].waiting = value
    BY <1>2, FaultsAre
  <2>3. observation["waiting"] \notin {Absent, value}
    BY <2>1
  <2>4. /\ DOMAIN target.containers = 1 .. n
        /\ \A l \in 1 .. n : target.containers[l].waiting = value =>
             \E j \in 1 .. n : l < j /\ target.containers[j].waiting \notin {Absent, value}
    BY <1>1, <2>1, <2>3, ReadingsAre
  <2>5. PICK j \in DOMAIN target.containers :
          i < j /\ target.containers[j].waiting \notin {Absent, value}
    BY <2>2, <2>4
  <2> QED BY <2>1, <2>2, <2>5 DEF ReasonOf
<1>3. CASE k = 2
  <2>1. /\ Catalog[k].fact = "terminated" /\ value = "OOMKilled" /\ id = "POD-OOMKILLED"
        /\ value \in FaultReasons
    BY <1>3, RulesAre DEF FaultReasons
  <2>2. PICK i \in DOMAIN target.containers : target.containers[i].terminated = value
    BY <1>3, <2>1, FaultsAre
  <2>3. observation["terminated"] \notin {Absent, value}
    BY <2>1
  <2>4. /\ DOMAIN target.containers = 1 .. n
        /\ \A l \in 1 .. n : target.containers[l].terminated = value =>
             \E j \in 1 .. n : l < j /\ target.containers[j].terminated \notin {Absent, value}
    BY <1>1, <2>1, <2>3, ReadingsAre
  <2>5. PICK j \in DOMAIN target.containers :
          i < j /\ target.containers[j].terminated \notin {Absent, value}
    BY <2>2, <2>4
  <2> QED BY <2>1, <2>2, <2>5 DEF ReasonOf
<1>4. k # 10
  <2> SUFFICES ASSUME k = 10 PROVE FALSE
    OBVIOUS
  <2>1. target.scheduled = "Unschedulable" /\ "insufficient" \in target.message
    BY FaultsAre
  <2>2. observation["insufficientResources"] = TRUE
    BY <1>1, <2>1, PodFacts
  <2> QED BY <2>2, RulesAre
<1>5. k # 11
  <2> SUFFICES ASSUME k = 11 PROVE FALSE
    OBVIOUS
  <2>1. target.scheduled = "Unschedulable" /\ "taint" \in target.message
    BY FaultsAre
  <2>2. observation["taintMismatch"] = TRUE
    BY <1>1, <2>1, PodFacts
  <2> QED BY <2>2, RulesAre
<1> QED BY <1>2, <1>3, <1>4, <1>5, RulesAre

(* Of a Service never: what the inventory holds of it the cluster has.     *)
LEMMA HealthyServiceShowsNothing ==
  ASSUME observation = Observe(Held), target \in Targets, target.kind = "Service",
         NEW k \in 7 .. 9,
         observation[Catalog[k].fact] # Absent,
         observation[Catalog[k].fact] # Catalog[k].value
  PROVE  ~Shows(Catalog[k].id)
<1>1. IsService(target) /\ Absent \notin BOOLEAN
  BY TargetIs
<1>2. CASE k = 7
  <2>1. observation["selectorMatches"] # FALSE /\ Catalog[k].id = "SVC-SELECTOR"
    BY <1>2, RulesAre
  <2>2. Backends(Held.cluster) # {}
    BY <1>1, <2>1, ServiceFacts
  <2>3. PICK p \in DOMAIN target.cluster.pods :
          LabelsMatch(target.cluster.service.selector, target.cluster.pods[p].labels)
    BY <1>1, <2>2, HeldBackendsAre DEF Backends
  <2> QED BY <2>1, <2>3 DEF Shows, LabelsMatch
<1>3. CASE k = 8
  <2>1. observation["readyEndpoints"] # FALSE /\ Catalog[k].id = "SVC-ENDPOINT"
    BY <1>3, RulesAre
  <2>2. SomeReady(Held.cluster)
    BY <1>1, <2>1, ServiceFacts DEF SomeReady
  <2>3. \E slice \in target.cluster.slices : slice.own /\ TRUE \in slice.endpoints
    BY <1>1, <2>2, HeldServiceIs DEF SomeReady
  <2> QED BY <2>1, <2>3 DEF Shows
<1>4. CASE k = 9
  <2>1. /\ observation["targetPortMatches"] # FALSE /\ observation["targetPortMatches"] # Absent
        /\ Catalog[k].id = "SVC-TARGETPORT"
    BY ZenonT(30), <1>4, RulesAre
  <2>2. /\ TargetPortMatches(Held.cluster) # FALSE
        /\ TargetPortMatches(Held.cluster) # Absent
    BY <1>1, <2>1, ServiceFacts
  <2>3. /\ Backends(Held.cluster) # {}
        /\ \A i \in DOMAIN Held.cluster.service.ports, p \in Backends(Held.cluster) :
             PodDeclaresPort(Held.cluster.pods[p], TargetOf(Held.cluster.service.ports[i]))
    BY <2>2 DEF TargetPortMatches
  <2>4. /\ Held.cluster.pods = target.cluster.pods
        /\ Held.cluster.service = target.cluster.service
        /\ Backends(Held.cluster) = Backends(target.cluster)
    BY <1>1, <2>3, HeldBackendsAre, HeldServiceIs
  <2> QED BY <2>1, <2>3, <2>4 DEF Shows
<1> QED BY <1>2, <1>3, <1>4

(* What a report calls healthy although the target shows the fault stands  *)
(* behind a later reading.                                                 *)
THEOREM HealthyFaultsAreOverwritten == Spec => []HealthyIsOverwritten
<1>1. ASSUME RunInv, Reported, NEW id \in report.healthy, Shows(id)
      PROVE  IF id = "POD-READINESS"
             THEN \/ "Event" \in unfollowed /\ target.ready = TRUE
                  \/ \E i, j \in DOMAIN target.events :
                       i < j /\ target.events[i].unhealthy /\ ~target.events[j].unhealthy
             ELSE \E i, j \in DOMAIN target.containers :
                    /\ i < j
                    /\ ReasonOf(target.containers[i], id) = FaultOf(id)
                    /\ ReasonOf(target.containers[j], id) \notin {Absent, FaultOf(id)}
  <2>1. target \in Targets /\ observation = Observe(Held)
    BY <1>1, ReportIs
  <2>2. PICK k \in 1 .. 13 : /\ id = Catalog[k].id /\ Catalog[k].kind = target.kind
                             /\ Role(Catalog[k], observation) = "contradicting"
    BY <1>1, ReportIs, InRoleIs
  <2>3. observation[Catalog[k].fact] # Absent
        /\ observation[Catalog[k].fact] # Catalog[k].value
    BY <2>2, RoleIs
  <2>4. k \notin 7 .. 9
    <3> SUFFICES ASSUME k \in 7 .. 9 PROVE FALSE
      OBVIOUS
    <3>1. target.kind = "Service"
      BY <2>2, RulesAre
    <3> QED BY <1>1, <2>1, <2>2, <2>3, <3>1, HealthyServiceShowsNothing
  <2>5. k # 12
    <3> SUFFICES ASSUME k = 12 PROVE FALSE
      OBVIOUS
    <3>1. /\ target.kind = "PersistentVolumeClaim" /\ id = "PVC-PENDING"
          /\ observation["pvcPhase"] # "Pending"
      BY <2>2, <2>3, RulesAre
    <3> QED BY <1>1, <2>1, <3>1, ClaimAndNodeFacts DEF Shows
  <2>6. k # 13
    <3> SUFFICES ASSUME k = 13 PROVE FALSE
      OBVIOUS
    <3>1. target.kind = "Node" /\ id = "NODE-NOTREADY" /\ observation["nodeReady"] # FALSE
      BY ZenonT(30), <2>2, <2>3, RulesAre
    <3> QED BY <1>1, <2>1, <3>1, ClaimAndNodeFacts DEF Shows
  <2>7. target.kind = "Pod"
    BY <2>2, <2>4, <2>5, <2>6, RulesAre
  <2>8. HasFault(target, id)
    <3>1. id \notin {"SVC-SELECTOR", "SVC-ENDPOINT", "SVC-TARGETPORT", "PVC-PENDING",
                     "NODE-NOTREADY"}
      BY <2>2, <2>7, RulesAre
    <3> QED BY <1>1, <2>7, <3>1 DEF Shows
  <2>9. FaultOf(id) = Catalog[k].value
    BY <2>2, PlaceIs DEF FaultOf
  <2>10. CASE k = 6
    <3>1. /\ id = "POD-READINESS" /\ Catalog[k].fact = "readinessProbeFailed"
          /\ Catalog[k].value = TRUE
      BY <2>2, <2>10, RulesAre
    <3>2. /\ observation["readinessProbeFailed"] # Absent
          /\ observation["readinessProbeFailed"] # TRUE
      BY <2>3, <3>1
    <3> QED BY <2>1, <2>2, <2>7, <2>8, <2>10, <3>1, <3>2, ReadinessIsOverwritten
  <2>11. CASE k # 6
    <3>1. id # "POD-READINESS"
      BY <2>2, <2>11, RulesAre
    <3>2. \E i, j \in DOMAIN target.containers :
            /\ i < j
            /\ ReasonOf(target.containers[i], id) = Catalog[k].value
            /\ ReasonOf(target.containers[j], id) \notin {Absent, Catalog[k].value}
      BY <2>1, <2>2, <2>3, <2>7, <2>8, <2>11, PodFaultIsOverwritten
    <3> QED BY <2>9, <3>1, <3>2
  <2> QED BY <2>10, <2>11
<1>2. ASSUME RunInv
      PROVE  HealthyIsOverwritten
  BY <1>1, <1>2 DEF HealthyIsOverwritten
<1> QED BY <1>2, RunInvHolds, PTL
=============================================================================
