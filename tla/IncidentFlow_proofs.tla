------------------------ MODULE IncidentFlow_proofs ------------------------
(***************************************************************************)
(* That Signals and evidence sum up the Events in any order of arrival,    *)
(* and that incidents are the chains of findings and only grow while       *)
(* findings come in the order of their times, for every window, and any    *)
(* resources, messages, times and number of inputs.                        *)
(*                                                                         *)
(* FlowInv relates the bag of Events to the Signals and these to the       *)
(* evidence.  Incidents are a function of the state: what is proved of     *)
(* them is proved of the sort and the split, which the sections after it   *)
(* describe by the runs of a sorted list.                                  *)
(***************************************************************************)
EXTENDS IncidentFlow, FiniteSetTheorems, WellFoundedInduction, TLAPS

-----------------------------------------------------------------------------
(* The order of the natural numbers descends for finitely many steps only.*)
LEMMA LessThanIsWellFounded ==
  IsWellFoundedOn({ss \in Nat \X Nat : ss[1] < ss[2]}, Nat)
BY NatLessThanWellFounded DEF OpToRel

(* Every set of natural numbers that is not empty has a smallest member.   *)
LEMMA SmallestMember ==
  ASSUME NEW S \in SUBSET Nat, S # {}
  PROVE  \E x \in S : \A y \in S : x <= y
<1> DEFINE Less == {ss \in Nat \X Nat : ss[1] < ss[2]}
<1>1. PICK x \in S : \A y \in S : ~ (<<y, x>> \in Less)
  <2>1. IsWellFoundedOn(Less, Nat)
    BY LessThanIsWellFounded
  <2> HIDE DEF Less
  <2> QED BY <2>1, WFMin
<1>2. ASSUME NEW y \in S PROVE x <= y
  <2>1. x \in Nat /\ y \in Nat
    OBVIOUS
  <2>2. y < x => <<y, x>> \in Less
    BY <2>1
  <2>3. ~ (y < x)
    BY <1>1, <2>2
  <2> QED BY <2>1, <2>3
<1> QED BY <1>2


-----------------------------------------------------------------------------
(* Sums over a set of Events.  MapThenSumSet adds in an order of its own;  *)
(* the sum does not depend on it.                                          *)
Weight(e, bag) == e.count * bag[e]
Pick(S) == CHOOSE x \in S : TRUE
Total(S, bag) == MapThenSumSet(LAMBDA e : e.count * bag[e], S)

NextSum(s, bag, rest) == IF s = {} THEN 0 ELSE Weight(Pick(s), bag) + rest[s \ {Pick(s)}]
AreSums(sum, S, bag) == sum = [s \in SUBSET S |-> NextSum(s, bag, sum)]
Weighted(S, bag) == \A e \in S : Weight(e, bag) \in Int

(* The partial sums MapThenSumSet is defined by exist.                     *)
LEMMA SumsExist ==
  ASSUME NEW S, IsFiniteSet(S), NEW bag
  PROVE  \E sum : AreSums(sum, S, bag)
<1> DEFINE Small(n) == {s \in SUBSET S : Cardinality(s) <= n}
           Have(n) == \E sum : sum = [s \in Small(n) |-> NextSum(s, bag, sum)]
           Bad == {n \in Nat : ~ Have(n)}
<1>1. \A s \in SUBSET S : IsFiniteSet(s) /\ Cardinality(s) \in Nat
  BY FS_Subset, FS_CardinalityType
<1>2. Bad = {}
  <2> SUFFICES ASSUME Bad # {} PROVE FALSE
    OBVIOUS
  <2>1. PICK n \in Bad : \A m \in Bad : n <= m
    <3>1. Bad \in SUBSET Nat
      OBVIOUS
    <3> HIDE DEF Bad
    <3> QED BY <3>1, SmallestMember
  <2>2. n \in Nat /\ ~ Have(n)
    OBVIOUS
  <2>3. CASE n = 0
    <3>1. \A s \in Small(0) : s = {}
      BY <1>1, FS_EmptySet
    <3>2. [s \in Small(0) |-> 0] = [s \in Small(0) |-> NextSum(s, bag, [t \in Small(0) |-> 0])]
      BY <3>1 DEF NextSum
    <3> QED BY <3>2, <2>2, <2>3
  <2>4. CASE n # 0
    <3>1. n - 1 \in Nat /\ n - 1 < n
      BY <2>2, <2>4
    <3>2. Have(n - 1)
      <4> HIDE DEF Have
      <4> QED BY <3>1, <2>1, <2>2
    <3>3. PICK old : old = [s \in Small(n - 1) |-> NextSum(s, bag, old)]
      BY <3>2
    <3> DEFINE new == [s \in Small(n) |-> NextSum(s, bag, old)]
    <3>4. ASSUME NEW s \in Small(n)
          PROVE  NextSum(s, bag, old) = NextSum(s, bag, new)
      <4>1. CASE s = {}
        BY <4>1 DEF NextSum
      <4>2. CASE s # {}
        <5> DEFINE t == s \ {Pick(s)}
        <5>1. Pick(s) \in s
          BY <4>2 DEF Pick
        <5>2. Cardinality(t) = Cardinality(s) - 1
          BY <5>1, <1>1, FS_RemoveElement
        <5>3. t \in Small(n - 1) /\ t \in Small(n)
          BY <5>2, <1>1, <2>2
        <5>4. old[t] = NextSum(t, bag, old)
          BY <3>3, <5>3
        <5>5. new[t] = NextSum(t, bag, old)
          BY <5>3
        <5> QED BY <5>4, <5>5, <4>2 DEF NextSum
      <4> QED BY <4>1, <4>2
    <3>5. new = [s \in Small(n) |-> NextSum(s, bag, new)]
      BY <3>4
    <3> HIDE DEF new
    <3> QED BY <3>5, <2>2
  <2> QED BY <2>3, <2>4
<1>3. Have(Cardinality(S))
  BY <1>1, <1>2
<1>4. Small(Cardinality(S)) = SUBSET S
  <2> SUFFICES ASSUME NEW s \in SUBSET S PROVE Cardinality(s) <= Cardinality(S)
    OBVIOUS
  <2> QED BY FS_Subset
<1> QED BY <1>3, <1>4 DEF AreSums

LEMMA TotalIsSum ==
  ASSUME NEW S, IsFiniteSet(S), NEW bag
  PROVE  \E sum : AreSums(sum, S, bag) /\ Total(S, bag) = sum[S]
<1> DEFINE sum == CHOOSE f : AreSums(f, S, bag)
<1>1. AreSums(sum, S, bag)
  BY SumsExist
<1>2. Total(S, bag) = sum[S]
  BY DEF Total, MapThenSumSet, MapThenFoldSet, AreSums, NextSum, Weight, Pick
<1> QED BY <1>1, <1>2

(* Two such sums agree on what both are about.                             *)
LEMMA SumsAgree ==
  ASSUME NEW S, NEW T, IsFiniteSet(S), IsFiniteSet(T), NEW bag, NEW other, NEW sum, NEW summed,
         AreSums(sum, S, bag), AreSums(summed, T, other),
         NEW U \in SUBSET S, U \in SUBSET T, \A e \in U : Weight(e, bag) = Weight(e, other)
  PROVE  sum[U] = summed[U]
<1> DEFINE Bad == {n \in Nat : \E s \in SUBSET U : Cardinality(s) = n /\ sum[s] # summed[s]}
<1>1. \A s \in SUBSET U : IsFiniteSet(s) /\ Cardinality(s) \in Nat /\ s \in SUBSET S /\ s \in SUBSET T
  BY FS_Subset, FS_CardinalityType
<1>2. Bad = {}
  <2> SUFFICES ASSUME Bad # {} PROVE FALSE
    OBVIOUS
  <2>1. PICK n \in Bad : \A m \in Bad : n <= m
    <3>1. Bad \in SUBSET Nat
      OBVIOUS
    <3> HIDE DEF Bad
    <3> QED BY <3>1, SmallestMember
  <2>2. PICK s \in SUBSET U : Cardinality(s) = n /\ sum[s] # summed[s]
    BY <2>1
  <2>3. sum[s] = NextSum(s, bag, sum) /\ summed[s] = NextSum(s, other, summed)
    BY <1>1, <2>2 DEF AreSums
  <2>4. s # {}
    BY <2>2, <2>3 DEF NextSum
  <2>5. Pick(s) \in s
    BY <2>4 DEF Pick
  <2>6. Cardinality(s \ {Pick(s)}) = n - 1 /\ s \ {Pick(s)} \in SUBSET U
    BY <2>5, <2>2, <1>1, FS_RemoveElement
  <2>7. n - 1 \in Nat /\ ~ (n <= n - 1)
    BY <2>6, <1>1
  <2>8. n - 1 \notin Bad
    <3> HIDE DEF Bad
    <3> QED BY <2>1, <2>7
  <2>9. sum[s \ {Pick(s)}] = summed[s \ {Pick(s)}]
    BY <2>6, <2>7, <2>8
  <2>10. Weight(Pick(s), bag) = Weight(Pick(s), other)
    BY <2>5
  <2> QED BY <2>2, <2>3, <2>4, <2>9, <2>10 DEF NextSum
<1>3. Cardinality(U) \notin Bad
  BY <1>2
<1> QED BY <1>1, <1>3

(* A sum may take any of its elements first.                               *)
LEMMA SumTakesAny ==
  ASSUME NEW S, IsFiniteSet(S), NEW bag, Weighted(S, bag), NEW sum, AreSums(sum, S, bag)
  PROVE  \A s \in SUBSET S : /\ sum[s] \in Int
                             /\ \A x \in s : sum[s] = Weight(x, bag) + sum[s \ {x}]
<1> DEFINE Good(s) == /\ sum[s] \in Int
                      /\ \A x \in s : sum[s] = Weight(x, bag) + sum[s \ {x}]
           Bad == {n \in Nat : \E s \in SUBSET S : Cardinality(s) = n /\ ~ Good(s)}
<1>1. \A s \in SUBSET S : IsFiniteSet(s) /\ Cardinality(s) \in Nat
  BY FS_Subset, FS_CardinalityType
<1>2. Bad = {}
  <2> SUFFICES ASSUME Bad # {} PROVE FALSE
    OBVIOUS
  <2>1. PICK n \in Bad : \A m \in Bad : n <= m
    <3>1. Bad \in SUBSET Nat
      OBVIOUS
    <3> HIDE DEF Bad
    <3> QED BY <3>1, SmallestMember
  <2>2. PICK s \in SUBSET S : Cardinality(s) = n /\ ~ Good(s)
    BY <2>1
  <2>3. sum[s] = NextSum(s, bag, sum)
    BY <2>2 DEF AreSums
  <2>4. s # {}
    BY <2>2, <2>3 DEF NextSum
  <2> DEFINE c == Pick(s)
  <2>5. c \in s
    BY <2>4 DEF Pick
  <2>6. ASSUME NEW x \in s PROVE Good(s \ {x})
    <3>1. Cardinality(s \ {x}) = n - 1 /\ s \ {x} \in SUBSET S
      BY <2>2, <1>1, FS_RemoveElement
    <3>2. n - 1 \in Nat /\ ~ (n <= n - 1)
      BY <3>1, <1>1
    <3>3. n - 1 \notin Bad
      <4> HIDE DEF Bad
      <4> QED BY <2>1, <3>2
    <3> HIDE DEF Good
    <3> QED BY <3>1, <3>2, <3>3
  <2>7. sum[s] = Weight(c, bag) + sum[s \ {c}]
    BY <2>3, <2>4 DEF NextSum
  <2>8. \A x \in s : Weight(x, bag) \in Int
    BY DEF Weighted
  <2>9. ASSUME NEW x \in s PROVE sum[s] = Weight(x, bag) + sum[s \ {x}]
    <3>1. CASE x = c
      BY <2>7, <3>1
    <3>2. CASE x # c
      <4> HIDE DEF c
      <4>1. x \in s \ {c} /\ c \in s \ {x} /\ (s \ {c}) \ {x} = (s \ {x}) \ {c}
        BY <2>5, <3>2
      <4>2. sum[s \ {c}] = Weight(x, bag) + sum[(s \ {c}) \ {x}]
        BY <2>6, <2>5, <4>1
      <4>3. sum[s \ {x}] = Weight(c, bag) + sum[(s \ {c}) \ {x}] /\ sum[s \ {x}] \in Int
        BY <2>6, <4>1
      <4> DEFINE r == (s \ {c}) \ {x}
      <4>4. IsFiniteSet(s \ {c}) /\ Cardinality(s \ {c}) = n - 1
        BY <2>2, <2>5, <1>1, FS_RemoveElement
      <4>5. r \in SUBSET S /\ Cardinality(r) = n - 2
        <5>1. Cardinality(r) = Cardinality(s \ {c}) - 1
          BY <4>1, <4>4, FS_RemoveElement
        <5> QED BY <5>1, <4>4, <2>1
      <4>6. n - 2 \in Nat /\ ~ (n <= n - 2)
        BY <4>5, <1>1
      <4>7. n - 2 \notin Bad
        <5> HIDE DEF Bad
        <5> QED BY <2>1, <4>6
      <4>8. sum[r] \in Int
        <5> HIDE DEF r
        <5> QED BY <4>5, <4>6, <4>7
      <4> QED BY <4>2, <4>3, <4>8, <2>5, <2>7, <2>8
    <3> QED BY <3>1, <3>2
  <2>10. sum[s] \in Int
    <3>1. sum[s \ {c}] \in Int
      BY <2>5, <2>6
    <3> HIDE DEF c
    <3> QED BY <3>1, <2>5, <2>7, <2>8
  <2> QED BY <2>2, <2>9, <2>10
<1>3. ASSUME NEW s \in SUBSET S PROVE Good(s)
  <2>1. Cardinality(s) \notin Bad
    BY <1>2
  <2> HIDE DEF Good
  <2> QED BY <1>1, <2>1
<1> QED BY <1>3

(* One more copy of an Event adds its count, whether the Event was there   *)
(* before or not.                                                          *)
LEMMA TotalGrows ==
  ASSUME NEW S, IsFiniteSet(S), NEW bag, NEW other, NEW e, e.count \in Int,
         Weighted(S, bag),
         Weight(e, other) = IF e \in S THEN Weight(e, bag) + e.count ELSE e.count,
         \A x \in S \ {e} : Weight(x, other) = Weight(x, bag)
  PROVE  /\ Total(S, bag) \in Int
         /\ Total(S \union {e}, other) = Total(S, bag) + e.count
<1> DEFINE T == S \union {e}
           R == S \ {e}
<1>1. IsFiniteSet(T)
  BY FS_AddElement
<1>2. PICK sum : AreSums(sum, S, bag) /\ Total(S, bag) = sum[S]
  BY TotalIsSum
<1>3. PICK summed : AreSums(summed, T, other) /\ Total(T, other) = summed[T]
  BY <1>1, TotalIsSum
<1>4. Weighted(T, other)
  BY DEF Weighted
<1>5. sum[R] = summed[R]
  <2>1. R \in SUBSET S /\ R \in SUBSET T
    OBVIOUS
  <2> QED BY <1>1, <1>2, <1>3, <2>1, SumsAgree
<1>6. sum[R] \in Int /\ sum[S] \in Int
  BY <1>2, SumTakesAny
<1>7. summed[T] = Weight(e, other) + summed[R]
  <2>1. e \in T /\ T \in SUBSET T /\ T \ {e} = R
    OBVIOUS
  <2>2. summed[T] = Weight(e, other) + summed[T \ {e}]
    <3> HIDE DEF T, R
    <3> QED BY <1>1, <1>3, <1>4, <2>1, SumTakesAny
  <2> QED BY <2>1, <2>2
<1>8. CASE e \in S
  <2>1. sum[S] = Weight(e, bag) + sum[R] /\ Weight(e, bag) \in Int
    BY <1>8, <1>2, SumTakesAny DEF Weighted
  <2> HIDE DEF T, R
  <2> QED BY <2>1, <1>2, <1>3, <1>5, <1>6, <1>7, <1>8 DEF T
<1>9. CASE e \notin S
  <2>1. R = S
    BY <1>9
  <2> HIDE DEF T, R
  <2> QED BY <2>1, <1>2, <1>3, <1>5, <1>6, <1>7, <1>9 DEF T
<1> QED BY <1>8, <1>9

-----------------------------------------------------------------------------
(* The least and the greatest of a set of times.                           *)
LEMMA MinIs ==
  ASSUME NEW S \in SUBSET Int, NEW x \in S, \A y \in S : x <= y
  PROVE  Min(S) = x
<1>1. Min(S) \in S /\ \A y \in S : Min(S) <= y
  BY DEF Min
<1>2. Min(S) \in Int /\ Min(S) <= x /\ x <= Min(S)
  BY <1>1
<1> QED BY <1>2

LEMMA MaxIs ==
  ASSUME NEW S \in SUBSET Int, NEW x \in S, \A y \in S : y <= x
  PROVE  Max(S) = x
<1>1. Max(S) \in S /\ \A y \in S : Max(S) >= y
  BY DEF Max
<1>2. Max(S) \in Int /\ Max(S) <= x /\ x <= Max(S)
  BY <1>1
<1> QED BY <1>2

-----------------------------------------------------------------------------
(* Signals and evidence.                                                   *)
Signal == [id : Resources, resource : Resources, message : Messages,
           first : Times, last : Times, count : Nat]

(* What is delivered is a bag of Events, and so many findings.             *)
InputInv ==
  /\ inputs \in Nat
  /\ seen \in [DOMAIN seen -> Nat] /\ DOMAIN seen \subseteq Events
  /\ IsFiniteSet(DOMAIN seen)
  /\ findings \subseteq Finding /\ IsFiniteSet(findings)
  /\ selected \subseteq Pods

(* A Signal sums up the Events of its fingerprint.                         *)
SumsUp(s, own, bag) ==
  /\ (\E e \in own : s.first = e.first) /\ (\A e \in own : s.first <= e.first)
  /\ (\E e \in own : s.last = e.last /\ s.message = e.message)
  /\ (\A e \in own : e.last <= s.last)
  /\ s.count = Total(own, bag)

SignalInv ==
  /\ DOMAIN signals = {FingerprintOf(e) : e \in DOMAIN seen}
  /\ signals \in [DOMAIN signals -> Signal]
  /\ \A fp \in DOMAIN signals : /\ signals[fp].id = signals[fp].resource
                                /\ signals[fp].resource = fp[1]
                                /\ SumsUp(signals[fp], SightingsOf(fp), seen)

(* A fingerprint has an ID exactly when it has a Signal; each ID but that  *)
(* of the rule is the ID of its evidence's source.                         *)
EvidenceInv ==
  /\ DOMAIN items \subseteq 0 .. inputs
  /\ \A fp \in Fingerprints : fp \in DOMAIN dedup <=> fp \in DOMAIN signals
  /\ \A fp \in DOMAIN signals :
       /\ dedup[fp] \in DOMAIN items \ {RuleId}
       /\ items[dedup[fp]] = [source |-> fp, at |-> signals[fp].last]
  /\ \A id \in DOMAIN items \ {RuleId} :
       items[id].source \in DOMAIN signals /\ dedup[items[id].source] = id
  /\ \A r \in Resources : RuleSource(r) \in DOMAIN dedup =>
                            RuleId \in DOMAIN items /\ dedup[RuleSource(r)] = RuleId
  /\ RuleId \in DOMAIN items =>
       /\ items[RuleId] \in [source : {RuleSource(r) : r \in Resources}, at : Times]

FlowInv == InputInv /\ SignalInv /\ EvidenceInv

LEMMA EventFacts ==
  ASSUME NEW e \in Events
  PROVE  /\ e.resource \in Resources /\ e.message \in Messages
         /\ e.first \in Times /\ e.last \in Times /\ e.count \in Nat
         /\ FingerprintOf(e) \in Fingerprints
<1>1. e.first <= e.last
  BY DEF Events
<1>2. PICK r \in Resources, m \in Messages, f \in Times, l \in Times :
        e = [resource |-> r, message |-> m, first |-> f, last |-> l, count |-> l - f + 1]
  BY DEF Events, Event
<1>3. f <= l /\ e.count = l - f + 1
  BY <1>1, <1>2
<1>4. e.count \in Nat
  BY <1>3, FlowAssumption DEF Times
<1> QED BY <1>2, <1>4 DEF FingerprintOf, Fingerprints

LEMMA RuleIsNoFingerprint ==
  ASSUME NEW r, NEW fp \in Fingerprints
  PROVE  RuleSource(r) # fp
BY DEF Fingerprints, RuleSource

LEMMA BagAdds ==
  ASSUME NEW bag, NEW e
  PROVE  LET more == bag (+) SetToBag({e}) IN
         /\ DOMAIN more = DOMAIN bag \union {e}
         /\ \A x \in DOMAIN bag \ {e} : more[x] = bag[x] + 0
         /\ more[e] = IF e \in DOMAIN bag THEN bag[e] + 1 ELSE 0 + 1
BY DEF (+), SetToBag

LEMMA FlowInit == Init => FlowInv
<1> SUFFICES ASSUME Init PROVE FlowInv
  OBVIOUS
<1>1. DOMAIN seen = {} /\ seen = [x \in {} |-> 1]
  BY DEF Init, EmptyBag, SetToBag
<1>2. DOMAIN signals = {} /\ DOMAIN items = {} /\ DOMAIN dedup = {}
  BY DEF Init
<1>3. InputInv
  <2>1. seen \in [DOMAIN seen -> Nat]
    BY <1>1
  <2> QED BY <1>1, <2>1, FS_EmptySet DEF Init, InputInv
<1>4. SignalInv
  <2>1. signals \in [DOMAIN signals -> Signal]
    <3>1. signals = [x \in {} |-> 1]
      BY DEF Init
    <3> QED BY <3>1
  <2> QED BY <1>1, <1>2, <2>1 DEF SignalInv
<1>5. EvidenceInv
  BY <1>2 DEF EvidenceInv
<1> QED BY <1>3, <1>4, <1>5 DEF FlowInv

(* Add replaces a Signal by one that sums up one Event more: the least and *)
(* the greatest time, the message of a latest Event, one count more        *)
(* (normalizer.go:75-85).                                                  *)
LEMMA MergeSumsUp ==
  ASSUME NEW s \in Signal, NEW e \in Events, NEW own, own \subseteq Events, IsFiniteSet(own),
         NEW bag, NEW more, SumsUp(s, own, bag),
         Total(own \union {e}, more) = Total(own, bag) + e.count
  PROVE  LET merged == Merge(s, NormalizeEvent(e)) IN
         /\ merged \in Signal /\ merged.id = s.id /\ merged.resource = s.resource
         /\ SumsUp(merged, own \union {e}, more)
         /\ merged.last = IF e.last > s.last THEN e.last ELSE s.last
<1> DEFINE new == NormalizeEvent(e)
           merged == Merge(s, new)
<1>1. /\ e.resource \in Resources /\ e.message \in Messages
      /\ e.first \in Times /\ e.last \in Times /\ e.count \in Nat
  BY EventFacts
<1>2. new.first = e.first /\ new.last = e.last /\ new.message = e.message /\ new.count = e.count
  BY DEF NormalizeEvent
<1>3. /\ merged.first = IF e.first < s.first THEN e.first ELSE s.first
      /\ merged.last = IF e.last > s.last THEN e.last ELSE s.last
      /\ merged.message = IF e.last > s.last THEN e.message ELSE s.message
      /\ merged.count = s.count + e.count
      /\ merged.id = s.id /\ merged.resource = s.resource
  BY <1>2 DEF Merge, Signal
<1>4. /\ s.first \in Times /\ s.last \in Times /\ s.message \in Messages /\ s.count \in Nat
  BY DEF Signal
<1>5. merged \in Signal
  <2>1. s.count + e.count \in Nat
    BY <1>1, <1>4
  <2> QED BY <1>1, <1>2, <1>4, <2>1 DEF Merge, Signal
<1>6. \A x \in own : x.first \in Times /\ x.last \in Times
  BY EventFacts
<1>7. Times \subseteq Int
  BY FlowAssumption DEF Times
<1> HIDE DEF merged, new
<1>8. /\ \E x \in own \union {e} : merged.first = x.first
      /\ \A x \in own \union {e} : merged.first <= x.first
  <2>1. PICK y \in own : s.first = y.first
    BY DEF SumsUp
  <2>2. s.first \in Int /\ e.first \in Int
    BY <1>1, <1>4, <1>7
  <2>3. merged.first <= e.first /\ merged.first <= s.first /\ merged.first \in Int
    BY <1>3, <2>2
  <2>4. ASSUME NEW x \in own PROVE merged.first <= x.first
    <3>1. x.first \in Int /\ s.first <= x.first
      BY <1>6, <1>7 DEF SumsUp
    <3> QED BY <3>1, <2>2, <2>3
  <2>5. merged.first = y.first \/ merged.first = e.first
    BY <1>3, <2>1
  <2> QED BY <2>3, <2>4, <2>5
<1>9. /\ \E x \in own \union {e} : merged.last = x.last /\ merged.message = x.message
      /\ \A x \in own \union {e} : x.last <= merged.last
  <2>1. PICK y \in own : s.last = y.last /\ s.message = y.message
    BY DEF SumsUp
  <2>2. s.last \in Int /\ e.last \in Int
    BY <1>1, <1>4, <1>7
  <2>3. e.last <= merged.last /\ s.last <= merged.last /\ merged.last \in Int
    BY <1>3, <2>2
  <2>4. ASSUME NEW x \in own PROVE x.last <= merged.last
    <3>1. x.last \in Int /\ x.last <= s.last
      BY <1>6, <1>7 DEF SumsUp
    <3> QED BY <3>1, <2>2, <2>3
  <2>5. \/ merged.last = y.last /\ merged.message = y.message
        \/ merged.last = e.last /\ merged.message = e.message
    BY <1>3, <2>1
  <2> QED BY <2>3, <2>4, <2>5
<1>10. merged.count = Total(own \union {e}, more)
  BY <1>3 DEF SumsUp
<1>11. SumsUp(merged, own \union {e}, more)
  BY <1>8, <1>9, <1>10 DEF SumsUp
<1> QED BY <1>3, <1>5, <1>11 DEF merged, new

(* The Signal after an Event: its own for a new fingerprint, and all       *)
(* others as they were.                                                    *)
LEMMA SightSignals ==
  ASSUME FlowInv, NEW e \in Events, Sight(e)
  PROVE  SignalInv' /\ InputInv' /\ (\A fp \in DOMAIN signals \ {FingerprintOf(e)} :
                                        signals'[fp] = signals[fp])
                    /\ DOMAIN signals' = DOMAIN signals \union {FingerprintOf(e)}
                    /\ signals'[FingerprintOf(e)].last =
                         IF FingerprintOf(e) \in DOMAIN signals
                         THEN IF e.last > signals[FingerprintOf(e)].last
                              THEN e.last ELSE signals[FingerprintOf(e)].last
                         ELSE e.last
<1> DEFINE fp0 == FingerprintOf(e)
           new == NormalizeEvent(e)
           own == SightingsOf(fp0)
           old == signals[fp0]
           value == IF fp0 \in DOMAIN signals THEN Merge(old, new) ELSE new
<1>1. /\ e.resource \in Resources /\ e.message \in Messages
      /\ e.first \in Times /\ e.last \in Times /\ e.count \in Nat
  BY EventFacts
<1>2. DOMAIN seen' = DOMAIN seen \union {e}
  BY BagAdds DEF Sight
<1>3. \A x \in DOMAIN seen \ {e} : seen'[x] = seen[x] /\ seen[x] \in Nat
  <2> SUFFICES ASSUME NEW x \in DOMAIN seen \ {e} PROVE seen'[x] = seen[x] /\ seen[x] \in Nat
    OBVIOUS
  <2>1. seen[x] \in Nat
    BY DEF FlowInv, InputInv
  <2>2. seen'[x] = seen[x] + 0
    BY ZenonT(60), BagAdds DEF Sight
  <2> QED BY <2>1, <2>2
<1>4. e \in DOMAIN seen => seen[e] \in Nat
  BY DEF FlowInv, InputInv
<1>5. seen'[e] = IF e \in DOMAIN seen THEN seen[e] + 1 ELSE 1
  <2>1. seen'[e] = IF e \in DOMAIN seen THEN seen[e] + 1 ELSE 0 + 1
    BY BagAdds DEF Sight
  <2> QED BY <2>1
<1>6. InputInv'
  <2>1. seen' = [x \in DOMAIN seen' |-> seen'[x]]
    BY DEF Sight, (+)
  <2>2. \A x \in DOMAIN seen' : seen'[x] \in Nat
    BY <1>2, <1>3, <1>4, <1>5
  <2>3. seen' \in [DOMAIN seen' -> Nat]
    BY <2>1, <2>2
  <2>4. IsFiniteSet(DOMAIN seen')
    BY <1>2, FS_AddElement DEF FlowInv, InputInv
  <2>5. inputs' \in Nat /\ UNCHANGED <<findings, selected>>
    BY DEF Sight, Input, FlowInv, InputInv
  <2>6. DOMAIN seen' \subseteq Events
    BY <1>2 DEF FlowInv, InputInv
  <2> QED BY <2>3, <2>4, <2>5, <2>6 DEF FlowInv, InputInv
<1>7. signals' = Put(signals, fp0, value)
  BY DEF Sight, AddSignal
<1>8. /\ DOMAIN signals' = DOMAIN signals \union {fp0} /\ signals'[fp0] = value
      /\ \A fp \in DOMAIN signals \ {fp0} : signals'[fp] = signals[fp]
  <2> HIDE DEF value, fp0
  <2> QED BY <1>7 DEF Put
<1>9. \A fp : SightingsOf(fp)' = IF fp = fp0 THEN own \union {e} ELSE SightingsOf(fp)
  BY <1>2 DEF SightingsOf
<1>10. own \subseteq DOMAIN seen /\ own \subseteq Events /\ IsFiniteSet(own)
  <2>1. own \subseteq DOMAIN seen
    BY DEF SightingsOf
  <2> QED BY <2>1, FS_Subset DEF FlowInv, InputInv
<1>11. \A x \in DOMAIN seen : Weight(x, seen) \in Int
  <2> SUFFICES ASSUME NEW x \in DOMAIN seen PROVE Weight(x, seen) \in Int
    OBVIOUS
  <2>1. x.count \in Nat /\ seen[x] \in Nat
    BY EventFacts DEF FlowInv, InputInv
  <2> QED BY <2>1 DEF Weight
<1>12. Weight(e, seen') = IF e \in own THEN Weight(e, seen) + e.count ELSE e.count
  <2>1. e \in own <=> e \in DOMAIN seen
    BY DEF SightingsOf
  <2>2. e \in DOMAIN seen => e.count * (seen[e] + 1) = e.count * seen[e] + e.count
    BY <1>1, <1>4
  <2>3. e.count * 1 = e.count
    BY <1>1
  <2> QED BY <1>5, <2>1, <2>2, <2>3 DEF Weight
<1>13. \A x \in DOMAIN seen \ {e} : Weight(x, seen') = Weight(x, seen)
  BY <1>3 DEF Weight
<1>14. Total(own \union {e}, seen') = Total(own, seen) + e.count /\ Total(own, seen) \in Int
  <2>1. Weighted(own, seen)
    BY <1>10, <1>11 DEF Weighted
  <2>2. \A x \in own \ {e} : Weight(x, seen') = Weight(x, seen)
    BY <1>10, <1>13
  <2>3. e.count \in Int
    BY <1>1
  <2> HIDE DEF own
  <2> QED BY <1>10, <1>12, <2>1, <2>2, <2>3, TotalGrows
<1> HIDE DEF own
<1>15. /\ value \in Signal /\ value.id = value.resource /\ value.resource = fp0[1]
       /\ SumsUp(value, own \union {e}, seen')
       /\ value.last = IF fp0 \in DOMAIN signals
                       THEN IF e.last > old.last THEN e.last ELSE old.last
                       ELSE e.last
  <2>1. CASE fp0 \in DOMAIN signals
    <3>1. /\ old \in Signal /\ old.id = old.resource /\ SumsUp(old, own, seen)
          /\ old.resource = fp0[1]
      BY <2>1 DEF FlowInv, SignalInv, own
    <3> QED BY <2>1, <3>1, <1>10, <1>14, MergeSumsUp
  <2>2. CASE fp0 \notin DOMAIN signals
    <3>1. own = {}
      BY <2>2 DEF FlowInv, SignalInv, own, SightingsOf
    <3>2. Total(own, seen) = 0
      <4>1. PICK sum : AreSums(sum, own, seen) /\ Total(own, seen) = sum[own]
        BY <1>10, TotalIsSum
      <4> QED BY <4>1, <3>1 DEF AreSums, NextSum
    <3>3. Total(own \union {e}, seen') = e.count /\ own \union {e} = {e}
      BY <3>1, <3>2, <1>14, <1>1
    <3>4. /\ new \in Signal /\ new.id = new.resource /\ new.first = e.first
          /\ new.last = e.last /\ new.message = e.message /\ new.count = e.count
          /\ new.resource = fp0[1]
      BY <1>1 DEF NormalizeEvent, Signal, FingerprintOf
    <3>5. e.first <= e.first /\ e.last <= e.last
      BY <1>1, FlowAssumption DEF Times
    <3>6. SumsUp(new, {e}, seen')
      BY <3>3, <3>4, <3>5 DEF SumsUp
    <3> QED BY <2>2, <3>3, <3>4, <3>6
  <2> QED BY <2>1, <2>2
<1>16. ASSUME NEW fp \in DOMAIN signals \ {fp0}
       PROVE  SumsUp(signals[fp], SightingsOf(fp), seen')
  <2> DEFINE S == SightingsOf(fp)
  <2>1. SumsUp(signals[fp], S, seen)
    BY DEF FlowInv, SignalInv
  <2>2. S \subseteq DOMAIN seen \ {e} /\ IsFiniteSet(S)
    <3>1. S \subseteq DOMAIN seen /\ e \notin S
      BY DEF SightingsOf
    <3> QED BY <3>1, FS_Subset DEF FlowInv, InputInv
  <2>3. Total(S, seen') = Total(S, seen)
    <3>1. PICK sum : AreSums(sum, S, seen) /\ Total(S, seen) = sum[S]
      BY <2>2, TotalIsSum
    <3>2. PICK summed : AreSums(summed, S, seen') /\ Total(S, seen') = summed[S]
      BY <2>2, TotalIsSum
    <3>3. \A x \in S : Weight(x, seen) = Weight(x, seen')
      BY <2>2, <1>13
    <3> HIDE DEF S
    <3> QED BY <3>1, <3>2, <3>3, <2>2, SumsAgree
  <2> QED BY <2>1, <2>3 DEF SumsUp
<1>17. SignalInv'
  <2>1. DOMAIN signals' = {FingerprintOf(x) : x \in DOMAIN seen'}
    BY <1>2, <1>8 DEF FlowInv, SignalInv
  <2>2. \A fp \in DOMAIN signals' : /\ signals'[fp] \in Signal
                                    /\ signals'[fp].id = signals'[fp].resource
                                    /\ signals'[fp].resource = fp[1]
                                    /\ SumsUp(signals'[fp], SightingsOf(fp)', seen')
    <3> SUFFICES ASSUME NEW fp \in DOMAIN signals'
                 PROVE  /\ signals'[fp] \in Signal
                        /\ signals'[fp].id = signals'[fp].resource
                        /\ signals'[fp].resource = fp[1]
                        /\ SumsUp(signals'[fp], SightingsOf(fp)', seen')
      OBVIOUS
    <3>1. CASE fp = fp0
      <4>1. SightingsOf(fp)' = own \union {e}
        BY <3>1, <1>9
      <4> QED BY <3>1, <4>1, <1>8, <1>15
    <3>2. CASE fp # fp0
      <4>1. SightingsOf(fp)' = SightingsOf(fp)
        BY <3>2, <1>9
      <4>2. fp \in DOMAIN signals \ {fp0}
        BY <3>2, <1>8
      <4> QED BY <4>1, <4>2, <1>8, <1>16 DEF FlowInv, SignalInv
    <3> QED BY <3>1, <3>2
  <2>3. signals' \in [DOMAIN signals' -> Signal]
    <3>1. signals' = [fp \in DOMAIN signals' |-> signals'[fp]]
      BY <1>7 DEF Put
    <3> QED BY <3>1, <2>2
  <2> QED BY <2>1, <2>2, <2>3 DEF SignalInv
<1> QED BY <1>6, <1>8, <1>15, <1>17

(* Add with a source that is known only makes its evidence fresher; with   *)
(* one that is not, it takes the given ID (store.go:24-36).                *)
LEMMA KnownEvidence ==
  ASSUME NEW id, NEW source, NEW at, AddEvidence(id, source, at), source \in DOMAIN dedup,
         dedup[source] \in DOMAIN items
  PROVE  /\ dedup' = dedup /\ DOMAIN items' = DOMAIN items
         /\ \A k \in DOMAIN items \ {dedup[source]} : items'[k] = items[k]
         /\ items'[dedup[source]] = [items[dedup[source]] EXCEPT !.at = IF at > @ THEN at ELSE @]
BY DEF AddEvidence

LEMMA NewEvidence ==
  ASSUME NEW id, NEW source, NEW at, AddEvidence(id, source, at), source \notin DOMAIN dedup
  PROVE  /\ DOMAIN dedup' = DOMAIN dedup \union {source} /\ dedup'[source] = id
         /\ \A k \in DOMAIN dedup \ {source} : dedup'[k] = dedup[k]
         /\ DOMAIN items' = DOMAIN items \union {id}
         /\ items'[id] = [source |-> source, at |-> at]
         /\ \A k \in DOMAIN items \ {id} : items'[k] = items[k]
<1>1. /\ items' = Put(items, id, [source |-> source, at |-> at])
      /\ dedup' = Put(dedup, source, id)
  BY DEF AddEvidence
<1> QED BY <1>1 DEF Put

LEMMA SightEvidence ==
  ASSUME FlowInv, NEW e \in Events, Sight(e)
  PROVE  EvidenceInv'
<1> DEFINE fp0 == FingerprintOf(e)
           id0 == inputs'
<1>1. fp0 \in Fingerprints /\ e.last \in Times
  BY EventFacts
<1>2. id0 = inputs + 1 /\ inputs \in Nat /\ AddEvidence(id0, fp0, e.last)
  BY DEF Sight, Input, FlowInv, InputInv
<1>3. /\ \A fp \in DOMAIN signals \ {fp0} : signals'[fp] = signals[fp]
      /\ DOMAIN signals' = DOMAIN signals \union {fp0}
      /\ signals'[fp0].last = IF fp0 \in DOMAIN signals
                              THEN IF e.last > signals[fp0].last
                                   THEN e.last ELSE signals[fp0].last
                              ELSE e.last
  BY SightSignals
<1>4. id0 \notin DOMAIN items /\ id0 # RuleId /\ \A k \in DOMAIN items : k \in 0 .. id0
  BY <1>2 DEF FlowInv, EvidenceInv, RuleId
<1>5. \A r : RuleSource(r) # fp0
  BY <1>1, RuleIsNoFingerprint
<1>6. DOMAIN signals \subseteq Fingerprints
  BY EventFacts DEF FlowInv, InputInv, SignalInv
<1>7. EvidenceInv
  BY DEF FlowInv
<1> HIDE DEF fp0, id0
<1>8. CASE fp0 \in DOMAIN dedup
  <2> DEFINE known == dedup[fp0]
  <2>1. fp0 \in DOMAIN signals
    BY <1>1, <1>7, <1>8 DEF EvidenceInv
  <2>2. /\ known \in DOMAIN items \ {RuleId}
        /\ items[known] = [source |-> fp0, at |-> signals[fp0].last]
    BY <2>1, <1>7 DEF EvidenceInv
  <2>3. /\ dedup' = dedup /\ DOMAIN items' = DOMAIN items
        /\ \A k \in DOMAIN items \ {known} : items'[k] = items[k]
        /\ items'[known] = [items[known] EXCEPT !.at = IF e.last > @ THEN e.last ELSE @]
    BY <1>2, <1>8, <2>2, KnownEvidence
  <2>4. items'[known] = [source |-> fp0, at |-> signals'[fp0].last]
    BY <2>1, <2>2, <2>3, <1>3
  <2>5. DOMAIN signals' = DOMAIN signals
    BY <2>1, <1>3
  <2>6. ASSUME NEW fp \in DOMAIN signals \ {fp0} PROVE dedup[fp] # known
    <3>1. items[dedup[fp]] = [source |-> fp, at |-> signals[fp].last]
      BY <1>7 DEF EvidenceInv
    <3>2. items[known].source = fp0
      BY <2>2
    <3> QED BY <3>1, <3>2
  <2> HIDE DEF known
  <2>7. \A fp \in DOMAIN signals' :
          /\ dedup'[fp] \in DOMAIN items' \ {RuleId}
          /\ items'[dedup'[fp]] = [source |-> fp, at |-> signals'[fp].last]
    <3> SUFFICES ASSUME NEW fp \in DOMAIN signals
                 PROVE  /\ dedup[fp] \in DOMAIN items \ {RuleId}
                        /\ items'[dedup[fp]] = [source |-> fp, at |-> signals'[fp].last]
      BY <2>3, <2>5
    <3>1. CASE fp = fp0
      BY <3>1, <2>2, <2>4 DEF known
    <3>2. CASE fp # fp0
      <4>1. /\ dedup[fp] \in DOMAIN items \ {RuleId} /\ dedup[fp] # known
            /\ items[dedup[fp]] = [source |-> fp, at |-> signals[fp].last]
        BY <3>2, <2>6, <1>7 DEF EvidenceInv
      <4> QED BY <3>2, <4>1, <2>3, <1>3
    <3> QED BY <3>1, <3>2
  <2>8. \A k \in DOMAIN items : items'[k].source = items[k].source
    BY <2>2, <2>3, <2>4
  <2>9. RuleId \in DOMAIN items => items'[RuleId] = items[RuleId]
    BY <2>2, <2>3
  <2>10. \A k \in DOMAIN items' : k \in 0 .. inputs'
    BY <1>4, <2>3 DEF id0
  <2> QED BY <1>7, <2>3, <2>5, <2>7, <2>8, <2>9, <2>10 DEF EvidenceInv
<1>9. CASE fp0 \notin DOMAIN dedup
  <2>1. fp0 \notin DOMAIN signals
    BY <1>1, <1>7, <1>9 DEF EvidenceInv
  <2>2. /\ DOMAIN dedup' = DOMAIN dedup \union {fp0} /\ dedup'[fp0] = id0
        /\ \A k \in DOMAIN dedup \ {fp0} : dedup'[k] = dedup[k]
        /\ DOMAIN items' = DOMAIN items \union {id0}
        /\ items'[id0] = [source |-> fp0, at |-> e.last]
        /\ \A k \in DOMAIN items \ {id0} : items'[k] = items[k]
    <3>1. AddEvidence(id0, fp0, e.last)
      BY <1>2
    <3> QED BY <3>1, <1>9, NewEvidence
  <2>3. \A fp \in DOMAIN signals' :
          /\ dedup'[fp] \in DOMAIN items' \ {RuleId}
          /\ items'[dedup'[fp]] = [source |-> fp, at |-> signals'[fp].last]
    <3> SUFFICES ASSUME NEW fp \in DOMAIN signals'
                 PROVE  /\ dedup'[fp] \in DOMAIN items' \ {RuleId}
                        /\ items'[dedup'[fp]] = [source |-> fp, at |-> signals'[fp].last]
      OBVIOUS
    <3>1. CASE fp = fp0
      BY <3>1, <2>1, <2>2, <1>3, <1>4
    <3>2. CASE fp # fp0
      <4>1. fp \in DOMAIN signals
        BY <3>2, <1>3
      <4>2. /\ dedup[fp] \in DOMAIN items \ {RuleId} /\ fp \in DOMAIN dedup
            /\ items[dedup[fp]] = [source |-> fp, at |-> signals[fp].last]
        BY <4>1, <1>6, <1>7 DEF EvidenceInv
      <4> QED BY <3>2, <4>1, <4>2, <2>2, <1>3, <1>4
    <3> QED BY <3>1, <3>2
  <2>4. \A k \in DOMAIN items' \ {RuleId} :
          items'[k].source \in DOMAIN signals' /\ dedup'[items'[k].source] = k
    <3> SUFFICES ASSUME NEW k \in DOMAIN items' \ {RuleId}
                 PROVE  items'[k].source \in DOMAIN signals' /\ dedup'[items'[k].source] = k
      OBVIOUS
    <3>1. CASE k = id0
      BY <3>1, <2>2, <1>3
    <3>2. CASE k # id0
      <4>1. k \in DOMAIN items \ {RuleId}
        BY <3>2, <2>2
      <4>2. items[k].source \in DOMAIN signals /\ dedup[items[k].source] = k
        BY <4>1, <1>7 DEF EvidenceInv
      <4>3. items[k].source # fp0 /\ items[k].source \in DOMAIN dedup
        BY <4>2, <2>1, <1>6, <1>7 DEF EvidenceInv
      <4> QED BY <3>2, <4>1, <4>2, <4>3, <2>2, <1>3
    <3> QED BY <3>1, <3>2
  <2>5. \A fp \in Fingerprints : fp \in DOMAIN dedup' <=> fp \in DOMAIN signals'
    BY <2>2, <1>3, <1>7 DEF EvidenceInv
  <2>6. \A r \in Resources : RuleSource(r) \in DOMAIN dedup' =>
                               RuleId \in DOMAIN items' /\ dedup'[RuleSource(r)] = RuleId
    BY <2>2, <1>5, <1>7 DEF EvidenceInv
  <2>7. RuleId \in DOMAIN items' =>
          items'[RuleId] \in [source : {RuleSource(r) : r \in Resources}, at : Times]
    BY <2>2, <1>4, <1>7 DEF EvidenceInv
  <2>8. \A k \in DOMAIN items' : k \in 0 .. inputs'
    BY <1>2, <1>4, <2>2 DEF id0
  <2> QED BY <2>3, <2>4, <2>5, <2>6, <2>7, <2>8 DEF EvidenceInv
<1> QED BY <1>8, <1>9

LEMMA JudgeStep ==
  ASSUME FlowInv, NEW r \in Resources, NEW at \in Times, Judge(r, at)
  PROVE  FlowInv'
<1> DEFINE source == RuleSource(r)
<1>1. /\ AddEvidence(RuleId, source, at) /\ inputs' = inputs + 1 /\ inputs \in Nat
      /\ UNCHANGED <<seen, signals, findings, selected>>
  BY DEF Judge, Input, FlowInv, InputInv
<1>2. InputInv' /\ SignalInv'
  BY <1>1 DEF FlowInv, InputInv, SignalInv, SightingsOf
<1>3. EvidenceInv
  BY DEF FlowInv
<1>4. \A k \in DOMAIN items : k \in 0 .. inputs'
  BY <1>1, <1>3 DEF EvidenceInv
<1>5. DOMAIN signals \subseteq Fingerprints
  BY EventFacts DEF FlowInv, InputInv, SignalInv
<1>6. \A fp \in Fingerprints : source # fp
  BY RuleIsNoFingerprint
<1> HIDE DEF source
<1>7. CASE source \in DOMAIN dedup
  <2>1. dedup[source] = RuleId /\ RuleId \in DOMAIN items
    BY <1>3, <1>7 DEF EvidenceInv, source
  <2>2. /\ dedup' = dedup /\ DOMAIN items' = DOMAIN items
        /\ \A k \in DOMAIN items \ {RuleId} : items'[k] = items[k]
        /\ items'[RuleId] = [items[RuleId] EXCEPT !.at = IF at > @ THEN at ELSE @]
    <3>1. AddEvidence(RuleId, source, at)
      BY <1>1
    <3> QED BY <3>1, <2>1, <1>7, KnownEvidence
  <2>3. items[RuleId] \in [source : {RuleSource(x) : x \in Resources}, at : Times]
    BY <2>1, <1>3 DEF EvidenceInv
  <2>4. items'[RuleId] \in [source : {RuleSource(x) : x \in Resources}, at : Times]
    BY <2>2, <2>3
  <2>5. EvidenceInv'
    BY <1>1, <1>3, <1>4, <2>2, <2>4 DEF EvidenceInv
  <2> QED BY <1>2, <2>5 DEF FlowInv
<1>8. CASE source \notin DOMAIN dedup
  <2>1. /\ DOMAIN dedup' = DOMAIN dedup \union {source} /\ dedup'[source] = RuleId
        /\ \A k \in DOMAIN dedup \ {source} : dedup'[k] = dedup[k]
        /\ DOMAIN items' = DOMAIN items \union {RuleId}
        /\ items'[RuleId] = [source |-> source, at |-> at]
        /\ \A k \in DOMAIN items \ {RuleId} : items'[k] = items[k]
    <3>1. AddEvidence(RuleId, source, at)
      BY <1>1
    <3> QED BY <3>1, <1>8, NewEvidence
  <2>2. items'[RuleId] \in [source : {RuleSource(x) : x \in Resources}, at : Times]
    BY <2>1 DEF source
  <2>3. RuleId \in 0 .. inputs'
    BY <1>1 DEF RuleId
  <2>4. \A fp \in Fingerprints : fp \in DOMAIN dedup' <=> fp \in DOMAIN signals'
    BY <1>1, <1>3, <1>6, <2>1 DEF EvidenceInv
  <2>5. \A fp \in DOMAIN signals : dedup'[fp] = dedup[fp]
    BY <1>3, <1>5, <1>6, <2>1 DEF EvidenceInv
  <2>6. \A k \in DOMAIN items \ {RuleId} :
          items'[k].source \in DOMAIN signals /\ dedup'[items'[k].source] = k
    BY <1>3, <2>1, <2>5 DEF EvidenceInv
  <2>7. \A fp \in DOMAIN signals' :
          /\ dedup'[fp] \in DOMAIN items' \ {RuleId}
          /\ items'[dedup'[fp]] = [source |-> fp, at |-> signals'[fp].last]
    BY <1>1, <1>3, <2>1, <2>5 DEF EvidenceInv
  <2>8. \A x \in Resources : RuleSource(x) \in DOMAIN dedup' =>
                               RuleId \in DOMAIN items' /\ dedup'[RuleSource(x)] = RuleId
    BY <1>3, <2>1 DEF EvidenceInv
  <2>9. EvidenceInv'
    BY <1>1, <1>4, <2>1, <2>2, <2>3, <2>4, <2>6, <2>7, <2>8 DEF EvidenceInv
  <2> QED BY <1>2, <2>9 DEF FlowInv
<1> QED BY <1>7, <1>8

LEMMA FindStep ==
  ASSUME FlowInv, NEW f \in Finding, Find(f)
  PROVE  FlowInv'
<1>1. /\ inputs' = inputs + 1 /\ inputs \in Nat /\ findings' = findings \union {f}
      /\ UNCHANGED <<seen, signals, items, dedup, selected>>
  BY DEF Find, Input, FlowInv, InputInv
<1>2. IsFiniteSet(findings')
  BY <1>1, FS_AddElement DEF FlowInv, InputInv
<1>3. InputInv' /\ SignalInv'
  <2>1. findings' \subseteq Finding /\ inputs' \in Nat
    BY <1>1 DEF FlowInv, InputInv
  <2>2. InputInv'
    BY <1>1, <1>2, <2>1 DEF FlowInv, InputInv
  <2>3. SignalInv'
    BY <1>1 DEF FlowInv, SignalInv, SightingsOf
  <2> QED BY <2>2, <2>3
<1>4. DOMAIN items \subseteq 0 .. inputs'
  BY <1>1 DEF FlowInv, EvidenceInv
<1>5. EvidenceInv'
  BY <1>1, <1>4 DEF FlowInv, EvidenceInv
<1> QED BY <1>3, <1>5 DEF FlowInv

LEMMA FlowStep == FlowInv /\ [Next]_vars => FlowInv'
<1> SUFFICES ASSUME FlowInv, [Next]_vars PROVE FlowInv'
  OBVIOUS
<1>1. ASSUME NEW e \in Events, Sight(e) PROVE FlowInv'
  BY <1>1, SightSignals, SightEvidence DEF FlowInv
<1>2. ASSUME NEW r \in Resources, NEW at \in Times, Judge(r, at) PROVE FlowInv'
  BY <1>2, JudgeStep
<1>3. ASSUME NEW f \in Finding, Find(f) PROVE FlowInv'
  BY <1>3, FindStep
<1>4. CASE UNCHANGED vars
  BY <1>4 DEF vars, FlowInv, InputInv, SignalInv, EvidenceInv, SightingsOf
<1> QED BY <1>1, <1>2, <1>3, <1>4 DEF Next

(* The Events delivered, the Signals that SignalAccumulator.Add keeps and  *)
(* the items of the evidence Store fit each other in every state: a Signal *)
(* sums up exactly the Events of its fingerprint, and a fingerprint, its   *)
(* ID and its item lead back to each other.                                *)
THEOREM FlowHolds == Spec => []FlowInv
<1>1. Init => FlowInv
  BY FlowInit
<1>2. FlowInv /\ [Next]_vars => FlowInv'
  BY FlowStep
<1> QED BY <1>1, <1>2, PTL DEF Spec

LEMMA InvSignals == FlowInv => SignalsAddUp
<1> SUFFICES ASSUME FlowInv, NEW fp \in Fingerprints, SightingsOf(fp) # {}
             PROVE  LET own == SightingsOf(fp)
                        s == signals[fp]
                    IN  /\ s.first = Min({e.first : e \in own})
                        /\ s.last = Max({e.last : e \in own})
                        /\ \E e \in own : e.last = s.last /\ e.message = s.message
                        /\ s.count = Total(own, seen)
  <2>1. ASSUME FlowInv, NEW fp \in Fingerprints, SightingsOf(fp) = {}
        PROVE  fp \notin DOMAIN signals
    BY <2>1 DEF FlowInv, SignalInv, SightingsOf
  <2> QED BY <2>1 DEF SignalsAddUp, Total
<1> DEFINE own == SightingsOf(fp)
           s == signals[fp]
<1>1. fp \in DOMAIN signals
  BY DEF FlowInv, SignalInv, SightingsOf
<1>2. SumsUp(s, own, seen)
  BY <1>1 DEF FlowInv, SignalInv
<1>3. \A e \in own : e.first \in Int /\ e.last \in Int
  <2> SUFFICES ASSUME NEW e \in own PROVE e.first \in Int /\ e.last \in Int
    OBVIOUS
  <2>1. e \in Events
    BY DEF SightingsOf, FlowInv, InputInv
  <2> QED BY <2>1, EventFacts, FlowAssumption DEF Times
<1> HIDE DEF own, s
<1>4. s.first = Min({e.first : e \in own})
  <2>1. s.first \in {e.first : e \in own} /\ \A t \in {e.first : e \in own} : s.first <= t
    BY <1>2 DEF SumsUp
  <2>2. {e.first : e \in own} \in SUBSET Int
    BY <1>3
  <2> QED BY <2>1, <2>2, MinIs
<1>5. s.last = Max({e.last : e \in own})
  <2>1. s.last \in {e.last : e \in own} /\ \A t \in {e.last : e \in own} : t <= s.last
    BY <1>2 DEF SumsUp
  <2>2. {e.last : e \in own} \in SUBSET Int
    BY <1>3
  <2> QED BY <2>1, <2>2, MaxIs
<1> QED BY <1>2, <1>4, <1>5 DEF SumsUp, own, s

LEMMA InvEvidence == FlowInv => EvidenceCountsOnce
<1> SUFFICES ASSUME FlowInv PROVE EvidenceCountsOnce
  OBVIOUS
<1>1. DOMAIN signals \subseteq Fingerprints
  BY EventFacts DEF FlowInv, InputInv, SignalInv
<1>2. ASSUME NEW fp \in DOMAIN signals
      PROVE  /\ Cardinality({id \in DOMAIN items : items[id].source = fp}) = 1
             /\ items[dedup[fp]] = [source |-> fp, at |-> signals[fp].last]
  <2>1. /\ dedup[fp] \in DOMAIN items
        /\ items[dedup[fp]] = [source |-> fp, at |-> signals[fp].last]
    BY DEF FlowInv, EvidenceInv
  <2>2. ASSUME NEW id \in DOMAIN items, items[id].source = fp PROVE id = dedup[fp]
    <3>1. CASE id = RuleId
      <4>1. PICK r \in Resources : items[id].source = RuleSource(r)
        BY <3>1 DEF FlowInv, EvidenceInv
      <4> QED BY <4>1, <2>2, <1>1, RuleIsNoFingerprint
    <3>2. CASE id # RuleId
      BY <3>2, <2>2 DEF FlowInv, EvidenceInv
    <3> QED BY <3>1, <3>2
  <2>3. {id \in DOMAIN items : items[id].source = fp} = {dedup[fp]}
    BY <2>1, <2>2
  <2> QED BY <2>1, <2>3, FS_Singleton
<1>3. ASSUME NEW r \in Resources, RuleSource(r) \in DOMAIN dedup
      PROVE  \E other \in Resources : items[RuleId].source = RuleSource(other)
  BY <1>3 DEF FlowInv, EvidenceInv
<1> QED BY <1>2, <1>3 DEF EvidenceCountsOnce

(* In whatever order and however often the Events of a series arrive,      *)
(* SignalAccumulator.Add leaves a Signal that spans them all, has the      *)
(* message of a latest one, and counts every delivery in full.             *)
THEOREM SignalsCount == Spec => []SignalsAddUp
BY FlowHolds, InvSignals, PTL

(* Store.Add keeps one item for a fingerprint, which is as fresh as its    *)
(* Signal, in any order of arrival; a rule that asks again is answered     *)
(* with evidence of that rule.                                             *)
THEOREM EvidenceCounts == Spec => []EvidenceCountsOnce
BY FlowHolds, InvEvidence, PTL

-----------------------------------------------------------------------------
(* Findings in the order of their times.                                   *)
Sorted(s, A) ==
  /\ s \in [1 .. Cardinality(A) -> A]
  /\ \A i, j \in 1 .. Cardinality(A) : i < j => s[i] # s[j] /\ s[i].at <= s[j].at

LEMMA FindingTimes ==
  ASSUME NEW f \in Finding
  PROVE  f.at \in Nat /\ f.at <= MaxTime /\ f.resource \in Resources /\ f.severity \in Nat
<1>1. f.at \in 0 .. MaxTime /\ f.resource \in Resources /\ f.severity \in Severities
  BY DEF Finding, Times
<1>2. f.at \in Nat /\ f.at <= MaxTime
  BY <1>1, FlowAssumption
<1>3. f.severity \in Nat
  BY <1>1, FlowAssumption
<1> QED BY <1>1, <1>2, <1>3

LEMMA LatestExists ==
  ASSUME NEW A \in SUBSET Finding, A # {}
  PROVE  \E f \in A : \A g \in A : g.at <= f.at
<1> DEFINE Lags == {MaxTime - f.at : f \in A}
<1>1. \A f \in A : MaxTime - f.at \in Nat /\ f.at \in Nat
  <2> SUFFICES ASSUME NEW f \in A PROVE MaxTime - f.at \in Nat /\ f.at \in Nat
    OBVIOUS
  <2>1. f.at \in Nat /\ f.at <= MaxTime
    BY FindingTimes
  <2> QED BY <2>1, FlowAssumption
<1>2. PICK lag \in Lags : \A other \in Lags : lag <= other
  <2>1. Lags \in SUBSET Nat /\ Lags # {}
    BY <1>1
  <2> HIDE DEF Lags
  <2> QED BY <2>1, SmallestMember
<1>3. PICK f \in A : lag = MaxTime - f.at
  BY <1>2
<1>4. ASSUME NEW g \in A PROVE g.at <= f.at
  <2>1. MaxTime - f.at <= MaxTime - g.at
    BY <1>2, <1>3
  <2> QED BY <2>1, <1>1, FlowAssumption
<1> QED BY <1>4

LEMMA SortedExists ==
  ASSUME NEW A \in SUBSET Finding, IsFiniteSet(A)
  PROVE  \E s : Sorted(s, A)
<1> DEFINE Bad == {n \in Nat : \E B \in SUBSET Finding :
                     IsFiniteSet(B) /\ Cardinality(B) = n /\ ~ \E s : Sorted(s, B)}
<1>1. Bad = {}
  <2> SUFFICES ASSUME Bad # {} PROVE FALSE
    OBVIOUS
  <2>1. PICK n \in Bad : \A m \in Bad : n <= m
    <3>1. Bad \in SUBSET Nat
      OBVIOUS
    <3> HIDE DEF Bad
    <3> QED BY <3>1, SmallestMember
  <2>2. PICK B \in SUBSET Finding : IsFiniteSet(B) /\ Cardinality(B) = n /\ ~ \E s : Sorted(s, B)
    BY <2>1
  <2>3. n \in Nat
    OBVIOUS
  <2>4. B # {}
    <3> SUFFICES ASSUME B = {} PROVE FALSE
      OBVIOUS
    <3>1. Cardinality(B) = 0
      BY FS_EmptySet
    <3>2. Sorted([i \in 1 .. 0 |-> 0], B)
      BY <3>1 DEF Sorted
    <3> QED BY <3>2, <2>2
  <2>5. PICK x \in B : \A y \in B : y.at <= x.at
    BY <2>4, LatestExists
  <2> DEFINE R == B \ {x}
  <2>6. IsFiniteSet(R) /\ Cardinality(R) = n - 1 /\ n - 1 \in Nat
    <3>1. IsFiniteSet(R) /\ Cardinality(R) = Cardinality(B) - 1
      BY <2>2, FS_RemoveElement
    <3>2. Cardinality(R) \in Nat
      BY <3>1, FS_CardinalityType
    <3> QED BY <2>2, <3>1, <3>2
  <2>7. n - 1 \notin Bad
    <3>1. ~ (n <= n - 1)
      BY <2>3
    <3> HIDE DEF Bad
    <3> QED BY <2>1, <3>1
  <2>8. PICK o : Sorted(o, R)
    BY <2>6, <2>7
  <2> DEFINE s == [i \in 1 .. n |-> IF i = n THEN x ELSE o[i]]
  <2>9. \A i \in 1 .. n - 1 : o[i] \in B \ {x} /\ o[i].at <= x.at
    BY <2>5, <2>6, <2>8 DEF Sorted
  <2>10. \A i \in 1 .. n : i # n => i \in 1 .. n - 1
    BY <2>3
  <2>11. s \in [1 .. n -> B]
    BY <2>9, <2>10
  <2>12. ASSUME NEW i \in 1 .. n, NEW j \in 1 .. n, i < j
         PROVE  s[i] # s[j] /\ s[i].at <= s[j].at
    <3>1. i \in 1 .. n - 1
      BY <2>12, <2>3
    <3>2. CASE j = n
      BY <3>1, <3>2, <2>9, <2>10
    <3>3. CASE j # n
      <4>1. j \in 1 .. n - 1
        BY <3>3, <2>10
      <4>2. o[i] # o[j] /\ o[i].at <= o[j].at
        BY <2>12, <3>1, <4>1, <2>6, <2>8 DEF Sorted
      <4> QED BY <4>2, <3>1, <3>3, <2>3
    <3> QED BY <3>2, <3>3
  <2>13. Sorted(s, B)
    <3> HIDE DEF s
    <3> QED BY <2>2, <2>11, <2>12 DEF Sorted
  <2> QED BY <2>2, <2>13
<1>2. Cardinality(A) \notin Bad /\ Cardinality(A) \in Nat
  BY <1>1, FS_CardinalityType
<1> QED BY <1>2

LEMMA ByTimeSorts ==
  ASSUME NEW A \in SUBSET Finding, IsFiniteSet(A)
  PROVE  Sorted(ByTime(A), A)
<1>1. \E s : Sorted(s, A)
  BY SortedExists
<1> QED BY <1>1 DEF Sorted, ByTime

(* A sorted list leaves nothing out.                                       *)
LEMMA SortedCovers ==
  ASSUME NEW A, IsFiniteSet(A), NEW s, Sorted(s, A)
  PROVE  /\ Cardinality(A) \in Nat
         /\ \A f \in A : \E i \in 1 .. Cardinality(A) : s[i] = f
<1> DEFINE n == Cardinality(A)
<1>1. n \in Nat
  BY FS_CardinalityType
<1>2. IsFiniteSet(1 .. n) /\ Cardinality(1 .. n) = n
  <2>1. n \in Int /\ 1 \in Int
    BY <1>1
  <2>2. /\ IsFiniteSet(1 .. n)
        /\ Cardinality(1 .. n) = IF 1 > n THEN 0 ELSE n - 1 + 1
    BY <2>1, FS_Interval
  <2> HIDE DEF n
  <2> QED BY <2>2, <1>1
<1>3. s \in Injection(1 .. n, A)
  <2>1. \A i, j \in 1 .. n : i # j => s[i] # s[j]
    <3> SUFFICES ASSUME NEW i \in 1 .. n, NEW j \in 1 .. n, i # j PROVE s[i] # s[j]
      OBVIOUS
    <3>1. i < j \/ j < i
      BY <1>1
    <3> QED BY <3>1 DEF Sorted
  <2> QED BY <2>1 DEF Sorted, Injection, IsInjective
<1>4. s \in Surjection(1 .. n, A)
  BY <1>2, <1>3, FS_Injection
<1> QED BY <1>1, <1>4 DEF Surjection

-----------------------------------------------------------------------------
(* The runs of a sorted list: a run begins at the first position and after *)
(* every window without a finding.  RunAt is the number of the run that a  *)
(* position is in.                                                         *)
Starts(s, j) == j = 1 \/ s[j].at - s[j - 1].at > Window
RunAt(s, i) == Cardinality({j \in 1 .. i : Starts(s, j)})

LEMMA RunsStep ==
  ASSUME NEW s, NEW i \in Nat
  PROVE  /\ RunAt(s, i) \in Nat /\ RunAt(s, 0) = 0
         /\ RunAt(s, i + 1) = IF Starts(s, i + 1) THEN RunAt(s, i) + 1 ELSE RunAt(s, i)
<1> DEFINE S(k) == {j \in 1 .. k : Starts(s, j)}
<1>1. IsFiniteSet(1 .. i)
  <2>1. i \in Int /\ 1 \in Int
    OBVIOUS
  <2> QED BY <2>1, FS_Interval
<1>2. IsFiniteSet(S(i)) /\ Cardinality(S(i)) \in Nat
  BY <1>1, FS_Subset, FS_CardinalityType
<1>3. S(0) = {}
  OBVIOUS
<1>4. CASE Starts(s, i + 1)
  <2>1. S(i + 1) = S(i) \union {i + 1} /\ i + 1 \notin S(i)
    BY <1>4
  <2>2. Cardinality(S(i) \union {i + 1}) = Cardinality(S(i)) + 1
    <3> HIDE DEF S
    <3> QED BY <1>2, <2>1, FS_AddElement
  <2> QED BY <1>2, <1>3, <1>4, <2>1, <2>2, FS_EmptySet DEF RunAt
<1>5. CASE ~ Starts(s, i + 1)
  <2>1. S(i + 1) = S(i)
    BY <1>5
  <2> QED BY <1>2, <1>3, <1>5, <2>1, FS_EmptySet DEF RunAt
<1> QED BY <1>4, <1>5

(* Later positions are in later runs, and two positions are in one run     *)
(* exactly when no run starts between them.                                *)
LEMMA RunsAscend ==
  ASSUME NEW s, NEW i \in Nat, NEW j \in Nat, i <= j
  PROVE  /\ RunAt(s, i) <= RunAt(s, j)
         /\ RunAt(s, i) = RunAt(s, j) <=> \A k \in i + 1 .. j : ~ Starts(s, k)
<1> DEFINE S(k) == {l \in 1 .. k : Starts(s, l)}
<1>1. IsFiniteSet(1 .. j)
  <2>1. j \in Int /\ 1 \in Int
    OBVIOUS
  <2> QED BY <2>1, FS_Interval
<1>2. IsFiniteSet(S(j))
  BY <1>1, FS_Subset
<1>3. S(i) \in SUBSET S(j)
  OBVIOUS
<1>4. Cardinality(S(i)) <= Cardinality(S(j)) /\ (Cardinality(S(j)) = Cardinality(S(i)) => S(j) = S(i))
  <2> HIDE DEF S
  <2> QED BY <1>2, <1>3, FS_Subset
<1>5. S(i) = S(j) <=> \A k \in i + 1 .. j : ~ Starts(s, k)
  <2>1. ASSUME S(i) = S(j), NEW k \in i + 1 .. j, Starts(s, k) PROVE FALSE
    <3>1. k \in S(j) /\ k \notin S(i)
      BY <2>1
    <3> QED BY <2>1, <3>1
  <2>2. ASSUME \A k \in i + 1 .. j : ~ Starts(s, k), NEW k \in S(j) PROVE k \in S(i)
    <3>1. k \notin i + 1 .. j
      BY <2>2
    <3> QED BY <3>1
  <2> QED BY <1>3, <2>1, <2>2
<1> QED BY <1>4, <1>5 DEF RunAt

-----------------------------------------------------------------------------
(* SplitByWindow cuts a sorted list into its runs.                         *)
CutStep(groups, f) ==
  IF groups = <<>> \/ f.at - LastTime(Last(groups)) > Window
  THEN Append(groups, <<f>>)
  ELSE Append(Front(groups), Append(Last(groups), f))
NextCut(P, s, cut) == IF P = {} THEN <<>> ELSE CutStep(cut[P \ {Max(P)}], s[Max(P)])
AreCuts(cut, s, n) == cut = [P \in SUBSET (1 .. n) |-> NextCut(P, s, cut)]

LEMMA LastPosition ==
  ASSUME NEW n \in Nat, NEW P \in SUBSET (1 .. n), P # {}
  PROVE  Max(P) \in P
<1> DEFINE Flipped == {m \in Nat : n - m \in P}
<1>1. PICK m \in Flipped : \A y \in Flipped : m <= y
  <2>1. PICK x \in P : TRUE
    OBVIOUS
  <2>2. n - x \in Nat /\ n - (n - x) = x
    OBVIOUS
  <2>3. Flipped # {} /\ Flipped \in SUBSET Nat
    BY <2>1, <2>2
  <2> HIDE DEF Flipped
  <2> QED BY <2>3, SmallestMember
<1>2. n - m \in P
  OBVIOUS
<1>3. ASSUME NEW y \in P PROVE y <= n - m
  <2>1. n - y \in Nat /\ n - (n - y) = y
    OBVIOUS
  <2>2. m <= n - y
    BY <2>1, <1>1
  <2> QED BY <2>2
<1>4. P \in SUBSET Int
  OBVIOUS
<1> QED BY <1>2, <1>3, <1>4, MaxIs

LEMMA CutsExist ==
  ASSUME NEW n \in Nat, NEW s
  PROVE  \E cut : AreCuts(cut, s, n)
<1> DEFINE Small(m) == {P \in SUBSET (1 .. n) : Cardinality(P) <= m}
           Have(m) == \E cut : cut = [P \in Small(m) |-> NextCut(P, s, cut)]
           Bad == {m \in Nat : ~ Have(m)}
<1>1. IsFiniteSet(1 .. n)
  <2>1. n \in Int /\ 1 \in Int
    OBVIOUS
  <2> QED BY <2>1, FS_Interval
<1>2. \A P \in SUBSET (1 .. n) : IsFiniteSet(P) /\ Cardinality(P) \in Nat
  BY <1>1, FS_Subset, FS_CardinalityType
<1>3. Bad = {}
  <2> SUFFICES ASSUME Bad # {} PROVE FALSE
    OBVIOUS
  <2>1. PICK m \in Bad : \A k \in Bad : m <= k
    <3>1. Bad \in SUBSET Nat
      OBVIOUS
    <3> HIDE DEF Bad
    <3> QED BY <3>1, SmallestMember
  <2>2. m \in Nat /\ ~ Have(m)
    OBVIOUS
  <2>3. CASE m = 0
    <3>1. \A P \in Small(0) : P = {}
      BY <1>2, FS_EmptySet
    <3>2. [P \in Small(0) |-> <<>>] = [P \in Small(0) |-> NextCut(P, s, [Q \in Small(0) |-> <<>>])]
      BY <3>1 DEF NextCut
    <3> QED BY <3>2, <2>2, <2>3
  <2>4. CASE m # 0
    <3>1. m - 1 \in Nat /\ m - 1 < m
      BY <2>2, <2>4
    <3>2. Have(m - 1)
      <4> HIDE DEF Have
      <4> QED BY <3>1, <2>1, <2>2
    <3>3. PICK old : old = [P \in Small(m - 1) |-> NextCut(P, s, old)]
      BY <3>2
    <3> DEFINE new == [P \in Small(m) |-> NextCut(P, s, old)]
    <3>4. ASSUME NEW P \in Small(m) PROVE NextCut(P, s, old) = NextCut(P, s, new)
      <4>1. CASE P = {}
        BY <4>1 DEF NextCut
      <4>2. CASE P # {}
        <5> DEFINE Q == P \ {Max(P)}
        <5>1. Max(P) \in P
          BY <4>2, LastPosition
        <5>2. Cardinality(Q) = Cardinality(P) - 1
          BY <5>1, <1>2, FS_RemoveElement
        <5>3. Q \in Small(m - 1) /\ Q \in Small(m)
          <6>1. Cardinality(P) <= m /\ Cardinality(P) \in Nat /\ m \in Nat
            BY <1>2
          <6>2. Q \in SUBSET (1 .. n)
            OBVIOUS
          <6>3. Cardinality(Q) <= m - 1 /\ Cardinality(Q) <= m
            BY <5>2, <6>1
          <6> QED BY <6>2, <6>3
        <5>4. old[Q] = NextCut(Q, s, old)
          BY <3>3, <5>3
        <5>5. new[Q] = NextCut(Q, s, old)
          BY <5>3
        <5> QED BY <5>4, <5>5, <4>2 DEF NextCut
      <4> QED BY <4>1, <4>2
    <3>5. new = [P \in Small(m) |-> NextCut(P, s, new)]
      BY <3>4
    <3> HIDE DEF new
    <3> QED BY <3>5, <2>2
  <2> QED BY <2>3, <2>4
<1>4. Have(Cardinality(1 .. n))
  BY <1>2, <1>3
<1>5. Small(Cardinality(1 .. n)) = SUBSET (1 .. n)
  <2> SUFFICES ASSUME NEW P \in SUBSET (1 .. n)
               PROVE  Cardinality(P) <= Cardinality(1 .. n)
    OBVIOUS
  <2> QED BY <1>1, FS_Subset
<1> QED BY <1>4, <1>5 DEF AreCuts

LEMMA SplitIsCut ==
  ASSUME NEW n \in Nat, NEW s, DOMAIN s = 1 .. n
  PROVE  \E cut : AreCuts(cut, s, n) /\ SplitByWindow(s) = cut[1 .. n]
<1> DEFINE cut == CHOOSE c : AreCuts(c, s, n)
<1>1. AreCuts(cut, s, n)
  BY CutsExist
<1>2. SplitByWindow(s) = cut[1 .. n]
  BY DEF SplitByWindow, FoldLeft, MapThenFoldSet, AreCuts, NextCut, CutStep
<1> QED BY <1>1, <1>2

LEMMA CutOfPrefix ==
  ASSUME NEW n \in Nat, NEW s, NEW cut, AreCuts(cut, s, n)
  PROVE  /\ cut[1 .. 0] = <<>>
         /\ \A k \in 0 .. n - 1 : cut[1 .. k + 1] = CutStep(cut[1 .. k], s[k + 1])
<1>1. cut[1 .. 0] = <<>>
  <2>1. 1 .. 0 = {}
    OBVIOUS
  <2> QED BY <2>1 DEF AreCuts, NextCut
<1>2. ASSUME NEW k \in 0 .. n - 1
      PROVE  cut[1 .. k + 1] = CutStep(cut[1 .. k], s[k + 1])
  <2> DEFINE P == 1 .. k + 1
  <2>1. P \in SUBSET (1 .. n) /\ P # {} /\ k + 1 \in P /\ \A j \in P : j <= k + 1
    OBVIOUS
  <2>2. Max(P) = k + 1
    <3>1. P \in SUBSET Int
      OBVIOUS
    <3> HIDE DEF P
    <3> QED BY <2>1, <3>1, MaxIs
  <2>3. P \ {k + 1} = 1 .. k
    OBVIOUS
  <2> HIDE DEF P
  <2> QED BY <2>1, <2>2, <2>3 DEF AreCuts, NextCut, P
<1> QED BY <1>1, <1>2

(* The lists a prefix of k positions has been cut into: as many as runs    *)
(* have begun, the list numbered m being the positions of run m in order.  *)
CutAt(G, s, k) ==
  /\ G \in Seq(Seq(Finding)) /\ Len(G) = RunAt(s, k)
  /\ \A m \in 1 .. Len(G) :
       /\ Len(G[m]) >= 1
       /\ \E a \in 1 .. k :
            /\ a + Len(G[m]) - 1 <= k
            /\ \A p \in 1 .. Len(G[m]) : G[m][p] = s[a + p - 1]
            /\ \A i \in 1 .. k : RunAt(s, i) = m <=> a <= i /\ i < a + Len(G[m])

(* A run that begins.                                                      *)
LEMMA CutBegins ==
  ASSUME NEW n \in Nat, NEW s \in [1 .. n -> Finding], NEW k \in 0 .. n - 1,
         NEW G, CutAt(G, s, k), Starts(s, k + 1)
  PROVE  CutAt(Append(G, <<s[k + 1]>>), s, k + 1)
<1> DEFINE f == s[k + 1]
           H == Append(G, <<f>>)
           L == Len(G)
<1>1. f \in Finding /\ k \in Nat /\ G \in Seq(Seq(Finding)) /\ L \in Nat /\ L = RunAt(s, k)
  BY DEF CutAt
<1>2. /\ H \in Seq(Seq(Finding)) /\ Len(H) = L + 1 /\ H[L + 1] = <<f>>
      /\ \A m \in 1 .. L : H[m] = G[m]
  BY <1>1
<1>3. RunAt(s, k + 1) = L + 1
  BY <1>1, RunsStep
<1>4. \A i \in 1 .. k : RunAt(s, i) \in Nat /\ RunAt(s, i) <= L
  <2> SUFFICES ASSUME NEW i \in 1 .. k PROVE RunAt(s, i) \in Nat /\ RunAt(s, i) <= L
    OBVIOUS
  <2>1. i \in Nat /\ i <= k
    OBVIOUS
  <2>2. RunAt(s, i) \in Nat
    BY <2>1, RunsStep
  <2>3. RunAt(s, i) <= RunAt(s, k)
    BY <2>1, <1>1, RunsAscend
  <2> QED BY <2>2, <2>3, <1>1
<1> HIDE DEF H, L, f
<1>5. ASSUME NEW m \in 1 .. L + 1
      PROVE  /\ Len(H[m]) >= 1
             /\ \E a \in 1 .. k + 1 :
                  /\ a + Len(H[m]) - 1 <= k + 1
                  /\ \A p \in 1 .. Len(H[m]) : H[m][p] = s[a + p - 1]
                  /\ \A i \in 1 .. k + 1 : RunAt(s, i) = m <=> a <= i /\ i < a + Len(H[m])
  <2>1. CASE m = L + 1
    <3>1. H[m] = <<f>> /\ Len(H[m]) = 1 /\ H[m][1] = s[(k + 1) + 1 - 1]
      BY <2>1, <1>2, <1>1 DEF f
    <3>2. \A i \in 1 .. k + 1 : RunAt(s, i) = m <=> k + 1 <= i /\ i < k + 1 + 1
      BY <2>1, <1>1, <1>3, <1>4
    <3>3. \A p \in 1 .. Len(H[m]) : H[m][p] = s[(k + 1) + p - 1]
      BY <3>1
    <3>4. k + 1 \in 1 .. k + 1 /\ (k + 1) + 1 - 1 <= k + 1
      BY <1>1
    <3> QED BY <3>1, <3>2, <3>3, <3>4
  <2>2. CASE m # L + 1
    <3>1. m \in 1 .. L /\ H[m] = G[m]
      BY SMTT(30), <2>2, <1>1, <1>2
    <3>2. Len(G[m]) >= 1 /\ Len(G[m]) \in Nat
      BY <3>1, <1>1 DEF CutAt, L
    <3>3. PICK a \in 1 .. k :
            /\ a + Len(G[m]) - 1 <= k
            /\ \A p \in 1 .. Len(G[m]) : G[m][p] = s[a + p - 1]
            /\ \A i \in 1 .. k : RunAt(s, i) = m <=> a <= i /\ i < a + Len(G[m])
      BY <3>1 DEF CutAt, L
    <3>4. a \in 1 .. k + 1 /\ a + Len(G[m]) - 1 <= k + 1 /\ ~ (k + 1 < a + Len(G[m]))
      BY <3>2, <3>3, <1>1
    <3>5. ASSUME NEW i \in 1 .. k + 1
          PROVE  RunAt(s, i) = m <=> a <= i /\ i < a + Len(G[m])
      <4>1. CASE i = k + 1
        BY <4>1, <3>1, <3>4, <1>1, <1>3
      <4>2. CASE i # k + 1
        <5>1. i \in 1 .. k
          BY <4>2, <1>1
        <5> QED BY <5>1, <3>3
      <4> QED BY <4>1, <4>2
    <3> QED BY <3>1, <3>2, <3>3, <3>4, <3>5
  <2> QED BY <2>1, <2>2
<1>6. Len(H) = RunAt(s, k + 1)
  BY <1>2, <1>3
<1>7. CutAt(H, s, k + 1)
  BY <1>2, <1>5, <1>6 DEF CutAt
<1> QED BY <1>7 DEF H, f

(* A run that goes on.                                                     *)
LEMMA CutGoesOn ==
  ASSUME NEW n \in Nat, NEW s \in [1 .. n -> Finding], NEW k \in 1 .. n - 1,
         NEW G, CutAt(G, s, k), ~ Starts(s, k + 1)
  PROVE  CutAt(Append(Front(G), Append(Last(G), s[k + 1])), s, k + 1)
<1> DEFINE f == s[k + 1]
           L == Len(G)
           last == G[L]
           longer == Append(last, f)
           H == Append(Front(G), longer)
<1>1. f \in Finding /\ k \in Nat /\ G \in Seq(Seq(Finding)) /\ L \in Nat /\ L = RunAt(s, k)
  BY DEF CutAt
<1>2. L >= 1
  <2>1. RunAt(s, 1) = 1
    <3>1. RunAt(s, 0 + 1) = RunAt(s, 0) + 1 /\ RunAt(s, 0) = 0
      BY RunsStep DEF Starts
    <3> QED BY <3>1
  <2>2. RunAt(s, 1) <= RunAt(s, k)
    BY <1>1, RunsAscend
  <2> QED BY <2>1, <2>2, <1>1
<1>3. last \in Seq(Finding) /\ Len(last) \in Nat
  BY <1>1, <1>2
<1>4. longer \in Seq(Finding) /\ Len(longer) = Len(last) + 1 /\ longer[Len(last) + 1] = f
      /\ \A p \in 1 .. Len(last) : longer[p] = last[p]
  BY <1>1, <1>3
<1>5. /\ Front(G) \in Seq(Seq(Finding)) /\ Len(Front(G)) = L - 1
      /\ \A m \in 1 .. L - 1 : Front(G)[m] = G[m]
  BY <1>1, <1>2 DEF Front
<1>6. /\ H \in Seq(Seq(Finding)) /\ Len(H) = L /\ H[L] = longer
      /\ \A m \in 1 .. L - 1 : H[m] = G[m]
  <2> DEFINE F == Front(G)
  <2> HIDE DEF longer, L, F
  <2>1. F \in Seq(Seq(Finding)) /\ longer \in Seq(Finding)
    BY <1>4, <1>5 DEF F
  <2>2. /\ Append(F, longer) \in Seq(Seq(Finding))
        /\ Len(Append(F, longer)) = Len(F) + 1
        /\ Append(F, longer)[Len(F) + 1] = longer
    BY <2>1
  <2>3. \A m \in 1 .. Len(F) : Append(F, longer)[m] = F[m]
    BY <2>1
  <2>4. Len(F) = L - 1 /\ Len(F) + 1 = L
    BY <1>1, <1>5 DEF F
  <2>5. H = Append(F, longer)
    BY DEF F
  <2>6. \A m \in 1 .. L - 1 : F[m] = G[m]
    BY <1>5 DEF F
  <2>7. \A m \in 1 .. L - 1 : H[m] = G[m]
    BY <2>3, <2>4, <2>5, <2>6
  <2>8. H \in Seq(Seq(Finding)) /\ Len(H) = L /\ H[L] = longer
    BY <2>2, <2>4, <2>5
  <2> QED BY <2>7, <2>8
<1>7. RunAt(s, k + 1) = L
  BY <1>1, RunsStep
<1> HIDE DEF H, longer
<1>8. ASSUME NEW m \in 1 .. L
      PROVE  /\ Len(H[m]) >= 1
             /\ \E a \in 1 .. k + 1 :
                  /\ a + Len(H[m]) - 1 <= k + 1
                  /\ \A p \in 1 .. Len(H[m]) : H[m][p] = s[a + p - 1]
                  /\ \A i \in 1 .. k + 1 : RunAt(s, i) = m <=> a <= i /\ i < a + Len(H[m])
  <2>1. Len(G[m]) >= 1 /\ Len(G[m]) \in Nat
    BY <1>1 DEF CutAt
  <2>2. PICK a \in 1 .. k :
          /\ a + Len(G[m]) - 1 <= k
          /\ \A p \in 1 .. Len(G[m]) : G[m][p] = s[a + p - 1]
          /\ \A i \in 1 .. k : RunAt(s, i) = m <=> a <= i /\ i < a + Len(G[m])
    BY DEF CutAt
  <2>3. CASE m = L
    <3>1. H[m] = longer /\ Len(H[m]) = Len(last) + 1 /\ G[m] = last
      BY <2>3, <1>4, <1>6
    <3>2. k \in 1 .. k /\ RunAt(s, k) = m
      BY <2>3, <1>1
    <3>3. k < a + Len(last)
      BY <3>1, <3>2, <2>2
    <3>4. a + Len(last) = k + 1
      <4>1. a + Len(last) - 1 <= k /\ a \in Int /\ k \in Int /\ Len(last) \in Int
        BY <3>1, <2>2, <1>1, <1>3
      <4> HIDE DEF last
      <4> QED BY <4>1, <3>3
    <3>5. ASSUME NEW p \in 1 .. Len(last) + 1 PROVE longer[p] = s[a + p - 1]
      <4>1. CASE p = Len(last) + 1
        <5>1. a + p - 1 = k + 1
          BY <4>1, <3>4, <1>3
        <5> QED BY <4>1, <5>1, <1>4
      <4>2. CASE p # Len(last) + 1
        <5>1. p \in 1 .. Len(last)
          BY <4>2, <1>3
        <5> QED BY <5>1, <1>4, <2>2, <3>1
      <4> QED BY <4>1, <4>2
    <3>6. ASSUME NEW i \in 1 .. k + 1
          PROVE  RunAt(s, i) = m <=> a <= i /\ i < a + (Len(last) + 1)
      <4>1. CASE i = k + 1
        BY <4>1, <2>3, <1>7, <3>4, <1>1, <1>3
      <4>2. CASE i # k + 1
        <5>1. i \in 1 .. k
          BY <4>2, <1>1
        <5>2. i < a + Len(last) /\ i < a + (Len(last) + 1)
          BY <5>1, <3>4, <1>1, <1>3
        <5> QED BY <5>1, <5>2, <2>2, <3>1
      <4> QED BY <4>1, <4>2
    <3>7. a \in 1 .. k + 1 /\ a + (Len(last) + 1) - 1 <= k + 1 /\ Len(last) + 1 >= 1
      BY <3>4, <1>1, <1>3
    <3> HIDE DEF last
    <3> QED BY <3>1, <3>5, <3>6, <3>7
  <2>4. CASE m # L
    <3>1. m \in 1 .. L - 1 /\ H[m] = G[m]
      BY <2>4, <1>1, <1>6
    <3>2. a \in 1 .. k + 1 /\ a + Len(G[m]) - 1 <= k + 1 /\ ~ (k + 1 < a + Len(G[m]))
      BY <2>1, <2>2, <1>1
    <3>3. ASSUME NEW i \in 1 .. k + 1
          PROVE  RunAt(s, i) = m <=> a <= i /\ i < a + Len(G[m])
      <4>1. CASE i = k + 1
        BY <4>1, <2>4, <3>2, <1>7
      <4>2. CASE i # k + 1
        <5>1. i \in 1 .. k
          BY <4>2, <1>1
        <5> QED BY <5>1, <2>2
      <4> QED BY <4>1, <4>2
    <3> QED BY <3>1, <3>2, <3>3, <2>1, <2>2
  <2> QED BY <2>3, <2>4
<1>9. CutAt(H, s, k + 1)
  BY <1>6, <1>7, <1>8 DEF CutAt
<1> QED BY <1>9 DEF H, longer, Last

LEMMA SplitCuts ==
  ASSUME NEW n \in Nat, NEW s \in [1 .. n -> Finding]
  PROVE  CutAt(SplitByWindow(s), s, n)
<1>1. PICK cut : AreCuts(cut, s, n) /\ SplitByWindow(s) = cut[1 .. n]
  BY SplitIsCut
<1>2. CutAt(cut[1 .. 0], s, 0)
  <2>1. cut[1 .. 0] = <<>> /\ RunAt(s, 0) = 0
    BY <1>1, CutOfPrefix, RunsStep
  <2>2. <<>> \in Seq(Seq(Finding)) /\ Len(<<>>) = 0
    OBVIOUS
  <2> QED BY <2>1, <2>2 DEF CutAt
<1>3. ASSUME NEW k \in 0 .. n - 1, CutAt(cut[1 .. k], s, k)
      PROVE  CutAt(cut[1 .. k + 1], s, k + 1)
  <2> DEFINE G == cut[1 .. k]
             f == s[k + 1]
  <2>1. cut[1 .. k + 1] = CutStep(G, f)
    BY SMTT(30), <1>1, CutOfPrefix
  <2>2. G \in Seq(Seq(Finding)) /\ Len(G) \in Nat /\ Len(G) = RunAt(s, k) /\ CutAt(G, s, k)
    <3>1. CutAt(G, s, k)
      BY <1>3
    <3> HIDE DEF G
    <3> QED BY SMTT(30), <3>1 DEF CutAt
  <2> HIDE DEF G
  <2>3. CASE k = 0
    <3>1. G = <<>> /\ Starts(s, k + 1)
      BY <2>2, <2>3, RunsStep DEF Starts
    <3>2. CutStep(G, f) = Append(G, <<f>>)
      BY <3>1 DEF CutStep
    <3> QED BY <2>1, <2>2, <3>1, <3>2, CutBegins
  <2>4. CASE k # 0
    <3>1. k \in 1 .. n - 1 /\ k \in Nat
      BY <2>4
    <3>2. Len(G) >= 1
      <4>1. RunAt(s, 0 + 1) = RunAt(s, 0) + 1 /\ RunAt(s, 0) = 0
        BY RunsStep DEF Starts
      <4>2. RunAt(s, 1) <= RunAt(s, k)
        BY <3>1, RunsAscend
      <4> QED BY <4>1, <4>2, <2>2
    <3> DEFINE m == Len(G)
               g == G[m]
    <3>3. g \in Seq(Finding) /\ Len(g) \in Nat /\ Len(g) >= 1
      BY <2>2, <3>2 DEF CutAt
    <3>4. PICK a \in 1 .. k : /\ a + Len(g) - 1 <= k
                              /\ \A p \in 1 .. Len(g) : g[p] = s[a + p - 1]
                              /\ \A i \in 1 .. k : RunAt(s, i) = m <=> a <= i /\ i < a + Len(g)
      <4>1. m \in 1 .. Len(G)
        BY <2>2, <3>2
      <4> HIDE DEF m
      <4> QED BY <2>2, <4>1 DEF CutAt
    <3>5. k < a + Len(g)
      <4>1. RunAt(s, k) = m /\ k \in 1 .. k
        BY <2>2, <3>1
      <4> QED BY <3>4, <4>1
    <3>6. a + Len(g) - 1 = k
      <4>1. a \in Int /\ k \in Int /\ Len(g) \in Int /\ a + Len(g) - 1 <= k
        BY <3>1, <3>3, <3>4
      <4> HIDE DEF g
      <4> QED BY <4>1, <3>5
    <3>7. Last(G) = g /\ LastTime(g) = s[k].at
      <4>1. Last(G) = g
        BY DEF Last
      <4>2. Len(g) \in 1 .. Len(g)
        BY <3>3
      <4>3. g[Len(g)] = s[a + Len(g) - 1]
        BY <3>4, <4>2
      <4> HIDE DEF g
      <4> QED BY <4>1, <4>3, <3>6 DEF LastTime
    <3>8. G # <<>>
      BY <3>2
    <3>9. Starts(s, k + 1) <=> f.at - LastTime(Last(G)) > Window
      <4>1. k + 1 # 1 /\ k + 1 - 1 = k
        BY <3>1
      <4> QED BY <4>1, <3>7 DEF Starts
    <3>10. CASE Starts(s, k + 1)
      <4>1. CutStep(G, f) = Append(G, <<f>>)
        BY <3>9, <3>10 DEF CutStep
      <4> QED BY <2>1, <2>2, <3>10, <4>1, CutBegins
    <3>11. CASE ~ Starts(s, k + 1)
      <4>1. CutStep(G, f) = Append(Front(G), Append(Last(G), f))
        BY <3>8, <3>9, <3>11 DEF CutStep
      <4> QED BY <2>1, <2>2, <3>1, <3>11, <4>1, CutGoesOn
    <3> QED BY <3>10, <3>11
  <2> QED BY <2>3, <2>4
<1>4. CutAt(cut[1 .. n], s, n)
  <2> DEFINE Bad == {k \in 0 .. n : ~ CutAt(cut[1 .. k], s, k)}
  <2> SUFFICES ASSUME Bad # {} PROVE FALSE
    OBVIOUS
  <2>1. PICK k \in Bad : \A j \in Bad : k <= j
    <3>1. Bad \in SUBSET Nat
      OBVIOUS
    <3> HIDE DEF Bad
    <3> QED BY <3>1, SmallestMember
  <2>2. k \in 0 .. n /\ k # 0
    BY <1>2
  <2>3. k - 1 \in 0 .. n - 1 /\ k - 1 \in 0 .. n /\ ~ (k <= k - 1) /\ k - 1 + 1 = k
    BY <2>2
  <2>4. CutAt(cut[1 .. k - 1], s, k - 1)
    BY <2>1, <2>3
  <2>5. CutAt(cut[1 .. k], s, k)
    BY <1>3, <2>3, <2>4
  <2> QED BY <2>5
<1> QED BY <1>1, <1>4

(* An incident's list is its run: it has the findings at the positions of  *)
(* the run and begins with the first of them.                              *)
IsRun(group, s, n, m) ==
  /\ group \in Seq(Finding) /\ Len(group) >= 1
  /\ Range(group) = {s[i] : i \in {j \in 1 .. n : RunAt(s, j) = m}}
  /\ \E a \in 1 .. n : /\ RunAt(s, a) = m /\ group[1] = s[a]
                       /\ \A i \in 1 .. n : RunAt(s, i) = m <=> a <= i /\ i < a + Len(group)
                       /\ a + Len(group) - 1 <= n

LEMMA SplitIsRuns ==
  ASSUME NEW n \in Nat, NEW s \in [1 .. n -> Finding]
  PROVE  LET groups == SplitByWindow(s) IN
         /\ DOMAIN groups = 1 .. RunAt(s, n)
         /\ \A m \in DOMAIN groups : IsRun(groups[m], s, n, m)
<1> DEFINE G == SplitByWindow(s)
<1>1. CutAt(G, s, n)
  BY SplitCuts
<1> HIDE DEF G
<1>2. G \in Seq(Seq(Finding)) /\ DOMAIN G = 1 .. Len(G) /\ Len(G) = RunAt(s, n)
  BY <1>1 DEF CutAt
<1>3. ASSUME NEW m \in 1 .. Len(G) PROVE IsRun(G[m], s, n, m)
  <2> DEFINE g == G[m]
  <2>1. g \in Seq(Finding) /\ Len(g) >= 1 /\ Len(g) \in Nat /\ DOMAIN g = 1 .. Len(g)
    BY <1>1, <1>2 DEF CutAt
  <2>2. PICK a \in 1 .. n : /\ a + Len(g) - 1 <= n
                            /\ \A p \in 1 .. Len(g) : g[p] = s[a + p - 1]
                            /\ \A i \in 1 .. n : RunAt(s, i) = m <=> a <= i /\ i < a + Len(g)
    BY <1>1 DEF CutAt
  <2> HIDE DEF g
  <2>3. RunAt(s, a) = m
    <3>1. a <= a /\ a < a + Len(g)
      BY <2>1
    <3> QED BY <3>1, <2>2
  <2>4. g[1] = s[a]
    <3>1. 1 \in 1 .. Len(g) /\ a + 1 - 1 = a
      BY <2>1
    <3> QED BY <3>1, <2>2
  <2>5. ASSUME NEW p \in 1 .. Len(g)
        PROVE  g[p] \in {s[i] : i \in {j \in 1 .. n : RunAt(s, j) = m}}
    <3>1. a + p - 1 \in 1 .. n /\ a <= a + p - 1 /\ a + p - 1 < a + Len(g)
      BY <2>1, <2>2
    <3>2. RunAt(s, a + p - 1) = m /\ g[p] = s[a + p - 1]
      BY <3>1, <2>2
    <3> QED BY <3>1, <3>2
  <2>6. ASSUME NEW i \in 1 .. n, RunAt(s, i) = m
        PROVE  \E p \in 1 .. Len(g) : g[p] = s[i]
    <3>1. a <= i /\ i < a + Len(g)
      BY <2>6, <2>2
    <3>2. i - a + 1 \in 1 .. Len(g) /\ a + (i - a + 1) - 1 = i
      BY <3>1, <2>1
    <3>3. g[i - a + 1] = s[i]
      BY <3>2, <2>2
    <3> QED BY <3>2, <3>3
  <2>7. Range(g) = {s[i] : i \in {j \in 1 .. n : RunAt(s, j) = m}}
    BY <2>1, <2>5, <2>6 DEF Range
  <2> QED BY <2>1, <2>2, <2>3, <2>4, <2>7 DEF IsRun, g
<1> QED BY <1>2, <1>3 DEF G

OfKey(F, key) == {f \in F : KeyOf(f) = key}
GroupsOf(F, key) == SplitByWindow(ByTime(OfKey(F, key)))

LEMMA KeyRuns ==
  ASSUME NEW F \in SUBSET Finding, IsFiniteSet(F), NEW key
  PROVE  LET A == OfKey(F, key)
             s == ByTime(A)
             n == Cardinality(A)
             groups == GroupsOf(F, key)
         IN  /\ n \in Nat /\ s \in [1 .. n -> A] /\ s \in [1 .. n -> Finding] /\ Sorted(s, A)
             /\ \A f \in A : \E i \in 1 .. n : s[i] = f
             /\ DOMAIN groups = 1 .. RunAt(s, n)
             /\ \A m \in DOMAIN groups : IsRun(groups[m], s, n, m)
             /\ \A i \in 1 .. n : RunAt(s, i) \in DOMAIN groups
<1> DEFINE A == OfKey(F, key)
           s == ByTime(A)
           n == Cardinality(A)
           groups == GroupsOf(F, key)
<1>1. A \in SUBSET Finding /\ IsFiniteSet(A)
  <2>1. A \in SUBSET F
    BY DEF OfKey
  <2> QED BY <2>1, FS_Subset
<1>0. groups = SplitByWindow(s)
  BY DEF GroupsOf
<1> HIDE DEF A, groups
<1>2. Sorted(s, A)
  BY <1>1, ByTimeSorts
<1>3. n \in Nat
  BY <1>1, FS_CardinalityType
<1>4. s \in [1 .. n -> A]
  BY <1>2 DEF Sorted
<1>5. s \in [1 .. n -> Finding]
  BY <1>1, <1>4
<1> HIDE DEF s
<1>6. \A f \in A : \E i \in 1 .. n : s[i] = f
  BY <1>1, <1>2, SortedCovers
<1> HIDE DEF n
<1>7. DOMAIN groups = 1 .. RunAt(s, n) /\ \A m \in DOMAIN groups : IsRun(groups[m], s, n, m)
  BY <1>0, <1>3, <1>5, SplitIsRuns
<1>8. ASSUME NEW i \in 1 .. n PROVE RunAt(s, i) \in 1 .. RunAt(s, n)
  <2>1. i \in Nat /\ 1 <= i /\ i <= n
    BY <1>3
  <2>2. RunAt(s, 1) = 1
    <3>1. RunAt(s, 0 + 1) = RunAt(s, 0) + 1 /\ RunAt(s, 0) = 0
      BY RunsStep DEF Starts
    <3> QED BY <3>1
  <2>3. RunAt(s, i) \in Nat /\ RunAt(s, n) \in Nat
    BY <1>3, <2>1, RunsStep
  <2>4. RunAt(s, 1) <= RunAt(s, i)
    BY <2>1, RunsAscend
  <2>5. RunAt(s, i) <= RunAt(s, n)
    BY <1>3, <2>1, RunsAscend
  <2> QED BY <2>2, <2>3, <2>4, <2>5
<1>9. \A i \in 1 .. n : RunAt(s, i) \in DOMAIN groups
  BY <1>7, <1>8
<1> QED BY <1>2, <1>3, <1>4, <1>5, <1>6, <1>7, <1>9 DEF groups, n, s, A

(* A run has finitely many findings.                                       *)
LEMMA GroupIsFinite ==
  ASSUME NEW A, IsFiniteSet(A), NEW s, Sorted(s, A), NEW group, NEW m,
         IsRun(group, s, Cardinality(A), m)
  PROVE  IsFiniteSet(Range(group)) /\ group \in Seq(Finding)
<1>1. Range(group) \in SUBSET A
  BY DEF IsRun, Sorted
<1> QED BY <1>1, FS_Subset DEF IsRun

(* Each incident is a run of one key, and each run an incident.            *)
IsIncident(i, F, sigs, sel) ==
  \E key \in {KeyOf(f) : f \in F} : \E m \in DOMAIN GroupsOf(F, key) :
    i = IncidentOf(<<key, m>>, GroupsOf(F, key)[m], sigs, sel)

LEMMA IncidentIsRun ==
  ASSUME NEW F, NEW sigs, NEW sel, NEW i
  PROVE  i \in Aggregate(F, sigs, sel) <=> IsIncident(i, F, sigs, sel)
<1>1. ASSUME NEW key
      PROVE  IncidentsOf(key, F, sigs, sel) =
               {IncidentOf(<<key, m>>, GroupsOf(F, key)[m], sigs, sel) :
                  m \in DOMAIN GroupsOf(F, key)}
  BY DEF IncidentsOf, GroupsOf, OfKey
<1> QED BY ZenonT(60), <1>1 DEF Aggregate, IsIncident

-----------------------------------------------------------------------------
(* Incidents are the chains of findings.                                   *)
AreReach(reach, f) ==
  reach = [n \in Nat |-> IF n = 0 THEN {f}
                         ELSE {g \in findings : \E h \in reach[n - 1] : Near(g, h)}]

(* What n steps reach is what lists of n steps end with.                   *)
LEMMA ReachExists ==
  ASSUME NEW f \in findings
  PROVE  \E reach : AreReach(reach, f)
<1> DEFINE Leads(p, n, g) == p[0] = f /\ p[n] = g /\ \A i \in 1 .. n : Near(p[i], p[i - 1])
           W == [n \in Nat |-> {g \in findings : \E p \in [0 .. n -> findings] : Leads(p, n, g)}]
<1>1. ASSUME NEW n \in Nat, n = 0 PROVE W[n] = {f}
  <2>1. ASSUME NEW g \in W[n] PROVE g = f
    BY <2>1, <1>1
  <2>2. f \in W[n]
    <3>1. Leads([i \in 0 .. 0 |-> f], 0, f)
      OBVIOUS
    <3> QED BY <3>1, <1>1
  <2> QED BY <2>1, <2>2
<1>2. ASSUME NEW n \in Nat, n # 0
      PROVE  W[n] = {g \in findings : \E h \in W[n - 1] : Near(g, h)}
  <2>1. n - 1 \in Nat /\ n - 1 \in 0 .. n /\ n \in 1 .. n /\ n \in 0 .. n
    BY <1>2
  <2>2. ASSUME NEW g \in W[n] PROVE g \in findings /\ \E h \in W[n - 1] : Near(g, h)
    <3>1. PICK p \in [0 .. n -> findings] : Leads(p, n, g)
      BY <2>2
    <3> DEFINE q == [i \in 0 .. n - 1 |-> p[i]]
    <3>2. q \in [0 .. n - 1 -> findings] /\ p[n - 1] \in findings
      BY <2>1
    <3>3. Leads(q, n - 1, p[n - 1])
      <4>1. q[0] = f /\ q[n - 1] = p[n - 1]
        BY <3>1, <2>1
      <4>2. \A i \in 1 .. n - 1 : i \in 0 .. n - 1 /\ i - 1 \in 0 .. n - 1 /\ i \in 1 .. n
        BY <2>1
      <4>3. \A i \in 1 .. n - 1 : Near(q[i], q[i - 1])
        BY <3>1, <4>2
      <4> QED BY <4>1, <4>3
    <3>4. p[n - 1] \in W[n - 1]
      <4> HIDE DEF q, Leads
      <4> QED BY <3>2, <3>3, <2>1
    <3>5. Near(g, p[n - 1])
      BY <3>1, <2>1
    <3> QED BY <2>2, <3>4, <3>5
  <2>3. ASSUME NEW g \in findings, NEW h \in W[n - 1], Near(g, h) PROVE g \in W[n]
    <3>1. PICK q \in [0 .. n - 1 -> findings] : Leads(q, n - 1, h)
      BY <2>1
    <3> DEFINE p == [i \in 0 .. n |-> IF i = n THEN g ELSE q[i]]
    <3>2. \A i \in 0 .. n : i # n => i \in 0 .. n - 1
      BY <2>1
    <3>3. p \in [0 .. n -> findings]
      BY <3>2
    <3>4. p[0] = f /\ p[n] = g
      BY <3>1, <2>1, <1>2
    <3>5. ASSUME NEW i \in 1 .. n PROVE Near(p[i], p[i - 1])
      <4>1. i \in 0 .. n /\ i - 1 \in 0 .. n - 1 /\ i - 1 # n /\ p[i - 1] = q[i - 1]
        BY <2>1
      <4>2. CASE i = n
        BY <4>1, <4>2, <3>1, <2>3, <2>1
      <4>3. CASE i # n
        <5>1. i \in 1 .. n - 1 /\ p[i] = q[i]
          BY <4>1, <4>3, <2>1
        <5> QED BY <4>1, <5>1, <3>1
      <4> QED BY <4>2, <4>3
    <3>6. Leads(p, n, g)
      <4> HIDE DEF p
      <4> QED BY <3>4, <3>5
    <3> HIDE DEF p, Leads
    <3> QED BY <3>3, <3>6
  <2> HIDE DEF W
  <2>4. W[n] \subseteq findings
    BY DEF W
  <2> QED BY <2>2, <2>3, <2>4
<1>3. AreReach(W, f)
  <2>1. W = [n \in Nat |-> W[n]]
    OBVIOUS
  <2> HIDE DEF W
  <2>2. ASSUME NEW n \in Nat
        PROVE  W[n] = IF n = 0 THEN {f}
                      ELSE {g \in findings : \E h \in W[n - 1] : Near(g, h)}
    BY <1>1, <1>2
  <2> QED BY <2>1, <2>2 DEF AreReach
<1> QED BY <1>3

(* Two positions whose findings are within the window are in one run.      *)
LEMMA NearIsSameRun ==
  ASSUME NEW A \in SUBSET Finding, NEW s, Sorted(s, A), Cardinality(A) \in Nat,
         NEW i \in 1 .. Cardinality(A), NEW j \in 1 .. Cardinality(A), i <= j,
         s[j].at - s[i].at <= Window
  PROVE  RunAt(s, i) = RunAt(s, j)
<1> DEFINE n == Cardinality(A)
<1>1. \A k \in 1 .. n : s[k].at \in Int
  <2> SUFFICES ASSUME NEW k \in 1 .. n PROVE s[k].at \in Int
    OBVIOUS
  <2>1. s[k] \in Finding
    BY DEF Sorted
  <2>2. s[k].at \in Nat
    BY <2>1, FindingTimes
  <2> QED BY <2>2
<1>2. \A k, l \in 1 .. n : k <= l => s[k].at <= s[l].at
  <2> SUFFICES ASSUME NEW k \in 1 .. n, NEW l \in 1 .. n, k <= l
               PROVE  s[k].at <= s[l].at
    OBVIOUS
  <2>1. CASE k = l
    BY <2>1, <1>1
  <2>2. CASE k # l
    <3>1. k < l
      BY <2>2
    <3> QED BY <3>1 DEF Sorted
  <2> QED BY <2>1, <2>2
<1>3. ASSUME NEW k \in i + 1 .. j PROVE ~ Starts(s, k)
  <2>1. k \in 1 .. n /\ k - 1 \in 1 .. n /\ k # 1 /\ k <= j /\ i <= k - 1
    OBVIOUS
  <2>2. s[k].at <= s[j].at /\ s[i].at <= s[k - 1].at
    BY <2>1, <1>2
  <2>3. s[k].at \in Int /\ s[j].at \in Int /\ s[i].at \in Int /\ s[k - 1].at \in Int
    BY <2>1, <1>1
  <2>4. s[k].at - s[k - 1].at <= Window
    BY <2>2, <2>3, FlowAssumption
  <2> QED BY <2>1, <2>3, <2>4, FlowAssumption DEF Starts
<1>4. i \in Nat /\ j \in Nat
  OBVIOUS
<1> QED BY <1>3, <1>4, RunsAscend

Run(s, n, m) == {s[i] : i \in {j \in 1 .. n : RunAt(s, j) = m}}

(* A chain stays within its run: a finding that is near one of the run is  *)
(* one of the run.                                                         *)
LEMMA RunIsClosed ==
  ASSUME FlowInv, NEW key, NEW s, Sorted(s, OfKey(findings, key)),
         NEW i \in 1 .. Cardinality(OfKey(findings, key)),
         NEW g \in findings, Near(g, s[i])
  PROVE  g \in Run(s, Cardinality(OfKey(findings, key)), RunAt(s, i))
<1> DEFINE A == OfKey(findings, key)
           n == Cardinality(A)
<1>1. A \in SUBSET Finding /\ IsFiniteSet(A)
  <2>1. A \in SUBSET findings
    BY DEF OfKey
  <2> QED BY <2>1, FS_Subset DEF FlowInv, InputInv
<1>2. s[i] \in A
  BY DEF Sorted
<1>3. g \in A
  BY <1>2 DEF Near, OfKey
<1> HIDE DEF A
<1>4. n \in Nat
  BY <1>1, FS_CardinalityType
<1>5. PICK j \in 1 .. n : s[j] = g
  BY <1>1, <1>3, SortedCovers DEF A
<1>6. g.at \in Int /\ s[i].at \in Int
  <2>1. g.at \in Nat /\ s[i].at \in Nat
    BY <1>1, <1>2, <1>3, FindingTimes
  <2> QED BY <2>1
<1>7. g.at - s[i].at <= Window /\ s[i].at - g.at <= Window
  <2>1. g.at - s[i].at \in -Window .. Window
    BY DEF Near
  <2> QED BY <2>1, <1>6, FlowAssumption
<1>8. RunAt(s, j) = RunAt(s, i)
  <2>1. i \in 1 .. n /\ Sorted(s, A)
    BY DEF A
  <2>2. CASE i <= j
    BY <2>1, <2>2, <1>1, <1>4, <1>5, <1>7, NearIsSameRun
  <2>3. CASE j <= i
    BY <2>1, <2>3, <1>1, <1>4, <1>5, <1>7, NearIsSameRun
  <2> QED BY <2>1, <2>2, <2>3, <1>4
<1> QED BY <1>5, <1>8 DEF Run, A

(* Neighbours of one run are near each other.                              *)
LEMMA NeighboursAreNear ==
  ASSUME FlowInv, NEW key, NEW s, Sorted(s, OfKey(findings, key)),
         NEW i \in 1 .. Cardinality(OfKey(findings, key)) - 1, RunAt(s, i) = RunAt(s, i + 1)
  PROVE  /\ s[i] \in findings /\ s[i + 1] \in findings
         /\ Near(s[i], s[i + 1]) /\ Near(s[i + 1], s[i]) /\ Near(s[i], s[i])
<1> DEFINE A == OfKey(findings, key)
           n == Cardinality(A)
<1>1. A \in SUBSET Finding /\ IsFiniteSet(A)
  <2>1. A \in SUBSET findings
    BY DEF OfKey
  <2> QED BY <2>1, FS_Subset DEF FlowInv, InputInv
<1>2. n \in Nat
  BY <1>1, FS_CardinalityType
<1>3. i \in 1 .. n /\ i + 1 \in 1 .. n /\ i < i + 1 /\ i \in Nat
  <2> HIDE DEF n
  <2> QED BY <1>2 DEF n
<1>4. s[i] \in A /\ s[i + 1] \in A /\ s[i].at <= s[i + 1].at
  BY <1>3 DEF Sorted
<1>5. s[i].at \in Int /\ s[i + 1].at \in Int
  <2>1. s[i].at \in Nat /\ s[i + 1].at \in Nat
    BY <1>1, <1>4, FindingTimes
  <2> QED BY <2>1
<1>6. KeyOf(s[i]) = KeyOf(s[i + 1]) /\ s[i] \in findings /\ s[i + 1] \in findings
  BY <1>4 DEF OfKey
<1>7. ~ Starts(s, i + 1)
  BY <1>3, RunsStep
<1>8. s[i + 1].at - s[i].at <= Window
  <2>1. i + 1 - 1 = i
    BY <1>3
  <2> QED BY <1>7, <2>1, <1>5, FlowAssumption DEF Starts
<1>9. /\ s[i].at - s[i + 1].at \in -Window .. Window /\ s[i].at - s[i].at \in -Window .. Window
      /\ s[i + 1].at - s[i].at \in -Window .. Window
  BY <1>4, <1>5, <1>8, FlowAssumption
<1> QED BY <1>6, <1>9 DEF Near

LEMMA RunIsChain ==
  ASSUME FlowInv, NEW key, NEW s, Sorted(s, OfKey(findings, key)),
         NEW i \in 1 .. Cardinality(OfKey(findings, key))
  PROVE  Chain(s[i]) = Run(s, Cardinality(OfKey(findings, key)), RunAt(s, i))
<1> DEFINE A == OfKey(findings, key)
           n == Cardinality(A)
           N == Cardinality(findings)
           f == s[i]
           m == RunAt(s, i)
           reach == CHOOSE r : AreReach(r, f)
<1>1. A \in SUBSET findings /\ A \in SUBSET Finding /\ IsFiniteSet(A) /\ n <= N
  <2>1. A \in SUBSET findings
    BY DEF OfKey
  <2> HIDE DEF A
  <2> QED BY <2>1, FS_Subset DEF FlowInv, InputInv
<1>2. n \in Nat /\ N \in Nat
  BY <1>1, FS_CardinalityType DEF FlowInv, InputInv
<1>3. \A j \in 1 .. n : s[j] \in A /\ s[j] \in findings /\ s[j] \in Finding
  BY <1>1 DEF Sorted
<1>4. f \in findings
  BY <1>3
<1>5. AreReach(reach, f)
  BY <1>4, ReachExists
<1>6. Chain(f) = reach[N]
  BY DEF Chain, AreReach
<1> HIDE DEF reach, f
<1>7. /\ reach[0] = {f}
      /\ \A k \in Nat : reach[k + 1] = {g \in findings : \E h \in reach[k] : Near(g, h)}
  <2>1. ASSUME NEW k \in Nat
        PROVE  reach[k + 1] = {g \in findings : \E h \in reach[k] : Near(g, h)}
    <3>1. k + 1 \in Nat /\ k + 1 # 0 /\ k + 1 - 1 = k
      OBVIOUS
    <3> QED BY <3>1, <1>5 DEF AreReach
  <2> QED BY <2>1, <1>5 DEF AreReach
<1> DEFINE R == Run(s, n, m)
<1>8. \A k \in Nat : reach[k] \subseteq R
  <2> DEFINE Bad == {k \in Nat : ~ (reach[k] \subseteq R)}
  <2> SUFFICES ASSUME Bad # {} PROVE FALSE
    OBVIOUS
  <2>1. PICK k \in Bad : \A l \in Bad : k <= l
    <3>1. Bad \in SUBSET Nat
      OBVIOUS
    <3> HIDE DEF Bad
    <3> QED BY <3>1, SmallestMember
  <2>2. f \in R
    BY DEF f, Run
  <2>3. k \in Nat /\ k # 0
    BY <2>2, <1>7
  <2>4. k - 1 \in Nat /\ ~ (k <= k - 1) /\ (k - 1) + 1 = k
    BY <2>3
  <2>5. reach[k - 1] \subseteq R
    <3>1. k - 1 \notin Bad
      <4> HIDE DEF Bad
      <4> QED BY <2>1, <2>4
    <3> QED BY <3>1, <2>4
  <2>6. ASSUME NEW g \in reach[k] PROVE g \in R
    <3>1. PICK h \in reach[k - 1] : g \in findings /\ Near(g, h)
      <4>1. reach[(k - 1) + 1] = {x \in findings : \E h \in reach[k - 1] : Near(x, h)}
        BY <1>7, <2>4
      <4> QED BY <4>1, <2>4
    <3>2. PICK j \in 1 .. n : h = s[j] /\ RunAt(s, j) = m
      BY <3>1, <2>5 DEF Run
    <3> QED BY <3>1, <3>2, RunIsClosed
  <2> QED BY <2>6
<1> DEFINE Far(d) == \A j \in 1 .. n : RunAt(s, j) = m /\ j - i <= d /\ i - j <= d => s[j] \in reach[d]
<1>9. ASSUME NEW d \in Nat, Far(d) PROVE Far(d + 1)
  <2> SUFFICES ASSUME NEW j \in 1 .. n, RunAt(s, j) = m, j - i <= d + 1, i - j <= d + 1
               PROVE  s[j] \in reach[d + 1]
    OBVIOUS
  <2>1. i \in 1 .. n /\ i \in Nat /\ j \in Nat
    BY <1>2
  <2>2. reach[d + 1] = {g \in findings : \E h \in reach[d] : Near(g, h)}
    BY <1>7
  <2>3. CASE j = i
    <3>1. s[j] \in reach[d]
      BY <1>9, <2>1, <2>3
    <3>2. Near(s[j], s[j])
      <4>1. s[j].at \in Nat
        BY <1>3, FindingTimes
      <4>2. s[j].at - s[j].at \in -Window .. Window
        BY <4>1, FlowAssumption
      <4> QED BY <4>2 DEF Near
    <3> QED BY <3>1, <3>2, <2>2, <1>3
  <2>4. CASE j > i
    <3>1. /\ j - 1 \in 1 .. n - 1 /\ j - 1 \in 1 .. n /\ j - 1 \in Nat /\ i <= j - 1 /\ j - 1 <= j
          /\ (j - 1) - i <= d /\ i - (j - 1) <= d /\ (j - 1) + 1 = j
      BY <2>1, <2>4, <1>2
    <3>2. RunAt(s, i) <= RunAt(s, j - 1)
      BY <3>1, <2>1, RunsAscend
    <3>3. RunAt(s, j - 1) <= RunAt(s, j)
      BY <3>1, <2>1, RunsAscend
    <3>4. RunAt(s, i) \in Nat /\ RunAt(s, j - 1) \in Nat
      BY <3>1, <2>1, RunsStep
    <3>5. RunAt(s, j - 1) = m
      BY <3>2, <3>3, <3>4
    <3>6. s[j - 1] \in reach[d]
      BY <1>9, <3>1, <3>5
    <3>7. Near(s[j], s[j - 1])
      <4>1. RunAt(s, j - 1) = RunAt(s, (j - 1) + 1)
        BY <3>1, <3>5
      <4>2. Near(s[(j - 1) + 1], s[j - 1])
        BY <3>1, <4>1, NeighboursAreNear
      <4> QED BY <4>2, <3>1
    <3> QED BY <3>6, <3>7, <2>2, <1>3
  <2>5. CASE j < i
    <3>1. /\ j \in 1 .. n - 1 /\ j + 1 \in 1 .. n /\ j + 1 \in Nat /\ j + 1 <= i /\ j <= j + 1
          /\ (j + 1) - i <= d /\ i - (j + 1) <= d
      BY <2>1, <2>5, <1>2
    <3>2. RunAt(s, j + 1) <= RunAt(s, i)
      BY <3>1, <2>1, RunsAscend
    <3>3. RunAt(s, j) <= RunAt(s, j + 1)
      BY <3>1, <2>1, RunsAscend
    <3>4. RunAt(s, i) \in Nat /\ RunAt(s, j + 1) \in Nat
      BY <3>1, <2>1, RunsStep
    <3>5. RunAt(s, j + 1) = m
      BY <3>2, <3>3, <3>4
    <3>6. s[j + 1] \in reach[d]
      BY <1>9, <3>1, <3>5
    <3>7. Near(s[j], s[j + 1])
      BY <3>1, <3>5, NeighboursAreNear
    <3> QED BY <3>6, <3>7, <2>2, <1>3
  <2> QED BY <2>1, <2>3, <2>4, <2>5
<1>10. \A d \in Nat : Far(d)
  <2> DEFINE Bad == {d \in Nat : ~ Far(d)}
  <2> SUFFICES ASSUME Bad # {} PROVE FALSE
    OBVIOUS
  <2>1. PICK d \in Bad : \A l \in Bad : d <= l
    <3>1. Bad \in SUBSET Nat
      OBVIOUS
    <3> HIDE DEF Bad
    <3> QED BY <3>1, SmallestMember
  <2>2. Far(0)
    <3> SUFFICES ASSUME NEW j \in 1 .. n, j - i <= 0, i - j <= 0
                 PROVE  s[j] \in reach[0]
      OBVIOUS
    <3>1. j = i
      BY <1>2
    <3> QED BY <3>1, <1>7 DEF f
  <2>3. d \in Nat /\ d # 0
    BY <2>2
  <2>4. d - 1 \in Nat /\ ~ (d <= d - 1) /\ (d - 1) + 1 = d
    BY <2>3
  <2> HIDE DEF Far
  <2>5. Far(d - 1)
    <3>1. d - 1 \notin Bad
      <4> HIDE DEF Bad
      <4> QED BY <2>1, <2>4
    <3> QED BY <3>1, <2>4
  <2>6. Far((d - 1) + 1)
    BY <1>9, <2>4, <2>5
  <2> QED BY <2>4, <2>6
<1>11. R \subseteq reach[N]
  <2>1. Far(N)
    BY <1>2, <1>10
  <2>2. ASSUME NEW j \in 1 .. n PROVE j - i <= N /\ i - j <= N
    BY <1>1, <1>2
  <2> QED BY <2>1, <2>2 DEF Run
<1> QED BY <1>2, <1>6, <1>8, <1>11 DEF f

LEMMA InvChains == FlowInv => IncidentsAreChains
<1> SUFFICES ASSUME FlowInv PROVE IncidentsAreChains
  OBVIOUS
<1> DEFINE sigs == Range(signals)
<1>1. findings \in SUBSET Finding /\ IsFiniteSet(findings)
  BY DEF FlowInv, InputInv
<1>2. \A i : i \in Incidents <=> IsIncident(i, findings, sigs, selected)
  BY IncidentIsRun DEF Incidents
<1>3. ASSUME NEW i \in Incidents PROVE \E f \in findings : i.findings = Chain(f)
  <2>1. IsIncident(i, findings, sigs, selected)
    BY <1>2
  <2>0. PICK key \in {KeyOf(f) : f \in findings} : \E m \in DOMAIN GroupsOf(findings, key) :
          i = IncidentOf(<<key, m>>, GroupsOf(findings, key)[m], sigs, selected)
    BY <2>1 DEF IsIncident
  <2>2. PICK m \in DOMAIN GroupsOf(findings, key) :
          i = IncidentOf(<<key, m>>, GroupsOf(findings, key)[m], sigs, selected)
    BY <2>0
  <2> DEFINE A == OfKey(findings, key)
             n == Cardinality(A)
             s == ByTime(A)
             g == GroupsOf(findings, key)[m]
  <2>3. IsRun(g, s, n, m) /\ Sorted(s, A) /\ s \in [1 .. n -> A]
    BY <1>1, KeyRuns
  <2>4. PICK a \in 1 .. n : RunAt(s, a) = m
    BY <2>3 DEF IsRun
  <2>5. i.findings = Range(g)
    BY <2>2 DEF IncidentOf
  <2>6. Range(g) = Run(s, n, m)
    BY <2>3 DEF IsRun, Run
  <2>7. Chain(s[a]) = Run(s, n, m)
    BY <2>3, <2>4, RunIsChain
  <2>8. s[a] \in findings
    BY <2>3 DEF OfKey
  <2> QED BY <2>5, <2>6, <2>7, <2>8
<1>4. ASSUME NEW f \in findings PROVE \E i \in Incidents : i.findings = Chain(f)
  <2> DEFINE key == KeyOf(f)
             A == OfKey(findings, key)
             n == Cardinality(A)
             s == ByTime(A)
  <2>1. f \in A
    BY DEF OfKey
  <2>2. Sorted(s, A) /\ \E j \in 1 .. n : s[j] = f
    BY <1>1, <2>1, KeyRuns
  <2>3. PICK j \in 1 .. n : s[j] = f
    BY <2>2
  <2> DEFINE m == RunAt(s, j)
             g == GroupsOf(findings, key)[m]
             i == IncidentOf(<<key, m>>, g, sigs, selected)
  <2>4. m \in DOMAIN GroupsOf(findings, key)
    BY <1>1, KeyRuns
  <2>5. IsRun(g, s, n, m)
    BY <1>1, <2>4, KeyRuns
  <2>6. IsIncident(i, findings, sigs, selected)
    BY <2>4 DEF IsIncident
  <2>7. i \in Incidents
    <3> HIDE DEF i
    <3> QED BY <1>2, <2>6
  <2>8. i.findings = Run(s, n, m)
    BY <2>5 DEF IncidentOf, IsRun, Run
  <2>9. Chain(f) = Run(s, n, m)
    BY <2>2, <2>3, RunIsChain
  <2> QED BY <2>7, <2>8, <2>9
<1>5. {i.findings : i \in Incidents} = {Chain(f) : f \in findings}
  BY <1>3, <1>4
<1>6. ASSUME NEW i \in Incidents, NEW j \in Incidents, i.id = j.id PROVE i = j
  <2>1. IsIncident(i, findings, sigs, selected) /\ IsIncident(j, findings, sigs, selected)
    BY <1>2
  <2>2. PICK k1 \in {KeyOf(f) : f \in findings} : \E m1 \in DOMAIN GroupsOf(findings, k1) :
          i = IncidentOf(<<k1, m1>>, GroupsOf(findings, k1)[m1], sigs, selected)
    BY <2>1 DEF IsIncident
  <2>3. PICK k2 \in {KeyOf(f) : f \in findings} : \E m2 \in DOMAIN GroupsOf(findings, k2) :
          j = IncidentOf(<<k2, m2>>, GroupsOf(findings, k2)[m2], sigs, selected)
    BY <2>1 DEF IsIncident
  <2>4. PICK m1 \in DOMAIN GroupsOf(findings, k1) :
          i = IncidentOf(<<k1, m1>>, GroupsOf(findings, k1)[m1], sigs, selected)
    BY <2>2
  <2>5. PICK m2 \in DOMAIN GroupsOf(findings, k2) :
          j = IncidentOf(<<k2, m2>>, GroupsOf(findings, k2)[m2], sigs, selected)
    BY <2>3
  <2>6. i.id = <<k1, m1>> /\ j.id = <<k2, m2>>
    BY <2>4, <2>5 DEF IncidentOf
  <2>7. k1 = k2 /\ m1 = m2
    BY <2>6, <1>6
  <2> QED BY <2>4, <2>5, <2>7
<1> QED BY <1>5, <1>6 DEF IncidentsAreChains

(* splitByWindow makes incidents of exactly the chains of findings of one  *)
(* key whose steps are no longer than the window, and no two incidents of  *)
(* a state have one ID.                                                    *)
THEOREM IncidentsChain == Spec => []IncidentsAreChains
BY FlowHolds, InvChains, PTL

-----------------------------------------------------------------------------
(* Incidents only grow while findings come in the order of their times.    *)

(* Orders that differ in the findings of one time only.                    *)
LEMMA NotEarlier ==
  ASSUME NEW A \in SUBSET Finding, IsFiniteSet(A), NEW s, NEW t, Sorted(s, A), Sorted(t, A),
         NEW i \in 1 .. Cardinality(A)
  PROVE  t[i].at <= s[i].at
<1> DEFINE n == Cardinality(A)
<1>1. n \in Nat
  BY FS_CardinalityType
<1>2. /\ \A j \in 1 .. n : s[j] \in A /\ t[j] \in A /\ s[j].at \in Int /\ t[j].at \in Int
      /\ \A f \in A : \E k \in 1 .. n : t[k] = f
  <2>1. ASSUME NEW j \in 1 .. n PROVE s[j] \in A /\ t[j] \in A /\ s[j].at \in Int /\ t[j].at \in Int
    <3>1. s[j] \in A /\ t[j] \in A
      BY DEF Sorted
    <3>2. s[j].at \in Nat /\ t[j].at \in Nat
      BY <3>1, FindingTimes
    <3> QED BY <3>1, <3>2
  <2> QED BY <2>1, SortedCovers
<1> SUFFICES ASSUME s[i].at < t[i].at PROVE FALSE
  BY <1>2
<1> DEFINE pos == [j \in 1 .. i |-> CHOOSE k \in 1 .. n : t[k] = s[j]]
<1>3. i \in Nat /\ i - 1 \in Nat /\ i <= n
  BY <1>1
<1>4. ASSUME NEW j \in 1 .. i
      PROVE  pos[j] \in 1 .. i - 1 /\ t[pos[j]] = s[j]
  <2>1. j \in 1 .. n /\ i \in 1 .. n /\ (j < i \/ j = i)
    BY <1>1, <1>3
  <2>2. pos[j] \in 1 .. n /\ t[pos[j]] = s[j]
    BY <2>1, <1>2
  <2> HIDE DEF pos
  <2>3. s[j].at <= s[i].at
    BY <2>1, <1>2 DEF Sorted
  <2>4. t[pos[j]].at < t[i].at
    BY <2>1, <2>2, <2>3, <1>2
  <2>5. ~ (i < pos[j]) /\ pos[j] # i
    BY SMTT(30), <2>1, <2>2, <2>4, <1>2 DEF Sorted
  <2> QED BY <2>2, <2>5, <1>3
<1>5. pos \in [1 .. i -> 1 .. i - 1]
  BY <1>4
<1> HIDE DEF pos
<1>6. PICK x \in 1 .. i, y \in 1 .. i : x # y /\ pos[x] = pos[y]
  <2>1. /\ IsFiniteSet(1 .. i) /\ Cardinality(1 .. i) = i
        /\ IsFiniteSet(1 .. i - 1) /\ Cardinality(1 .. i - 1) = i - 1
    <3>1. i \in Int /\ i - 1 \in Int /\ 1 \in Int
      BY <1>3
    <3>2. /\ IsFiniteSet(1 .. i) /\ Cardinality(1 .. i) = IF 1 > i THEN 0 ELSE i - 1 + 1
          /\ IsFiniteSet(1 .. i - 1)
          /\ Cardinality(1 .. i - 1) = IF 1 > i - 1 THEN 0 ELSE i - 1 - 1 + 1
      BY <3>1, FS_Interval
    <3> QED BY <3>2, <1>3
  <2>2. Cardinality(1 .. i - 1) < Cardinality(1 .. i)
    BY <2>1, <1>3
  <2> QED BY <2>1, <2>2, <1>5, FS_PigeonHole
<1>7. s[x] = s[y]
  <2>1. t[pos[x]] = s[x] /\ t[pos[y]] = s[y]
    BY <1>4
  <2> QED BY <2>1, <1>6
<1>8. x \in 1 .. n /\ y \in 1 .. n /\ (x < y \/ y < x)
  BY <1>1, <1>3, <1>6
<1> QED BY <1>7, <1>8 DEF Sorted

ComesLast(f, A, B) == f \notin A /\ B = A \union {f} /\ \A g \in A : g.at <= f.at

(* A finding that is not earlier than the others comes last: the times     *)
(* before it, and with them the runs, stay as they were.                   *)
LEMMA LateComesLast ==
  ASSUME NEW A \in SUBSET Finding, IsFiniteSet(A), NEW B, NEW f \in Finding,
         ComesLast(f, A, B), NEW s, NEW t, Sorted(s, A), Sorted(t, B)
  PROVE  /\ Cardinality(B) = Cardinality(A) + 1
         /\ \A i \in 1 .. Cardinality(A) : t[i].at = s[i].at /\ RunAt(t, i) = RunAt(s, i)
<1> DEFINE n == Cardinality(A)
           u == [i \in 1 .. n + 1 |-> IF i = n + 1 THEN f ELSE s[i]]
<1>1. n \in Nat
  BY FS_CardinalityType
<1>2. IsFiniteSet(B) /\ Cardinality(B) = n + 1 /\ B \in SUBSET Finding
  BY FS_AddElement DEF ComesLast
<1> HIDE DEF n
<1>3. \A i \in 1 .. n : i \in 1 .. n + 1 /\ i # n + 1 /\ s[i] \in A /\ u[i] = s[i]
  BY <1>1 DEF Sorted, n
<1>4. Sorted(u, B)
  <2>1. \A i \in 1 .. n + 1 : i # n + 1 => i \in 1 .. n
    BY <1>1
  <2>2. u \in [1 .. n + 1 -> B]
    BY <1>3, <2>1 DEF ComesLast
  <2>3. ASSUME NEW i \in 1 .. n + 1, NEW j \in 1 .. n + 1, i < j
        PROVE  u[i] # u[j] /\ u[i].at <= u[j].at
    <3>1. i \in 1 .. n
      BY <2>3, <1>1
    <3>2. CASE j = n + 1
      <4>1. u[j] = f /\ u[i] = s[i] /\ s[i] \in A
        BY <3>1, <3>2, <1>3
      <4> QED BY <4>1 DEF ComesLast
    <3>3. CASE j # n + 1
      <4>1. j \in 1 .. n
        BY <3>3, <2>1
      <4>2. u[i] = s[i] /\ u[j] = s[j]
        BY <3>1, <4>1, <1>3
      <4> QED BY <4>1, <4>2, <3>1, <2>3 DEF Sorted, n
    <3> QED BY <3>2, <3>3
  <2> HIDE DEF u
  <2> QED BY <2>2, <2>3, <1>2 DEF Sorted
<1> HIDE DEF u
<1>5. ASSUME NEW i \in 1 .. n PROVE t[i].at = s[i].at /\ s[i].at \in Int
  <2>1. i \in 1 .. Cardinality(B)
    BY <1>2, <1>3
  <2>2. t[i].at <= u[i].at /\ u[i].at <= t[i].at
    BY <2>1, <1>2, <1>4, NotEarlier
  <2>3. u[i] \in Finding /\ t[i] \in Finding
    BY <2>1, <1>2, <1>4 DEF Sorted
  <2>4. u[i].at \in Nat /\ t[i].at \in Nat
    BY <2>3, FindingTimes
  <2> QED BY <2>2, <2>4, <1>3
<1>6. ASSUME NEW i \in 1 .. n PROVE RunAt(t, i) = RunAt(s, i)
  <2>1. ASSUME NEW j \in 1 .. i PROVE Starts(t, j) <=> Starts(s, j)
    <3>1. CASE j = 1
      BY <3>1 DEF Starts
    <3>2. CASE j # 1
      <4>1. j \in 1 .. n /\ j - 1 \in 1 .. n
        BY <3>2, <1>1
      <4>2. t[j].at = s[j].at /\ t[j - 1].at = s[j - 1].at
        BY <4>1, <1>5
      <4> QED BY <4>2 DEF Starts
    <3> QED BY <3>1, <3>2
  <2>2. {j \in 1 .. i : Starts(t, j)} = {j \in 1 .. i : Starts(s, j)}
    BY <2>1
  <2> QED BY <2>2 DEF RunAt
<1> QED BY <1>2, <1>5, <1>6 DEF n

(* The worst of finitely many findings.                                    *)
LEMMA WorstIsHighest ==
  ASSUME NEW g \in Seq(Finding), IsFiniteSet(Range(g))
  PROVE  /\ HighestSeverity(g) \in Nat
         /\ HighestSeverity(g) \in {f.severity : f \in Range(g)} \union {1}
         /\ \A x \in {f.severity : f \in Range(g)} \union {1} : x <= HighestSeverity(g)
<1> DEFINE S(F) == {f.severity : f \in F} \union {1}
           Has(F) == \E x \in S(F) : \A y \in S(F) : y <= x
           Bad == {n \in Nat : \E F \in SUBSET Range(g) : Cardinality(F) = n /\ ~ Has(F)}
<1>1. \A F \in SUBSET Range(g) : IsFiniteSet(F) /\ Cardinality(F) \in Nat
  BY FS_Subset, FS_CardinalityType
<1>2. \A f \in Range(g) : f.severity \in Nat
  <2> SUFFICES ASSUME NEW f \in Range(g) PROVE f.severity \in Nat
    OBVIOUS
  <2>1. f \in Finding
    BY DEF Range
  <2> QED BY <2>1, FindingTimes
<1>3. Bad = {}
  <2> SUFFICES ASSUME Bad # {} PROVE FALSE
    OBVIOUS
  <2>1. PICK n \in Bad : \A m \in Bad : n <= m
    <3>1. Bad \in SUBSET Nat
      OBVIOUS
    <3> HIDE DEF Bad
    <3> QED BY <3>1, SmallestMember
  <2>2. PICK F \in SUBSET Range(g) : Cardinality(F) = n /\ ~ Has(F)
    BY <2>1
  <2>3. PICK f \in F : TRUE
    <3> SUFFICES ASSUME F = {} PROVE FALSE
      OBVIOUS
    <3>1. S({}) = {1}
      OBVIOUS
    <3>2. Has({})
      BY <3>1
    <3> QED BY <3>2, <2>2
  <2> DEFINE R == F \ {f}
  <2>4. R \in SUBSET Range(g) /\ Cardinality(R) = n - 1
    BY <2>2, <1>1, FS_RemoveElement
  <2>5. n - 1 \in Nat /\ ~ (n <= n - 1)
    BY <2>4, <1>1
  <2>6. Has(R)
    <3>1. n - 1 \notin Bad
      <4> HIDE DEF Bad
      <4> QED BY <2>1, <2>5
    <3> HIDE DEF R, Has
    <3> QED BY <3>1, <2>4, <2>5
  <2>7. PICK x \in S(R) : \A y \in S(R) : y <= x
    BY <2>6
  <2>8. S(F) = S(R) \union {f.severity}
    OBVIOUS
  <2>9. /\ x \in Nat /\ f.severity \in Nat
        /\ \A y \in S(R) : y \in Nat
    BY <1>2, <2>4
  <2> HIDE DEF R, S
  <2>10. CASE x <= f.severity
    <3>1. \A y \in S(R) : y <= f.severity
      BY <2>7, <2>9, <2>10
    <3>2. \A y \in S(F) : y <= f.severity
      BY <3>1, <2>8, <2>9
    <3> QED BY <3>2, <2>2, <2>8
  <2>11. CASE f.severity <= x
    BY <2>2, <2>7, <2>8, <2>11
  <2> QED BY <2>9, <2>10, <2>11
<1>4. PICK x \in S(Range(g)) : \A y \in S(Range(g)) : y <= x
  <2>1. Cardinality(Range(g)) \notin Bad
    BY <1>3
  <2> HIDE DEF Has
  <2>2. Has(Range(g))
    BY <1>1, <2>1
  <2> QED BY <2>2 DEF Has
<1>5. S(Range(g)) \in SUBSET Int /\ x \in Nat
  BY <1>2
<1>6. HighestSeverity(g) = x
  <2>1. HighestSeverity(g) = Max(S(Range(g)))
    BY DEF HighestSeverity
  <2> HIDE DEF S
  <2> QED BY <2>1, <1>4, <1>5, MaxIs
<1> QED BY <1>4, <1>5, <1>6

(* A run and what it is after a finding that comes last.                   *)
LEMMA RunGrows ==
  ASSUME NEW A \in SUBSET Finding, IsFiniteSet(A), NEW B, NEW f \in Finding,
         ComesLast(f, A, B), NEW s, NEW t, Sorted(s, A), Sorted(t, B),
         NEW m, NEW old, IsRun(old, s, Cardinality(A), m),
         NEW new, IsRun(new, t, Cardinality(B), m)
  PROVE  /\ Range(old) \subseteq Range(new) /\ old[1].at = new[1].at
         /\ Len(old) >= 2 => Len(new) >= 2
<1> DEFINE n == Cardinality(A)
<1>1. n \in Nat
  BY FS_CardinalityType
<1>2. IsFiniteSet(B) /\ B \in SUBSET Finding
  BY FS_AddElement DEF ComesLast
<1>3. /\ Cardinality(B) = n + 1
      /\ \A i \in 1 .. n : t[i].at = s[i].at /\ RunAt(t, i) = RunAt(s, i)
  <2>1. Cardinality(B) = Cardinality(A) + 1
    BY LateComesLast
  <2>2. \A i \in 1 .. Cardinality(A) : t[i].at = s[i].at /\ RunAt(t, i) = RunAt(s, i)
    BY LateComesLast
  <2> QED BY <2>1, <2>2
<1>4. PICK a \in 1 .. n : /\ RunAt(s, a) = m /\ old[1] = s[a]
                          /\ \A i \in 1 .. n : RunAt(s, i) = m <=> a <= i /\ i < a + Len(old)
                          /\ a + Len(old) - 1 <= n
  BY DEF IsRun
<1>5. PICK b \in 1 .. n + 1 :
        /\ RunAt(t, b) = m /\ new[1] = t[b]
        /\ \A i \in 1 .. n + 1 : RunAt(t, i) = m <=> b <= i /\ i < b + Len(new)
  BY <1>3 DEF IsRun
<1>6. Len(old) \in Nat /\ Len(new) \in Nat
  BY DEF IsRun
<1>7. a \in 1 .. n + 1 /\ RunAt(t, a) = m
  BY <1>1, <1>3, <1>4
<1>8. b <= a
  BY <1>5, <1>7
<1>9. b \in 1 .. n
  BY <1>8, <1>1
<1>10. RunAt(s, b) = m
  BY <1>3, <1>5, <1>9
<1>11. a = b
  <2>1. a <= b
    BY <1>4, <1>9, <1>10
  <2> QED BY <2>1, <1>8, <1>9
<1>12. old[1].at = new[1].at
  BY <1>3, <1>4, <1>5, <1>11
<1>13. ASSUME Len(old) >= 2 PROVE Len(new) >= 2
  <2>1. a + 1 \in 1 .. n /\ a + 1 \in 1 .. n + 1 /\ a <= a + 1 /\ a + 1 < a + Len(old)
    BY <1>13, <1>1, <1>4, <1>6
  <2>2. RunAt(s, a + 1) = m
    BY <2>1, <1>4
  <2>3. RunAt(t, a + 1) = m
    BY <2>1, <2>2, <1>3
  <2>4. a + 1 < b + Len(new)
    BY <2>1, <2>3, <1>5
  <2> QED BY <2>4, <1>6, <1>11, <1>1
<1>14. ASSUME NEW x \in Range(old) PROVE x \in Range(new)
  <2>1. PICK i \in 1 .. n : x = s[i] /\ RunAt(s, i) = m
    BY DEF IsRun
  <2>2. x \in B
    BY <2>1 DEF Sorted, ComesLast
  <2>3. PICK j \in 1 .. Cardinality(B) : t[j] = x
    BY <2>2, <1>2, SortedCovers
  <2>4. t[i].at = x.at /\ RunAt(t, i) = m /\ i \in 1 .. Cardinality(B)
    BY <2>1, <1>1, <1>3
  <2>5. t[i].at - t[j].at <= Window /\ t[j].at - t[i].at <= Window
    <3>1. x.at \in Nat
      BY <2>2, <1>2, FindingTimes
    <3> QED BY <3>1, <2>3, <2>4, FlowAssumption
  <2>6. Cardinality(B) \in Nat
    BY <1>1, <1>3
  <2>7. RunAt(t, j) = m
    <3>1. CASE i <= j
      BY <3>1, <1>2, <2>4, <2>5, <2>6, NearIsSameRun
    <3>2. CASE j <= i
      BY <3>2, <1>2, <2>4, <2>5, <2>6, NearIsSameRun
    <3> QED BY <3>1, <3>2, <2>6
  <2> QED BY <2>3, <2>7 DEF IsRun
<1> QED BY <1>12, <1>13, <1>14

Continues(i, j) ==
  /\ j.id = i.id /\ j.started = i.started
  /\ i.findings \subseteq j.findings
  /\ i.severity <= j.severity
  /\ i.outage => j.outage

(* An incident of more findings that begins at the same time.              *)
LEMMA GroupContinues ==
  ASSUME NEW id, NEW old \in Seq(Finding), NEW new \in Seq(Finding),
         IsFiniteSet(Range(old)), IsFiniteSet(Range(new)),
         Range(old) \subseteq Range(new), old[1].at = new[1].at,
         Len(old) >= 2 => Len(new) >= 2,
         NEW sigs, NEW later, NEW sel
  PROVE  Continues(IncidentOf(id, old, sigs, sel), IncidentOf(id, new, later, sel))
<1>1. HighestSeverity(old) <= HighestSeverity(new)
  <2>1. HighestSeverity(old) \in {f.severity : f \in Range(old)} \union {1}
    BY WorstIsHighest
  <2>2. HighestSeverity(old) \in {f.severity : f \in Range(new)} \union {1}
    BY <2>1
  <2>3. \A x \in {f.severity : f \in Range(new)} \union {1} : x <= HighestSeverity(new)
    BY WorstIsHighest
  <2> QED BY <2>2, <2>3
<1>2. IsServiceAvailability(old, sel) => IsServiceAvailability(new, sel)
  BY DEF IsServiceAvailability
<1> QED BY <1>1, <1>2 DEF Continues, IncidentOf

(* Signals that come or are updated change no incident but for its list.   *)
LEMMA SameFindingsContinue ==
  ASSUME NEW F \in SUBSET Finding, IsFiniteSet(F),
         NEW sigs, NEW later, NEW sel, NEW i, IsIncident(i, F, sigs, sel)
  PROVE  \E j : IsIncident(j, F, later, sel) /\ Continues(i, j)
<1>1. PICK key \in {KeyOf(g) : g \in F} : \E m \in DOMAIN GroupsOf(F, key) :
        i = IncidentOf(<<key, m>>, GroupsOf(F, key)[m], sigs, sel)
  BY DEF IsIncident
<1>2. PICK m \in DOMAIN GroupsOf(F, key) : i = IncidentOf(<<key, m>>, GroupsOf(F, key)[m], sigs, sel)
  BY <1>1
<1> DEFINE g == GroupsOf(F, key)[m]
           j == IncidentOf(<<key, m>>, g, later, sel)
<1>3. /\ IsRun(g, ByTime(OfKey(F, key)), Cardinality(OfKey(F, key)), m)
      /\ Sorted(ByTime(OfKey(F, key)), OfKey(F, key))
  BY KeyRuns
<1>4. IsFiniteSet(Range(g)) /\ g \in Seq(Finding)
  <2>1. OfKey(F, key) \in SUBSET F
    BY DEF OfKey
  <2>2. IsFiniteSet(OfKey(F, key))
    BY <2>1, FS_Subset
  <2> QED BY <1>3, <2>2, GroupIsFinite
<1>5. IsIncident(j, F, later, sel)
  BY DEF IsIncident
<1>6. Continues(i, j)
  <2> HIDE DEF g
  <2>1. Continues(IncidentOf(<<key, m>>, g, sigs, sel), IncidentOf(<<key, m>>, g, later, sel))
    BY <1>4, GroupContinues
  <2> QED BY <2>1, <1>2 DEF g
<1> QED BY <1>5, <1>6

(* A finding that comes last continues an incident or begins one.          *)
LEMMA LateFindingContinues ==
  ASSUME NEW F \in SUBSET Finding, IsFiniteSet(F), NEW f \in Finding, f \notin F,
         \A g \in F : KeyOf(f) = KeyOf(g) => g.at <= f.at,
         NEW sigs, NEW later, NEW sel, NEW i, IsIncident(i, F, sigs, sel)
  PROVE  \E j : IsIncident(j, F \union {f}, later, sel) /\ Continues(i, j)
<1> DEFINE G == F \union {f}
<1>1. G \in SUBSET Finding /\ IsFiniteSet(G)
  BY FS_AddElement
<1>2. PICK key \in {KeyOf(g) : g \in F} : \E m \in DOMAIN GroupsOf(F, key) :
        i = IncidentOf(<<key, m>>, GroupsOf(F, key)[m], sigs, sel)
  BY DEF IsIncident
<1>3. PICK m \in DOMAIN GroupsOf(F, key) : i = IncidentOf(<<key, m>>, GroupsOf(F, key)[m], sigs, sel)
  BY <1>2
<1>4. key \in {KeyOf(g) : g \in G}
  OBVIOUS
<1> DEFINE A == OfKey(F, key)
           B == OfKey(G, key)
           s == ByTime(A)
           t == ByTime(B)
           old == GroupsOf(F, key)[m]
           new == GroupsOf(G, key)[m]
           j == IncidentOf(<<key, m>>, new, later, sel)
<1>5. A \in SUBSET Finding /\ IsFiniteSet(A)
  <2>1. A \in SUBSET F
    BY DEF OfKey
  <2> QED BY <2>1, FS_Subset
<1>6. IsRun(old, s, Cardinality(A), m)
  BY KeyRuns
<1>7. Sorted(s, A) /\ Cardinality(A) \in Nat /\ m \in 1 .. RunAt(s, Cardinality(A))
  <2>1. Sorted(s, A) /\ Cardinality(A) \in Nat
    BY KeyRuns
  <2>2. DOMAIN GroupsOf(F, key) = 1 .. RunAt(s, Cardinality(A))
    BY KeyRuns
  <2> QED BY <2>1, <2>2
<1>8. Sorted(t, B)
  BY <1>1, KeyRuns
<1>9. IsFiniteSet(B)
  <2>1. B \in SUBSET G
    BY DEF OfKey
  <2> HIDE DEF B, G
  <2> QED BY <2>1, <1>1, FS_Subset
<1>10. DOMAIN GroupsOf(G, key) = 1 .. RunAt(t, Cardinality(B))
  BY <1>1, KeyRuns
<1>11. m \in DOMAIN GroupsOf(G, key) => IsRun(new, t, Cardinality(B), m)
  BY <1>1, KeyRuns
<1>12. m \in DOMAIN GroupsOf(G, key) /\ Continues(i, j)
  <2>1. CASE KeyOf(f) # key
    <3>1. B = A
      BY <2>1 DEF OfKey
    <3>2. GroupsOf(G, key) = GroupsOf(F, key)
      BY <3>1 DEF GroupsOf
    <3>3. IsFiniteSet(Range(old)) /\ old \in Seq(Finding)
      BY <1>5, <1>6, <1>7, GroupIsFinite
    <3>4. m \in DOMAIN GroupsOf(G, key) /\ new = old
      BY <3>2
    <3>5. Continues(IncidentOf(<<key, m>>, old, sigs, sel), IncidentOf(<<key, m>>, old, later, sel))
      <4> HIDE DEF old
      <4> QED BY <3>3, GroupContinues
    <3> QED BY <3>4, <3>5, <1>3
  <2>2. CASE KeyOf(f) = key
    <3>1. ComesLast(f, A, B)
      BY <2>2 DEF OfKey, ComesLast
    <3> HIDE DEF A, B, s, t, old, new, G
    <3> DEFINE n == Cardinality(A)
    <3>2. Cardinality(B) = n + 1
      BY <3>1, <1>5, <1>7, <1>8, LateComesLast
    <3>3. \A k \in 1 .. Cardinality(A) : t[k].at = s[k].at /\ RunAt(t, k) = RunAt(s, k)
      BY <3>1, <1>5, <1>7, <1>8, LateComesLast
    <3>4. n \in Nat /\ n + 1 \in Nat /\ n <= n + 1
      BY <1>7
    <3>5. n \in 1 .. n
      <4>1. PICK a \in 1 .. n : RunAt(s, a) = m
        BY <1>6 DEF IsRun
      <4> QED BY <4>1, <3>4
    <3>6. RunAt(t, n) <= RunAt(t, n + 1) /\ RunAt(t, n) \in Nat /\ RunAt(t, n + 1) \in Nat
      BY <3>4, RunsAscend, RunsStep
    <3>7. m \in 1 .. RunAt(t, n + 1)
      <4>1. RunAt(t, n) = RunAt(s, n)
        BY <3>3, <3>5
      <4> HIDE DEF n
      <4> QED BY <4>1, <3>6, <1>7 DEF n
    <3>8. m \in DOMAIN GroupsOf(G, key)
      BY <3>2, <3>7, <1>10
    <3>9. IsRun(new, t, Cardinality(B), m)
      BY <3>8, <1>11
    <3>10. Range(old) \subseteq Range(new)
      BY <3>1, <3>9, <1>5, <1>6, <1>7, <1>8, RunGrows
    <3>11. old[1].at = new[1].at /\ (Len(old) >= 2 => Len(new) >= 2)
      BY <3>1, <3>9, <1>5, <1>6, <1>7, <1>8, RunGrows
    <3>12. IsFiniteSet(Range(old)) /\ old \in Seq(Finding)
      BY <1>5, <1>6, <1>7, GroupIsFinite
    <3>13. IsFiniteSet(Range(new)) /\ new \in Seq(Finding)
      BY <3>9, <1>8, <1>9, GroupIsFinite
    <3>14. Continues(IncidentOf(<<key, m>>, old, sigs, sel), IncidentOf(<<key, m>>, new, later, sel))
      BY <3>10, <3>11, <3>12, <3>13, GroupContinues
    <3> QED BY <3>8, <3>14, <1>3 DEF old
  <2> QED BY <2>1, <2>2
<1>13. IsIncident(j, G, later, sel)
  BY <1>4, <1>12 DEF IsIncident
<1> QED BY <1>12, <1>13

(* One step, of whichever action, under the hypothesis of                  *)
(* IncidentsOnlyGrow.                                                      *)
LEMMA StepGrows ==
  ASSUME FlowInv, [Next]_vars,
         \A f \in findings' \ findings, g \in findings : KeyOf(f) = KeyOf(g) => g.at <= f.at
  PROVE  \A i \in Incidents : \E j \in Incidents' : Continues(i, j)
<1> SUFFICES ASSUME NEW i \in Incidents PROVE \E j \in Incidents' : Continues(i, j)
  OBVIOUS
<1>1. findings \in SUBSET Finding /\ IsFiniteSet(findings)
  BY DEF FlowInv, InputInv
<1>2. IsIncident(i, findings, Range(signals), selected)
  BY IncidentIsRun DEF Incidents
<1>3. \A j : j \in Incidents' <=> IsIncident(j, findings', Range(signals'), selected')
  <2>1. Incidents' = Aggregate(findings', Range(signals'), selected')
    BY DEF Incidents
  <2> QED BY <2>1, IncidentIsRun
<1>4. selected' = selected
  BY DEF Next, Sight, Judge, Find, vars
<1>5. findings' = findings \/ \E f \in Finding : f \notin findings /\ findings' = findings \union {f}
  BY DEF Next, Sight, Judge, Find, vars
<1>6. CASE findings' = findings
  BY <1>1, <1>2, <1>3, <1>4, <1>6, SameFindingsContinue
<1>7. CASE \E f \in Finding : f \notin findings /\ findings' = findings \union {f}
  <2>1. PICK f \in Finding : f \notin findings /\ findings' = findings \union {f}
    BY <1>7
  <2>2. f \in findings' \ findings
    BY <2>1
  <2>3. \A g \in findings : KeyOf(f) = KeyOf(g) => g.at <= f.at
    BY <2>2
  <2>4. \E j : IsIncident(j, findings \union {f}, Range(signals'), selected) /\ Continues(i, j)
    BY <1>1, <1>2, <2>1, <2>3, LateFindingContinues
  <2> QED BY <1>3, <1>4, <2>1, <2>4
<1> QED BY <1>5, <1>6, <1>7

(* While findings arrive in the order of their times, the incidents that   *)
(* Aggregate returns keep their IDs and starts and only gain findings,     *)
(* severity and the title of an outage.                                    *)
THEOREM IncidentsGrow == Spec => IncidentsOnlyGrow
<1>1. FlowInv /\ [Next]_vars =>
        [(\A f \in findings' \ findings, g \in findings :
            KeyOf(f) = KeyOf(g) => g.at <= f.at)
         => LET later == Incidents' IN
            \A i \in Incidents : \E j \in later :
              /\ j.id = i.id /\ j.started = i.started
              /\ i.findings \subseteq j.findings
              /\ i.severity <= j.severity
              /\ i.outage => j.outage]_<<findings, selected>>
  BY StepGrows DEF Continues
<1> QED BY <1>1, FlowHolds, PTL DEF Spec, IncidentsOnlyGrow

-----------------------------------------------------------------------------
(* What changes the list of Signals of an incident.                        *)

(* A finding more, of whatever time, parts no two findings of a run.       *)
LEMMA NeighboursStay ==
  ASSUME NEW A \in SUBSET Finding, IsFiniteSet(A), NEW s, Sorted(s, A),
         NEW B \in SUBSET Finding, IsFiniteSet(B), NEW t, Sorted(t, B),
         NEW i \in Nat, i \in 1 .. Cardinality(A), i + 1 \in 1 .. Cardinality(A),
         RunAt(s, i) = RunAt(s, i + 1),
         NEW p \in 1 .. Cardinality(B), t[p] = s[i],
         NEW q \in 1 .. Cardinality(B), t[q] = s[i + 1]
  PROVE  RunAt(t, p) = RunAt(t, q)
<1>1. Cardinality(A) \in Nat /\ Cardinality(B) \in Nat
  BY FS_CardinalityType
<1>2. s[i] \in A /\ s[i + 1] \in A /\ s[i].at <= s[i + 1].at
  <2>1. i < i + 1
    OBVIOUS
  <2> QED BY <2>1 DEF Sorted
<1>3. s[i].at \in Int /\ s[i + 1].at \in Int
  <2>1. s[i].at \in Nat /\ s[i + 1].at \in Nat
    BY <1>2, FindingTimes
  <2> QED BY <2>1
<1>4. ~ Starts(s, i + 1)
  BY RunsStep
<1>5. s[i + 1].at - s[i].at <= Window
  <2>1. i + 1 - 1 = i
    OBVIOUS
  <2> QED BY <1>4, <2>1, <1>3, FlowAssumption DEF Starts
<1>6. CASE p <= q
  <2>1. t[q].at - t[p].at <= Window
    BY <1>5
  <2> QED BY <1>1, <1>6, <2>1, NearIsSameRun
<1>7. CASE q <= p
  <2>1. t[p].at - t[q].at <= Window
    BY <1>2, <1>3, FlowAssumption
  <2> QED BY <1>1, <1>7, <2>1, NearIsSameRun
<1>8. p <= q \/ q <= p
  BY <1>1
<1> QED BY <1>6, <1>7, <1>8

(* So a run is part of one run of what there is later.                     *)
LEMMA RunStays ==
  ASSUME NEW A \in SUBSET Finding, IsFiniteSet(A), NEW s, Sorted(s, A),
         NEW B \in SUBSET Finding, IsFiniteSet(B), NEW t, Sorted(t, B), A \subseteq B,
         NEW group, NEW m, IsRun(group, s, Cardinality(A), m),
         NEW p \in 1 .. Cardinality(B), t[p] = group[1]
  PROVE  \A f \in Range(group) :
           \E q \in 1 .. Cardinality(B) : t[q] = f /\ RunAt(t, q) = RunAt(t, p)
<1> DEFINE n == Cardinality(A)
           Found(i) == \E q \in 1 .. Cardinality(B) : t[q] = s[i] /\ RunAt(t, q) = RunAt(t, p)
           Bad == {i \in Nat : i \in 1 .. n /\ RunAt(s, i) = m /\ ~ Found(i)}
<1>1. n \in Nat
  BY FS_CardinalityType
<1>2. PICK a \in 1 .. n : /\ RunAt(s, a) = m /\ group[1] = s[a]
                          /\ \A i \in 1 .. n : RunAt(s, i) = m <=> a <= i /\ i < a + Len(group)
  BY DEF IsRun
<1>3. Bad = {}
  <2> SUFFICES ASSUME Bad # {} PROVE FALSE
    OBVIOUS
  <2>1. PICK k \in Bad : \A y \in Bad : k <= y
    <3>1. Bad \in SUBSET Nat
      OBVIOUS
    <3> HIDE DEF Bad
    <3> QED BY <3>1, SmallestMember
  <2>2. k \in 1 .. n /\ RunAt(s, k) = m /\ ~ Found(k)
    OBVIOUS
  <2>3. k # a
    BY <1>2, <2>2
  <2>4. a <= k /\ k < a + Len(group) /\ Len(group) \in Nat
    BY <1>2, <2>2 DEF IsRun
  <2>5. /\ k - 1 \in Nat /\ k - 1 \in 1 .. n /\ k - 1 + 1 = k
        /\ a <= k - 1 /\ k - 1 < a + Len(group) /\ ~ (k <= k - 1)
    <3> HIDE DEF n, Bad, Found
    <3> QED BY <1>1, <2>2, <2>3, <2>4
  <2>6. RunAt(s, k - 1) = m
    BY <1>2, <2>5
  <2>7. Found(k - 1)
    <3>1. k - 1 \notin Bad
      BY <2>1, <2>5
    <3> QED BY <3>1, <2>5, <2>6
  <2>8. PICK q \in 1 .. Cardinality(B) : t[q] = s[k - 1] /\ RunAt(t, q) = RunAt(t, p)
    BY <2>7
  <2>9. PICK r \in 1 .. Cardinality(B) : t[r] = s[k]
    <3>1. s[k] \in B
      BY <2>2 DEF Sorted
    <3> QED BY <3>1, SortedCovers
  <2>10. RunAt(t, q) = RunAt(t, r)
    <3> HIDE DEF n, Bad, Found
    <3>1. RunAt(s, k - 1) = RunAt(s, k - 1 + 1)
      BY <2>2, <2>5, <2>6
    <3>2. k - 1 + 1 \in 1 .. n /\ t[r] = s[k - 1 + 1]
      BY <2>2, <2>5, <2>9
    <3> QED BY <3>1, <3>2, <2>5, <2>8, <2>9, NeighboursStay DEF n
  <2> QED BY <2>2, <2>8, <2>9, <2>10
<1>4. ASSUME NEW f \in Range(group)
      PROVE  \E q \in 1 .. Cardinality(B) : t[q] = f /\ RunAt(t, q) = RunAt(t, p)
  <2>1. PICK i \in 1 .. n : RunAt(s, i) = m /\ f = s[i]
    BY DEF IsRun
  <2>2. i \notin Bad /\ i \in Nat
    BY <1>3
  <2>3. Found(i)
    BY <2>1, <2>2
  <2> QED BY <2>1, <2>3
<1> QED BY <1>4

(* The run it becomes part of begins no later.                             *)
LEMMA RunBegins ==
  ASSUME NEW B \in SUBSET Finding, IsFiniteSet(B), NEW t, Sorted(t, B),
         NEW group, NEW m, IsRun(group, t, Cardinality(B), m),
         NEW p \in 1 .. Cardinality(B), RunAt(t, p) = m
  PROVE  group[1].at <= t[p].at
<1>1. Cardinality(B) \in Nat
  BY FS_CardinalityType
<1>2. PICK b \in 1 .. Cardinality(B) :
        group[1] = t[b] /\ \A i \in 1 .. Cardinality(B) : RunAt(t, i) = m => b <= i
  BY DEF IsRun
<1>3. b <= p
  BY <1>2
<1>4. t[b] \in Finding /\ t[b].at \in Nat
  <2>1. t[b] \in Finding
    BY DEF Sorted
  <2> QED BY <2>1, FindingTimes
<1>5. CASE b = p
  BY <1>2, <1>4, <1>5
<1>6. CASE b # p
  <2>1. b < p
    BY <1>1, <1>3, <1>6
  <2> QED BY <1>2, <2>1 DEF Sorted
<1> QED BY <1>5, <1>6

(* What an incident lists, told by its findings and its start.             *)
Recent(i, q) == (\E f \in i.findings : f.resource = q.resource) /\ q.last - i.started <= Window
Lists(i, sigs) ==
  \A id : id \in i.signals <=> \E q \in sigs : q.id = id /\ Recent(i, q)
Within(i, j) ==
  i.findings \subseteq j.findings /\ i.started \in Nat /\ j.started \in Nat /\ j.started <= i.started

LEMMA IncidentLists ==
  ASSUME NEW id, NEW group, NEW sigs, NEW sel
  PROVE  Lists(IncidentOf(id, group, sigs, sel), sigs)
BY DEF Lists, Recent, IncidentOf, SignalIds

(* Every incident lies within one of those there are with more findings.   *)
LEMMA IncidentStays ==
  ASSUME NEW F \in SUBSET Finding, IsFiniteSet(F),
         NEW G \in SUBSET Finding, IsFiniteSet(G), F \subseteq G,
         NEW sigs, NEW later, NEW sel, NEW i, IsIncident(i, F, sigs, sel)
  PROVE  \E j : IsIncident(j, G, later, sel) /\ Within(i, j) /\ Lists(i, sigs) /\ Lists(j, later)
<1>1. PICK key \in {KeyOf(f) : f \in F} : \E m \in DOMAIN GroupsOf(F, key) :
        i = IncidentOf(<<key, m>>, GroupsOf(F, key)[m], sigs, sel)
  BY DEF IsIncident
<1>2. PICK m \in DOMAIN GroupsOf(F, key) : i = IncidentOf(<<key, m>>, GroupsOf(F, key)[m], sigs, sel)
  BY <1>1
<1> DEFINE A == OfKey(F, key)
           B == OfKey(G, key)
           s == ByTime(A)
           t == ByTime(B)
           old == GroupsOf(F, key)[m]
<1>3. key \in {KeyOf(f) : f \in G}
  OBVIOUS
<1>4. A \in SUBSET Finding /\ IsFiniteSet(A) /\ B \in SUBSET Finding /\ IsFiniteSet(B) /\ A \subseteq B
  <2>1. A \in SUBSET F /\ B \in SUBSET G /\ A \subseteq B
    BY DEF OfKey
  <2> HIDE DEF A, B
  <2> QED BY <2>1, FS_Subset
<1>5. Sorted(s, A) /\ IsRun(old, s, Cardinality(A), m)
  BY KeyRuns
<1>6. Sorted(t, B) /\ \A p \in 1 .. Cardinality(B) : RunAt(t, p) \in DOMAIN GroupsOf(G, key)
  BY KeyRuns
<1>7. \A k \in DOMAIN GroupsOf(G, key) : IsRun(GroupsOf(G, key)[k], t, Cardinality(B), k)
  BY KeyRuns
<1> HIDE DEF A, B, s, t, old
<1>8. old[1] \in Range(old) /\ Range(old) \subseteq A
  <2>1. old \in Seq(Finding) /\ Len(old) >= 1
    BY <1>5 DEF IsRun
  <2>2. 1 \in DOMAIN old
    BY <2>1
  <2>3. Range(old) \subseteq A
    BY <1>5 DEF IsRun, Sorted
  <2> QED BY <2>2, <2>3 DEF Range
<1>9. PICK p \in 1 .. Cardinality(B) : t[p] = old[1]
  <2>1. old[1] \in B
    BY <1>4, <1>8
  <2> QED BY <2>1, <1>4, <1>6, SortedCovers
<1> DEFINE k == RunAt(t, p)
           new == GroupsOf(G, key)[k]
           j == IncidentOf(<<key, k>>, new, later, sel)
<1>10. k \in DOMAIN GroupsOf(G, key) /\ IsRun(new, t, Cardinality(B), k)
  BY <1>6, <1>7
<1>11. IsIncident(j, G, later, sel)
  BY <1>3, <1>10 DEF IsIncident
<1>12. Range(old) \subseteq Range(new)
  <2> SUFFICES ASSUME NEW f \in Range(old) PROVE f \in Range(new)
    OBVIOUS
  <2>1. PICK q \in 1 .. Cardinality(B) : t[q] = f /\ RunAt(t, q) = RunAt(t, p)
    BY <1>4, <1>5, <1>6, <1>9, RunStays
  <2> HIDE DEF k, new
  <2>2. RunAt(t, q) = k
    BY <2>1 DEF k
  <2> QED BY <1>10, <2>1, <2>2 DEF IsRun
<1>13. new[1].at <= old[1].at
  <2> HIDE DEF new
  <2> QED BY <1>4, <1>6, <1>9, <1>10, RunBegins
<1>14. old[1].at \in Nat /\ new[1].at \in Nat
  <2>1. old[1] \in Finding /\ new[1] \in Finding
    <3> HIDE DEF new
    <3>1. old \in Seq(Finding) /\ Len(old) >= 1 /\ new \in Seq(Finding) /\ Len(new) >= 1
      BY <1>5, <1>10 DEF IsRun
    <3> QED BY <3>1
  <2> HIDE DEF new
  <2> QED BY <2>1, FindingTimes
<1> HIDE DEF new, k
<1>15. i.findings = Range(old) /\ i.started = old[1].at
  BY <1>2 DEF IncidentOf, old
<1>16. j.findings = Range(new) /\ j.started = new[1].at
  BY DEF IncidentOf
<1>17. Lists(i, sigs) /\ Lists(j, later)
  <2>1. Lists(i, sigs)
    BY <1>2, IncidentLists
  <2>2. Lists(j, later)
    BY IncidentLists
  <2> QED BY <2>1, <2>2
<1>18. Within(i, j)
  <2> HIDE DEF j
  <2> QED BY <1>12, <1>13, <1>14, <1>15, <1>16 DEF Within
<1> QED BY <1>11, <1>17, <1>18

(* What a step does to the Signal of a fingerprint: nothing, or an Event   *)
(* of it makes its last time later.                                        *)
Delivered(e) == seen' = seen (+) SetToBag({e})
LEMMA SignalStep ==
  ASSUME FlowInv, [Next]_vars, NEW fp \in DOMAIN signals
  PROVE  /\ fp \in DOMAIN signals'
         /\ \/ signals'[fp].last = signals[fp].last
            \/ /\ signals[fp].last <= signals'[fp].last
               /\ \E e \in Events : /\ Delivered(e) /\ e.resource = fp[1]
                                    /\ e.last = signals'[fp].last
<1>1. CASE signals' = signals
  BY <1>1
<1>2. ASSUME NEW e \in Events, Sight(e)
      PROVE  /\ fp \in DOMAIN signals'
             /\ \/ signals'[fp].last = signals[fp].last
                \/ /\ signals[fp].last <= signals'[fp].last
                   /\ \E x \in Events : /\ Delivered(x) /\ x.resource = fp[1]
                                        /\ x.last = signals'[fp].last
  <2>1. /\ DOMAIN signals' = DOMAIN signals \union {FingerprintOf(e)}
        /\ \A fq \in DOMAIN signals \ {FingerprintOf(e)} : signals'[fq] = signals[fq]
    BY <1>2, SightSignals
  <2>2. CASE fp # FingerprintOf(e)
    BY <2>1, <2>2
  <2>3. CASE fp = FingerprintOf(e)
    <3>1. signals'[fp].last = IF e.last > signals[fp].last THEN e.last ELSE signals[fp].last
      BY <1>2, <2>3, SightSignals
    <3>2. e.last \in Int /\ signals[fp].last \in Int
      <4>1. e.last \in Times
        BY EventFacts
      <4>2. signals[fp].last \in Times
        BY DEF FlowInv, SignalInv, Signal
      <4> QED BY <4>1, <4>2, FlowAssumption DEF Times
    <3>3. e.resource = fp[1] /\ Delivered(e)
      BY <1>2, <2>3 DEF FingerprintOf, Delivered, Sight
    <3> QED BY <2>1, <3>1, <3>2, <3>3
  <2> QED BY <2>2, <2>3
<1>3. signals' = signals \/ \E e \in Events : Sight(e)
  BY DEF Next, Judge, Find, vars
<1> QED BY <1>1, <1>2, <1>3

SignalFacts(sigs) ==
  \A fp \in DOMAIN sigs : /\ fp \in Fingerprints /\ sigs[fp].last \in Int
                          /\ sigs[fp].id = fp[1] /\ sigs[fp].resource = fp[1]
LEMMA SignalsAreOfResources ==
  FlowInv => SignalFacts(signals)
<1> SUFFICES ASSUME FlowInv, NEW fp \in DOMAIN signals
             PROVE  /\ fp \in Fingerprints /\ signals[fp].last \in Int
                    /\ signals[fp].id = fp[1] /\ signals[fp].resource = fp[1]
  BY DEF SignalFacts
<1>1. fp \in Fingerprints
  <2>1. PICK e \in DOMAIN seen : fp = FingerprintOf(e)
    BY DEF FlowInv, SignalInv
  <2>2. e \in Events
    BY DEF FlowInv, InputInv
  <2> QED BY <2>1, <2>2, EventFacts
<1>2. signals[fp].last \in Int
  <2>1. signals[fp].last \in Times
    BY DEF FlowInv, SignalInv, Signal
  <2> QED BY <2>1, FlowAssumption DEF Times
<1>3. signals[fp].id = fp[1] /\ signals[fp].resource = fp[1]
  BY DEF FlowInv, SignalInv
<1> QED BY <1>1, <1>2, <1>3

(* A Signal leaves the list of an incident that starts as before only by   *)
(* being seen again, too late.                                             *)
LEMMA SignalLeaves ==
  ASSUME FlowInv, FlowInv', [Next]_vars, NEW i, NEW j, Within(i, j),
         Lists(i, Range(signals)), Lists(j, Range(signals')),
         NEW id \in i.signals, id \notin j.signals
  PROVE  \/ j.started < i.started
         \/ \E e \in Events : e.resource = id /\ TooLate(e, j)
<1> SUFFICES ASSUME ~ (j.started < i.started)
             PROVE  \E e \in Events : e.resource = id /\ TooLate(e, j)
  OBVIOUS
<1>1. j.started = i.started /\ j.started \in Int
  BY DEF Within
<1>2. PICK q \in Range(signals) : q.id = id /\ Recent(i, q)
  BY DEF Lists
<1>3. PICK fp \in DOMAIN signals : q = signals[fp]
  BY DEF Range
<1>4. q.id = fp[1] /\ q.resource = fp[1] /\ q.last \in Int
  BY <1>3, SignalsAreOfResources DEF SignalFacts
<1>5. fp \in DOMAIN signals'
  BY SignalStep
<1>6. signals'[fp].id = fp[1] /\ signals'[fp].resource = fp[1] /\ signals'[fp].last \in Int
  <2>1. SignalFacts(signals')
    <3>1. (FlowInv => SignalFacts(signals))'
      BY SignalsAreOfResources, PTL
    <3> QED BY <3>1 DEF SignalFacts
  <2> QED BY <2>1, <1>5 DEF SignalFacts
<1>7. signals'[fp] \in Range(signals')
  BY <1>5 DEF Range
<1>8. ~ Recent(j, signals'[fp])
  BY <1>2, <1>4, <1>6, <1>7 DEF Lists
<1>9. \E f \in j.findings : f.resource = signals'[fp].resource
  BY <1>2, <1>4, <1>6 DEF Recent, Within
<1>10. signals'[fp].last - j.started > Window
  BY <1>1, <1>6, <1>8, <1>9, FlowAssumption DEF Recent
<1>11. signals'[fp].last # signals[fp].last
  <2>1. q.last - j.started <= Window
    BY <1>1, <1>2 DEF Recent
  <2> QED BY <2>1, <1>1, <1>3, <1>4, <1>10, FlowAssumption
<1>12. PICK e \in Events : Delivered(e) /\ e.resource = fp[1] /\ e.last = signals'[fp].last
  BY <1>11, SignalStep
<1> QED BY <1>2, <1>4, <1>10, <1>12 DEF TooLate, Delivered

(* A Signal comes to an incident of its resource only as a new one.        *)
LEMMA SignalComes ==
  ASSUME FlowInv, FlowInv', [Next]_vars, NEW i, NEW j, Within(i, j),
         Lists(i, Range(signals)), Lists(j, Range(signals')),
         NEW id \in j.signals, id \notin i.signals
  PROVE  \/ \A f \in i.findings : f.resource # id
         \/ \E fp \in Fingerprints : fp[1] = id /\ IsNew(fp)
<1> SUFFICES ASSUME NEW f \in i.findings, f.resource = id
             PROVE  \E fp \in Fingerprints : fp[1] = id /\ IsNew(fp)
  OBVIOUS
<1>1. PICK q \in Range(signals') : q.id = id /\ Recent(j, q)
  BY DEF Lists
<1>2. PICK fp \in DOMAIN signals' : q = signals'[fp]
  BY DEF Range
<1>3. fp \in Fingerprints /\ q.id = fp[1] /\ q.last \in Int
  <2>1. SignalFacts(signals')
    <3>1. (FlowInv => SignalFacts(signals))'
      BY SignalsAreOfResources, PTL
    <3> QED BY <3>1 DEF SignalFacts
  <2> QED BY <2>1, <1>2 DEF SignalFacts
<1>4. ASSUME fp \in DOMAIN signals PROVE FALSE
  <2>1. /\ signals[fp].last \in Int /\ signals[fp].last <= q.last
        /\ signals[fp].id = id /\ signals[fp].resource = id
    <3>1. /\ signals[fp].last \in Int
          /\ signals[fp].id = id /\ signals[fp].resource = id
      BY <1>1, <1>3, <1>4, SignalsAreOfResources DEF SignalFacts
    <3>2. signals[fp].last <= q.last
      BY <1>2, <1>4, <3>1, SignalStep
    <3> QED BY <3>1, <3>2
  <2>2. i.started \in Int /\ j.started \in Int /\ j.started <= i.started
    BY DEF Within
  <2>3. signals[fp].last - i.started <= Window
    <3>1. q.last - j.started <= Window
      BY <1>1 DEF Recent
    <3> QED BY <3>1, <2>1, <2>2, <1>3, FlowAssumption
  <2>4. Recent(i, signals[fp])
    BY <2>1, <2>3 DEF Recent
  <2>5. signals[fp] \in Range(signals)
    BY <1>4 DEF Range
  <2> QED BY <2>1, <2>4, <2>5 DEF Lists
<1> QED BY <1>1, <1>2, <1>3, <1>4 DEF IsNew

HasCause(i, j) ==
  /\ i.findings \subseteq j.findings
  /\ \A id \in i.signals : id \notin j.signals =>
       \/ j.started < i.started
       \/ \E e \in Events : e.resource = id /\ TooLate(e, j)
  /\ \A id \in j.signals : id \notin i.signals =>
       \/ \A f \in i.findings : f.resource # id
       \/ \E fp \in Fingerprints : fp[1] = id /\ IsNew(fp)

LEMMA StepHasCause ==
  ASSUME FlowInv, FlowInv', [Next]_vars
  PROVE  \A i \in Incidents : \E j \in Incidents' : HasCause(i, j)
<1> SUFFICES ASSUME NEW i \in Incidents PROVE \E j \in Incidents' : HasCause(i, j)
  OBVIOUS
<1>1. /\ findings \in SUBSET Finding /\ IsFiniteSet(findings)
      /\ findings' \in SUBSET Finding /\ IsFiniteSet(findings')
  BY DEF FlowInv, InputInv
<1>2. IsIncident(i, findings, Range(signals), selected)
  BY IncidentIsRun DEF Incidents
<1>3. \A j : j \in Incidents' <=> IsIncident(j, findings', Range(signals'), selected')
  <2>1. Incidents' = Aggregate(findings', Range(signals'), selected')
    BY DEF Incidents
  <2> QED BY <2>1, IncidentIsRun
<1>4. selected' = selected /\ findings \subseteq findings'
  BY DEF Next, Sight, Judge, Find, vars
<1>5. PICK j : /\ IsIncident(j, findings', Range(signals'), selected)
               /\ Within(i, j) /\ Lists(i, Range(signals)) /\ Lists(j, Range(signals'))
  BY <1>1, <1>2, <1>4, IncidentStays
<1>6. j \in Incidents'
  BY <1>3, <1>4, <1>5
<1>7. HasCause(i, j)
  <2>1. i.findings \subseteq j.findings
    BY <1>5 DEF Within
  <2>2. \A id \in i.signals : id \notin j.signals =>
          \/ j.started < i.started
          \/ \E e \in Events : e.resource = id /\ TooLate(e, j)
    BY <1>5, SignalLeaves
  <2>3. \A id \in j.signals : id \notin i.signals =>
          \/ \A f \in i.findings : f.resource # id
          \/ \E fp \in Fingerprints : fp[1] = id /\ IsNew(fp)
    BY <1>5, SignalComes
  <2> QED BY <2>1, <2>2, <2>3 DEF HasCause
<1> QED BY <1>6, <1>7

(* signalIDs over any order of Events and findings: a Signal leaves an     *)
(* incident only when the incident turns out to have started earlier, or   *)
(* when it is seen again after the window that opened with that start; it  *)
(* comes only as a new Signal or with the first finding of its resource.   *)
THEOREM SignalsChange == Spec => SignalsChangeForCause
<1>1. FlowInv /\ FlowInv' /\ [Next]_vars =>
        [LET later == Incidents' IN
         \A i \in Incidents : \E j \in later :
           /\ i.findings \subseteq j.findings
           /\ \A id \in i.signals : id \notin j.signals =>
                \/ j.started < i.started
                \/ \E e \in Events : e.resource = id /\ TooLate(e, j)
           /\ \A id \in j.signals : id \notin i.signals =>
                \/ \A f \in i.findings : f.resource # id
                \/ \E fp \in Fingerprints : fp[1] = id /\ IsNew(fp)]_<<findings, signals>>
  BY StepHasCause DEF HasCause
<1> QED BY <1>1, FlowHolds, PTL DEF Spec, SignalsChangeForCause
=============================================================================
