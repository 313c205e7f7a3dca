------------------------- MODULE ProbeRunner_proofs -------------------------
(***************************************************************************)
(* Proofs about ProbeRunner, for any finite number of goroutines, any      *)
(* concurrency and any targets.  SlotsAreHeld is inductive with the types: *)
(* that the queue is empty while a slot is free is what makes a call that  *)
(* takes a free slot not overtake one that waits.                          *)
(***************************************************************************)
EXTENDS ProbeRunner, SequenceTheorems, FiniteSetTheorems, TLAPS

SlotInv == TypeOK /\ SlotsAreHeld

(* The three operations on the queue.                                      *)
LEMMA QueueRange ==
  ASSUME NEW q \in Seq(Callers)
  PROVE  \A c : c \in Range(q) <=> \E i \in 1 .. Len(q) : q[i] = c
<1>1. DOMAIN q = 1 .. Len(q)
  OBVIOUS
<1> QED BY <1>1 DEF Range

LEMMA QueueAppend ==
  ASSUME NEW q \in Seq(Callers), NEW c \in Callers, IsInjective(q), c \notin Range(q)
  PROVE  /\ Append(q, c) \in Seq(Callers)
         /\ IsInjective(Append(q, c))
         /\ Range(Append(q, c)) = Range(q) \union {c}
<1>1. /\ Append(q, c) \in Seq(Callers) /\ Len(q) \in Nat
      /\ DOMAIN q = 1 .. Len(q) /\ DOMAIN Append(q, c) = 1 .. Len(q) + 1
      /\ Append(q, c)[Len(q) + 1] = c
      /\ \A i \in 1 .. Len(q) : Append(q, c)[i] = q[i]
  OBVIOUS
<1>2. IsInjective(Append(q, c))
  BY <1>1 DEF IsInjective, Range
<1>3. Range(Append(q, c)) = Range(q) \union {c}
  BY <1>1 DEF Range
<1> QED BY <1>1, <1>2, <1>3

LEMMA QueueTail ==
  ASSUME NEW q \in Seq(Callers), q # <<>>, IsInjective(q)
  PROVE  /\ Tail(q) \in Seq(Callers)
         /\ Head(q) \in Range(q) /\ Head(q) \in Callers
         /\ IsInjective(Tail(q))
         /\ Range(Tail(q)) = Range(q) \ {Head(q)}
<1>1. /\ Tail(q) \in Seq(Callers) /\ Len(q) \in Nat \ {0}
      /\ DOMAIN q = 1 .. Len(q) /\ DOMAIN Tail(q) = 1 .. Len(q) - 1
      /\ Head(q) = q[1] /\ Head(q) \in Callers
      /\ \A i \in 1 .. Len(q) - 1 : Tail(q)[i] = q[i + 1]
  OBVIOUS
<1>2. IsInjective(Tail(q))
  BY <1>1 DEF IsInjective
<1>3. \A i \in 2 .. Len(q) : i - 1 \in 1 .. Len(q) - 1 /\ q[i] = Tail(q)[i - 1]
  BY <1>1
<1>4. Range(Tail(q)) = Range(q) \ {Head(q)}
  <2>1. ASSUME NEW i \in 1 .. Len(q) - 1 PROVE Tail(q)[i] \in Range(q) \ {Head(q)}
    BY <1>1 DEF IsInjective, Range
  <2>2. ASSUME NEW i \in 1 .. Len(q), q[i] # Head(q) PROVE q[i] \in Range(Tail(q))
    <3>1. i \in 2 .. Len(q)
      BY <1>1, <2>2
    <3>2. Len(Tail(q)) = Len(q) - 1
      OBVIOUS
    <3> QED BY <1>1, <1>3, <3>1, <3>2, QueueRange
  <2>3. \A c : c \in Range(q) <=> \E i \in 1 .. Len(q) : q[i] = c
    BY QueueRange
  <2>4. \A c : c \in Range(Tail(q)) <=> \E i \in 1 .. Len(q) - 1 : Tail(q)[i] = c
    BY <1>1 DEF Range
  <2> QED BY <2>1, <2>2, <2>3, <2>4
<1>5. Head(q) \in Range(q)
  BY <1>1, QueueRange
<1> QED BY <1>1, <1>2, <1>4, <1>5

LEMMA QueueRemove ==
  ASSUME NEW q \in Seq(Callers), NEW k \in DOMAIN q, IsInjective(q)
  PROVE  /\ RemoveAt(q, k) \in Seq(Callers)
         /\ IsInjective(RemoveAt(q, k))
         /\ Range(RemoveAt(q, k)) = Range(q) \ {q[k]}
<1> DEFINE r == RemoveAt(q, k)
<1>1. Len(q) \in Nat /\ DOMAIN q = 1 .. Len(q) /\ k \in 1 .. Len(q)
  OBVIOUS
<1>2. /\ r \in Seq(Callers) /\ DOMAIN r = 1 .. Len(q) - 1
      /\ \A i \in 1 .. Len(q) - 1 : r[i] = IF i < k THEN q[i] ELSE q[i + 1]
  <2> DEFINE a == SubSeq(q, 1, k - 1)
             b == SubSeq(q, k + 1, Len(q))
  <2>1. a \in Seq(Callers) /\ Len(a) = k - 1 /\ \A i \in 1 .. k - 1 : a[i] = q[i]
    BY <1>1
  <2>2. b \in Seq(Callers) /\ Len(b) = Len(q) - k
        /\ \A i \in 1 .. Len(q) - k : b[i] = q[i + k]
    BY <1>1
  <2>3. r = a \o b
    BY DEF RemoveAt
  <2> HIDE DEF a, b, r
  <2>4. r \in Seq(Callers) /\ Len(r) = Len(q) - 1
        /\ \A i \in 1 .. Len(q) - 1 : r[i] = IF i <= k - 1 THEN a[i] ELSE b[i - (k - 1)]
    <3>1. r \in Seq(Callers) /\ Len(r) = Len(a) + Len(b)
          /\ \A i \in 1 .. Len(a) + Len(b) : r[i] = IF i <= Len(a) THEN a[i] ELSE b[i - Len(a)]
      BY <2>1, <2>2, <2>3, ConcatProperties
    <3>2. Len(a) + Len(b) = Len(q) - 1
      BY <1>1, <2>1, <2>2
    <3> QED BY <2>1, <3>1, <3>2
  <2>5. ASSUME NEW i \in 1 .. Len(q) - 1
        PROVE  r[i] = IF i < k THEN q[i] ELSE q[i + 1]
    <3>1. CASE i < k
      BY <1>1, <2>1, <2>4, <3>1
    <3>2. CASE i >= k
      <4>1. i - (k - 1) \in 1 .. Len(q) - k /\ ~(i <= k - 1)
        BY <1>1, <3>2
      <4>2. b[i - (k - 1)] = q[(i - (k - 1)) + k] /\ (i - (k - 1)) + k = i + 1
        BY <1>1, <2>2, <4>1
      <4> QED BY <1>1, <2>4, <3>2, <4>1, <4>2
    <3> QED BY <1>1, <3>1, <3>2
  <2>6. DOMAIN r = 1 .. Len(q) - 1
    BY <2>4
  <2> QED BY <2>4, <2>5, <2>6
<1>3. \A i \in 1 .. Len(q) - 1 :
        \E j \in 1 .. Len(q) : j # k /\ r[i] = q[j] /\ j = (IF i < k THEN i ELSE i + 1)
  BY <1>1, <1>2
<1>4. \A j \in 1 .. Len(q) : j # k => \E i \in 1 .. Len(q) - 1 : r[i] = q[j]
  <2> SUFFICES ASSUME NEW j \in 1 .. Len(q), j # k
               PROVE  \E i \in 1 .. Len(q) - 1 : r[i] = q[j]
    OBVIOUS
  <2>1. CASE j < k
    <3>1. j \in 1 .. Len(q) - 1 /\ r[j] = q[j]
      BY <1>1, <1>2, <2>1
    <3> QED BY <3>1
  <2>2. CASE j > k
    <3>1. j - 1 \in 1 .. Len(q) - 1 /\ r[j - 1] = q[j]
      BY <1>1, <1>2, <2>2
    <3> QED BY <3>1
  <2> QED BY <1>1, <2>1, <2>2
<1> HIDE DEF r
<1>5. IsInjective(r)
  <2> SUFFICES ASSUME NEW a \in 1 .. Len(q) - 1, NEW b \in 1 .. Len(q) - 1, r[a] = r[b]
               PROVE  a = b
    BY <1>2 DEF IsInjective
  <2> QED BY SMTT(30), <1>1, <1>2 DEF IsInjective
<1>6. Range(r) = Range(q) \ {q[k]}
  <2>1. \A c : c \in Range(r) <=> \E i \in 1 .. Len(q) - 1 : r[i] = c
    BY <1>2 DEF Range
  <2>2. \A c : c \in Range(q) <=> \E i \in 1 .. Len(q) : q[i] = c
    BY QueueRange
  <2>3. \A j \in 1 .. Len(q) : j # k => q[j] # q[k]
    BY <1>1 DEF IsInjective
  <2>4. ASSUME NEW i \in 1 .. Len(q) - 1 PROVE r[i] \in Range(q) \ {q[k]}
    BY <1>3, <2>2, <2>3
  <2>5. ASSUME NEW c \in Range(q) \ {q[k]} PROVE c \in Range(r)
    BY <1>4, <2>1, <2>2
  <2> QED BY <2>1, <2>4, <2>5
<1> QED BY <1>2, <1>5, <1>6 DEF r

-----------------------------------------------------------------------------
(* The slots are free at the start.                                        *)
LEMMA SlotInvInit == Init => SlotInv
<1> SUFFICES ASSUME Init PROVE SlotInv
  OBVIOUS
<1>1. TypeOK
  <2>1. capacity \in Nat \ {0}
    BY RunnerAssumption DEF Init
  <2>2. pc \in [Callers -> Places] /\ calls \in [Callers -> 0 .. MaxCalls]
    BY RunnerAssumption DEF Init, Places
  <2> QED BY <2>1, <2>2 DEF Init, TypeOK
<1>2. Holders = {}
  BY DEF Init, Holders
<1>3. Range(queue) = {} /\ IsInjective(queue) /\ \A c \in Callers : pc[c] # "queue"
  BY DEF Init, Range, IsInjective
<1> QED BY <1>1, <1>2, <1>3, FS_EmptySet DEF Init, TypeOK, SlotInv, SlotsAreHeld

(* The holders of slots are finitely many.                                  *)
LEMMA HoldersFinite == IsFiniteSet(Holders) /\ Cardinality(Holders) \in Nat
<1>1. Holders \subseteq Callers
  BY DEF Holders
<1> QED BY <1>1, RunnerAssumption, FS_Subset, FS_CardinalityType

(* A step of one call that neither takes nor gives back a slot, and neither *)
(* joins nor leaves the queue.                                              *)
LEMMA SameSlots ==
  ASSUME SlotInv, TypeOK', UNCHANGED <<sem, queue, capacity>>,
         \A c \in Callers :
           /\ pc'[c] \in {"slot", "probe", "defer"} <=> pc[c] \in {"slot", "probe", "defer"}
           /\ pc'[c] = "queue" <=> pc[c] = "queue"
  PROVE  SlotInv'
<1>1. Holders' = Holders
  BY DEF Holders
<1> QED BY <1>1 DEF SlotInv, SlotsAreHeld

LEMMA TypeNext == TypeOK /\ SlotsAreHeld /\ [Next]_vars => TypeOK'
<1> SUFFICES ASSUME TypeOK, SlotsAreHeld, [Next]_vars PROVE TypeOK'
  OBVIOUS
<1> USE RunnerAssumption DEF TypeOK, config, Goto, Places
<1>1. ASSUME NEW c \in Callers, NEW action \in Action, Call(c, action) PROVE TypeOK'
  BY <1>1 DEF Call
<1>2. ASSUME NEW c \in Callers, Select(c) PROVE TypeOK'
  <2>1. queue' \in Seq(Callers) /\ sem' \in Nat
    <3>1. Append(queue, c) \in Seq(Callers)
      OBVIOUS
    <3>2. queue' = queue \/ queue' = Append(queue, c)
      BY <1>2 DEF Select
    <3>3. queue' \in Seq(Callers)
      <4>1. CASE queue' = queue
        BY <4>1
      <4>2. CASE queue' = Append(queue, c)
        BY <3>1, <4>2, Zenon
      <4> QED BY <3>2, <4>1, <4>2
    <3>4. sem' \in Nat
      BY <1>2 DEF Select
    <3> QED BY <3>3, <3>4
  <2>2. pc' \in [Callers -> Places]
    BY <1>2 DEF Select
  <2> QED BY <1>2, <2>1, <2>2 DEF Select
<1>3. ASSUME NEW c \in Callers, GiveUp(c) PROVE TypeOK'
  <2>1. queue' \in Seq(Callers)
    BY <1>3, QueueRemove DEF GiveUp, SlotsAreHeld
  <2> QED BY <1>3, <2>1 DEF GiveUp
<1>4. ASSUME NEW c \in Callers, Begin(c) \/ Execute(c) \/ Return(c) PROVE TypeOK'
  BY <1>4 DEF Begin, Execute, Return
<1>5. ASSUME NEW c \in Callers, Release(c) PROVE TypeOK'
  <2>1. CASE queue = <<>>
    <3>1. c \in Holders
      BY <1>5 DEF Release, Holders
    <3>2. sem > 0
      BY <3>1, HoldersFinite, FS_EmptySet DEF SlotsAreHeld
    <3> QED BY <1>5, <2>1, <3>2 DEF Release
  <2>2. CASE queue # <<>>
    <3>1. Tail(queue) \in Seq(Callers)
      BY <2>2, QueueTail DEF SlotsAreHeld
    <3> QED BY <1>5, <2>2, <3>1 DEF Release
  <2> QED BY <2>1, <2>2
<1>6. ASSUME NEW c \in Callers, ContextEnds(c) \/ TimeoutEnds(c) PROVE TypeOK'
  BY <1>6 DEF ContextEnds, TimeoutEnds
<1>7. ASSUME UNCHANGED vars PROVE TypeOK'
  BY <1>7 DEF vars
<1> QED BY <1>1, <1>2, <1>3, <1>4, <1>5, <1>6, <1>7 DEF Next

LEMMA SelectStep ==
  ASSUME SlotInv, TypeOK', NEW c \in Callers, Select(c)
  PROVE  SlotInv'
<1> USE DEF Goto
<1>1. /\ TypeOK /\ SlotsAreHeld /\ pc[c] = "select" /\ capacity' = capacity
      /\ capacity \in Nat /\ sem \in Nat /\ pc \in [Callers -> Places]
  BY DEF SlotInv, TypeOK, Select, config
<1>2. CASE sem < capacity /\ sem' = sem + 1 /\ Goto(c, "slot") /\ UNCHANGED queue
  <2>1. Holders' = Holders \union {c} /\ c \notin Holders
    BY <1>1, <1>2 DEF Holders
  <2>2. Cardinality(Holders') = Cardinality(Holders) + 1
    BY <2>1, HoldersFinite, FS_AddElement
  <2>3. {d \in Callers : pc'[d] = "queue"} = {d \in Callers : pc[d] = "queue"}
    BY <1>1, <1>2
  <2>4. queue = <<>>
    BY <1>1, <1>2 DEF SlotsAreHeld
  <2> QED BY <1>1, <1>2, <2>2, <2>3, <2>4 DEF SlotInv, SlotsAreHeld
<1>3. CASE Goto(c, "return") /\ UNCHANGED <<sem, queue>>
  BY <1>1, <1>3, SameSlots
<1>4. CASE sem = capacity /\ queue' = Append(queue, c) /\ Goto(c, "queue") /\ UNCHANGED sem
  <2>1. Holders' = Holders
    BY <1>1, <1>4 DEF Holders
  <2>2. c \notin Range(queue) /\ IsInjective(queue) /\ queue \in Seq(Callers)
    BY <1>1 DEF SlotsAreHeld, TypeOK
  <2>3. IsInjective(queue') /\ Range(queue') = Range(queue) \union {c}
    BY <1>4, <2>2, QueueAppend
  <2>4. {d \in Callers : pc'[d] = "queue"} = {d \in Callers : pc[d] = "queue"} \union {c}
    BY <1>1, <1>4
  <2> QED BY <1>1, <1>4, <2>1, <2>3, <2>4 DEF SlotInv, SlotsAreHeld
<1> QED BY <1>2, <1>3, <1>4 DEF Select

LEMMA GiveUpStep ==
  ASSUME SlotInv, TypeOK', NEW c \in Callers, GiveUp(c)
  PROVE  SlotInv'
<1>1. /\ TypeOK /\ SlotsAreHeld /\ pc[c] = "queue" /\ UNCHANGED <<sem, capacity>>
      /\ pc' = [pc EXCEPT ![c] = "return"] /\ pc \in [Callers -> Places]
  BY DEF SlotInv, TypeOK, GiveUp, Goto, config
<1>2. Holders' = Holders
  BY <1>1 DEF Holders
<1>3. PICK i \in DOMAIN queue : queue[i] = c /\ queue' = RemoveAt(queue, i)
  BY DEF GiveUp
<1>4. IsInjective(queue') /\ Range(queue') = Range(queue) \ {c}
  BY <1>1, <1>3, QueueRemove DEF TypeOK, SlotsAreHeld
<1>5. {d \in Callers : pc'[d] = "queue"} = {d \in Callers : pc[d] = "queue"} \ {c}
  BY <1>1
<1>6. queue # <<>>
  BY <1>3
<1> QED BY <1>1, <1>2, <1>4, <1>5, <1>6 DEF SlotInv, SlotsAreHeld

LEMMA ReleaseStep ==
  ASSUME SlotInv, TypeOK', NEW c \in Callers, Release(c)
  PROVE  SlotInv'
<1>1. /\ TypeOK /\ SlotsAreHeld /\ pc[c] = "defer" /\ UNCHANGED capacity
      /\ pc \in [Callers -> Places] /\ c \in Holders /\ sem \in Nat /\ capacity \in Nat
  BY DEF SlotInv, TypeOK, Release, Holders, config
<1>2. CASE queue = <<>>
  <2>1. sem' = sem - 1 /\ pc' = [pc EXCEPT ![c] = "return"] /\ UNCHANGED queue
    BY <1>2 DEF Release, Goto
  <2>2. Holders' = Holders \ {c}
    BY <1>1, <2>1 DEF Holders
  <2>3. Cardinality(Holders') = Cardinality(Holders) - 1
    BY <1>1, <2>2, HoldersFinite, FS_RemoveElement
  <2>4. {d \in Callers : pc'[d] = "queue"} = {d \in Callers : pc[d] = "queue"}
    BY <1>1, <2>1
  <2> QED BY <1>1, <1>2, <2>1, <2>3, <2>4 DEF SlotInv, SlotsAreHeld
<1>3. CASE queue # <<>>
  <2> DEFINE next == Head(queue)
  <2>1. /\ queue' = Tail(queue) /\ UNCHANGED sem
        /\ pc' = [pc EXCEPT ![c] = "return", ![next] = "slot"]
    BY <1>3 DEF Release
  <2>2. /\ IsInjective(queue') /\ Range(queue') = Range(queue) \ {next}
        /\ next \in Range(queue) /\ next \in Callers
    BY <1>1, <1>3, <2>1, QueueTail DEF TypeOK, SlotsAreHeld
  <2>3. pc[next] = "queue" /\ next # c
    BY <1>1, <2>2 DEF SlotsAreHeld
  <2> HIDE DEF next
  <2>4. Holders' = (Holders \ {c}) \union {next} /\ next \notin Holders \ {c}
    BY <1>1, <2>1, <2>2, <2>3 DEF Holders
  <2>5. IsFiniteSet(Holders \ {c}) /\ Cardinality(Holders \ {c}) = Cardinality(Holders) - 1
    BY <1>1, HoldersFinite, FS_RemoveElement
  <2>6. Cardinality(Holders') = (Cardinality(Holders) - 1) + 1
    BY <2>4, <2>5, FS_AddElement
  <2>7. Cardinality(Holders') = Cardinality(Holders)
    BY <2>6, HoldersFinite
  <2>8. {d \in Callers : pc'[d] = "queue"} = {d \in Callers : pc[d] = "queue"} \ {next}
    BY <1>1, <2>1, <2>2, <2>3
  <2> QED BY <1>1, <1>3, <2>1, <2>2, <2>7, <2>8 DEF SlotInv, SlotsAreHeld
<1> QED BY <1>2, <1>3

LEMMA SlotInvNext == SlotInv /\ [Next]_vars => SlotInv'
<1> SUFFICES ASSUME SlotInv, [Next]_vars PROVE SlotInv'
  OBVIOUS
<1>1. TypeOK' /\ pc \in [Callers -> Places]
  BY TypeNext DEF SlotInv, TypeOK
<1> USE DEF Goto, config
<1>2. ASSUME NEW c \in Callers, NEW action \in Action, Call(c, action)
      PROVE  SlotInv'
  BY <1>1, <1>2, SameSlots DEF Call
<1>3. ASSUME NEW c \in Callers, Select(c) PROVE SlotInv'
  BY <1>1, <1>3, SelectStep
<1>4. ASSUME NEW c \in Callers, GiveUp(c) PROVE SlotInv'
  BY <1>1, <1>4, GiveUpStep
<1>5. ASSUME NEW c \in Callers, Begin(c) PROVE SlotInv'
  BY <1>1, <1>5, SameSlots DEF Begin
<1>6. ASSUME NEW c \in Callers, Execute(c) \/ Return(c) PROVE SlotInv'
  BY <1>1, <1>6, SameSlots DEF Execute, Return
<1>7. ASSUME NEW c \in Callers, Release(c) PROVE SlotInv'
  BY <1>1, <1>7, ReleaseStep
<1>8. ASSUME NEW c \in Callers, ContextEnds(c) \/ TimeoutEnds(c) PROVE SlotInv'
  BY <1>1, <1>8, SameSlots DEF ContextEnds, TimeoutEnds
<1>9. ASSUME UNCHANGED vars PROVE SlotInv'
  BY <1>1, <1>9, SameSlots DEF vars
<1> QED BY <1>2, <1>3, <1>4, <1>5, <1>6, <1>7, <1>8, <1>9 DEF Next

-----------------------------------------------------------------------------
(* The variables keep their types.                                          *)
THEOREM RunnerTypeCorrect == Spec => []TypeOK
<1>1. SlotInv => TypeOK
  BY DEF SlotInv
<1> QED BY <1>1, SlotInvInit, SlotInvNext, PTL DEF Spec

(* No path through Run loses or doubles a slot: the deferred receive gives   *)
(* back the one that was taken, or hands it to the first call that waits,   *)
(* whether the probe answers, fails, panics or is not there.                *)
THEOREM NoSlotIsLost == Spec => []SlotsAreHeld
<1>1. SlotInv => SlotsAreHeld
  BY DEF SlotInv
<1> QED BY <1>1, SlotInvInit, SlotInvNext, PTL DEF Spec
=============================================================================
