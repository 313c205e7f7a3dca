------------------------ MODULE InventorySync_proofs ------------------------
(***************************************************************************)
(* Proofs about InventorySync, for any finite set of objects, any kinds    *)
(* and permissions, and any capacity of the channel.                       *)
(*                                                                         *)
(* QuietIsCurrent is not inductive: it says nothing of an object whose     *)
(* changes are on their way.  News does, station by station: the latest    *)
(* change of an object, wherever it is on the way from the listener        *)
(* through the channel and the loop to the store, is what the informer     *)
(* holds.  OnlyForward needs the order of all changes on the way: InOrder  *)
(* says that they ascend towards the informer, from above what is stored.  *)
(* A relist that replaces an object by its namesake is, for the changes on *)
(* the way, one more version of the new object; that the old one is never  *)
(* told off is in ReplacedAreGone.                                         *)
(***************************************************************************)
EXTENDS InventorySync, SequenceTheorems, FiniteSetTheorems, WellFoundedInduction, TLAPS

(* A sequence of changes has one of the object o; the last one it has is   *)
(* of version v.                                                           *)
Has(s, o) == \E i \in 1 .. Len(s) : s[i].object = o
LastIs(s, o, v) ==
  \A i \in 1 .. Len(s) :
    s[i].object = o /\ (\A j \in i + 1 .. Len(s) : s[j].object # o) => s[i].version = v

Listened(o) == Has(pending[KindOf[o]], o)
Queued(o) == Has(changes, o)
Received(o) == hand # NoChange /\ hand.object = o

News(o) ==
  /\ LastIs(pending[KindOf[o]], o, seen[o])
  /\ ~Listened(o) => LastIs(changes, o, seen[o])
  /\ ~Listened(o) /\ ~Queued(o) /\ Received(o) => hand.version = seen[o]
  /\ ~Listened(o) /\ ~Queued(o) /\ ~Received(o) => resources[o] = Live(seen[o])

(* An object the informer does not know has left no trace.                 *)
Untraced(o) == ~Listened(o) /\ ~Queued(o) /\ ~Received(o) /\ resources[o] = 0

(* What a relist replaced was alive when it was last seen and is no more.  *)
ReplacedAreGone ==
  \A o \in replaced : cluster[o] = Gone /\ seen[o] # 0 /\ seen[o] # Gone

SyncInv ==
  /\ TypeOK
  /\ \A k \in Kinds : \A i \in 1 .. Len(pending[k]) : KindOf[pending[k][i].object] = k
  /\ \A o \in Objects : News(o)
  /\ \A o \in Objects : seen[o] = 0 => Untraced(o)
  /\ \A o \in Objects : KindOf[o] \notin listed => seen[o] = 0
  /\ \A o \in Objects : seen[o] <= cluster[o]
  /\ ReplacedAreGone

(* The access report that a collector starts from.                         *)
AccessInv ==
  /\ access.status \in {"complete", "partial", "unavailable"}
  /\ access.status = "complete" => \A k \in Kinds : access.verbs[k] = Verbs
  /\ UnfollowedIsTold

-----------------------------------------------------------------------------
(* How the two predicates go with the operations of a queue.               *)
LEMMA AppendNews ==
  ASSUME NEW s \in Seq(Change), NEW c \in Change, NEW o, NEW v
  PROVE  /\ Has(Append(s, c), o) <=> Has(s, o) \/ c.object = o
         /\ LastIs(Append(s, c), o, v) <=>
              IF c.object = o THEN c.version = v ELSE LastIs(s, o, v)
<1> HIDE DEF Change
<1>1. /\ Len(s) \in Nat /\ Len(Append(s, c)) = Len(s) + 1
      /\ Append(s, c)[Len(s) + 1] = c
      /\ \A i \in 1 .. Len(s) : Append(s, c)[i] = s[i]
  OBVIOUS
<1>2. Has(Append(s, c), o) <=> Has(s, o) \/ c.object = o
  BY <1>1 DEF Has
<1>3. LastIs(Append(s, c), o, v) <=>
        IF c.object = o THEN c.version = v ELSE LastIs(s, o, v)
  <2>1. CASE c.object = o
    BY <1>1, <2>1 DEF LastIs
  <2>2. CASE c.object # o
    BY <1>1, <2>2 DEF LastIs
  <2> QED BY <2>1, <2>2
<1> QED BY <1>2, <1>3

LEMMA TailNews ==
  ASSUME NEW s \in Seq(Change), s # <<>>, NEW o, NEW v
  PROVE  /\ Has(s, o) <=> Has(Tail(s), o) \/ Head(s).object = o
         /\ LastIs(s, o, v) => LastIs(Tail(s), o, v)
         /\ LastIs(s, o, v) /\ ~Has(Tail(s), o) /\ Head(s).object = o =>
              Head(s).version = v
         /\ LastIs(Tail(s), o, v) /\ Head(s).object # o => LastIs(s, o, v)
<1> HIDE DEF Change
<1>1. /\ Len(s) \in Nat \ {0} /\ Len(Tail(s)) = Len(s) - 1 /\ Head(s) = s[1]
      /\ \A i \in 1 .. Len(Tail(s)) : Tail(s)[i] = s[i + 1]
  OBVIOUS
<1>2. \A i \in 2 .. Len(s) : i - 1 \in 1 .. Len(Tail(s)) /\ s[i] = Tail(s)[i - 1]
  BY <1>1
<1>3. Has(s, o) <=> Has(Tail(s), o) \/ Head(s).object = o
  BY SMTT(30), <1>1, <1>2 DEF Has
<1>4. ASSUME LastIs(s, o, v) PROVE LastIs(Tail(s), o, v)
  <2> SUFFICES ASSUME NEW i \in 1 .. Len(Tail(s)), Tail(s)[i].object = o,
                      \A j \in i + 1 .. Len(Tail(s)) : Tail(s)[j].object # o
               PROVE  Tail(s)[i].version = v
    BY DEF LastIs
  <2>1. \A j \in i + 2 .. Len(s) : s[j].object # o
    BY <1>1, <1>2
  <2> QED BY <1>1, <1>4, <2>1 DEF LastIs
<1>5. ASSUME LastIs(s, o, v), ~Has(Tail(s), o), Head(s).object = o
      PROVE  Head(s).version = v
  <2>1. \A j \in 1 + 1 .. Len(s) : s[j].object # o
    BY <1>1, <1>2, <1>5 DEF Has
  <2>2. 1 \in 1 .. Len(s)
    BY <1>1
  <2> QED BY <1>1, <1>5, <2>1, <2>2 DEF LastIs
<1>6. ASSUME LastIs(Tail(s), o, v), Head(s).object # o PROVE LastIs(s, o, v)
  <2> SUFFICES ASSUME NEW i \in 1 .. Len(s), s[i].object = o,
                      \A j \in i + 1 .. Len(s) : s[j].object # o
               PROVE  s[i].version = v
    BY DEF LastIs
  <2>1. i - 1 \in 1 .. Len(Tail(s)) /\ s[i] = Tail(s)[i - 1]
    BY <1>1, <1>2, <1>6
  <2>2. \A j \in (i - 1) + 1 .. Len(Tail(s)) : Tail(s)[j].object # o
    BY <1>1
  <2> QED BY <1>6, <2>1, <2>2 DEF LastIs
<1> QED BY <1>3, <1>4, <1>5, <1>6

(* The order in which a list hands its objects to the listener: each once. *)
LEMMA ListedOnce ==
  ASSUME NEW S, IsFiniteSet(S)
  PROVE  /\ SetToSeq(S) \in Seq(S)
         /\ \A c \in S : \E i \in 1 .. Len(SetToSeq(S)) : SetToSeq(S)[i] = c
         /\ \A i, j \in 1 .. Len(SetToSeq(S)) : SetToSeq(S)[i] = SetToSeq(S)[j] => i = j
<1> DEFINE n == Cardinality(S)
           q == SetToSeq(S)
<1>1. n \in Nat /\ ExistsBijection(1 .. n, S)
  BY FS_CardinalityType
<1>2. q \in [1 .. n -> S] /\ IsInjective(q)
  <2>1. \E f \in [1 .. n -> S] : IsInjective(f)
    BY <1>1 DEF ExistsBijection, Bijection, Injection
  <2> QED BY <2>1 DEF SetToSeq
<1>3. q \in Seq(S) /\ Len(q) = n
  BY <1>1, <1>2
<1>4. IsFiniteSet(1 .. n) /\ Cardinality(1 .. n) = n
  BY <1>1, FS_Interval
<1>5. q \in Injection(1 .. n, S)
  BY <1>2 DEF Injection
<1>6. q \in Surjection(1 .. n, S)
  BY <1>4, <1>5, FS_Injection
<1>7. \A c \in S : \E i \in 1 .. n : q[i] = c
  BY <1>6 DEF Surjection
<1>8. \A i, j \in 1 .. n : q[i] = q[j] => i = j
  BY <1>2 DEF IsInjective
<1> QED BY <1>3, <1>7, <1>8

(* What a list brings.                                                     *)
LEMMA ListBrings ==
  ASSUME TypeOK, NEW k \in Kinds, List(k)
  PROVE  /\ pending'[k] \in Seq(Change)
         /\ pending' = [pending EXCEPT ![k] = pending'[k]]
         /\ \A i \in 1 .. Len(pending'[k]) :
              LET c == pending'[k][i] IN
                KindOf[c.object] = k /\ c.version = cluster[c.object] /\ c.version # 0
         /\ \A o \in Objects : KindOf[o] = k /\ Live(cluster[o]) # 0 => Has(pending'[k], o)
         /\ \A i, j \in 1 .. Len(pending'[k]) :
              pending'[k][i].object = pending'[k][j].object => i = j
<1> DEFINE existing == {o \in Objects : KindOf[o] = k /\ Live(cluster[o]) # 0}
           added(o) == [object |-> o, version |-> cluster[o]]
           S == {added(o) : o \in existing}
<1>1. pending' = [pending EXCEPT ![k] = SetToSeq(S)]
  BY DEF List
<1>2. pending'[k] = SetToSeq(S)
  BY <1>1 DEF TypeOK
<1>3. IsFiniteSet(S)
  <2>1. IsFiniteSet(existing)
    BY SyncAssumption, FS_Subset
  <2>2. [o \in existing |-> added(o)] \in Surjection(existing, S)
    BY DEF Surjection
  <2> QED BY <2>1, <2>2, FS_Surjection
<1>4. /\ SetToSeq(S) \in Seq(S)
      /\ \A c \in S : \E i \in 1 .. Len(SetToSeq(S)) : SetToSeq(S)[i] = c
      /\ \A i, j \in 1 .. Len(SetToSeq(S)) : SetToSeq(S)[i] = SetToSeq(S)[j] => i = j
  BY <1>3, ListedOnce
<1>5. S \subseteq Change
  BY SyncAssumption DEF TypeOK, Live, Change, Versions, Gone
<1>6. pending'[k] \in Seq(Change)
  <2> HIDE DEF S
  <2> QED BY <1>2, <1>4, <1>5, SeqMonotonic
<1>7. \A c \in S : KindOf[c.object] = k /\ c.version = cluster[c.object] /\ c.version # 0
  BY SyncAssumption DEF Live, Gone
<1>8. \A i \in 1 .. Len(pending'[k]) : pending'[k][i] \in S
  <2> HIDE DEF S
  <2> QED BY <1>2, <1>4
<1>9. ASSUME NEW o \in Objects, KindOf[o] = k, Live(cluster[o]) # 0
      PROVE  Has(pending'[k], o)
  <2>1. added(o) \in S /\ added(o).object = o
    BY <1>9
  <2> HIDE DEF S, added
  <2> QED BY <1>2, <1>4, <2>1 DEF Has
<1>10. ASSUME NEW i \in 1 .. Len(pending'[k]), NEW j \in 1 .. Len(pending'[k]),
              pending'[k][i].object = pending'[k][j].object
       PROVE  i = j
  <2>1. \A c, d \in S : c.object = d.object => c = d
    OBVIOUS
  <2> HIDE DEF S
  <2> QED BY SMTT(30), <1>2, <1>4, <1>8, <1>10, <2>1
<1> HIDE DEF S
<1> QED BY <1>1, <1>2, <1>6, <1>7, <1>8, <1>9, <1>10

-----------------------------------------------------------------------------
(* At the start, nothing is seen and nothing is on the way.                *)
LEMMA SyncInvInit == Init => SyncInv
<1> SUFFICES ASSUME Init PROVE SyncInv
  OBVIOUS
<1>1. TypeOK
  <2>1. access \in [status : {"complete", "partial", "unavailable"},
                    verbs : [Kinds -> SUBSET Verbs]]
    <3>1. granted \in [Kinds -> SUBSET Verbs]
      BY SyncAssumption DEF Init, Verbs
    <3> QED BY <3>1 DEF Init, Reviewed, Unavailable
  <2>2. cluster \in [Objects -> Versions] /\ seen \in [Objects -> Versions]
    BY SyncAssumption DEF Init, Versions, Gone
  <2>3. pending \in [Kinds -> Seq(Change)] /\ changes \in Seq(Change) /\ Len(changes) = 0
    <3> HIDE DEF Change
    <3> QED BY DEF Init
  <2>4. /\ granted \in [Kinds -> Permissions] /\ grants \in 0 .. MaxGrants
        /\ listed \subseteq Kinds /\ hand = NoChange
        /\ status \in {"disconnected", "syncing"} /\ 0 <= ChanCap
    BY SyncAssumption DEF Init
  <2>5. resources \in [Objects -> 0 .. MaxVersion] /\ replaced \subseteq Objects
    BY SyncAssumption DEF Init
  <2>6. looping \in BOOLEAN /\ stopped \in BOOLEAN
    BY Zenon DEF Init
  <2> QED BY <2>1, <2>2, <2>3, <2>4, <2>5, <2>6 DEF TypeOK
<1>2. \A o \in Objects : ~Listened(o) /\ ~Queued(o) /\ ~Received(o)
  BY SyncAssumption DEF Init, Listened, Queued, Received, Has
<1>3. \A o \in Objects : News(o)
  BY <1>2, SyncAssumption DEF Init, News, LastIs, Live
<1>4. \A k \in Kinds : \A i \in 1 .. Len(pending[k]) : KindOf[pending[k][i].object] = k
  BY DEF Init
<1> QED BY <1>1, <1>2, <1>3, <1>4 DEF Init, SyncInv, Untraced, ReplacedAreGone

(* The types.                                                              *)
LEMMA TypeNext == TypeOK /\ (\A o \in Objects : seen[o] <= cluster[o]) /\ [Next]_vars => TypeOK'
<1> SUFFICES ASSUME TypeOK, \A o \in Objects : seen[o] <= cluster[o], [Next]_vars
             PROVE  TypeOK'
  OBVIOUS
<1> USE SyncAssumption
<1>1. ASSUME NEW o \in Objects, ClusterChange(o) PROVE TypeOK'
  <2>1. \E v \in Versions : cluster' = [cluster EXCEPT ![o] = v]
    <3>1. LastVersion[o] \in 1 .. MaxVersion
      BY NameAssumption
    <3>2. CASE cluster[o] < LastVersion[o] /\ cluster' = [cluster EXCEPT ![o] = @ + 1]
      <4>1. cluster[o] + 1 \in Versions
        BY <3>1, <3>2 DEF TypeOK, Versions, Gone
      <4> QED BY <3>2, <4>1
    <3>3. CASE cluster' = [cluster EXCEPT ![o] = Gone]
      <4>1. Gone \in Versions
        BY DEF Versions, Gone
      <4> QED BY <3>3, <4>1
    <3> QED BY <1>1, <3>2, <3>3 DEF ClusterChange
  <2>2. cluster' \in [Objects -> Versions]
    BY <2>1 DEF TypeOK
  <2> QED BY <1>1, <2>2 DEF ClusterChange, TypeOK, permissions
<1>2. ASSUME NEW k \in Kinds, Grant(k) PROVE TypeOK'
  BY <1>2 DEF Grant, TypeOK
<1>3. ASSUME NEW k \in Kinds, List(k) PROVE TypeOK'
  <2>1. pending' \in [Kinds -> Seq(Change)]
    <3>1. pending'[k] \in Seq(Change) /\ pending' = [pending EXCEPT ![k] = pending'[k]]
      BY <1>3, ListBrings
    <3> HIDE DEF Change
    <3> QED BY <3>1 DEF TypeOK
  <2> QED BY <1>3, <2>1 DEF List, TypeOK, Followed, permissions
<1>4. ASSUME NEW o \in Objects, Watch(o) PROVE TypeOK'
  <2> DEFINE c == [object |-> o, version |-> cluster[o]]
             k == KindOf[o]
  <2>1. pending' \in [Kinds -> Seq(Change)]
    <3>1. CASE cluster[o] = Gone /\ seen[o] = 0
      BY <1>4, <3>1 DEF Watch, TypeOK
    <3>2. CASE ~(cluster[o] = Gone /\ seen[o] = 0)
      <4>1. pending' = [pending EXCEPT ![k] = Append(@, c)]
        BY <1>4, <3>2 DEF Watch
      <4>2. c \in Change
        BY <1>4 DEF Watch, TypeOK, Change, Versions, Gone
      <4>3. Append(pending[k], c) \in Seq(Change)
        <5> HIDE DEF Change, c
        <5> QED BY <4>2 DEF TypeOK
      <4> HIDE DEF c
      <4> QED BY <4>1, <4>3 DEF TypeOK
    <3> QED BY <3>1, <3>2
  <2> QED BY <1>4, <2>1 DEF Watch, TypeOK, permissions
<1>12. ASSUME NEW o \in Objects, NEW p \in Namesakes(o), Relist(o, p) PROVE TypeOK'
  <2> DEFINE c == [object |-> o, version |-> cluster[o]]
             k == KindOf[o]
  <2>1. c \in Change
    BY <1>12 DEF Relist, TypeOK, Change, Versions, Gone, Live
  <2>2. pending' = [pending EXCEPT ![k] = Append(@, c)]
    BY <1>12 DEF Relist
  <2>3. Append(pending[k], c) \in Seq(Change)
    <3> HIDE DEF Change, c
    <3> QED BY <2>1 DEF TypeOK
  <2>4. pending' \in [Kinds -> Seq(Change)]
    <3> HIDE DEF c
    <3> QED BY <2>2, <2>3 DEF TypeOK
  <2> QED BY <1>12, <2>4 DEF Relist, TypeOK, permissions, Namesakes
<1>5. ASSUME Stop PROVE TypeOK'
  BY <1>5 DEF Stop, TypeOK, environment, permissions
<1>6. ASSUME NEW k \in Kinds, Emit(k) PROVE TypeOK'
  <2>1. Append(changes, Head(pending[k])) \in Seq(Change)
        /\ Tail(pending[k]) \in Seq(Change)
        /\ Len(Append(changes, Head(pending[k]))) = Len(changes) + 1
        /\ Len(changes) \in Nat
    <3> HIDE DEF Change
    <3> QED BY <1>6 DEF Emit, TypeOK
  <2> QED BY <1>6, <2>1 DEF Emit, TypeOK, environment, permissions
<1>7. ASSUME Receive PROVE TypeOK'
  <2>1. Head(changes) \in Change /\ Tail(changes) \in Seq(Change)
        /\ Len(Tail(changes)) = Len(changes) - 1 /\ Len(changes) \in Nat
    <3> HIDE DEF Change
    <3> QED BY <1>7 DEF Receive, TypeOK
  <2> QED BY <1>7, <2>1 DEF Receive, TypeOK, environment, permissions
<1>8. ASSUME Apply PROVE TypeOK'
  <2>1. hand.object \in Objects /\ Live(hand.version) \in 0 .. MaxVersion
    BY <1>8 DEF Apply, TypeOK, Change, Live, Gone
  <2> QED BY <1>8, <2>1 DEF Apply, TypeOK, environment, permissions
<1>9. ASSUME LoopEnds PROVE TypeOK'
  BY <1>9 DEF LoopEnds, TypeOK, environment, permissions
<1>10. ASSUME Connected \/ Degraded PROVE TypeOK'
  BY <1>10 DEF Connected, Degraded, TypeOK, environment, permissions
<1>11. ASSUME UNCHANGED vars PROVE TypeOK'
  BY <1>11 DEF vars, TypeOK
<1> QED
  BY <1>1, <1>2, <1>3, <1>4, <1>5, <1>6, <1>7, <1>8, <1>9, <1>10, <1>11, <1>12 DEF Next

-----------------------------------------------------------------------------
(* A step that leaves the way of the changes alone keeps the news.          *)
LEMMA QuietStep ==
  ASSUME SyncInv, TypeOK', UNCHANGED <<listed, replaced, seen, pending, changes, hand, resources>>,
         \A o \in Objects : cluster[o] <= cluster'[o]
  PROVE  SyncInv'
<1>1. \A o \in Objects : seen'[o] <= cluster'[o]
  BY SyncAssumption DEF SyncInv, TypeOK, Versions, Gone
<1>2. \A o \in Objects : News(o)' /\ (seen'[o] = 0 => Untraced(o)')
  BY SMTT(30) DEF SyncInv, News, Untraced, Listened, Queued, Received, Has, LastIs,
     Live
<1>3. ReplacedAreGone'
  BY SyncAssumption DEF SyncInv, ReplacedAreGone, TypeOK, Versions, Gone
<1> QED BY <1>1, <1>2, <1>3 DEF SyncInv

(* An informer's first list: its objects had left no trace.                 *)
LEMMA ListStep ==
  ASSUME SyncInv, TypeOK', NEW k \in Kinds, List(k)
  PROVE  SyncInv'
<1> USE SyncAssumption
<1>1. TypeOK
  BY DEF SyncInv
<1>2. /\ pending' = [pending EXCEPT ![k] = pending'[k]]
      /\ \A i \in 1 .. Len(pending'[k]) :
           LET c == pending'[k][i] IN
             KindOf[c.object] = k /\ c.version = cluster[c.object] /\ c.version # 0
      /\ \A o \in Objects : KindOf[o] = k /\ Live(cluster[o]) # 0 => Has(pending'[k], o)
  BY <1>1, ListBrings
<1>3. \A j \in Kinds \ {k} : pending'[j] = pending[j]
  BY <1>1, <1>2 DEF TypeOK
<1>4. UNCHANGED <<cluster, changes, hand, resources>> /\ listed' = listed \union {k}
      /\ seen' = [o \in Objects |-> IF KindOf[o] = k THEN cluster[o] ELSE seen[o]]
      /\ k \notin listed
  BY DEF List
<1>5. ASSUME NEW o \in Objects, KindOf[o] = k
      PROVE  /\ News(o)' /\ (seen'[o] = 0 => Untraced(o)')
             /\ seen'[o] <= cluster'[o]
  <2>1. Untraced(o) /\ seen'[o] = cluster[o]
    BY <1>4, <1>5 DEF SyncInv
  <2>2. ~Queued(o)' /\ ~Received(o)' /\ resources'[o] = 0 /\ LastIs(changes, o, seen[o])'
    BY <1>4, <2>1 DEF Untraced, Queued, Received, Has, LastIs
  <2>3. LastIs(pending[KindOf[o]], o, seen[o])'
    BY <1>2, <1>5, <2>1 DEF LastIs
  <2>4. seen'[o] = 0 => ~Listened(o)'
    <3> SUFFICES ASSUME seen'[o] = 0, NEW i \in 1 .. Len(pending'[k])
                 PROVE  pending'[k][i].object # o
      BY <1>5 DEF Listened, Has
    <3> QED BY <1>2, <2>1
  <2>5. ~Listened(o)' => Live(seen'[o]) = 0
    BY <1>2, <1>5, <2>1 DEF Listened
  <2>6. News(o)'
    BY <2>2, <2>3, <2>5 DEF News, Live
  <2>7. seen'[o] = 0 => Untraced(o)'
    BY <2>2, <2>4 DEF Untraced
  <2> QED BY <1>1, <1>4, <2>1, <2>6, <2>7 DEF TypeOK, Versions, Gone
<1>6. ASSUME NEW o \in Objects, KindOf[o] # k
      PROVE  /\ News(o)' /\ (seen'[o] = 0 => Untraced(o)')
             /\ seen'[o] <= cluster'[o]
             /\ KindOf[o] \notin listed' => seen'[o] = 0
  <2>1. pending'[KindOf[o]] = pending[KindOf[o]] /\ seen'[o] = seen[o]
    BY <1>3, <1>4, <1>6
  <2> QED
    BY <1>4, <2>1
    DEF SyncInv, News, Untraced, Listened, Queued, Received, Has, LastIs, Live
<1>7. \A j \in Kinds : \A i \in 1 .. Len(pending'[j]) : KindOf[pending'[j][i].object] = j
  BY <1>2, <1>3 DEF SyncInv
<1>8. ReplacedAreGone'
  <2> SUFFICES ASSUME NEW o \in replaced
               PROVE  cluster'[o] = Gone /\ seen'[o] # 0 /\ seen'[o] # Gone
    BY DEF ReplacedAreGone, List
  <2>1. o \in Objects /\ cluster[o] = Gone /\ seen[o] # 0 /\ seen[o] # Gone
    BY <1>1 DEF SyncInv, ReplacedAreGone, TypeOK
  <2>2. KindOf[o] # k
    BY <1>4, <2>1 DEF SyncInv
  <2> QED BY <1>4, <2>1, <2>2
<1> QED BY <1>4, <1>5, <1>6, <1>7, <1>8 DEF SyncInv

(* The informer's cache and its listener's queue take the same version: by  *)
(* a watch, or for the object that replaces another one by a relist.        *)
Tells(o) ==
  /\ KindOf[o] \in listed
  /\ o \notin replaced /\ seen[o] # cluster[o]
  /\ seen' = [seen EXCEPT ![o] = cluster[o]]
  /\ pending' = IF cluster[o] = Gone /\ seen[o] = 0
                THEN pending
                ELSE [pending EXCEPT ![KindOf[o]] =
                        Append(@, [object |-> o, version |-> cluster[o]])]
  /\ UNCHANGED <<cluster, listed, changes, hand, resources>>

LEMMA BothTell ==
  ASSUME SyncInv, NEW o \in Objects
  PROVE  /\ Watch(o) => Tells(o) /\ ReplacedAreGone'
         /\ \A p \in Namesakes(o) : Relist(o, p) => Tells(o) /\ ReplacedAreGone'
<1> USE SyncAssumption
<1>1. TypeOK /\ ReplacedAreGone
  BY DEF SyncInv
<1>2. ASSUME Watch(o) PROVE Tells(o) /\ ReplacedAreGone'
  <2>1. Tells(o)
    BY <1>2 DEF Watch, Tells
  <2>2. ReplacedAreGone'
    BY <1>1, <1>2 DEF Watch, ReplacedAreGone, TypeOK
  <2> QED BY <2>1, <2>2
<1>3. ASSUME NEW p \in Namesakes(o), Relist(o, p) PROVE Tells(o) /\ ReplacedAreGone'
  <2>1. /\ seen[o] = 0 /\ cluster[o] # 0 /\ cluster[o] # Gone /\ p # o /\ p \in Objects
        /\ cluster[p] = Gone /\ seen[p] # 0 /\ seen[p] # Gone
    BY <1>3 DEF Relist, Live, Held, Namesakes
  <2>2. Tells(o)
    BY <1>1, <1>3, <2>1 DEF Relist, Tells, ReplacedAreGone
  <2>3. ReplacedAreGone'
    BY <1>1, <1>3, <2>1 DEF Relist, ReplacedAreGone, TypeOK
  <2> QED BY <2>2, <2>3
<1> QED BY <1>2, <1>3

LEMMA TellStep ==
  ASSUME SyncInv, TypeOK', ReplacedAreGone', NEW o \in Objects, Tells(o)
  PROVE  SyncInv'
<1> USE SyncAssumption
<1> DEFINE c == [object |-> o, version |-> cluster[o]]
           k == KindOf[o]
<1>1. TypeOK /\ k \in listed /\ k \in Kinds
  BY DEF SyncInv, Tells
<1>2. /\ UNCHANGED <<cluster, listed, changes, hand, resources>>
      /\ seen' = [seen EXCEPT ![o] = cluster[o]]
      /\ seen'[o] = cluster[o]
      /\ \A p \in Objects \ {o} : seen'[p] = seen[p]
  BY <1>1 DEF Tells, TypeOK
<1>3. cluster[o] # 0 /\ c \in Change
  BY <1>1 DEF SyncInv, Tells, TypeOK, Change, Versions, Gone
<1>4. \A p \in Objects : seen'[p] <= cluster'[p] /\ (KindOf[p] \notin listed' => seen'[p] = 0)
  BY SMTT(30), <1>1, <1>2 DEF SyncInv, TypeOK, Versions, Gone
<1>5. CASE cluster[o] = Gone /\ seen[o] = 0
  <2>1. pending' = pending
    BY <1>5 DEF Tells
  <2>2. Untraced(o)
    BY <1>5 DEF SyncInv
  <2>3. News(o)' /\ (seen'[o] = 0 => Untraced(o)')
    BY <1>2, <1>3, <1>5, <2>1, <2>2
    DEF News, Untraced, Listened, Queued, Received, Has, LastIs, Live
  <2>4. ASSUME NEW p \in Objects \ {o} PROVE News(p)' /\ (seen'[p] = 0 => Untraced(p)')
    <3>1. News(p) /\ (seen[p] = 0 => Untraced(p)) /\ seen'[p] = seen[p]
      BY <1>2 DEF SyncInv
    <3>2. /\ Listened(p)' <=> Listened(p)
          /\ Queued(p)' <=> Queued(p)
          /\ Received(p)' <=> Received(p)
      BY <1>2, <2>1 DEF Listened, Queued, Received
    <3>3. /\ LastIs(pending[KindOf[p]], p, seen[p])' <=> LastIs(pending[KindOf[p]], p, seen[p])
          /\ LastIs(changes, p, seen[p])' <=> LastIs(changes, p, seen[p])
      BY <1>2, <2>1, <3>1
    <3> QED BY <1>2, <3>1, <3>2, <3>3 DEF News, Untraced, Live
  <2> QED BY <1>4, <2>1, <2>3, <2>4 DEF SyncInv
<1>6. CASE ~(cluster[o] = Gone /\ seen[o] = 0)
  <2>1. pending' = [pending EXCEPT ![k] = Append(@, c)]
    BY <1>6 DEF Tells
  <2>2. pending[k] \in Seq(Change) /\ pending'[k] = Append(pending[k], c)
        /\ \A j \in Kinds \ {k} : pending'[j] = pending[j]
    <3> HIDE DEF Change, c
    <3> QED BY <1>1, <2>1 DEF TypeOK
  <2>3. \A p, v : /\ Has(pending'[k], p) <=> Has(pending[k], p) \/ c.object = p
                  /\ LastIs(pending'[k], p, v) <=>
                       IF c.object = p THEN c.version = v ELSE LastIs(pending[k], p, v)
    <3> HIDE DEF Change, c
    <3> QED BY <1>3, <2>2, AppendNews
  <2>4. News(o)' /\ (seen'[o] = 0 => Untraced(o)')
    <3>1. Listened(o)' /\ LastIs(pending[k], o, seen[o])'
      BY <1>2, <2>3 DEF Listened
    <3> QED BY <1>2, <1>3, <3>1 DEF News
  <2>5. ASSUME NEW p \in Objects \ {o} PROVE News(p)' /\ (seen'[p] = 0 => Untraced(p)')
    <3>1. (Listened(p)' <=> Listened(p))
          /\ (LastIs(pending[KindOf[p]], p, seen[p])' <=> LastIs(pending[KindOf[p]], p, seen[p]))
      BY <1>2, <2>2, <2>3 DEF Listened
    <3>2. (Queued(p)' <=> Queued(p)) /\ (Received(p)' <=> Received(p))
          /\ (LastIs(changes, p, seen[p])' <=> LastIs(changes, p, seen[p]))
      BY <1>2 DEF Queued, Received
    <3> QED BY <1>2, <3>1, <3>2 DEF SyncInv, News, Untraced
  <2>6. \A j \in Kinds : \A i \in 1 .. Len(pending'[j]) : KindOf[pending'[j][i].object] = j
    <3>1. /\ Len(pending[k]) \in Nat /\ Len(pending'[k]) = Len(pending[k]) + 1
          /\ pending'[k][Len(pending[k]) + 1] = c
          /\ \A i \in 1 .. Len(pending[k]) : pending'[k][i] = pending[k][i]
      <4> HIDE DEF Change, c
      <4> QED BY <1>3, <2>2
    <3> QED BY SMTT(30), <2>2, <3>1 DEF SyncInv
  <2> QED BY <1>4, <2>4, <2>5, <2>6 DEF SyncInv
<1> QED BY <1>5, <1>6

(* The listener's oldest change becomes the youngest in the channel.        *)
LEMMA EmitStep ==
  ASSUME SyncInv, TypeOK', NEW k \in Kinds, Emit(k)
  PROVE  SyncInv'
<1> USE SyncAssumption
<1> DEFINE c == Head(pending[k])
<1>1. TypeOK
  BY DEF SyncInv
<1>2. /\ UNCHANGED <<cluster, listed, replaced, seen, hand, resources>>
      /\ changes' = Append(changes, c)
      /\ pending' = [pending EXCEPT ![k] = Tail(pending[k])]
      /\ pending[k] # <<>>
  BY DEF Emit, environment
<1>3. /\ pending[k] \in Seq(Change) /\ changes \in Seq(Change) /\ c \in Change
      /\ pending'[k] = Tail(pending[k])
      /\ \A j \in Kinds \ {k} : pending'[j] = pending[j]
  <2> HIDE DEF Change
  <2> QED BY <1>1, <1>2 DEF TypeOK
<1>4. /\ Len(pending[k]) \in Nat \ {0} /\ Len(Tail(pending[k])) = Len(pending[k]) - 1
      /\ c = pending[k][1]
      /\ \A i \in 1 .. Len(Tail(pending[k])) : Tail(pending[k])[i] = pending[k][i + 1]
  <2> HIDE DEF Change
  <2> QED BY <1>2, <1>3
<1>5. KindOf[c.object] = k
  BY <1>4 DEF SyncInv
<1>6. \A o, v : /\ Has(changes', o) <=> Has(changes, o) \/ c.object = o
                /\ LastIs(changes', o, v) <=>
                     IF c.object = o THEN c.version = v ELSE LastIs(changes, o, v)
  <2> HIDE DEF Change, c
  <2> QED BY <1>2, <1>3, AppendNews
<1>7. \A o, v : /\ Has(pending[k], o) <=> Has(pending'[k], o) \/ c.object = o
                /\ LastIs(pending[k], o, v) => LastIs(pending'[k], o, v)
                /\ LastIs(pending[k], o, v) /\ ~Has(pending'[k], o) /\ c.object = o =>
                     c.version = v
                /\ LastIs(pending'[k], o, v) /\ c.object # o => LastIs(pending[k], o, v)
  <2> DEFINE s == pending[k]
  <2>1. s \in Seq(Change) /\ s # <<>> /\ pending'[k] = Tail(s) /\ c = Head(s)
    BY <1>2, <1>3
  <2> HIDE DEF Change, c, s
  <2>2. \A o, v : /\ Has(s, o) <=> Has(Tail(s), o) \/ Head(s).object = o
                  /\ LastIs(s, o, v) => LastIs(Tail(s), o, v)
                  /\ LastIs(s, o, v) /\ ~Has(Tail(s), o) /\ Head(s).object = o =>
                       Head(s).version = v
                  /\ LastIs(Tail(s), o, v) /\ Head(s).object # o => LastIs(s, o, v)
    BY <2>1, TailNews
  <2>3. \A o, v : /\ Has(s, o) <=> Has(pending'[k], o) \/ c.object = o
                  /\ LastIs(s, o, v) => LastIs(pending'[k], o, v)
                  /\ LastIs(s, o, v) /\ ~Has(pending'[k], o) /\ c.object = o =>
                       c.version = v
                  /\ LastIs(pending'[k], o, v) /\ c.object # o => LastIs(s, o, v)
    BY <2>1, <2>2, Zenon
  <2> QED BY <2>3 DEF s
<1>8. ASSUME NEW o \in Objects, KindOf[o] = k
      PROVE  News(o)' /\ (seen'[o] = 0 => Untraced(o)')
  <2>1. News(o) /\ (seen[o] = 0 => Untraced(o))
    BY DEF SyncInv
  <2>2. LastIs(pending[KindOf[o]], o, seen[o])'
    BY <1>2, <1>7, <1>8, <2>1 DEF News
  <2>3. Received(o)' <=> Received(o)
    BY <1>2 DEF Received
  <2>4. (Queued(o)' <=> Queued(o) \/ c.object = o)
        /\ (Listened(o) <=> Listened(o)' \/ c.object = o)
    BY <1>6, <1>7, <1>8 DEF Queued, Listened
  <2>5. ~Listened(o)' => LastIs(changes, o, seen[o])'
    <3>1. CASE c.object = o
      BY <1>2, <1>6, <1>7, <1>8, <2>1, <3>1 DEF News, Listened
    <3>2. CASE c.object # o
      BY <1>2, <1>6, <2>1, <2>4, <3>2 DEF News
    <3> QED BY <3>1, <3>2
  <2>6. News(o)'
    BY <1>2, <2>1, <2>2, <2>3, <2>4, <2>5 DEF News, Live
  <2>7. seen'[o] = 0 => Untraced(o)'
    BY <1>2, <2>1, <2>3, <2>4 DEF Untraced
  <2> QED BY <2>6, <2>7
<1>9. ASSUME NEW o \in Objects, KindOf[o] # k
      PROVE  News(o)' /\ (seen'[o] = 0 => Untraced(o)')
  <2>1. c.object # o /\ pending'[KindOf[o]] = pending[KindOf[o]]
    BY <1>3, <1>5, <1>9
  <2>2. (Listened(o)' <=> Listened(o)) /\ (Queued(o)' <=> Queued(o))
        /\ (Received(o)' <=> Received(o))
    BY <1>2, <1>6, <2>1 DEF Listened, Queued, Received
  <2>3. LastIs(changes, o, seen[o])' <=> LastIs(changes, o, seen[o])
    BY <1>2, <1>6, <2>1
  <2> QED BY <1>2, <2>1, <2>2, <2>3 DEF SyncInv, News, Untraced, Live
<1>10. \A j \in Kinds : \A i \in 1 .. Len(pending'[j]) : KindOf[pending'[j][i].object] = j
  <2>1. \A i \in 1 .. Len(pending'[k]) : KindOf[pending'[k][i].object] = k
    BY <1>3, <1>4 DEF SyncInv
  <2> QED BY <1>3, <2>1 DEF SyncInv
<1> QED BY <1>2, <1>8, <1>9, <1>10 DEF SyncInv, ReplacedAreGone

(* The oldest change in the channel comes to the apply loop, which holds     *)
(* no other.                                                                *)
LEMMA ReceiveStep ==
  ASSUME SyncInv, TypeOK', Receive
  PROVE  SyncInv'
<1> USE SyncAssumption
<1> DEFINE c == Head(changes)
<1>1. /\ UNCHANGED <<cluster, listed, replaced, seen, pending, resources>>
      /\ changes' = Tail(changes) /\ hand' = c /\ hand = NoChange /\ changes # <<>>
      /\ changes \in Seq(Change)
  BY DEF Receive, environment, SyncInv, TypeOK
<1>2. c # NoChange
  <2>1. c \in Change
    <3> HIDE DEF Change
    <3> QED BY <1>1
  <2> QED BY <2>1
<1>3. \A o, v : /\ Has(changes, o) <=> Has(changes', o) \/ c.object = o
                /\ LastIs(changes, o, v) => LastIs(changes', o, v)
                /\ LastIs(changes, o, v) /\ ~Has(changes', o) /\ c.object = o =>
                     c.version = v
  <2> HIDE DEF Change
  <2> QED BY <1>1, TailNews
<1>4. ASSUME NEW o \in Objects PROVE News(o)' /\ (seen'[o] = 0 => Untraced(o)')
  <2>1. News(o) /\ (seen[o] = 0 => Untraced(o)) /\ ~Received(o)
    BY <1>1 DEF SyncInv, Received
  <2>2. /\ Listened(o)' <=> Listened(o)
        /\ Queued(o) <=> Queued(o)' \/ c.object = o
        /\ Received(o)' <=> c.object = o
    BY <1>1, <1>2, <1>3 DEF Listened, Queued, Received
  <2>3. LastIs(pending[KindOf[o]], o, seen[o])'
    BY <1>1, <2>1 DEF News
  <2>4. ~Listened(o)' => LastIs(changes, o, seen[o])'
    BY <1>1, <1>3, <2>1, <2>2 DEF News
  <2>5. ~Listened(o)' /\ ~Queued(o)' /\ Received(o)' => hand'.version = seen'[o]
    BY <1>1, <1>3, <2>1, <2>2 DEF News, Queued
  <2>6. ~Listened(o)' /\ ~Queued(o)' /\ ~Received(o)' => resources'[o] = Live(seen[o])'
    BY <1>1, <2>1, <2>2 DEF News, Live
  <2>7. seen'[o] = 0 => Untraced(o)'
    BY <1>1, <2>1, <2>2 DEF Untraced
  <2> QED BY <2>3, <2>4, <2>5, <2>6, <2>7 DEF News
<1> QED BY <1>1, <1>4 DEF SyncInv, ReplacedAreGone

(* The store takes the version in the loop's hand.                          *)
LEMMA ApplyStep ==
  ASSUME SyncInv, TypeOK', Apply
  PROVE  SyncInv'
<1>1. /\ UNCHANGED <<cluster, listed, replaced, seen, pending, changes>>
      /\ hand \in Change /\ hand # NoChange /\ hand' = NoChange
      /\ resources' = [resources EXCEPT ![hand.object] = Live(hand.version)]
      /\ resources \in [Objects -> 0 .. MaxVersion]
  BY DEF Apply, environment, SyncInv, TypeOK
<1>2. /\ resources'[hand.object] = Live(hand.version) /\ hand.object \in Objects
      /\ \A o \in Objects \ {hand.object} : resources'[o] = resources[o]
  BY <1>1 DEF Change
<1>3. ASSUME NEW o \in Objects PROVE News(o)' /\ (seen'[o] = 0 => Untraced(o)')
  <2>1. News(o) /\ (seen[o] = 0 => Untraced(o)) /\ ~Received(o)'
        /\ (Received(o) <=> hand.object = o)
    BY <1>1 DEF SyncInv, Received
  <2>2. (Listened(o)' <=> Listened(o)) /\ (Queued(o)' <=> Queued(o))
        /\ (LastIs(pending[KindOf[o]], o, seen[o])' <=> LastIs(pending[KindOf[o]], o, seen[o]))
        /\ (LastIs(changes, o, seen[o])' <=> LastIs(changes, o, seen[o]))
    BY <1>1 DEF Listened, Queued
  <2>3. ~Listened(o)' /\ ~Queued(o)' => resources'[o] = Live(seen[o])'
    BY <1>1, <1>2, <2>1, <2>2 DEF News, Live
  <2>4. seen'[o] = 0 => Untraced(o)'
    BY <1>1, <1>2, <2>1, <2>2 DEF Untraced
  <2> QED BY <2>1, <2>2, <2>3, <2>4 DEF News
<1> QED BY <1>1, <1>3 DEF SyncInv, ReplacedAreGone

(* Every step keeps the news.                                               *)
LEMMA SyncInvNext == SyncInv /\ [Next]_vars => SyncInv'
<1> SUFFICES ASSUME SyncInv, [Next]_vars PROVE SyncInv'
  OBVIOUS
<1>1. TypeOK'
  BY TypeNext DEF SyncInv
<1>2. \A o \in Objects : cluster[o] <= cluster[o]
  BY DEF SyncInv, TypeOK, Versions
<1>3. ASSUME NEW o \in Objects, ClusterChange(o) PROVE SyncInv'
  <2>1. \A p \in Objects : cluster[p] <= cluster'[p]
    <3>1. cluster[o] <= cluster[o] + 1 /\ cluster[o] <= Gone
          /\ cluster \in [Objects -> Versions]
      BY SyncAssumption DEF SyncInv, TypeOK, Versions, Gone
    <3>2. \E v : cluster' = [cluster EXCEPT ![o] = v] /\ cluster[o] <= v
      BY <1>3, <3>1 DEF ClusterChange
    <3> QED BY <1>2, <3>1, <3>2
  <2> QED BY <1>1, <1>3, <2>1, QuietStep DEF ClusterChange
<1>4. ASSUME NEW k \in Kinds, Grant(k) PROVE SyncInv'
  BY <1>1, <1>2, <1>4, QuietStep DEF Grant
<1>5. ASSUME Stop \/ LoopEnds \/ Connected \/ Degraded PROVE SyncInv'
  BY <1>1, <1>2, <1>5, QuietStep DEF Stop, LoopEnds, Connected, Degraded,
     environment
<1>6. ASSUME UNCHANGED vars PROVE SyncInv'
  BY <1>1, <1>2, <1>6, QuietStep DEF vars
<1>7. ASSUME NEW o \in Objects, Watch(o) \/ \E p \in Namesakes(o) : Relist(o, p)
      PROVE  SyncInv'
  BY <1>1, <1>7, BothTell, TellStep
<1>8. ASSUME NEW k \in Kinds, List(k) PROVE SyncInv'
  BY <1>1, <1>8, ListStep
<1>9. ASSUME NEW k \in Kinds, Emit(k) PROVE SyncInv'
  BY <1>1, <1>9, EmitStep
<1>10. ASSUME Receive PROVE SyncInv'
  BY <1>1, <1>10, ReceiveStep
<1>11. ASSUME Apply PROVE SyncInv'
  BY <1>1, <1>11, ApplyStep
<1> QED
  BY <1>3, <1>4, <1>5, <1>6, <1>7, <1>8, <1>9, <1>10, <1>11 DEF Next

(* Where nothing is on the way, the news has arrived.                        *)
LEMMA QuietWhereNews == SyncInv => QuietIsCurrent
<1> SUFFICES ASSUME SyncInv, NEW o \in Objects, OnTheWay(o) = {}
             PROVE  IF o \in replaced THEN resources[o] = seen[o] /\ resources[o] # 0
                    ELSE resources[o] = Held(o)
  BY DEF QuietIsCurrent
<1>1. ~Listened(o)
  <2> SUFFICES ASSUME NEW i \in 1 .. Len(pending[KindOf[o]]), pending[KindOf[o]][i].object = o
               PROVE  FALSE
    BY DEF Listened, Has
  <2>1. pending[KindOf[o]][i] \in Range(pending[KindOf[o]])
    <3>1. KindOf[o] \in Kinds
      BY SyncAssumption
    <3>2. DOMAIN pending[KindOf[o]] = 1 .. Len(pending[KindOf[o]])
      <4> HIDE DEF Change
      <4> QED BY <3>1 DEF SyncInv, TypeOK
    <3> QED BY <3>2 DEF Range
  <2>2. pending[KindOf[o]][i] \in OnTheWay(o)
    BY <2>1 DEF OnTheWay
  <2> QED BY <2>2
<1>2. ~Queued(o)
  <2> SUFFICES ASSUME NEW i \in 1 .. Len(changes), changes[i].object = o PROVE FALSE
    BY DEF Queued, Has
  <2>1. changes[i] \in Range(changes)
    <3>1. DOMAIN changes = 1 .. Len(changes)
      <4> HIDE DEF Change
      <4> QED BY DEF SyncInv, TypeOK
    <3> QED BY <3>1 DEF Range
  <2>2. changes[i] \in OnTheWay(o)
    BY <2>1 DEF OnTheWay
  <2> QED BY <2>2
<1>3. ~Received(o)
  BY DEF Received, OnTheWay
<1>4. resources[o] = Live(seen[o])
  BY <1>1, <1>2, <1>3 DEF SyncInv, News
<1> QED BY <1>4 DEF SyncInv, ReplacedAreGone, Held, Live

-----------------------------------------------------------------------------
(* The order of the changes of one object: on every station they ascend,   *)
(* those of a later station are older than those of an earlier one, and    *)
(* what the loop has in hand, or else what is stored, is older than all.   *)
Ascends(s, o) ==
  \A i, j \in 1 .. Len(s) :
    i < j /\ s[i].object = o /\ s[j].object = o => s[i].version < s[j].version
Within(s, o, low, high) ==
  \A i \in 1 .. Len(s) : s[i].object = o => low < s[i].version /\ s[i].version <= high
Older(s, t, o) ==
  \A i \in 1 .. Len(s), j \in 1 .. Len(t) :
    s[i].object = o /\ t[j].object = o => s[i].version < t[j].version

Arrived(o) == IF Received(o) THEN hand.version ELSE resources[o]
InOrder(o) ==
  /\ Ascends(pending[KindOf[o]], o) /\ Ascends(changes, o)
  /\ Older(changes, pending[KindOf[o]], o)
  /\ Within(pending[KindOf[o]], o, Arrived(o), seen[o])
  /\ Within(changes, o, Arrived(o), seen[o])
  /\ Arrived(o) <= seen[o]
  /\ Received(o) => resources[o] < hand.version
OrderInv == \A o \in Objects : InOrder(o)

(* A deleted object of which nothing is left to come.                      *)
Buried(o) == seen[o] = Gone /\ cluster[o] = Gone /\ Untraced(o)

(* All versions are numbers.                                               *)
LEMMA VersionsAreNumbers ==
  ASSUME TypeOK
  PROVE  /\ \A k \in Kinds : \A i \in 1 .. Len(pending[k]) : pending[k][i].version \in 1 .. Gone
         /\ \A i \in 1 .. Len(changes) : changes[i].version \in 1 .. Gone
         /\ hand # NoChange => hand.version \in 1 .. Gone /\ hand.object \in Objects
         /\ \A o \in Objects : /\ seen[o] \in 0 .. Gone /\ cluster[o] \in 0 .. Gone
                               /\ resources[o] \in Nat
                               /\ Arrived(o) \in Nat
         /\ Gone \in Nat
<1>1. \A c \in Change : c.version \in 1 .. Gone /\ c.object \in Objects
  BY DEF Change
<1>2. \A s \in Seq(Change) : \A i \in 1 .. Len(s) : s[i] \in Change
  <2> HIDE DEF Change
  <2> QED OBVIOUS
<1>3. Gone \in Nat
  BY SyncAssumption DEF Gone
<1>4. hand # NoChange => hand.version \in 1 .. Gone /\ hand.object \in Objects
  BY <1>1 DEF TypeOK
<1>5. \A o \in Objects : /\ seen[o] \in 0 .. Gone /\ cluster[o] \in 0 .. Gone
                         /\ resources[o] \in Nat
  BY SyncAssumption DEF TypeOK, Versions
<1>6. \A o \in Objects : Arrived(o) \in Nat
  BY <1>3, <1>4, <1>5 DEF Arrived, Received
<1> QED BY <1>1, <1>2, <1>3, <1>4, <1>5, <1>6 DEF TypeOK

(* An informer's list has each object once, and nothing of it is ahead.    *)
LEMMA ListKeepsOrder ==
  ASSUME SyncInv, OrderInv, NEW k \in Kinds, List(k)
  PROVE  OrderInv'
<1> USE SyncAssumption
<1>1. TypeOK
  BY DEF SyncInv
<1>2. /\ pending' = [pending EXCEPT ![k] = pending'[k]]
      /\ \A i \in 1 .. Len(pending'[k]) :
           LET c == pending'[k][i] IN
             KindOf[c.object] = k /\ c.version = cluster[c.object] /\ c.version # 0
      /\ \A i, j \in 1 .. Len(pending'[k]) :
           pending'[k][i].object = pending'[k][j].object => i = j
  BY <1>1, ListBrings
<1>3. \A j \in Kinds \ {k} : pending'[j] = pending[j]
  BY <1>1, <1>2 DEF TypeOK
<1>4. UNCHANGED <<cluster, changes, hand, resources>>
      /\ seen' = [o \in Objects |-> IF KindOf[o] = k THEN cluster[o] ELSE seen[o]]
      /\ k \notin listed
  BY DEF List
<1>5. ASSUME NEW o \in Objects, KindOf[o] = k PROVE InOrder(o)'
  <2>1. Untraced(o) /\ seen'[o] = cluster[o]
    BY <1>4, <1>5 DEF SyncInv
  <2>2. ~Queued(o)' /\ ~Received(o)' /\ resources'[o] = 0
    BY <1>4, <2>1 DEF Untraced, Queued, Received, Has
  <2>3. Arrived(o)' = 0
    BY <2>2 DEF Arrived
  <2>4. cluster[o] \in Nat
    BY <1>1, VersionsAreNumbers
  <2>5. Within(pending[KindOf[o]], o, Arrived(o), seen[o])'
    BY <1>2, <1>5, <2>1, <2>3, <2>4 DEF Within
  <2>6. Ascends(pending[KindOf[o]], o)'
    <3> SUFFICES ASSUME NEW i \in 1 .. Len(pending'[k]), NEW j \in 1 .. Len(pending'[k]),
                        i < j, pending'[k][i].object = o, pending'[k][j].object = o
                 PROVE  FALSE
      BY <1>5 DEF Ascends
    <3> QED BY <1>2
  <2>7. /\ Ascends(changes, o)' /\ Older(changes, pending[KindOf[o]], o)'
        /\ Within(changes, o, Arrived(o), seen[o])'
    BY <2>2 DEF Queued, Has, Ascends, Older, Within
  <2> QED BY <2>1, <2>2, <2>3, <2>4, <2>5, <2>6, <2>7 DEF InOrder
<1>6. ASSUME NEW o \in Objects, KindOf[o] # k PROVE InOrder(o)'
  <2>1. pending'[KindOf[o]] = pending[KindOf[o]] /\ seen'[o] = seen[o]
    BY <1>3, <1>4, <1>6
  <2>2. InOrder(o)
    BY DEF OrderInv
  <2> QED BY <1>4, <2>1, <2>2 DEF InOrder, Arrived, Received, Ascends, Older, Within
<1> QED BY <1>5, <1>6 DEF OrderInv

(* A watch brings a version above all that its informer has seen.          *)
LEMMA TellKeepsOrder ==
  ASSUME SyncInv, OrderInv, NEW o \in Objects, Tells(o)
  PROVE  OrderInv'
<1> USE SyncAssumption
<1> DEFINE c == [object |-> o, version |-> cluster[o]]
           k == KindOf[o]
<1>1. TypeOK
  BY DEF SyncInv
<1>2. /\ UNCHANGED <<cluster, changes, hand, resources>>
      /\ seen' = [seen EXCEPT ![o] = cluster[o]]
      /\ seen[o] # cluster[o]
  BY DEF Tells
<1>3. seen'[o] = cluster[o] /\ \A p \in Objects \ {o} : seen'[p] = seen[p]
  BY <1>1, <1>2 DEF TypeOK
<1>4. seen[o] < cluster[o] /\ seen[o] \in Nat /\ cluster[o] \in 0 .. Gone
      /\ Gone \in Nat /\ Arrived(o) \in Nat
  BY <1>1, <1>2, VersionsAreNumbers DEF SyncInv
<1>5. \A p \in Objects : Arrived(p)' = Arrived(p) /\ (Received(p)' <=> Received(p))
  BY <1>2 DEF Arrived, Received
<1>6. \A p \in Objects : InOrder(p)
  BY DEF OrderInv
<1>7. /\ \A j \in Kinds : \A i \in 1 .. Len(pending[j]) : pending[j][i].version \in 1 .. Gone
      /\ \A i \in 1 .. Len(changes) : changes[i].version \in 1 .. Gone
  BY <1>1, VersionsAreNumbers
<1>8. k \in Kinds
  OBVIOUS
<1>9. CASE cluster[o] = Gone /\ seen[o] = 0
  <2>1. pending' = pending
    BY <1>9 DEF Tells
  <2>2. InOrder(o)'
    <3>1. Within(pending[k], o, Arrived(o), seen[o])'
      BY <1>3, <1>4, <1>5, <1>6, <1>7, <1>8, <1>9, <2>1 DEF InOrder, Within
    <3>2. Within(changes, o, Arrived(o), seen[o])'
      BY <1>2, <1>3, <1>4, <1>5, <1>6, <1>7, <1>9 DEF InOrder, Within
    <3>3. Arrived(o)' <= seen'[o]
      BY <1>3, <1>4, <1>5, <1>6 DEF InOrder
    <3> QED BY <1>2, <1>5, <1>6, <2>1, <3>1, <3>2, <3>3 DEF InOrder, Ascends, Older
  <2>3. \A p \in Objects \ {o} : InOrder(p)'
    BY <1>2, <1>3, <1>5, <1>6, <2>1 DEF InOrder, Ascends, Older, Within
  <2> QED BY <2>2, <2>3 DEF OrderInv
<1>10. CASE ~(cluster[o] = Gone /\ seen[o] = 0)
  <2>1. pending' = [pending EXCEPT ![k] = Append(@, c)]
    BY <1>10 DEF Tells
  <2>2. c \in Change
    BY <1>4 DEF Change
  <2>3. /\ pending'[k] = Append(pending[k], c)
        /\ Len(pending[k]) \in Nat /\ Len(pending'[k]) = Len(pending[k]) + 1
        /\ pending'[k][Len(pending[k]) + 1] = c
        /\ \A i \in 1 .. Len(pending[k]) : pending'[k][i] = pending[k][i]
        /\ \A j \in Kinds \ {k} : pending'[j] = pending[j]
    <3> HIDE DEF Change, c
    <3> QED BY <1>1, <2>1, <2>2 DEF TypeOK
  <2>4. \A i \in 1 .. Len(pending'[k]) :
          \/ i \in 1 .. Len(pending[k]) /\ pending'[k][i] = pending[k][i]
          \/ i = Len(pending[k]) + 1 /\ pending'[k][i] = c
    BY <2>3
  <2>5. c.object = o /\ c.version = cluster[o]
    OBVIOUS
  <2> HIDE DEF c
  <2>6. InOrder(o)'
    <3>1. /\ \A i \in 1 .. Len(pending[k]) :
               pending[k][i].object = o => pending[k][i].version < c.version
          /\ \A i \in 1 .. Len(changes) :
               changes[i].object = o => changes[i].version < c.version
          /\ Arrived(o) < c.version
      BY <1>4, <1>6, <1>7, <1>8, <2>5 DEF InOrder, Within
    <3>2. Ascends(pending[k], o)'
      BY <1>6, <2>3, <2>4, <3>1 DEF InOrder, Ascends
    <3>3. Older(changes, pending[k], o)'
      BY <1>2, <1>6, <2>4, <3>1 DEF InOrder, Older
    <3>4. Within(pending[k], o, Arrived(o), seen[o])'
      <4>1. \A i \in 1 .. Len(pending[k]) :
              pending[k][i].object = o => Arrived(o) < pending[k][i].version
        BY <1>6 DEF InOrder, Within
      <4>2. ASSUME NEW i \in 1 .. Len(pending'[k]), pending'[k][i].object = o
            PROVE  Arrived(o) < pending'[k][i].version /\ pending'[k][i].version <= cluster[o]
        <5>1. CASE i \in 1 .. Len(pending[k]) /\ pending'[k][i] = pending[k][i]
          <6>1. pending[k][i].version \in 1 .. Gone /\ pending[k][i].version < cluster[o]
            BY <1>7, <1>8, <2>5, <3>1, <4>2, <5>1
          <6> QED BY <1>4, <4>1, <4>2, <5>1, <6>1
        <5>2. CASE pending'[k][i] = c
          BY <1>4, <2>5, <3>1, <5>2
        <5> QED BY <2>4, <5>1, <5>2
      <4> QED BY <1>3, <1>5, <4>2 DEF Within
    <3>5. Within(changes, o, Arrived(o), seen[o])'
      BY <1>2, <1>3, <1>4, <1>5, <1>6, <1>7 DEF InOrder, Within
    <3>6. Arrived(o)' <= seen'[o] /\ Ascends(changes, o)'
      BY <1>2, <1>3, <1>4, <1>5, <1>6 DEF InOrder, Ascends
    <3> QED BY <1>2, <1>5, <1>6, <3>2, <3>3, <3>4, <3>5, <3>6 DEF InOrder
  <2>7. ASSUME NEW p \in Objects \ {o} PROVE InOrder(p)'
    <3>1. CASE KindOf[p] = k
      <4>1. /\ Ascends(pending[k], p)' /\ Older(changes, pending[k], p)'
            /\ Within(pending[k], p, Arrived(p), seen[p])'
        <5>1. \A i \in 1 .. Len(pending'[k]) : pending'[k][i].object = p =>
                i \in 1 .. Len(pending[k]) /\ pending'[k][i] = pending[k][i]
          BY <2>4, <2>5
        <5>2. /\ Ascends(pending[k], p) /\ Older(changes, pending[k], p)
              /\ Within(pending[k], p, Arrived(p), seen[p])
          BY <1>6, <3>1 DEF InOrder
        <5>3. Ascends(pending[k], p)'
          BY <5>1, <5>2 DEF Ascends
        <5>4. Older(changes, pending[k], p)'
          BY <1>2, <5>1, <5>2 DEF Older
        <5>5. Within(pending[k], p, Arrived(p), seen[p])'
          BY <1>3, <1>5, <5>1, <5>2 DEF Within
        <5> QED BY <5>3, <5>4, <5>5
      <4> QED BY <1>2, <1>3, <1>5, <1>6, <3>1, <4>1 DEF InOrder, Ascends, Within
    <3>2. CASE KindOf[p] # k
      BY <1>2, <1>3, <1>5, <1>6, <2>3, <3>2 DEF InOrder, Ascends, Older, Within
    <3> QED BY <3>1, <3>2
  <2> QED BY <2>6, <2>7 DEF OrderInv
<1> QED BY <1>9, <1>10

(* A listener's oldest change is younger than all in the channel.          *)
LEMMA EmitKeepsOrder ==
  ASSUME SyncInv, OrderInv, NEW k \in Kinds, Emit(k)
  PROVE  OrderInv'
<1> USE SyncAssumption
<1> DEFINE c == Head(pending[k])
<1>1. TypeOK
  BY DEF SyncInv
<1>2. /\ UNCHANGED <<cluster, seen, hand, resources>>
      /\ changes' = Append(changes, c)
      /\ pending' = [pending EXCEPT ![k] = Tail(pending[k])]
      /\ pending[k] # <<>>
  BY DEF Emit, environment
<1>3. /\ pending[k] \in Seq(Change) /\ changes \in Seq(Change) /\ c \in Change
      /\ pending'[k] = Tail(pending[k])
      /\ \A j \in Kinds \ {k} : pending'[j] = pending[j]
  <2> HIDE DEF Change
  <2> QED BY <1>1, <1>2 DEF TypeOK
<1>4. /\ Len(pending[k]) \in Nat \ {0} /\ Len(pending'[k]) = Len(pending[k]) - 1
      /\ c = pending[k][1]
      /\ \A i \in 1 .. Len(pending'[k]) :
           i + 1 \in 1 .. Len(pending[k]) /\ pending'[k][i] = pending[k][i + 1]
  <2> HIDE DEF Change
  <2>1. /\ Len(pending[k]) \in Nat \ {0} /\ Len(Tail(pending[k])) = Len(pending[k]) - 1
        /\ c = pending[k][1]
        /\ \A i \in 1 .. Len(Tail(pending[k])) : Tail(pending[k])[i] = pending[k][i + 1]
    BY <1>2, <1>3
  <2> QED BY <1>3, <2>1
<1>5. /\ Len(changes) \in Nat /\ Len(changes') = Len(changes) + 1
      /\ \A i \in 1 .. Len(changes') :
           \/ i \in 1 .. Len(changes) /\ changes'[i] = changes[i]
           \/ i = Len(changes) + 1 /\ changes'[i] = c
  <2> HIDE DEF Change, c
  <2> QED BY <1>2, <1>3
<1>6. KindOf[c.object] = k /\ 1 \in 1 .. Len(pending[k])
  BY <1>4 DEF SyncInv
<1>7. \A p \in Objects : Arrived(p)' = Arrived(p) /\ (Received(p)' <=> Received(p))
  BY <1>2 DEF Arrived, Received
<1> HIDE DEF c
<1>8. ASSUME NEW o \in Objects PROVE InOrder(o)'
  <2>1. InOrder(o)
    BY DEF OrderInv
  <2>2. CASE KindOf[o] = k
    <3>1. Ascends(pending[k], o)'
      <4>1. Ascends(pending[k], o)
        BY <2>1, <2>2 DEF InOrder
      <4> SUFFICES ASSUME NEW i \in 1 .. Len(pending'[k]), NEW j \in 1 .. Len(pending'[k]),
                          i < j, pending'[k][i].object = o, pending'[k][j].object = o
                   PROVE  pending'[k][i].version < pending'[k][j].version
        BY DEF Ascends
      <4>2. i + 1 \in 1 .. Len(pending[k]) /\ j + 1 \in 1 .. Len(pending[k]) /\ i + 1 < j + 1
        BY <1>4
      <4> QED BY ZenonT(30), <1>4, <4>1, <4>2 DEF Ascends
    <3>2. Within(pending[k], o, Arrived(o), seen[o])'
      BY <1>2, <1>4, <1>7, <2>1, <2>2 DEF InOrder, Within
    <3>3. /\ \A i \in 1 .. Len(changes) :
               changes[i].object = o /\ c.object = o => changes[i].version < c.version
          /\ c.object = o => Arrived(o) < c.version /\ c.version <= seen[o]
      BY <1>4, <1>6, <2>1, <2>2 DEF InOrder, Older, Within
    <3>4. Ascends(changes, o)'
      BY <1>5, <2>1, <3>3 DEF InOrder, Ascends
    <3>5. Within(changes, o, Arrived(o), seen[o])'
      BY <1>2, <1>5, <1>7, <2>1, <3>3 DEF InOrder, Within
    <3>6. \A i \in 1 .. Len(pending'[k]) :
            pending'[k][i].object = o /\ c.object = o => c.version < pending'[k][i].version
      <4>1. Ascends(pending[k], o)
        BY <2>1, <2>2 DEF InOrder
      <4>2. \A i \in 1 .. Len(pending'[k]) : i + 1 \in 1 .. Len(pending[k]) /\ 1 < i + 1
        BY <1>4
      <4> QED BY <1>4, <1>6, <4>1, <4>2 DEF Ascends
    <3>7. Older(changes, pending[k], o)'
      <4>1. Older(changes, pending[k], o)
        BY <2>1, <2>2 DEF InOrder
      <4> SUFFICES ASSUME NEW i \in 1 .. Len(changes'), NEW j \in 1 .. Len(pending'[k]),
                          changes'[i].object = o, pending'[k][j].object = o
                   PROVE  changes'[i].version < pending'[k][j].version
        BY <2>2 DEF Older
      <4>2. j + 1 \in 1 .. Len(pending[k]) /\ pending'[k][j] = pending[k][j + 1]
        BY <1>4
      <4> QED BY <1>5, <3>6, <4>1, <4>2 DEF Older
    <3> QED BY <1>2, <1>7, <2>1, <2>2, <3>1, <3>2, <3>4, <3>5, <3>7 DEF InOrder
  <2>3. CASE KindOf[o] # k
    <3>1. \A i \in 1 .. Len(changes') : changes'[i].object = o =>
            i \in 1 .. Len(changes) /\ changes'[i] = changes[i]
      BY <1>5, <1>6, <2>3
    <3>2. pending'[KindOf[o]] = pending[KindOf[o]]
      BY <1>3, <2>3
    <3>3. Ascends(changes, o)'
      BY <2>1, <3>1 DEF InOrder, Ascends
    <3>4. Older(changes, pending[KindOf[o]], o)'
      BY <2>1, <3>1, <3>2 DEF InOrder, Older
    <3>5. Within(changes, o, Arrived(o), seen[o])'
      BY <1>2, <1>7, <2>1, <3>1 DEF InOrder, Within
    <3>6. Ascends(pending[KindOf[o]], o)' /\ Within(pending[KindOf[o]], o, Arrived(o), seen[o])'
      BY <1>2, <1>7, <2>1, <3>2 DEF InOrder, Ascends, Within
    <3> QED BY <1>2, <1>7, <2>1, <3>3, <3>4, <3>5, <3>6 DEF InOrder
  <2> QED BY <2>2, <2>3
<1> QED BY <1>8 DEF OrderInv

(* What the loop receives is younger than what is stored and older than    *)
(* the rest.                                                               *)
LEMMA ReceiveKeepsOrder ==
  ASSUME SyncInv, OrderInv, Receive
  PROVE  OrderInv'
<1> USE SyncAssumption
<1> DEFINE c == Head(changes)
<1>1. /\ UNCHANGED <<seen, pending, resources>>
      /\ changes' = Tail(changes) /\ hand' = c /\ hand = NoChange /\ changes # <<>>
      /\ changes \in Seq(Change)
  BY DEF Receive, environment, SyncInv, TypeOK
<1>2. c # NoChange
  <2>1. c \in Change
    <3> HIDE DEF Change
    <3> QED BY <1>1
  <2> QED BY <2>1
<1>3. /\ Len(changes) \in Nat \ {0} /\ Len(changes') = Len(changes) - 1
      /\ c = changes[1] /\ 1 \in 1 .. Len(changes)
      /\ \A i \in 1 .. Len(changes') :
           i + 1 \in 1 .. Len(changes) /\ changes'[i] = changes[i + 1]
  <2> HIDE DEF Change
  <2> QED BY <1>1
<1> HIDE DEF c
<1>4. ASSUME NEW o \in Objects PROVE InOrder(o)'
  <2>1. InOrder(o) /\ Arrived(o) = resources[o]
    BY <1>1 DEF OrderInv, Arrived, Received
  <2>2. Received(o)' <=> c.object = o
    BY <1>1, <1>2 DEF Received
  <2>3. Arrived(o)' = IF c.object = o THEN c.version ELSE resources[o]
    BY <1>1, <2>2 DEF Arrived
  <2>4. Ascends(changes, o)'
    BY <1>3, <2>1 DEF InOrder, Ascends
  <2>5. Older(changes, pending[KindOf[o]], o)'
    BY <1>1, <1>3, <2>1 DEF InOrder, Older
  <2>6. Ascends(pending[KindOf[o]], o)'
    BY <1>1, <2>1 DEF InOrder, Ascends
  <2>7. CASE c.object = o
    <3>1. resources[o] < c.version /\ c.version <= seen[o]
      BY <1>3, <2>1, <2>7 DEF InOrder, Within
    <3>2. Within(changes, o, Arrived(o), seen[o])'
      <4>1. \A i \in 1 .. Len(changes') :
              changes'[i].object = o => c.version < changes'[i].version
        BY <1>3, <2>1, <2>7 DEF InOrder, Ascends
      <4> QED BY <1>1, <1>3, <2>1, <2>3, <2>7, <4>1 DEF InOrder, Within
    <3>3. Within(pending[KindOf[o]], o, Arrived(o), seen[o])'
      BY <1>1, <1>3, <2>1, <2>3, <2>7 DEF InOrder, Older, Within
    <3> QED BY <1>1, <2>2, <2>3, <2>4, <2>5, <2>6, <2>7, <3>1, <3>2, <3>3
               DEF InOrder
  <2>8. CASE c.object # o
    <3>1. Within(changes, o, Arrived(o), seen[o])'
      BY <1>1, <1>3, <2>1, <2>3, <2>8 DEF InOrder, Within
    <3>2. Within(pending[KindOf[o]], o, Arrived(o), seen[o])'
      BY <1>1, <2>1, <2>3, <2>8 DEF InOrder, Within
    <3> QED BY <1>1, <2>1, <2>2, <2>3, <2>4, <2>5, <2>6, <2>8, <3>1, <3>2
               DEF InOrder
  <2> QED BY <2>7, <2>8
<1> QED BY <1>4 DEF OrderInv

(* The store takes a younger version, or the deletion, which is the last.  *)
LEMMA ApplyKeepsOrder ==
  ASSUME SyncInv, OrderInv, Apply
  PROVE  /\ OrderInv'
         /\ \A o \in Objects :
              /\ resources'[o] # 0 => resources'[o] >= resources[o]
              /\ resources[o] # 0 => resources'[o] # 0 \/ Buried(o)'
<1> USE SyncAssumption
<1>1. /\ UNCHANGED <<cluster, seen, pending, changes>>
      /\ hand \in Change /\ hand # NoChange /\ hand' = NoChange
      /\ resources' = [resources EXCEPT ![hand.object] = Live(hand.version)]
      /\ resources \in [Objects -> 0 .. MaxVersion]
  BY DEF Apply, environment, SyncInv, TypeOK
<1>2. /\ resources'[hand.object] = Live(hand.version) /\ hand.object \in Objects
      /\ \A o \in Objects \ {hand.object} : resources'[o] = resources[o]
  BY <1>1 DEF Change
<1>3. /\ \A k \in Kinds : \A i \in 1 .. Len(pending[k]) : pending[k][i].version \in 1 .. Gone
      /\ \A i \in 1 .. Len(changes) : changes[i].version \in 1 .. Gone
      /\ hand.version \in 1 .. Gone /\ Gone \in Nat
      /\ \A o \in Objects : /\ seen[o] \in 0 .. Gone /\ cluster[o] \in 0 .. Gone
                            /\ resources[o] \in Nat
  BY <1>1, VersionsAreNumbers DEF SyncInv
<1>4. ASSUME NEW o \in Objects, hand.object = o
      PROVE  /\ InOrder(o)'
             /\ resources'[o] # 0 => resources'[o] >= resources[o]
             /\ resources'[o] = 0 => Buried(o)'
  <2>1. InOrder(o) /\ Received(o) /\ Arrived(o) = hand.version
    BY <1>1, <1>4 DEF OrderInv, Arrived, Received
  <2>2. ~Received(o)' /\ Arrived(o)' = Live(hand.version)
    BY <1>1, <1>2, <1>4 DEF Arrived, Received
  <2>3. Live(hand.version) \in Nat /\ Live(hand.version) <= hand.version
    BY <1>3 DEF Live
  <2>4. Within(pending[KindOf[o]], o, Arrived(o), seen[o])'
    BY SMTT(30), <1>1, <1>3, <2>1, <2>2, <2>3 DEF InOrder, Within
  <2>5. Within(changes, o, Arrived(o), seen[o])'
    BY <1>1, <1>3, <2>1, <2>2, <2>3 DEF InOrder, Within
  <2>6. Arrived(o)' <= seen'[o]
    BY <1>1, <1>3, <2>1, <2>2, <2>3 DEF InOrder
  <2>7. InOrder(o)'
    BY <1>1, <2>1, <2>2, <2>4, <2>5, <2>6 DEF InOrder, Ascends, Older
  <2>8. resources'[o] # 0 => resources'[o] >= resources[o]
    BY <1>2, <1>3, <1>4, <2>1 DEF InOrder, Live
  <2>9. ASSUME resources'[o] = 0 PROVE Buried(o)'
    <3>1. hand.version = Gone
      BY <1>2, <1>3, <1>4, <2>9 DEF Live
    <3>2. seen[o] = Gone /\ cluster[o] = Gone
      BY <1>3, <2>1, <3>1 DEF InOrder, SyncInv
    <3>3. ~Listened(o) /\ ~Queued(o)
      BY <1>3, <2>1, <3>1 DEF InOrder, Within, Listened, Queued, Has
    <3> QED BY <1>1, <2>2, <2>9, <3>2, <3>3 DEF Buried, Untraced, Listened, Queued
  <2> QED BY <2>7, <2>8, <2>9
<1>5. ASSUME NEW o \in Objects, hand.object # o
      PROVE  InOrder(o)' /\ resources'[o] = resources[o]
  <2>1. InOrder(o) /\ ~Received(o) /\ ~Received(o)' /\ resources'[o] = resources[o]
    BY <1>1, <1>2, <1>5 DEF OrderInv, Received
  <2>2. Arrived(o)' = Arrived(o)
    BY <2>1 DEF Arrived
  <2> QED BY <1>1, <2>1, <2>2 DEF InOrder, Ascends, Older, Within
<1>6. \A o \in Objects : resources[o] >= resources[o]
  BY <1>3
<1> QED BY <1>4, <1>5, <1>6 DEF OrderInv

(* The order of the natural numbers descends for finitely many steps only.*)
LEMMA LessThanIsWellFounded ==
  IsWellFoundedOn({ss \in Nat \X Nat : ss[1] < ss[2]}, Nat)
BY NatLessThanWellFounded DEF OpToRel

(* Every set of natural numbers that is not empty has a smallest member.   *)
LEMMA SmallestMember ==
  ASSUME NEW S \in SUBSET Nat, S # {}
  PROVE  \E x \in S : \A y \in S : x <= y
<1> DEFINE Less == {ss \in Nat \X Nat : ss[1] < ss[2]}
<1>1. PICK x \in S : \A y \in S : ~ (<<y, x>> \in Less)
  <2>1. IsWellFoundedOn(Less, Nat)
    BY LessThanIsWellFounded
  <2> HIDE DEF Less
  <2> QED BY <2>1, WFMin
<1>2. ASSUME NEW y \in S PROVE x <= y
  <2>1. x \in Nat /\ y \in Nat
    OBVIOUS
  <2>2. y < x => <<y, x>> \in Less
    BY <2>1
  <2>3. ~ (y < x)
    BY <1>1, <2>2
  <2> QED BY <2>1, <2>3
<1> QED BY <1>2

(* A sequence that has changes of an object has a last one.                *)
LEMMA HasLast ==
  ASSUME NEW s \in Seq(Change), NEW o, Has(s, o)
  PROVE  \E i \in 1 .. Len(s) :
           s[i].object = o /\ \A j \in i + 1 .. Len(s) : s[j].object # o
<1> HIDE DEF Change
<1> DEFINE fromEnd == {n \in 0 .. Len(s) - 1 : s[Len(s) - n].object = o}
<1>1. Len(s) \in Nat
  OBVIOUS
<1>2. PICK i \in 1 .. Len(s) : s[i].object = o
  BY DEF Has
<1>3. Len(s) - i \in fromEnd
  <2>1. Len(s) - i \in 0 .. Len(s) - 1 /\ Len(s) - (Len(s) - i) = i
    BY <1>1
  <2> QED BY <1>2, <2>1
<1>4. fromEnd \in SUBSET Nat /\ fromEnd # {}
  <2>1. fromEnd \in SUBSET Nat
    BY <1>1
  <2>2. fromEnd # {}
    <3> HIDE DEF fromEnd
    <3> QED BY <1>3
  <2> QED BY <2>1, <2>2
<1>5. PICK n \in fromEnd : \A m \in fromEnd : n <= m
  <2> HIDE DEF fromEnd
  <2> QED BY <1>4, SmallestMember
<1>6. Len(s) - n \in 1 .. Len(s) /\ s[Len(s) - n].object = o
  BY <1>1, <1>5
<1>7. ASSUME NEW j \in (Len(s) - n) + 1 .. Len(s), s[j].object = o PROVE FALSE
  <2>1. Len(s) - j \in 0 .. Len(s) - 1 /\ Len(s) - (Len(s) - j) = j /\ Len(s) - j < n
    BY <1>1, <1>5
  <2>2. Len(s) - j \in fromEnd
    BY <1>7, <2>1
  <2> QED BY <1>1, <1>5, <2>1, <2>2
<1> QED BY <1>6, <1>7

(* What enters the store is alive in its informer, or its end is still on  *)
(* its way.                                                                *)
LEMMA EntersBeforeEnd ==
  ASSUME SyncInv, Apply, NEW o \in Objects, resources[o] = 0, resources'[o] # 0, seen[o] = Gone
  PROVE  \E c \in OnTheWay(o) : c.version = Gone
<1> USE SyncAssumption
<1>1. /\ hand \in Change /\ hand # NoChange /\ News(o) /\ TypeOK
      /\ resources' = [resources EXCEPT ![hand.object] = Live(hand.version)]
      /\ resources \in [Objects -> 0 .. MaxVersion]
  BY DEF Apply, SyncInv, TypeOK
<1>2. hand.object = o /\ hand.version # Gone /\ Received(o)
  <2>1. hand.object = o
    BY <1>1
  <2>2. resources'[o] = Live(hand.version)
    BY <1>1, <2>1
  <2> QED BY <1>1, <2>1, <2>2 DEF Live, Received
<1>3. CASE Listened(o)
  <2> DEFINE s == pending[KindOf[o]]
  <2>1. s \in Seq(Change) /\ Has(s, o) /\ LastIs(s, o, seen[o])
    BY <1>1, <1>3 DEF TypeOK, Listened, News
  <2> HIDE DEF s
  <2>2. PICK i \in 1 .. Len(s) :
          s[i].object = o /\ \A j \in i + 1 .. Len(s) : s[j].object # o
    BY <2>1, HasLast
  <2>3. s[i].version = Gone
    BY <2>1, <2>2 DEF LastIs
  <2>4. s[i] \in Range(s)
    <3>1. DOMAIN s = 1 .. Len(s)
      <4> HIDE DEF Change
      <4> QED BY <2>1
    <3> QED BY <3>1 DEF Range
  <2>5. s[i] \in OnTheWay(o)
    BY <2>2, <2>4 DEF OnTheWay, s
  <2> QED BY <2>3, <2>5
<1>4. CASE ~Listened(o) /\ Queued(o)
  <2>1. changes \in Seq(Change) /\ Has(changes, o) /\ LastIs(changes, o, seen[o])
    BY <1>1, <1>4 DEF TypeOK, Queued, News
  <2>2. PICK i \in 1 .. Len(changes) :
          changes[i].object = o /\ \A j \in i + 1 .. Len(changes) : changes[j].object # o
    BY <2>1, HasLast
  <2>3. changes[i].version = Gone
    BY <2>1, <2>2 DEF LastIs
  <2>4. changes[i] \in Range(changes)
    <3>1. DOMAIN changes = 1 .. Len(changes)
      <4> HIDE DEF Change
      <4> QED BY <2>1
    <3> QED BY <3>1 DEF Range
  <2>5. changes[i] \in OnTheWay(o)
    BY <2>2, <2>4 DEF OnTheWay
  <2> QED BY <2>3, <2>5
<1>5. CASE ~Listened(o) /\ ~Queued(o)
  BY <1>1, <1>2, <1>5 DEF News
<1> QED BY <1>3, <1>4, <1>5

(* Every step keeps the order, moves the store forward only, and leaves an *)
(* object that has left the store for good where it is.                    *)
LEMMA OrderStep ==
  ASSUME SyncInv, OrderInv, [Next]_vars
  PROVE  /\ OrderInv'
         /\ \A o \in Objects :
              /\ resources'[o] # 0 => resources'[o] >= resources[o]
              /\ resources[o] # 0 => resources'[o] # 0 \/ Buried(o)'
<1>1. \A o \in Objects : resources[o] >= resources[o]
  BY VersionsAreNumbers DEF SyncInv
<1>2. CASE UNCHANGED <<seen, pending, changes, hand, resources>>
  <2>1. ASSUME NEW o \in Objects PROVE InOrder(o)'
    <3>1. InOrder(o)
      BY DEF OrderInv
    <3> QED BY <1>2, <3>1 DEF InOrder, Arrived, Received, Ascends, Older, Within
  <2> QED BY <1>1, <1>2, <2>1 DEF OrderInv
<1>3. CASE UNCHANGED resources /\ OrderInv'
  BY <1>1, <1>3
<1>4. ASSUME NEW o \in Objects, ClusterChange(o)
      PROVE  UNCHANGED <<seen, pending, changes, hand, resources>>
  BY <1>4 DEF ClusterChange
<1>5. ASSUME NEW o \in Objects, Watch(o) \/ \E p \in Namesakes(o) : Relist(o, p)
      PROVE  UNCHANGED resources /\ OrderInv'
  <2>1. Tells(o)
    BY <1>5, BothTell
  <2> QED BY <2>1, TellKeepsOrder DEF Tells
<1>6. ASSUME NEW k \in Kinds, Grant(k)
      PROVE  UNCHANGED <<seen, pending, changes, hand, resources>>
  BY <1>6 DEF Grant
<1>7. ASSUME NEW k \in Kinds, List(k) PROVE UNCHANGED resources /\ OrderInv'
  BY <1>7, ListKeepsOrder DEF List
<1>8. ASSUME NEW k \in Kinds, Emit(k) PROVE UNCHANGED resources /\ OrderInv'
  BY <1>8, EmitKeepsOrder DEF Emit
<1>9. ASSUME Receive PROVE UNCHANGED resources /\ OrderInv'
  BY <1>9, ReceiveKeepsOrder DEF Receive
<1>10. ASSUME Stop \/ LoopEnds \/ Connected \/ Degraded
       PROVE  UNCHANGED <<seen, pending, changes, hand, resources>>
  BY <1>10 DEF Stop, LoopEnds, Connected, Degraded, environment
<1>11. CASE UNCHANGED vars
  BY <1>2, <1>11 DEF vars
<1>12. CASE Apply
  BY <1>12, ApplyKeepsOrder
<1> QED
  BY <1>2, <1>3, <1>4, <1>5, <1>6, <1>7, <1>8, <1>9, <1>10, <1>11, <1>12 DEF Next

(* Nothing brings a buried object back: there is no news of it.            *)
LEMMA BuriedStays ==
  ASSUME SyncInv, [Next]_vars, NEW o \in Objects, Buried(o)
  PROVE  Buried(o)'
<1> USE SyncAssumption
<1>1. TypeOK /\ TypeOK' /\ SyncInv'
  BY SyncInvNext DEF SyncInv
<1>2. seen[o] = Gone /\ cluster[o] = Gone /\ Untraced(o) /\ Gone \in Nat \ {0}
  BY DEF Buried, Gone
<1>3. CASE UNCHANGED <<seen, pending, changes, hand, resources>> /\ cluster'[o] = cluster[o]
  BY <1>2, <1>3 DEF Buried, Untraced, Listened, Queued, Received, Has
<1>4. ASSUME NEW p \in Objects, ClusterChange(p)
      PROVE  UNCHANGED <<seen, pending, changes, hand, resources>> /\ cluster'[o] = cluster[o]
  <2>1. cluster[p] < Gone /\ cluster \in [Objects -> Versions]
    BY <1>1, <1>4 DEF ClusterChange, TypeOK
  <2>2. p # o
    BY <1>2, <2>1
  <2> QED BY <1>4, <2>1, <2>2 DEF ClusterChange
<1>5. ASSUME NEW p \in Objects, Watch(p) \/ \E q \in Namesakes(p) : Relist(p, q)
      PROVE  Buried(o)'
  <2> DEFINE c == [object |-> p, version |-> cluster[p]]
             k == KindOf[p]
  <2>1. /\ UNCHANGED <<cluster, changes, hand, resources>> /\ p # o
        /\ seen' = [seen EXCEPT ![p] = cluster[p]]
        /\ pending' = pending \/ pending' = [pending EXCEPT ![k] = Append(@, c)]
    <3>1. Tells(p)
      BY <1>5, BothTell
    <3> QED BY <1>2, <3>1 DEF Tells
  <2>2. seen'[o] = seen[o]
    BY <1>1, <2>1 DEF TypeOK
  <2>3. ~Listened(o)'
    <3>1. CASE pending' = pending
      BY <1>2, <3>1 DEF Untraced, Listened
    <3>2. CASE pending' = [pending EXCEPT ![k] = Append(@, c)]
      <4>1. /\ Len(pending[k]) \in Nat /\ Len(pending'[k]) = Len(pending[k]) + 1
            /\ pending'[k][Len(pending[k]) + 1] = c
            /\ \A i \in 1 .. Len(pending[k]) : pending'[k][i] = pending[k][i]
            /\ \A j \in Kinds \ {k} : pending'[j] = pending[j]
        <5>1. pending[k] \in Seq(Change) /\ pending'[k] = Append(pending[k], c)
              /\ \A j \in Kinds \ {k} : pending'[j] = pending[j]
          <6> HIDE DEF Change, c
          <6> QED BY <1>1, <3>2 DEF TypeOK
        <5> HIDE DEF Change, c
        <5> QED BY <5>1
      <4>2. c.object # o
        BY <2>1
      <4> HIDE DEF c
      <4>3. CASE KindOf[o] = k
        <5>1. \A i \in 1 .. Len(pending'[k]) :
                \/ i \in 1 .. Len(pending[k]) /\ pending'[k][i] = pending[k][i]
                \/ pending'[k][i] = c
          BY <4>1
        <5> QED BY <1>2, <4>2, <4>3, <5>1 DEF Untraced, Listened, Has
      <4>4. CASE KindOf[o] # k
        BY <1>2, <4>1, <4>4 DEF Untraced, Listened, Has
      <4> QED BY <4>3, <4>4
    <3> QED BY <2>1, <3>1, <3>2
  <2> QED BY <1>2, <2>1, <2>2, <2>3 DEF Buried, Untraced, Queued, Received
<1>6. ASSUME NEW k \in Kinds, List(k) PROVE Buried(o)'
  <2>1. KindOf[o] # k
    BY <1>2, <1>6 DEF SyncInv, List
  <2>2. /\ UNCHANGED <<cluster, changes, hand, resources>> /\ seen'[o] = seen[o]
        /\ pending'[KindOf[o]] = pending[KindOf[o]]
    <3>1. pending' = [pending EXCEPT ![k] = pending'[k]]
      BY <1>1, <1>6, ListBrings
    <3> QED BY <1>1, <1>6, <2>1, <3>1 DEF List, TypeOK
  <2> QED BY <1>2, <2>2 DEF Buried, Untraced, Listened, Queued, Received
<1>7. ASSUME NEW k \in Kinds, Emit(k) PROVE Buried(o)'
  <2> DEFINE c == Head(pending[k])
  <2>1. /\ UNCHANGED <<cluster, seen, hand, resources>>
        /\ changes' = Append(changes, c) /\ pending[k] # <<>>
        /\ pending' = [pending EXCEPT ![k] = Tail(pending[k])]
    BY <1>7 DEF Emit, environment
  <2>2. /\ pending[k] \in Seq(Change) /\ changes \in Seq(Change)
        /\ pending'[k] = Tail(pending[k])
        /\ \A j \in Kinds \ {k} : pending'[j] = pending[j]
    <3> HIDE DEF Change
    <3> QED BY <1>1, <2>1 DEF TypeOK
  <2>3. /\ c = pending[k][1] /\ 1 \in 1 .. Len(pending[k])
        /\ \A i \in 1 .. Len(pending'[k]) :
             i + 1 \in 1 .. Len(pending[k]) /\ pending'[k][i] = pending[k][i + 1]
        /\ c \in Change
    <3> HIDE DEF Change
    <3>1. /\ Len(pending[k]) \in Nat \ {0} /\ Len(Tail(pending[k])) = Len(pending[k]) - 1
          /\ c = pending[k][1] /\ c \in Change
          /\ \A i \in 1 .. Len(Tail(pending[k])) : Tail(pending[k])[i] = pending[k][i + 1]
      BY <2>1, <2>2
    <3> QED BY <2>2, <3>1
  <2>4. c.object # o
    BY <1>2, <2>3 DEF SyncInv, Untraced, Listened, Has
  <2>5. ~Listened(o)'
    <3>1. CASE KindOf[o] = k
      BY <1>2, <2>3, <3>1 DEF Untraced, Listened, Has
    <3>2. CASE KindOf[o] # k
      BY <1>2, <2>2, <3>2 DEF Untraced, Listened, Has
    <3> QED BY <3>1, <3>2
  <2>6. ~Queued(o)'
    <3>1. \A p, v : /\ Has(changes', p) <=> Has(changes, p) \/ c.object = p
                    /\ LastIs(changes', p, v) <=>
                         IF c.object = p THEN c.version = v ELSE LastIs(changes, p, v)
      <4> HIDE DEF Change, c
      <4>1. changes \in Seq(Change) /\ c \in Change /\ changes' = Append(changes, c)
        BY <2>1, <2>2, <2>3
      <4> QED BY <4>1, AppendNews
    <3> QED BY <1>2, <2>4, <3>1 DEF Untraced, Queued
  <2> QED BY <1>2, <2>1, <2>5, <2>6 DEF Buried, Untraced, Received
<1>8. ASSUME Receive PROVE Buried(o)'
  <2>1. /\ UNCHANGED <<cluster, seen, pending, resources>>
        /\ changes' = Tail(changes) /\ hand' = Head(changes) /\ changes # <<>>
        /\ changes \in Seq(Change)
    BY <1>1, <1>8 DEF Receive, environment, TypeOK
  <2>2. Has(changes, o) <=> Has(changes', o) \/ Head(changes).object = o
    <3> HIDE DEF Change
    <3> QED BY <2>1, TailNews
  <2> QED BY <1>2, <2>1, <2>2 DEF Buried, Untraced, Listened, Queued, Received
<1>9. ASSUME Apply PROVE Buried(o)'
  <2>1. /\ UNCHANGED <<cluster, seen, pending, changes>> /\ hand # NoChange
        /\ hand' = NoChange /\ hand.object # o
        /\ resources' = [resources EXCEPT ![hand.object] = Live(hand.version)]
    BY <1>2, <1>9 DEF Apply, environment, Untraced, Received
  <2>2. resources'[o] = resources[o]
    BY <1>1, <2>1 DEF TypeOK
  <2> QED BY <1>2, <2>1, <2>2 DEF Buried, Untraced, Listened, Queued, Received
<1>10. ASSUME (\E k \in Kinds : Grant(k)) \/ Stop \/ LoopEnds \/ Connected \/ Degraded
              \/ UNCHANGED vars
       PROVE  UNCHANGED <<seen, pending, changes, hand, resources>> /\ cluster'[o] = cluster[o]
  BY <1>10 DEF Grant, Stop, LoopEnds, Connected, Degraded, environment, vars
<1> QED
  BY <1>3, <1>4, <1>5, <1>6, <1>7, <1>8, <1>9, <1>10 DEF Next

LEMMA OrderInit == Init => OrderInv
<1> SUFFICES ASSUME Init, NEW o \in Objects PROVE InOrder(o)
  BY DEF OrderInv
<1>1. KindOf[o] \in Kinds
  BY SyncAssumption
<1>2. /\ pending[KindOf[o]] = <<>> /\ changes = <<>> /\ hand = NoChange
      /\ resources[o] = 0 /\ seen[o] = 0
  BY <1>1 DEF Init
<1> QED BY <1>2 DEF InOrder, Ascends, Older, Within, Arrived, Received

-----------------------------------------------------------------------------
(* The variables keep their types, and the channel its capacity.            *)
THEOREM SyncTypeCorrect == Spec => []TypeOK
<1>1. SyncInv => TypeOK
  BY DEF SyncInv
<1> QED BY <1>1, SyncInvInit, SyncInvNext, PTL DEF Spec

(* The store holds an object exactly as its informer does whenever none of  *)
(* its changes is on the way: no interleaving of the listeners, the channel *)
(* and the apply loop loses the latest change, or applies an older one      *)
(* after it.  But an object that a relist replaced by its namesake stays in *)
(* the store as it was last seen, though its informer has dropped it.       *)
THEOREM StoreFollowsInformers == Spec => []QuietIsCurrent
<1> QED BY QuietWhereNews, SyncInvInit, SyncInvNext, PTL DEF Spec

(* The store never goes back to an older version of an object, and an      *)
(* object enters it only while its informer has not seen its end, or the   *)
(* change that tells of its end is still on its way, in whatever order the *)
(* listeners, the channel and the loop take their turns.                   *)
THEOREM StoreMovesForward == Spec => OnlyForward
<1>1. ASSUME SyncInv, OrderInv, [Next]_vars, NEW o \in Objects
      PROVE  /\ resources'[o] # 0 => resources'[o] >= resources[o]
             /\ resources[o] = 0 /\ resources'[o] # 0 =>
                  seen[o] # Gone \/ \E c \in OnTheWay(o) : c.version = Gone
  <2>1. resources'[o] # 0 => resources'[o] >= resources[o]
    BY <1>1, OrderStep
  <2>2. Apply \/ UNCHANGED resources
    BY <1>1 DEF Next, vars, ClusterChange, Watch, Relist, Grant, List, Emit, Stop, Receive,
       LoopEnds, Connected, Degraded, environment
  <2> QED BY <1>1, <2>1, <2>2, EntersBeforeEnd
<1>2. SyncInv /\ OrderInv /\ [Next]_vars =>
        [\A o \in Objects :
           /\ resources'[o] # 0 => resources'[o] >= resources[o]
           /\ resources[o] = 0 /\ resources'[o] # 0 =>
                seen[o] # Gone \/ \E c \in OnTheWay(o) : c.version = Gone]_vars
  BY <1>1
<1> QED BY <1>2, SyncInvInit, SyncInvNext, OrderInit, OrderStep, PTL DEF Spec, OnlyForward

(* An object that has left the store never returns to it, however many of  *)
(* its changes were queued then.                                           *)
THEOREM WhatLeftStaysOut ==
  Spec => \A o \in Objects :
            [](resources[o] # 0 => [](resources[o] = 0 => [](resources[o] = 0)))
<1>1. Spec => [](SyncInv /\ OrderInv)
  BY SyncInvInit, SyncInvNext, OrderInit, OrderStep, PTL DEF Spec
<1>2. ASSUME NEW o \in Objects
      PROVE  Spec => [](resources[o] # 0 => [](resources[o] = 0 => [](resources[o] = 0)))
  <2>1. SyncInv /\ OrderInv /\ [Next]_vars /\ resources[o] # 0 =>
          (resources[o] # 0)' \/ Buried(o)'
    BY OrderStep
  <2>2. SyncInv /\ [Next]_vars /\ Buried(o) => Buried(o)'
    BY BuriedStays
  <2>3. Buried(o) => resources[o] = 0
    BY DEF Buried, Untraced
  <2>4. resources[o] # 0 <=> ~(resources[o] = 0)
    OBVIOUS
  <2> QED BY <1>1, <2>1, <2>2, <2>3, <2>4, PTL DEF Spec
<1> QED BY <1>2

(* A kind that is missing from a connected inventory is missing from the    *)
(* access report, whatever permissions change afterwards.                   *)
THEOREM MissingKindsAreTold == Spec => []UnfollowedIsTold
<1>1. Init => AccessInv
  BY SyncAssumption DEF Init, AccessInv, UnfollowedIsTold, Reviewed, Unavailable
<1>2. ASSUME AccessInv, [Next]_vars PROVE AccessInv'
  <2>1. ASSUME NEW k \in Kinds, List(k) PROVE AccessInv'
    <3>1. k \in Followed /\ listed' = listed \union {k} /\ UNCHANGED <<access, status>>
      BY <2>1 DEF List, permissions
    <3> QED BY <1>2, <3>1 DEF AccessInv, UnfollowedIsTold, Followed
  <2>2. ASSUME Connected PROVE AccessInv'
    <3>1. /\ Followed \subseteq listed /\ UNCHANGED <<access, listed>>
          /\ status = "syncing"
      BY <2>2 DEF Connected, environment, permissions
    <3>2. ASSUME NEW k \in Kinds \ listed
          PROVE  access.status = "partial" /\ ~(FollowVerbs \subseteq access.verbs[k])
      <4>1. k \notin Followed
        BY <3>1, <3>2
      <4>2. access.status # "unavailable" /\ ~(FollowVerbs \subseteq access.verbs[k])
        BY <3>1, <4>1 DEF Followed
      <4> QED BY <1>2, <4>2 DEF AccessInv, FollowVerbs, Verbs
    <3> QED BY <1>2, <3>1, <3>2 DEF AccessInv, UnfollowedIsTold
  <2>3. CASE UNCHANGED <<access, listed, status>>
    BY <1>2, <2>3 DEF AccessInv, UnfollowedIsTold
  <2>4. ASSUME Degraded PROVE AccessInv'
    BY <1>2, <2>4 DEF Degraded, environment, permissions, AccessInv,
       UnfollowedIsTold
  <2>5. ASSUME NEW o \in Objects,
               ClusterChange(o) \/ Watch(o) \/ \E p \in Namesakes(o) : Relist(o, p)
        PROVE  AccessInv'
    BY <2>3, <2>5 DEF ClusterChange, Watch, Relist, permissions
  <2>6. ASSUME NEW k \in Kinds, Grant(k) \/ Emit(k) PROVE AccessInv'
    BY <2>3, <2>6 DEF Grant, Emit, environment, permissions
  <2>7. ASSUME Stop \/ Receive \/ Apply \/ LoopEnds PROVE AccessInv'
    BY <2>3, <2>7 DEF Stop, Receive, Apply, LoopEnds, environment, permissions
  <2>8. ASSUME UNCHANGED vars PROVE AccessInv'
    BY <2>3, <2>8 DEF vars
  <2> QED BY <1>2, <2>1, <2>2, <2>4, <2>5, <2>6, <2>7, <2>8 DEF Next
<1>3. AccessInv => UnfollowedIsTold
  BY DEF AccessInv
<1> QED BY <1>1, <1>2, <1>3, PTL DEF Spec
=============================================================================
