-------------------------- MODULE Topology_proofs --------------------------
(***************************************************************************)
(* Proofs about the two topologies a diagnosis can look at: the graph that *)
(* TopologyGraph keeps, for any sets of keys and relations and edge lists  *)
(* of any length, and the view InventoryScan cuts from a scan, for any     *)
(* finite number of objects, any page size and any number of moves.        *)
(*                                                                         *)
(* The graph.  TypeOK /\ Mirrored /\ NoDanglingEdge is inductive as it     *)
(* stands, and neither of the last two is so alone: RemoveNode finds the   *)
(* copies it has to delete only because the two agreed before.             *)
(*                                                                         *)
(* The scan.  What it may have missed so far are the objects it has passed:*)
(* those at a place before its offset that it does not hold.  A page passes*)
(* no new one, and a move takes an object that did not move over the offset*)
(* only from one of as many places as objects moved.                       *)
(*                                                                         *)
(* Both walk level by level, and both reach exactly what paths of their    *)
(* depth reach: of a level they keep what is seen and what was seen last,  *)
(* and what an edge joins to the rest of a level has been seen before.     *)
(***************************************************************************)
EXTENDS TopologyGraph, InventoryScan, SequenceTheorems, FiniteSetTheorems,
        WellFoundedInduction, TLAPS

-----------------------------------------------------------------------------
(* The order of the natural numbers descends for finitely many steps only.*)
LEMMA LessThanIsWellFounded ==
  IsWellFoundedOn({ss \in Nat \X Nat : ss[1] < ss[2]}, Nat)
BY NatLessThanWellFounded DEF OpToRel

(* Every set of natural numbers that is not empty has a smallest member.   *)
LEMMA SmallestMember ==
  ASSUME NEW S \in SUBSET Nat, S # {}
  PROVE  \E x \in S : \A y \in S : x <= y
<1> DEFINE Less == {ss \in Nat \X Nat : ss[1] < ss[2]}
<1>1. PICK x \in S : \A y \in S : ~ (<<y, x>> \in Less)
  <2>1. IsWellFoundedOn(Less, Nat)
    BY LessThanIsWellFounded
  <2> HIDE DEF Less
  <2> QED BY <2>1, WFMin
<1>2. ASSUME NEW y \in S PROVE x <= y
  <2>1. x \in Nat /\ y \in Nat
    OBVIOUS
  <2>2. y < x => <<y, x>> \in Less
    BY <2>1
  <2>3. ~ (y < x)
    BY <1>1, <2>2
  <2> QED BY <2>1, <2>3
<1> QED BY <1>2

(* Every set of positions of a list that is not empty has a last one.      *)
LEMMA LastMember ==
  ASSUME NEW n \in Nat, NEW S \in SUBSET (1 .. n), S # {}
  PROVE  \E x \in S : \A y \in S : y <= x
<1> DEFINE Flipped == {m \in Nat : n - m \in S}
<1>1. PICK m \in Flipped : \A y \in Flipped : m <= y
  <2>1. PICK x \in S : TRUE
    OBVIOUS
  <2>2. n - x \in Nat /\ n - (n - x) = x
    OBVIOUS
  <2>3. Flipped # {} /\ Flipped \in SUBSET Nat
    BY <2>1, <2>2
  <2> HIDE DEF Flipped
  <2> QED BY <2>3, SmallestMember
<1>2. n - m \in S
  OBVIOUS
<1>3. ASSUME NEW y \in S PROVE y <= n - m
  <2>1. n - y \in Nat /\ n - (n - y) = y
    OBVIOUS
  <2>2. m <= n - y
    BY <2>1, <1>1
  <2> QED BY <2>2
<1> QED BY <1>2, <1>3

-----------------------------------------------------------------------------
(* Walks.  R is a relation on the members of S.                            *)

Around(R, S, from) == {b \in S : \E a \in from : <<a, b>> \in R}

Joins(R, S, a, b, n) ==
  \E p \in [0 .. n -> S] :
    /\ p[0] = a /\ p[n] = b
    /\ \A i \in 0 .. n - 1 : <<p[i], p[i + 1]>> \in R

Within(R, S, a, n) == {b \in S : \E m \in 0 .. n : Joins(R, S, a, b, m)}

(* A path of no edges stays where it is; a longer one is a shorter one and *)
(* a last edge.                                                            *)
LEMMA JoinsZero ==
  ASSUME NEW R, NEW S, NEW a \in S, NEW b \in S
  PROVE  Joins(R, S, a, b, 0) <=> b = a
<1>1. ASSUME b = a PROVE Joins(R, S, a, b, 0)
  <2> DEFINE p == [i \in 0 .. 0 |-> a]
  <2>1. p \in [0 .. 0 -> S] /\ p[0] = a
    OBVIOUS
  <2> HIDE DEF p
  <2> QED BY <1>1, <2>1 DEF Joins
<1>2. Joins(R, S, a, b, 0) => b = a
  BY DEF Joins
<1> QED BY <1>1, <1>2

LEMMA JoinsNext ==
  ASSUME NEW R, NEW S, NEW a \in S, NEW b \in S, NEW n \in Nat
  PROVE  Joins(R, S, a, b, n + 1) <=> \E k \in S : Joins(R, S, a, k, n) /\ <<k, b>> \in R
<1>1. ASSUME NEW p \in [0 .. n + 1 -> S], p[0] = a, p[n + 1] = b,
             \A i \in 0 .. n : <<p[i], p[i + 1]>> \in R
      PROVE  \E k \in S : Joins(R, S, a, k, n) /\ <<k, b>> \in R
  <2> DEFINE q == [i \in 0 .. n |-> p[i]]
  <2>1. q \in [0 .. n -> S] /\ q[0] = a /\ q[n] = p[n] /\ p[n] \in S
    BY <1>1
  <2>2. ASSUME NEW i \in 0 .. n - 1 PROVE <<q[i], q[i + 1]>> \in R
    <3>1. q[i] = p[i] /\ q[i + 1] = p[i + 1] /\ i \in 0 .. n
      OBVIOUS
    <3> QED BY <1>1, <3>1
  <2> HIDE DEF q
  <2>3. Joins(R, S, a, p[n], n)
    BY <2>1, <2>2 DEF Joins
  <2>4. <<p[n], b>> \in R
    BY <1>1
  <2> QED BY <2>1, <2>3, <2>4
<1>2. ASSUME NEW k \in S, NEW p \in [0 .. n -> S], p[0] = a, p[n] = k,
             \A i \in 0 .. n - 1 : <<p[i], p[i + 1]>> \in R, <<k, b>> \in R
      PROVE  Joins(R, S, a, b, n + 1)
  <2> DEFINE q == [i \in 0 .. n + 1 |-> IF i = n + 1 THEN b ELSE p[i]]
  <2>1. q \in [0 .. n + 1 -> S] /\ q[0] = a /\ q[n + 1] = b /\ q[n] = k
    BY <1>2
  <2>2. ASSUME NEW i \in 0 .. n PROVE <<q[i], q[i + 1]>> \in R
    <3>1. CASE i = n
      BY <1>2, <2>1, <3>1
    <3>2. CASE i # n
      <4>1. q[i] = p[i] /\ q[i + 1] = p[i + 1] /\ i \in 0 .. n - 1
        BY <3>2
      <4> QED BY <1>2, <4>1
    <3> QED BY <3>1, <3>2
  <2> HIDE DEF q
  <2> QED BY <2>1, <2>2 DEF Joins
<1>3. ASSUME Joins(R, S, a, b, n + 1)
      PROVE  \E k \in S : Joins(R, S, a, k, n) /\ <<k, b>> \in R
  <2>1. PICK p \in [0 .. n + 1 -> S] :
          /\ p[0] = a /\ p[n + 1] = b
          /\ \A i \in 0 .. (n + 1) - 1 : <<p[i], p[i + 1]>> \in R
    BY <1>3 DEF Joins
  <2>2. (n + 1) - 1 = n
    OBVIOUS
  <2> QED BY <1>1, <2>1, <2>2
<1>4. ASSUME NEW k \in S, Joins(R, S, a, k, n), <<k, b>> \in R
      PROVE  Joins(R, S, a, b, n + 1)
  <2>1. PICK p \in [0 .. n -> S] :
          p[0] = a /\ p[n] = k /\ \A i \in 0 .. n - 1 : <<p[i], p[i + 1]>> \in R
    BY <1>4 DEF Joins
  <2> QED BY <1>2, <1>4, <2>1
<1> QED BY <1>3, <1>4

(* What is seen within l edges, and the frontier: what was seen last.      *)
Reached(R, S, start, seen, frontier, l) ==
  /\ seen = Within(R, S, start, l)
  /\ \A k \in frontier : k \in S /\ Joins(R, S, start, k, l)
  /\ \A k \in S : Joins(R, S, start, k, l) =>
       k \in frontier \/ \E n \in 0 .. l - 1 : Joins(R, S, start, k, n)

LEMMA NextIsReached ==
  ASSUME NEW R, NEW S, NEW start \in S, NEW seen, NEW frontier, NEW l \in Nat,
         Reached(R, S, start, seen, frontier, l),
         NEW new, new = Around(R, S, frontier) \ seen
  PROVE  Reached(R, S, start, seen \union new, new, l + 1)
<1>1. ASSUME NEW k \in new
      PROVE  k \in S /\ Joins(R, S, start, k, l + 1)
  <2>1. PICK j \in frontier : k \in S /\ <<j, k>> \in R
    BY DEF Around
  <2>2. j \in S /\ Joins(R, S, start, j, l)
    BY <2>1 DEF Reached
  <2> QED BY <2>1, <2>2, JoinsNext
<1>2. ASSUME NEW k \in S, Joins(R, S, start, k, l + 1)
      PROVE  k \in new \/ \E n \in 0 .. l : Joins(R, S, start, k, n)
  <2>1. PICK j \in S : Joins(R, S, start, j, l) /\ <<j, k>> \in R
    BY <1>2, JoinsNext
  <2>2. CASE j \in frontier
    <3>1. k \in Around(R, S, frontier)
      BY <2>1, <2>2 DEF Around
    <3> QED BY <3>1 DEF Reached, Within
  <2>3. CASE j \notin frontier
    <3>1. PICK n \in 0 .. l - 1 : Joins(R, S, start, j, n)
      BY <2>1, <2>3 DEF Reached
    <3>2. n \in Nat /\ n + 1 \in 0 .. l
      BY <3>1
    <3>3. Joins(R, S, start, k, n + 1)
      BY <2>1, <3>1, <3>2, JoinsNext
    <3> QED BY <3>2, <3>3
  <2> QED BY <2>2, <2>3
<1>3. \A n : n \in 0 .. l + 1 <=> (n \in 0 .. l \/ n = l + 1)
  OBVIOUS
<1>4. seen \union new = Within(R, S, start, l + 1)
  <2>1. seen = Within(R, S, start, l)
    BY DEF Reached
  <2>2. ASSUME NEW k \in seen \union new PROVE k \in Within(R, S, start, l + 1)
    BY <1>1, <1>3, <2>1, <2>2 DEF Within
  <2>3. ASSUME NEW k \in Within(R, S, start, l + 1) PROVE k \in seen \union new
    BY <1>2, <1>3, <2>1, <2>3 DEF Within
  <2> QED BY <2>2, <2>3
<1>5. (l + 1) - 1 = l
  OBVIOUS
<1> QED BY <1>1, <1>2, <1>4, <1>5 DEF Reached

(* The levels of a walk.                                                   *)
AreLevels(R, S, start, seen, frontier, m) ==
  /\ seen[0] = {start} /\ frontier[0] = {start}
  /\ \A l \in 0 .. m - 1 :
       frontier[l] \subseteq S =>
         /\ frontier[l + 1] = Around(R, S, frontier[l]) \ seen[l]
         /\ seen[l + 1] = seen[l] \union frontier[l + 1]

(* A walk of m levels sees what at most m edges reach: no first level sees *)
(* anything else.                                                          *)
LEMMA LevelsReach ==
  ASSUME NEW R, NEW S, NEW start \in S, NEW seen, NEW frontier, NEW m \in Nat,
         AreLevels(R, S, start, seen, frontier, m)
  PROVE  seen[m] = Within(R, S, start, m)
<1> DEFINE Bad == {l \in 0 .. m : ~ Reached(R, S, start, seen[l], frontier[l], l)}
<1>1. ASSUME Bad # {} PROVE FALSE
  <2>1. PICK l \in Bad : \A k \in Bad : l <= k
    <3>1. Bad \in SUBSET Nat
      OBVIOUS
    <3> HIDE DEF Bad
    <3> QED BY <1>1, <3>1, SmallestMember
  <2>2. CASE l = 0
    <3>1. seen[0] = {start} /\ frontier[0] = {start}
      BY DEF AreLevels
    <3>2. Within(R, S, start, 0) = {start}
      <4>1. \A n : n \in 0 .. 0 <=> n = 0
        OBVIOUS
      <4> QED BY <4>1, JoinsZero DEF Within
    <3>3. Reached(R, S, start, seen[0], frontier[0], 0)
      BY <3>1, <3>2, JoinsZero DEF Reached
    <3> QED BY <2>1, <2>2, <3>3
  <2>3. CASE l # 0
    <3>1. /\ l - 1 \in 0 .. m - 1 /\ l - 1 \in 0 .. m /\ l - 1 \in Nat /\ (l - 1) + 1 = l
          /\ l - 1 \notin Bad
      BY <2>1, <2>3
    <3>2. Reached(R, S, start, seen[l - 1], frontier[l - 1], l - 1)
      BY <3>1
    <3>3. /\ frontier[l] = Around(R, S, frontier[l - 1]) \ seen[l - 1]
          /\ seen[l] = seen[l - 1] \union frontier[l]
      <4>1. frontier[l - 1] \subseteq S
        BY <3>2 DEF Reached
      <4> QED BY <3>1, <4>1 DEF AreLevels
    <3>4. Reached(R, S, start, seen[l - 1] \union frontier[l], frontier[l], (l - 1) + 1)
      BY <3>1, <3>2, <3>3, NextIsReached
    <3>5. Reached(R, S, start, seen[l], frontier[l], l)
      BY <3>1, <3>3, <3>4
    <3> QED BY <2>1, <3>5
  <2> QED BY <2>2, <2>3
<1>2. m \in 0 .. m
  OBVIOUS
<1>3. Reached(R, S, start, seen[m], frontier[m], m)
  BY <1>1, <1>2
<1> QED BY <1>3 DEF Reached

(* The recursive functions of the two walks: a step that stays in a set can*)
(* be repeated any number of times.                                        *)
Repeats(X, first, step, levels, n) ==
  /\ levels \in [0 .. n -> X]
  /\ \A l \in 0 .. n : levels[l] = IF l = 0 THEN first ELSE step[levels[l - 1]]

LEMMA RepeatsExist ==
  ASSUME NEW X, NEW first \in X, NEW step \in [X -> X], NEW n \in Nat
  PROVE  \E levels : Repeats(X, first, step, levels, n)
<1> DEFINE Bad == {m \in Nat : ~ \E levels : Repeats(X, first, step, levels, m)}
<1>1. ASSUME Bad # {} PROVE FALSE
  <2>1. PICK m \in Bad : \A k \in Bad : m <= k
    <3> HIDE DEF Bad
    <3>1. Bad \in SUBSET Nat
      BY DEF Bad
    <3> QED BY <1>1, <3>1, SmallestMember
  <2>2. CASE m = 0
    <3>1. Repeats(X, first, step, [l \in 0 .. 0 |-> first], 0)
      BY DEF Repeats
    <3> QED BY <2>1, <2>2, <3>1
  <2>3. CASE m # 0
    <3>1. m - 1 \in Nat /\ m - 1 \notin Bad
      BY <2>1, <2>3
    <3>2. PICK g : Repeats(X, first, step, g, m - 1)
      BY <3>1
    <3> DEFINE f == [l \in 0 .. m |-> IF l = m THEN step[g[m - 1]] ELSE g[l]]
    <3>3. f \in [0 .. m -> X]
      BY <2>3, <3>1, <3>2 DEF Repeats
    <3>4. ASSUME NEW l \in 0 .. m
          PROVE  f[l] = IF l = 0 THEN first ELSE step[f[l - 1]]
      <4>1. CASE l = m
        BY <2>3, <4>1
      <4>2. CASE l # m
        <5>1. l \in 0 .. m - 1 /\ (l # 0 => l - 1 \in 0 .. m - 1) /\ f[l] = g[l]
              /\ (l # 0 => f[l - 1] = g[l - 1])
          BY <4>2
        <5> HIDE DEF f
        <5> QED BY <3>2, <5>1 DEF Repeats
      <4> QED BY <4>1, <4>2
    <3> HIDE DEF f
    <3>5. Repeats(X, first, step, f, m)
      BY <3>3, <3>4 DEF Repeats
    <3> QED BY <2>1, <3>5
  <2> QED BY <2>2, <2>3
<1> QED BY <1>1

-----------------------------------------------------------------------------
(* The graph.                                                              *)

GraphInv == TypeOK /\ Mirrored /\ NoDanglingEdge

(* The relation a list of edges leaves for one of its targets is a relation*)
(* and the target is a key.                                                *)
LEMMA LastRelationType ==
  ASSUME NEW edges \in EdgeLists, NEW to \in Targets(edges)
  PROVE  LastRelation(edges, to) \in Relations /\ to \in Keys
<1>1. PICK n \in 0 .. MaxEdges : edges \in [1 .. n -> Edge]
  BY DEF EdgeLists
<1>2. n \in Nat /\ DOMAIN edges = 1 .. n
  BY <1>1, GraphAssumption
<1> DEFINE Places == {i \in DOMAIN edges : edges[i].to = to}
           last == CHOOSE i \in DOMAIN edges :
                     /\ edges[i].to = to
                     /\ \A j \in DOMAIN edges : edges[j].to = to => j <= i
<1>3. \E i \in Places : \A j \in Places : j <= i
  <2>1. Places \in SUBSET (1 .. n) /\ Places # {}
    BY <1>2 DEF Targets
  <2> HIDE DEF Places
  <2> QED BY <2>1, <1>2, LastMember
<1>4. last \in DOMAIN edges /\ edges[last].to = to
  BY <1>3
<1>5. edges[last] \in Edge
  BY <1>1, <1>4
<1>6. edges[last].relation \in Relations /\ edges[last].to \in Keys
  BY <1>5 DEF Edge
<1>7. LastRelation(edges, to) = edges[last].relation
  BY DEF LastRelation
<1> QED BY <1>4, <1>6, <1>7

-----------------------------------------------------------------------------
(* The empty graph.                                                        *)
LEMMA GraphInvInit == Init => GraphInv
BY GraphAssumption DEF Init, GraphInv, TypeOK, Mirrored, NoDanglingEdge

(* A removal takes both copies of every edge of the node.                  *)
LEMMA RemoveKeepsGraphInv ==
  ASSUME NEW key \in Keys, GraphInv, RemoveNode(key)
  PROVE  GraphInv'
<1>1. TypeOK'
  <2>1. nodes' \subseteq Keys
    BY DEF GraphInv, TypeOK, RemoveNode
  <2>2. outgoing' \in [Keys -> [Keys -> Relations \union {None}]]
    BY DEF GraphInv, TypeOK, RemoveNode
  <2>3. incoming' \in [Keys -> [Keys -> Relations \union {None}]]
    BY DEF GraphInv, TypeOK, RemoveNode
  <2> QED BY <2>1, <2>2, <2>3 DEF TypeOK
<1>2. ASSUME NEW a \in Keys, NEW b \in Keys
      PROVE  outgoing'[a][b] = incoming'[b][a]
  <2>1. outgoing[a][b] = incoming[b][a]
    BY DEF GraphInv, Mirrored
  <2>2. outgoing'[a][b] = IF a = key \/ (b = key /\ incoming[key][a] # None)
                          THEN None ELSE outgoing[a][b]
    BY DEF RemoveNode
  <2>3. incoming'[b][a] = IF b = key \/ (a = key /\ outgoing[key][b] # None)
                          THEN None ELSE incoming[b][a]
    BY DEF RemoveNode
  <2> QED BY <2>1, <2>2, <2>3
<1>3. ASSUME NEW a \in Keys, NEW b \in Keys, outgoing'[a][b] # None
      PROVE  a \in nodes' /\ b \in nodes'
  <2>1. outgoing[a][b] = incoming[b][a]
    BY DEF GraphInv, Mirrored
  <2>2. outgoing'[a][b] = IF a = key \/ (b = key /\ incoming[key][a] # None)
                          THEN None ELSE outgoing[a][b]
    BY DEF RemoveNode
  <2>3. a # key /\ b # key /\ outgoing[a][b] # None
    BY <1>3, <2>1, <2>2
  <2> QED BY <2>3 DEF GraphInv, NoDanglingEdge, RemoveNode
<1> QED BY <1>1, <1>2, <1>3 DEF GraphInv, Mirrored, NoDanglingEdge

(* A replacement writes the same relation on both sides of each new edge   *)
(* and clears both sides of each old one.                                  *)
LEMMA ReplaceKeepsGraphInv ==
  ASSUME NEW from \in Keys, NEW edges \in EdgeLists, GraphInv,
         ReplaceEdges(from, edges)
  PROVE  GraphInv'
<1> DEFINE New(to) == LastRelation(edges, to)
           T == Targets(edges)
<1>1. \A to \in T : New(to) \in Relations /\ to \in Keys
  BY LastRelationType
<1>2. /\ outgoing' = [outgoing EXCEPT ![from] =
                        [to \in Keys |-> IF to \in T THEN New(to) ELSE None]]
      /\ incoming' = [to \in Keys |-> [incoming[to] EXCEPT ![from] =
                        IF to \in T THEN New(to)
                        ELSE IF outgoing[from][to] # None THEN None ELSE @]]
      /\ nodes' = nodes \union T
      /\ from \in nodes
  BY DEF ReplaceEdges
<1> HIDE DEF New, T
<1>3. TypeOK'
  <2>1. nodes' \subseteq Keys
    BY <1>1, <1>2 DEF GraphInv, TypeOK
  <2>2. outgoing' \in [Keys -> [Keys -> Relations \union {None}]]
    BY <1>1, <1>2 DEF GraphInv, TypeOK
  <2>3. incoming' \in [Keys -> [Keys -> Relations \union {None}]]
    BY <1>1, <1>2 DEF GraphInv, TypeOK
  <2> QED BY <2>1, <2>2, <2>3 DEF TypeOK
<1>4. ASSUME NEW a \in Keys, NEW b \in Keys
      PROVE  outgoing'[a][b] = IF a # from THEN outgoing[a][b]
                               ELSE IF b \in T THEN New(b) ELSE None
  BY <1>2 DEF GraphInv, TypeOK
<1>5. ASSUME NEW a \in Keys, NEW b \in Keys
      PROVE  outgoing'[a][b] = incoming'[b][a]
  <2>1. outgoing[a][b] = incoming[b][a] /\ outgoing[from][b] = incoming[b][from]
    BY DEF GraphInv, Mirrored
  <2>2. incoming'[b] = [incoming[b] EXCEPT ![from] =
                          IF b \in T THEN New(b)
                          ELSE IF outgoing[from][b] # None THEN None ELSE @]
    BY <1>2
  <2>3. incoming[b] \in [Keys -> Relations \union {None}]
    BY DEF GraphInv, TypeOK
  <2>4. a # from => incoming'[b][a] = incoming[b][a]
    BY <2>2, <2>3
  <2>5. a = from => incoming'[b][a] = IF b \in T THEN New(b) ELSE None
    BY <2>1, <2>2, <2>3
  <2> QED BY <1>4, <2>1, <2>4, <2>5
<1>6. ASSUME NEW a \in Keys, NEW b \in Keys, outgoing'[a][b] # None
      PROVE  a \in nodes' /\ b \in nodes'
  <2>1. CASE a = from
    <3>1. b \in T
      BY <1>4, <1>6, <2>1
    <3> QED BY <1>2, <2>1, <3>1
  <2>2. CASE a # from
    <3>1. outgoing[a][b] # None
      BY <1>4, <1>6, <2>2
    <3> QED BY <1>2, <3>1 DEF GraphInv, NoDanglingEdge
  <2> QED BY <2>1, <2>2
<1> QED BY <1>3, <1>5, <1>6 DEF GraphInv, Mirrored, NoDanglingEdge

(* Every operation keeps the invariant.                                    *)
LEMMA GraphInvNext == GraphInv /\ [Next]_vars => GraphInv'
<1> SUFFICES ASSUME GraphInv, [Next]_vars PROVE GraphInv'
  OBVIOUS
<1>1. ASSUME NEW key \in Keys, UpsertNode(key) PROVE GraphInv'
  BY <1>1 DEF UpsertNode, GraphInv, TypeOK, Mirrored, NoDanglingEdge
<1>2. CASE UNCHANGED vars
  BY <1>2 DEF vars, GraphInv, TypeOK, Mirrored, NoDanglingEdge
<1> QED
  BY <1>1, <1>2, RemoveKeepsGraphInv, ReplaceKeepsGraphInv DEF Next

(* The graph is well formed in every state, for any number of resources.   *)
LEMMA GraphInvHolds == Spec => []GraphInv
BY GraphInvInit, GraphInvNext, PTL DEF Spec

(* The maps hold keys and relations only.                                  *)
THEOREM TypeCorrect == Spec => []TypeOK
<1>1. GraphInv => TypeOK
  BY DEF GraphInv
<1> QED BY <1>1, GraphInvHolds, PTL

(* What a node lists downstream, the other end lists upstream.             *)
THEOREM CopiesAgree == Spec => []Mirrored
<1>1. GraphInv => Mirrored
  BY DEF GraphInv
<1> QED BY <1>1, GraphInvHolds, PTL

(* A deleted resource leaves no edge behind.                               *)
THEOREM EdgesHaveEnds == Spec => []NoDanglingEdge
<1>1. GraphInv => NoDanglingEdge
  BY DEF GraphInv
<1> QED BY <1>1, GraphInvHolds, PTL

(* Every edge of a neighbourhood joins two of its nodes, at any depth.     *)
THEOREM NeighborhoodIsGraph == Spec => []SnapshotIsClosed
<1>1. GraphInv => SnapshotIsClosed
  <2> SUFFICES ASSUME GraphInv,
                      NEW refs \in SUBSET Keys, NEW depth \in 0 .. 3,
                      NEW e \in Neighborhood(refs, depth).edges
               PROVE  /\ e[1] \in Neighborhood(refs, depth).nodes
                      /\ e[2] \in Neighborhood(refs, depth).nodes
    BY DEF SnapshotIsClosed
  <2> DEFINE visited == Walk(refs, depth)
  <2>1. /\ Neighborhood(refs, depth).nodes = visited \intersect nodes
        /\ Neighborhood(refs, depth).edges =
             {x \in Keys \X Keys : /\ {x[1], x[2]} \subseteq visited
                                   /\ outgoing[x[1]][x[2]] # None}
    BY DEF Neighborhood
  <2> HIDE DEF visited
  <2>2. e[1] \in visited /\ e[2] \in visited /\ outgoing[e[1]][e[2]] # None
    BY <2>1
  <2>3. e[1] \in Keys /\ e[2] \in Keys
    BY <2>1
  <2> QED BY <2>1, <2>2, <2>3 DEF GraphInv, NoDanglingEdge
<1> QED BY <1>1, GraphInvHolds, PTL

-----------------------------------------------------------------------------
(* The walk of Neighborhood.                                               *)

Walked == [visited : SUBSET Keys, frontier : SUBSET Keys]
NextOf(level) ==
  LET fresh == level.frontier \ level.visited
  IN  [visited |-> level.visited \union fresh,
       frontier |-> UNION {Neighbors(k) : k \in fresh}]
AreWalked(levels, refs, n) ==
  levels = [l \in 0 .. n |-> IF l = 0 THEN [visited |-> {}, frontier |-> refs]
                             ELSE NextOf(levels[l - 1])]

LEMMA NextIsWalked ==
  ASSUME NEW level \in Walked
  PROVE  NextOf(level) \in Walked
<1>1. \A k \in Keys : Neighbors(k) \in SUBSET Keys
  BY DEF Neighbors
<1> QED BY <1>1 DEF NextOf, Walked

LEMMA WalkIsLastLevel ==
  ASSUME NEW refs \in SUBSET Keys, NEW depth \in Nat
  PROVE  \E levels : /\ AreWalked(levels, refs, depth + 1)
                     /\ Walk(refs, depth) = levels[depth + 1].visited
<1> DEFINE chosen == CHOOSE levels : AreWalked(levels, refs, depth + 1)
           step == [level \in Walked |-> NextOf(level)]
           first == [visited |-> {}, frontier |-> refs]
           n == depth + 1
<1>1. step \in [Walked -> Walked] /\ first \in Walked /\ n \in Nat
  BY NextIsWalked DEF Walked
<1> HIDE DEF step, first, n
<1>2. PICK levels : Repeats(Walked, first, step, levels, n)
  BY <1>1, RepeatsExist
<1>3. ASSUME NEW l \in 0 .. n
      PROVE  levels[l] = IF l = 0 THEN first ELSE NextOf(levels[l - 1])
  <2>1. CASE l = 0
    BY <1>2, <2>1 DEF Repeats
  <2>2. CASE l # 0
    <3>1. l - 1 \in 0 .. n
      BY <1>1, <2>2
    <3>2. levels[l - 1] \in Walked /\ levels[l] = step[levels[l - 1]]
      BY <1>2, <2>2, <3>1 DEF Repeats
    <3> QED BY <2>2, <3>2 DEF step
  <2> QED BY <2>1, <2>2
<1>4. AreWalked(levels, refs, n)
  <2>1. levels = [l \in 0 .. n |-> levels[l]]
    BY <1>2 DEF Repeats
  <2> QED BY <1>3, <2>1 DEF AreWalked, first
<1>5. AreWalked(chosen, refs, n)
  BY <1>4 DEF n
<1>6. Walk(refs, depth) = chosen[n].visited
  BY DEF Walk, AreWalked, NextOf, n
<1> QED BY <1>5, <1>6 DEF n

Links == {e \in Keys \X Keys : Linked(e[1], e[2])}

LEMMA PathJoins ==
  ASSUME NEW a, NEW b, NEW n \in Nat
  PROVE  Path(a, b, n) <=> Joins(Links, Keys, a, b, n)
<1>1. ASSUME NEW p \in [0 .. n -> Keys], NEW i \in 0 .. n - 1
      PROVE  Linked(p[i], p[i + 1]) <=> <<p[i], p[i + 1]>> \in Links
  <2>1. i \in 0 .. n /\ i + 1 \in 0 .. n
    OBVIOUS
  <2> QED BY <2>1 DEF Links
<1> QED BY <1>1 DEF Path, Joins

LEMMA AroundIsNeighbors ==
  ASSUME GraphInv, NEW from \in SUBSET Keys
  PROVE  UNION {Neighbors(k) : k \in from} = Around(Links, Keys, from)
<1>1. ASSUME NEW j \in from, NEW k
      PROVE  k \in Neighbors(j) <=> k \in Keys /\ <<j, k>> \in Links
  BY DEF GraphInv, Mirrored, Neighbors, Linked, Links
<1> QED BY <1>1 DEF Around

(* The walk reaches exactly the keys at most depth edges away, for every   *)
(* depth.                                                                  *)
LEMMA WalkReaches ==
  ASSUME GraphInv, NEW start \in Keys, NEW depth \in Nat
  PROVE  Walk({start}, depth) = Within(Links, Keys, start, depth)
<1>1. PICK levels : /\ AreWalked(levels, {start}, depth + 1)
                    /\ Walk({start}, depth) = levels[depth + 1].visited
  BY WalkIsLastLevel
<1> DEFINE seen == [l \in 0 .. depth |-> levels[l + 1].visited]
           frontier == [l \in 0 .. depth |-> levels[l].frontier \ levels[l].visited]
<1>2. /\ levels[0] = [visited |-> {}, frontier |-> {start}]
      /\ \A l \in 0 .. depth : levels[l + 1] = NextOf(levels[l])
  <2>1. \A l \in 0 .. depth : l + 1 \in 0 .. depth + 1 /\ l + 1 # 0 /\ (l + 1) - 1 = l
    OBVIOUS
  <2>2. 0 \in 0 .. depth + 1
    OBVIOUS
  <2> QED BY <1>1, <2>1, <2>2 DEF AreWalked
<1>3. \A l \in 0 .. depth :
        /\ levels[l + 1].visited = levels[l].visited \union frontier[l]
        /\ levels[l + 1].frontier = UNION {Neighbors(k) : k \in frontier[l]}
  <2> SUFFICES ASSUME NEW l \in 0 .. depth
               PROVE  /\ levels[l + 1].visited = levels[l].visited \union frontier[l]
                      /\ levels[l + 1].frontier = UNION {Neighbors(k) : k \in frontier[l]}
    OBVIOUS
  <2>1. frontier[l] = levels[l].frontier \ levels[l].visited
    OBVIOUS
  <2> HIDE DEF frontier
  <2>2. levels[l + 1] =
          [visited |-> levels[l].visited \union frontier[l],
           frontier |-> UNION {Neighbors(k) : k \in frontier[l]}]
    BY <1>2, <2>1 DEF NextOf
  <2> QED BY <2>2
<1>4. seen[0] = {start} /\ frontier[0] = {start}
  BY <1>2, <1>3
<1>5. ASSUME NEW l \in 0 .. depth - 1, frontier[l] \subseteq Keys
      PROVE  /\ frontier[l + 1] = Around(Links, Keys, frontier[l]) \ seen[l]
             /\ seen[l + 1] = seen[l] \union frontier[l + 1]
  <2>1. l \in 0 .. depth /\ l + 1 \in 0 .. depth
    OBVIOUS
  <2>2. seen[l] = levels[l + 1].visited /\ seen[l + 1] = levels[(l + 1) + 1].visited
    BY <2>1
  <2>3. frontier[l + 1] = levels[l + 1].frontier \ levels[l + 1].visited
    BY <2>1
  <2> HIDE DEF seen, frontier
  <2>4. levels[l + 1].frontier = Around(Links, Keys, frontier[l])
    BY <1>3, <1>5, <2>1, AroundIsNeighbors
  <2> QED BY <1>3, <2>1, <2>2, <2>3, <2>4
<1>6. Walk({start}, depth) = seen[depth]
  BY <1>1
<1> HIDE DEF seen, frontier
<1>7. AreLevels(Links, Keys, start, seen, frontier, depth)
  BY <1>4, <1>5 DEF AreLevels
<1> QED BY <1>6, <1>7, LevelsReach

(* A neighbourhood holds the known resources that paths of its depth join  *)
(* to its start, and no others, in every state of the graph.               *)
THEOREM NeighborhoodIsReach == Spec => []WalkReachesDepth
<1>1. GraphInv => WalkReachesDepth
  <2> SUFFICES ASSUME GraphInv, NEW start \in Keys, NEW depth \in 0 .. 3
               PROVE  Neighborhood({start}, depth).nodes =
                        {k \in nodes : \E n \in 0 .. depth : Path(start, k, n)}
    BY DEF WalkReachesDepth
  <2>1. depth \in Nat
    OBVIOUS
  <2>2. Walk({start}, depth) = {k \in Keys : \E n \in 0 .. depth : Path(start, k, n)}
    <3>1. \A k, n : n \in 0 .. depth => (Path(start, k, n) <=> Joins(Links, Keys, start, k, n))
      BY PathJoins
    <3> QED BY <2>1, <3>1, WalkReaches DEF Within
  <2>3. Neighborhood({start}, depth).nodes = Walk({start}, depth) \intersect nodes
    BY DEF Neighborhood
  <2> QED BY <2>2, <2>3 DEF GraphInv, TypeOK
<1> QED BY <1>1, GraphInvHolds, PTL

-----------------------------------------------------------------------------
(* The order of a page.  Ranks are severities as numbers, and among says   *)
(* among which objects a place is counted.                                 *)

Precedes(ranks, a, b) == \/ ranks[a] < ranks[b]
                         \/ ranks[a] = ranks[b] /\ a < b
Ahead(ranks, among, o) == {p \in among : Precedes(ranks, p, o)}
PlaceOf(ranks, among, o) == Cardinality(Ahead(ranks, among, o))

Ranked(ranks, among) ==
  /\ IsFiniteSet(among) /\ among \subseteq Nat
  /\ \A o \in among : ranks[o] \in Nat

LEMMA PrecedesIsOrder ==
  ASSUME NEW ranks, NEW among, Ranked(ranks, among),
         NEW a \in among, NEW b \in among, NEW c \in among
  PROVE  /\ ~Precedes(ranks, a, a)
         /\ Precedes(ranks, a, b) /\ Precedes(ranks, b, c) => Precedes(ranks, a, c)
         /\ a # b => Precedes(ranks, a, b) \/ Precedes(ranks, b, a)
<1>1. /\ a \in Nat /\ b \in Nat /\ c \in Nat
      /\ ranks[a] \in Nat /\ ranks[b] \in Nat /\ ranks[c] \in Nat
  BY DEF Ranked
<1> QED BY <1>1 DEF Precedes

LEMMA PlaceIsNumber ==
  ASSUME NEW ranks, NEW among, Ranked(ranks, among), NEW o \in among
  PROVE  /\ IsFiniteSet(Ahead(ranks, among, o))
         /\ PlaceOf(ranks, among, o) \in 0 .. Cardinality(among) - 1
<1>1. IsFiniteSet(among) /\ Cardinality(among) \in Nat
  BY FS_CardinalityType DEF Ranked
<1>2. Ahead(ranks, among, o) \in SUBSET (among \ {o})
  BY PrecedesIsOrder DEF Ahead
<1>3. IsFiniteSet(among \ {o}) /\ Cardinality(among \ {o}) = Cardinality(among) - 1
  BY <1>1, FS_RemoveElement
<1>4. /\ IsFiniteSet(Ahead(ranks, among, o))
      /\ Cardinality(Ahead(ranks, among, o)) <= Cardinality(among \ {o})
  BY <1>2, <1>3, FS_Subset
<1>5. Cardinality(Ahead(ranks, among, o)) \in Nat
  BY <1>4, FS_CardinalityType
<1> QED BY <1>1, <1>3, <1>4, <1>5 DEF PlaceOf

(* What precedes another stands at a lower place.                          *)
LEMMA PlacesAscend ==
  ASSUME NEW ranks, NEW among, Ranked(ranks, among), NEW o \in among, NEW q \in among,
         Precedes(ranks, o, q)
  PROVE  PlaceOf(ranks, among, o) < PlaceOf(ranks, among, q)
<1> DEFINE before == Ahead(ranks, among, o)
           later == Ahead(ranks, among, q)
<1>1. IsFiniteSet(before) /\ IsFiniteSet(later)
  BY PlaceIsNumber
<1>2. o \notin before
  BY PrecedesIsOrder DEF Ahead
<1>3. before \union {o} \in SUBSET later
  BY PrecedesIsOrder DEF Ahead
<1> HIDE DEF before, later
<1>4. Cardinality(before \union {o}) = Cardinality(before) + 1
  BY <1>1, <1>2, FS_AddElement
<1>5. Cardinality(before \union {o}) <= Cardinality(later)
  BY <1>1, <1>3, FS_Subset
<1>6. Cardinality(before) \in Nat /\ Cardinality(later) \in Nat
  BY <1>1, FS_CardinalityType
<1>7. Cardinality(before) < Cardinality(later)
  BY <1>4, <1>5, <1>6
<1> QED BY <1>7 DEF PlaceOf, before, later

LEMMA PlacesDiffer ==
  ASSUME NEW ranks, NEW among, Ranked(ranks, among), NEW o \in among, NEW q \in among,
         PlaceOf(ranks, among, o) = PlaceOf(ranks, among, q)
  PROVE  o = q
<1>1. PlaceOf(ranks, among, o) \in Int /\ PlaceOf(ranks, among, q) \in Int
  BY PlaceIsNumber
<1>2. ~Precedes(ranks, o, q) /\ ~Precedes(ranks, q, o)
  BY <1>1, PlacesAscend
<1> QED BY <1>2, PrecedesIsOrder

(* Every place is taken.                                                   *)
LEMMA PlacesAreTaken ==
  ASSUME NEW ranks, NEW among, Ranked(ranks, among),
         NEW i \in 0 .. Cardinality(among) - 1
  PROVE  \E o \in among : PlaceOf(ranks, among, o) = i
<1> DEFINE n == Cardinality(among)
           f == [o \in among |-> PlaceOf(ranks, among, o)]
<1>1. IsFiniteSet(among) /\ n \in Nat
  BY FS_CardinalityType DEF Ranked
<1>2. IsFiniteSet(0 .. n - 1) /\ Cardinality(0 .. n - 1) = n
  <2>1. 0 \in Int /\ n - 1 \in Int
    BY <1>1
  <2>2. /\ IsFiniteSet(0 .. n - 1)
        /\ Cardinality(0 .. n - 1) = IF 0 > n - 1 THEN 0 ELSE n - 1 - 0 + 1
    BY <2>1, FS_Interval
  <2> HIDE DEF n
  <2> QED BY <1>1, <2>2
<1>3. f \in [among -> 0 .. n - 1]
  BY PlaceIsNumber
<1>4. \A a, b \in among : f[a] = f[b] => a = b
  BY PlacesDiffer
<1> HIDE DEF f, n
<1>5. f \in Injection(among, 0 .. n - 1)
  BY <1>3, <1>4 DEF Injection, IsInjective
<1>6. n = Cardinality(among)
  BY DEF n
<1>7. f \in Surjection(among, 0 .. n - 1)
  BY <1>2, <1>5, <1>6, FS_Injection
<1>8. \A j \in 0 .. n - 1 : \E o \in among : f[o] = j
  BY <1>7 DEF Surjection
<1>9. i \in 0 .. n - 1
  BY DEF n
<1> QED BY <1>8, <1>9 DEF f

(* The places among some of the objects are lower by at most the number of *)
(* the others.                                                             *)
LEMMA PlaceAmongSome ==
  ASSUME NEW ranks, NEW among, Ranked(ranks, among), NEW some \in SUBSET among,
         NEW others, IsFiniteSet(others), among \ some \subseteq others,
         NEW o \in some
  PROVE  /\ PlaceOf(ranks, some, o) \in Nat
         /\ PlaceOf(ranks, some, o) <= PlaceOf(ranks, among, o)
         /\ PlaceOf(ranks, among, o) <= PlaceOf(ranks, some, o) + Cardinality(others)
<1> DEFINE A == Ahead(ranks, among, o)
           S == Ahead(ranks, some, o)
<1>1. IsFiniteSet(A) /\ Cardinality(A) \in Nat
  BY PlaceIsNumber, FS_CardinalityType
<1>2. S \in SUBSET A /\ A \ S \in SUBSET others /\ A \in SUBSET (S \union others)
  BY DEF Ahead
<1> HIDE DEF A, S
<1>3. IsFiniteSet(S) /\ Cardinality(S) <= Cardinality(A) /\ Cardinality(S) \in Nat
  BY <1>1, <1>2, FS_Subset, FS_CardinalityType
<1>4. /\ IsFiniteSet(S \union others)
      /\ Cardinality(S \union others) =
           Cardinality(S) + Cardinality(others) - Cardinality(S \intersect others)
  BY <1>3, FS_Union
<1>5. Cardinality(A) <= Cardinality(S \union others)
  BY <1>2, <1>4, FS_Subset
<1>6. Cardinality(S \intersect others) \in Nat /\ Cardinality(others) \in Nat
  <2>1. S \intersect others \in SUBSET others
    OBVIOUS
  <2> QED BY <2>1, FS_Subset, FS_CardinalityType
<1>7. Cardinality(A) <= Cardinality(S) + Cardinality(others)
  BY <1>1, <1>3, <1>4, <1>5, <1>6
<1> QED BY <1>3, <1>7 DEF PlaceOf, A, S

(* At most k of them stand at k places in a row.                           *)
LEMMA FewAtPlaces ==
  ASSUME NEW ranks, NEW some, Ranked(ranks, some), NEW end \in Int, NEW k \in Nat
  PROVE  LET W == {o \in some : PlaceOf(ranks, some, o) \in end - k .. end - 1}
         IN  IsFiniteSet(W) /\ Cardinality(W) <= k
<1> DEFINE W == {o \in some : PlaceOf(ranks, some, o) \in end - k .. end - 1}
           f == [o \in W |-> PlaceOf(ranks, some, o)]
<1>1. f \in [W -> end - k .. end - 1] /\ \A a, b \in W : f[a] = f[b] => a = b
  BY PlacesDiffer
<1>2. IsFiniteSet(end - k .. end - 1) /\ Cardinality(end - k .. end - 1) = k
  <2>1. end - k \in Int /\ end - 1 \in Int
    OBVIOUS
  <2>2. /\ IsFiniteSet(end - k .. end - 1)
        /\ Cardinality(end - k .. end - 1) =
             IF end - k > end - 1 THEN 0 ELSE end - 1 - (end - k) + 1
    BY <2>1, FS_Interval
  <2> QED BY <2>2
<1> HIDE DEF W, f
<1>3. f \in Injection(W, end - k .. end - 1)
  BY <1>1 DEF Injection, IsInjective
<1>4. IsFiniteSet(W) /\ Cardinality(W) <= Cardinality(end - k .. end - 1)
  BY <1>2, <1>3, FS_Injection
<1>5. IsFiniteSet(W) /\ Cardinality(W) <= k
  BY <1>2, <1>4
<1> QED BY <1>5 DEF W

-----------------------------------------------------------------------------
(* The invariant.                                                          *)

Items == [object : Objects, related : SUBSET Objects]
Total == Cardinality(Matching)

ScanType ==
  /\ severity \in [Objects -> Severities \union {Absent}]
  /\ links.owner \union links.relation \union links.name \subseteq Pairs
  /\ offset \in Nat /\ moves \in Nat /\ done \in BOOLEAN
  /\ items \in Seq(Items)
  /\ steady \subseteq Present

(* The scan goes on as long as every page has brought something.           *)
ProgressInv ==
  /\ Len(items) <= offset
  /\ Len(items) < Cardinality(Objects) + PageSize
  /\ ~done => /\ offset <= PageSize * Len(items)
              /\ items = <<>> \/ Len(items) < Cardinality(Objects)
  /\ done => Total <= offset

(* What the scan has missed so far.                                        *)
Passed ==
  {o \in steady : /\ Matches(o) /\ o \notin Known
                  /\ PlaceOf(severity, Matching, o) < offset}

MissedInv == Cardinality(Passed) <= moves

(* A scan of a store at rest holds what is before its offset, in order.    *)
QuietInv ==
  moves = 0 =>
    /\ Len(items) <= Total
    /\ \A i \in 1 .. Len(items) : items[i] = ItemOf(Sorted[i])
    /\ IF done THEN Len(items) = Total ELSE Len(items) = offset

ScanInv == ScanType /\ ProgressInv /\ MissedInv /\ QuietInv

-----------------------------------------------------------------------------
(* A page.                                                                 *)

LEMMA RankedIs ==
  ASSUME NEW ranks \in [Objects -> Severities \union {Absent}],
         NEW some \in SUBSET {o \in Objects : ranks[o] # Absent}
  PROVE  Ranked(ranks, some)
<1>1. some \in SUBSET Objects /\ IsFiniteSet(Objects)
  BY ScanAssumption
<1>2. IsFiniteSet(some)
  BY <1>1, FS_Subset
<1>3. \A o \in some : ranks[o] \in Nat /\ o \in Nat
  BY <1>1, ScanAssumption
<1> QED BY <1>2, <1>3 DEF Ranked

LEMMA MatchingIsRanked ==
  ASSUME ScanType
  PROVE  /\ Ranked(severity, Matching) /\ Matching \subseteq Present /\ Present \subseteq Objects
         /\ Total \in Nat /\ Total <= Cardinality(Objects) /\ Cardinality(Objects) \in Nat
<1>1. Matching \in SUBSET Present /\ Present \in SUBSET Objects /\ Matching \in SUBSET Objects
  BY DEF Matching, Present
<1>2. IsFiniteSet(Objects) /\ Cardinality(Objects) \in Nat
  BY ScanAssumption, FS_CardinalityType
<1>3. IsFiniteSet(Matching) /\ Cardinality(Matching) <= Cardinality(Objects)
  BY <1>1, <1>2, FS_Subset
<1>4. Cardinality(Matching) \in Nat
  BY <1>3, FS_CardinalityType
<1>5. \A o \in Matching : severity[o] \in Nat
  BY <1>1, ScanAssumption DEF ScanType, Present
<1>6. Matching \subseteq Nat
  BY <1>1, ScanAssumption
<1> QED BY <1>1, <1>2, <1>3, <1>4, <1>5, <1>6 DEF Ranked, Total

(* The sorted list has each match at its place.                            *)
LEMMA SortedIs ==
  ASSUME ScanType
  PROVE  /\ \A i \in 1 .. Total : Sorted[i] \in Matching
         /\ \A o \in Matching :
              /\ PlaceOf(severity, Matching, o) + 1 \in 1 .. Total
              /\ Sorted[PlaceOf(severity, Matching, o) + 1] = o
<1>1. Ranked(severity, Matching) /\ Total \in Nat
  BY MatchingIsRanked
<1>2. \A o \in Matching :
        Cardinality({p \in Matching : Before(p, o)}) = PlaceOf(severity, Matching, o)
  BY DEF PlaceOf, Ahead, Before, Precedes
<1>3. ASSUME NEW i \in 1 .. Total
      PROVE  Sorted[i] =
               CHOOSE o \in Matching : Cardinality({p \in Matching : Before(p, o)}) = i - 1
  BY DEF Sorted, Total
<1>4. ASSUME NEW i \in 1 .. Total
      PROVE  Sorted[i] \in Matching /\ PlaceOf(severity, Matching, Sorted[i]) = i - 1
  <2>1. i - 1 \in 0 .. Cardinality(Matching) - 1
    BY <1>1 DEF Total
  <2>2. \E o \in Matching : PlaceOf(severity, Matching, o) = i - 1
    BY <1>1, <2>1, PlacesAreTaken
  <2>3. \E o \in Matching : Cardinality({p \in Matching : Before(p, o)}) = i - 1
    BY <1>2, <2>2
  <2>4. /\ Sorted[i] \in Matching
        /\ Cardinality({p \in Matching : Before(p, Sorted[i])}) = i - 1
    BY <1>3, <2>3
  <2> QED BY <1>2, <2>4
<1>5. ASSUME NEW o \in Matching
      PROVE  /\ PlaceOf(severity, Matching, o) + 1 \in 1 .. Total
             /\ Sorted[PlaceOf(severity, Matching, o) + 1] = o
  <2> DEFINE i == PlaceOf(severity, Matching, o) + 1
  <2>1. i \in 1 .. Total /\ i - 1 = PlaceOf(severity, Matching, o)
    BY <1>1, PlaceIsNumber DEF Total
  <2>2. Sorted[i] \in Matching /\ PlaceOf(severity, Matching, Sorted[i]) = i - 1
    BY <1>4, <2>1
  <2>3. Sorted[i] = o
    BY <1>1, <2>1, <2>2, PlacesDiffer
  <2> QED BY <2>1, <2>3
<1> QED BY <1>4, <1>5

StartOf(from) == IF from > Total THEN 0 ELSE from

LEMMA ListIs ==
  ASSUME ScanType, NEW from \in Nat, NEW limit \in Nat
  PROVE  LET page == List(from, limit)
         IN  /\ page \in Seq(Items)
             /\ Len(page) = IF StartOf(from) + limit > Total THEN Total - StartOf(from) ELSE limit
             /\ Len(page) \in Nat /\ StartOf(from) \in 0 .. Total
             /\ StartOf(from) + Len(page) \in 0 .. Total
             /\ \A i \in 1 .. Len(page) : page[i] = ItemOf(Sorted[StartOf(from) + i])
<1> DEFINE start == StartOf(from)
           end == IF start + limit > Total THEN Total ELSE start + limit
           n == end - start
<1>1. Total \in Nat
  BY MatchingIsRanked
<1>2. start \in 0 .. Total /\ end \in 0 .. Total /\ n \in Nat /\ start + n = end
  BY <1>1 DEF StartOf
<1>3. List(from, limit) = [i \in 1 .. n |-> ItemOf(Sorted[start + i])]
  BY DEF List, StartOf, Total
<1>4. ASSUME NEW i \in 1 .. n PROVE ItemOf(Sorted[start + i]) \in Items
  <2>1. start + i \in 1 .. Total
    <3> HIDE DEF start, end, n
    <3> QED BY <1>1, <1>2
  <2>2. Sorted[start + i] \in Objects /\ Present \subseteq Objects
    BY <2>1, SortedIs, MatchingIsRanked
  <2> QED BY <2>2 DEF ItemOf, Items
<1>5. n = IF start + limit > Total THEN Total - start ELSE limit
  BY <1>1, <1>2
<1> DEFINE page == List(from, limit)
<1> HIDE DEF start, end, n
<1>6. page \in Seq(Items) /\ Len(page) = n /\ \A i \in 1 .. n : page[i] = ItemOf(Sorted[start + i])
  BY <1>2, <1>3, <1>4
<1>7. start + Len(page) \in 0 .. Total
  BY <1>2, <1>6
<1> HIDE DEF page
<1>8. /\ page \in Seq(Items)
      /\ Len(page) = IF start + limit > Total THEN Total - start ELSE limit
      /\ Len(page) \in Nat /\ start \in 0 .. Total
      /\ start + Len(page) \in 0 .. Total
      /\ \A i \in 1 .. Len(page) : page[i] = ItemOf(Sorted[start + i])
  BY <1>2, <1>5, <1>6, <1>7
<1> QED BY <1>8 DEF start, page

(* PageSize objects more for every page that brings one.                   *)
LEMMA PagesGrow ==
  ASSUME NEW l \in Nat, NEW n \in Nat, n >= 1, NEW from \in Nat, from <= PageSize * l
  PROVE  from + PageSize <= PageSize * (l + n)
<1>1. PageSize \in Nat
  BY ScanAssumption
<1>2. PageSize * (l + n) = PageSize * l + PageSize * n
  BY <1>1
<1>3. PageSize * n >= PageSize
  <2>1. n = 1 + (n - 1) /\ n - 1 \in Nat
    OBVIOUS
  <2>2. PageSize * n = PageSize + PageSize * (n - 1)
    BY <1>1, <2>1
  <2>3. PageSize * (n - 1) \in Nat
    BY <1>1, <2>1
  <2> QED BY <1>1, <2>2, <2>3
<1>4. PageSize * l \in Nat /\ PageSize * n \in Nat
  BY <1>1
<1> HIDE DEF Total
<1> QED BY <1>1, <1>2, <1>3, <1>4

(* What a page takes from the store as it is.                              *)
LEMMA PageTakes ==
  ASSUME ScanInv, Page
  PROVE  LET page == List(offset, PageSize)
         IN  /\ ~done /\ offset' = offset + PageSize
             /\ items' = items \o page
             /\ done' <=> Len(items') >= Total \/ page = <<>>
             /\ UNCHANGED <<query, links, severity, moves, steady>>
             /\ Total' = Total /\ Matching' = Matching /\ Sorted' = Sorted
             /\ Present' = Present
             /\ \A o : Matches(o)' = Matches(o) /\ ItemOf(o)' = ItemOf(o)
             /\ items' \in Seq(Items) /\ Len(items') = Len(items) + Len(page)
             /\ \A i \in 1 .. Len(items) : items'[i] = items[i]
             /\ \A i \in 1 .. Len(page) : items'[Len(items) + i] = page[i]
<1> DEFINE page == List(offset, PageSize)
<1>1. /\ ~done /\ offset' = offset + PageSize
      /\ items' = items \o page
      /\ done' <=> Len(items') >= Total \/ page = <<>>
      /\ UNCHANGED <<query, links, severity, moves, steady>>
  BY DEF Page, Total
<1>2. /\ Total' = Total /\ Matching' = Matching /\ Sorted' = Sorted /\ Present' = Present
      /\ \A o : Matches(o)' = Matches(o) /\ ItemOf(o)' = ItemOf(o)
  <2>1. Present' = Present /\ \A o : Matches(o)' = Matches(o) /\ ItemOf(o)' = ItemOf(o)
    BY <1>1 DEF Present, Matches, ItemOf
  <2>2. Matching' = Matching
    BY <2>1 DEF Matching
  <2>3. \A p, o : Before(p, o)' = Before(p, o)
    BY <1>1 DEF Before
  <2> QED BY <1>1, <2>1, <2>2, <2>3 DEF Total, Sorted, Before
<1>3. items \in Seq(Items) /\ page \in Seq(Items)
  <2>1. offset \in Nat /\ PageSize \in Nat
    BY ScanAssumption DEF ScanInv, ScanType
  <2> QED BY <2>1, ListIs DEF ScanInv, ScanType
<1> HIDE DEF page
<1>4. /\ items' \in Seq(Items) /\ Len(items') = Len(items) + Len(page)
      /\ \A i \in 1 .. Len(items) : items'[i] = items[i]
      /\ \A i \in 1 .. Len(page) : items'[Len(items) + i] = page[i]
  BY <1>1, <1>3
<1> QED BY <1>1, <1>2, <1>4 DEF page

(* A page passes nothing that was not passed before.                       *)
LEMMA PagePassesNothing ==
  ASSUME ScanInv, Page
  PROVE  Passed' \subseteq Passed
<1> DEFINE page == List(offset, PageSize)
           start == StartOf(offset)
<1>1. ScanType /\ offset \in Nat /\ PageSize \in Nat /\ Total \in Nat
  BY ScanAssumption, MatchingIsRanked DEF ScanInv, ScanType
<1>2. /\ Len(page) = IF start + PageSize > Total THEN Total - start ELSE PageSize
      /\ Len(page) \in Nat
      /\ \A i \in 1 .. Len(page) : page[i] = ItemOf(Sorted[start + i])
  BY <1>1, ListIs
<1>3. /\ offset' = offset + PageSize /\ Matching' = Matching
      /\ severity' = severity /\ steady' = steady
      /\ \A o : Matches(o)' = Matches(o)
      /\ items' \in Seq(Items) /\ Len(items') = Len(items) + Len(page)
      /\ \A i \in 1 .. Len(items) : items'[i] = items[i]
      /\ \A i \in 1 .. Len(page) : items'[Len(items) + i] = page[i]
  BY PageTakes
<1>4. items \in Seq(Items)
  BY <1>1 DEF ScanType
<1>5. Known \subseteq Known'
  <2>1. \A i \in 1 .. Len(items) : i \in 1 .. Len(items')
    BY <1>2, <1>3, <1>4
  <2>2. DOMAIN items = 1 .. Len(items) /\ DOMAIN items' = 1 .. Len(items')
    BY <1>3, <1>4
  <2> QED BY <1>3, <2>1, <2>2 DEF Known
<1>6. \A i \in 1 .. Len(page) : page[i].object \in Known'
  <2>1. \A i \in 1 .. Len(page) : Len(items) + i \in 1 .. Len(items')
    BY <1>2, <1>3, <1>4
  <2>2. DOMAIN items' = 1 .. Len(items')
    BY <1>3
  <2> QED BY <1>3, <2>1, <2>2 DEF Known
<1>7. ASSUME NEW o \in Passed'
      PROVE  o \in Passed
  <2> DEFINE place == PlaceOf(severity, Matching, o)
  <2>1. /\ o \in steady /\ Matches(o) /\ o \notin Known' /\ o \notin Known
        /\ place < offset + PageSize
    BY <1>3, <1>5, <1>7 DEF Passed
  <2>2. o \in Matching
    BY <1>1, <2>1 DEF ScanType, Matching
  <2>3. place + 1 \in 1 .. Total /\ Sorted[place + 1] = o /\ place \in Nat
    <3>1. place \in Nat
      BY <1>1, <2>2, MatchingIsRanked, PlaceIsNumber
    <3> QED BY <1>1, <2>2, <3>1, SortedIs
  <2>4. place < offset
    <3> SUFFICES ASSUME ~(place < offset) PROVE FALSE
      OBVIOUS
    <3> HIDE DEF place
    <3>1. start = offset
      BY <1>1, <2>3 DEF StartOf
    <3> DEFINE i == place + 1 - start
    <3>2. i \in 1 .. Len(page) /\ start + i = place + 1
      <4> HIDE DEF start, page
      <4> QED BY <1>1, <1>2, <2>1, <2>3, <3>1
    <3>3. page[i].object = o
      <4>1. page[i] = ItemOf(o)
        <5> HIDE DEF start, page, i
        <5> QED BY <1>2, <2>3, <3>2
      <4> QED BY <4>1 DEF ItemOf
    <3> QED BY <1>6, <2>1, <3>2, <3>3
  <2> QED BY <2>1, <2>4 DEF Passed
<1> QED BY <1>7

LEMMA PassedIsFinite ==
  ASSUME ScanType
  PROVE  IsFiniteSet(Passed) /\ Cardinality(Passed) \in Nat
<1>1. Passed \in SUBSET Objects /\ IsFiniteSet(Objects)
  BY ScanAssumption, MatchingIsRanked DEF Passed, ScanType
<1> QED BY <1>1, FS_Subset, FS_CardinalityType

LEMMA PageKeepsInv ==
  ASSUME ScanInv, Page
  PROVE  ScanInv'
<1> DEFINE page == List(offset, PageSize)
           start == StartOf(offset)
           had == Len(items)
           n == Len(page)
           all == Cardinality(Objects)
<1>1. /\ ScanType /\ offset \in Nat /\ PageSize \in Nat /\ PageSize >= 1 /\ Total \in Nat
      /\ all \in Nat /\ Total <= all /\ moves \in Nat /\ items \in Seq(Items) /\ had \in Nat
  BY ScanAssumption, MatchingIsRanked DEF ScanInv, ScanType
<1>2. /\ n = IF start + PageSize > Total THEN Total - start ELSE PageSize
      /\ n \in Nat /\ start \in 0 .. Total /\ start + n \in 0 .. Total
      /\ page \in Seq(Items)
      /\ \A i \in 1 .. n : page[i] = ItemOf(Sorted[start + i])
  BY <1>1, ListIs
<1>3. /\ ~done /\ offset' = offset + PageSize
      /\ done' <=> Len(items') >= Total \/ page = <<>>
      /\ UNCHANGED <<query, links, severity, moves, steady>>
      /\ Total' = Total /\ Sorted' = Sorted /\ Present' = Present
      /\ \A o : ItemOf(o)' = ItemOf(o)
      /\ items' \in Seq(Items) /\ Len(items') = had + n
      /\ \A i \in 1 .. had : items'[i] = items[i]
      /\ \A i \in 1 .. n : items'[had + i] = page[i]
  BY PageTakes
<1>4. page = <<>> <=> n = 0
  BY <1>2
<1>5. start = IF offset > Total THEN 0 ELSE offset
  BY DEF StartOf
<1>6. /\ had <= offset /\ had < all + PageSize /\ offset <= PageSize * had
      /\ had = 0 \/ had < all
  <2>1. items = <<>> => Len(items) = 0
    OBVIOUS
  <2> QED BY <1>3, <2>1 DEF ScanInv, ProgressInv
<1> HIDE DEF page, start, had, n, all
<1>7. ScanType'
  <2>1. offset' \in Nat /\ done' \in BOOLEAN
    <3>1. done' \in BOOLEAN
      BY DEF Page
    <3> QED BY <1>1, <1>3, <3>1
  <2> QED BY <1>1, <1>3, <2>1 DEF ScanType
<1>8. n <= PageSize /\ n <= Total
  BY <1>1, <1>2
<1>9. n = 0 => Total <= offset
  BY <1>1, <1>2, <1>5
<1>10. ProgressInv'
  <2>1. Len(items') <= offset'
    BY <1>1, <1>2, <1>3, <1>6, <1>8
  <2>2. Len(items') < all + PageSize
    BY <1>1, <1>2, <1>3, <1>6, <1>8
  <2>3. ASSUME ~done' PROVE offset' <= PageSize * Len(items') /\ Len(items') < all
    <3>1. n >= 1
      BY <1>2, <1>3, <1>4, <2>3
    <3>2. offset + PageSize <= PageSize * (had + n)
      BY <1>1, <1>2, <1>6, <3>1, PagesGrow
    <3>3. Len(items') < Total
      BY <1>1, <1>2, <1>3, <2>3
    <3>4. Len(items') < all
      BY <1>1, <1>2, <1>3, <3>3
    <3> QED BY <1>3, <3>2, <3>4
  <2>4. ASSUME done' PROVE Total <= offset'
    <3>1. CASE Len(items') >= Total
      BY <1>1, <1>2, <1>3, <2>1, <3>1
    <3>2. CASE page = <<>>
      BY <1>1, <1>3, <1>4, <1>9, <3>2
    <3> QED BY <1>3, <2>4, <3>1, <3>2
  <2> QED BY <1>3, <2>1, <2>2, <2>3, <2>4 DEF ProgressInv, all
<1>11. MissedInv'
  <2>1. Passed' \in SUBSET Passed
    BY PagePassesNothing
  <2>2. IsFiniteSet(Passed) /\ Cardinality(Passed) \in Nat /\ Cardinality(Passed) <= moves
    BY <1>1, PassedIsFinite DEF ScanInv, MissedInv
  <2>3. Cardinality(Passed') <= Cardinality(Passed) /\ Cardinality(Passed') \in Nat
    BY <2>1, <2>2, FS_Subset, FS_CardinalityType
  <2>4. Cardinality(Passed') <= moves
    BY <1>1, <2>2, <2>3
  <2> QED BY <1>3, <2>4 DEF MissedInv
<1>12. QuietInv'
  <2> SUFFICES ASSUME moves = 0
               PROVE  /\ Len(items') <= Total
                      /\ \A i \in 1 .. Len(items') : items'[i] = ItemOf(Sorted[i])
                      /\ IF done' THEN Len(items') = Total ELSE Len(items') = offset'
    BY <1>3 DEF QuietInv
  <2>1. /\ had = offset /\ had <= Total
        /\ \A i \in 1 .. had : items[i] = ItemOf(Sorted[i])
    BY <1>3 DEF ScanInv, QuietInv, had
  <2>2. start = had
    BY <1>1, <1>5, <2>1
  <2>3. Len(items') <= Total
    BY <1>2, <1>3, <2>2
  <2>4. ASSUME NEW i \in 1 .. Len(items') PROVE items'[i] = ItemOf(Sorted[i])
    <3>1. CASE i \in 1 .. had
      BY <1>3, <2>1, <3>1
    <3>2. CASE i \notin 1 .. had
      <4> DEFINE j == i - had
      <4>1. j \in 1 .. n /\ had + j = i
        BY <1>1, <1>2, <1>3, <3>2
      <4> HIDE DEF j
      <4> QED BY <1>2, <1>3, <2>2, <4>1
    <3> QED BY <3>1, <3>2
  <2>5. ASSUME done' PROVE Len(items') = Total
    <3>1. CASE Len(items') >= Total
      <4>1. had + n \in Int /\ had + n <= Total /\ had + n >= Total
        BY <1>1, <1>2, <1>3, <2>3, <3>1
      <4>2. had + n = Total
        BY <1>1, <4>1
      <4> QED BY <1>3, <4>2
    <3>2. CASE page = <<>>
      BY <1>1, <1>2, <1>3, <1>4, <2>2, <3>2
    <3> QED BY <1>3, <2>5, <3>1, <3>2
  <2>6. ASSUME ~done' PROVE Len(items') = offset'
    <3>1. Len(items') < Total
      BY SMTT(30), <1>1, <1>2, <1>3, <2>6
    <3> QED BY <1>1, <1>2, <1>3, <2>1, <2>2, <3>1
  <2> QED BY <2>3, <2>4, <2>5, <2>6
<1> QED BY <1>7, <1>10, <1>11, <1>12 DEF ScanInv

-----------------------------------------------------------------------------
(* A move.                                                                 *)

(* What moves is one object, or two.                                       *)
LEMMA MovedAre ==
  ASSUME NEW a, NEW b
  PROVE  /\ IsFiniteSet({a, b}) /\ Cardinality({a, b}) \in Nat
         /\ Cardinality({a, b}) >= 1
<1>1. IsFiniteSet({a}) /\ Cardinality({a}) = 1
  BY FS_Singleton
<1>2. {a, b} = {a} \union {b}
  OBVIOUS
<1>3. IsFiniteSet({a} \union {b}) /\ Cardinality({a} \union {b}) =
        IF b \in {a} THEN Cardinality({a}) ELSE Cardinality({a}) + 1
  BY <1>1, FS_AddElement
<1> QED BY <1>1, <1>2, <1>3

LEMMA MoveChanges ==
  ASSUME ScanInv, NEW o \in Objects, NEW dependent \in Objects, Apply(o, dependent)
  PROVE  LET moved == {o, dependent}
         IN  /\ ~done /\ moves' = moves + Cardinality(moved)
             /\ severity' \in [Objects -> Severities \union {Absent}]
             /\ \A p \in Objects \ moved : severity'[p] = severity[p]
             /\ steady' = steady \ moved
             /\ UNCHANGED <<query, links, offset, items, done>>
<1> DEFINE moved == {o, dependent}
<1>1. PICK new \in [moved -> Severities \union {Absent}] :
        severity' = [p \in Objects |-> IF p \in moved THEN new[p] ELSE severity[p]]
  BY DEF Apply
<1>2. severity \in [Objects -> Severities \union {Absent}]
  BY DEF ScanInv, ScanType
<1>3. severity' \in [Objects -> Severities \union {Absent}]
  BY <1>1, <1>2
<1>4. \A p \in Objects \ moved : severity'[p] = severity[p]
  BY <1>1
<1> QED BY <1>3, <1>4 DEF Apply

(* The objects that did not move stand where they stood but for as many    *)
(* places as objects moved, so that at most as many are passed by it.      *)
LEMMA MovePassesFew ==
  ASSUME ScanInv, NEW o \in Objects, NEW dependent \in Objects, Apply(o, dependent),
         ScanType'
  PROVE  Cardinality(Passed') <= moves'
<1> DEFINE moved == {o, dependent}
           k == Cardinality(moved)
           still == {p \in Matching : p \notin moved}
           Few == {p \in still : PlaceOf(severity, still, p) \in offset - k .. offset - 1}
<1>1. /\ moves' = moves + k /\ steady' = steady \ moved
      /\ \A p \in Objects \ moved : severity'[p] = severity[p]
      /\ query' = query /\ offset' = offset /\ Known' = Known
  BY MoveChanges DEF Known
<1>2. IsFiniteSet(moved) /\ k \in Nat
  BY MovedAre
<1>3. ScanType /\ offset \in Int /\ moves \in Nat
  BY DEF ScanInv, ScanType
<1>4. Ranked(severity, Matching) /\ Matching \subseteq Objects
  BY <1>3, MatchingIsRanked
<1>5. Ranked(severity', Matching')
  BY RankedIs DEF ScanType, Matching, Present
<1>6. still \in SUBSET Matching /\ Matching \ still \subseteq moved
  OBVIOUS
<1>7. \A p \in Objects \ moved : p \in Matching' <=> p \in Matching
  BY <1>1 DEF Matching, Present, Matches
<1>8. still \in SUBSET Matching' /\ Matching' \ still \subseteq moved
  <2>1. Matching' \subseteq Objects
    BY DEF Matching, Present
  <2> QED BY <1>4, <1>7, <2>1
<1>9. Ranked(severity, still)
  BY <1>4, <1>6, FS_Subset DEF Ranked
<1>10. \A p \in still : PlaceOf(severity', still, p) = PlaceOf(severity, still, p)
  <2>1. \A p \in still : severity'[p] = severity[p]
    BY <1>1, <1>4
  <2>2. \A p \in still : Ahead(severity', still, p) = Ahead(severity, still, p)
    BY <2>1 DEF Ahead, Precedes
  <2> QED BY <2>2 DEF PlaceOf
<1>11. IsFiniteSet(Few) /\ Cardinality(Few) <= k
  BY <1>2, <1>3, <1>9, FewAtPlaces
<1>12. ASSUME NEW p \in Passed'
       PROVE  p \in Passed \union Few
  <2>1. /\ p \in steady /\ p \notin moved /\ p \in Objects /\ p \in Matching' /\ p \notin Known
        /\ PlaceOf(severity', Matching', p) < offset
    <3>1. p \in steady' /\ Matches(p)' /\ p \notin Known' /\ PlaceOf(severity', Matching', p) < offset'
      BY <1>12 DEF Passed
    <3>2. p \in Present' /\ Present' \subseteq Objects
      BY <3>1 DEF ScanType, Present
    <3> QED BY <1>1, <3>1, <3>2 DEF Matching
  <2>2. p \in still /\ p \in Matching
    BY <1>7, <2>1
  <2> DEFINE place == PlaceOf(severity, still, p)
  <2>3. place \in Nat /\ PlaceOf(severity, Matching, p) <= place + k
    BY <1>2, <1>4, <1>6, <2>2, PlaceAmongSome
  <2>4. place <= PlaceOf(severity', Matching', p)
    BY <1>2, <1>5, <1>8, <1>10, <2>2, PlaceAmongSome
  <2>5. PlaceOf(severity, Matching, p) \in Int /\ PlaceOf(severity', Matching', p) \in Int
    BY <1>4, <1>5, <2>1, <2>2, PlaceIsNumber
  <2>6. place < offset
    <3> HIDE DEF place
    <3> QED BY <1>3, <2>1, <2>3, <2>4, <2>5
  <2>7. CASE PlaceOf(severity, Matching, p) < offset
    BY <2>1, <2>2, <2>7 DEF Passed, Matching
  <2>8. CASE ~(PlaceOf(severity, Matching, p) < offset)
    <3>1. place \in offset - k .. offset - 1
      <4> HIDE DEF place, k
      <4> QED BY <1>2, <1>3, <2>3, <2>5, <2>6, <2>8
    <3> QED BY <2>2, <3>1
  <2> QED BY <2>7, <2>8
<1> HIDE DEF k, Few, still
<1>13. IsFiniteSet(Passed) /\ Cardinality(Passed) \in Nat /\ Cardinality(Passed) <= moves
  BY <1>3, PassedIsFinite DEF ScanInv, MissedInv
<1>14. /\ IsFiniteSet(Passed \union Few)
       /\ Cardinality(Passed \union Few) =
            Cardinality(Passed) + Cardinality(Few) - Cardinality(Passed \intersect Few)
  BY <1>11, <1>13, FS_Union
<1>15. Cardinality(Passed') <= Cardinality(Passed \union Few) /\ Cardinality(Passed') \in Nat
  <2>1. Passed' \in SUBSET (Passed \union Few)
    BY <1>12
  <2> QED BY <1>14, <2>1, FS_Subset, FS_CardinalityType
<1>16. Cardinality(Passed \intersect Few) \in Nat /\ Cardinality(Few) \in Nat
       /\ Cardinality(Passed \union Few) \in Nat
  <2>1. Passed \intersect Few \in SUBSET Few
    OBVIOUS
  <2> QED BY <1>11, <1>14, <2>1, FS_Subset, FS_CardinalityType
<1> QED BY <1>1, <1>2, <1>3, <1>11, <1>13, <1>14, <1>15, <1>16

LEMMA MoveKeepsInv ==
  ASSUME ScanInv, NEW o \in Objects, NEW dependent \in Objects, Apply(o, dependent)
  PROVE  ScanInv'
<1> DEFINE moved == {o, dependent}
           k == Cardinality(moved)
<1>1. /\ ~done /\ moves' = moves + k
      /\ severity' \in [Objects -> Severities \union {Absent}]
      /\ \A p \in Objects \ moved : severity'[p] = severity[p]
      /\ steady' = steady \ moved
      /\ UNCHANGED <<query, links, offset, items, done>>
  BY MoveChanges
<1>2. k \in Nat /\ k >= 1
  BY MovedAre
<1> HIDE DEF k
<1>3. moves \in Nat /\ moves' \in Nat /\ moves' # 0
  BY <1>1, <1>2 DEF ScanInv, ScanType
<1>4. steady' \subseteq Present'
  BY <1>1 DEF ScanInv, ScanType, Present
<1>5. ScanType'
  BY <1>1, <1>3, <1>4 DEF ScanInv, ScanType
<1>6. ProgressInv'
  BY <1>1 DEF ScanInv, ProgressInv
<1>7. MissedInv'
  BY <1>5, MovePassesFew DEF MissedInv
<1>8. QuietInv'
  BY <1>3 DEF QuietInv
<1> QED BY <1>5, <1>6, <1>7, <1>8 DEF ScanInv

-----------------------------------------------------------------------------
(* What a scan misses.                                                     *)

LEMMA ScanInvInit == ScanInit => ScanInv
<1> SUFFICES ASSUME ScanInit PROVE ScanInv
  OBVIOUS
<1>1. /\ severity \in [Objects -> Severities \union {Absent}]
      /\ offset = 0 /\ items = <<>> /\ done = FALSE /\ moves = 0 /\ steady = Present
  BY DEF ScanInit
<1>2. links.owner \union links.relation \union links.name \subseteq Pairs
  BY ReadingsAssumption DEF ScanInit
<1>3. items \in Seq(Items) /\ Len(items) = 0
  BY <1>1
<1>4. ScanType
  BY <1>1, <1>2, <1>3 DEF ScanType
<1>5. /\ Cardinality(Objects) \in Nat /\ Total \in Nat /\ PageSize \in Nat /\ PageSize >= 1
      /\ PageSize * 0 = 0
  BY <1>4, MatchingIsRanked, ScanAssumption
<1>6. ProgressInv
  BY <1>1, <1>3, <1>5 DEF ProgressInv
<1>7. MissedInv
  <2>1. ASSUME NEW o \in Passed PROVE FALSE
    <3>1. o \in Matching
      BY <1>1, <2>1 DEF Passed, Matching
    <3>2. PlaceOf(severity, Matching, o) \in Nat
      BY <1>4, <3>1, MatchingIsRanked, PlaceIsNumber
    <3> QED BY <1>1, <2>1, <3>2 DEF Passed
  <2>2. Passed = {}
    BY <2>1
  <2>3. Cardinality(Passed) = 0
    BY <2>2, FS_EmptySet
  <2> QED BY <1>1, <2>3 DEF MissedInv
<1>8. QuietInv
  BY <1>1, <1>3, <1>5 DEF QuietInv
<1> QED BY <1>4, <1>6, <1>7, <1>8 DEF ScanInv

LEMMA ScanInvNext == ScanInv /\ [ScanNext]_scanVars => ScanInv'
<1> SUFFICES ASSUME ScanInv, [ScanNext]_scanVars PROVE ScanInv'
  OBVIOUS
<1>1. CASE Page
  BY <1>1, PageKeepsInv
<1>2. ASSUME NEW o \in Objects, NEW dependent \in Objects, Apply(o, dependent)
      PROVE  ScanInv'
  BY <1>2, MoveKeepsInv
<1>3. CASE UNCHANGED scanVars
  <2>1. UNCHANGED <<query, links, severity, offset, items, done, moves, steady>>
    BY <1>3 DEF scanVars
  <2>2. /\ Total' = Total /\ Matching' = Matching /\ Sorted' = Sorted /\ Present' = Present
        /\ Known' = Known
        /\ \A o : Matches(o)' = Matches(o) /\ ItemOf(o)' = ItemOf(o)
    BY <2>1 DEF Total, Matching, Sorted, Before, Present, Known, Matches, ItemOf
  <2>3. Passed' = Passed
    BY <2>1, <2>2 DEF Passed
  <2> QED BY <2>1, <2>2, <2>3
          DEF ScanInv, ScanType, ProgressInv, MissedInv, QuietInv
<1> QED BY <1>1, <1>2, <1>3 DEF ScanNext

LEMMA ScanInvHolds == ScanSpec => []ScanInv
BY ScanInvInit, ScanInvNext, PTL DEF ScanSpec

(* A scan ends, however the store moves under it, and misses at most one   *)
(* match per move that was there all the time; a scan of a store at rest   *)
(* returns every match once and in order.                                  *)
THEOREM ScansMissFew == ScanSpec => []MissedWithinMoves
<1>1. ASSUME ScanInv PROVE MissedWithinMoves
  <2>1. ScanType /\ ProgressInv /\ MissedInv /\ QuietInv
    BY <1>1 DEF ScanInv
  <2>2. Len(items) < Cardinality(Objects) + PageSize /\ (~done => offset <= PageSize * Len(items))
    BY <2>1 DEF ProgressInv
  <2>3. ASSUME done PROVE Cardinality({o \in steady : Matches(o)} \ Known) <= moves
    <3>1. ASSUME NEW o \in steady, Matches(o)
          PROVE  PlaceOf(severity, Matching, o) < offset
      <4>1. o \in Matching
        BY <2>1, <3>1 DEF ScanType, Matching
      <4>2. PlaceOf(severity, Matching, o) \in 0 .. Total - 1
        BY <2>1, <4>1, MatchingIsRanked, PlaceIsNumber DEF Total
      <4>3. Total <= offset /\ Total \in Nat /\ offset \in Nat
        BY <2>1, <2>3, MatchingIsRanked DEF ProgressInv, ScanType
      <4> QED BY <4>2, <4>3
    <3>2. {o \in steady : Matches(o)} \ Known = Passed
      BY <3>1 DEF Passed
    <3> QED BY <2>1, <3>2 DEF MissedInv
  <2>4. ASSUME done, moves = 0
        PROVE  items = [i \in 1 .. Cardinality(Matching) |-> ItemOf(Sorted[i])]
    <3>1. /\ Len(items) = Total
          /\ \A i \in 1 .. Total : items[i] = ItemOf(Sorted[i])
      BY <2>1, <2>4 DEF QuietInv
    <3>2. items = [i \in 1 .. Len(items) |-> items[i]]
      BY <2>1 DEF ScanType
    <3> QED BY <3>1, <3>2 DEF Total
  <2> QED BY <2>2, <2>3, <2>4 DEF MissedWithinMoves
<1> QED BY <1>1, ScanInvHolds, PTL

-----------------------------------------------------------------------------
(* The view of a store at rest.  Its scan knows what is present, and its   *)
(* edges are those of the store.                                           *)
AtRest == ScanInv /\ done /\ moves = 0 /\ query = NoFilter

LEMMA RestKnowsAll ==
  ASSUME AtRest
  PROVE  Known = Present
<1>1. ScanType /\ Len(items) = Total /\ \A i \in 1 .. Total : items[i] = ItemOf(Sorted[i])
  BY DEF AtRest, ScanInv, QuietInv
<1>2. Matching = Present
  BY DEF AtRest, NoFilter, Matching, Matches, Present
<1>3. DOMAIN items = 1 .. Total
  BY <1>1 DEF ScanType
<1>4. \A i \in 1 .. Total : items[i].object = Sorted[i]
  BY <1>1 DEF ItemOf
<1>5. ASSUME NEW o \in Known PROVE o \in Present
  <2>1. PICK i \in 1 .. Total : o = Sorted[i]
    BY <1>3, <1>4, <1>5 DEF Known
  <2> QED BY <1>1, <1>2, <2>1, SortedIs
<1>6. ASSUME NEW o \in Present PROVE o \in Known
  <2> DEFINE i == PlaceOf(severity, Matching, o) + 1
  <2>1. i \in 1 .. Total /\ Sorted[i] = o
    BY <1>1, <1>2, SortedIs
  <2> HIDE DEF i
  <2> QED BY <1>3, <1>4, <2>1 DEF Known
<1> QED BY <1>5, <1>6

LEMMA RestKnowsEdges ==
  ASSUME AtRest
  PROVE  Edges = Stored
<1>1. ScanType /\ Known = Present
  BY RestKnowsAll DEF AtRest, ScanInv
<1>2. \A i \in DOMAIN items : items[i] = ItemOf(items[i].object)
  <2>1. DOMAIN items = 1 .. Total /\ \A i \in 1 .. Total : items[i] = ItemOf(Sorted[i])
    BY <1>1 DEF AtRest, ScanInv, QuietInv, ScanType
  <2>2. \A o : ItemOf(o).object = o
    BY DEF ItemOf
  <2> QED BY <2>1, <2>2
<1>3. \A o : ItemOf(o).related = {p \in Present : <<o, p>> \in links.relation}
  BY DEF ItemOf
<1>4. ASSUME NEW e \in Pairs
      PROVE  (\E i \in DOMAIN items : items[i].object = e[1] /\ e[2] \in items[i].related)
               <=> e \in links.relation /\ e[1] \in Present /\ e[2] \in Present
  <2>1. e = <<e[1], e[2]>>
    BY DEF Pairs
  <2>2. ASSUME NEW i \in DOMAIN items, items[i].object = e[1], e[2] \in items[i].related
        PROVE  e \in links.relation /\ e[1] \in Present /\ e[2] \in Present
    <3>1. e[1] \in Known
      BY <2>2 DEF Known
    <3>2. e[2] \in Present /\ <<e[1], e[2]>> \in links.relation
      BY <1>2, <1>3, <2>2
    <3> QED BY <1>1, <2>1, <3>1, <3>2
  <2>3. ASSUME e \in links.relation, e[1] \in Present, e[2] \in Present
        PROVE  \E i \in DOMAIN items : items[i].object = e[1] /\ e[2] \in items[i].related
    <3>1. PICK i \in DOMAIN items : items[i].object = e[1]
      BY <1>1, <2>3 DEF Known
    <3>2. e[2] \in items[i].related
      BY <1>2, <1>3, <2>1, <2>3, <3>1
    <3> QED BY <3>1, <3>2
  <2> QED BY <2>2, <2>3
<1>5. \A e \in links.owner \union links.relation \union links.name : e \in Pairs
  BY <1>1 DEF ScanType
<1> QED BY <1>1, <1>4, <1>5 DEF Edges, Stored

(* One step of the walk is one edge in its direction.                      *)
LEMMA BeyondIsJoined ==
  ASSUME AtRest, NEW o \in Present, NEW direction
  PROVE  Beyond(o, direction) = {p \in Present : Joined(o, p, direction)}
<1>1. Edges = Stored
  BY RestKnowsEdges
<1>2. \A e \in Stored : e = <<e[1], e[2]>> /\ e[1] \in Present /\ e[2] \in Present
  BY DEF AtRest, ScanInv, ScanType, Stored, Pairs
<1>3. ASSUME NEW p \in Beyond(o, direction) PROVE p \in Present /\ Joined(o, p, direction)
  <2>1. CASE p \in {e[2] : e \in {e \in Edges : direction # "upstream" /\ e[1] = o}}
    BY <1>1, <1>2, <2>1 DEF Joined
  <2>2. CASE p \in {e[1] : e \in {e \in Edges : direction # "downstream" /\ e[2] = o}}
    BY <1>1, <1>2, <2>2 DEF Joined
  <2> QED BY <1>3, <2>1, <2>2 DEF Beyond
<1>4. ASSUME NEW p \in Present, Joined(o, p, direction)
      PROVE  p \in Beyond(o, direction)
  <2>1. CASE direction # "upstream" /\ <<o, p>> \in Stored
    <3>1. p \in {e[2] : e \in {e \in Edges : direction # "upstream" /\ e[1] = o}}
      BY <1>1, <2>1
    <3> QED BY <3>1 DEF Beyond
  <2>2. CASE direction # "downstream" /\ <<p, o>> \in Stored
    <3>1. p \in {e[1] : e \in {e \in Edges : direction # "downstream" /\ e[2] = o}}
      BY <1>1, <2>2
    <3> QED BY <3>1 DEF Beyond
  <2> QED BY <1>4, <2>1, <2>2 DEF Joined
<1> QED BY <1>3, <1>4

(* The walk of the view.                                                   *)
Levelled == [seen : SUBSET Present, frontier : SUBSET Present]
NextLevel(level, direction) ==
  LET next == (UNION {Beyond(o, direction) : o \in level.frontier}) \ level.seen
  IN  [seen |-> level.seen \union next, frontier |-> next]
AreLevelled(levels, uid, direction, n) ==
  levels = [l \in 0 .. n |-> IF l = 0 THEN [seen |-> {uid}, frontier |-> {uid}]
                             ELSE NextLevel(levels[l - 1], direction)]

LEMMA ViewIsLastLevel ==
  ASSUME AtRest, NEW uid \in Present, NEW direction, NEW depth \in Int
  PROVE  \E levels : /\ AreLevelled(levels, uid, direction, ClampDepth(depth))
                     /\ View(uid, depth, direction) = levels[ClampDepth(depth)].seen
<1> DEFINE chosen == CHOOSE levels : AreLevelled(levels, uid, direction, ClampDepth(depth))
           step == [level \in Levelled |-> NextLevel(level, direction)]
           first == [seen |-> {uid}, frontier |-> {uid}]
           n == ClampDepth(depth)
<1>1. step \in [Levelled -> Levelled] /\ first \in Levelled /\ n \in Nat
  <2>1. ASSUME NEW level \in Levelled PROVE NextLevel(level, direction) \in Levelled
    <3>1. \A o \in level.frontier : Beyond(o, direction) \in SUBSET Present
      BY BeyondIsJoined DEF Levelled
    <3> QED BY <3>1 DEF NextLevel, Levelled
  <2> QED BY <2>1 DEF Levelled, ClampDepth
<1> HIDE DEF step, first, n
<1>2. PICK levels : Repeats(Levelled, first, step, levels, n)
  BY <1>1, RepeatsExist
<1>3. ASSUME NEW l \in 0 .. n
      PROVE  levels[l] = IF l = 0 THEN first ELSE NextLevel(levels[l - 1], direction)
  <2>1. CASE l = 0
    BY <1>2, <2>1 DEF Repeats
  <2>2. CASE l # 0
    <3>1. l - 1 \in 0 .. n
      BY <1>1, <2>2
    <3>2. levels[l - 1] \in Levelled /\ levels[l] = step[levels[l - 1]]
      BY <1>2, <2>2, <3>1 DEF Repeats
    <3> QED BY <2>2, <3>2 DEF step
  <2> QED BY <2>1, <2>2
<1>4. AreLevelled(levels, uid, direction, n)
  <2>1. levels = [l \in 0 .. n |-> levels[l]]
    BY <1>2 DEF Repeats
  <2> QED BY <1>3, <2>1 DEF AreLevelled, first
<1>5. AreLevelled(chosen, uid, direction, n)
  BY <1>4 DEF n
<1>6. View(uid, depth, direction) = chosen[n].seen
  BY DEF View, AreLevelled, NextLevel, n
<1> QED BY <1>5, <1>6 DEF n

JoinedPairs(direction) == {e \in Present \X Present : Joined(e[1], e[2], direction)}

LEMMA RouteJoins ==
  ASSUME NEW direction, NEW a, NEW b, NEW n \in Nat
  PROVE  Route(a, b, n, direction) <=> Joins(JoinedPairs(direction), Present, a, b, n)
<1>1. ASSUME NEW p \in [0 .. n -> Present], NEW i \in 0 .. n - 1
      PROVE  Joined(p[i], p[i + 1], direction) <=> <<p[i], p[i + 1]>> \in JoinedPairs(direction)
  <2>1. i \in 0 .. n /\ i + 1 \in 0 .. n
    OBVIOUS
  <2> QED BY <2>1 DEF JoinedPairs
<1> QED BY <1>1 DEF Route, Joins

LEMMA AroundIsBeyond ==
  ASSUME AtRest, NEW direction, NEW from \in SUBSET Present
  PROVE  UNION {Beyond(o, direction) : o \in from} =
           Around(JoinedPairs(direction), Present, from)
<1>1. ASSUME NEW o \in from, NEW p
      PROVE  p \in Beyond(o, direction) <=> p \in Present /\ <<o, p>> \in JoinedPairs(direction)
  BY BeyondIsJoined DEF JoinedPairs
<1> QED BY <1>1 DEF Around

(* The view holds what at most its clamped depth of edges reach, for every *)
(* depth that can be asked for.                                            *)
LEMMA ViewReaches ==
  ASSUME AtRest, NEW uid \in Present, NEW direction, NEW depth \in Int
  PROVE  View(uid, depth, direction) =
           Within(JoinedPairs(direction), Present, uid, ClampDepth(depth))
<1> DEFINE n == ClampDepth(depth)
<1>1. PICK levels : /\ AreLevelled(levels, uid, direction, n)
                    /\ View(uid, depth, direction) = levels[n].seen
  BY ViewIsLastLevel
<1>2. n \in Nat
  BY DEF ClampDepth
<1> HIDE DEF n
<1> DEFINE seen == [l \in 0 .. n |-> levels[l].seen]
           frontier == [l \in 0 .. n |-> levels[l].frontier]
<1>3. /\ levels[0] = [seen |-> {uid}, frontier |-> {uid}]
      /\ \A l \in 0 .. n - 1 : levels[l + 1] = NextLevel(levels[l], direction)
  <2>1. \A l \in 0 .. n - 1 : l + 1 \in 0 .. n /\ l + 1 # 0 /\ (l + 1) - 1 = l
    BY <1>2
  <2>2. 0 \in 0 .. n
    BY <1>2
  <2> QED BY <1>1, <2>1, <2>2 DEF AreLevelled
<1>4. seen[0] = {uid} /\ frontier[0] = {uid} /\ seen[n] = levels[n].seen
  BY <1>2, <1>3
<1>5. ASSUME NEW l \in 0 .. n - 1, frontier[l] \subseteq Present
      PROVE  /\ frontier[l + 1] =
                  Around(JoinedPairs(direction), Present, frontier[l]) \ seen[l]
             /\ seen[l + 1] = seen[l] \union frontier[l + 1]
  <2>1. /\ seen[l] = levels[l].seen /\ seen[l + 1] = levels[l + 1].seen
        /\ frontier[l] = levels[l].frontier /\ frontier[l + 1] = levels[l + 1].frontier
    <3>1. l \in 0 .. n /\ l + 1 \in 0 .. n
      BY <1>2
    <3> QED BY <3>1
  <2> DEFINE next == Around(JoinedPairs(direction), Present, frontier[l]) \ seen[l]
  <2> HIDE DEF seen, frontier
  <2>2. levels[l + 1] = [seen |-> seen[l] \union next, frontier |-> next]
    BY <1>3, <1>5, <2>1, AroundIsBeyond DEF NextLevel
  <2> HIDE DEF next
  <2>3. frontier[l + 1] = next /\ seen[l + 1] = seen[l] \union next
    BY <2>1, <2>2
  <2> QED BY <2>3 DEF next
<1> HIDE DEF seen, frontier
<1>6. AreLevels(JoinedPairs(direction), Present, uid, seen, frontier, n)
  BY <1>4, <1>5 DEF AreLevels
<1>7. seen[n] = Within(JoinedPairs(direction), Present, uid, n)
  BY <1>2, <1>6, LevelsReach
<1> QED BY <1>1, <1>4, <1>7 DEF n

(* The view of a resource of a store at rest holds exactly the resources   *)
(* that paths of its depth reach in its direction, whatever the relations  *)
(* between them; no depth is depth 2.                                      *)
THEOREM ViewsAreReach == ScanSpec => []QuietViewIsReach
<1>1. ASSUME ScanInv PROVE QuietViewIsReach
  <2> SUFFICES ASSUME done, moves = 0, query = NoFilter,
                      NEW uid \in Known, NEW direction \in {"upstream", "downstream", "both"}
               PROVE  /\ \A depth \in 1 .. 3 :
                           View(uid, depth, direction) =
                             {o \in Present : \E n \in 0 .. depth : Route(uid, o, n, direction)}
                      /\ View(uid, 0, direction) = View(uid, 2, direction)
    BY DEF QuietViewIsReach
  <2>1. AtRest
    BY <1>1 DEF AtRest
  <2>2. uid \in Present
    BY <2>1, RestKnowsAll
  <2>3. ASSUME NEW depth \in 1 .. 3
        PROVE  View(uid, depth, direction) =
                 {o \in Present : \E n \in 0 .. depth : Route(uid, o, n, direction)}
    <3>1. depth \in Int /\ ClampDepth(depth) = depth
      BY DEF ClampDepth
    <3>2. \A o, n : n \in 0 .. depth =>
            (Route(uid, o, n, direction) <=> Joins(JoinedPairs(direction), Present, uid, o, n))
      BY RouteJoins
    <3>3. View(uid, depth, direction) = Within(JoinedPairs(direction), Present, uid, depth)
      BY <2>1, <2>2, <3>1, ViewReaches
    <3> QED BY <3>2, <3>3 DEF Within
  <2>4. View(uid, 0, direction) = View(uid, 2, direction)
    <3>1. ClampDepth(0) = 2 /\ ClampDepth(2) = 2 /\ 0 \in Int /\ 2 \in Int
      BY DEF ClampDepth
    <3>2. View(uid, 0, direction) =
            Within(JoinedPairs(direction), Present, uid, ClampDepth(0))
      BY <2>1, <2>2, <3>1, ViewReaches
    <3>3. View(uid, 2, direction) =
            Within(JoinedPairs(direction), Present, uid, ClampDepth(2))
      BY <2>1, <2>2, <3>1, ViewReaches
    <3> QED BY <3>1, <3>2, <3>3
  <2> QED BY <2>3, <2>4
<1> QED BY <1>1, ScanInvHolds, PTL
=============================================================================
