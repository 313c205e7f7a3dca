--------------------------- MODULE TopologyGraph ---------------------------
(***************************************************************************)
(* internal/topology/graph.go: the directed graph of resources, one        *)
(* relation per ordered pair of nodes.  The graph keeps every edge twice,  *)
(* under its source and under its target, and no operation touches both    *)
(* copies in one assignment; a reader takes one copy or the other.         *)
(*                                                                         *)
(* Every operation holds the lock from its first to its last line, and is  *)
(* one action.  A resource is its key (ResourceRef.Key: cluster and UID).  *)
(***************************************************************************)
EXTENDS Integers, FiniteSets, Sequences

CONSTANTS Keys, Relations, None,
          MaxEdges   \* bound: edges one ReplaceEdges is given

ASSUME GraphAssumption == None \notin Relations /\ MaxEdges \in Nat

VARIABLES nodes,      \* keys of the known resources
          outgoing,   \* outgoing[from][to]: relation, or None
          incoming    \* incoming[to][from]: the same edge seen from its target

vars == <<nodes, outgoing, incoming>>

Edge == [to : Keys, relation : Relations]
EdgeLists == UNION {[1 .. n -> Edge] : n \in 0 .. MaxEdges}

Init ==
  /\ nodes = {}
  /\ outgoing = [from \in Keys |-> [to \in Keys |-> None]]
  /\ incoming = [to \in Keys |-> [from \in Keys |-> None]]

UpsertNode(key) ==
  /\ nodes' = nodes \union {key}
  /\ UNCHANGED <<outgoing, incoming>>

(* The reverse copies are found through the node's own two maps.           *)
RemoveNodeForgetsSources(key) ==
  /\ nodes' = nodes \ {key}
  /\ outgoing' = [outgoing EXCEPT ![key] = [to \in Keys |-> None]]
  /\ incoming' = [to \in Keys |-> [from \in Keys |->
       IF to = key \/ (from = key /\ outgoing[key][to] # None)
       THEN None ELSE incoming[to][from]]]

RemoveNode(key) ==
  /\ nodes' = nodes \ {key}
  /\ outgoing' = [from \in Keys |-> [to \in Keys |->
       IF from = key \/ (to = key /\ incoming[key][from] # None)
       THEN None ELSE outgoing[from][to]]]
  /\ incoming' = [to \in Keys |-> [from \in Keys |->
       IF to = key \/ (from = key /\ outgoing[key][to] # None)
       THEN None ELSE incoming[to][from]]]

(* The relation a list of edges leaves for a target: its last edge wins.   *)
Targets(edges) == {edges[i].to : i \in DOMAIN edges}
LastRelation(edges, to) ==
  LET last == CHOOSE i \in DOMAIN edges :
                /\ edges[i].to = to
                /\ \A j \in DOMAIN edges : edges[j].to = to => j <= i
  IN  edges[last].relation

(* An unknown source is refused.  The old edges leave both maps, the new   *)
(* ones enter both, and their targets become known.                        *)
ReplaceEdgesKeepsOldReverse(from, edges) ==
  /\ from \in nodes
  /\ nodes' = nodes \union Targets(edges)
  /\ outgoing' = [outgoing EXCEPT ![from] = [to \in Keys |->
       IF to \in Targets(edges) THEN LastRelation(edges, to) ELSE None]]
  /\ incoming' = [to \in Keys |-> [incoming[to] EXCEPT ![from] =
       IF to \in Targets(edges) THEN LastRelation(edges, to) ELSE @]]

ReplaceEdges(from, edges) ==
  /\ from \in nodes
  /\ nodes' = nodes \union Targets(edges)
  /\ outgoing' = [outgoing EXCEPT ![from] = [to \in Keys |->
       IF to \in Targets(edges) THEN LastRelation(edges, to) ELSE None]]
  /\ incoming' = [to \in Keys |-> [incoming[to] EXCEPT ![from] =
       IF to \in Targets(edges) THEN LastRelation(edges, to)
       ELSE IF outgoing[from][to] # None THEN None ELSE @]]

Next ==
  \E key \in Keys :
    \/ UpsertNode(key)
    \/ RemoveNode(key)
    \/ \E edges \in EdgeLists : ReplaceEdges(key, edges)

Spec == Init /\ [][Next]_vars

-----------------------------------------------------------------------------
(* The readers.                                                            *)

Neighbors(key) ==
  {n \in Keys : outgoing[key][n] # None \/ incoming[key][n] # None}

(* Neighborhood walks level by level: a level visits its frontier, and the *)
(* next frontier is every neighbour of the keys visited for the first time.*)
WalkOneShort(refs, depth) ==
  LET level[l \in 0 .. depth + 1] ==
        IF l = 0 THEN [visited |-> {}, frontier |-> refs]
        ELSE LET last == level[l - 1]
                 fresh == last.frontier \ last.visited
             IN  [visited |-> last.visited \union fresh,
                  frontier |-> UNION {Neighbors(k) : k \in fresh}]
  IN  level[depth].visited

Walk(refs, depth) ==
  LET level[l \in 0 .. depth + 1] ==
        IF l = 0 THEN [visited |-> {}, frontier |-> refs]
        ELSE LET last == level[l - 1]
                 fresh == last.frontier \ last.visited
             IN  [visited |-> last.visited \union fresh,
                  frontier |-> UNION {Neighbors(k) : k \in fresh}]
  IN  level[depth + 1].visited

Neighborhood(refs, depth) ==
  LET visited == Walk(refs, depth) IN
    [nodes |-> visited \intersect nodes,
     edges |-> {e \in Keys \X Keys : /\ {e[1], e[2]} \subseteq visited
                                     /\ outgoing[e[1]][e[2]] # None}]

(* Direct: the edges into a node and the edges out of it.                  *)
Upstream(key) == {from \in Keys : incoming[key][from] # None}
Downstream(key) == {to \in Keys : outgoing[key][to] # None}

-----------------------------------------------------------------------------
(* The graph only holds keys and relations.                                *)
TypeOK ==
  /\ nodes \subseteq Keys
  /\ outgoing \in [Keys -> [Keys -> Relations \union {None}]]
  /\ incoming \in [Keys -> [Keys -> Relations \union {None}]]

(* The two copies of every edge agree, relation included, whatever was     *)
(* removed, replaced or repeated: what a node lists downstream, the other  *)
(* end lists upstream.                                                     *)
Mirrored == \A a, b \in Keys : outgoing[a][b] = incoming[b][a]

(* No edge outlives one of its ends: a deleted resource leaves no edge, in *)
(* either direction.                                                       *)
NoDanglingEdge ==
  \A a, b \in Keys : outgoing[a][b] # None => a \in nodes /\ b \in nodes

(* A neighbourhood is a graph: each of its edges joins two of its nodes,   *)
(* so that a reader can draw what it gets.                                 *)
SnapshotIsClosed ==
  \A refs \in SUBSET Keys, depth \in 0 .. 3 :
    LET snapshot == Neighborhood(refs, depth) IN
      \A e \in snapshot.edges : e[1] \in snapshot.nodes /\ e[2] \in snapshot.nodes

(* The walk reaches exactly the known resources at most depth edges away,  *)
(* against Path, which knows no levels: the pairs joined by a path of that *)
(* length or less, edges taken in either direction.                        *)
Linked(a, b) == outgoing[a][b] # None \/ outgoing[b][a] # None
Path(a, b, n) ==
  \E p \in [0 .. n -> Keys] :
    /\ p[0] = a /\ p[n] = b
    /\ \A i \in 0 .. n - 1 : Linked(p[i], p[i + 1])
WalkReachesDepth ==
  \A start \in Keys, depth \in 0 .. 3 :
    Neighborhood({start}, depth).nodes =
      {k \in nodes : \E n \in 0 .. depth : Path(start, k, n)}
=============================================================================
