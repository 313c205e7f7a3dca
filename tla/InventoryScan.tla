--------------------------- MODULE InventoryScan ---------------------------
(***************************************************************************)
(* How a diagnosis or a page reads the inventory: Store.List of            *)
(* internal/inventory/inventory.go, the scan all() and the topology view   *)
(* Topology of internal/diagnosis/observation.go.  The scan has no filter; *)
(* a console page that turns over a filtered list reads it the same way.   *)
(*                                                                         *)
(* A scan takes one page after another, and each page is cut from the      *)
(* store as it is then, sorted by severity first: what changes between two *)
(* pages moves other resources over the page boundary.                     *)
(*                                                                         *)
(* An object is its place in the order of namespace, kind and name, which  *)
(* no two objects share.                                                   *)
(***************************************************************************)
EXTENDS Integers, FiniteSets, Sequences

CONSTANTS
  Objects,     \* a set of numbers
  Severities,  \* ranks of the states of resources, the gravest lowest
  Absent,
  PageSize,    \* 200 in the code
  Readings,    \* pairs of references between objects and a query
  MaxMoves     \* bound: objects that appear, vanish or change severity

Pairs == Objects \X Objects

ASSUME ScanAssumption == /\ Objects \subseteq Nat /\ IsFiniteSet(Objects)
                         /\ Severities \subseteq Nat /\ Absent \notin Severities
                         /\ PageSize \in Nat \ {0}
                         /\ MaxMoves \in Nat

ASSUME ReadingsAssumption ==
  \A reading \in Readings :
    reading[1].owner \union reading[1].relation \union reading[1].name \subseteq Pairs

(* A query asks for a severity, or none in particular, and for objects by  *)
(* what does not change while they exist: kind, group, namespace, labels.  *)
NoFilter == [severity |-> Absent, objects |-> Objects]

VARIABLES
  query,     \* what the scan asks for
  links,     \* links.owner, links.relation, links.name: pairs <<from, to>>
  severity,  \* severity of each stored object, or Absent
  offset,    \* of the next page
  items,     \* what the scan has collected: objects and their relations
  done,      \* the scan has returned
  moves,     \* moves of objects since the scan began
  steady     \* objects present from the beginning of the scan and unmoved

scanVars == <<query, links, severity, offset, items, done, moves, steady>>

Present == {o \in Objects : severity[o] # Absent}

ScanInit ==
  /\ \E reading \in Readings : links = reading[1] /\ query = reading[2]
  /\ severity \in [Objects -> Severities \union {Absent}]
  /\ offset = 0
  /\ items = <<>>
  /\ done = FALSE
  /\ moves = 0
  /\ steady = Present

-----------------------------------------------------------------------------
(* Store.List.                                                             *)

Matches(o) == o \in query.objects /\ query.severity \in {Absent, severity[o]}

Matching == {o \in Present : Matches(o)}

Before(a, b) == \/ severity[a] < severity[b]
                \/ severity[a] = severity[b] /\ a < b

Sorted ==
  [i \in 1 .. Cardinality(Matching) |->
     CHOOSE o \in Matching : Cardinality({p \in Matching : Before(p, o)}) = i - 1]

(* The relations of a resource are computed from the whole store, in the   *)
(* same call as the page it is on.                                         *)
ItemOf(o) == [object |-> o,
              related |-> {p \in Present : <<o, p>> \in links.relation}]

ListFromLast(from, limit) ==
  LET total == Cardinality(Matching)
      start == IF from > total THEN 0 ELSE IF from = 0 THEN 0 ELSE from + 1
      end == IF start + limit > total THEN total ELSE start + limit
  IN  [i \in 1 .. end - start |-> ItemOf(Sorted[start + i])]

(* An offset beyond the end is taken as 0.                                 *)
List(from, limit) ==
  LET total == Cardinality(Matching)
      start == IF from > total THEN 0 ELSE from
      end == IF start + limit > total THEN total ELSE start + limit
  IN  [i \in 1 .. end - start |-> ItemOf(Sorted[start + i])]

-----------------------------------------------------------------------------
(* all(): one page; the scan ends when it has as many items as the page    *)
(* says there are, or at an empty page.                                    *)
Page ==
  LET page == List(offset, PageSize) IN
    /\ ~done
    /\ items' = items \o page
    /\ done' = (Len(items') >= Cardinality(Matching) \/ page = <<>>)
    /\ offset' = offset + PageSize
    /\ UNCHANGED <<query, links, severity, moves, steady>>

(* Store.Apply between two pages: an object appears, vanishes or changes   *)
(* severity, and with it perhaps one whose summary depends on it (the      *)
(* Service of an EndpointSlice).                                           *)
Apply(o, dependent) ==
  LET moved == {o, dependent} IN
    /\ ~done
    /\ moves + Cardinality(moved) <= MaxMoves
    /\ dependent # o => severity[dependent] # Absent
    /\ \E new \in [moved -> Severities \union {Absent}] :
         /\ \A p \in moved : new[p] # severity[p]
         /\ dependent # o => new[dependent] # Absent
         /\ severity' = [p \in Objects |-> IF p \in moved THEN new[p] ELSE severity[p]]
    /\ moves' = moves + Cardinality(moved)
    /\ steady' = steady \ moved
    /\ UNCHANGED <<query, links, offset, items, done>>

ScanNext == Page \/ \E o, dependent \in Objects : Apply(o, dependent)

ScanSpec == ScanInit /\ [][ScanNext]_scanVars

-----------------------------------------------------------------------------
(* Topology, on what a scan returned.                                      *)

Known == {items[i].object : i \in DOMAIN items}

(* topologyEdges: owners and names are looked up among the scanned items,  *)
(* relations come with the item.                                           *)
EdgesByName ==
  {e \in links.owner \union links.name : e[1] \in Known /\ e[2] \in Known}

Edges ==
  {e \in links.owner \union links.name : e[1] \in Known /\ e[2] \in Known}
    \union {e \in Pairs : \E i \in DOMAIN items :
                            items[i].object = e[1] /\ e[2] \in items[i].related}

ClampDepth(depth) == IF depth < 1 THEN 2 ELSE IF depth > 5 THEN 5 ELSE depth

Beyond(current, direction) ==
  {e[2] : e \in {e \in Edges : direction # "upstream" /\ e[1] = current}}
    \union {e[1] : e \in {e \in Edges : direction # "downstream" /\ e[2] = current}}

(* The nodes of the view of a known object; the edges are those that join  *)
(* two of them.                                                            *)
View(uid, depth, direction) ==
  LET level[l \in 0 .. ClampDepth(depth)] ==
        IF l = 0 THEN [seen |-> {uid}, frontier |-> {uid}]
        ELSE LET last == level[l - 1]
                 next == (UNION {Beyond(o, direction) : o \in last.frontier}) \ last.seen
             IN  [seen |-> last.seen \union next, frontier |-> next]
  IN  level[ClampDepth(depth)].seen

-----------------------------------------------------------------------------
(* A scan ends, however the store shrinks or grows under it: it collects   *)
(* fewer than a page more than the objects there can be, and every page    *)
(* but the last adds to it.  A resource that matched all the time may be   *)
(* missed, because others moved over a page boundary, but at most one per  *)
(* move; a scan of a store at rest returns every match once, in order.     *)
MissedWithinMoves ==
  /\ Len(items) < Cardinality(Objects) + PageSize
  /\ ~done => offset <= PageSize * Len(items)
  /\ done => Cardinality({o \in steady : Matches(o)} \ Known) <= moves
  /\ done /\ moves = 0 =>
       items = [i \in 1 .. Cardinality(Matching) |-> ItemOf(Sorted[i])]

(* On a store at rest the view of a resource holds exactly the resources   *)
(* at most the depth away in the direction, against a definition by paths; *)
(* none of its nodes is unknown.                                           *)
Stored == {e \in links.owner \union links.relation \union links.name :
             e[1] \in Present /\ e[2] \in Present}
Joined(a, b, direction) == \/ direction # "upstream" /\ <<a, b>> \in Stored
                           \/ direction # "downstream" /\ <<b, a>> \in Stored
Route(a, b, n, direction) ==
  \E p \in [0 .. n -> Present] :
    /\ p[0] = a /\ p[n] = b
    /\ \A i \in 0 .. n - 1 : Joined(p[i], p[i + 1], direction)
QuietViewIsReach ==
  done /\ moves = 0 /\ query = NoFilter =>
    \A uid \in Known, direction \in {"upstream", "downstream", "both"} :
      /\ \A depth \in 1 .. 3 :
           View(uid, depth, direction) =
             {o \in Present : \E n \in 0 .. depth : Route(uid, o, n, direction)}
      /\ View(uid, 0, direction) = View(uid, 2, direction)
=============================================================================
