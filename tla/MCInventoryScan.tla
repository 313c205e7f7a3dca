--------------------------- MODULE MCInventoryScan ---------------------------
(* Model-checking instance of InventoryScan.                                *)
EXTENDS InventoryScan

Four == 1 .. 4

(* How an edge is found depends on where it starts: 1 is an owner, 2 and 3  *)
(* are Services and EndpointSlices, 4 is a Pod.                             *)
Graph(edges) ==
  [owner |-> {e \in edges : e[1] = 1}, relation |-> {e \in edges : e[1] \in {2, 3}},
   name |-> {e \in edges : e[1] = 4}]

(* Every path through the four resources, and graphs with a fork, a cycle,  *)
(* an edge turned or a loop.                                                *)
Graphs4 ==
  {Graph({<<p[1], p[2]>>, <<p[2], p[3]>>, <<p[3], p[4]>>}) :
     p \in {p \in [1 .. 4 -> Four] : \A i, j \in 1 .. 4 : i # j => p[i] # p[j]}}
    \union
  {Graph({<<2, 1>>, <<2, 3>>, <<4, 3>>}), Graph({<<1, 2>>, <<3, 2>>, <<3, 4>>}),
   Graph({<<1, 2>>, <<2, 3>>, <<3, 1>>, <<4, 4>>}),
   Graph({<<2, 4>>, <<3, 4>>, <<4, 1>>, <<1, 4>>}), Graph({})}

(* The scan of a diagnosis on each of them, and lists of one state or of    *)
(* some objects, to which references do not matter.                         *)
MCReadings ==
  (Graphs4 \X {NoFilter})
    \union ({Graph({})} \X [severity : {Absent, 0, 1}, objects : {Four, 2 .. 4}])
==============================================================================
