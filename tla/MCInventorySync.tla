--------------------------- MODULE MCInventorySync ---------------------------
(* Model-checking instance of InventorySync: two pods that have the same    *)
(* name one after the other, and a service.                                 *)
EXTENDS InventorySync

CONSTANTS p1, p2, s1, Pod, Service

(* Everything, and a kind that may be listed and not watched.               *)
MCPermissions == {{"get", "list", "watch"}, {"get", "list"}}

MCKind == [o \in Objects |-> IF o = s1 THEN Service ELSE Pod]
MCName == [o \in Objects |-> IF o = s1 THEN "entry" ELSE "web"]
MCLast == [o \in Objects |-> IF o = p1 THEN 2 ELSE 1]
==============================================================================
