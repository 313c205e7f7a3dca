----------------------------- MODULE MCEventHub -----------------------------
(* Instances of EventHub for TLC.                                          *)
EXTENDS EventHub

CONSTANTS t1, t2, c1, c2

(* Both clients watch the same task.                                       *)
SharedTask == [c \in Clients |-> t1]

(* The two clients watch different tasks.                                  *)
OwnTask == [c \in Clients |-> IF c = c1 THEN t1 ELSE t2]
=============================================================================
