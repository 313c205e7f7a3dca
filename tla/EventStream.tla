---------------------------- MODULE EventStream ----------------------------
(***************************************************************************)
(* What the event hub promises a client: the task has one log of events,   *)
(* and a client reads it from the first event on, one event after another, *)
(* until it has read a terminal one.  Channels, replays, connections and   *)
(* the retention of events are absent.                                     *)
(***************************************************************************)
EXTENDS Naturals, Sequences

CONSTANTS Tasks, Clients, TaskOf, MaxEvents

VARIABLES
  log,     \* per task, whether each published event is terminal
  cursor,  \* per client, the number of events it has read
  done     \* per client, it has read a terminal event

streamVars == <<log, cursor, done>>

Init ==
  /\ log = [t \in Tasks |-> <<>>]
  /\ cursor = [c \in Clients |-> 0]
  /\ done = [c \in Clients |-> FALSE]

Publish(t) ==
  /\ Len(log[t]) < MaxEvents
  /\ \E terminal \in BOOLEAN : log' = [log EXCEPT ![t] = Append(@, terminal)]
  /\ UNCHANGED <<cursor, done>>

Read(c) ==
  /\ ~ done[c]
  /\ cursor[c] < Len(log[TaskOf[c]])
  /\ cursor' = [cursor EXCEPT ![c] = @ + 1]
  /\ done' = [done EXCEPT ![c] = log[TaskOf[c]][cursor[c] + 1]]
  /\ UNCHANGED log

Next ==
  \/ \E t \in Tasks : Publish(t)
  \/ \E c \in Clients : Read(c)

Spec == Init /\ [][Next]_streamVars
=============================================================================
