------------------------------ MODULE TaskLife ------------------------------
(***************************************************************************)
(* What the diagnosis service promises of a task: it is accepted once; as  *)
(* long as it is open its end is announced and its result stored, once     *)
(* each and in agreement, a result with a verdict exactly when it is       *)
(* COMPLETED; it closes only when its end has been announced; nothing      *)
(* touches it afterwards.  An end of the process closes all tasks, forgets *)
(* what was announced, and keeps all stored results or none.               *)
(***************************************************************************)
CONSTANT Tasks

VARIABLES
  accepted,  \* tasks whose identifier has been drawn
  open,      \* tasks at work
  said,      \* the end announced of each task, or "nothing"
  stored     \* the stored result of each task

vars == <<accepted, open, said, stored>>

Ends == {"COMPLETED", "FAILED", "CANCELLED"}
Absent == [status |-> "absent", verdict |-> "none"]
Pending == [status |-> "PENDING", verdict |-> "none"]
Results(end) == {[status |-> end, verdict |-> v] :
                   v \in IF end = "COMPLETED" THEN {"CONFIRMED", "OTHER"} ELSE {"none"}}

Init ==
  /\ accepted = {}
  /\ open = {}
  /\ said = [t \in Tasks |-> "nothing"]
  /\ stored = [t \in Tasks |-> Absent]

(* Only a task whose row is stored may open.                               *)
Accept(t) ==
  /\ t \notin accepted
  /\ accepted' = accepted \union {t}
  /\ \/ /\ stored' = [stored EXCEPT ![t] = Pending]
        /\ open' = open \union {t}
     \/ /\ stored' \in {stored, [stored EXCEPT ![t] = Pending]}
        /\ UNCHANGED open
  /\ UNCHANGED said

(* A deadline is announced as a cancellation first and then as a failure.  *)
Announce(t) ==
  /\ t \in open
  /\ UNCHANGED <<accepted, open, stored>>
  /\ \E end \in Ends :
       /\ \/ said[t] = "nothing" /\ stored[t] \in {Pending} \union Results(end)
          \/ said[t] = "CANCELLED" /\ end = "FAILED" /\ stored[t] = Pending
       /\ said' = [said EXCEPT ![t] = end]

(* Only a completed result may be stored before it is announced.           *)
Store(t) ==
  /\ t \in open
  /\ stored[t] = Pending
  /\ UNCHANGED <<accepted, open, said>>
  /\ \E result \in UNION {Results(end) : end \in Ends} :
       /\ \/ said[t] = result.status
          \/ said[t] = "nothing" /\ result.status = "COMPLETED"
       /\ stored' = [stored EXCEPT ![t] = result]

Close(t) ==
  /\ t \in open
  /\ said[t] # "nothing"
  /\ open' = open \ {t}
  /\ UNCHANGED <<accepted, said, stored>>

Restart ==
  /\ open' = {}
  /\ said' = [t \in Tasks |-> "nothing"]
  /\ stored' \in {stored, [t \in Tasks |-> Absent]}
  /\ UNCHANGED accepted

Next ==
  \/ \E t \in Tasks : Accept(t) \/ Announce(t) \/ Store(t) \/ Close(t)
  \/ Restart

Spec == Init /\ [][Next]_vars
=============================================================================
