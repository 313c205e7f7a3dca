----------------------- MODULE DiagnosisService_proofs -----------------------
(***************************************************************************)
(* Proofs about DiagnosisService, for any number of tasks, rules and       *)
(* crashes and for either repository: its types and its safety, then that  *)
(* it implements TaskLife, and then, in DiagnosisClients, that those who   *)
(* read its rows and events end up with what it has stored.                *)
(*                                                                         *)
(* No property below is inductive alone.  TaskInv says, place by place,    *)
(* what a task's goroutine has written so far; it speaks of one task only, *)
(* so a step of another task keeps it for want of anything in common.      *)
(***************************************************************************)
EXTENDS DiagnosisClients, TLAPS

(* The report of a record goes with its status.                            *)
Concluded(record) == record.status = "COMPLETED" <=> record.verdict # "none"

Undecided == {"none", "saved", "build", "start", "rules", "step", "failed",
              "netStart", "netStep", "netReport"}
Idle == {"none", "saved", "build", "start", "netStart"}
BeforeEnd == {"none", "saved", "build", "start", "rules", "step"}
Stored == {"netIncident", "netDone", "cleanup", "end", "dead"}
NetPlaces == {"netStart", "netStep", "netReport", "netSave", "netIncident",
       "netDone"}

(* What the goroutine's copy holds at each place.                          *)
CopyInv(t) ==
  /\ pc[t] \in Undecided => mem[t].verdict = "none" /\ mem[t].status #
         "COMPLETED"
  /\ pc[t] = "none" => mem[t].status = "PENDING"
  /\ pc[t] = "report" => mem[t].status = "COMPLETED"
  /\ pc[t] \in {"incident", "save", "netSave"} => Concluded(mem[t])

(* What the repository holds: a final row means the save is behind.        *)
RowInv(t) ==
  /\ Concluded(rows[t])
  /\ rows[t].status \in Final => pc[t] \in Stored

(* How much work is left, and how much was done after the context ended.   *)
WorkInv(t) ==
  /\ pc[t] \in BeforeEnd => late[t] + todo[t] <= MaxRules
  /\ pc[t] \in Idle => late[t] = 0
  /\ pc[t] = "step" => todo[t] > 0
  /\ late[t] <= 1
  /\ ctx[t] = "live" \/ pc[t] = "step" => late[t] = 0

(* Who is at work.                                                         *)
PlaceInv(t) ==
  /\ kind[t] = "none" <=> pc[t] = "none"
  /\ pc[t] \in NetPlaces => kind[t] = "network"
  /\ t \in cancels <=> pc[t] \in Running

TaskInv(t) == CopyInv(t) /\ RowInv(t) /\ WorkInv(t) /\ PlaceInv(t)
ServiceInv == TypeOK /\ \A t \in Tasks : TaskInv(t)

-----------------------------------------------------------------------------
(* The service starts with no task.                                        *)
LEMMA ServiceInvInit == Init => ServiceInv
<1> SUFFICES ASSUME Init PROVE ServiceInv
  OBVIOUS
<1>1. TypeOK
  BY ServiceAssumption DEF Init, TypeOK, Places, Record, Pending, Statuses,
         Verdicts
<1>2. ASSUME NEW t \in Tasks PROVE TaskInv(t)
  <2>1. CopyInv(t)
    BY DEF Init, CopyInv, Pending
  <2>2. RowInv(t)
    BY DEF Init, RowInv, Concluded, NoRow, Final
  <2>3. WorkInv(t)
    BY ServiceAssumption DEF Init, WorkInv, BeforeEnd
  <2>4. PlaceInv(t)
    BY DEF Init, PlaceInv, NetPlaces, Running
  <2> QED BY <2>1, <2>2, <2>3, <2>4 DEF TaskInv
<1> QED BY <1>1, <1>2 DEF ServiceInv

(* SetStatus writes a status, into a copy that stays a record ...           *)
LEMMA SetStatusType ==
  ASSUME TypeOK, NEW t \in Tasks, NEW s \in Statuses, SetStatus(t, s)
  PROVE  mem' \in [Tasks -> Record]
BY DEF TypeOK, SetStatus, Record

(* ... as Publish appends one event.                                      *)
LEMMA PublishType ==
  ASSUME TypeOK, NEW t \in Tasks, NEW e \in EventTypes, Publish(t, e)
  PROVE  events' \in [Tasks -> Seq(EventTypes)]
<1> HIDE DEF EventTypes
<1> QED BY DEF TypeOK, Publish

(* A new task has its first row and nothing else.                          *)
LEMMA CreateKeepsServiceInv ==
  ASSUME NEW t \in Tasks, NEW k \in {"resource", "network"}, ServiceInv,
         Create(t, k)
  PROVE  ServiceInv'
<1>1. TypeOK'
  <2>1. kind' \in [Tasks -> {"none", "resource", "network", "replay"}]
    BY DEF ServiceInv, TypeOK, Create, SaveTask, Goto
  <2>2. rows' \in [Tasks -> Record \union {NoRow}]
    BY DEF ServiceInv, TypeOK, Create, SaveTask, Goto
  <2>3. pc' \in [Tasks -> Places]
    BY DEF ServiceInv, TypeOK, Create, SaveTask, Goto, Places, Running
  <2> QED
    BY <2>1, <2>2, <2>3 DEF ServiceInv, TypeOK, Create, SaveTask, Goto, work
<1>2. ASSUME NEW u \in Tasks PROVE TaskInv(u)'
  <2>1. CASE u = t
    <3>1. CopyInv(t)'
      BY DEF ServiceInv, TypeOK, TaskInv, CopyInv, PlaceInv, Create, SaveTask,
             Goto, work, Concluded, Undecided, Record
    <3>2. RowInv(t)'
      BY DEF ServiceInv, TypeOK, TaskInv, CopyInv, RowInv, PlaceInv, Undecided,
             Create, SaveTask, Goto, work, Concluded, Final, Stored
    <3>3. WorkInv(t)'
      BY ServiceAssumption DEF ServiceInv, TypeOK, TaskInv, WorkInv, BeforeEnd, PlaceInv,
             Create, SaveTask, Goto, work, Idle, NetPlaces
    <3>4. PlaceInv(t)'
      BY DEF ServiceInv, TypeOK, TaskInv, PlaceInv, Create, SaveTask, Goto,
             work, NetPlaces, Running
    <3> QED BY <2>1, <3>1, <3>2, <3>3, <3>4 DEF TaskInv
  <2>2. CASE u # t
    BY <2>2 DEF ServiceInv, TypeOK, TaskInv, CopyInv, RowInv, WorkInv, BeforeEnd, PlaceInv,
           Create, SaveTask, Goto, work
  <2> QED BY <2>1, <2>2
<1> QED BY <1>1, <1>2 DEF ServiceInv

(* A task becomes cancellable as its goroutine starts.                     *)
LEMMA RegisterKeepsServiceInv ==
  ASSUME NEW t \in Tasks, ServiceInv, Register(t)
  PROVE  ServiceInv'
<1>1. TypeOK'
  <2>1. pc' \in [Tasks -> Places]
    BY DEF ServiceInv, TypeOK, Register, Goto, Places, Running
  <2> QED
    BY <2>1 DEF ServiceInv, TypeOK, Register, Goto, store, work
<1>2. ASSUME NEW u \in Tasks PROVE TaskInv(u)'
  <2>1. CASE u = t
    <3>1. CopyInv(t)'
      BY DEF ServiceInv, TypeOK, TaskInv, CopyInv, PlaceInv, Register, Goto,
             store, work, Concluded, Undecided, Record
    <3>2. RowInv(t)'
      BY DEF ServiceInv, TypeOK, TaskInv, CopyInv, RowInv, PlaceInv, Undecided,
             Register, Goto, store, work, Concluded, Final, Stored
    <3>3. WorkInv(t)'
      BY ServiceAssumption DEF ServiceInv, TypeOK, TaskInv, WorkInv, BeforeEnd, PlaceInv,
             Register, Goto, store, work, Idle, NetPlaces
    <3>4. PlaceInv(t)'
      BY DEF ServiceInv, TypeOK, TaskInv, PlaceInv, Register, Goto, store, work,
             NetPlaces, Running
    <3> QED BY <2>1, <3>1, <3>2, <3>3, <3>4 DEF TaskInv
  <2>2. CASE u # t
    BY <2>2 DEF ServiceInv, TypeOK, TaskInv, CopyInv, RowInv, WorkInv, BeforeEnd, PlaceInv,
           Register, Goto, store, work
  <2> QED BY <2>1, <2>2
<1> QED BY <1>1, <1>2 DEF ServiceInv

(* Looking a cancel function up changes no task.                           *)
LEMMA CancelLookupKeepsServiceInv ==
  ASSUME NEW t \in Tasks, ServiceInv, CancelLookup(t)
  PROVE  ServiceInv'
<1>1. TypeOK'
  <2> QED
    BY  DEF ServiceInv, TypeOK, CancelLookup, store, work
<1>2. ASSUME NEW u \in Tasks PROVE TaskInv(u)'
  <2>1. CASE u = t
    <3>1. CopyInv(t)'
      BY DEF ServiceInv, TypeOK, TaskInv, CopyInv, PlaceInv, CancelLookup,
             store, work, Concluded, Undecided, Record
    <3>2. RowInv(t)'
      BY DEF ServiceInv, TypeOK, TaskInv, CopyInv, RowInv, PlaceInv, Undecided,
             CancelLookup, store, work, Concluded, Final, Stored
    <3>3. WorkInv(t)'
      BY ServiceAssumption DEF ServiceInv, TypeOK, TaskInv, WorkInv, BeforeEnd, PlaceInv,
             CancelLookup, store, work, Idle, NetPlaces
    <3>4. PlaceInv(t)'
      BY DEF ServiceInv, TypeOK, TaskInv, PlaceInv, CancelLookup, store, work,
             NetPlaces, Running
    <3> QED BY <2>1, <3>1, <3>2, <3>3, <3>4 DEF TaskInv
  <2>2. CASE u # t
    BY <2>2 DEF ServiceInv, TypeOK, TaskInv, CopyInv, RowInv, WorkInv, BeforeEnd, PlaceInv,
           CancelLookup, store, work
  <2> QED BY <2>1, <2>2
<1> QED BY <1>1, <1>2 DEF ServiceInv

(* A cancellation ends the context only.                                   *)
LEMMA CancelCallKeepsServiceInv ==
  ASSUME NEW t \in Tasks, ServiceInv, CancelCall(t)
  PROVE  ServiceInv'
<1>1. TypeOK'
  <2>1. ctx' \in [Tasks -> {"live", "cancelled", "expired"}]
    BY DEF ServiceInv, TypeOK, CancelCall
  <2> QED
    BY <2>1 DEF ServiceInv, TypeOK, CancelCall, store, work
<1>2. ASSUME NEW u \in Tasks PROVE TaskInv(u)'
  <2>1. CASE u = t
    <3>1. CopyInv(t)'
      BY DEF ServiceInv, TypeOK, TaskInv, CopyInv, PlaceInv, CancelCall, store,
             work, Concluded, Undecided, Record
    <3>2. RowInv(t)'
      BY DEF ServiceInv, TypeOK, TaskInv, CopyInv, RowInv, PlaceInv, Undecided,
             CancelCall, store, work, Concluded, Final, Stored
    <3>3. WorkInv(t)'
      BY ServiceAssumption DEF ServiceInv, TypeOK, TaskInv, WorkInv, BeforeEnd, PlaceInv,
             CancelCall, store, work, Idle, NetPlaces
    <3>4. PlaceInv(t)'
      BY DEF ServiceInv, TypeOK, TaskInv, PlaceInv, CancelCall, store, work,
             NetPlaces, Running
    <3> QED BY <2>1, <3>1, <3>2, <3>3, <3>4 DEF TaskInv
  <2>2. CASE u # t
    BY <2>2 DEF ServiceInv, TypeOK, TaskInv, CopyInv, RowInv, WorkInv, BeforeEnd, PlaceInv,
           CancelCall, store, work
  <2> QED BY <2>1, <2>2
<1> QED BY <1>1, <1>2 DEF ServiceInv

(* So does the deadline.                                                   *)
LEMMA DeadlineKeepsServiceInv ==
  ASSUME NEW t \in Tasks, ServiceInv, Deadline(t)
  PROVE  ServiceInv'
<1>1. TypeOK'
  <2>1. ctx' \in [Tasks -> {"live", "cancelled", "expired"}]
    BY DEF ServiceInv, TypeOK, Deadline
  <2> QED
    BY <2>1 DEF ServiceInv, TypeOK, Deadline, store, work
<1>2. ASSUME NEW u \in Tasks PROVE TaskInv(u)'
  <2>1. CASE u = t
    <3>1. CopyInv(t)'
      BY DEF ServiceInv, TypeOK, TaskInv, CopyInv, PlaceInv, Deadline, store,
             work, Concluded, Undecided, Record
    <3>2. RowInv(t)'
      BY DEF ServiceInv, TypeOK, TaskInv, CopyInv, RowInv, PlaceInv, Undecided,
             Deadline, store, work, Concluded, Final, Stored
    <3>3. WorkInv(t)'
      BY ServiceAssumption DEF ServiceInv, TypeOK, TaskInv, WorkInv, BeforeEnd, PlaceInv,
             Deadline, store, work, Idle, NetPlaces
    <3>4. PlaceInv(t)'
      BY DEF ServiceInv, TypeOK, TaskInv, PlaceInv, Deadline, store, work,
             NetPlaces, Running
    <3> QED BY <2>1, <3>1, <3>2, <3>3, <3>4 DEF TaskInv
  <2>2. CASE u # t
    BY <2>2 DEF ServiceInv, TypeOK, TaskInv, CopyInv, RowInv, WorkInv, BeforeEnd, PlaceInv,
           Deadline, store, work
  <2> QED BY <2>1, <2>2
<1> QED BY <1>1, <1>2 DEF ServiceInv

(* A replay stores a PENDING row and ends.                                 *)
LEMMA ReplayKeepsServiceInv ==
  ASSUME NEW t \in Tasks, NEW i \in Tasks, ServiceInv, Replay(t, i)
  PROVE  ServiceInv'
<1>1. TypeOK'
  <2>1. kind' \in [Tasks -> {"none", "resource", "network", "replay"}]
    BY DEF ServiceInv, TypeOK, Replay, SaveTask, Goto
  <2>2. rows' \in [Tasks -> Record \union {NoRow}]
    BY DEF ServiceInv, TypeOK, Replay, SaveTask, Goto
  <2>3. pc' \in [Tasks -> Places]
    BY DEF ServiceInv, TypeOK, Replay, SaveTask, Goto, Places, Running
  <2> QED
    BY <2>1, <2>2, <2>3 DEF ServiceInv, TypeOK, Replay, SaveTask, Goto, work
<1>2. ASSUME NEW u \in Tasks PROVE TaskInv(u)'
  <2>1. CASE u = t
    <3>1. CopyInv(t)'
      BY DEF ServiceInv, TypeOK, TaskInv, CopyInv, PlaceInv, Replay, SaveTask,
             Goto, work, Concluded, Undecided, Record
    <3>2. RowInv(t)'
      BY DEF ServiceInv, TypeOK, TaskInv, CopyInv, RowInv, PlaceInv, Undecided,
             Replay, SaveTask, Goto, work, Concluded, Final, Stored
    <3>3. WorkInv(t)'
      BY ServiceAssumption DEF ServiceInv, TypeOK, TaskInv, WorkInv, BeforeEnd, PlaceInv,
             Replay, SaveTask, Goto, work, Idle, NetPlaces
    <3>4. PlaceInv(t)'
      BY DEF ServiceInv, TypeOK, TaskInv, PlaceInv, Replay, SaveTask, Goto,
             work, NetPlaces, Running
    <3> QED BY <2>1, <3>1, <3>2, <3>3, <3>4 DEF TaskInv
  <2>2. CASE u # t
    BY <2>2 DEF ServiceInv, TypeOK, TaskInv, CopyInv, RowInv, WorkInv, BeforeEnd, PlaceInv,
           Replay, SaveTask, Goto, work
  <2> QED BY <2>1, <2>2
<1> QED BY <1>1, <1>2 DEF ServiceInv

(* Building the observation decides how many rules apply.                  *)
LEMMA BuildKeepsServiceInv ==
  ASSUME NEW t \in Tasks, ServiceInv, Build(t)
  PROVE  ServiceInv'
<1>1. TypeOK'
  <2>1. pc' \in [Tasks -> Places]
    <3>1. PICK p \in {"failed", "start"} : Goto(t, p)
      BY DEF Build
    <3> QED BY <3>1 DEF ServiceInv, TypeOK, Goto, Places, Running
  <2>2. todo' \in [Tasks -> Nat]
    <3>1. CASE UNCHANGED todo
      BY <3>1 DEF ServiceInv, TypeOK
    <3>2. CASE \E n \in 0 .. MaxRules : todo' = [todo EXCEPT ![t] = n]
      <4>1. PICK n \in 0 .. MaxRules : todo' = [todo EXCEPT ![t] = n]
        BY <3>2
      <4>2. n \in Nat
        BY ServiceAssumption, <4>1
      <4> QED BY <4>1, <4>2 DEF ServiceInv, TypeOK
    <3> QED BY <3>1, <3>2 DEF Build
  <2> QED
    BY <2>1, <2>2 DEF ServiceInv, TypeOK, Build, Goto, request, store
<1>2. ASSUME NEW u \in Tasks PROVE TaskInv(u)'
  <2>1. CASE u = t
    <3>1. CopyInv(t)'
      BY DEF ServiceInv, TypeOK, TaskInv, CopyInv, PlaceInv, Build, Goto,
             request, store, Concluded, Undecided, Record
    <3>2. RowInv(t)'
      BY DEF ServiceInv, TypeOK, TaskInv, CopyInv, RowInv, PlaceInv, Undecided,
             Build, Goto, request, store, Concluded, Final, Stored
    <3>3. WorkInv(t)'
      BY ServiceAssumption DEF ServiceInv, TypeOK, TaskInv, WorkInv, BeforeEnd, PlaceInv,
             Build, Goto, request, store, Idle, NetPlaces
    <3>4. PlaceInv(t)'
      BY DEF ServiceInv, TypeOK, TaskInv, PlaceInv, Build, Goto, request, store,
             NetPlaces, Running
    <3> QED BY <2>1, <3>1, <3>2, <3>3, <3>4 DEF TaskInv
  <2>2. CASE u # t
    BY <2>2 DEF ServiceInv, TypeOK, TaskInv, CopyInv, RowInv, WorkInv, BeforeEnd, PlaceInv,
           Build, Goto, request, store
  <2> QED BY <2>1, <2>2
<1> QED BY <1>1, <1>2 DEF ServiceInv

(* The start is announced before anything is concluded.                    *)
LEMMA StartKeepsServiceInv ==
  ASSUME NEW t \in Tasks, ServiceInv, Start(t)
  PROVE  ServiceInv'
<1>1. TypeOK'
  <2>1. mem' \in [Tasks -> Record]
    BY SetStatusType DEF ServiceInv, Start, Statuses
  <2>2. events' \in [Tasks -> Seq(EventTypes)]
    BY PublishType DEF ServiceInv, Start, EventTypes, Terminal
  <2>3. pc' \in [Tasks -> Places]
    BY DEF ServiceInv, TypeOK, Start, Goto, SetStatus, Publish, Places, Running
  <2> QED
    BY <2>1, <2>2, <2>3 DEF ServiceInv, TypeOK, Start, Goto, SetStatus, Publish,
           request, store
<1>2. ASSUME NEW u \in Tasks PROVE TaskInv(u)'
  <2>1. CASE u = t
    <3>1. CopyInv(t)'
      BY DEF ServiceInv, TypeOK, TaskInv, CopyInv, PlaceInv, Start, Goto,
             SetStatus, Publish, request, store, Concluded, Undecided, Record
    <3>2. RowInv(t)'
      BY DEF ServiceInv, TypeOK, TaskInv, CopyInv, RowInv, PlaceInv, Undecided,
             Start, Goto, SetStatus, Publish, request, store, Concluded, Final,
             Stored
    <3>3. WorkInv(t)'
      BY ServiceAssumption DEF ServiceInv, TypeOK, TaskInv, WorkInv, BeforeEnd, PlaceInv,
             Start, Goto, SetStatus, Publish, request, store, Idle, NetPlaces
    <3>4. PlaceInv(t)'
      BY DEF ServiceInv, TypeOK, TaskInv, PlaceInv, Start, Goto, SetStatus,
             Publish, request, store, NetPlaces, Running
    <3> QED BY <2>1, <3>1, <3>2, <3>3, <3>4 DEF TaskInv
  <2>2. CASE u # t
    BY <2>2 DEF ServiceInv, TypeOK, TaskInv, CopyInv, RowInv, WorkInv, BeforeEnd, PlaceInv,
           Start, Goto, SetStatus, Publish, request, store
  <2> QED BY <2>1, <2>2
<1> QED BY <1>1, <1>2 DEF ServiceInv

(* The check lets one more rule through only under a live context.         *)
LEMMA CheckKeepsServiceInv ==
  ASSUME NEW t \in Tasks, ServiceInv, Check(t)
  PROVE  ServiceInv'
<1>1. TypeOK'
  <2>1. pc' \in [Tasks -> Places]
    <3>1. PICK p \in {"step", "save", "failed"} : Goto(t, p)
      BY DEF Check
    <3> QED BY <3>1 DEF ServiceInv, TypeOK, Goto, Places, Running
  <2>2. mem' \in [Tasks -> Record]
    <3>1. UNCHANGED mem \/ SetStatus(t, "CANCELLED")
      BY DEF Check
    <3> QED BY <3>1, SetStatusType DEF ServiceInv, TypeOK, Statuses
  <2>3. events' \in [Tasks -> Seq(EventTypes)]
    <3>1. UNCHANGED events \/ Publish(t, "task_cancelled")
      BY DEF Check
    <3> QED BY <3>1, PublishType DEF ServiceInv, TypeOK, EventTypes, Terminal
  <2> QED
    BY <2>1, <2>2, <2>3 DEF ServiceInv, TypeOK, Check, Goto, SetStatus, Publish,
           request, store
<1>2. ASSUME NEW u \in Tasks PROVE TaskInv(u)'
  <2>1. CASE u = t
    <3>1. CopyInv(t)'
      BY DEF ServiceInv, TypeOK, TaskInv, CopyInv, PlaceInv, Check, Goto,
             SetStatus, Publish, request, store, Concluded, Undecided, Record
    <3>2. RowInv(t)'
      BY DEF ServiceInv, TypeOK, TaskInv, CopyInv, RowInv, PlaceInv, Undecided,
             Check, Goto, SetStatus, Publish, request, store, Concluded, Final,
             Stored
    <3>3. WorkInv(t)'
      BY ServiceAssumption DEF ServiceInv, TypeOK, TaskInv, WorkInv, BeforeEnd, PlaceInv,
             Check, Goto, SetStatus, Publish, request, store, Idle, NetPlaces
    <3>4. PlaceInv(t)'
      BY DEF ServiceInv, TypeOK, TaskInv, PlaceInv, Check, Goto, SetStatus,
             Publish, request, store, NetPlaces, Running
    <3> QED BY <2>1, <3>1, <3>2, <3>3, <3>4 DEF TaskInv
  <2>2. CASE u # t
    BY <2>2 DEF ServiceInv, TypeOK, TaskInv, CopyInv, RowInv, WorkInv, BeforeEnd, PlaceInv,
           Check, Goto, SetStatus, Publish, request, store
  <2> QED BY <2>1, <2>2
<1> QED BY <1>1, <1>2 DEF ServiceInv

(* A rule moves one unit of work from todo, perhaps to late.               *)
LEMMA StepKeepsServiceInv ==
  ASSUME NEW t \in Tasks, ServiceInv, Step(t)
  PROVE  ServiceInv'
<1>1. TypeOK'
  <2>1. events' \in [Tasks -> Seq(EventTypes)]
    BY PublishType DEF ServiceInv, Step, EventTypes, Terminal
  <2>2. todo' \in [Tasks -> Nat]
    BY ServiceAssumption DEF ServiceInv, TypeOK, Step, Goto, Publish, TaskInv,
           WorkInv, BeforeEnd
  <2>3. late' \in [Tasks -> 0 .. MaxRules]
    BY ServiceAssumption DEF ServiceInv, TypeOK, Step, Goto, Publish, TaskInv,
           WorkInv, BeforeEnd
  <2>4. pc' \in [Tasks -> Places]
    BY DEF ServiceInv, TypeOK, Step, Goto, Publish, Places, Running
  <2> QED
    BY <2>1, <2>2, <2>3, <2>4 DEF ServiceInv, TypeOK, Step, Goto, Publish,
           request, store
<1>2. ASSUME NEW u \in Tasks PROVE TaskInv(u)'
  <2>1. CASE u = t
    <3>1. CopyInv(t)'
      BY DEF ServiceInv, TypeOK, TaskInv, CopyInv, PlaceInv, Step, Goto,
             Publish, request, store, Concluded, Undecided, Record
    <3>2. RowInv(t)'
      BY DEF ServiceInv, TypeOK, TaskInv, CopyInv, RowInv, PlaceInv, Undecided,
             Step, Goto, Publish, request, store, Concluded, Final, Stored
    <3>3. WorkInv(t)'
      BY ServiceAssumption DEF ServiceInv, TypeOK, TaskInv, WorkInv, BeforeEnd, PlaceInv,
             Step, Goto, Publish, request, store, Idle, NetPlaces
    <3>4. PlaceInv(t)'
      BY DEF ServiceInv, TypeOK, TaskInv, PlaceInv, Step, Goto, Publish,
             request, store, NetPlaces, Running
    <3> QED BY <2>1, <3>1, <3>2, <3>3, <3>4 DEF TaskInv
  <2>2. CASE u # t
    BY <2>2 DEF ServiceInv, TypeOK, TaskInv, CopyInv, RowInv, WorkInv, BeforeEnd, PlaceInv,
           Step, Goto, Publish, request, store
  <2> QED BY <2>1, <2>2
<1> QED BY <1>1, <1>2 DEF ServiceInv

(* Completion precedes the verdict, and the save.                          *)
LEMMA CompleteKeepsServiceInv ==
  ASSUME NEW t \in Tasks, ServiceInv, Complete(t)
  PROVE  ServiceInv'
<1>1. TypeOK'
  <2>1. mem' \in [Tasks -> Record]
    BY SetStatusType DEF ServiceInv, Complete, Statuses
  <2>2. events' \in [Tasks -> Seq(EventTypes)]
    BY PublishType DEF ServiceInv, Complete, EventTypes, Terminal
  <2>3. pc' \in [Tasks -> Places]
    BY DEF ServiceInv, TypeOK, Complete, Goto, SetStatus, Publish, Places,
           Running
  <2> QED
    BY <2>1, <2>2, <2>3 DEF ServiceInv, TypeOK, Complete, Goto, SetStatus,
           Publish, request, store
<1>2. ASSUME NEW u \in Tasks PROVE TaskInv(u)'
  <2>1. CASE u = t
    <3>1. CopyInv(t)'
      BY DEF ServiceInv, TypeOK, TaskInv, CopyInv, PlaceInv, Complete, Goto,
             SetStatus, Publish, request, store, Concluded, Undecided, Record
    <3>2. RowInv(t)'
      BY DEF ServiceInv, TypeOK, TaskInv, CopyInv, RowInv, PlaceInv, Undecided,
             Complete, Goto, SetStatus, Publish, request, store, Concluded,
             Final, Stored
    <3>3. WorkInv(t)'
      BY ServiceAssumption DEF ServiceInv, TypeOK, TaskInv, WorkInv, BeforeEnd, PlaceInv,
             Complete, Goto, SetStatus, Publish, request, store, Idle, NetPlaces
    <3>4. PlaceInv(t)'
      BY DEF ServiceInv, TypeOK, TaskInv, PlaceInv, Complete, Goto, SetStatus,
             Publish, request, store, NetPlaces, Running
    <3> QED BY <2>1, <3>1, <3>2, <3>3, <3>4 DEF TaskInv
  <2>2. CASE u # t
    BY <2>2 DEF ServiceInv, TypeOK, TaskInv, CopyInv, RowInv, WorkInv, BeforeEnd, PlaceInv,
           Complete, Goto, SetStatus, Publish, request, store
  <2> QED BY <2>1, <2>2
<1> QED BY <1>1, <1>2 DEF ServiceInv

(* A failure has no verdict.                                               *)
LEMMA FailKeepsServiceInv ==
  ASSUME NEW t \in Tasks, ServiceInv, Fail(t)
  PROVE  ServiceInv'
<1>1. TypeOK'
  <2>1. mem' \in [Tasks -> Record]
    BY SetStatusType DEF ServiceInv, Fail, Statuses
  <2>2. events' \in [Tasks -> Seq(EventTypes)]
    BY PublishType DEF ServiceInv, Fail, EventTypes, Terminal
  <2>3. pc' \in [Tasks -> Places]
    BY DEF ServiceInv, TypeOK, Fail, Goto, SetStatus, Publish, Places, Running
  <2> QED
    BY <2>1, <2>2, <2>3 DEF ServiceInv, TypeOK, Fail, Goto, SetStatus, Publish,
           request, store
<1>2. ASSUME NEW u \in Tasks PROVE TaskInv(u)'
  <2>1. CASE u = t
    <3>1. CopyInv(t)'
      BY DEF ServiceInv, TypeOK, TaskInv, CopyInv, PlaceInv, Fail, Goto,
             SetStatus, Publish, request, store, Concluded, Undecided, Record
    <3>2. RowInv(t)'
      BY DEF ServiceInv, TypeOK, TaskInv, CopyInv, RowInv, PlaceInv, Undecided,
             Fail, Goto, SetStatus, Publish, request, store, Concluded, Final,
             Stored
    <3>3. WorkInv(t)'
      BY ServiceAssumption DEF ServiceInv, TypeOK, TaskInv, WorkInv, BeforeEnd, PlaceInv,
             Fail, Goto, SetStatus, Publish, request, store, Idle, NetPlaces
    <3>4. PlaceInv(t)'
      BY DEF ServiceInv, TypeOK, TaskInv, PlaceInv, Fail, Goto, SetStatus,
             Publish, request, store, NetPlaces, Running
    <3> QED BY <2>1, <3>1, <3>2, <3>3, <3>4 DEF TaskInv
  <2>2. CASE u # t
    BY <2>2 DEF ServiceInv, TypeOK, TaskInv, CopyInv, RowInv, WorkInv, BeforeEnd, PlaceInv,
           Fail, Goto, SetStatus, Publish, request, store
  <2> QED BY <2>1, <2>2
<1> QED BY <1>1, <1>2 DEF ServiceInv

(* The verdict joins a COMPLETED copy.                                     *)
LEMMA ReportKeepsServiceInv ==
  ASSUME NEW t \in Tasks, ServiceInv, Report(t)
  PROVE  ServiceInv'
<1>1. TypeOK'
  <2>1. mem' \in [Tasks -> Record]
    <3>1. PICK v \in Verdicts : mem' = [mem EXCEPT ![t].verdict = v]
      BY DEF Report, Verdicts
    <3> QED BY <3>1 DEF ServiceInv, TypeOK, Record
  <2>2. pc' \in [Tasks -> Places]
    BY DEF ServiceInv, TypeOK, Report, Goto, Places, Running
  <2> QED
    BY <2>1, <2>2 DEF ServiceInv, TypeOK, Report, Goto, request, store
<1>2. ASSUME NEW u \in Tasks PROVE TaskInv(u)'
  <2>1. CASE u = t
    <3>1. CopyInv(t)'
      BY DEF ServiceInv, TypeOK, TaskInv, CopyInv, PlaceInv, Report, Goto,
             request, store, Concluded, Undecided, Record
    <3>2. RowInv(t)'
      BY DEF ServiceInv, TypeOK, TaskInv, CopyInv, RowInv, PlaceInv, Undecided,
             Report, Goto, request, store, Concluded, Final, Stored
    <3>3. WorkInv(t)'
      BY ServiceAssumption DEF ServiceInv, TypeOK, TaskInv, WorkInv, BeforeEnd, PlaceInv,
             Report, Goto, request, store, Idle, NetPlaces
    <3>4. PlaceInv(t)'
      BY DEF ServiceInv, TypeOK, TaskInv, PlaceInv, Report, Goto, request,
             store, NetPlaces, Running
    <3> QED BY <2>1, <3>1, <3>2, <3>3, <3>4 DEF TaskInv
  <2>2. CASE u # t
    BY <2>2 DEF ServiceInv, TypeOK, TaskInv, CopyInv, RowInv, WorkInv, BeforeEnd, PlaceInv,
           Report, Goto, request, store
  <2> QED BY <2>1, <2>2
<1> QED BY <1>1, <1>2 DEF ServiceInv

(* The incident leaves the task alone.                                     *)
LEMMA IncidentKeepsServiceInv ==
  ASSUME NEW t \in Tasks, ServiceInv, Incident(t)
  PROVE  ServiceInv'
<1>1. TypeOK'
  <2>1. incidents' \in [Tasks -> {"none", "saved", "refused"}]
    BY DEF ServiceInv, TypeOK, Incident, Goto, SaveIncident
  <2>2. pc' \in [Tasks -> Places]
    BY DEF ServiceInv, TypeOK, Incident, Goto, SaveIncident, Places, Running
  <2> QED
    BY <2>1, <2>2 DEF ServiceInv, TypeOK, Incident, Goto, SaveIncident, request,
           work
<1>2. ASSUME NEW u \in Tasks PROVE TaskInv(u)'
  <2>1. CASE u = t
    <3>1. CopyInv(t)'
      BY DEF ServiceInv, TypeOK, TaskInv, CopyInv, PlaceInv, Incident, Goto,
             SaveIncident, request, work, Concluded, Undecided, Record
    <3>2. RowInv(t)'
      BY DEF ServiceInv, TypeOK, TaskInv, CopyInv, RowInv, PlaceInv, Undecided,
             Incident, Goto, SaveIncident, request, work, Concluded, Final,
             Stored
    <3>3. WorkInv(t)'
      BY ServiceAssumption DEF ServiceInv, TypeOK, TaskInv, WorkInv, BeforeEnd, PlaceInv,
             Incident, Goto, SaveIncident, request, work, Idle, NetPlaces
    <3>4. PlaceInv(t)'
      BY DEF ServiceInv, TypeOK, TaskInv, PlaceInv, Incident, Goto,
             SaveIncident, request, work, NetPlaces, Running
    <3> QED BY <2>1, <3>1, <3>2, <3>3, <3>4 DEF TaskInv
  <2>2. CASE u # t
    BY <2>2 DEF ServiceInv, TypeOK, TaskInv, CopyInv, RowInv, WorkInv, BeforeEnd, PlaceInv,
           Incident, Goto, SaveIncident, request, work
  <2> QED BY <2>1, <2>2
<1> QED BY <1>1, <1>2 DEF ServiceInv

(* The save writes a concluded copy, and is the only one.                  *)
LEMMA SaveKeepsServiceInv ==
  ASSUME NEW t \in Tasks, ServiceInv, Save(t)
  PROVE  ServiceInv'
<1>1. TypeOK'
  <2>1. rows' \in [Tasks -> Record \union {NoRow}]
    BY ZenonT(30) DEF ServiceInv, TypeOK, Save, Goto, SaveTask
  <2>2. pc' \in [Tasks -> Places]
    BY DEF ServiceInv, TypeOK, Save, Goto, SaveTask, Places, Running
  <2> QED
    BY <2>1, <2>2 DEF ServiceInv, TypeOK, Save, Goto, SaveTask, request, work
<1>2. ASSUME NEW u \in Tasks PROVE TaskInv(u)'
  <2>1. CASE u = t
    <3>1. CopyInv(t)'
      BY DEF ServiceInv, TypeOK, TaskInv, CopyInv, PlaceInv, Save, Goto,
             SaveTask, request, work, Concluded, Undecided, Record
    <3>2. RowInv(t)'
      BY DEF ServiceInv, TypeOK, TaskInv, CopyInv, RowInv, PlaceInv, Undecided,
             Save, Goto, SaveTask, request, work, Concluded, Final, Stored
    <3>3. WorkInv(t)'
      BY ServiceAssumption DEF ServiceInv, TypeOK, TaskInv, WorkInv, BeforeEnd, PlaceInv,
             Save, Goto, SaveTask, request, work, Idle, NetPlaces
    <3>4. PlaceInv(t)'
      BY DEF ServiceInv, TypeOK, TaskInv, PlaceInv, Save, Goto, SaveTask,
             request, work, NetPlaces, Running
    <3> QED BY <2>1, <3>1, <3>2, <3>3, <3>4 DEF TaskInv
  <2>2. CASE u # t
    BY <2>2 DEF ServiceInv, TypeOK, TaskInv, CopyInv, RowInv, WorkInv, BeforeEnd, PlaceInv,
           Save, Goto, SaveTask, request, work
  <2> QED BY <2>1, <2>2
<1> QED BY <1>1, <1>2 DEF ServiceInv

(* The goroutine withdraws its cancel function at its end.                 *)
LEMMA CleanupKeepsServiceInv ==
  ASSUME NEW t \in Tasks, ServiceInv, Cleanup(t)
  PROVE  ServiceInv'
<1>1. TypeOK'
  <2>1. ctx' \in [Tasks -> {"live", "cancelled", "expired"}]
    BY DEF ServiceInv, TypeOK, Cleanup, Goto
  <2>2. pc' \in [Tasks -> Places]
    BY DEF ServiceInv, TypeOK, Cleanup, Goto, Places, Running
  <2> QED
    BY <2>1, <2>2 DEF ServiceInv, TypeOK, Cleanup, Goto, store, work
<1>2. ASSUME NEW u \in Tasks PROVE TaskInv(u)'
  <2>1. CASE u = t
    <3>1. CopyInv(t)'
      BY DEF ServiceInv, TypeOK, TaskInv, CopyInv, PlaceInv, Cleanup, Goto,
             store, work, Concluded, Undecided, Record
    <3>2. RowInv(t)'
      BY DEF ServiceInv, TypeOK, TaskInv, CopyInv, RowInv, PlaceInv, Undecided,
             Cleanup, Goto, store, work, Concluded, Final, Stored
    <3>3. WorkInv(t)'
      BY ServiceAssumption DEF ServiceInv, TypeOK, TaskInv, WorkInv, BeforeEnd, PlaceInv,
             Cleanup, Goto, store, work, Idle, NetPlaces
    <3>4. PlaceInv(t)'
      BY DEF ServiceInv, TypeOK, TaskInv, PlaceInv, Cleanup, Goto, store, work,
             NetPlaces, Running
    <3> QED BY <2>1, <3>1, <3>2, <3>3, <3>4 DEF TaskInv
  <2>2. CASE u # t
    BY <2>2 DEF ServiceInv, TypeOK, TaskInv, CopyInv, RowInv, WorkInv, BeforeEnd, PlaceInv,
           Cleanup, Goto, store, work
  <2> QED BY <2>1, <2>2
<1> QED BY <1>1, <1>2 DEF ServiceInv

(* A network diagnosis starts with its whole path to do.                   *)
LEMMA NetStartKeepsServiceInv ==
  ASSUME NEW t \in Tasks, ServiceInv, NetStart(t)
  PROVE  ServiceInv'
<1>1. TypeOK'
  <2>1. mem' \in [Tasks -> Record]
    BY SetStatusType DEF ServiceInv, NetStart, Statuses
  <2>2. events' \in [Tasks -> Seq(EventTypes)]
    BY PublishType DEF ServiceInv, NetStart, EventTypes, Terminal
  <2>3. todo' \in [Tasks -> Nat]
    BY ServiceAssumption DEF ServiceInv, TypeOK, NetStart, Goto, SetStatus,
           Publish, TaskInv, WorkInv, BeforeEnd
  <2>4. pc' \in [Tasks -> Places]
    BY DEF ServiceInv, TypeOK, NetStart, Goto, SetStatus, Publish, Places,
           Running
  <2> QED
    BY <2>1, <2>2, <2>3, <2>4 DEF ServiceInv, TypeOK, NetStart, Goto, SetStatus,
           Publish, request, store
<1>2. ASSUME NEW u \in Tasks PROVE TaskInv(u)'
  <2>1. CASE u = t
    <3>1. CopyInv(t)'
      BY DEF ServiceInv, TypeOK, TaskInv, CopyInv, PlaceInv, NetStart, Goto,
             SetStatus, Publish, request, store, Concluded, Undecided, Record
    <3>2. RowInv(t)'
      BY DEF ServiceInv, TypeOK, TaskInv, CopyInv, RowInv, PlaceInv, Undecided,
             NetStart, Goto, SetStatus, Publish, request, store, Concluded,
             Final, Stored
    <3>3. WorkInv(t)'
      BY ServiceAssumption DEF ServiceInv, TypeOK, TaskInv, WorkInv, BeforeEnd, PlaceInv,
             NetStart, Goto, SetStatus, Publish, request, store, Idle, NetPlaces
    <3>4. PlaceInv(t)'
      BY DEF ServiceInv, TypeOK, TaskInv, PlaceInv, NetStart, Goto, SetStatus,
             Publish, request, store, NetPlaces, Running
    <3> QED BY <2>1, <3>1, <3>2, <3>3, <3>4 DEF TaskInv
  <2>2. CASE u # t
    BY <2>2 DEF ServiceInv, TypeOK, TaskInv, CopyInv, RowInv, WorkInv, BeforeEnd, PlaceInv,
           NetStart, Goto, SetStatus, Publish, request, store
  <2> QED BY <2>1, <2>2
<1> QED BY <1>1, <1>2 DEF ServiceInv

(* A step of the path is done whatever the context.                        *)
LEMMA NetStepKeepsServiceInv ==
  ASSUME NEW t \in Tasks, ServiceInv, NetStep(t)
  PROVE  ServiceInv'
<1>1. TypeOK'
  <2>1. events' \in [Tasks -> Seq(EventTypes)]
    BY PublishType DEF ServiceInv, NetStep, EventTypes, Terminal
  <2>2. todo' \in [Tasks -> Nat]
    BY ServiceAssumption DEF ServiceInv, TypeOK, NetStep, Publish, TaskInv,
           WorkInv, BeforeEnd
  <2> QED
    BY <2>1, <2>2 DEF ServiceInv, TypeOK, NetStep, Publish, request, store
<1>2. ASSUME NEW u \in Tasks PROVE TaskInv(u)'
  <2>1. CASE u = t
    <3>1. CopyInv(t)'
      BY DEF ServiceInv, TypeOK, TaskInv, CopyInv, PlaceInv, NetStep, Publish,
             request, store, Concluded, Undecided, Record
    <3>2. RowInv(t)'
      BY DEF ServiceInv, TypeOK, TaskInv, CopyInv, RowInv, PlaceInv, Undecided,
             NetStep, Publish, request, store, Concluded, Final, Stored
    <3>3. WorkInv(t)'
      BY ServiceAssumption DEF ServiceInv, TypeOK, TaskInv, WorkInv, BeforeEnd, PlaceInv,
             NetStep, Publish, request, store, Idle, NetPlaces
    <3>4. PlaceInv(t)'
      BY DEF ServiceInv, TypeOK, TaskInv, PlaceInv, NetStep, Publish, request,
             store, NetPlaces, Running
    <3> QED BY <2>1, <3>1, <3>2, <3>3, <3>4 DEF TaskInv
  <2>2. CASE u # t
    BY <2>2 DEF ServiceInv, TypeOK, TaskInv, CopyInv, RowInv, WorkInv, BeforeEnd, PlaceInv,
           NetStep, Publish, request, store
  <2> QED BY <2>1, <2>2
<1> QED BY <1>1, <1>2 DEF ServiceInv

(* The hypothesis follows the path.                                        *)
LEMMA NetHypothesisKeepsServiceInv ==
  ASSUME NEW t \in Tasks, ServiceInv, NetHypothesis(t)
  PROVE  ServiceInv'
<1>1. TypeOK'
  <2>1. events' \in [Tasks -> Seq(EventTypes)]
    BY PublishType DEF ServiceInv, NetHypothesis, EventTypes, Terminal
  <2>2. pc' \in [Tasks -> Places]
    BY DEF ServiceInv, TypeOK, NetHypothesis, Goto, Publish, Places, Running
  <2> QED
    BY <2>1, <2>2 DEF ServiceInv, TypeOK, NetHypothesis, Goto, Publish, request,
           store
<1>2. ASSUME NEW u \in Tasks PROVE TaskInv(u)'
  <2>1. CASE u = t
    <3>1. CopyInv(t)'
      BY DEF ServiceInv, TypeOK, TaskInv, CopyInv, PlaceInv, NetHypothesis,
             Goto, Publish, request, store, Concluded, Undecided, Record
    <3>2. RowInv(t)'
      BY DEF ServiceInv, TypeOK, TaskInv, CopyInv, RowInv, PlaceInv, Undecided,
             NetHypothesis, Goto, Publish, request, store, Concluded, Final,
             Stored
    <3>3. WorkInv(t)'
      BY ServiceAssumption DEF ServiceInv, TypeOK, TaskInv, WorkInv, BeforeEnd, PlaceInv,
             NetHypothesis, Goto, Publish, request, store, Idle, NetPlaces
    <3>4. PlaceInv(t)'
      BY DEF ServiceInv, TypeOK, TaskInv, PlaceInv, NetHypothesis, Goto,
             Publish, request, store, NetPlaces, Running
    <3> QED BY <2>1, <3>1, <3>2, <3>3, <3>4 DEF TaskInv
  <2>2. CASE u # t
    BY <2>2 DEF ServiceInv, TypeOK, TaskInv, CopyInv, RowInv, WorkInv, BeforeEnd, PlaceInv,
           NetHypothesis, Goto, Publish, request, store
  <2> QED BY <2>1, <2>2
<1> QED BY <1>1, <1>2 DEF ServiceInv

(* Status and verdict are set in one step.                                 *)
LEMMA NetReportKeepsServiceInv ==
  ASSUME NEW t \in Tasks, ServiceInv, NetReport(t)
  PROVE  ServiceInv'
<1>1. TypeOK'
  <2>1. mem' \in [Tasks -> Record]
    BY DEF ServiceInv, TypeOK, NetReport, Goto, Record, Statuses, Verdicts
  <2>2. pc' \in [Tasks -> Places]
    BY DEF ServiceInv, TypeOK, NetReport, Goto, Places, Running
  <2> QED
    BY <2>1, <2>2 DEF ServiceInv, TypeOK, NetReport, Goto, request, store
<1>2. ASSUME NEW u \in Tasks PROVE TaskInv(u)'
  <2>1. CASE u = t
    <3>1. CopyInv(t)'
      BY DEF ServiceInv, TypeOK, TaskInv, CopyInv, PlaceInv, NetReport, Goto,
             request, store, Concluded, Undecided, Record
    <3>2. RowInv(t)'
      BY DEF ServiceInv, TypeOK, TaskInv, CopyInv, RowInv, PlaceInv, Undecided,
             NetReport, Goto, request, store, Concluded, Final, Stored
    <3>3. WorkInv(t)'
      BY ServiceAssumption DEF ServiceInv, TypeOK, TaskInv, WorkInv, BeforeEnd, PlaceInv,
             NetReport, Goto, request, store, Idle, NetPlaces
    <3>4. PlaceInv(t)'
      BY DEF ServiceInv, TypeOK, TaskInv, PlaceInv, NetReport, Goto, request,
             store, NetPlaces, Running
    <3> QED BY <2>1, <3>1, <3>2, <3>3, <3>4 DEF TaskInv
  <2>2. CASE u # t
    BY <2>2 DEF ServiceInv, TypeOK, TaskInv, CopyInv, RowInv, WorkInv, BeforeEnd, PlaceInv,
           NetReport, Goto, request, store
  <2> QED BY <2>1, <2>2
<1> QED BY <1>1, <1>2 DEF ServiceInv

(* The save of a network diagnosis writes a concluded copy.                *)
LEMMA NetSaveKeepsServiceInv ==
  ASSUME NEW t \in Tasks, ServiceInv, NetSave(t)
  PROVE  ServiceInv'
<1>1. TypeOK'
  <2>1. rows' \in [Tasks -> Record \union {NoRow}]
    BY ZenonT(30) DEF ServiceInv, TypeOK, NetSave, Goto, SaveTask
  <2>2. pc' \in [Tasks -> Places]
    BY DEF ServiceInv, TypeOK, NetSave, Goto, SaveTask, Places, Running
  <2> QED
    BY <2>1, <2>2 DEF ServiceInv, TypeOK, NetSave, Goto, SaveTask, request, work
<1>2. ASSUME NEW u \in Tasks PROVE TaskInv(u)'
  <2>1. CASE u = t
    <3>1. CopyInv(t)'
      BY DEF ServiceInv, TypeOK, TaskInv, CopyInv, PlaceInv, NetSave, Goto,
             SaveTask, request, work, Concluded, Undecided, Record
    <3>2. RowInv(t)'
      BY DEF ServiceInv, TypeOK, TaskInv, CopyInv, RowInv, PlaceInv, Undecided,
             NetSave, Goto, SaveTask, request, work, Concluded, Final, Stored
    <3>3. WorkInv(t)'
      BY ServiceAssumption DEF ServiceInv, TypeOK, TaskInv, WorkInv, BeforeEnd, PlaceInv,
             NetSave, Goto, SaveTask, request, work, Idle, NetPlaces
    <3>4. PlaceInv(t)'
      BY DEF ServiceInv, TypeOK, TaskInv, PlaceInv, NetSave, Goto, SaveTask,
             request, work, NetPlaces, Running
    <3> QED BY <2>1, <3>1, <3>2, <3>3, <3>4 DEF TaskInv
  <2>2. CASE u # t
    BY <2>2 DEF ServiceInv, TypeOK, TaskInv, CopyInv, RowInv, WorkInv, BeforeEnd, PlaceInv,
           NetSave, Goto, SaveTask, request, work
  <2> QED BY <2>1, <2>2
<1> QED BY <1>1, <1>2 DEF ServiceInv

(* The incident follows the save.                                          *)
LEMMA NetIncidentKeepsServiceInv ==
  ASSUME NEW t \in Tasks, ServiceInv, NetIncident(t)
  PROVE  ServiceInv'
<1>1. TypeOK'
  <2>1. incidents' \in [Tasks -> {"none", "saved", "refused"}]
    BY DEF ServiceInv, TypeOK, NetIncident, Goto, SaveIncident
  <2>2. pc' \in [Tasks -> Places]
    BY DEF ServiceInv, TypeOK, NetIncident, Goto, SaveIncident, Places, Running
  <2> QED
    BY <2>1, <2>2 DEF ServiceInv, TypeOK, NetIncident, Goto, SaveIncident,
           request, work
<1>2. ASSUME NEW u \in Tasks PROVE TaskInv(u)'
  <2>1. CASE u = t
    <3>1. CopyInv(t)'
      BY DEF ServiceInv, TypeOK, TaskInv, CopyInv, PlaceInv, NetIncident, Goto,
             SaveIncident, request, work, Concluded, Undecided, Record
    <3>2. RowInv(t)'
      BY DEF ServiceInv, TypeOK, TaskInv, CopyInv, RowInv, PlaceInv, Undecided,
             NetIncident, Goto, SaveIncident, request, work, Concluded, Final,
             Stored
    <3>3. WorkInv(t)'
      BY ServiceAssumption DEF ServiceInv, TypeOK, TaskInv, WorkInv, BeforeEnd, PlaceInv,
             NetIncident, Goto, SaveIncident, request, work, Idle, NetPlaces
    <3>4. PlaceInv(t)'
      BY DEF ServiceInv, TypeOK, TaskInv, PlaceInv, NetIncident, Goto,
             SaveIncident, request, work, NetPlaces, Running
    <3> QED BY <2>1, <3>1, <3>2, <3>3, <3>4 DEF TaskInv
  <2>2. CASE u # t
    BY <2>2 DEF ServiceInv, TypeOK, TaskInv, CopyInv, RowInv, WorkInv, BeforeEnd, PlaceInv,
           NetIncident, Goto, SaveIncident, request, work
  <2> QED BY <2>1, <2>2
<1> QED BY <1>1, <1>2 DEF ServiceInv

(* The announcement follows the save.                                      *)
LEMMA NetCompleteKeepsServiceInv ==
  ASSUME NEW t \in Tasks, ServiceInv, NetComplete(t)
  PROVE  ServiceInv'
<1>1. TypeOK'
  <2>1. events' \in [Tasks -> Seq(EventTypes)]
    BY PublishType DEF ServiceInv, NetComplete, EventTypes, Terminal
  <2>2. pc' \in [Tasks -> Places]
    BY DEF ServiceInv, TypeOK, NetComplete, Goto, Publish, Places, Running
  <2> QED
    BY <2>1, <2>2 DEF ServiceInv, TypeOK, NetComplete, Goto, Publish, request,
           store
<1>2. ASSUME NEW u \in Tasks PROVE TaskInv(u)'
  <2>1. CASE u = t
    <3>1. CopyInv(t)'
      BY DEF ServiceInv, TypeOK, TaskInv, CopyInv, PlaceInv, NetComplete, Goto,
             Publish, request, store, Concluded, Undecided, Record
    <3>2. RowInv(t)'
      BY DEF ServiceInv, TypeOK, TaskInv, CopyInv, RowInv, PlaceInv, Undecided,
             NetComplete, Goto, Publish, request, store, Concluded, Final,
             Stored
    <3>3. WorkInv(t)'
      BY ServiceAssumption DEF ServiceInv, TypeOK, TaskInv, WorkInv, BeforeEnd, PlaceInv,
             NetComplete, Goto, Publish, request, store, Idle, NetPlaces
    <3>4. PlaceInv(t)'
      BY DEF ServiceInv, TypeOK, TaskInv, PlaceInv, NetComplete, Goto, Publish,
             request, store, NetPlaces, Running
    <3> QED BY <2>1, <3>1, <3>2, <3>3, <3>4 DEF TaskInv
  <2>2. CASE u # t
    BY <2>2 DEF ServiceInv, TypeOK, TaskInv, CopyInv, RowInv, WorkInv, BeforeEnd, PlaceInv,
           NetComplete, Goto, Publish, request, store
  <2> QED BY <2>1, <2>2
<1> QED BY <1>1, <1>2 DEF ServiceInv

(* The end of the process: what ran is dead, what was stored stays or goes.*)
LEMMA CrashKeepsServiceInv ==
  ASSUME ServiceInv, Crash
  PROVE  ServiceInv'
<1>1. TypeOK'
  <2>1. pc' \in [Tasks -> Places]
    BY DEF ServiceInv, TypeOK, Crash, Places
  <2>2. rows' \in [Tasks -> Record \union {NoRow}]
    BY DEF ServiceInv, TypeOK, Crash
  <2>3. incidents' \in [Tasks -> {"none", "saved", "refused"}]
    BY DEF ServiceInv, TypeOK, Crash
  <2>4. events' \in [Tasks -> Seq(EventTypes)]
    <3> HIDE DEF EventTypes
    <3> QED BY DEF Crash
  <2>5. crashes' \in 0 .. MaxCrashes
    BY ServiceAssumption DEF ServiceInv, TypeOK, Crash
  <2> QED
    BY <2>1, <2>2, <2>3, <2>4, <2>5 DEF ServiceInv, TypeOK, Crash
<1>2. ASSUME NEW t \in Tasks PROVE TaskInv(t)'
  <2>1. CopyInv(t)'
    BY DEF ServiceInv, TypeOK, TaskInv, CopyInv, Crash, Running, Concluded,
           Undecided
  <2>2. RowInv(t)'
    BY DEF ServiceInv, TypeOK, TaskInv, RowInv, Crash, Running, Concluded,
           Final,
           Stored, NoRow
  <2>3. WorkInv(t)'
    BY DEF ServiceInv, TypeOK, TaskInv, WorkInv, BeforeEnd, Crash, Idle, Running
  <2>4. PlaceInv(t)'
    BY DEF ServiceInv, TypeOK, TaskInv, PlaceInv, Crash, NetPlaces, Running
  <2> QED BY <2>1, <2>2, <2>3, <2>4 DEF TaskInv
<1> QED BY <1>1, <1>2 DEF ServiceInv

-----------------------------------------------------------------------------
(* Every step keeps the invariant.                                         *)
LEMMA ServiceInvNext == ServiceInv /\ [Next]_vars => ServiceInv'
<1> SUFFICES ASSUME ServiceInv, [Next]_vars PROVE ServiceInv'
  OBVIOUS
<1>1. CASE UNCHANGED vars
  BY <1>1 DEF ServiceInv, TypeOK, TaskInv, CopyInv, RowInv, WorkInv, BeforeEnd, PlaceInv,
         vars
<1>2. ASSUME NEW t \in Tasks, Goroutine(t) PROVE ServiceInv'
  BY <1>2, BuildKeepsServiceInv, StartKeepsServiceInv, CheckKeepsServiceInv,
     StepKeepsServiceInv, CompleteKeepsServiceInv, FailKeepsServiceInv,
     ReportKeepsServiceInv, IncidentKeepsServiceInv, SaveKeepsServiceInv,
     CleanupKeepsServiceInv, NetStartKeepsServiceInv, NetStepKeepsServiceInv,
     NetHypothesisKeepsServiceInv, NetReportKeepsServiceInv,
     NetSaveKeepsServiceInv, NetIncidentKeepsServiceInv,
     NetCompleteKeepsServiceInv
  DEF Goroutine
<1> QED
  BY <1>1, <1>2, CreateKeepsServiceInv, ReplayKeepsServiceInv,
     RegisterKeepsServiceInv, CancelLookupKeepsServiceInv,
     CancelCallKeepsServiceInv, DeadlineKeepsServiceInv, CrashKeepsServiceInv
  DEF Next

(* The invariant holds throughout.                                         *)
LEMMA ServiceInvHolds == Spec => []ServiceInv
BY ServiceInvInit, ServiceInvNext, PTL DEF Spec

-----------------------------------------------------------------------------
(* The variables keep their types, whatever fails or ends.                 *)
THEOREM TypeCorrect == Spec => []TypeOK
<1>1. ServiceInv => TypeOK
  BY DEF ServiceInv
<1> QED BY <1>1, ServiceInvHolds, PTL

(* A stored task is COMPLETED exactly when it carries a report, in either  *)
(* repository and whatever saves fail.                                     *)
THEOREM ReportsComeWithCompletion == Spec => []ReportIffCompleted
<1>1. ServiceInv => ReportIffCompleted
  BY DEF ServiceInv, TaskInv, RowInv, Concluded, ReportIffCompleted
<1> QED BY <1>1, ServiceInvHolds, PTL

(* Server.cancels holds the running tasks and no others.                   *)
THEOREM CancelsAreTheRunning == Spec => []CancellableWhileRunning
<1>1. ServiceInv => CancellableWhileRunning
  BY DEF ServiceInv, TaskInv, PlaceInv, CancellableWhileRunning
<1> QED BY <1>1, ServiceInvHolds, PTL

(* A resource diagnosis whose context has ended evaluates one more rule at *)
(* most, however many apply.                                               *)
THEOREM ResourceTasksStop == Spec => []StopsAtRuleBoundary
<1>1. ServiceInv => StopsAtRuleBoundary
  BY DEF ServiceInv, TaskInv, WorkInv, BeforeEnd, StopsAtRuleBoundary
<1> QED BY <1>1, ServiceInvHolds, PTL

(* A step rewrites the row of a task only where the goroutine saves it or  *)
(* a handler creates it, and no row is final there.                        *)
LEMMA StepKeepsFinalRows ==
  ASSUME ServiceInv, [Next]_vars, NEW t \in Tasks, rows[t].status \in Final
  PROVE  rows'[t] = rows[t] \/ (~postgres /\ crashes' # crashes)
<1>1. pc[t] \in Stored /\ kind[t] # "none"
  BY DEF ServiceInv, TaskInv, RowInv, PlaceInv, Stored
<1>2. ASSUME NEW u \in Tasks, SaveTask(u), pc[u] \notin Stored
      PROVE  rows'[t] = rows[t]
  BY <1>1, <1>2 DEF SaveTask, ServiceInv, TypeOK
<1>3. ASSUME NEW u \in Tasks, NEW k \in {"resource", "network"}, Create(u, k)
      PROVE  rows'[t] = rows[t]
  BY <1>2, <1>3 DEF Create, ServiceInv, TaskInv, PlaceInv, Stored
<1>4. ASSUME NEW u \in Tasks, NEW i \in Tasks, Replay(u, i)
      PROVE  rows'[t] = rows[t]
  BY <1>2, <1>4 DEF Replay, ServiceInv, TaskInv, PlaceInv, Stored
<1>5. ASSUME NEW u \in Tasks, Save(u) \/ NetSave(u)
      PROVE  rows'[t] = rows[t]
  BY <1>2, <1>5 DEF Save, NetSave, Stored
<1>6. ASSUME NEW u \in Tasks, Goroutine(u)
      PROVE  rows'[t] = rows[t]
  BY <1>5, <1>6 DEF Goroutine, Build, Start, Check, Step, Complete, Fail,
         Report,
     Incident, Cleanup, NetStart, NetStep, NetHypothesis, NetReport,
            NetIncident,
     NetComplete, request, store, work
<1>7. ASSUME NEW u \in Tasks,
             Register(u) \/ CancelLookup(u) \/ CancelCall(u) \/ Deadline(u)
      PROVE  rows'[t] = rows[t]
  BY <1>7 DEF Register, CancelLookup, CancelCall, Deadline, store, work
<1>8. ASSUME Crash PROVE rows'[t] = rows[t] \/ (~postgres /\ crashes' # crashes)
  BY <1>8, ServiceAssumption DEF Crash, ServiceInv, TypeOK
<1>9. CASE UNCHANGED vars
  BY <1>9 DEF vars
<1> QED BY <1>3, <1>4, <1>6, <1>7, <1>8, <1>9 DEF Next

(* A final row never changes again, unless an in-memory repository goes    *)
(* with its process.                                                       *)
THEOREM FinalRowsStay == Spec => StoredResultIsFinal
<1>1. ServiceInv /\ [Next]_vars =>
        [\A t \in Tasks :
           rows[t].status \in Final =>
             rows'[t] = rows[t] \/ (~postgres /\ crashes' # crashes)]_vars
  BY StepKeepsFinalRows
<1> QED BY <1>1, ServiceInvHolds, PTL DEF Spec, StoredResultIsFinal

-----------------------------------------------------------------------------
(***************************************************************************)
(* That the service implements TaskLife.  LifeInv says, place by place,    *)
(* what the task has announced and what the repository then holds; with it *)
(* every step of the service is a step of TaskLife or changes nothing that *)
(* TaskLife sees.  ServiceInv above gives the types and what the           *)
(* goroutine's copy holds.  OutcomeInv adds the order of the ends a task   *)
(* announces and whose incidents there are.                                *)
(***************************************************************************)

(* The state of TaskLife, as DiagnosisService defines it.                  *)
SaidOf == [t \in Tasks |-> Said(t)]
OpenTasks == {t \in Tasks : pc[t] \in AtWork}
AcceptedTasks == {t \in Tasks : kind[t] # "none"}
LifeStep == Life!Next \/ UNCHANGED Life!vars

(* Before its end is announced a task is silent, and its row is pending.   *)
Silent == {"none", "saved", "build", "start", "rules", "step", "netStart",
           "netStep", "netReport", "netSave", "netIncident", "netDone"}
Unsaved == {"saved", "build", "start", "rules", "step", "failed", "report",
            "incident", "save", "netStart", "netStep", "netReport", "netSave"}
Fits(place, said, copy, row) ==
  /\ place \in Silent => said = "nothing"
  /\ place = "failed" => said \in {"nothing", "CANCELLED"}
  /\ place \in {"report", "incident"} => said = "COMPLETED"
  /\ place = "save" => said = copy.status
  /\ place = "cleanup" => said # "nothing"
  /\ place = "none" => row = NoRow
  /\ place \in Unsaved => row = Pending
  /\ place \in {"netIncident", "netDone"} =>
       row \in {Pending} \union Life!Results("COMPLETED")
  /\ place \in {"report", "incident", "netSave"} => copy.status = "COMPLETED"
  /\ place = "save" => copy.status \in Final
LifeInv == \A t \in Tasks : Fits(pc[t], SaidOf[t], mem[t], rows[t])

-----------------------------------------------------------------------------
(* What a published event says.                                            *)
LEMMA SaidAfterPublish ==
  ASSUME TypeOK, NEW t \in Tasks, NEW e \in EventTypes, Publish(t, e)
  PROVE  SaidOf' = [SaidOf EXCEPT ![t] = IF e \in Terminal THEN EndOf[e] ELSE "nothing"]
<1>1. events[t] \in Seq(EventTypes)
  <2> HIDE DEF EventTypes
  <2> QED BY DEF TypeOK
<1>2. ASSUME NEW u \in Tasks, u # t PROVE events'[u] = events[u]
  <2> HIDE DEF EventTypes
  <2> QED BY <1>2 DEF TypeOK, Publish
<1>3. events'[t] = Append(events[t], e)
  <2> HIDE DEF EventTypes
  <2> QED BY DEF TypeOK, Publish
<1>4. Len(events'[t]) = Len(events[t]) + 1 /\ events'[t][Len(events[t]) + 1] = e
      /\ Len(events[t]) \in Nat
  <2> HIDE DEF EventTypes
  <2> QED BY <1>1, <1>3
<1>5. Said(t)' = IF e \in Terminal THEN EndOf[e] ELSE "nothing"
  BY <1>4 DEF Said
<1>6. ASSUME NEW u \in Tasks, u # t PROVE Said(u)' = Said(u)
  BY <1>2, <1>6 DEF Said
<1> QED BY <1>5, <1>6 DEF SaidOf

(* Without an event, nothing more is said; and a goroutine at work that    *)
(* goes on stays open.                                                     *)
LEMMA SaidStays == UNCHANGED events => UNCHANGED SaidOf
BY DEF SaidOf, Said

LEMMA OpenStays ==
  ASSUME TypeOK, NEW t \in Tasks, pc[t] \in AtWork, NEW p \in AtWork, Goto(t, p)
  PROVE  UNCHANGED OpenTasks
<1>1. ASSUME NEW u \in Tasks PROVE pc'[u] \in AtWork <=> pc[u] \in AtWork
  BY DEF TypeOK, Goto
<1> QED BY <1>1 DEF OpenTasks

(* A record with a final status and the verdict that goes with it is a     *)
(* result.                                                                 *)
LEMMA ConcludedIsResult ==
  ASSUME NEW r \in Record, r.status \in Final, Concluded(r)
  PROVE  r \in Life!Results(r.status)
<1>1. r = [status |-> r.status, verdict |-> r.verdict]
  BY DEF Record
<1> QED BY <1>1 DEF Record, Concluded, Verdicts, Life!Results

(* The invariant speaks of one task at a time: a step that moves a task    *)
(* keeps it if it fits that task.                                          *)
LEMMA MoveKeepsLifeInv ==
  ASSUME TypeOK, LifeInv, NEW t \in Tasks, NEW p, NEW s, NEW m, NEW r,
         pc' = [pc EXCEPT ![t] = p], SaidOf' = [SaidOf EXCEPT ![t] = s],
         mem' = [mem EXCEPT ![t] = m], rows' = [rows EXCEPT ![t] = r],
         Fits(p, s, m, r)
  PROVE  LifeInv'
<1>1. DOMAIN SaidOf = Tasks
  BY DEF SaidOf
<1>2. ASSUME NEW u \in Tasks PROVE Fits(pc'[u], SaidOf'[u], mem'[u], rows'[u])
  <2>1. CASE u = t
    BY <1>1, <2>1 DEF TypeOK
  <2>2. CASE u # t
    <3>1. /\ pc'[u] = pc[u] /\ SaidOf'[u] = SaidOf[u]
          /\ mem'[u] = mem[u] /\ rows'[u] = rows[u]
      BY <1>1, <2>2 DEF TypeOK
    <3> QED BY <3>1 DEF LifeInv
  <2> QED BY <2>1, <2>2
<1> QED BY <1>2 DEF LifeInv, Fits, Life!Results

-----------------------------------------------------------------------------
(* The steps of a goroutine that say nothing final and store nothing.      *)
LEMMA QuietStep ==
  ASSUME ServiceInv, LifeInv, NEW t \in Tasks, pc[t] \in AtWork, NEW p \in AtWork,
         Goto(t, p), UNCHANGED <<kind, rows>>,
         \/ UNCHANGED events
         \/ SaidOf[t] = "nothing"
            /\ \E e \in EventTypes \ Terminal : Publish(t, e)
  PROVE  UNCHANGED Life!vars
<1>1. TypeOK
  BY DEF ServiceInv
<1>2. UNCHANGED OpenTasks
  BY <1>1, OpenStays
<1>3. UNCHANGED SaidOf
  <2>1. CASE UNCHANGED events
    BY <2>1, SaidStays
  <2>2. ASSUME NEW e \in EventTypes \ Terminal, Publish(t, e), SaidOf[t] = "nothing"
        PROVE  UNCHANGED SaidOf
    BY <1>1, <2>2, SaidAfterPublish DEF SaidOf
  <2> QED BY <2>1, <2>2
<1> QED BY <1>2, <1>3 DEF Life!vars, OpenTasks, SaidOf

(* The steps that announce an end.                                         *)
LEMMA AnnounceStep ==
  ASSUME ServiceInv, LifeInv, NEW t \in Tasks, pc[t] \in AtWork, NEW p \in AtWork,
         Goto(t, p), UNCHANGED <<kind, rows>>, NEW e \in Terminal, Publish(t, e),
         \/ /\ SaidOf[t] = "nothing"
            /\ rows[t] \in {Pending} \union Life!Results(EndOf[e])
         \/ SaidOf[t] = "CANCELLED" /\ EndOf[e] = "FAILED" /\ rows[t] = Pending
  PROVE  Life!Announce(t)
<1>1. TypeOK
  BY DEF ServiceInv
<1>2. UNCHANGED OpenTasks
  BY <1>1, OpenStays
<1>3. SaidOf' = [SaidOf EXCEPT ![t] = EndOf[e]]
  BY <1>1, SaidAfterPublish DEF EventTypes
<1>4. EndOf[e] \in Life!Ends
  BY DEF EndOf, Terminal, Life!Ends
<1>5. t \in OpenTasks
  BY DEF OpenTasks
<1>6. Pending = Life!Pending
  BY DEF Pending, Life!Pending
<1> QED
  BY <1>2, <1>3, <1>4, <1>5, <1>6 DEF Life!Announce, OpenTasks, SaidOf

(* The final save, which may fail and may have stored the row all the same.*)
LEMMA StoreStep ==
  ASSUME ServiceInv, LifeInv, NEW t \in Tasks, pc[t] \in AtWork, NEW p \in AtWork,
         Goto(t, p), UNCHANGED <<kind, events>>, SaveTask(t), rows[t] = Pending,
         mem[t] \in Life!Results(mem[t].status), mem[t].status \in Final,
         \/ SaidOf[t] = mem[t].status
         \/ SaidOf[t] = "nothing" /\ mem[t].status = "COMPLETED"
  PROVE  LifeStep
<1>1. TypeOK
  BY DEF ServiceInv
<1>2. UNCHANGED OpenTasks /\ UNCHANGED SaidOf
  BY <1>1, OpenStays, SaidStays
<1>3. CASE UNCHANGED rows
  BY <1>2, <1>3 DEF LifeStep, Life!vars, OpenTasks, SaidOf
<1>4. CASE rows' = [rows EXCEPT ![t] = mem[t]]
  <2>1. t \in OpenTasks /\ Pending = Life!Pending /\ Life!Ends = Final
    BY DEF OpenTasks, Pending, Life!Pending, Life!Ends, Final
  <2>2. mem[t] \in UNION {Life!Results(end) : end \in Life!Ends}
    BY <2>1
  <2>3. \E result \in UNION {Life!Results(end) : end \in Life!Ends} :
          /\ \/ SaidOf[t] = result.status
             \/ SaidOf[t] = "nothing" /\ result.status = "COMPLETED"
          /\ rows' = [rows EXCEPT ![t] = result]
    BY <1>4, <2>2
  <2>4. Life!Store(t)
    BY <1>2, <2>1, <2>3 DEF Life!Store, OpenTasks, SaidOf
  <2> QED BY <2>4 DEF LifeStep, Life!Next
<1> QED BY <1>3, <1>4 DEF SaveTask
-----------------------------------------------------------------------------
(* What a step leaves alone, written as a move.                            *)
LEMMA Alone ==
  ASSUME TypeOK, NEW t \in Tasks
  PROVE  /\ pc = [pc EXCEPT ![t] = pc[t]] /\ mem = [mem EXCEPT ![t] = mem[t]]
         /\ rows = [rows EXCEPT ![t] = rows[t]]
         /\ SaidOf = [SaidOf EXCEPT ![t] = SaidOf[t]]
BY DEF TypeOK, SaidOf

(* The rest of the POST handler.                                           *)
LEMMA RegisterIsQuiet ==
  ASSUME ServiceInv, LifeInv, NEW t \in Tasks, Register(t)
  PROVE  LifeInv' /\ LifeStep
<1>1. TypeOK /\ Fits(pc[t], SaidOf[t], mem[t], rows[t]) /\ pc[t] = "saved"
  BY DEF ServiceInv, LifeInv, Register
<1>2. PICK p \in {"netStart", "build"} : Goto(t, p)
  BY DEF Register
<1>3. UNCHANGED events
  BY DEF Register, store, work
<1>4. SaidOf' = [SaidOf EXCEPT ![t] = SaidOf[t]]
  BY <1>1, <1>3, SaidStays, Alone
<1>5. /\ mem' = [mem EXCEPT ![t] = mem[t]]
      /\ rows' = [rows EXCEPT ![t] = rows[t]]
      /\ UNCHANGED <<kind, rows>>
  BY <1>1, Alone DEF Register, SetStatus, TypeOK, store, work
<1>6. Fits(p, SaidOf[t], mem[t], rows[t])
  BY <1>1 DEF Fits, Silent, Unsaved, Final
<1>7. LifeInv'
  BY <1>1, <1>2, <1>4, <1>5, <1>6, MoveKeepsLifeInv DEF Goto
<1>8. UNCHANGED Life!vars
  BY <1>1, <1>2, <1>3, <1>4, <1>5, QuietStep DEF AtWork, Running
<1> QED BY <1>7, <1>8 DEF LifeStep

(* The observation of the target.                                          *)
LEMMA BuildIsQuiet ==
  ASSUME ServiceInv, LifeInv, NEW t \in Tasks, Build(t)
  PROVE  LifeInv' /\ LifeStep
<1>1. TypeOK /\ Fits(pc[t], SaidOf[t], mem[t], rows[t]) /\ pc[t] = "build"
  BY DEF ServiceInv, LifeInv, Build
<1>2. PICK p \in {"failed", "start"} : Goto(t, p)
  BY DEF Build
<1>3. UNCHANGED events
  BY DEF Build, request, store
<1>4. SaidOf' = [SaidOf EXCEPT ![t] = SaidOf[t]]
  BY <1>1, <1>3, SaidStays, Alone
<1>5. /\ mem' = [mem EXCEPT ![t] = mem[t]]
      /\ rows' = [rows EXCEPT ![t] = rows[t]]
      /\ UNCHANGED <<kind, rows>>
  BY <1>1, Alone DEF Build, SetStatus, TypeOK, request, store
<1>6. Fits(p, SaidOf[t], mem[t], rows[t])
  BY <1>1 DEF Fits, Silent, Unsaved, Final
<1>7. LifeInv'
  BY <1>1, <1>2, <1>4, <1>5, <1>6, MoveKeepsLifeInv DEF Goto
<1>8. UNCHANGED Life!vars
  BY <1>1, <1>2, <1>3, <1>4, <1>5, QuietStep DEF AtWork, Running
<1> QED BY <1>7, <1>8 DEF LifeStep

(* The start of the engine.                                                *)
LEMMA StartIsQuiet ==
  ASSUME ServiceInv, LifeInv, NEW t \in Tasks, Start(t)
  PROVE  LifeInv' /\ LifeStep
<1>1. TypeOK /\ Fits(pc[t], SaidOf[t], mem[t], rows[t]) /\ pc[t] = "start"
  BY DEF ServiceInv, LifeInv, Start
<1>2. Goto(t, "rules")
  BY DEF Start
<1>3. Publish(t, "task_started") /\ "task_started" \in EventTypes \ Terminal
  BY DEF Start, EventTypes, Terminal
<1>4. SaidOf' = [SaidOf EXCEPT ![t] = "nothing"] /\ SaidOf[t] = "nothing"
  BY <1>1, <1>3, SaidAfterPublish DEF Fits, Silent
<1>5. /\ mem' = [mem EXCEPT ![t] = [mem[t] EXCEPT !.status = "RUNNING"]]
      /\ rows' = [rows EXCEPT ![t] = rows[t]]
      /\ UNCHANGED <<kind, rows>>
  BY <1>1, Alone DEF Start, SetStatus, TypeOK, request, store
<1>6. Fits("rules", "nothing", [mem[t] EXCEPT !.status = "RUNNING"], rows[t])
  BY <1>1 DEF Fits, Silent, Unsaved, Final
<1>7. LifeInv'
  BY <1>1, <1>2, <1>4, <1>5, <1>6, MoveKeepsLifeInv DEF Goto
<1>8. UNCHANGED Life!vars
  BY <1>1, <1>2, <1>3, <1>4, <1>5, QuietStep DEF AtWork, Running
<1> QED BY <1>7, <1>8 DEF LifeStep

(* A rule.                                                                 *)
LEMMA StepIsQuiet ==
  ASSUME ServiceInv, LifeInv, NEW t \in Tasks, Step(t)
  PROVE  LifeInv' /\ LifeStep
<1>1. TypeOK /\ Fits(pc[t], SaidOf[t], mem[t], rows[t]) /\ pc[t] = "step"
  BY DEF ServiceInv, LifeInv, Step
<1>2. Goto(t, "rules")
  BY DEF Step
<1>3. Publish(t, "step") /\ "step" \in EventTypes \ Terminal
  BY DEF Step, EventTypes, Terminal
<1>4. SaidOf' = [SaidOf EXCEPT ![t] = "nothing"] /\ SaidOf[t] = "nothing"
  BY <1>1, <1>3, SaidAfterPublish DEF Fits, Silent
<1>5. /\ mem' = [mem EXCEPT ![t] = mem[t]]
      /\ rows' = [rows EXCEPT ![t] = rows[t]]
      /\ UNCHANGED <<kind, rows>>
  BY <1>1, Alone DEF Step, SetStatus, TypeOK, request, store
<1>6. Fits("rules", "nothing", mem[t], rows[t])
  BY <1>1 DEF Fits, Silent, Unsaved, Final
<1>7. LifeInv'
  BY <1>1, <1>2, <1>4, <1>5, <1>6, MoveKeepsLifeInv DEF Goto
<1>8. UNCHANGED Life!vars
  BY <1>1, <1>2, <1>3, <1>4, <1>5, QuietStep DEF AtWork, Running
<1> QED BY <1>7, <1>8 DEF LifeStep

(* The incident of a resource diagnosis.                                   *)
LEMMA IncidentIsQuiet ==
  ASSUME ServiceInv, LifeInv, NEW t \in Tasks, Incident(t)
  PROVE  LifeInv' /\ LifeStep
<1>1. TypeOK /\ Fits(pc[t], SaidOf[t], mem[t], rows[t]) /\ pc[t] = "incident"
  BY DEF ServiceInv, LifeInv, Incident
<1>2. Goto(t, "save")
  BY DEF Incident
<1>3. UNCHANGED events
  BY DEF Incident, request, work
<1>4. SaidOf' = [SaidOf EXCEPT ![t] = SaidOf[t]]
  BY <1>1, <1>3, SaidStays, Alone
<1>5. /\ mem' = [mem EXCEPT ![t] = mem[t]]
      /\ rows' = [rows EXCEPT ![t] = rows[t]]
      /\ UNCHANGED <<kind, rows>>
  BY <1>1, Alone DEF Incident, SetStatus, TypeOK, request, work
<1>6. Fits("save", SaidOf[t], mem[t], rows[t])
  BY <1>1 DEF Fits, Silent, Unsaved, Final
<1>7. LifeInv'
  BY <1>1, <1>2, <1>4, <1>5, <1>6, MoveKeepsLifeInv DEF Goto
<1>8. UNCHANGED Life!vars
  BY <1>1, <1>2, <1>3, <1>4, <1>5, QuietStep DEF AtWork, Running
<1> QED BY <1>7, <1>8 DEF LifeStep

(* The start of a network diagnosis.                                       *)
LEMMA NetStartIsQuiet ==
  ASSUME ServiceInv, LifeInv, NEW t \in Tasks, NetStart(t)
  PROVE  LifeInv' /\ LifeStep
<1>1. TypeOK /\ Fits(pc[t], SaidOf[t], mem[t], rows[t]) /\ pc[t] = "netStart"
  BY DEF ServiceInv, LifeInv, NetStart
<1>2. Goto(t, "netStep")
  BY DEF NetStart
<1>3. Publish(t, "task_started") /\ "task_started" \in EventTypes \ Terminal
  BY DEF NetStart, EventTypes, Terminal
<1>4. SaidOf' = [SaidOf EXCEPT ![t] = "nothing"] /\ SaidOf[t] = "nothing"
  BY <1>1, <1>3, SaidAfterPublish DEF Fits, Silent
<1>5. /\ mem' = [mem EXCEPT ![t] = [mem[t] EXCEPT !.status = "RUNNING"]]
      /\ rows' = [rows EXCEPT ![t] = rows[t]]
      /\ UNCHANGED <<kind, rows>>
  BY <1>1, Alone DEF NetStart, SetStatus, TypeOK, request, store
<1>6. Fits("netStep", "nothing", [mem[t] EXCEPT !.status = "RUNNING"], rows[t])
  BY <1>1 DEF Fits, Silent, Unsaved, Final
<1>7. LifeInv'
  BY <1>1, <1>2, <1>4, <1>5, <1>6, MoveKeepsLifeInv DEF Goto
<1>8. UNCHANGED Life!vars
  BY <1>1, <1>2, <1>3, <1>4, <1>5, QuietStep DEF AtWork, Running
<1> QED BY <1>7, <1>8 DEF LifeStep

(* A step of the path.                                                     *)
LEMMA NetStepIsQuiet ==
  ASSUME ServiceInv, LifeInv, NEW t \in Tasks, NetStep(t)
  PROVE  LifeInv' /\ LifeStep
<1>1. TypeOK /\ Fits(pc[t], SaidOf[t], mem[t], rows[t]) /\ pc[t] = "netStep"
  BY DEF ServiceInv, LifeInv, NetStep
<1>2. Goto(t, "netStep")
  BY <1>1, Alone DEF NetStep, Goto
<1>3. Publish(t, "step") /\ "step" \in EventTypes \ Terminal
  BY DEF NetStep, EventTypes, Terminal
<1>4. SaidOf' = [SaidOf EXCEPT ![t] = "nothing"] /\ SaidOf[t] = "nothing"
  BY <1>1, <1>3, SaidAfterPublish DEF Fits, Silent
<1>5. /\ mem' = [mem EXCEPT ![t] = mem[t]]
      /\ rows' = [rows EXCEPT ![t] = rows[t]]
      /\ UNCHANGED <<kind, rows>>
  BY <1>1, Alone DEF NetStep, SetStatus, TypeOK, request, store
<1>6. Fits("netStep", "nothing", mem[t], rows[t])
  BY <1>1 DEF Fits, Silent, Unsaved, Final
<1>7. LifeInv'
  BY <1>1, <1>2, <1>4, <1>5, <1>6, MoveKeepsLifeInv DEF Goto
<1>8. UNCHANGED Life!vars
  BY <1>1, <1>2, <1>3, <1>4, <1>5, QuietStep DEF AtWork, Running
<1> QED BY <1>7, <1>8 DEF LifeStep

(* The hypothesis drawn from the path.                                     *)
LEMMA NetHypothesisIsQuiet ==
  ASSUME ServiceInv, LifeInv, NEW t \in Tasks, NetHypothesis(t)
  PROVE  LifeInv' /\ LifeStep
<1>1. TypeOK /\ Fits(pc[t], SaidOf[t], mem[t], rows[t]) /\ pc[t] = "netStep"
  BY DEF ServiceInv, LifeInv, NetHypothesis
<1>2. Goto(t, "netReport")
  BY DEF NetHypothesis
<1>3. Publish(t, "hypothesis_updated") /\ "hypothesis_updated" \in EventTypes \ Terminal
  BY DEF NetHypothesis, EventTypes, Terminal
<1>4. SaidOf' = [SaidOf EXCEPT ![t] = "nothing"] /\ SaidOf[t] = "nothing"
  BY <1>1, <1>3, SaidAfterPublish DEF Fits, Silent
<1>5. /\ mem' = [mem EXCEPT ![t] = mem[t]]
      /\ rows' = [rows EXCEPT ![t] = rows[t]]
      /\ UNCHANGED <<kind, rows>>
  BY <1>1, Alone DEF NetHypothesis, SetStatus, TypeOK, request, store
<1>6. Fits("netReport", "nothing", mem[t], rows[t])
  BY <1>1 DEF Fits, Silent, Unsaved, Final
<1>7. LifeInv'
  BY <1>1, <1>2, <1>4, <1>5, <1>6, MoveKeepsLifeInv DEF Goto
<1>8. UNCHANGED Life!vars
  BY <1>1, <1>2, <1>3, <1>4, <1>5, QuietStep DEF AtWork, Running
<1> QED BY <1>7, <1>8 DEF LifeStep

(* The incident of a network diagnosis.                                    *)
LEMMA NetIncidentIsQuiet ==
  ASSUME ServiceInv, LifeInv, NEW t \in Tasks, NetIncident(t)
  PROVE  LifeInv' /\ LifeStep
<1>1. TypeOK /\ Fits(pc[t], SaidOf[t], mem[t], rows[t]) /\ pc[t] = "netIncident"
  BY DEF ServiceInv, LifeInv, NetIncident
<1>2. Goto(t, "netDone")
  BY DEF NetIncident
<1>3. UNCHANGED events
  BY DEF NetIncident, request, work
<1>4. SaidOf' = [SaidOf EXCEPT ![t] = SaidOf[t]]
  BY <1>1, <1>3, SaidStays, Alone
<1>5. /\ mem' = [mem EXCEPT ![t] = mem[t]]
      /\ rows' = [rows EXCEPT ![t] = rows[t]]
      /\ UNCHANGED <<kind, rows>>
  BY <1>1, Alone DEF NetIncident, SetStatus, TypeOK, request, work
<1>6. Fits("netDone", SaidOf[t], mem[t], rows[t])
  BY <1>1 DEF Fits, Silent, Unsaved, Final
<1>7. LifeInv'
  BY <1>1, <1>2, <1>4, <1>5, <1>6, MoveKeepsLifeInv DEF Goto
<1>8. UNCHANGED Life!vars
  BY <1>1, <1>2, <1>3, <1>4, <1>5, QuietStep DEF AtWork, Running
<1> QED BY <1>7, <1>8 DEF LifeStep

(* The report of a resource diagnosis.                                     *)
LEMMA ReportIsQuiet ==
  ASSUME ServiceInv, LifeInv, NEW t \in Tasks, Report(t)
  PROVE  LifeInv' /\ LifeStep
<1>1. TypeOK /\ Fits(pc[t], SaidOf[t], mem[t], rows[t]) /\ pc[t] = "report"
  BY DEF ServiceInv, LifeInv, Report
<1>2. PICK v \in {"CONFIRMED", "OTHER"} :
        /\ mem' = [mem EXCEPT ![t] = [mem[t] EXCEPT !.verdict = v]]
        /\ Goto(t, IF v = "CONFIRMED" THEN "incident" ELSE "save")
  BY DEF Report
<1>3. UNCHANGED events /\ UNCHANGED <<kind, rows>>
  BY DEF Report, request, store
<1>4. /\ SaidOf' = [SaidOf EXCEPT ![t] = SaidOf[t]]
      /\ rows' = [rows EXCEPT ![t] = rows[t]]
  BY <1>1, <1>3, SaidStays, Alone
<1>5. Fits(IF v = "CONFIRMED" THEN "incident" ELSE "save", SaidOf[t], [mem[t] EXCEPT !.verdict = v], rows[t])
  BY <1>1 DEF Fits, Silent, Unsaved, Final, TypeOK, Record
<1>6. LifeInv'
  BY <1>1, <1>2, <1>4, <1>5, MoveKeepsLifeInv DEF Goto
<1>7. UNCHANGED Life!vars
  BY <1>1, <1>2, <1>3, QuietStep DEF AtWork, Running
<1> QED BY <1>6, <1>7 DEF LifeStep

(* The report of a network diagnosis.                                      *)
LEMMA NetReportIsQuiet ==
  ASSUME ServiceInv, LifeInv, NEW t \in Tasks, NetReport(t)
  PROVE  LifeInv' /\ LifeStep
<1>1. TypeOK /\ Fits(pc[t], SaidOf[t], mem[t], rows[t]) /\ pc[t] = "netReport"
  BY DEF ServiceInv, LifeInv, NetReport
<1>2. PICK v \in {"CONFIRMED", "OTHER"} :
        /\ mem' = [mem EXCEPT ![t] = [status |-> "COMPLETED", verdict |-> v]]
        /\ Goto(t, "netSave")
  BY DEF NetReport
<1>3. UNCHANGED events /\ UNCHANGED <<kind, rows>>
  BY DEF NetReport, request, store
<1>4. /\ SaidOf' = [SaidOf EXCEPT ![t] = SaidOf[t]]
      /\ rows' = [rows EXCEPT ![t] = rows[t]]
  BY <1>1, <1>3, SaidStays, Alone
<1>5. Fits("netSave", SaidOf[t], [status |-> "COMPLETED", verdict |-> v], rows[t])
  BY <1>1 DEF Fits, Silent, Unsaved, Final, TypeOK, Record
<1>6. LifeInv'
  BY <1>1, <1>2, <1>4, <1>5, MoveKeepsLifeInv DEF Goto
<1>7. UNCHANGED Life!vars
  BY <1>1, <1>2, <1>3, QuietStep DEF AtWork, Running
<1> QED BY <1>6, <1>7 DEF LifeStep

(* The last rule is behind: the end is announced before the report.        *)
LEMMA CompleteAnnounces ==
  ASSUME ServiceInv, LifeInv, NEW t \in Tasks, Complete(t)
  PROVE  LifeInv' /\ LifeStep
<1>1. TypeOK /\ Fits(pc[t], SaidOf[t], mem[t], rows[t]) /\ pc[t] = "rules"
  BY DEF ServiceInv, LifeInv, Complete
<1>2. Goto(t, "report")
  BY DEF Complete
<1>3. /\ Publish(t, "diagnosis_completed") /\ "diagnosis_completed" \in Terminal
      /\ Terminal \subseteq EventTypes
  BY DEF Complete, EventTypes, Terminal
<1>4. SaidOf' = [SaidOf EXCEPT ![t] = EndOf["diagnosis_completed"]]
  BY <1>1, <1>3, SaidAfterPublish
<1>5. /\ mem' = [mem EXCEPT ![t] = [mem[t] EXCEPT !.status = "COMPLETED"]]
      /\ rows' = [rows EXCEPT ![t] = rows[t]]
      /\ UNCHANGED <<kind, rows>>
  BY <1>1, Alone DEF Complete, SetStatus, request, store
<1>6. Fits("report", EndOf["diagnosis_completed"], [mem[t] EXCEPT !.status = "COMPLETED"], rows[t])
  BY <1>1 DEF Fits, Silent, Unsaved, Final, EndOf, TypeOK, Record
<1>7. LifeInv'
  BY <1>1, <1>2, <1>4, <1>5, <1>6, MoveKeepsLifeInv DEF Goto
<1>8. Life!Announce(t)
  <2>1. \/ /\ SaidOf[t] = "nothing"
           /\ rows[t] \in {Pending} \union Life!Results(EndOf["diagnosis_completed"])
        \/ SaidOf[t] = "CANCELLED" /\ EndOf["diagnosis_completed"] = "FAILED" /\ rows[t] = Pending
    BY <1>1 DEF Fits, Silent, Unsaved, EndOf
  <2> QED
    BY <1>1, <1>2, <1>3, <1>5, <2>1, AnnounceStep DEF AtWork, Running
<1> QED BY <1>7, <1>8 DEF LifeStep, Life!Next

(* A failure, which after a deadline follows a cancellation.               *)
LEMMA FailAnnounces ==
  ASSUME ServiceInv, LifeInv, NEW t \in Tasks, Fail(t)
  PROVE  LifeInv' /\ LifeStep
<1>1. TypeOK /\ Fits(pc[t], SaidOf[t], mem[t], rows[t]) /\ pc[t] = "failed"
  BY DEF ServiceInv, LifeInv, Fail
<1>2. Goto(t, "save")
  BY DEF Fail
<1>3. /\ Publish(t, "diagnosis_failed") /\ "diagnosis_failed" \in Terminal
      /\ Terminal \subseteq EventTypes
  BY DEF Fail, EventTypes, Terminal
<1>4. SaidOf' = [SaidOf EXCEPT ![t] = EndOf["diagnosis_failed"]]
  BY <1>1, <1>3, SaidAfterPublish
<1>5. /\ mem' = [mem EXCEPT ![t] = [mem[t] EXCEPT !.status = "FAILED"]]
      /\ rows' = [rows EXCEPT ![t] = rows[t]]
      /\ UNCHANGED <<kind, rows>>
  BY <1>1, Alone DEF Fail, SetStatus, request, store
<1>6. Fits("save", EndOf["diagnosis_failed"], [mem[t] EXCEPT !.status = "FAILED"], rows[t])
  BY <1>1 DEF Fits, Silent, Unsaved, Final, EndOf, TypeOK, Record
<1>7. LifeInv'
  BY <1>1, <1>2, <1>4, <1>5, <1>6, MoveKeepsLifeInv DEF Goto
<1>8. Life!Announce(t)
  <2>1. \/ /\ SaidOf[t] = "nothing"
           /\ rows[t] \in {Pending} \union Life!Results(EndOf["diagnosis_failed"])
        \/ SaidOf[t] = "CANCELLED" /\ EndOf["diagnosis_failed"] = "FAILED" /\ rows[t] = Pending
    BY <1>1 DEF Fits, Silent, Unsaved, EndOf
  <2> QED
    BY <1>1, <1>2, <1>3, <1>5, <2>1, AnnounceStep DEF AtWork, Running
<1> QED BY <1>7, <1>8 DEF LifeStep, Life!Next

(* A network diagnosis announces what it has stored.                       *)
LEMMA NetCompleteAnnounces ==
  ASSUME ServiceInv, LifeInv, NEW t \in Tasks, NetComplete(t)
  PROVE  LifeInv' /\ LifeStep
<1>1. TypeOK /\ Fits(pc[t], SaidOf[t], mem[t], rows[t]) /\ pc[t] = "netDone"
  BY DEF ServiceInv, LifeInv, NetComplete
<1>2. Goto(t, "cleanup")
  BY DEF NetComplete
<1>3. /\ Publish(t, "diagnosis_completed") /\ "diagnosis_completed" \in Terminal
      /\ Terminal \subseteq EventTypes
  BY DEF NetComplete, EventTypes, Terminal
<1>4. SaidOf' = [SaidOf EXCEPT ![t] = EndOf["diagnosis_completed"]]
  BY <1>1, <1>3, SaidAfterPublish
<1>5. /\ mem' = [mem EXCEPT ![t] = mem[t]]
      /\ rows' = [rows EXCEPT ![t] = rows[t]]
      /\ UNCHANGED <<kind, rows>>
  BY <1>1, Alone DEF NetComplete, SetStatus, request, store
<1>6. Fits("cleanup", EndOf["diagnosis_completed"], mem[t], rows[t])
  BY <1>1 DEF Fits, Silent, Unsaved, Final, EndOf, TypeOK, Record
<1>7. LifeInv'
  BY <1>1, <1>2, <1>4, <1>5, <1>6, MoveKeepsLifeInv DEF Goto
<1>8. Life!Announce(t)
  <2>1. \/ /\ SaidOf[t] = "nothing"
           /\ rows[t] \in {Pending} \union Life!Results(EndOf["diagnosis_completed"])
        \/ SaidOf[t] = "CANCELLED" /\ EndOf["diagnosis_completed"] = "FAILED" /\ rows[t] = Pending
    BY <1>1 DEF Fits, Silent, Unsaved, EndOf
  <2> QED
    BY <1>1, <1>2, <1>3, <1>5, <2>1, AnnounceStep DEF AtWork, Running
<1> QED BY <1>7, <1>8 DEF LifeStep, Life!Next

(* The final save of a resource diagnosis.                                 *)
LEMMA SaveStores ==
  ASSUME ServiceInv, LifeInv, NEW t \in Tasks, Save(t)
  PROVE  LifeInv' /\ LifeStep
<1> DEFINE p == "cleanup"
<1>1. TypeOK /\ Fits(pc[t], SaidOf[t], mem[t], rows[t]) /\ pc[t] = "save"
  BY DEF ServiceInv, LifeInv, Save
<1>2. Goto(t, p) /\ SaveTask(t) /\ UNCHANGED <<kind, events>> /\ UNCHANGED mem
  BY DEF Save, request, work
<1>3. mem[t] \in Life!Results(mem[t].status) /\ mem[t].status \in Final
  <2>1. Concluded(mem[t]) /\ mem[t] \in Record /\ mem[t].status \in Final
    BY <1>1 DEF ServiceInv, TypeOK, TaskInv, CopyInv, Fits, Final
  <2> QED BY <2>1, ConcludedIsResult
<1>4. PICK row \in {rows[t], mem[t]} : rows' = [rows EXCEPT ![t] = row]
  BY <1>1, <1>2, Alone DEF SaveTask
<1>5. SaidOf' = [SaidOf EXCEPT ![t] = SaidOf[t]] /\ mem' = [mem EXCEPT ![t] = mem[t]]
  BY <1>1, <1>2, SaidStays, Alone
<1>6. Fits(p, SaidOf[t], mem[t], row)
  BY <1>1, <1>3 DEF Fits, Silent, Unsaved, Final
<1>7. LifeInv'
  <2> HIDE DEF p
  <2> QED BY <1>1, <1>2, <1>4, <1>5, <1>6, MoveKeepsLifeInv DEF Goto
<1>8. LifeStep
  <2>1. p \in AtWork /\ pc[t] \in AtWork
    BY <1>1 DEF AtWork, Running
  <2>2. /\ rows[t] = Pending
        /\ \/ SaidOf[t] = mem[t].status
           \/ SaidOf[t] = "nothing" /\ mem[t].status = "COMPLETED"
    BY <1>1 DEF Fits, Silent, Unsaved
  <2> HIDE DEF p
  <2> QED BY <1>2, <1>3, <2>1, <2>2, StoreStep
<1> QED BY <1>7, <1>8

(* The final save of a network diagnosis, before its end is announced.     *)
LEMMA NetSaveStores ==
  ASSUME ServiceInv, LifeInv, NEW t \in Tasks, NetSave(t)
  PROVE  LifeInv' /\ LifeStep
<1> DEFINE p == IF mem[t].verdict = "CONFIRMED" THEN "netIncident" ELSE "netDone"
<1>1. TypeOK /\ Fits(pc[t], SaidOf[t], mem[t], rows[t]) /\ pc[t] = "netSave"
  BY DEF ServiceInv, LifeInv, NetSave
<1>2. Goto(t, p) /\ SaveTask(t) /\ UNCHANGED <<kind, events>> /\ UNCHANGED mem
  BY DEF NetSave, request, work
<1>3. mem[t] \in Life!Results(mem[t].status) /\ mem[t].status \in Final
  <2>1. Concluded(mem[t]) /\ mem[t] \in Record /\ mem[t].status \in Final
    BY <1>1 DEF ServiceInv, TypeOK, TaskInv, CopyInv, Fits, Final
  <2> QED BY <2>1, ConcludedIsResult
<1>4. PICK row \in {rows[t], mem[t]} : rows' = [rows EXCEPT ![t] = row]
  BY <1>1, <1>2, Alone DEF SaveTask
<1>5. SaidOf' = [SaidOf EXCEPT ![t] = SaidOf[t]] /\ mem' = [mem EXCEPT ![t] = mem[t]]
  BY <1>1, <1>2, SaidStays, Alone
<1>6. Fits(p, SaidOf[t], mem[t], row)
  BY <1>1, <1>3 DEF Fits, Silent, Unsaved, Final
<1>7. LifeInv'
  <2> HIDE DEF p
  <2> QED BY <1>1, <1>2, <1>4, <1>5, <1>6, MoveKeepsLifeInv DEF Goto
<1>8. LifeStep
  <2>1. p \in AtWork /\ pc[t] \in AtWork
    BY <1>1 DEF AtWork, Running
  <2>2. /\ rows[t] = Pending
        /\ \/ SaidOf[t] = mem[t].status
           \/ SaidOf[t] = "nothing" /\ mem[t].status = "COMPLETED"
    BY <1>1 DEF Fits, Silent, Unsaved
  <2> HIDE DEF p
  <2> QED BY <1>2, <1>3, <2>1, <2>2, StoreStep
<1> QED BY <1>7, <1>8

(* The check before a rule: the task goes on, or its cancellation is       *)
(* announced.                                                              *)
LEMMA CheckGoesOnOrAnnounces ==
  ASSUME ServiceInv, LifeInv, NEW t \in Tasks, Check(t)
  PROVE  LifeInv' /\ LifeStep
<1>1. /\ TypeOK /\ Fits(pc[t], SaidOf[t], mem[t], rows[t]) /\ pc[t] = "rules"
      /\ UNCHANGED <<kind, rows>> /\ rows' = [rows EXCEPT ![t] = rows[t]]
  BY Alone DEF ServiceInv, LifeInv, Check, request, store
<1>2. CASE ctx[t] = "live"
  <2>1. Goto(t, "step") /\ UNCHANGED mem /\ UNCHANGED events
    BY <1>2 DEF Check
  <2>2. /\ pc' = [pc EXCEPT ![t] = "step"]
        /\ SaidOf' = [SaidOf EXCEPT ![t] = SaidOf[t]]
        /\ mem' = [mem EXCEPT ![t] = mem[t]]
        /\ rows' = [rows EXCEPT ![t] = rows[t]]
    BY <1>1, <2>1, SaidStays, Alone DEF Goto
  <2>3. Fits("step", SaidOf[t], mem[t], rows[t])
    BY <1>1 DEF Fits, Silent, Unsaved
  <2>4. LifeInv'
    BY <2>2, <2>3, MoveKeepsLifeInv DEF ServiceInv
  <2>5. UNCHANGED Life!vars
    BY <1>1, <2>1, QuietStep DEF AtWork, Running
  <2> QED BY <2>4, <2>5 DEF LifeStep
<1>3. CASE ctx[t] # "live"
  <2> DEFINE m == [mem[t] EXCEPT !.status = "CANCELLED"]
  <2>1. PICK p \in {"save", "failed"} : Goto(t, p)
    BY <1>3 DEF Check
  <2>2. /\ Publish(t, "task_cancelled") /\ "task_cancelled" \in Terminal
        /\ Terminal \subseteq EventTypes /\ mem' = [mem EXCEPT ![t] = m]
    BY <1>1, <1>3 DEF Check, SetStatus, EventTypes, Terminal
  <2>3. SaidOf' = [SaidOf EXCEPT ![t] = "CANCELLED"] /\ SaidOf[t] = "nothing"
        /\ rows[t] = Pending
    BY <1>1, <2>2, SaidAfterPublish DEF EndOf, Fits, Silent, Unsaved
  <2>4. Fits(p, "CANCELLED", m, rows[t])
    BY <1>1 DEF Fits, Silent, Unsaved, Final, TypeOK, Record
  <2>5. LifeInv'
    BY <1>1, <2>1, <2>2, <2>3, <2>4, MoveKeepsLifeInv DEF Goto
  <2>6. Life!Announce(t)
    BY <1>1, <2>1, <2>2, <2>3, AnnounceStep DEF AtWork, Running
  <2> QED BY <2>5, <2>6 DEF LifeStep, Life!Next
<1> QED BY <1>2, <1>3

(* The end of the goroutine.                                               *)
LEMMA CleanupCloses ==
  ASSUME ServiceInv, LifeInv, NEW t \in Tasks, Cleanup(t)
  PROVE  LifeInv' /\ LifeStep
<1>1. /\ TypeOK /\ Fits(pc[t], SaidOf[t], mem[t], rows[t]) /\ pc[t] = "cleanup"
      /\ pc' = [pc EXCEPT ![t] = "end"]
      /\ UNCHANGED events /\ UNCHANGED <<kind, rows, mem>>
  BY DEF ServiceInv, LifeInv, Cleanup, Goto, store, work
<1>2. /\ pc' = [pc EXCEPT ![t] = "end"]
      /\ SaidOf' = [SaidOf EXCEPT ![t] = SaidOf[t]]
      /\ mem' = [mem EXCEPT ![t] = mem[t]]
      /\ rows' = [rows EXCEPT ![t] = rows[t]]
  BY <1>1, SaidStays, Alone
<1>3. Fits("end", SaidOf[t], mem[t], rows[t])
  BY DEF Fits, Silent, Unsaved
<1>4. LifeInv'
  BY <1>2, <1>3, MoveKeepsLifeInv DEF ServiceInv
<1>5. OpenTasks' = OpenTasks \ {t} /\ t \in OpenTasks
  BY <1>1 DEF OpenTasks, TypeOK, AtWork, Running
<1>6. SaidOf[t] # "nothing"
  BY <1>1 DEF Fits
<1>7. Life!Close(t)
  BY <1>1, <1>5, <1>6, SaidStays DEF Life!Close, OpenTasks, SaidOf
<1> QED BY <1>4, <1>7 DEF LifeStep, Life!Next

-----------------------------------------------------------------------------
(* A new task is accepted: its row is pending, or the save has failed and  *)
(* the task is not opened.  A replay is never opened.                      *)
LEMMA AcceptStep ==
  ASSUME ServiceInv, LifeInv, NEW t \in Tasks, NEW k \in {"resource", "network", "replay"},
         kind[t] = "none", kind' = [kind EXCEPT ![t] = k], SaveTask(t),
         UNCHANGED <<mem, events>>, NEW p \in {"saved", "end"}, Goto(t, p),
         p = "saved" => rows' = [rows EXCEPT ![t] = mem[t]]
  PROVE  LifeInv' /\ LifeStep
<1>1. TypeOK /\ Fits(pc[t], SaidOf[t], mem[t], rows[t]) /\ pc[t] = "none"
  BY DEF ServiceInv, LifeInv, TaskInv, PlaceInv
<1>2. mem[t] = Pending /\ rows[t] = NoRow /\ SaidOf[t] = "nothing"
  BY <1>1 DEF ServiceInv, TypeOK, TaskInv, CopyInv, Undecided, Record, Pending,
     Fits, Silent
<1>3. PICK row \in {NoRow, Pending} :
        rows' = [rows EXCEPT ![t] = row] /\ (p = "saved" => row = Pending)
  BY <1>1, <1>2, Alone DEF SaveTask
<1>4. /\ UNCHANGED SaidOf /\ SaidOf' = [SaidOf EXCEPT ![t] = SaidOf[t]]
      /\ mem' = [mem EXCEPT ![t] = mem[t]]
  BY <1>1, SaidStays, Alone
<1>5. Fits(p, SaidOf[t], mem[t], row)
  BY <1>2, <1>3 DEF Fits, Silent, Unsaved
<1>6. LifeInv'
  BY <1>1, <1>3, <1>4, <1>5, MoveKeepsLifeInv DEF Goto
<1>7. AcceptedTasks' = AcceptedTasks \union {t} /\ t \notin AcceptedTasks
  BY DEF ServiceInv, TypeOK, AcceptedTasks
<1>8. OpenTasks' = IF p = "saved" THEN OpenTasks \union {t} ELSE OpenTasks
  BY <1>1 DEF OpenTasks, TypeOK, Goto, AtWork, Running
<1>9. rows' \in {rows, [rows EXCEPT ![t] = Life!Pending]}
      /\ (p = "saved" => rows' = [rows EXCEPT ![t] = Life!Pending])
  BY <1>1, <1>2, <1>3, Alone DEF Pending, Life!Pending
<1>10. Life!Accept(t)
  BY <1>4, <1>7, <1>8, <1>9 DEF Life!Accept, AcceptedTasks, OpenTasks, SaidOf
<1> QED BY <1>6, <1>10 DEF LifeStep, Life!Next

(* Cancellations and the deadline change no task; the goroutine hears of   *)
(* them at its next check.                                                 *)
LEMMA RequestsAreQuiet ==
  ASSUME ServiceInv, LifeInv, UNCHANGED <<kind, pc, mem, events, rows>>
  PROVE  LifeInv' /\ LifeStep
<1>1. UNCHANGED SaidOf
  BY SaidStays
<1>2. LifeInv'
  BY <1>1 DEF LifeInv, Fits, Life!Results
<1>3. UNCHANGED Life!vars
  BY <1>1 DEF Life!vars, SaidOf
<1> QED BY <1>2, <1>3 DEF LifeStep

(* The end of the process.                                                 *)
LEMMA CrashRestarts ==
  ASSUME ServiceInv, LifeInv, Crash
  PROVE  LifeInv' /\ LifeStep
<1>1. SaidOf' = [t \in Tasks |-> "nothing"]
  BY DEF Crash, SaidOf, Said
<1>2. \A t \in Tasks : pc'[t] \notin AtWork
  BY DEF Crash, AtWork, Running
<1>3. OpenTasks' = {}
  BY <1>2 DEF OpenTasks
<1>4. rows' \in {rows, [t \in Tasks |-> Life!Absent]} /\ UNCHANGED AcceptedTasks
  BY DEF Crash, NoRow, Life!Absent, AcceptedTasks
<1>5. Life!Restart
  BY <1>1, <1>3, <1>4 DEF Life!Restart, OpenTasks, AcceptedTasks, SaidOf
<1>6. ASSUME NEW t \in Tasks PROVE Fits(pc'[t], SaidOf'[t], mem'[t], rows'[t])
  <2>1. pc'[t] \notin AtWork /\ SaidOf'[t] = "nothing"
    BY <1>1, <1>2
  <2>2. pc'[t] = "none" => rows'[t] = NoRow
    BY DEF Crash, LifeInv, Fits
  <2> QED BY <2>1, <2>2 DEF Fits, AtWork, Running, Unsaved
<1>7. LifeInv'
  BY <1>6 DEF LifeInv, Fits, Life!Results
<1> QED BY <1>5, <1>7 DEF LifeStep, Life!Next

-----------------------------------------------------------------------------
(* At the start nothing is accepted, said or stored.                       *)
LEMMA LifeInit == Init => LifeInv /\ Life!Init
<1> SUFFICES ASSUME Init PROVE LifeInv /\ Life!Init
  OBVIOUS
<1>1. SaidOf = [t \in Tasks |-> "nothing"]
  BY DEF Init, SaidOf, Said
<1>2. LifeInv
  BY <1>1 DEF Init, LifeInv, Fits, Unsaved, NoRow
<1>3. OpenTasks = {} /\ AcceptedTasks = {}
  BY DEF Init, OpenTasks, AcceptedTasks, AtWork, Running
<1>4. rows = [t \in Tasks |-> Life!Absent]
  BY DEF Init, NoRow, Life!Absent
<1>5. Life!Init
  BY <1>1, <1>3, <1>4 DEF Life!Init, OpenTasks, AcceptedTasks, SaidOf
<1> QED BY <1>2, <1>5

(* Every step of the service is a step in the life of a task, or none.     *)
LEMMA StepIsLifeStep ==
  ASSUME ServiceInv, LifeInv, [Next]_vars
  PROVE  LifeInv' /\ LifeStep
<1>1. ASSUME NEW t \in Tasks, Goroutine(t) PROVE LifeInv' /\ LifeStep
  BY <1>1, BuildIsQuiet, StartIsQuiet, CheckGoesOnOrAnnounces, StepIsQuiet,
     CompleteAnnounces, FailAnnounces, ReportIsQuiet, IncidentIsQuiet, SaveStores,
     CleanupCloses, NetStartIsQuiet, NetStepIsQuiet, NetHypothesisIsQuiet,
     NetReportIsQuiet, NetSaveStores, NetIncidentIsQuiet, NetCompleteAnnounces
  DEF Goroutine
<1>2. ASSUME NEW t \in Tasks, NEW k \in {"resource", "network"}, Create(t, k)
      PROVE  LifeInv' /\ LifeStep
  <2>1. PICK p \in {"saved", "end"} :
          Goto(t, p) /\ (p = "saved" => rows' = [rows EXCEPT ![t] = mem[t]])
    BY <1>2 DEF Create, SaveTask
  <2> QED BY <1>2, <2>1, AcceptStep DEF Create, work
<1>3. ASSUME NEW t \in Tasks, NEW i \in Tasks, Replay(t, i)
      PROVE  LifeInv' /\ LifeStep
  BY <1>3, AcceptStep DEF Replay, work
<1>4. ASSUME NEW t \in Tasks, CancelLookup(t) \/ CancelCall(t) \/ Deadline(t)
      PROVE  LifeInv' /\ LifeStep
  BY <1>4, RequestsAreQuiet DEF CancelLookup, CancelCall, Deadline, store, work
<1>5. CASE UNCHANGED vars
  BY <1>5, RequestsAreQuiet DEF vars
<1> QED
  BY <1>1, <1>2, <1>3, <1>4, <1>5, RegisterIsQuiet, CrashRestarts DEF Next

(* The goroutines, handlers, saves and restarts of the service, in any     *)
(* interleaving, give each task the life TaskLife promises.                *)
THEOREM ServiceImplementsLife == Spec => RefinesTaskLife
<1>1. Init => ServiceInv /\ LifeInv /\ Life!Init
  BY ServiceInvInit, LifeInit
<1>2. ServiceInv /\ LifeInv /\ [Next]_vars => LifeInv' /\ [Life!Next]_(Life!vars)
  BY StepIsLifeStep DEF LifeStep
<1> QED
  BY <1>1, <1>2, ServiceInvHolds, PTL DEF Spec, RefinesTaskLife, Life!Spec

-----------------------------------------------------------------------------
(* The agreement of announcements, rows and incidents is not inductive     *)
(* either: what was announced at a place, what the repository has by then, *)
(* and whose incident it is.                                               *)
ResourcePlaces == {"build", "start", "rules", "step", "failed", "report", "incident", "save"}

AnnouncedAt(place, context, ends, last, said, row) ==
  /\ place \in Silent => ends = {}
  /\ place = "failed" => ends = {} \/ (context = "expired" /\ ends = {last})
  /\ ends # {} => ends = {last} \/ (context = "expired" /\ ends = {last - 1, last})
  /\ ends # {} /\ row.status \in Final => said = row.status

NetworkAt(place, k, ends, refused, row) ==
  /\ place \in ResourcePlaces => k # "network"
  /\ k = "network" /\ ~refused /\ (place \in {"netIncident", "netDone", "cleanup"} \/ ends # {})
       => row.status = "COMPLETED"

IncidentAt(refused, place, copy, incident, row) ==
  /\ incident = "saved" =>
       /\ place \in {"save", "netDone", "cleanup", "end", "dead"}
       /\ place = "save" => copy = Issue
       /\ row = Issue \/ (row = Pending /\ (place \in {"save", "dead"} \/ refused))
  /\ place \in {"incident", "netIncident"} => copy = Issue
  /\ place \in {"netIncident", "netDone"} => row = copy \/ (row = Pending /\ refused)
  /\ place \in {"save", "netDone"} /\ copy = Issue => incident # "none"
  /\ row = Issue => incident # "none" \/ place \in {"netIncident", "dead"}

OutcomeAt(t) ==
  /\ AnnouncedAt(pc[t], ctx[t], Ends(t), Len(events[t]), Said(t), rows[t])
  /\ NetworkAt(pc[t], kind[t], Ends(t), t \in lost, rows[t])
  /\ IncidentAt(t \in lost, pc[t], mem[t], incidents[t], rows[t])
OutcomeInv == \A t \in Tasks : OutcomeAt(t)

(* A task of which nothing changes.                                        *)
Same(t) ==
  /\ pc'[t] = pc[t] /\ kind'[t] = kind[t] /\ ctx'[t] = ctx[t] /\ mem'[t] = mem[t]
  /\ events'[t] = events[t] /\ rows'[t] = rows[t] /\ incidents'[t] = incidents[t]
  /\ (t \in lost' <=> t \in lost) /\ postgres' = postgres

(* What a task has announced changes with its events only ...              *)
LEMMA EndsStay ==
  ASSUME NEW t, events'[t] = events[t]
  PROVE  Ends(t)' = Ends(t) /\ Said(t)' = Said(t)
BY DEF Ends, Said

LEMMA SameKeepsOutcome ==
  ASSUME NEW t, Same(t), OutcomeAt(t)
  PROVE  OutcomeAt(t)'
<1>1. Ends(t)' = Ends(t) /\ Said(t)' = Said(t)
  BY EndsStay DEF Same
<1> QED
  BY <1>1 DEF OutcomeAt, Same, AnnouncedAt, NetworkAt, IncidentAt

(* ... and with each of them.                                              *)
LEMMA EndsAfterPublish ==
  ASSUME TypeOK, NEW t \in Tasks, NEW e \in EventTypes, Publish(t, e)
  PROVE  /\ Len(events[t]) \in Nat /\ Len(events'[t]) = Len(events[t]) + 1
         /\ Ends(t)' = IF e \in Terminal THEN Ends(t) \union {Len(events[t]) + 1} ELSE Ends(t)
<1> HIDE DEF EventTypes
<1>1. events[t] \in Seq(EventTypes) /\ events'[t] = Append(events[t], e)
  BY DEF TypeOK, Publish
<1>2. /\ Len(events[t]) \in Nat /\ Len(events'[t]) = Len(events[t]) + 1
      /\ DOMAIN events[t] = 1 .. Len(events[t])
      /\ DOMAIN events'[t] = 1 .. Len(events[t]) + 1
      /\ events'[t][Len(events[t]) + 1] = e
      /\ \A i \in 1 .. Len(events[t]) : events'[t][i] = events[t][i]
  BY <1>1
<1>3. /\ Ends(t) = {i \in 1 .. Len(events[t]) : events[t][i] \in Terminal}
      /\ Ends(t)' = {i \in 1 .. Len(events[t]) + 1 : events'[t][i] \in Terminal}
  BY <1>2 DEF Ends
<1> HIDE DEF Terminal
<1>4. \A i \in 1 .. Len(events[t]) + 1 : i \in 1 .. Len(events[t]) \/ i = Len(events[t]) + 1
  BY <1>2
<1>5. 1 .. Len(events[t]) \subseteq 1 .. Len(events[t]) + 1 /\ Len(events[t]) + 1 \in 1 .. Len(events[t]) + 1
  BY <1>2
<1>6. CASE e \in Terminal
  BY <1>2, <1>3, <1>4, <1>5, <1>6
<1>7. CASE e \notin Terminal
  BY <1>2, <1>3, <1>4, <1>5, <1>7
<1> QED BY <1>2, <1>6, <1>7

(* A step of a goroutine, or of the POST handler behind it, changes nothing *)
(* of another task.                                                         *)
LEMMA OthersAreSame ==
  ASSUME TypeOK, NEW t \in Tasks, NEW u \in Tasks, u # t, Goroutine(t) \/ Register(t)
  PROVE  Same(u)
<1>1. CASE Register(t)
  BY <1>1 DEF Register, Same, TypeOK, Goto, SetStatus, Publish, SaveTask,
     SaveIncident, request, work, store
<1>2. CASE Build(t)
  BY <1>2 DEF Build, Same, TypeOK, Goto, SetStatus, Publish, SaveTask, SaveIncident,
     request, work, store
<1>3. CASE Start(t)
  BY <1>3 DEF Start, Same, TypeOK, Goto, SetStatus, Publish, SaveTask, SaveIncident,
     request, work, store
<1>4. CASE Check(t)
  BY <1>4 DEF Check, Same, TypeOK, Goto, SetStatus, Publish, SaveTask, SaveIncident,
     request, work, store
<1>5. CASE Step(t)
  BY <1>5 DEF Step, Same, TypeOK, Goto, SetStatus, Publish, SaveTask, SaveIncident,
     request, work, store
<1>6. CASE Complete(t)
  BY <1>6 DEF Complete, Same, TypeOK, Goto, SetStatus, Publish, SaveTask,
     SaveIncident, request, work, store
<1>7. CASE Fail(t)
  BY <1>7 DEF Fail, Same, TypeOK, Goto, SetStatus, Publish, SaveTask, SaveIncident,
     request, work, store
<1>8. CASE Report(t)
  BY <1>8 DEF Report, Same, TypeOK, Goto, SetStatus, Publish, SaveTask,
     SaveIncident, request, work, store
<1>9. CASE Incident(t)
  BY <1>9 DEF Incident, Same, TypeOK, Goto, SetStatus, Publish, SaveTask,
     SaveIncident, request, work, store
<1>10. CASE Save(t)
  BY <1>10 DEF Save, Same, TypeOK, Goto, SetStatus, Publish, SaveTask, SaveIncident,
     request, work, store
<1>11. CASE Cleanup(t)
  BY <1>11 DEF Cleanup, Same, TypeOK, Goto, SetStatus, Publish, SaveTask,
     SaveIncident, request, work, store
<1>12. CASE NetStart(t)
  BY <1>12 DEF NetStart, Same, TypeOK, Goto, SetStatus, Publish, SaveTask,
     SaveIncident, request, work, store
<1>13. CASE NetStep(t)
  BY <1>13 DEF NetStep, Same, TypeOK, Goto, SetStatus, Publish, SaveTask,
     SaveIncident, request, work, store
<1>14. CASE NetHypothesis(t)
  BY <1>14 DEF NetHypothesis, Same, TypeOK, Goto, SetStatus, Publish, SaveTask,
     SaveIncident, request, work, store
<1>15. CASE NetReport(t)
  BY <1>15 DEF NetReport, Same, TypeOK, Goto, SetStatus, Publish, SaveTask,
     SaveIncident, request, work, store
<1>16. CASE NetSave(t)
  BY <1>16 DEF NetSave, Same, TypeOK, Goto, SetStatus, Publish, SaveTask,
     SaveIncident, request, work, store
<1>17. CASE NetIncident(t)
  BY <1>17 DEF NetIncident, Same, TypeOK, Goto, SetStatus, Publish, SaveTask,
     SaveIncident, request, work, store
<1>18. CASE NetComplete(t)
  BY <1>18 DEF NetComplete, Same, TypeOK, Goto, SetStatus, Publish, SaveTask,
     SaveIncident, request, work, store
<1> QED
  BY <1>1, <1>2, <1>3, <1>4, <1>5, <1>6, <1>7, <1>8, <1>9, <1>10, <1>11, <1>12,
     <1>13, <1>14, <1>15, <1>16, <1>17, <1>18 DEF Goroutine

(* ... and keeps the outcome of its own.                                    *)
LEMMA OwnOutcome ==
  ASSUME ServiceInv, LifeInv, NEW t \in Tasks, OutcomeAt(t), Goroutine(t) \/ Register(t)
  PROVE  OutcomeAt(t)'
<1>1. /\ TypeOK /\ CopyInv(t) /\ RowInv(t) /\ PlaceInv(t)
      /\ Fits(pc[t], Said(t), mem[t], rows[t])
      /\ AnnouncedAt(pc[t], ctx[t], Ends(t), Len(events[t]), Said(t), rows[t])
      /\ NetworkAt(pc[t], kind[t], Ends(t), t \in lost, rows[t])
      /\ IncidentAt(t \in lost, pc[t], mem[t], incidents[t], rows[t])
  BY DEF ServiceInv, TaskInv, LifeInv, SaidOf, OutcomeAt
<1>2. mem[t] \in Record /\ pc[t] \in Places /\ events[t] \in Seq(EventTypes)
  <2> HIDE DEF EventTypes
  <2> QED BY <1>1 DEF TypeOK
<1>3. Terminal \subseteq EventTypes /\ Len(events[t]) \in Nat
  BY <1>2 DEF EventTypes, Terminal
<1>4. CASE Register(t)
  <2>1. Ends(t)' = Ends(t) /\ Said(t)' = Said(t) /\ events'[t] = events[t]
    BY <1>4, EndsStay DEF Register, request, work, store
  <2>2. /\ pc'[t] \in {"netStart", "build"} /\ pc[t] = "saved"
        /\ kind'[t] = kind[t] /\ postgres' = postgres
        /\ ctx'[t] = ctx[t]
        /\ mem'[t] = mem[t]
        /\ (pc'[t] = "netStart" <=> kind[t] = "network")
        /\ rows'[t] = rows[t] /\ (t \in lost' <=> t \in lost)
        /\ incidents'[t] = incidents[t]
    BY <1>1, <1>2, <1>4 DEF Register, Goto, SetStatus, SaveTask, SaveIncident,
       TypeOK,
       Record, request, work, store
  <2>3. AnnouncedAt(pc'[t], ctx'[t], Ends(t)', Len(events'[t]), Said(t)', rows'[t])
    BY <1>1, <1>3, <2>1, <2>2 DEF AnnouncedAt, Silent, Fits, Unsaved, Pending,
       Final, EndOf,
       Life!Results
  <2>4. NetworkAt(pc'[t], kind'[t], Ends(t)', t \in lost', rows'[t])
    BY <1>1, <2>1, <2>2 DEF NetworkAt, ResourcePlaces, PlaceInv, NetPlaces, Fits
  <2>5. IncidentAt(t \in lost', pc'[t], mem'[t], incidents'[t], rows'[t])
    BY <1>1, <1>2, <2>2 DEF IncidentAt, Issue, Concluded, CopyInv,
       Undecided,
       Record, Fits, Silent, Unsaved, Pending, Life!Results
  <2> QED BY <2>3, <2>4, <2>5 DEF OutcomeAt, AnnouncedAt, NetworkAt, IncidentAt
<1>5. CASE Build(t)
  <2>1. Ends(t)' = Ends(t) /\ Said(t)' = Said(t) /\ events'[t] = events[t]
    BY <1>5, EndsStay DEF Build, request, work, store
  <2>2. /\ pc'[t] \in {"failed", "start"} /\ pc[t] = "build"
        /\ kind'[t] = kind[t] /\ postgres' = postgres
        /\ ctx'[t] = ctx[t]
        /\ mem'[t] = mem[t]
        /\ rows'[t] = rows[t] /\ (t \in lost' <=> t \in lost)
        /\ incidents'[t] = incidents[t]
    BY <1>1, <1>2, <1>5 DEF Build, Goto, SetStatus, SaveTask, SaveIncident, TypeOK,
       Record, request, work, store
  <2>3. AnnouncedAt(pc'[t], ctx'[t], Ends(t)', Len(events'[t]), Said(t)', rows'[t])
    BY <1>1, <1>3, <2>1, <2>2 DEF AnnouncedAt, Silent, Fits, Unsaved, Pending,
       Final, EndOf,
       Life!Results
  <2>4. NetworkAt(pc'[t], kind'[t], Ends(t)', t \in lost', rows'[t])
    BY <1>1, <2>1, <2>2 DEF NetworkAt, ResourcePlaces, PlaceInv, NetPlaces, Fits
  <2>5. IncidentAt(t \in lost', pc'[t], mem'[t], incidents'[t], rows'[t])
    BY <1>1, <1>2, <2>2 DEF IncidentAt, Issue, Concluded, CopyInv,
       Undecided,
       Record, Fits, Silent, Unsaved, Pending, Life!Results
  <2> QED BY <2>3, <2>4, <2>5 DEF OutcomeAt, AnnouncedAt, NetworkAt, IncidentAt
<1>6. CASE Start(t)
  <2>1. Ends(t)' = Ends(t) /\ Len(events'[t]) = Len(events[t]) + 1
    BY <1>1, <1>6, EndsAfterPublish DEF Start, EventTypes, Terminal
  <2>2. /\ pc'[t] = "rules" /\ pc[t] = "start"
        /\ kind'[t] = kind[t] /\ postgres' = postgres
        /\ ctx'[t] = ctx[t]
        /\ mem'[t].status = "RUNNING"
        /\ rows'[t] = rows[t] /\ (t \in lost' <=> t \in lost)
        /\ incidents'[t] = incidents[t]
    BY <1>1, <1>2, <1>6 DEF Start, Goto, SetStatus, SaveTask, SaveIncident, TypeOK,
       Record, request, work, store
  <2>3. AnnouncedAt(pc'[t], ctx'[t], Ends(t)', Len(events'[t]), Said(t)', rows'[t])
    BY <1>1, <1>3, <2>1, <2>2 DEF AnnouncedAt, Silent, Fits, Unsaved, Pending,
       Final, EndOf,
       Life!Results
  <2>4. NetworkAt(pc'[t], kind'[t], Ends(t)', t \in lost', rows'[t])
    BY <1>1, <2>1, <2>2 DEF NetworkAt, ResourcePlaces, PlaceInv, NetPlaces, Fits
  <2>5. IncidentAt(t \in lost', pc'[t], mem'[t], incidents'[t], rows'[t])
    BY <1>1, <1>2, <2>2 DEF IncidentAt, Issue, Concluded, CopyInv,
       Undecided,
       Record, Fits, Silent, Unsaved, Pending, Life!Results
  <2> QED BY <2>3, <2>4, <2>5 DEF OutcomeAt, AnnouncedAt, NetworkAt, IncidentAt
<1>7. CASE Check(t)
  <2>1. CASE ctx[t] = "live"
    <3>1. Ends(t)' = Ends(t) /\ Said(t)' = Said(t) /\ events'[t] = events[t]
      BY <1>7, <2>1, EndsStay DEF Check
    <3>2. /\ pc'[t] = "step" /\ pc[t] = "rules" /\ mem'[t] = mem[t] /\ rows'[t] = rows[t]
          /\ kind'[t] = kind[t] /\ ctx'[t] = ctx[t] /\ incidents'[t] = incidents[t]
          /\ (t \in lost' <=> t \in lost) /\ postgres' = postgres
      BY <1>1, <1>7, <2>1 DEF Check, Goto, TypeOK, request, store
    <3> QED BY <1>1, <3>1, <3>2 DEF OutcomeAt, AnnouncedAt, NetworkAt, IncidentAt,
               Silent,
               ResourcePlaces
  <2>2. CASE ctx[t] # "live"
    <3>1. /\ Ends(t)' = Ends(t) \union {Len(events[t]) + 1}
          /\ Len(events'[t]) = Len(events[t]) + 1
          /\ Said(t)' = "CANCELLED"
      <4>1. Publish(t, "task_cancelled") /\ "task_cancelled" \in Terminal
        BY <1>7, <2>2 DEF Check, Terminal
      <4>2. SaidOf' = [SaidOf EXCEPT ![t] = "CANCELLED"]
        BY <1>1, <1>3, <4>1, SaidAfterPublish DEF EndOf
      <4> QED BY <1>1, <1>3, <4>1, <4>2, EndsAfterPublish DEF SaidOf
    <3>2. /\ pc'[t] = IF ctx[t] = "expired" THEN "failed" ELSE "save"
          /\ pc[t] = "rules" /\ mem'[t].status = "CANCELLED" /\ rows'[t] = rows[t]
          /\ kind'[t] = kind[t] /\ ctx'[t] = ctx[t] /\ incidents'[t] = incidents[t]
          /\ (t \in lost' <=> t \in lost) /\ postgres' = postgres
      BY <1>1, <1>2, <1>7, <2>2 DEF Check, Goto, SetStatus, TypeOK, Record, request,
         store
    <3>3. Ends(t)' = {Len(events'[t])} /\ rows[t] = Pending
      BY <1>1, <3>1, <3>2 DEF AnnouncedAt, Silent, Fits, Unsaved
    <3>4. AnnouncedAt(pc'[t], ctx'[t], Ends(t)', Len(events'[t]), Said(t)', rows'[t])
      BY <3>1, <3>2, <3>3 DEF AnnouncedAt, Silent, Pending, Final
    <3>5. NetworkAt(pc'[t], kind'[t], Ends(t)', t \in lost', rows'[t])
      BY <1>1, <3>2 DEF NetworkAt, ResourcePlaces
    <3>6. IncidentAt(t \in lost', pc'[t], mem'[t], incidents'[t], rows'[t])
      BY <1>1, <3>2 DEF IncidentAt, Issue
    <3> QED BY <3>4, <3>5, <3>6 DEF OutcomeAt, AnnouncedAt, NetworkAt, IncidentAt
  <2> QED BY <2>1, <2>2
<1>8. CASE Step(t)
  <2>1. Ends(t)' = Ends(t) /\ Len(events'[t]) = Len(events[t]) + 1
    BY <1>1, <1>8, EndsAfterPublish DEF Step, EventTypes, Terminal
  <2>2. /\ pc'[t] = "rules" /\ pc[t] = "step"
        /\ kind'[t] = kind[t] /\ postgres' = postgres
        /\ ctx'[t] = ctx[t]
        /\ mem'[t] = mem[t]
        /\ rows'[t] = rows[t] /\ (t \in lost' <=> t \in lost)
        /\ incidents'[t] = incidents[t]
    BY <1>1, <1>2, <1>8 DEF Step, Goto, SetStatus, SaveTask, SaveIncident, TypeOK,
       Record, request, work, store
  <2>3. AnnouncedAt(pc'[t], ctx'[t], Ends(t)', Len(events'[t]), Said(t)', rows'[t])
    BY <1>1, <1>3, <2>1, <2>2 DEF AnnouncedAt, Silent, Fits, Unsaved, Pending,
       Final, EndOf,
       Life!Results
  <2>4. NetworkAt(pc'[t], kind'[t], Ends(t)', t \in lost', rows'[t])
    BY <1>1, <2>1, <2>2 DEF NetworkAt, ResourcePlaces, PlaceInv, NetPlaces, Fits
  <2>5. IncidentAt(t \in lost', pc'[t], mem'[t], incidents'[t], rows'[t])
    BY <1>1, <1>2, <2>2 DEF IncidentAt, Issue, Concluded, CopyInv,
       Undecided,
       Record, Fits, Silent, Unsaved, Pending, Life!Results
  <2> QED BY <2>3, <2>4, <2>5 DEF OutcomeAt, AnnouncedAt, NetworkAt, IncidentAt
<1>9. CASE Complete(t)
  <2>1. /\ Ends(t)' = Ends(t) \union {Len(events[t]) + 1}
        /\ Len(events'[t]) = Len(events[t]) + 1
        /\ Said(t)' = EndOf["diagnosis_completed"]
    <3>1. Publish(t, "diagnosis_completed") /\ "diagnosis_completed" \in Terminal
      BY <1>9 DEF Complete, Terminal
    <3>2. SaidOf' = [SaidOf EXCEPT ![t] = EndOf["diagnosis_completed"]]
      BY <1>1, <1>3, <3>1, SaidAfterPublish
    <3> QED BY <1>1, <1>3, <3>1, <3>2, EndsAfterPublish DEF SaidOf
  <2>2. /\ pc'[t] = "report" /\ pc[t] = "rules"
        /\ kind'[t] = kind[t] /\ postgres' = postgres
        /\ ctx'[t] = ctx[t]
        /\ mem'[t].status = "COMPLETED"
        /\ rows'[t] = rows[t] /\ (t \in lost' <=> t \in lost)
        /\ incidents'[t] = incidents[t]
    BY <1>1, <1>2, <1>9 DEF Complete, Goto, SetStatus, SaveTask, SaveIncident,
       TypeOK,
       Record, request, work, store
  <2>3. AnnouncedAt(pc'[t], ctx'[t], Ends(t)', Len(events'[t]), Said(t)', rows'[t])
    BY <1>1, <1>3, <2>1, <2>2 DEF AnnouncedAt, Silent, Fits, Unsaved, Pending,
       Final, EndOf,
       Life!Results
  <2>4. NetworkAt(pc'[t], kind'[t], Ends(t)', t \in lost', rows'[t])
    BY <1>1, <2>1, <2>2 DEF NetworkAt, ResourcePlaces, PlaceInv, NetPlaces, Fits
  <2>5. IncidentAt(t \in lost', pc'[t], mem'[t], incidents'[t], rows'[t])
    BY <1>1, <1>2, <2>2 DEF IncidentAt, Issue, Concluded, CopyInv,
       Undecided,
       Record, Fits, Silent, Unsaved, Pending, Life!Results
  <2> QED BY <2>3, <2>4, <2>5 DEF OutcomeAt, AnnouncedAt, NetworkAt, IncidentAt
<1>10. CASE Fail(t)
  <2>1. /\ Ends(t)' = Ends(t) \union {Len(events[t]) + 1}
        /\ Len(events'[t]) = Len(events[t]) + 1
        /\ Said(t)' = EndOf["diagnosis_failed"]
    <3>1. Publish(t, "diagnosis_failed") /\ "diagnosis_failed" \in Terminal
      BY <1>10 DEF Fail, Terminal
    <3>2. SaidOf' = [SaidOf EXCEPT ![t] = EndOf["diagnosis_failed"]]
      BY <1>1, <1>3, <3>1, SaidAfterPublish
    <3> QED BY <1>1, <1>3, <3>1, <3>2, EndsAfterPublish DEF SaidOf
  <2>2. /\ pc'[t] = "save" /\ pc[t] = "failed"
        /\ kind'[t] = kind[t] /\ postgres' = postgres
        /\ ctx'[t] = ctx[t]
        /\ mem'[t].status = "FAILED"
        /\ rows'[t] = rows[t] /\ (t \in lost' <=> t \in lost)
        /\ incidents'[t] = incidents[t]
    BY <1>1, <1>2, <1>10 DEF Fail, Goto, SetStatus, SaveTask, SaveIncident, TypeOK,
       Record, request, work, store
  <2>3. AnnouncedAt(pc'[t], ctx'[t], Ends(t)', Len(events'[t]), Said(t)', rows'[t])
    BY <1>1, <1>3, <2>1, <2>2 DEF AnnouncedAt, Silent, Fits, Unsaved, Pending,
       Final, EndOf,
       Life!Results
  <2>4. NetworkAt(pc'[t], kind'[t], Ends(t)', t \in lost', rows'[t])
    BY <1>1, <2>1, <2>2 DEF NetworkAt, ResourcePlaces, PlaceInv, NetPlaces, Fits
  <2>5. IncidentAt(t \in lost', pc'[t], mem'[t], incidents'[t], rows'[t])
    BY <1>1, <1>2, <2>2 DEF IncidentAt, Issue, Concluded, CopyInv,
       Undecided,
       Record, Fits, Silent, Unsaved, Pending, Life!Results
  <2> QED BY <2>3, <2>4, <2>5 DEF OutcomeAt, AnnouncedAt, NetworkAt, IncidentAt
<1>11. CASE Report(t)
  <2>1. Ends(t)' = Ends(t) /\ Said(t)' = Said(t) /\ events'[t] = events[t]
    BY <1>11, EndsStay DEF Report, request, work, store
  <2>2. /\ pc'[t] \in {"incident", "save"} /\ pc[t] = "report"
        /\ kind'[t] = kind[t] /\ postgres' = postgres
        /\ ctx'[t] = ctx[t]
        /\ mem'[t].status = mem[t].status /\ (pc'[t] = "incident" <=> mem'[t].verdict = "CONFIRMED")
        /\ mem'[t] \in Record
        /\ rows'[t] = rows[t] /\ (t \in lost' <=> t \in lost)
        /\ incidents'[t] = incidents[t]
    <3>1. PICK v \in {"CONFIRMED", "OTHER"} :
            /\ mem' = [mem EXCEPT ![t].verdict = v]
            /\ Goto(t, IF v = "CONFIRMED" THEN "incident" ELSE "save")
      BY <1>11 DEF Report
    <3>2. mem'[t] = [mem[t] EXCEPT !.verdict = v]
      BY <1>1, <3>1 DEF TypeOK
    <3>3. /\ mem'[t].status = mem[t].status /\ mem'[t].verdict = v /\ mem'[t] \in Record
          /\ pc'[t] = IF v = "CONFIRMED" THEN "incident" ELSE "save"
      BY <1>1, <1>2, <3>1, <3>2 DEF TypeOK, Goto, Record, Verdicts
    <3> QED BY <1>11, <3>3 DEF Report, request, store
  <2>3. AnnouncedAt(pc'[t], ctx'[t], Ends(t)', Len(events'[t]), Said(t)', rows'[t])
    BY <1>1, <1>3, <2>1, <2>2 DEF AnnouncedAt, Silent, Fits, Unsaved, Pending,
       Final, EndOf,
       Life!Results
  <2>4. NetworkAt(pc'[t], kind'[t], Ends(t)', t \in lost', rows'[t])
    BY <1>1, <2>1, <2>2 DEF NetworkAt, ResourcePlaces, PlaceInv, NetPlaces, Fits
  <2>5. IncidentAt(t \in lost', pc'[t], mem'[t], incidents'[t], rows'[t])
    BY <1>1, <1>2, <2>2 DEF IncidentAt, Issue, Concluded, CopyInv,
       Undecided,
       Record, Fits, Silent, Unsaved, Pending, Life!Results
  <2> QED BY <2>3, <2>4, <2>5 DEF OutcomeAt, AnnouncedAt, NetworkAt, IncidentAt
<1>12. CASE Incident(t)
  <2>1. Ends(t)' = Ends(t) /\ Said(t)' = Said(t) /\ events'[t] = events[t]
    BY <1>12, EndsStay DEF Incident, request, work, store
  <2>2. /\ pc'[t] = "save" /\ pc[t] = "incident"
        /\ kind'[t] = kind[t] /\ postgres' = postgres
        /\ ctx'[t] = ctx[t]
        /\ mem'[t] = mem[t]
        /\ rows'[t] = rows[t] /\ (t \in lost' <=> t \in lost)
        /\ incidents'[t] \in {"saved", "refused"}
    BY <1>1, <1>2, <1>12 DEF Incident, Goto, SetStatus, SaveTask, SaveIncident,
       TypeOK,
       Record, request, work, store
  <2>3. AnnouncedAt(pc'[t], ctx'[t], Ends(t)', Len(events'[t]), Said(t)', rows'[t])
    BY <1>1, <1>3, <2>1, <2>2 DEF AnnouncedAt, Silent, Fits, Unsaved, Pending,
       Final, EndOf,
       Life!Results
  <2>4. NetworkAt(pc'[t], kind'[t], Ends(t)', t \in lost', rows'[t])
    BY <1>1, <2>1, <2>2 DEF NetworkAt, ResourcePlaces, PlaceInv, NetPlaces, Fits
  <2>5. IncidentAt(t \in lost', pc'[t], mem'[t], incidents'[t], rows'[t])
    BY <1>1, <1>2, <2>2 DEF IncidentAt, Issue, Concluded, CopyInv,
       Undecided,
       Record, Fits, Silent, Unsaved, Pending, Life!Results
  <2> QED BY <2>3, <2>4, <2>5 DEF OutcomeAt, AnnouncedAt, NetworkAt, IncidentAt
<1>13. CASE Save(t)
  <2>1. Ends(t)' = Ends(t) /\ Said(t)' = Said(t) /\ events'[t] = events[t]
    BY <1>13, EndsStay DEF Save, request, work, store
  <2>2. /\ pc'[t] = "cleanup" /\ pc[t] = "save"
        /\ kind'[t] = kind[t] /\ postgres' = postgres
        /\ ctx'[t] = ctx[t]
        /\ mem'[t] = mem[t]
        /\ rows'[t] \in {rows[t], mem[t]} /\ (t \notin lost' => rows'[t] = mem[t])
        /\ incidents'[t] = incidents[t]
    BY <1>1, <1>2, <1>13 DEF Save, Goto, SetStatus, SaveTask, SaveIncident, TypeOK,
       Record, request, work, store
  <2>3. AnnouncedAt(pc'[t], ctx'[t], Ends(t)', Len(events'[t]), Said(t)', rows'[t])
    BY <1>1, <1>3, <2>1, <2>2 DEF AnnouncedAt, Silent, Fits, Unsaved, Pending,
       Final, EndOf,
       Life!Results
  <2>4. NetworkAt(pc'[t], kind'[t], Ends(t)', t \in lost', rows'[t])
    BY <1>1, <2>1, <2>2 DEF NetworkAt, ResourcePlaces, PlaceInv, NetPlaces, Fits
  <2>5. IncidentAt(t \in lost', pc'[t], mem'[t], incidents'[t], rows'[t])
    BY <1>1, <1>2, <2>2 DEF IncidentAt, Issue, Concluded, CopyInv,
       Undecided,
       Record, Fits, Silent, Unsaved, Pending, Life!Results
  <2> QED BY <2>3, <2>4, <2>5 DEF OutcomeAt, AnnouncedAt, NetworkAt, IncidentAt
<1>14. CASE Cleanup(t)
  <2>1. Ends(t)' = Ends(t) /\ Said(t)' = Said(t) /\ events'[t] = events[t]
    BY <1>14, EndsStay DEF Cleanup, request, work, store
  <2>2. /\ pc'[t] = "end" /\ pc[t] = "cleanup"
        /\ kind'[t] = kind[t] /\ postgres' = postgres
        /\ (ctx[t] = "expired" => ctx'[t] = "expired")
        /\ mem'[t] = mem[t]
        /\ rows'[t] = rows[t] /\ (t \in lost' <=> t \in lost)
        /\ incidents'[t] = incidents[t]
    BY <1>1, <1>2, <1>14 DEF Cleanup, Goto, SetStatus, SaveTask, SaveIncident,
       TypeOK,
       Record, request, work, store
  <2>3. AnnouncedAt(pc'[t], ctx'[t], Ends(t)', Len(events'[t]), Said(t)', rows'[t])
    BY <1>1, <1>3, <2>1, <2>2 DEF AnnouncedAt, Silent, Fits, Unsaved, Pending,
       Final, EndOf,
       Life!Results
  <2>4. NetworkAt(pc'[t], kind'[t], Ends(t)', t \in lost', rows'[t])
    BY <1>1, <2>1, <2>2 DEF NetworkAt, ResourcePlaces, PlaceInv, NetPlaces, Fits
  <2>5. IncidentAt(t \in lost', pc'[t], mem'[t], incidents'[t], rows'[t])
    BY <1>1, <1>2, <2>2 DEF IncidentAt, Issue, Concluded, CopyInv,
       Undecided,
       Record, Fits, Silent, Unsaved, Pending, Life!Results
  <2> QED BY <2>3, <2>4, <2>5 DEF OutcomeAt, AnnouncedAt, NetworkAt, IncidentAt
<1>15. CASE NetStart(t)
  <2>1. Ends(t)' = Ends(t) /\ Len(events'[t]) = Len(events[t]) + 1
    BY <1>1, <1>15, EndsAfterPublish DEF NetStart, EventTypes, Terminal
  <2>2. /\ pc'[t] = "netStep" /\ pc[t] = "netStart"
        /\ kind'[t] = kind[t] /\ postgres' = postgres
        /\ ctx'[t] = ctx[t]
        /\ mem'[t].status = "RUNNING"
        /\ rows'[t] = rows[t] /\ (t \in lost' <=> t \in lost)
        /\ incidents'[t] = incidents[t]
    BY <1>1, <1>2, <1>15 DEF NetStart, Goto, SetStatus, SaveTask, SaveIncident,
       TypeOK,
       Record, request, work, store
  <2>3. AnnouncedAt(pc'[t], ctx'[t], Ends(t)', Len(events'[t]), Said(t)', rows'[t])
    BY <1>1, <1>3, <2>1, <2>2 DEF AnnouncedAt, Silent, Fits, Unsaved, Pending,
       Final, EndOf,
       Life!Results
  <2>4. NetworkAt(pc'[t], kind'[t], Ends(t)', t \in lost', rows'[t])
    BY <1>1, <2>1, <2>2 DEF NetworkAt, ResourcePlaces, PlaceInv, NetPlaces, Fits
  <2>5. IncidentAt(t \in lost', pc'[t], mem'[t], incidents'[t], rows'[t])
    BY <1>1, <1>2, <2>2 DEF IncidentAt, Issue, Concluded, CopyInv,
       Undecided,
       Record, Fits, Silent, Unsaved, Pending, Life!Results
  <2> QED BY <2>3, <2>4, <2>5 DEF OutcomeAt, AnnouncedAt, NetworkAt, IncidentAt
<1>16. CASE NetStep(t)
  <2>1. Ends(t)' = Ends(t) /\ Len(events'[t]) = Len(events[t]) + 1
    BY <1>1, <1>16, EndsAfterPublish DEF NetStep, EventTypes, Terminal
  <2>2. /\ pc'[t] = "netStep" /\ pc[t] = "netStep"
        /\ kind'[t] = kind[t] /\ postgres' = postgres
        /\ ctx'[t] = ctx[t]
        /\ mem'[t] = mem[t]
        /\ rows'[t] = rows[t] /\ (t \in lost' <=> t \in lost)
        /\ incidents'[t] = incidents[t]
    BY <1>1, <1>2, <1>16 DEF NetStep, Goto, SetStatus, SaveTask, SaveIncident,
       TypeOK,
       Record, request, work, store
  <2>3. AnnouncedAt(pc'[t], ctx'[t], Ends(t)', Len(events'[t]), Said(t)', rows'[t])
    BY <1>1, <1>3, <2>1, <2>2 DEF AnnouncedAt, Silent, Fits, Unsaved, Pending,
       Final, EndOf,
       Life!Results
  <2>4. NetworkAt(pc'[t], kind'[t], Ends(t)', t \in lost', rows'[t])
    BY <1>1, <2>1, <2>2 DEF NetworkAt, ResourcePlaces, PlaceInv, NetPlaces, Fits
  <2>5. IncidentAt(t \in lost', pc'[t], mem'[t], incidents'[t], rows'[t])
    BY <1>1, <1>2, <2>2 DEF IncidentAt, Issue, Concluded, CopyInv,
       Undecided,
       Record, Fits, Silent, Unsaved, Pending, Life!Results
  <2> QED BY <2>3, <2>4, <2>5 DEF OutcomeAt, AnnouncedAt, NetworkAt, IncidentAt
<1>17. CASE NetHypothesis(t)
  <2>1. Ends(t)' = Ends(t) /\ Len(events'[t]) = Len(events[t]) + 1
    BY <1>1, <1>17, EndsAfterPublish DEF NetHypothesis, EventTypes, Terminal
  <2>2. /\ pc'[t] = "netReport" /\ pc[t] = "netStep"
        /\ kind'[t] = kind[t] /\ postgres' = postgres
        /\ ctx'[t] = ctx[t]
        /\ mem'[t] = mem[t]
        /\ rows'[t] = rows[t] /\ (t \in lost' <=> t \in lost)
        /\ incidents'[t] = incidents[t]
    BY <1>1, <1>2, <1>17 DEF NetHypothesis, Goto, SetStatus, SaveTask, SaveIncident,
       TypeOK,
       Record, request, work, store
  <2>3. AnnouncedAt(pc'[t], ctx'[t], Ends(t)', Len(events'[t]), Said(t)', rows'[t])
    BY <1>1, <1>3, <2>1, <2>2 DEF AnnouncedAt, Silent, Fits, Unsaved, Pending,
       Final, EndOf,
       Life!Results
  <2>4. NetworkAt(pc'[t], kind'[t], Ends(t)', t \in lost', rows'[t])
    BY <1>1, <2>1, <2>2 DEF NetworkAt, ResourcePlaces, PlaceInv, NetPlaces, Fits
  <2>5. IncidentAt(t \in lost', pc'[t], mem'[t], incidents'[t], rows'[t])
    BY <1>1, <1>2, <2>2 DEF IncidentAt, Issue, Concluded, CopyInv,
       Undecided,
       Record, Fits, Silent, Unsaved, Pending, Life!Results
  <2> QED BY <2>3, <2>4, <2>5 DEF OutcomeAt, AnnouncedAt, NetworkAt, IncidentAt
<1>18. CASE NetReport(t)
  <2>1. Ends(t)' = Ends(t) /\ Said(t)' = Said(t) /\ events'[t] = events[t]
    BY <1>18, EndsStay DEF NetReport, request, work, store
  <2>2. /\ pc'[t] = "netSave" /\ pc[t] = "netReport"
        /\ kind'[t] = kind[t] /\ postgres' = postgres
        /\ ctx'[t] = ctx[t]
        /\ mem'[t].status = "COMPLETED"
        /\ rows'[t] = rows[t] /\ (t \in lost' <=> t \in lost)
        /\ incidents'[t] = incidents[t]
    BY <1>1, <1>2, <1>18 DEF NetReport, Goto, SetStatus, SaveTask, SaveIncident,
       TypeOK,
       Record, request, work, store
  <2>3. AnnouncedAt(pc'[t], ctx'[t], Ends(t)', Len(events'[t]), Said(t)', rows'[t])
    BY <1>1, <1>3, <2>1, <2>2 DEF AnnouncedAt, Silent, Fits, Unsaved, Pending,
       Final, EndOf,
       Life!Results
  <2>4. NetworkAt(pc'[t], kind'[t], Ends(t)', t \in lost', rows'[t])
    BY <1>1, <2>1, <2>2 DEF NetworkAt, ResourcePlaces, PlaceInv, NetPlaces, Fits
  <2>5. IncidentAt(t \in lost', pc'[t], mem'[t], incidents'[t], rows'[t])
    BY <1>1, <1>2, <2>2 DEF IncidentAt, Issue, Concluded, CopyInv,
       Undecided,
       Record, Fits, Silent, Unsaved, Pending, Life!Results
  <2> QED BY <2>3, <2>4, <2>5 DEF OutcomeAt, AnnouncedAt, NetworkAt, IncidentAt
<1>19. CASE NetSave(t)
  <2>1. Ends(t)' = Ends(t) /\ Said(t)' = Said(t) /\ events'[t] = events[t]
    BY <1>19, EndsStay DEF NetSave, request, work, store
  <2>2. /\ pc'[t] \in {"netIncident", "netDone"} /\ pc[t] = "netSave"
        /\ kind'[t] = kind[t] /\ postgres' = postgres
        /\ ctx'[t] = ctx[t]
        /\ mem'[t] = mem[t]
        /\ rows'[t] \in {rows[t], mem[t]} /\ (t \notin lost' => rows'[t] = mem[t])
        /\ (pc'[t] = "netIncident" <=> mem[t].verdict = "CONFIRMED")
        /\ incidents'[t] = incidents[t]
    BY <1>1, <1>2, <1>19 DEF NetSave, Goto, SetStatus, SaveTask, SaveIncident,
       TypeOK,
       Record, request, work, store
  <2>3. AnnouncedAt(pc'[t], ctx'[t], Ends(t)', Len(events'[t]), Said(t)', rows'[t])
    BY <1>1, <1>3, <2>1, <2>2 DEF AnnouncedAt, Silent, Fits, Unsaved, Pending,
       Final, EndOf,
       Life!Results
  <2>4. NetworkAt(pc'[t], kind'[t], Ends(t)', t \in lost', rows'[t])
    BY <1>1, <2>1, <2>2 DEF NetworkAt, ResourcePlaces, PlaceInv, NetPlaces, Fits
  <2>5. IncidentAt(t \in lost', pc'[t], mem'[t], incidents'[t], rows'[t])
    BY <1>1, <1>2, <2>2 DEF IncidentAt, Issue, Concluded, CopyInv,
       Undecided,
       Record, Fits, Silent, Unsaved, Pending, Life!Results
  <2> QED BY <2>3, <2>4, <2>5 DEF OutcomeAt, AnnouncedAt, NetworkAt, IncidentAt
<1>20. CASE NetIncident(t)
  <2>1. Ends(t)' = Ends(t) /\ Said(t)' = Said(t) /\ events'[t] = events[t]
    BY <1>20, EndsStay DEF NetIncident, request, work, store
  <2>2. /\ pc'[t] = "netDone" /\ pc[t] = "netIncident"
        /\ kind'[t] = kind[t] /\ postgres' = postgres
        /\ ctx'[t] = ctx[t]
        /\ mem'[t] = mem[t]
        /\ rows'[t] = rows[t] /\ (t \in lost' <=> t \in lost)
        /\ incidents'[t] \in {"saved", "refused"}
    BY <1>1, <1>2, <1>20 DEF NetIncident, Goto, SetStatus, SaveTask, SaveIncident,
       TypeOK,
       Record, request, work, store
  <2>3. AnnouncedAt(pc'[t], ctx'[t], Ends(t)', Len(events'[t]), Said(t)', rows'[t])
    BY <1>1, <1>3, <2>1, <2>2 DEF AnnouncedAt, Silent, Fits, Unsaved, Pending,
       Final, EndOf,
       Life!Results
  <2>4. NetworkAt(pc'[t], kind'[t], Ends(t)', t \in lost', rows'[t])
    BY <1>1, <2>1, <2>2 DEF NetworkAt, ResourcePlaces, PlaceInv, NetPlaces, Fits
  <2>5. IncidentAt(t \in lost', pc'[t], mem'[t], incidents'[t], rows'[t])
    BY <1>1, <1>2, <2>2 DEF IncidentAt, Issue, Concluded, CopyInv,
       Undecided,
       Record, Fits, Silent, Unsaved, Pending, Life!Results
  <2> QED BY <2>3, <2>4, <2>5 DEF OutcomeAt, AnnouncedAt, NetworkAt, IncidentAt
<1>21. CASE NetComplete(t)
  <2>1. /\ Ends(t)' = Ends(t) \union {Len(events[t]) + 1}
        /\ Len(events'[t]) = Len(events[t]) + 1
        /\ Said(t)' = EndOf["diagnosis_completed"]
    <3>1. Publish(t, "diagnosis_completed") /\ "diagnosis_completed" \in Terminal
      BY <1>21 DEF NetComplete, Terminal
    <3>2. SaidOf' = [SaidOf EXCEPT ![t] = EndOf["diagnosis_completed"]]
      BY <1>1, <1>3, <3>1, SaidAfterPublish
    <3> QED BY <1>1, <1>3, <3>1, <3>2, EndsAfterPublish DEF SaidOf
  <2>2. /\ pc'[t] = "cleanup" /\ pc[t] = "netDone"
        /\ kind'[t] = kind[t] /\ postgres' = postgres
        /\ ctx'[t] = ctx[t]
        /\ mem'[t] = mem[t]
        /\ rows'[t] = rows[t] /\ (t \in lost' <=> t \in lost)
        /\ incidents'[t] = incidents[t]
    BY <1>1, <1>2, <1>21 DEF NetComplete, Goto, SetStatus, SaveTask, SaveIncident,
       TypeOK,
       Record, request, work, store
  <2>3. AnnouncedAt(pc'[t], ctx'[t], Ends(t)', Len(events'[t]), Said(t)', rows'[t])
    BY <1>1, <1>3, <2>1, <2>2 DEF AnnouncedAt, Silent, Fits, Unsaved, Pending,
       Final, EndOf,
       Life!Results
  <2>4. NetworkAt(pc'[t], kind'[t], Ends(t)', t \in lost', rows'[t])
    BY <1>1, <2>1, <2>2 DEF NetworkAt, ResourcePlaces, PlaceInv, NetPlaces, Fits
  <2>5. IncidentAt(t \in lost', pc'[t], mem'[t], incidents'[t], rows'[t])
    BY <1>1, <1>2, <2>2 DEF IncidentAt, Issue, Concluded, CopyInv,
       Undecided,
       Record, Fits, Silent, Unsaved, Pending, Life!Results
  <2> QED BY <2>3, <2>4, <2>5 DEF OutcomeAt, AnnouncedAt, NetworkAt, IncidentAt
<1> QED
  BY <1>4, <1>5, <1>6, <1>7, <1>8, <1>9, <1>10, <1>11, <1>12, <1>13, <1>14, <1>15,
     <1>16, <1>17, <1>18, <1>19, <1>20, <1>21 DEF Goroutine

LEMMA GoroutineKeepsOutcome ==
  ASSUME ServiceInv, LifeInv, OutcomeInv, NEW t \in Tasks, Goroutine(t) \/ Register(t)
  PROVE  OutcomeInv'
<1> SUFFICES ASSUME NEW u \in Tasks PROVE OutcomeAt(u)'
  BY DEF OutcomeInv
<1>1. CASE u = t
  BY <1>1, OwnOutcome DEF OutcomeInv
<1>2. CASE u # t
  BY <1>2, OthersAreSame, SameKeepsOutcome DEF OutcomeInv, ServiceInv
<1> QED BY <1>1, <1>2

(* A new task has announced nothing and has no incident.                    *)
LEMMA AcceptKeepsOutcome ==
  ASSUME ServiceInv, LifeInv, OutcomeInv, NEW t \in Tasks, kind[t] = "none",
         NEW k, kind' = [kind EXCEPT ![t] = k], SaveTask(t),
         UNCHANGED <<ctx, mem, events, incidents, postgres>>,
         NEW p \in {"saved", "end"}, Goto(t, p)
  PROVE  OutcomeInv'
<1> SUFFICES ASSUME NEW u \in Tasks PROVE OutcomeAt(u)'
  BY DEF OutcomeInv
<1>1. TypeOK
  BY DEF ServiceInv
<1>2. CASE u = t
  <2>1. /\ PlaceInv(t) /\ CopyInv(t) /\ Fits(pc[t], Said(t), mem[t], rows[t])
        /\ AnnouncedAt(pc[t], ctx[t], Ends(t), Len(events[t]), Said(t), rows[t])
        /\ IncidentAt(t \in lost, pc[t], mem[t], incidents[t], rows[t])
    BY DEF ServiceInv, TaskInv, LifeInv, SaidOf, OutcomeInv, OutcomeAt
  <2>2. pc[t] = "none" /\ rows[t] = NoRow /\ mem[t].verdict = "none" /\ mem[t].status = "PENDING"
    BY <2>1 DEF PlaceInv, Fits, CopyInv, Undecided
  <2>3. Ends(t)' = Ends(t) /\ Said(t)' = Said(t) /\ Ends(t) = {}
    BY <2>1, <2>2, EndsStay DEF AnnouncedAt, Silent
  <2>4. /\ pc'[t] = p /\ rows'[t] \in {rows[t], mem[t]} /\ UNCHANGED <<ctx, mem, incidents, postgres>>
        /\ incidents[t] # "saved"
    BY <1>1, <2>1, <2>2 DEF Goto, SaveTask, TypeOK, IncidentAt
  <2>5. AnnouncedAt(pc'[t], ctx'[t], Ends(t)', Len(events'[t]), Said(t)', rows'[t])
    BY <2>3 DEF AnnouncedAt
  <2>6. NetworkAt(pc'[t], kind'[t], Ends(t)', t \in lost', rows'[t])
    BY <2>3, <2>4 DEF NetworkAt, ResourcePlaces
  <2>7. IncidentAt(t \in lost', pc'[t], mem'[t], incidents'[t], rows'[t])
    BY <2>2, <2>4 DEF IncidentAt, NoRow, Issue
  <2> QED BY <1>2, <2>5, <2>6, <2>7 DEF OutcomeAt, AnnouncedAt, NetworkAt,
             IncidentAt
<1>3. CASE u # t
  <2>1. Same(u)
    BY <1>1, <1>3 DEF Same, Goto, SaveTask, TypeOK
  <2> QED BY <2>1, SameKeepsOutcome DEF OutcomeInv
<1> QED BY <1>2, <1>3

(* A cancellation or the deadline ends a live context only.                 *)
LEMMA RequestKeepsOutcome ==
  ASSUME OutcomeInv, UNCHANGED <<kind, pc, mem, events, rows, incidents, lost, postgres>>,
         \A u \in Tasks : ctx[u] = "expired" => ctx'[u] = "expired"
  PROVE  OutcomeInv'
<1> SUFFICES ASSUME NEW u \in Tasks PROVE OutcomeAt(u)'
  BY DEF OutcomeInv
<1>1. Ends(u)' = Ends(u) /\ Said(u)' = Said(u)
  BY EndsStay
<1>2. OutcomeAt(u)
  BY DEF OutcomeInv
<1> QED BY <1>1, <1>2 DEF OutcomeAt, AnnouncedAt, NetworkAt, IncidentAt

(* A restart has announced nothing.                                         *)
LEMMA CrashKeepsOutcome ==
  ASSUME ServiceInv, OutcomeInv, Crash
  PROVE  OutcomeInv'
<1> SUFFICES ASSUME NEW u \in Tasks PROVE OutcomeAt(u)'
  BY DEF OutcomeInv
<1>1. Ends(u)' = {}
  BY DEF Crash, Ends
<1>2. /\ pc'[u] \in {"none", "end", "dead"} /\ (pc'[u] # "dead" => pc[u] = pc'[u])
      /\ UNCHANGED <<mem, lost, postgres>>
      /\ IF postgres THEN UNCHANGED <<rows, incidents>>
         ELSE rows'[u] = NoRow /\ incidents'[u] = "none"
  BY DEF Crash, ServiceInv, TypeOK, Places
<1>3. IncidentAt(u \in lost, pc[u], mem[u], incidents[u], rows[u])
  BY DEF OutcomeInv, OutcomeAt
<1>4. AnnouncedAt(pc'[u], ctx'[u], Ends(u)', Len(events'[u]), Said(u)', rows'[u])
  BY <1>1, <1>2 DEF AnnouncedAt
<1>5. NetworkAt(pc'[u], kind'[u], Ends(u)', u \in lost', rows'[u])
  BY <1>1, <1>2 DEF NetworkAt, ResourcePlaces
<1>6. IncidentAt(u \in lost', pc'[u], mem'[u], incidents'[u], rows'[u])
  BY <1>2, <1>3 DEF IncidentAt, NoRow, Issue
<1> QED BY <1>4, <1>5, <1>6 DEF OutcomeAt, AnnouncedAt, NetworkAt, IncidentAt

LEMMA OutcomeInit == Init => OutcomeInv
<1> SUFFICES ASSUME Init, NEW u \in Tasks PROVE OutcomeAt(u)
  BY DEF OutcomeInv
<1>1. Ends(u) = {}
  BY DEF Init, Ends
<1> QED
  BY <1>1 DEF Init, OutcomeAt, AnnouncedAt, NetworkAt, IncidentAt, ResourcePlaces,
     NoRow, Issue

LEMMA StepKeepsOutcome ==
  ASSUME ServiceInv, LifeInv, OutcomeInv, [Next]_vars
  PROVE  OutcomeInv'
<1>1. ASSUME NEW t \in Tasks, NEW k \in {"resource", "network"}, Create(t, k)
      PROVE  OutcomeInv'
  <2>1. PICK p \in {"saved", "end"} : Goto(t, p)
    BY <1>1 DEF Create
  <2> QED BY <1>1, <2>1, AcceptKeepsOutcome DEF Create, work
<1>2. ASSUME NEW t \in Tasks, NEW i \in Tasks, Replay(t, i) PROVE OutcomeInv'
  BY <1>2, AcceptKeepsOutcome DEF Replay, work
<1>3. ASSUME NEW t \in Tasks, CancelLookup(t) PROVE OutcomeInv'
  BY <1>3, RequestKeepsOutcome DEF CancelLookup, store, work
<1>4. ASSUME NEW t \in Tasks, CancelCall(t) \/ Deadline(t) PROVE OutcomeInv'
  <2>1. \A u \in Tasks : ctx[u] = "expired" => ctx'[u] = "expired"
    BY <1>4 DEF ServiceInv, TypeOK, CancelCall, Deadline
  <2> QED BY <1>4, <2>1, RequestKeepsOutcome DEF CancelCall, Deadline, store, work
<1>5. CASE UNCHANGED vars
  BY <1>5, RequestKeepsOutcome DEF vars
<1> QED
  BY <1>1, <1>2, <1>3, <1>4, <1>5, GoroutineKeepsOutcome, CrashKeepsOutcome DEF Next

LEMMA OutcomeHolds == Spec => [](ServiceInv /\ OutcomeInv)
<1>1. Init => LifeInv /\ OutcomeInv
  BY LifeInit, OutcomeInit
<1>2. ServiceInv /\ LifeInv /\ OutcomeInv /\ [Next]_vars => LifeInv' /\ OutcomeInv'
  BY StepIsLifeStep, StepKeepsOutcome
<1> QED BY <1>1, <1>2, ServiceInvHolds, PTL DEF Spec

(* The end a task has announced last is the one that is stored, two ends   *)
(* need a deadline, and a network diagnosis has been stored by then: for   *)
(* any number of tasks, rules and restarts and whatever saves fail.        *)
THEOREM AnnouncedEndIsStored == Spec => []StoreAgreesWithStream
<1>1. OutcomeInv => StoreAgreesWithStream
  BY DEF OutcomeInv, OutcomeAt, AnnouncedAt, NetworkAt, StoreAgreesWithStream
<1> QED BY <1>1, OutcomeHolds, PTL

(* Whichever of the two saves of a confirmed issue fails, in whichever     *)
(* order they are called and wherever the process ends: the incident and   *)
(* the stored issue stand for each other, and one is without the other     *)
(* only while the second call is due, because it failed, or because the    *)
(* process ended before it.                                                *)
THEOREM IncidentsStandForIssues == Spec => []IncidentMatchesTask
<1>1. ServiceInv /\ OutcomeInv => IncidentMatchesTask
  <2> SUFFICES ASSUME ServiceInv, OutcomeInv, NEW t \in Tasks
               PROVE  /\ incidents[t] = "saved" =>
                           \/ rows[t] = Issue
                           \/ /\ rows[t] = Pending
                              /\ pc[t] = "save" \/ t \in lost \/ pc[t] = "dead"
                      /\ rows[t] = Issue =>
                           \/ incidents[t] \in {"saved", "refused"}
                           \/ pc[t] \in {"netIncident", "dead"}
    BY DEF IncidentMatchesTask
  <2>1. IncidentAt(t \in lost, pc[t], mem[t], incidents[t], rows[t])
    BY DEF OutcomeInv, OutcomeAt
  <2>2. incidents[t] \in {"none", "saved", "refused"}
    BY DEF ServiceInv, TypeOK
  <2> QED BY <2>1, <2>2 DEF IncidentAt
<1> QED BY <1>1, OutcomeHolds, PTL

-----------------------------------------------------------------------------
(* The clients.  A client holds rows it read at different times: the       *)
(* cached one, the one in an answer under way and the one it printed.      *)
(* Known says what such a row may be: none, the pending one, or the        *)
(* result, and a result can only be missing from the repository, never be  *)
(* contradicted by it.                                                     *)

Rows == Record \union {NoRow}
Page == [open : BOOLEAN, view : Rows, data : Rows, flight : Rows, got : Nat,
         stream : BOOLEAN, refused : BOOLEAN, refetch : BOOLEAN]
ClientsTypeOK ==
  /\ page \in [Tasks -> Page]
  /\ visits \in [Tasks -> Nat]
  /\ cli \in [Tasks -> Rows]

(* A row that has been read from the repository.                           *)
Known(t, row) ==
  \/ row \in {NoRow, Pending}
  \/ /\ row.status \in Final
     /\ row = mem[t]
     /\ pc[t] \in Stored
     /\ rows[t] \in {NoRow, row}

(* A network diagnosis ends in one way.                                    *)
NetworkEnds(t) ==
  kind[t] = "network" =>
    /\ mem[t].status \notin {"FAILED", "CANCELLED"}
    /\ \A i \in Ends(t) : events[t][i] = "diagnosis_completed"

(* Once the result is cached no older row is under way, and the view of a  *)
(* network page shows it as long as no event has been read and again when  *)
(* all have been.                                                          *)
PageInv(t, p) ==
  /\ Known(t, p.data) /\ Known(t, p.flight)
  /\ p.data.status \in Final => p.flight \in {NoRow, p.data}
  /\ kind[t] = "network" /\ p.data.status \in Final /\ (p.got = 0 \/ ~(p.stream \/ p.refused))
       => p.view = p.data

ClientInv(t) ==
  /\ Known(t, rows[t])
  /\ NetworkEnds(t)
  /\ PageInv(t, page[t])
  /\ Known(t, cli[t]) /\ cli[t] # Pending
ClientsInv == ClientsTypeOK /\ \A t \in Tasks : ClientInv(t)

-----------------------------------------------------------------------------
(* What a step of the service does to one task.                            *)

(* No action but the end of the process moves a task past its save, and    *)
(* that one may only lose its row.                                         *)
LEMMA StoredIsOver ==
  ASSUME ServiceInv, [Next]_vars, NEW t \in Tasks, pc[t] \in Stored
  PROVE  /\ pc'[t] \in Stored /\ mem'[t] = mem[t] /\ kind'[t] = kind[t]
         /\ rows'[t] \in {rows[t], NoRow}
<1>1. TypeOK /\ kind[t] # "none"
  BY DEF ServiceInv, TaskInv, PlaceInv, Stored
<1>2. ASSUME NEW u \in Tasks, Goroutine(u) \/ Register(u), u # t
      PROVE  Same(t)
  BY <1>1, <1>2, OthersAreSame
<1>3. CASE Goroutine(t) \/ Register(t)
  <2>1. NetIncident(t) \/ NetComplete(t) \/ Cleanup(t)
    BY <1>3 DEF Goroutine, Register, Build, Start, Check, Step, Complete, Fail,
       Report,
       Incident, Save, NetStart, NetStep, NetHypothesis, NetReport, NetSave, Stored
  <2> QED
    BY <1>1, <2>1 DEF NetIncident, NetComplete, Cleanup, Goto, TypeOK, Stored,
       request, work, store
<1>4. ASSUME NEW u \in Tasks, NEW k \in {"resource", "network"}, Create(u, k)
      PROVE  Same(t)
  BY <1>1, <1>4 DEF Create, Same, SaveTask, Goto, TypeOK, work
<1>5. ASSUME NEW u \in Tasks, NEW i \in Tasks, Replay(u, i)
      PROVE  Same(t)
  BY <1>1, <1>5 DEF Replay, Same, SaveTask, Goto, TypeOK, work
<1>6. ASSUME NEW u \in Tasks, CancelLookup(u) \/ CancelCall(u) \/ Deadline(u)
      PROVE  UNCHANGED <<pc, mem, kind, rows>>
  BY <1>6 DEF CancelLookup, CancelCall, Deadline, store, work
<1>7. CASE Crash
  BY <1>1, <1>7 DEF Crash, TypeOK, Stored, Running
<1>8. CASE UNCHANGED vars
  BY <1>8 DEF vars
<1> QED BY <1>2, <1>3, <1>4, <1>5, <1>6, <1>7, <1>8 DEF Next, Same

(* A row is only ever written from the copy of its goroutine, and either   *)
(* it is the pending one or the task is past its save then.                *)
LEMMA RowWrites ==
  ASSUME ServiceInv, LifeInv, [Next]_vars, NEW t \in Tasks
  PROVE  \/ rows'[t] \in {rows[t], NoRow, Pending}
         \/ /\ rows'[t] = mem[t] /\ mem'[t] = mem[t]
            /\ mem[t].status \in Final /\ pc'[t] \in Stored
<1>1. /\ TypeOK /\ PlaceInv(t) /\ CopyInv(t) /\ Fits(pc[t], Said(t), mem[t], rows[t])
  BY DEF ServiceInv, TaskInv, LifeInv, SaidOf
<1>2. ASSUME NEW u \in Tasks, Goroutine(u) \/ Register(u), u # t
      PROVE  Same(t)
  BY <1>1, <1>2, OthersAreSame
<1>3. CASE Goroutine(t) \/ Register(t)
  <2>1. CASE Save(t) \/ NetSave(t)
    <3>1. rows'[t] \in {rows[t], mem[t]} /\ mem'[t] = mem[t]
      BY <1>1, <2>1 DEF Save, NetSave, SaveTask, TypeOK, work
    <3>2. mem[t].status \in Final /\ pc'[t] \in Stored
      BY <1>1, <2>1 DEF Save, NetSave, Goto, TypeOK, Fits, Final, Stored
    <3> QED BY <3>1, <3>2
  <2>2. CASE ~(Save(t) \/ NetSave(t))
    <3>1. rows' = rows
      BY <1>3, <2>2 DEF Goroutine, Register, Build, Start, Check, Step, Complete,
         Fail,
         Report, Incident, Cleanup, NetStart, NetStep, NetHypothesis, NetReport,
         NetIncident, NetComplete, request, work, store
    <3> QED BY <3>1
  <2> QED BY <2>1, <2>2
<1>4. ASSUME NEW u \in Tasks, kind[u] = "none", SaveTask(u)
      PROVE  rows'[t] \in {rows[t], Pending}
  <2>1. CASE u = t
    <3>1. mem[t] \in Record /\ mem[t].status = "PENDING" /\ mem[t].verdict = "none"
      BY <1>1, <1>4, <2>1 DEF TypeOK, PlaceInv, CopyInv, Undecided
    <3>2. mem[t] = Pending
      BY <3>1 DEF Record, Pending
    <3> QED BY <1>1, <1>4, <2>1, <3>2 DEF SaveTask, TypeOK
  <2>2. CASE u # t
    BY <1>1, <1>4, <2>2 DEF SaveTask, TypeOK
  <2> QED BY <2>1, <2>2
<1>5. ASSUME NEW u \in Tasks, NEW k \in {"resource", "network"}, Create(u, k)
      PROVE  rows'[t] \in {rows[t], Pending}
  BY <1>4, <1>5 DEF Create
<1>6. ASSUME NEW u \in Tasks, NEW i \in Tasks, Replay(u, i)
      PROVE  rows'[t] \in {rows[t], Pending}
  BY <1>4, <1>6 DEF Replay
<1>7. ASSUME NEW u \in Tasks, CancelLookup(u) \/ CancelCall(u) \/ Deadline(u)
      PROVE  UNCHANGED rows
  BY <1>7 DEF CancelLookup, CancelCall, Deadline, store
<1>8. CASE Crash
  BY <1>8 DEF Crash
<1>9. CASE UNCHANGED vars
  BY <1>9 DEF vars
<1> QED BY <1>2, <1>3, <1>5, <1>6, <1>7, <1>8, <1>9 DEF Next, Same

(* What has been read stays known, and what is stored is known.            *)
LEMMA KnownStays ==
  ASSUME ServiceInv, [Next]_vars, NEW t \in Tasks, NEW row, Known(t, row)
  PROVE  Known(t, row)'
<1>1. CASE row \in {NoRow, Pending}
  BY <1>1 DEF Known
<1>2. CASE row \notin {NoRow, Pending}
  BY <1>2, StoredIsOver DEF Known
<1> QED BY <1>1, <1>2

LEMMA RowStaysKnown ==
  ASSUME ServiceInv, LifeInv, [Next]_vars, NEW t \in Tasks, Known(t, rows[t])
  PROVE  Known(t, rows[t])'
<1>1. Known(t, rows[t]) /\ rows'[t] = rows[t] => Known(t, rows[t])'
  BY KnownStays DEF Known
<1> QED BY <1>1, RowWrites DEF Known

-----------------------------------------------------------------------------
(* An event that is no end, or that is diagnosis_completed, leaves          *)
(* diagnosis_completed the only end of its task.                            *)
OneEnd(t) == \A i \in Ends(t) : events[t][i] = "diagnosis_completed"

LEMMA PublishKeepsOneEnd ==
  ASSUME TypeOK, NEW t \in Tasks, OneEnd(t), NEW e \in EventTypes, Publish(t, e),
         e \in Terminal => e = "diagnosis_completed"
  PROVE  OneEnd(t)'
<1> HIDE DEF EventTypes
<1>1. events[t] \in Seq(EventTypes) /\ events'[t] = Append(events[t], e)
  BY DEF TypeOK, Publish
<1>2. /\ DOMAIN events[t] = 1 .. Len(events[t]) /\ Len(events[t]) \in Nat
      /\ DOMAIN events'[t] = 1 .. Len(events[t]) + 1
      /\ events'[t][Len(events[t]) + 1] = e
      /\ \A i \in 1 .. Len(events[t]) : events'[t][i] = events[t][i]
  BY <1>1
<1> QED BY <1>2 DEF OneEnd, Ends

(* A goroutine of a network diagnosis publishes no other end.              *)
LEMMA GoroutineKeepsNetworkEnds ==
  ASSUME ServiceInv, OutcomeInv, NEW t \in Tasks, Goroutine(t), kind[t] = "network",
         NetworkEnds(t)
  PROVE  NetworkEnds(t)'
<1>1. TypeOK /\ pc[t] \notin ResourcePlaces /\ OneEnd(t) /\ mem[t] \in Record
  BY DEF ServiceInv, TypeOK, OutcomeInv, OutcomeAt, NetworkAt, NetworkEnds, OneEnd
<1>2. SUFFICES mem'[t].status \notin {"FAILED", "CANCELLED"} /\ OneEnd(t)'
  BY DEF NetworkEnds, OneEnd
<1>3. \/ NetStart(t) \/ NetStep(t) \/ NetHypothesis(t) \/ NetReport(t)
      \/ NetSave(t) \/ NetIncident(t) \/ NetComplete(t) \/ Cleanup(t)
  BY <1>1 DEF Goroutine, ResourcePlaces, Build, Start, Check, Step, Complete, Fail,
     Report, Incident, Save
<1>4. mem'[t].status \in {mem[t].status, "RUNNING", "COMPLETED"}
  BY <1>1, <1>3 DEF NetStart, NetStep, NetHypothesis, NetReport, NetSave,
     NetIncident,
     NetComplete, Cleanup, SetStatus, TypeOK, Record, work
<1>5. \/ UNCHANGED events
      \/ \E e \in {"task_started", "step", "hypothesis_updated", "diagnosis_completed"} :
           Publish(t, e)
  BY <1>3 DEF NetStart, NetStep, NetHypothesis, NetReport, NetSave, NetIncident,
     NetComplete, Cleanup, work
<1>6. OneEnd(t)'
  <2>1. ASSUME NEW e \in {"task_started", "step", "hypothesis_updated",
                          "diagnosis_completed"},
               Publish(t, e)
        PROVE  OneEnd(t)'
    <3>1. e \in EventTypes /\ (e \in Terminal => e = "diagnosis_completed")
      BY DEF EventTypes, Terminal
    <3> QED BY <1>1, <2>1, <3>1, PublishKeepsOneEnd
  <2> QED BY <1>1, <1>5, <2>1 DEF OneEnd, Ends
<1> QED BY <1>4, <1>6 DEF NetworkEnds

LEMMA NetworkEndsStay ==
  ASSUME ServiceInv, LifeInv, OutcomeInv, [Next]_vars, NEW t \in Tasks, NetworkEnds(t)
  PROVE  NetworkEnds(t)'
<1>1. TypeOK /\ PlaceInv(t) /\ CopyInv(t)
  BY DEF ServiceInv, TaskInv
<1>2. kind'[t] = kind[t] /\ mem'[t] = mem[t] /\ events'[t] = events[t] => NetworkEnds(t)'
  BY DEF NetworkEnds, Ends
<1>3. ASSUME NEW u \in Tasks, Goroutine(u) \/ Register(u), u # t
      PROVE  NetworkEnds(t)'
  BY <1>1, <1>2, <1>3, OthersAreSame DEF Same
<1>4. CASE Goroutine(t)
  <2>1. kind' = kind
    BY <1>4 DEF Goroutine, Build, Start, Check, Step, Complete, Fail, Report,
       Incident,
       Save, Cleanup, NetStart, NetStep, NetHypothesis, NetReport, NetSave, NetIncident,
       NetComplete, request
  <2>2. CASE kind[t] = "network"
    BY <1>4, <2>2, GoroutineKeepsNetworkEnds
  <2>3. CASE kind[t] # "network"
    BY <2>1, <2>3 DEF NetworkEnds
  <2> QED BY <2>2, <2>3
<1>5. ASSUME NEW u \in Tasks, kind[u] = "none", NEW k, kind' = [kind EXCEPT ![u] = k],
             UNCHANGED <<mem, events>>
      PROVE  NetworkEnds(t)'
  <2>1. CASE u = t
    <3>1. Ends(t) = {} /\ mem[t].status = "PENDING"
      BY <1>1, <1>5, <2>1 DEF PlaceInv, CopyInv, OutcomeInv, OutcomeAt, AnnouncedAt,
         Silent
    <3> QED BY <1>5, <3>1, EndsStay DEF NetworkEnds
  <2>2. CASE u # t
    BY <1>1, <1>2, <1>5, <2>2 DEF TypeOK
  <2> QED BY <2>1, <2>2
<1>6. ASSUME NEW u \in Tasks, NEW k \in {"resource", "network"}, Create(u, k)
      PROVE  NetworkEnds(t)'
  BY <1>5, <1>6 DEF Create, work
<1>7. ASSUME NEW u \in Tasks, NEW i \in Tasks, Replay(u, i)
      PROVE  NetworkEnds(t)'
  BY <1>5, <1>7 DEF Replay, work
<1>8. ASSUME NEW u \in Tasks,
             Register(u) \/ CancelLookup(u) \/ CancelCall(u) \/ Deadline(u)
      PROVE  NetworkEnds(t)'
  BY <1>2, <1>8 DEF Register, CancelLookup, CancelCall, Deadline, work
<1>9. CASE Crash
  BY <1>9 DEF Crash, NetworkEnds, Ends
<1>10. CASE UNCHANGED vars
  BY <1>2, <1>10 DEF vars
<1> QED BY <1>3, <1>4, <1>6, <1>7, <1>8, <1>9, <1>10 DEF Next

(* A step of the service leaves the clients alone, and what they hold stays *)
(* true of it.                                                              *)
LEMMA ServiceKeepsClients ==
  ASSUME ServiceInv, LifeInv, OutcomeInv, ClientsInv, [Next]_vars, UNCHANGED clientVars
  PROVE  ClientsInv'
<1>1. ClientsTypeOK'
  BY DEF ClientsInv, ClientsTypeOK, clientVars
<1>2. ASSUME NEW t \in Tasks PROVE ClientInv(t)'
  <2>1. ClientInv(t) /\ page'[t] = page[t] /\ cli'[t] = cli[t]
    BY DEF ClientsInv, clientVars
  <2>2. Known(t, rows[t])' /\ NetworkEnds(t)'
    BY <2>1, RowStaysKnown, NetworkEndsStay DEF ClientInv
  <2>3. /\ Known(t, page[t].data)' /\ Known(t, page[t].flight)' /\ Known(t, cli[t])'
    <3>1. ASSUME NEW row, Known(t, row) PROVE Known(t, row)'
      BY <3>1, KnownStays
    <3> QED BY <2>1, <3>1 DEF ClientInv, PageInv, Known
  <2>4. kind'[t] = "network" /\ page[t].data.status \in Final => kind[t] = "network"
    <3>1. page[t].data.status \in Final => pc[t] \in Stored
      BY <2>1 DEF ClientInv, PageInv, Known, NoRow, Pending, Final
    <3> QED BY <3>1, StoredIsOver
  <2> QED BY <2>1, <2>2, <2>3, <2>4 DEF ClientInv, PageInv
<1> QED BY <1>1, <1>2 DEF ClientsInv

-----------------------------------------------------------------------------
(* The steps of the clients, which read the service and write nothing of it.*)
LEMMA NothingKnown == Rows = Record \union {NoRow} /\ NoRow \in Rows /\ Pending \in Rows
BY DEF Rows, NoRow, Pending, Record, Statuses, Verdicts

(* A step of a page keeps the invariant if it fits that page.              *)
LEMMA PageMoveKeepsInv ==
  ASSUME ClientsInv, UNCHANGED <<vars, cli>>, NEW t \in Tasks, NEW p \in Page,
         page' = [page EXCEPT ![t] = p], PageInv(t, p), visits' \in [Tasks -> Nat]
  PROVE  ClientsInv'
<1>1. ClientsTypeOK'
  BY DEF ClientsInv, ClientsTypeOK
<1>2. ASSUME NEW u \in Tasks PROVE ClientInv(u)'
  <2>1. ClientInv(u) /\ PageInv(u, page'[u])
    BY DEF ClientsInv, ClientInv, ClientsTypeOK
  <2>2. ASSUME NEW row PROVE Known(u, row)' <=> Known(u, row)
    BY DEF Known, vars
  <2> QED BY <2>1, <2>2 DEF ClientInv, PageInv, NetworkEnds, Ends, vars, Known
<1> QED BY <1>1, <1>2 DEF ClientsInv

(* The page is shown, with an open stream.                                 *)
LEMMA VisitKeepsInv ==
  ASSUME ServiceInv, ClientsInv, NEW t \in Tasks, Visit(t)
  PROVE  ClientsInv'
<1>1. /\ page[t] \in Page /\ visits \in [Tasks -> Nat]
      /\ PageInv(t, page[t])
  BY DEF ClientsInv, ClientsTypeOK, ClientInv
<1>2. ASSUME NEW p \in Page, p.data \in {NoRow, page[t].data}, p.flight \in {NoRow, page[t].flight},
             p.data = NoRow \/ (p.flight = page[t].flight /\ p.view = p.data), Show(t, p)
      PROVE  ClientsInv'
  <2> DEFINE q == [p EXCEPT !.open = TRUE, !.stream = TRUE, !.got = 0, !.refused = FALSE]
  <2>1. q \in Page /\ q.data = p.data /\ q.flight = p.flight /\ q.view = p.view
        /\ q.stream = TRUE
    BY DEF Page
  <2>2. PageInv(t, q)
    BY <1>1, <1>2, <2>1 DEF PageInv, Known, NoRow, Final
  <2>3. page' = [page EXCEPT ![t] = q] /\ UNCHANGED <<vars, cli>>
        /\ visits' = [visits EXCEPT ![t] = @ + 1]
    BY <1>2 DEF Show
  <2> HIDE DEF q
  <2>4. visits' \in [Tasks -> Nat]
    BY <1>1, <2>3
  <2> QED BY <2>1, <2>2, <2>3, <2>4, PageMoveKeepsInv
<1>3. /\ NoPage \in Page /\ NoPage.data = NoRow /\ NoPage.flight = NoRow
      /\ [NoPage EXCEPT !.view = Pending] \in Page
      /\ [NoPage EXCEPT !.view = Pending].data = NoRow
      /\ [NoPage EXCEPT !.view = Pending].flight = NoRow
  BY NothingKnown DEF NoPage, Page
<1>4. /\ [page[t] EXCEPT !.view = page[t].data] \in Page
      /\ [page[t] EXCEPT !.view = page[t].data].data = page[t].data
      /\ [page[t] EXCEPT !.view = page[t].data].flight = page[t].flight
      /\ [page[t] EXCEPT !.view = page[t].data].view = page[t].data
  BY <1>1 DEF Page
<1> QED BY <1>2, <1>3, <1>4 DEF Visit

(* A request is sent: its answer holds the row of now, which is the cached *)
(* one if that is a result.                                                *)
LEMMA FlightFits ==
  ASSUME ServiceInv, ClientsInv, NEW t \in Tasks, NEW p, PageInv(t, p)
  PROVE  /\ Known(t, rows[t]) /\ (p.data.status \in Final => rows[t] \in {NoRow, p.data})
         /\ rows[t] \in Rows
<1>1. Known(t, rows[t]) /\ rows[t] \in Rows
  BY DEF ServiceInv, TypeOK, ClientsInv, ClientInv, Rows
<1>2. p.data.status \in Final => rows[t] \in {NoRow, p.data}
  BY DEF PageInv, Known, NoRow, Pending, Final
<1> QED BY <1>1, <1>2

LEMMA PollKeepsInv ==
  ASSUME ServiceInv, ClientsInv, NEW t \in Tasks, Poll(t)
  PROVE  ClientsInv'
<1>1. page[t] \in Page /\ visits \in [Tasks -> Nat] /\ PageInv(t, page[t]) /\ page \in [Tasks -> Page]
  BY DEF ClientsInv, ClientsTypeOK, ClientInv
<1> DEFINE q == [page[t] EXCEPT !.flight = rows[t]]
<1>2. /\ Known(t, rows[t]) /\ (page[t].data.status \in Final => rows[t] \in {NoRow, page[t].data})
      /\ rows[t] \in Rows
  BY <1>1, FlightFits
<1>3. /\ q \in Page /\ q.data = page[t].data /\ q.flight = rows[t]
      /\ q.stream = page[t].stream /\ q.view = page[t].view
      /\ q.got = page[t].got /\ q.refused = page[t].refused
  BY <1>1, <1>2 DEF Page
<1>4. page' = [page EXCEPT ![t] = q] /\ UNCHANGED <<vars, visits, cli>>
  BY DEF Poll
<1> HIDE DEF q
<1>5. PageInv(t, q)
  BY <1>1, <1>2, <1>3 DEF PageInv
<1> QED BY <1>1, <1>3, <1>4, <1>5, PageMoveKeepsInv

LEMMA RefetchKeepsInv ==
  ASSUME ServiceInv, ClientsInv, NEW t \in Tasks, Refetch(t)
  PROVE  ClientsInv'
<1>1. page[t] \in Page /\ visits \in [Tasks -> Nat] /\ PageInv(t, page[t]) /\ page \in [Tasks -> Page]
  BY DEF ClientsInv, ClientsTypeOK, ClientInv
<1> DEFINE f == IF page[t].data = NoRow /\ page[t].flight # NoRow
                THEN page[t].flight ELSE rows[t]
           q == [page[t] EXCEPT !.refetch = FALSE, !.flight = f]
<1>2. /\ Known(t, rows[t]) /\ (page[t].data.status \in Final => rows[t] \in {NoRow, page[t].data})
      /\ rows[t] \in Rows
  BY <1>1, FlightFits
<1>3. /\ f \in Rows /\ Known(t, f)
      /\ page[t].data.status \in Final => f \in {NoRow, page[t].data}
  BY <1>1, <1>2 DEF PageInv, Page, NoRow, Final
<1>4. page' = [page EXCEPT ![t] = q] /\ UNCHANGED <<vars, visits, cli>>
  <2>1. page' = [page EXCEPT ![t].refetch = FALSE,
         ![t].flight = IF page[t].data = NoRow /\ page[t].flight # NoRow THEN @ ELSE rows[t]]
    BY DEF Refetch
  <2> QED BY <1>1, <2>1 DEF Refetch, Page
<1> HIDE DEF f
<1>5. /\ q \in Page /\ q.data = page[t].data /\ q.flight = f
      /\ q.stream = page[t].stream /\ q.view = page[t].view
      /\ q.got = page[t].got /\ q.refused = page[t].refused
  BY <1>1, <1>3 DEF Page
<1> HIDE DEF q
<1>6. PageInv(t, q)
  BY <1>1, <1>3, <1>5 DEF PageInv
<1> QED BY <1>1, <1>4, <1>5, <1>6, PageMoveKeepsInv

(* The answer: the first result that is cached is also shown.              *)
LEMMA AnswerKeepsInv ==
  ASSUME ServiceInv, ClientsInv, NEW t \in Tasks, Answer(t)
  PROVE  ClientsInv'
<1>1. page[t] \in Page /\ visits \in [Tasks -> Nat] /\ PageInv(t, page[t]) /\ page \in [Tasks -> Page]
  BY DEF ClientsInv, ClientsTypeOK, ClientInv
<1> DEFINE v == IF page[t].flight = page[t].data THEN page[t].view ELSE page[t].flight
           q == [page[t] EXCEPT !.data = page[t].flight, !.flight = NoRow, !.view = v]
<1>2. page[t].flight # NoRow
  BY DEF Answer
<1>3. page' = [page EXCEPT ![t] = q] /\ UNCHANGED <<vars, visits, cli>>
  <2>1. page' = [page EXCEPT ![t].data = page[t].flight,
                            ![t].flight = NoRow,
                            ![t].view = IF page[t].flight = page[t].data THEN @ ELSE page[t].flight]
    BY DEF Answer
  <2> QED BY <1>1, <2>1 DEF Answer, Page
<1>4. v \in Rows /\ (page[t].flight # page[t].data => v = page[t].flight)
      /\ (page[t].flight = page[t].data => v = page[t].view)
  BY <1>1 DEF Page
<1> HIDE DEF v
<1>5. /\ q \in Page /\ q.data = page[t].flight /\ q.flight = NoRow
      /\ q.stream = page[t].stream /\ q.view = v
      /\ q.got = page[t].got /\ q.refused = page[t].refused
  BY <1>1, <1>4, NothingKnown DEF Page
<1> HIDE DEF q
<1>6. Known(t, NoRow)
  BY DEF Known
<1>7. PageInv(t, q)
  BY <1>1, <1>4, <1>5, <1>6 DEF PageInv
<1> QED BY <1>1, <1>3, <1>5, <1>7, PageMoveKeepsInv

(* An event turns a view into a view.                                      *)
LEMMA ReduceType ==
  ASSUME TypeOK, NEW t \in Tasks, NEW view \in Rows, NEW type \in EventTypes
  PROVE  ReduceEvent(t, view, type) \in Rows
<1>1. CompletedTask(t) \in Rows
  BY DEF CompletedTask, TypeOK, Record, Rows, Statuses, Verdicts
<1>2. [status |-> "RUNNING", verdict |-> "none"] \in Rows
  BY DEF Record, Rows, Statuses, Verdicts
<1>3. ASSUME view # NoRow, NEW s \in Statuses PROVE [view EXCEPT !.status = s] \in Rows
  BY <1>3 DEF Record, Rows
<1>4. {"RUNNING", "FAILED", "CANCELLED"} \subseteq Statuses
  BY DEF Statuses
<1>5. CASE type = "task_started"
  BY <1>2, <1>5 DEF ReduceEvent
<1>6. CASE type = "diagnosis_completed"
  BY <1>1, <1>6 DEF ReduceEvent
<1>7. CASE type \in {"step", "diagnosis_failed", "task_cancelled"} /\ view # NoRow
  BY <1>3, <1>4, <1>7 DEF ReduceEvent
<1>8. CASE type = "hypothesis_updated" \/ (type \notin {"task_started", "diagnosis_completed"} /\ view = NoRow)
  BY <1>8 DEF ReduceEvent
<1> QED BY <1>5, <1>6, <1>7, <1>8 DEF EventTypes, Terminal

(* The event that closes the stream of a network page carries its result.  *)
LEMMA ReadEventKeepsInv ==
  ASSUME ServiceInv, ClientsInv, NEW t \in Tasks, ReadEvent(t)
  PROVE  ClientsInv'
<1>1. page[t] \in Page /\ visits \in [Tasks -> Nat] /\ PageInv(t, page[t]) /\ page \in [Tasks -> Page]
  BY DEF ClientsInv, ClientsTypeOK, ClientInv
<1> DEFINE type == events[t][page[t].got + 1]
           v == ReduceEvent(t, page[t].view, type)
           q == [page[t] EXCEPT !.got = page[t].got + 1, !.view = v,
                                !.stream = type \notin Terminal,
                                !.refetch = page[t].refetch \/ type \in Terminal]
<1>2. page[t].got + 1 \in DOMAIN events[t] /\ type \in EventTypes
  <2> HIDE DEF EventTypes
  <2>1. events[t] \in Seq(EventTypes)
    BY DEF ServiceInv, TypeOK
  <2>2. page[t].got \in Nat /\ page[t].got < Len(events[t])
    BY <1>1 DEF ReadEvent, Page
  <2> QED BY <2>1, <2>2
<1>3. page' = [page EXCEPT ![t] = q] /\ UNCHANGED <<vars, visits, cli>>
  <2>1. page' = [page EXCEPT ![t].got = @ + 1,
                            ![t].view = ReduceEvent(t, @, type),
                            ![t].stream = type \notin Terminal,
                            ![t].refetch = @ \/ type \in Terminal]
    BY DEF ReadEvent
  <2> HIDE DEF type
  <2> QED BY <1>1, <2>1 DEF ReadEvent, Page
<1>4. v \in Rows
  BY <1>1, <1>2, ReduceType DEF ServiceInv, Page
<1>5. type = "diagnosis_completed" => v = CompletedTask(t)
  BY DEF ReduceEvent
<1>6. kind[t] = "network" /\ type \in Terminal => type = "diagnosis_completed"
  BY <1>2 DEF ClientsInv, ClientInv, NetworkEnds, Ends
<1> HIDE DEF v, type
<1>7. /\ q \in Page /\ q.data = page[t].data /\ q.flight = page[t].flight
      /\ q.stream = (type \notin Terminal) /\ q.view = v
      /\ q.refused = page[t].refused /\ q.got # 0
  <2> DEFINE closes == type \in Terminal
             listens == type \notin Terminal
             r == page[t].refetch \/ closes
  <2>1. listens \in BOOLEAN /\ r \in BOOLEAN /\ page[t].got + 1 \in Nat
    BY <1>1 DEF Page
  <2>2. q = [page[t] EXCEPT !.got = page[t].got + 1, !.view = v,
                            !.stream = listens, !.refetch = r]
    BY <1>1 DEF Page
  <2> HIDE DEF q, listens, r
  <2>3. /\ q \in Page /\ q.data = page[t].data /\ q.flight = page[t].flight
        /\ q.stream = listens /\ q.view = v
        /\ q.refused = page[t].refused /\ q.got = page[t].got + 1
    BY <1>1, <1>4, <2>1, <2>2 DEF Page
  <2>4. page[t].got + 1 # 0
    BY <1>1 DEF Page
  <2> QED BY <2>3, <2>4 DEF listens
<1> HIDE DEF q
<1>8. ASSUME kind[t] = "network", page[t].data.status \in Final, type \in Terminal
      PROVE  v = page[t].data
  <2>1. v = [status |-> "COMPLETED", verdict |-> mem[t].verdict]
    BY <1>5, <1>6, <1>8 DEF CompletedTask
  <2>2. page[t].data = mem[t] /\ mem[t].status \in Final
    BY <1>1, <1>8 DEF PageInv, Known, NoRow, Pending, Final
  <2>3. mem[t] \in Record /\ mem[t].status = "COMPLETED"
    BY <1>8, <2>2 DEF ServiceInv, TypeOK, ClientsInv, ClientInv, NetworkEnds, Final
  <2> QED BY <2>1, <2>2, <2>3 DEF Record
<1>9. PageInv(t, q)
  BY <1>1, <1>7, <1>8 DEF PageInv
<1> QED BY <1>1, <1>3, <1>7, <1>9, PageMoveKeepsInv

(* A refused stream ends: a page that had read nothing of it shows what it *)
(* has cached.                                                             *)
LEMMA StreamRefusedKeepsInv ==
  ASSUME ClientsInv, NEW t \in Tasks, StreamRefused(t)
  PROVE  ClientsInv'
<1>1. page[t] \in Page /\ visits \in [Tasks -> Nat] /\ PageInv(t, page[t]) /\ page \in [Tasks -> Page]
  BY DEF ClientsInv, ClientsTypeOK, ClientInv
<1> DEFINE q == [page[t] EXCEPT !.stream = FALSE, !.refused = TRUE]
<1>2. /\ q \in Page /\ q.data = page[t].data /\ q.flight = page[t].flight
      /\ q.refused = TRUE /\ q.view = page[t].view /\ q.got = page[t].got
  BY <1>1 DEF Page
<1>3. page' = [page EXCEPT ![t] = q] /\ UNCHANGED <<vars, visits, cli>>
  BY <1>1 DEF StreamRefused, Page
<1> HIDE DEF q
<1>4. PageInv(t, q)
  BY <1>1, <1>2 DEF PageInv
<1> QED BY <1>1, <1>2, <1>3, <1>4, PageMoveKeepsInv

(* The command line prints a result.                                       *)
LEMMA CliPrintsKeepsInv ==
  ASSUME ServiceInv, ClientsInv, NEW t \in Tasks, CliPrints(t)
  PROVE  ClientsInv'
<1>1. rows[t] \in Rows /\ rows[t].status \in Final /\ UNCHANGED <<vars, page, visits>>
      /\ cli' = [cli EXCEPT ![t] = rows[t]]
  BY DEF CliPrints, ServiceInv, TypeOK, Rows
<1>2. ClientsTypeOK'
  BY <1>1 DEF ClientsInv, ClientsTypeOK
<1>3. ASSUME NEW u \in Tasks PROVE ClientInv(u)'
  <2>1. ClientInv(u) /\ page'[u] = page[u]
    BY <1>1 DEF ClientsInv
  <2>2. ASSUME NEW row PROVE Known(u, row)' <=> Known(u, row)
    BY <1>1 DEF Known, vars
  <2>3. Known(u, cli'[u]) /\ cli'[u] # Pending
    <3>1. CASE u = t
      BY <1>1, <2>1, <3>1 DEF ClientsInv, ClientsTypeOK, ClientInv, Pending, Final
    <3>2. CASE u # t
      BY <1>1, <2>1, <3>2 DEF ClientsInv, ClientsTypeOK, ClientInv
    <3> QED BY <3>1, <3>2
  <2> QED BY <1>1, <2>1, <2>2, <2>3 DEF ClientInv, PageInv, NetworkEnds, Ends, vars,
             Known
<1> QED BY <1>2, <1>3 DEF ClientsInv

-----------------------------------------------------------------------------
LEMMA ClientsInvInit == ClientsInit => ClientsInv
<1> SUFFICES ASSUME ClientsInit PROVE ClientsInv
  OBVIOUS
<1>1. NoPage \in Page /\ NoPage.data = NoRow /\ NoPage.flight = NoRow
  BY NothingKnown DEF NoPage, Page
<1>2. ClientsTypeOK
  BY <1>1, NothingKnown DEF ClientsInit, ClientsTypeOK
<1>3. ASSUME NEW t \in Tasks PROVE ClientInv(t)
  BY <1>1 DEF ClientsInit, Init, ClientInv, Known, NetworkEnds, PageInv, NoRow,
     Pending, Final
<1> QED BY <1>2, <1>3 DEF ClientsInv

LEMMA ClientsInvNext ==
  ServiceInv /\ LifeInv /\ OutcomeInv /\ ClientsInv /\ [ClientsNext]_allVars => ClientsInv'
<1> SUFFICES ASSUME ServiceInv, LifeInv, OutcomeInv, ClientsInv, [ClientsNext]_allVars
             PROVE  ClientsInv'
  OBVIOUS
<1>1. CASE UNCHANGED allVars
  BY <1>1, ServiceKeepsClients DEF allVars
<1>2. CASE Next /\ UNCHANGED clientVars
  BY <1>2, ServiceKeepsClients
<1> QED
  BY <1>1, <1>2, VisitKeepsInv, PollKeepsInv, RefetchKeepsInv, AnswerKeepsInv,
     ReadEventKeepsInv, StreamRefusedKeepsInv, CliPrintsKeepsInv
  DEF ClientsNext

(* Clients do nothing to the service: with them it still is the service.   *)
LEMMA ClientsRunTheService == ClientsSpec => Spec
<1>1. ClientsInit => Init
  BY DEF ClientsInit
<1>2. [ClientsNext]_allVars => [Next]_vars
  BY DEF ClientsNext, allVars, Visit, Show, Poll, Refetch, Answer, ReadEvent,
     StreamRefused, CliPrints
<1> QED BY <1>1, <1>2, PTL DEF ClientsSpec, Spec

LEMMA LifeInvHolds == Spec => []LifeInv
BY ServiceInvInit, LifeInit, StepIsLifeStep, ServiceInvHolds, PTL DEF Spec

LEMMA ClientsInvHolds == ClientsSpec => [](ServiceInv /\ ClientsInv)
BY ClientsInvInit, ClientsInvNext, ClientsRunTheService, LifeInvHolds, OutcomeHolds,
   PTL
DEF ClientsSpec

(* The pages and the command line hold rows, however requests, answers and *)
(* events interleave.                                                      *)
THEOREM ClientsTypeCorrect == ClientsSpec => []ClientsTypeOK
BY ClientsInvHolds, PTL DEF ClientsInv

(* A page at rest has cached what is stored, the view of a network page at *)
(* rest shows it whatever the order of its answers and events, unless its  *)
(* stream was refused halfway, and the command line has printed it: for    *)
(* any number of tasks, visits, refusals and restarts, either repository.  *)
THEOREM ClientsEndWithTheStored == ClientsSpec => []ClientsAgreeWithStore
<1>1. ServiceInv /\ ClientsInv => ClientsAgreeWithStore
  <2> SUFFICES ASSUME ServiceInv, ClientsInv, NEW t \in Tasks, rows[t] # NoRow
               PROVE  /\ AtRest(t) => page[t].data = rows[t]
                      /\ AtRest(t) /\ kind[t] = "network" /\ ~CutOff(t) => page[t].view = rows[t]
                      /\ cli[t] # NoRow => cli[t] = rows[t]
    BY DEF ClientsAgreeWithStore
  <2>1. ClientInv(t)
    BY DEF ClientsInv
  <2>2. AtRest(t) => page[t].data \notin {NoRow, Pending} /\ ~page[t].stream
    BY DEF AtRest, PollDue, NoRow, Pending
  <2>3. cli[t] # NoRow => cli[t] = rows[t]
    BY <2>1 DEF ClientInv, Known
  <2>4. AtRest(t) => page[t].data = rows[t] /\ page[t].data.status \in Final
    BY <2>1, <2>2 DEF ClientInv, PageInv, Known
  <2>5. ~CutOff(t) => page[t].got = 0 \/ ~page[t].refused
    <3>1. page[t].got \in Nat
      BY DEF ClientsInv, ClientsTypeOK, Page
    <3> QED BY <3>1 DEF CutOff
  <2> QED BY <2>1, <2>2, <2>3, <2>4, <2>5 DEF ClientInv, PageInv
<1> QED BY <1>1, ClientsInvHolds, PTL
=============================================================================
