-------------------------- MODULE DiagnosisService --------------------------
(***************************************************************************)
(* The life of a diagnosis task in the API server: the handlers of         *)
(* internal/api/server.go that create, cancel and replay tasks, the        *)
(* goroutine each accepted task runs in, the rule loop of                  *)
(* internal/diagnosis/engine.go, and the rows the repository keeps.        *)
(*                                                                         *)
(* A task lives in three places that are written one after another and     *)
(* never together: the goroutine's own copy, the event hub, and the        *)
(* repository.  A cancellation, the two-minute deadline, a failing save    *)
(* or the end of the process may fall between any two of the writes.       *)
(*                                                                         *)
(* Abstracted: the events of one rule (step_started, hypothesis_updated,   *)
(* evidence_added, step_completed) are one "step" event; a report is its   *)
(* verdict, and a verdict is CONFIRMED_ISSUE or any other.                 *)
(***************************************************************************)
EXTENDS Naturals, Sequences

CONSTANTS
  Tasks,       \* task identifiers newID can draw
  MaxRules,    \* bound: rules that apply to a resource
  MaxSteps,    \* bound: steps of a network path
  MaxCrashes   \* bound: times the process ends

ASSUME ServiceAssumption ==
  MaxRules \in Nat /\ MaxSteps \in Nat \ {0} /\ MaxCrashes \in Nat

VARIABLES
  kind,        \* per task: none, resource, network or replay
  pc,          \* per task: where its handler or goroutine stands
  mem,         \* per task: the goroutine's copy of status and verdict
  todo,        \* per task: applicable rules or path steps not yet evaluated
  ctx,         \* per task: live, cancelled or expired
  cancels,     \* Server.cancels: the tasks that can be cancelled
  cancelling,  \* DELETE handlers that hold a task's cancel function
  events,      \* the hub's history of each task
  rows,        \* repository: the stored row of each task
  incidents,   \* repository: per task, its incident: none, saved or refused
  lost,        \* tasks whose last save failed
  late,        \* per task: rules evaluated after its context ended
  crashes,     \* times the process has ended
  postgres     \* TRUE: PostgreSQL repository; FALSE: the in-memory one

vars == <<kind, pc, mem, todo, ctx, cancels, cancelling, events,
          rows, incidents, lost, late, crashes, postgres>>
request == <<kind, ctx, cancels, cancelling, crashes, postgres>>
work == <<mem, todo, late, events>>
store == <<rows, incidents, lost>>

Statuses == {"PENDING", "RUNNING", "COMPLETED", "FAILED", "CANCELLED"}
Verdicts == {"none", "CONFIRMED", "OTHER"}
Record == [status : Statuses, verdict : Verdicts]
NoRow == [status |-> "absent", verdict |-> "none"]
Pending == [status |-> "PENDING", verdict |-> "none"]
Terminal == {"diagnosis_completed", "diagnosis_failed", "task_cancelled"}
EventTypes == Terminal \union {"task_started", "step", "hypothesis_updated"}

(* The places a goroutine passes through.  "saved" is still the POST       *)
(* handler, between storing the row and registering the cancel function.   *)
Running == {"build", "start", "rules", "step", "failed", "report", "incident",
            "save", "netStart", "netStep", "netReport", "netSave",
            "netIncident", "netDone", "cleanup"}
Places == Running \union {"none", "saved", "end", "dead"}

Init ==
  /\ kind = [t \in Tasks |-> "none"]
  /\ pc = [t \in Tasks |-> "none"]
  /\ mem = [t \in Tasks |-> Pending]
  /\ todo = [t \in Tasks |-> 0]
  /\ ctx = [t \in Tasks |-> "live"]
  /\ cancels = {}
  /\ cancelling = {}
  /\ events = [t \in Tasks |-> <<>>]
  /\ rows = [t \in Tasks |-> NoRow]
  /\ incidents = [t \in Tasks |-> "none"]
  /\ lost = {}
  /\ late = [t \in Tasks |-> 0]
  /\ crashes = 0
  /\ postgres \in BOOLEAN

-----------------------------------------------------------------------------
(* Helpers of the actions.                                                 *)

Goto(t, place) == pc' = [pc EXCEPT ![t] = place]

Publish(t, type) == events' = [events EXCEPT ![t] = Append(@, type)]

SetStatus(t, status) == mem' = [mem EXCEPT ![t].status = status]

(* SaveTask and SaveIncident.  The in-memory repository always succeeds.   *)
(* PostgreSQL may fail at any time.  A failed SaveTask may have stored the *)
(* row all the same, when only its answer was lost; for SaveIncident, the  *)
(* error of which is always dropped, this is the same as a success.  The   *)
(* incidents table requires a row of the clusters table: SaveIncident      *)
(* always fails while that is missing.  Nothing in the program writes it;  *)
(* an administrator may, at any time.                                      *)
SaveTask(t) ==
  \/ /\ rows' = [rows EXCEPT ![t] = mem[t]]
     /\ lost' = lost \ {t}
  \/ /\ postgres
     /\ lost' = lost \union {t}
     /\ \/ UNCHANGED rows
        \/ rows' = [rows EXCEPT ![t] = mem[t]]

SaveIncident(t) ==
  \/ incidents' = [incidents EXCEPT ![t] = "saved"]
  \/ postgres /\ incidents' = [incidents EXCEPT ![t] = "refused"]

-----------------------------------------------------------------------------
(* The handlers.                                                           *)

(* POST /diagnoses and /network-diagnoses up to the first SaveTask.  When  *)
(* the save fails the client gets 500 and no goroutine starts.             *)
Create(t, k) ==
  /\ kind[t] = "none"
  /\ kind' = [kind EXCEPT ![t] = k]
  /\ SaveTask(t)
  /\ Goto(t, IF t \in lost' THEN "end" ELSE "saved")
  /\ UNCHANGED <<work, ctx, cancels, cancelling, incidents, crashes, postgres>>

(* The rest of the handler: the two-minute context, the registration of    *)
(* its cancel function, the start of the goroutine and the 202.            *)
Register(t) ==
  /\ pc[t] = "saved"
  /\ cancels' = cancels \union {t}
  /\ Goto(t, IF kind[t] = "network" THEN "netStart" ELSE "build")
  /\ UNCHANGED <<store, work, kind, ctx, cancelling, crashes, postgres>>

(* DELETE /diagnoses/{id}: the lookup under the mutex; a task that is not  *)
(* registered answers 409 and changes nothing.                             *)
CancelLookup(t) ==
  /\ t \in cancels
  /\ cancelling' = cancelling \union {t}
  /\ UNCHANGED <<store, work, kind, pc, ctx, cancels, crashes, postgres>>

(* ... and the call of the function after the unlock, then 204.            *)
CancelCallStores(t) ==
  /\ t \in cancelling
  /\ cancelling' = cancelling \ {t}
  /\ ctx' = [ctx EXCEPT ![t] = IF @ = "live" THEN "cancelled" ELSE @]
  /\ rows' = [rows EXCEPT ![t].status = "CANCELLED"]
  /\ UNCHANGED <<work, kind, pc, cancels, incidents, lost, crashes, postgres>>

CancelCall(t) ==
  /\ t \in cancelling
  /\ cancelling' = cancelling \ {t}
  /\ ctx' = [ctx EXCEPT ![t] = IF @ = "live" THEN "cancelled" ELSE @]
  /\ UNCHANGED <<store, work, kind, pc, cancels, crashes, postgres>>

(* Two minutes after the registration.                                     *)
Deadline(t) ==
  /\ pc[t] \in Running
  /\ ctx[t] = "live"
  /\ ctx' = [ctx EXCEPT ![t] = "expired"]
  /\ UNCHANGED <<store, work, kind, pc, cancels, cancelling, crashes, postgres>>

(* POST /replays/{incidentId}: a PENDING task is stored, the error of the  *)
(* save is dropped, and nothing else ever happens to the task.  (An        *)
(* incident saved without its resource is refused, which changes nothing.) *)
Replay(t, i) ==
  /\ kind[t] = "none"
  /\ incidents[i] = "saved"
  /\ kind' = [kind EXCEPT ![t] = "replay"]
  /\ SaveTask(t)
  /\ Goto(t, "end")
  /\ UNCHANGED <<work, ctx, cancels, cancelling, incidents, crashes, postgres>>

-----------------------------------------------------------------------------
(* The goroutine of a resource diagnosis.                                  *)

(* observations.Build from the inventory: a missing target fails the task. *)
Build(t) ==
  /\ pc[t] = "build"
  /\ \/ /\ Goto(t, "failed")
        /\ UNCHANGED todo
     \/ /\ Goto(t, "start")
        /\ \E n \in 0 .. MaxRules : todo' = [todo EXCEPT ![t] = n]
  /\ UNCHANGED <<request, store, mem, events, late>>

(* Engine.Run until its loop.                                              *)
Start(t) ==
  /\ pc[t] = "start"
  /\ SetStatus(t, "RUNNING")
  /\ Publish(t, "task_started")
  /\ Goto(t, "rules")
  /\ UNCHANGED <<request, store, todo, late>>

(* The check of the context before each applicable rule: go on, or end as  *)
(* cancelled; the caller takes any error but a cancellation for a failure. *)
Check(t) ==
  /\ pc[t] = "rules"
  /\ todo[t] > 0
  /\ IF ctx[t] = "live"
     THEN Goto(t, "step") /\ UNCHANGED <<mem, events>>
     ELSE /\ SetStatus(t, "CANCELLED")
          /\ Publish(t, "task_cancelled")
          /\ Goto(t, IF ctx[t] = "cancelled" THEN "save" ELSE "failed")
  /\ UNCHANGED <<request, store, todo, late>>

(* One rule: evaluate it and publish its events.                           *)
StepWithoutCheck(t) ==
  /\ pc[t] = "step"
  /\ Publish(t, "step")
  /\ todo' = [todo EXCEPT ![t] = @ - 1]
  /\ late' = [late EXCEPT ![t] = IF ctx[t] = "live" THEN @ ELSE @ + 1]
  /\ Goto(t, IF todo[t] > 1 THEN "step" ELSE "rules")
  /\ UNCHANGED <<request, store, mem>>

Step(t) ==
  /\ pc[t] = "step"
  /\ Publish(t, "step")
  /\ todo' = [todo EXCEPT ![t] = @ - 1]
  /\ late' = [late EXCEPT ![t] = IF ctx[t] = "live" THEN @ ELSE @ + 1]
  /\ Goto(t, "rules")
  /\ UNCHANGED <<request, store, mem>>

(* No rule is left: the context is not looked at again.                    *)
Complete(t) ==
  /\ pc[t] = "rules"
  /\ todo[t] = 0
  /\ SetStatus(t, "COMPLETED")
  /\ Publish(t, "diagnosis_completed")
  /\ Goto(t, "report")
  /\ UNCHANGED <<request, store, todo, late>>

(* A failed build or an engine error that is not a cancellation.           *)
FailWithoutSave(t) ==
  /\ pc[t] = "failed"
  /\ SetStatus(t, "FAILED")
  /\ Publish(t, "diagnosis_failed")
  /\ Goto(t, "cleanup")
  /\ UNCHANGED <<request, store, todo, late>>

Fail(t) ==
  /\ pc[t] = "failed"
  /\ SetStatus(t, "FAILED")
  /\ Publish(t, "diagnosis_failed")
  /\ Goto(t, "save")
  /\ UNCHANGED <<request, store, todo, late>>

(* BuildReport, after diagnosis_completed has been published.  A confirmed *)
(* verdict needs a hypothesis, and so a rule that has been evaluated.      *)
ReportFilesEverything(t) ==
  /\ pc[t] = "report"
  /\ \E v \in {"CONFIRMED", "OTHER"} :
       /\ v = "CONFIRMED" => \E i \in DOMAIN events[t] : events[t][i] = "step"
       /\ mem' = [mem EXCEPT ![t].verdict = v]
       /\ Goto(t, "incident")
  /\ UNCHANGED <<request, store, todo, events, late>>

Report(t) ==
  /\ pc[t] = "report"
  /\ \E v \in {"CONFIRMED", "OTHER"} :
       /\ v = "CONFIRMED" => \E i \in DOMAIN events[t] : events[t][i] = "step"
       /\ mem' = [mem EXCEPT ![t].verdict = v]
       /\ Goto(t, IF v = "CONFIRMED" THEN "incident" ELSE "save")
  /\ UNCHANGED <<request, store, todo, events, late>>

(* saveTaskIncident; its error is dropped.                                 *)
Incident(t) ==
  /\ pc[t] = "incident"
  /\ SaveIncident(t)
  /\ Goto(t, "save")
  /\ UNCHANGED <<request, work, rows, lost>>

(* The final SaveTask; its error is dropped.                               *)
Save(t) ==
  /\ pc[t] = "save"
  /\ SaveTask(t)
  /\ Goto(t, "cleanup")
  /\ UNCHANGED <<request, work, incidents>>

(* The deferred removal of the cancel function, and its call.              *)
CleanupForgets(t) ==
  /\ pc[t] = "cleanup"
  /\ ctx' = [ctx EXCEPT ![t] = IF @ = "live" THEN "cancelled" ELSE @]
  /\ Goto(t, "end")
  /\ UNCHANGED <<store, work, kind, cancels, cancelling, crashes, postgres>>

Cleanup(t) ==
  /\ pc[t] = "cleanup"
  /\ cancels' = cancels \ {t}
  /\ ctx' = [ctx EXCEPT ![t] = IF @ = "live" THEN "cancelled" ELSE @]
  /\ Goto(t, "end")
  /\ UNCHANGED <<store, work, kind, cancelling, crashes, postgres>>

-----------------------------------------------------------------------------
(* The goroutine of a network diagnosis.  BuildNetwork never fails with    *)
(* the inventory provider the server builds, so its error path is absent.  *)

NetStart(t) ==
  /\ pc[t] = "netStart"
  /\ SetStatus(t, "RUNNING")
  /\ Publish(t, "task_started")
  /\ \E n \in 1 .. MaxSteps : todo' = [todo EXCEPT ![t] = n]
  /\ Goto(t, "netStep")
  /\ UNCHANGED <<request, store, late>>

(* The events of one step of the path; the context is not consulted.       *)
NetStep(t) ==
  /\ pc[t] = "netStep"
  /\ todo[t] > 0
  /\ Publish(t, "step")
  /\ todo' = [todo EXCEPT ![t] = @ - 1]
  /\ UNCHANGED <<request, store, pc, mem, late>>

NetHypothesis(t) ==
  /\ pc[t] = "netStep"
  /\ todo[t] = 0
  /\ Publish(t, "hypothesis_updated")
  /\ Goto(t, "netReport")
  /\ UNCHANGED <<request, store, mem, todo, late>>

(* BuildNetworkReport and the status, before anything is stored.           *)
NetReport(t) ==
  /\ pc[t] = "netReport"
  /\ \E v \in {"CONFIRMED", "OTHER"} :
       mem' = [mem EXCEPT ![t] = [status |-> "COMPLETED", verdict |-> v]]
  /\ Goto(t, "netSave")
  /\ UNCHANGED <<request, store, todo, events, late>>

NetSaveAfterEvent(t) ==
  /\ pc[t] = "netSave"
  /\ Publish(t, "diagnosis_completed")
  /\ Goto(t, "save")
  /\ UNCHANGED <<request, store, mem, todo, late>>

NetSave(t) ==
  /\ pc[t] = "netSave"
  /\ SaveTask(t)
  /\ Goto(t, IF mem[t].verdict = "CONFIRMED" THEN "netIncident" ELSE "netDone")
  /\ UNCHANGED <<request, work, incidents>>

NetIncident(t) ==
  /\ pc[t] = "netIncident"
  /\ SaveIncident(t)
  /\ Goto(t, "netDone")
  /\ UNCHANGED <<request, work, rows, lost>>

NetComplete(t) ==
  /\ pc[t] = "netDone"
  /\ Publish(t, "diagnosis_completed")
  /\ Goto(t, "cleanup")
  /\ UNCHANGED <<request, store, mem, todo, late>>

-----------------------------------------------------------------------------
(* The process ends, by a signal or a panic in any goroutine, and a new    *)
(* one starts: goroutines, the hub and the cancel functions are gone, and  *)
(* so is an in-memory repository.  Shutdown waits for HTTP handlers but    *)
(* not for diagnosis goroutines, so it loses the same things.              *)
Crash ==
  /\ crashes < MaxCrashes
  /\ crashes' = crashes + 1
  /\ pc' = [t \in Tasks |-> IF pc[t] \in Running \union {"saved"} THEN "dead" ELSE pc[t]]
  /\ events' = [t \in Tasks |-> <<>>]
  /\ cancels' = {}
  /\ cancelling' = {}
  /\ IF postgres
     THEN UNCHANGED <<rows, incidents>>
     ELSE /\ rows' = [t \in Tasks |-> NoRow]
          /\ incidents' = [t \in Tasks |-> "none"]
  /\ UNCHANGED <<kind, mem, todo, ctx, lost, late, postgres>>

Goroutine(t) ==
  \/ Build(t) \/ Start(t) \/ Check(t) \/ Step(t) \/ Complete(t) \/ Fail(t)
  \/ Report(t) \/ Incident(t) \/ Save(t) \/ Cleanup(t)
  \/ NetStart(t) \/ NetStep(t) \/ NetHypothesis(t) \/ NetReport(t)
  \/ NetSave(t) \/ NetIncident(t) \/ NetComplete(t)

Next ==
  \/ \E t \in Tasks :
       \/ \E k \in {"resource", "network"} : Create(t, k)
       \/ \E i \in Tasks : Replay(t, i)
       \/ Register(t) \/ CancelLookup(t) \/ CancelCall(t) \/ Deadline(t)
       \/ Goroutine(t)
  \/ Crash

Spec == Init /\ [][Next]_vars

(* Handlers and goroutines that can move are scheduled.                    *)
Fairness ==
  \A t \in Tasks : /\ WF_vars(Register(t))
                   /\ WF_vars(CancelCall(t))
                   /\ WF_vars(Goroutine(t))

-----------------------------------------------------------------------------
(* The variables keep the values the handlers and goroutines can give them.*)
TypeOK ==
  /\ kind \in [Tasks -> {"none", "resource", "network", "replay"}]
  /\ pc \in [Tasks -> Places]
  /\ mem \in [Tasks -> Record]
  /\ todo \in [Tasks -> Nat]
  /\ ctx \in [Tasks -> {"live", "cancelled", "expired"}]
  /\ cancels \subseteq Tasks
  /\ cancelling \subseteq Tasks
  /\ events \in [Tasks -> Seq(EventTypes)]
  /\ rows \in [Tasks -> Record \union {NoRow}]
  /\ incidents \in [Tasks -> {"none", "saved", "refused"}]
  /\ lost \subseteq Tasks
  /\ late \in [Tasks -> 0 .. MaxRules]
  /\ crashes \in 0 .. MaxCrashes
  /\ postgres \in BOOLEAN

Final == {"COMPLETED", "FAILED", "CANCELLED"}

(* Which of a task's events announce its end, and the end it announced     *)
(* last, when nothing came after it.                                       *)
Ends(t) == {i \in DOMAIN events[t] : events[t][i] \in Terminal}
EndOf == [diagnosis_completed |-> "COMPLETED", diagnosis_failed |-> "FAILED",
          task_cancelled |-> "CANCELLED"]
Said(t) == LET n == Len(events[t]) IN
           IF n > 0 /\ events[t][n] \in Terminal THEN EndOf[events[t][n]] ELSE "nothing"

(* A stored task is COMPLETED exactly when it carries a report, whatever   *)
(* fails or ends in between: a reader of GET /diagnoses/{id} never sees a  *)
(* finished diagnosis without its conclusion, nor a conclusion too early.  *)
ReportIffCompleted ==
  \A t \in Tasks : rows[t].status = "COMPLETED" <=> rows[t].verdict # "none"

(* What the stream announced is what the repository stores: a task's end   *)
(* is its last event and agrees with its final row, cancellations and      *)
(* failures racing its completion included.  Two ends are announced only   *)
(* after a deadline, which the engine takes for a cancellation and the     *)
(* handler for a failure.  And a client that reads a network diagnosis     *)
(* when it hears of its end finds it stored, unless the repository refused *)
(* the save.                                                               *)
StoreAgreesWithStream ==
  \A t \in Tasks :
    LET last == Len(events[t]) IN
      Ends(t) # {} =>
        /\ Ends(t) = {last} \/ (ctx[t] = "expired" /\ Ends(t) = {last - 1, last})
        /\ rows[t].status \in Final => Said(t) = rows[t].status
        /\ kind[t] = "network" /\ t \notin lost => rows[t].status = "COMPLETED"

(* A task can be cancelled exactly while its goroutine is at work: no      *)
(* cancel function is left behind by a task that ended on any path, and no *)
(* running task is without one.                                            *)
CancellableWhileRunning == \A t \in Tasks : t \in cancels <=> pc[t] \in Running

(* A resource diagnosis stops at the rule boundary: when its context has   *)
(* ended, by DELETE or by the deadline, at most the rule already past the  *)
(* check is evaluated.                                                     *)
StopsAtRuleBoundary == \A t \in Tasks : late[t] <= 1

(* A final row never changes again: no late cancellation, failure or save  *)
(* rewrites history.  Only a process that ends takes an in-memory row.     *)
StoredResultIsFinal ==
  [][\A t \in Tasks :
       rows[t].status \in Final =>
         rows'[t] = rows[t] \/ (~postgres /\ crashes' # crashes)]_vars

(* The goroutines, the cancellations, the deadline, the failing saves and   *)
(* the ends of the process, with everything they may fall between, give    *)
(* each task the life TaskLife promises: one end, announced and stored in  *)
(* agreement while the task is at work, which nothing rewrites later.      *)
AtWork == Running \union {"saved"}
Life == INSTANCE TaskLife WITH
  accepted <- {t \in Tasks : kind[t] # "none"},
  open     <- {t \in Tasks : pc[t] \in AtWork},
  said     <- [t \in Tasks |-> Said(t)],
  stored   <- rows
RefinesTaskLife == Life!Spec

(* Every registered task ends and its result reaches the repository,       *)
(* without any cancellation or deadline having to occur, unless the        *)
(* process ends or the repository refuses the save.                        *)
ResultStored ==
  \A t \in Tasks :
    pc[t] \in Running ~> \/ pc[t] = "end" /\ (rows[t].status \in Final \/ t \in lost)
                        \/ pc[t] = "dead"

(* A confirmed issue is written to two tables by two calls, in one order   *)
(* by a resource diagnosis and in the other by a network diagnosis, either *)
(* of which may fail or be cut off by the end of the process.  An incident *)
(* stands for a task that is stored as a confirmed issue, and such a task  *)
(* has its incident: one is without the other only between the two calls,  *)
(* or because the missing call failed, or because the process ended before *)
(* it.  (With PostgreSQL and no row in the clusters table it always fails: *)
(* a confirmed diagnosis then never has an incident, against what          *)
(* docs/release-notes/v0.3.0.md:39 says.)                                  *)
Issue == [status |-> "COMPLETED", verdict |-> "CONFIRMED"]
IncidentMatchesTask ==
  \A t \in Tasks :
    /\ incidents[t] = "saved" =>
         \/ rows[t] = Issue
         \/ rows[t] = Pending /\ (pc[t] = "save" \/ t \in lost \/ pc[t] = "dead")
    /\ rows[t] = Issue =>
         incidents[t] \in {"saved", "refused"} \/ pc[t] \in {"netIncident", "dead"}
=============================================================================
