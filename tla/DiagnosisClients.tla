-------------------------- MODULE DiagnosisClients --------------------------
(***************************************************************************)
(* What the clients of a diagnosis task see: the pages of the web console  *)
(* (web/src/pages/DiagnosePage.tsx and NetworkPage.tsx) and the waiting    *)
(* command line (cmd/kdiag/main.go).                                       *)
(*                                                                         *)
(* A page builds its view of a task from two sources that race: the rows   *)
(* it polls, kept by the query library, and the event stream, which every  *)
(* visit replays from the beginning.  Both overwrite the view.             *)
(*                                                                         *)
(* Abstracted: steps, evidence and hypotheses in the view; a view is the   *)
(* status and the verdict of its report.  The stream is the lossless one   *)
(* of module EventHub: a dropped connection resumes after Last-Event-ID,   *)
(* and one that is refused ends the stream.                                *)
(***************************************************************************)
EXTENDS DiagnosisService

CONSTANT MaxVisits   \* bound: times a page of one task is opened

ASSUME ClientsAssumption == MaxVisits \in Nat

VARIABLES
  page,     \* per task: the browser's page and query cache, see NoPage
  visits,   \* per task: times its page has been opened
  cli       \* per task: the task a command line that waited for it has printed

clientVars == <<page, visits, cli>>
allVars == <<vars, clientVars>>

(* view: the task the page renders; data: the cached row; flight: the row  *)
(* in an answer under way; got: events read; stream: it listens; refused:  *)
(* it was answered 404; refetch: one is scheduled.  NoRow stands for no    *)
(* value.                                                                  *)
NoPage == [open |-> FALSE, view |-> NoRow, data |-> NoRow, flight |-> NoRow,
           got |-> 0, stream |-> FALSE, refused |-> FALSE, refetch |-> FALSE]

ClientsInit ==
  /\ Init
  /\ page = [t \in Tasks |-> NoPage]
  /\ visits = [t \in Tasks |-> 0]
  /\ cli = [t \in Tasks |-> NoRow]

-----------------------------------------------------------------------------
(* The page.                                                               *)

(* The POST has been answered with 202.                                    *)
Accepted(t) == pc[t] \in Running \/ mem[t].status \in Final

(* The page of a task is shown: after the POST that created it, by loading *)
(* its URL, or by coming back to it while the cache still has its row.     *)
(* The stream starts from the first event.                                 *)
Show(t, p) ==
  /\ visits[t] < MaxVisits
  /\ visits' = [visits EXCEPT ![t] = @ + 1]
  /\ page' = [page EXCEPT ![t] = [p EXCEPT !.open = TRUE, !.stream = TRUE, !.got = 0,
                                           !.refused = FALSE]]
  /\ UNCHANGED <<vars, cli>>

Visit(t) ==
  /\ kind[t] \in {"resource", "network"}
  /\ \/ Accepted(t) /\ visits[t] = 0 /\ Show(t, [NoPage EXCEPT !.view = Pending])
     \/ rows[t] # NoRow /\ Show(t, NoPage)
     \/ page[t].open /\ Show(t, [page[t] EXCEPT !.view = page[t].data])

(* refetchInterval: every second until a report or a failure is cached.    *)
PollDueOnce(data) == data = NoRow
PollDue(data) == data.verdict = "none" /\ data.status # "FAILED"

(* A poll reads the row; an answer 404 changes nothing.  A page that gets  *)
(* the focus back also polls, which adds nothing: no poll is due only when *)
(* the cached row is final.                                                *)
Poll(t) ==
  /\ page[t].open
  /\ PollDue(page[t].data)
  /\ page[t].flight = NoRow
  /\ rows[t] # NoRow
  /\ page' = [page EXCEPT ![t].flight = rows[t]]
  /\ UNCHANGED <<vars, visits, cli>>

(* The refetch 250 ms after a terminal event; it supersedes a poll that is *)
(* under way, except the first one.                                        *)
Refetch(t) ==
  LET p == page[t] IN
    /\ p.refetch
    /\ page' = [page EXCEPT
         ![t].refetch = FALSE,
         ![t].flight = IF p.data = NoRow /\ p.flight # NoRow THEN @ ELSE rows[t]]
    /\ UNCHANGED <<vars, visits, cli>>

(* The answer is cached.  The cache keeps its object when the new row is   *)
(* equal to it, and then the effect that sets the view does not run.       *)
Answer(t) ==
  LET p == page[t] IN
    /\ p.flight # NoRow
    /\ page' = [page EXCEPT ![t].data = p.flight,
                            ![t].flight = NoRow,
                            ![t].view = IF p.flight = p.data THEN @ ELSE p.flight]
    /\ UNCHANGED <<vars, visits, cli>>

(* The task inside diagnosis_completed.  The engine publishes its copy     *)
(* before the report is built, the network handler after.                  *)
CompletedTaskBeforeReport(t) == [status |-> "COMPLETED", verdict |-> "none"]
CompletedTask(t) ==
  [status |-> "COMPLETED", verdict |-> IF kind[t] = "network" THEN mem[t].verdict ELSE "none"]

(* reduceEvent and reduceNetworkEvent.                                     *)
ReduceEvent(t, view, type) ==
  CASE type = "task_started" -> [status |-> "RUNNING", verdict |-> "none"]
    [] type = "diagnosis_completed" -> CompletedTask(t)
    [] view # NoRow /\ type = "step" -> [view EXCEPT !.status = "RUNNING"]
    [] view # NoRow /\ type = "diagnosis_failed" -> [view EXCEPT !.status = "FAILED"]
    [] view # NoRow /\ type = "task_cancelled" /\ kind[t] = "resource" ->
         [view EXCEPT !.status = "CANCELLED"]
    [] OTHER -> view

(* One event; a terminal one closes the stream and schedules a refetch.    *)
ReadEvent(t) ==
  LET p == page[t]
      type == events[t][p.got + 1] IN
    /\ p.stream
    /\ p.got < Len(events[t])
    /\ page' = [page EXCEPT ![t].got = @ + 1,
                            ![t].view = ReduceEvent(t, @, type),
                            ![t].stream = type \notin Terminal,
                            ![t].refetch = @ \/ type \in Terminal]
    /\ UNCHANGED <<vars, visits, cli>>

(* The stream is opened, for the first time or again after a loss, and the *)
(* task cannot be read: PostgreSQL fails, or the row was lost with the     *)
(* process.  The EventSource closes; the page is not told.                 *)
StreamRefused(t) ==
  /\ page[t].stream
  /\ postgres \/ rows[t] = NoRow
  /\ page' = [page EXCEPT ![t].stream = FALSE, ![t].refused = TRUE]
  /\ UNCHANGED <<vars, visits, cli>>

-----------------------------------------------------------------------------
(* The command line, kdiag why and kdiag trace: waitTask asks again every  *)
(* 100 ms, as long as the task is PENDING or RUNNING and until its timeout *)
(* or an error; this is the request after which it prints how the task     *)
(* ended.  The requests before it change nothing.                          *)
CliPrints(t) ==
  /\ kind[t] \in {"resource", "network"} /\ Accepted(t)
  /\ cli[t] = NoRow
  /\ rows[t].status \in Final
  /\ cli' = [cli EXCEPT ![t] = rows[t]]
  /\ UNCHANGED <<vars, page, visits>>

ClientsNext ==
  \/ Next /\ UNCHANGED clientVars
  \/ \E t \in Tasks :
       \/ Visit(t) \/ Poll(t) \/ Refetch(t) \/ Answer(t) \/ ReadEvent(t)
       \/ StreamRefused(t) \/ CliPrints(t)

ClientsSpec == ClientsInit /\ [][ClientsNext]_allVars

(* Beside the fairness of the service: timers of an open page fire, its    *)
(* requests are answered and its events delivered.                         *)
FairClientsSpec ==
  /\ ClientsSpec
  /\ Fairness
  /\ \A t \in Tasks : /\ WF_allVars(Poll(t))
                      /\ WF_allVars(Refetch(t))
                      /\ WF_allVars(Answer(t))
                      /\ WF_allVars(ReadEvent(t))

-----------------------------------------------------------------------------
(* Nothing will change the page any more: the stream is closed, nothing is *)
(* under way and nothing is scheduled.                                     *)
AtRest(t) ==
  LET p == page[t] IN
    p.open /\ ~p.stream /\ ~p.refetch /\ p.flight = NoRow /\ ~PollDue(p.data)

(* The stream of this visit was refused after some of its events: what the *)
(* page has read of them is all it will ever read.                         *)
CutOff(t) == page[t].refused /\ page[t].got > 0

(* What a client ends up with is what the repository holds: the cache of a *)
(* page at rest, the view of a network page at rest whatever the order of  *)
(* answers and events, and the task the command line prints.  The view of  *)
(* a page that was cut off keeps what the last of its events made of it.   *)
(* An in-memory repository that was lost with its process is not compared. *)
ClientsAgreeWithStore ==
  \A t \in Tasks :
    rows[t] # NoRow =>
      /\ AtRest(t) => page[t].data = rows[t]
      /\ AtRest(t) /\ kind[t] = "network" /\ ~CutOff(t) => page[t].view = rows[t]
      /\ cli[t] # NoRow => cli[t] = rows[t]

(* Whoever has the page of a task open is told of its end, and of the      *)
(* result of a network diagnosis, by the stream or by polling, also when   *)
(* its stream was refused from the start, unless the result was refused by *)
(* the repository or lost with the process, the process ended while it was *)
(* sending the stream, or the page was cut off in the middle of it.        *)
PageHearsEnd ==
  \A t \in Tasks :
    page[t].open ~>
      \/ /\ page[t].view.status \in Final
         /\ kind[t] = "network" => page[t].view.verdict # "none"
      \/ rows[t].status \notin Final /\ (t \in lost \/ crashes > 0)
      \/ page[t].stream /\ crashes > 0
      \/ CutOff(t)

(* CHANGELOG.md: "Refreshable resource and network diagnosis report URLs". *)
(* A page that has come to rest, with its whole stream read, shows the     *)
(* stored diagnosis, however often it was loaded.                          *)
ReportRefreshable ==
  \A t \in Tasks : AtRest(t) /\ ~page[t].refused => page[t].view = rows[t]
=============================================================================
