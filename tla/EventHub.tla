------------------------------ MODULE EventHub ------------------------------
(***************************************************************************)
(* The in-memory event hub of the API server (internal/api/hub.go), the    *)
(* handler that streams a task's events over SSE (diagnosisEvents in       *)
(* internal/api/server.go) and the browser's EventSource that reads the    *)
(* stream and reconnects with Last-Event-ID (web/src/api.ts).              *)
(*                                                                         *)
(* A publisher appends events to the history of a task and offers each to  *)
(* every registered channel without waiting.  A subscriber first receives  *)
(* a replay of the retained history, in sends that DO wait, made while the *)
(* hub's mutex is held.  Each handler then moves events from its channel   *)
(* to its client and ends at the first terminal event or when the          *)
(* connection is lost.                                                     *)
(*                                                                         *)
(* The payload of an event is abstracted to whether its type is one of the *)
(* three that end a stream.                                                *)
(***************************************************************************)
EXTENDS Naturals, Sequences

CONSTANTS
  Tasks,       \* diagnosis tasks
  Clients,     \* EventSource objects, one per browser page
  TaskOf,      \* the task each client streams
  HistoryCap,  \* events retained per task: 256 in the code
  ChanCap,     \* capacity of a subscriber's channel: 64 in the code
  MaxEvents,   \* bound: events a task publishes
  MaxConns,    \* bound: connections one client opens
  Free         \* the mutex is not held across a blocked send

ASSUME TaskOfAssumption == TaskOf \in [Clients -> Tasks]
ASSUME CapAssumption == /\ HistoryCap \in Nat \ {0}
                        /\ ChanCap \in Nat \ {0}
                        /\ MaxEvents \in Nat
                        /\ MaxConns \in Nat

(* One connection of a client, and the handler goroutine that serves it.   *)
Conns == Clients \X (1 .. MaxConns)

ASSUME FreeAssumption == Free \notin Conns

Event == [seq : 1 .. MaxEvents, terminal : BOOLEAN]

VARIABLES
  sequences,    \* hub: number of the last event of each task
  history,      \* hub: the retained events of each task
  subscribers,  \* hub: the channels registered for each task
  hubLock,      \* hub: the connection whose replay blocks with mu held, or Free
  chan,         \* the buffered channel of each connection
  handler,      \* where the handler of each connection stands
  cur,          \* client: number of its latest connection, 0 before the first
  up,           \* client: its latest connection is alive
  seen,         \* client: the Last-Event-ID it would reconnect with
  done,         \* client: it received a terminal event and called close()
  refused       \* client: a request was answered 404 and it opens no other

hubVars == <<sequences, history, subscribers, hubLock>>
clientVars == <<cur, up, seen, done, refused>>
vars == <<sequences, history, subscribers, hubLock, chan, handler,
          cur, up, seen, done, refused>>

-----------------------------------------------------------------------------
(* Operators of the hub.  Here and below, a definition placed before the   *)
(* one it resembles is that operation with a plausible defect; it is not   *)
(* part of the specification and shows that the properties can fail.       *)

(* The retained window after an append.                                    *)
LatestKeepsOldest(h) ==
  IF Len(h) > HistoryCap THEN SubSeq(h, 1, HistoryCap) ELSE h

Latest(h) ==
  IF Len(h) > HistoryCap THEN SubSeq(h, Len(h) - HistoryCap + 1, Len(h)) ELSE h

(* The events of h numbered above after.  h is ascending, so they are the  *)
(* suffix that starts at the first such event.                             *)
ReplaysFromAfter(h, after) ==
  LET first == CHOOSE i \in 1 .. Len(h) + 1 :
                 /\ \A j \in 1 .. i - 1 : h[j].seq < after
                 /\ i <= Len(h) => h[i].seq >= after
  IN  SubSeq(h, first, Len(h))

Replay(h, after) ==
  LET first == CHOOSE i \in 1 .. Len(h) + 1 :
                 /\ \A j \in 1 .. i - 1 : h[j].seq <= after
                 /\ i <= Len(h) => h[i].seq > after
  IN  SubSeq(h, first, Len(h))

-----------------------------------------------------------------------------
Init ==
  /\ sequences = [t \in Tasks |-> 0]
  /\ history = [t \in Tasks |-> <<>>]
  /\ subscribers = [t \in Tasks |-> {}]
  /\ hubLock = Free
  /\ chan = [k \in Conns |-> <<>>]
  /\ handler = [k \in Conns |-> "none"]
  /\ cur = [c \in Clients |-> 0]
  /\ up = [c \in Clients |-> FALSE]
  /\ seen = [c \in Clients |-> 0]
  /\ done = [c \in Clients |-> FALSE]
  /\ refused = [c \in Clients |-> FALSE]

(* publish: number the event, retain it, and offer it to every subscriber; *)
(* a full channel loses the event.                                         *)
PublishRetainsPerSubscriber(t, terminal) ==
  /\ hubLock = Free
  /\ sequences[t] < MaxEvents
  /\ LET e == [seq |-> sequences[t] + 1, terminal |-> terminal]
     IN  /\ sequences' = [sequences EXCEPT ![t] = @ + 1]
         /\ history' = [history EXCEPT ![t] =
                          IF subscribers[t] = {} THEN Append(@, e)
                          ELSE Append(Append(@, e), e)]
         /\ chan' = [k \in Conns |->
                       IF k \in subscribers[t] /\ Len(chan[k]) < ChanCap
                       THEN Append(chan[k], e) ELSE chan[k]]
  /\ UNCHANGED <<subscribers, hubLock, handler, clientVars>>

PublishUnbuffered(t, terminal) ==
  /\ hubLock = Free
  /\ sequences[t] < MaxEvents
  /\ LET e == [seq |-> sequences[t] + 1, terminal |-> terminal]
     IN  /\ sequences' = [sequences EXCEPT ![t] = @ + 1]
         /\ history' = [history EXCEPT ![t] = Latest(Append(@, e))]
         /\ chan' = [k \in Conns |->
                       IF k \in subscribers[t] /\ chan[k] = <<>>
                       THEN Append(chan[k], e) ELSE chan[k]]
  /\ UNCHANGED <<subscribers, hubLock, handler, clientVars>>

Publish(t, terminal) ==
  /\ hubLock = Free
  /\ sequences[t] < MaxEvents
  /\ LET e == [seq |-> sequences[t] + 1, terminal |-> terminal]
     IN  /\ sequences' = [sequences EXCEPT ![t] = @ + 1]
         /\ history' = [history EXCEPT ![t] = Latest(Append(@, e))]
         /\ chan' = [k \in Conns |->
                       IF k \in subscribers[t] /\ Len(chan[k]) < ChanCap
                       THEN Append(chan[k], e) ELSE chan[k]]
  /\ UNCHANGED <<subscribers, hubLock, handler, clientVars>>

(* The client opens its next connection: the first one, or a reconnection  *)
(* after a loss.                                                           *)
Opens(c) ==
  /\ ~ up[c]
  /\ ~ done[c]
  /\ ~ refused[c]
  /\ cur[c] < MaxConns

(* Before it subscribes, diagnosisEvents reads the task, and answers 404   *)
(* to whatever error that ends in: the PostgreSQL repository says that the *)
(* task is not found when it could not read it.  An EventSource takes such *)
(* an answer for final and never reconnects.                               *)
Refuse(c) ==
  /\ Opens(c)
  /\ refused' = [refused EXCEPT ![c] = TRUE]
  /\ UNCHANGED <<hubVars, chan, handler, cur, up, seen, done>>

(* The task has been read.                                                 *)
Reconnects(c) ==
  /\ Opens(c)
  /\ hubLock = Free
  /\ cur' = [cur EXCEPT ![c] = @ + 1]
  /\ up' = [up EXCEPT ![c] = TRUE]

(* subscribe, when the replay fits the new channel.                        *)
SubscribeWithoutReplay(c) ==
  LET t == TaskOf[c]
      k == <<c, cur[c] + 1>>
  IN  /\ Reconnects(c)
      /\ subscribers' = [subscribers EXCEPT ![t] = @ \union {k}]
      /\ handler' = [handler EXCEPT ![k] = "streaming"]
      /\ UNCHANGED <<sequences, history, hubLock, chan, seen, done, refused>>

Subscribe(c) ==
  LET t == TaskOf[c]
      k == <<c, cur[c] + 1>>
      replay == Replay(history[t], seen[c])
  IN  /\ Reconnects(c)
      /\ Len(replay) <= ChanCap
      /\ chan' = [chan EXCEPT ![k] = replay]
      /\ subscribers' = [subscribers EXCEPT ![t] = @ \union {k}]
      /\ handler' = [handler EXCEPT ![k] = "streaming"]
      /\ UNCHANGED <<sequences, history, hubLock, seen, done, refused>>

(* subscribe, when the replay overflows the channel nobody reads yet: the  *)
(* send waits for ever and the hub's mutex with it.                        *)
SubscribeBlocks(c) ==
  LET t == TaskOf[c]
      k == <<c, cur[c] + 1>>
      replay == Replay(history[t], seen[c])
  IN  /\ Reconnects(c)
      /\ Len(replay) > ChanCap
      /\ chan' = [chan EXCEPT ![k] = SubSeq(replay, 1, ChanCap)]
      /\ hubLock' = k
      /\ handler' = [handler EXCEPT ![k] = "blocked"]
      /\ UNCHANGED <<sequences, history, subscribers, seen, done, refused>>

(* The connection a handler serves is still the one its client reads.      *)
Alive(k) == up[k[1]] /\ cur[k[1]] = k[2]

(* One turn of the handler's loop that takes an event.  A handler whose    *)
(* connection is lost may still take events, which reach nobody.  At a     *)
(* terminal event the handler returns, and a client that got it closes.    *)
Deliver(k) ==
  LET c == k[1]
      e == Head(chan[k])
  IN  /\ handler[k] = "streaming"
      /\ chan[k] /= <<>>
      /\ chan' = [chan EXCEPT ![k] = Tail(@)]
      /\ handler' = [handler EXCEPT ![k] = IF e.terminal THEN "returning" ELSE @]
      /\ IF Alive(k)
         THEN /\ seen' = [seen EXCEPT ![c] = e.seq]
              /\ done' = [done EXCEPT ![c] = @ \/ e.terminal]
              /\ up' = [up EXCEPT ![c] = ~ e.terminal]
         ELSE UNCHANGED <<seen, done, up>>
      /\ UNCHANGED <<hubVars, cur, refused>>

(* The network drops the client's connection.  The last one the bound      *)
(* allows is not dropped.                                                  *)
Disconnect(c) ==
  /\ up[c]
  /\ cur[c] < MaxConns
  /\ up' = [up EXCEPT ![c] = FALSE]
  /\ UNCHANGED <<hubVars, chan, handler, cur, seen, done, refused>>

(* One turn of the handler's loop that finds the request context done.     *)
ContextSeenWithEventOnly(k) ==
  /\ handler[k] = "streaming"
  /\ ~ Alive(k)
  /\ chan[k] /= <<>>
  /\ handler' = [handler EXCEPT ![k] = "returning"]
  /\ UNCHANGED <<hubVars, chan, clientVars>>

ContextDone(k) ==
  /\ handler[k] = "streaming"
  /\ ~ Alive(k)
  /\ handler' = [handler EXCEPT ![k] = "returning"]
  /\ UNCHANGED <<hubVars, chan, clientVars>>

(* The deferred unsubscribe: unregister the channel and close it.          *)
UnsubscribeOnlyCloses(k) ==
  /\ handler[k] = "returning"
  /\ hubLock = Free
  /\ handler' = [handler EXCEPT ![k] = "closed"]
  /\ chan' = [chan EXCEPT ![k] = <<>>]
  /\ UNCHANGED <<hubVars, clientVars>>

Unsubscribe(k) ==
  /\ handler[k] = "returning"
  /\ hubLock = Free
  /\ subscribers' = [subscribers EXCEPT ![TaskOf[k[1]]] = @ \ {k}]
  /\ handler' = [handler EXCEPT ![k] = "closed"]
  /\ chan' = [chan EXCEPT ![k] = <<>>]
  /\ UNCHANGED <<sequences, history, hubLock, clientVars>>

Next ==
  \/ \E t \in Tasks, terminal \in BOOLEAN : Publish(t, terminal)
  \/ \E c \in Clients : Subscribe(c) \/ SubscribeBlocks(c) \/ Refuse(c) \/ Disconnect(c)
  \/ \E k \in Conns : Deliver(k) \/ ContextDone(k) \/ Unsubscribe(k)

Spec == Init /\ [][Next]_vars

(* Goroutines are scheduled, and EventSource reconnects by itself as long  *)
(* as it has not been refused; nothing obliges the publisher to publish or *)
(* the network or the repository to fail.                                  *)
Fairness ==
  /\ \A c \in Clients : WF_vars(Subscribe(c))
  /\ \A k \in Conns : /\ WF_vars(Deliver(k))
                      /\ WF_vars(ContextDone(k))
                      /\ WF_vars(Unsubscribe(k))

FairSpec == Spec /\ Fairness

-----------------------------------------------------------------------------
(* Every variable stays in its set; a channel never holds more than its    *)
(* capacity and a history never more than 256 events (hub.go:37, :51).     *)
TypeOK ==
  /\ sequences \in [Tasks -> 0 .. MaxEvents]
  /\ history \in [Tasks -> Seq(Event)]
  /\ \A t \in Tasks : Len(history[t]) <= HistoryCap
  /\ subscribers \in [Tasks -> SUBSET Conns]
  /\ hubLock \in Conns \union {Free}
  /\ chan \in [Conns -> Seq(Event)]
  /\ \A k \in Conns : Len(chan[k]) <= ChanCap
  /\ handler \in [Conns -> {"none", "streaming", "blocked", "returning", "closed"}]
  /\ cur \in [Clients -> 0 .. MaxConns]
  /\ up \in [Clients -> BOOLEAN]
  /\ seen \in [Clients -> 0 .. MaxEvents]
  /\ done \in [Clients -> BOOLEAN]
  /\ refused \in [Clients -> BOOLEAN]

(* The retained events are the latest ones, numbered without a hole up to  *)
(* the task's sequence: truncation at 256 drops the oldest (hub.go:36-39). *)
HistoryIsLatest ==
  \A t \in Tasks :
    /\ sequences[t] <= HistoryCap => Len(history[t]) = sequences[t]
    /\ sequences[t] > HistoryCap => Len(history[t]) = HistoryCap
    /\ \A i \in 1 .. Len(history[t]) :
         history[t][i].seq = sequences[t] - Len(history[t]) + i

(* publish never sends on a closed channel, which would panic in the       *)
(* diagnosis goroutine and kill the process: a registered channel belongs  *)
(* to a handler that has not unsubscribed (hub.go:40-45, :61-66).          *)
NoSendOnClosedChannel ==
  \A t \in Tasks : \A k \in subscribers[t] : handler[k] \in {"streaming", "returning"}

(* What waits in a channel is ascending, and for the client still reading  *)
(* it lies beyond what the client has seen: no event is ever repeated or   *)
(* reordered, across any number of reconnections, even when full channels  *)
(* lose events (hub.go:52-55, server.go:594-606).                          *)
InOrder ==
  \A k \in Conns :
    handler[k] = "streaming" =>
      /\ \A i, j \in 1 .. Len(chan[k]) : i < j => chan[k][i].seq < chan[k][j].seq
      /\ Alive(k) => \A i \in 1 .. Len(chan[k]) : chan[k][i].seq > seen[k[1]]

(* A client never goes back over an event, and a step that advances it     *)
(* advances it to the very next event: with at most 64 events per task the *)
(* stream a client reads through all its connections has no hole.          *)
GapFree ==
  [][\A c \in Clients : seen'[c] /= seen[c] => seen'[c] = seen[c] + 1]_vars

(* The mutex is never held by a replay that cannot finish: with at most 64 *)
(* events per task subscribe never blocks the publishers (hub.go:52-56).   *)
NeverBlocks == hubLock = Free

(* Once the task has published a terminal event its clients receive one,   *)
(* whatever connections they lose on the way, unless the repository could  *)
(* not read the task when a client connected or reconnected: one such      *)
(* answer ends its stream for good (server.go:582-585, postgres.go:108).   *)
TerminalReachesClient ==
  \A c \in Clients :
    (\E i \in 1 .. Len(history[TaskOf[c]]) : history[TaskOf[c]][i].terminal)
      ~> (done[c] \/ refused[c])

(* A connection its client no longer reads ends up unregistered: handlers  *)
(* of lost connections do not accumulate in the hub.                       *)
LostConnectionsLeave ==
  \A k \in Conns :
    (cur[k[1]] >= k[2] /\ ~ Alive(k)) ~> (handler[k] = "closed")

(* The hub and its streams carry out the ideal stream of EventStream: each *)
(* client reads the task's log one event after another.                    *)
Stream == INSTANCE EventStream WITH
            log <- [t \in Tasks |->
                      [i \in 1 .. Len(history[t]) |-> history[t][i].terminal]],
            cursor <- seen

RefinesStream == Stream!Spec
=============================================================================
