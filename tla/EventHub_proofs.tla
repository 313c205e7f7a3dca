--------------------------- MODULE EventHub_proofs ---------------------------
(***************************************************************************)
(* Proofs about EventHub for any set of tasks and clients and any          *)
(* capacities.  HubInv and OrderInv hold whatever the capacities are;      *)
(* LosslessInv needs that a task publishes no more events than a channel   *)
(* holds.                                                                  *)
(***************************************************************************)
EXTENDS EventHub, SequenceTheorems, TLAPS

(* A registered channel is that of a connection of the task's client that  *)
(* has been opened and has not unsubscribed; connections not opened yet    *)
(* have left no trace.                                                     *)
Registered ==
  /\ \A t \in Tasks : \A k \in subscribers[t] :
       /\ t = TaskOf[k[1]]
       /\ k[2] <= cur[k[1]]
       /\ handler[k] \in {"streaming", "returning"}
  /\ \A k \in Conns : k[2] > cur[k[1]] => handler[k] = "none" /\ chan[k] = <<>>

HubInv == TypeOK /\ HistoryIsLatest /\ Registered

-----------------------------------------------------------------------------
(* What the operators of the hub return.                                   *)

(* Trimming keeps the type, bounds the length, and keeps numbering: the    *)
(* window still ends at the event numbered n (hub.go:36-39).               *)
LEMMA LatestIsWindow ==
  ASSUME NEW h \in Seq(Event), NEW n \in Nat, Len(h) <= HistoryCap + 1, Len(h) <= n,
         \A i \in 1 .. Len(h) : h[i].seq = n - Len(h) + i
  PROVE  /\ Latest(h) \in Seq(Event)
         /\ Len(h) <= HistoryCap => Latest(h) = h
         /\ Len(h) > HistoryCap => Len(Latest(h)) = HistoryCap
         /\ \A i \in 1 .. Len(Latest(h)) :
              Latest(h)[i].seq = n - Len(Latest(h)) + i
<1>1. CASE Len(h) <= HistoryCap
  <2>1. Len(h) \in Nat
    BY LenProperties
  <2>2. Latest(h) = h
    BY <1>1, <2>1, CapAssumption DEF Latest
  <2> QED
    BY <1>1, <2>1, <2>2, CapAssumption
<1>2. CASE Len(h) > HistoryCap
  <2> DEFINE w == SubSeq(h, Len(h) - HistoryCap + 1, Len(h))
  <2>1. Latest(h) = w
    BY <1>2, CapAssumption, LenProperties DEF Latest
  <2>2. Len(h) \in Nat /\ Len(h) - HistoryCap + 1 \in 1 .. Len(h)
    BY <1>2, CapAssumption, LenProperties
  <2>3. /\ w \in Seq(Event)
        /\ Len(w) = HistoryCap
        /\ \A i \in 1 .. Len(w) : w[i] = h[Len(h) - HistoryCap + i]
    BY <2>2, CapAssumption, SubSeqProperties
  <2>4. \A i \in 1 .. Len(w) : w[i].seq = n - Len(w) + i
    <3> HIDE DEF w
    <3> SUFFICES ASSUME NEW i \in 1 .. HistoryCap
                 PROVE  w[i].seq = n - HistoryCap + i
      BY <2>3
    <3>1. Len(h) - HistoryCap + i \in 1 .. Len(h)
      BY <2>2, CapAssumption
    <3>2. h[Len(h) - HistoryCap + i].seq = n - Len(h) + (Len(h) - HistoryCap + i)
      BY <3>1
    <3> QED
      BY <3>2, <2>2, <2>3, CapAssumption
  <2> HIDE DEF w
  <2> QED
    BY <2>1, <2>3, <2>4, <1>2, <2>2, CapAssumption
<1> QED
  BY <1>1, <1>2, CapAssumption, LenProperties

(* The replay of a window that ends at the event numbered n is again a     *)
(* window that ends there, and holds only events beyond after; when        *)
(* nothing was trimmed it is exactly what the client lacks (hub.go:52-55). *)
LEMMA ReplayIsWindow ==
  ASSUME NEW h \in Seq(Event), NEW n \in Nat, NEW after \in Nat, Len(h) <= n,
         \A i \in 1 .. Len(h) : h[i].seq = n - Len(h) + i
  PROVE  LET r == Replay(h, after) IN
         /\ r \in Seq(Event)
         /\ Len(r) <= Len(h)
         /\ \A i \in 1 .. Len(r) : r[i] = h[Len(h) - Len(r) + i]
         /\ \A i \in 1 .. Len(r) : r[i].seq = n - Len(r) + i
         /\ \A i \in 1 .. Len(r) : r[i].seq > after
         /\ Len(h) = n /\ after <= n => Len(r) = n - after
<1> DEFINE P(i) == /\ \A j \in 1 .. i - 1 : h[j].seq <= after
                   /\ i <= Len(h) => h[i].seq > after
           first == CHOOSE i \in 1 .. Len(h) + 1 : P(i)
           r == SubSeq(h, first, Len(h))
<1>1. Len(h) \in Nat
  BY LenProperties
<1>2. \E i \in 1 .. Len(h) + 1 : P(i)
  <2>1. CASE after <= n - Len(h)
    <3>1. P(1)
      BY <1>1, <2>1
    <3> QED
      BY <3>1, <1>1
  <2>2. CASE after > n
    <3>1. P(Len(h) + 1)
      BY <1>1, <2>2
    <3> QED
      BY <3>1, <1>1
  <2>3. CASE after > n - Len(h) /\ after <= n
    <3>1. after - (n - Len(h)) + 1 \in 1 .. Len(h) + 1
      BY <1>1, <2>3
    <3>2. P(after - (n - Len(h)) + 1)
      BY SMTT(30), <1>1, <2>3
    <3> QED
      BY <3>1, <3>2
  <2> QED
    BY <1>1, <2>1, <2>2, <2>3
<1>3. first \in 1 .. Len(h) + 1 /\ P(first)
  BY <1>2
<1>4. Replay(h, after) = r
  BY DEF Replay
<1> HIDE DEF first
<1>5. /\ r \in Seq(Event)
      /\ Len(r) = Len(h) - first + 1
      /\ \A i \in 1 .. Len(r) : r[i] = h[first + i - 1]
  <2>1. CASE first = Len(h) + 1
    BY <2>1, <1>1, SubSeqProperties
  <2>2. CASE first <= Len(h)
    BY <2>2, <1>1, <1>3, SubSeqProperties
  <2> QED
    BY <2>1, <2>2, <1>1, <1>3
<1> HIDE DEF r
<1>6. \A i \in 1 .. Len(r) : r[i] = h[Len(h) - Len(r) + i] /\ r[i].seq = n - Len(r) + i
  <2> SUFFICES ASSUME NEW i \in 1 .. Len(r)
               PROVE  r[i] = h[Len(h) - Len(r) + i] /\ r[i].seq = n - Len(r) + i
    OBVIOUS
  <2>1. /\ first + i - 1 \in 1 .. Len(h)
        /\ first + i - 1 = Len(h) - Len(r) + i
    <3>1. first \in Int /\ first >= 1 /\ i \in Int /\ i >= 1
      BY <1>1, <1>3
    <3>2. Len(r) = Len(h) - first + 1 /\ i <= Len(r)
      BY <1>1, <1>5, <3>1
    <3> QED
      BY <1>1, <3>1, <3>2
  <2>2. h[first + i - 1].seq = n - Len(h) + (first + i - 1)
    BY <2>1
  <2> QED
    BY <2>1, <2>2, <1>1, <1>3, <1>5
<1>7. \A i \in 1 .. Len(r) : r[i].seq > after
  <2> SUFFICES ASSUME NEW i \in 1 .. Len(r) PROVE r[i].seq > after
    OBVIOUS
  <2>1. /\ first \in Int /\ Len(r) = Len(h) - first + 1
        /\ i \in Int /\ 1 <= i /\ i <= Len(r)
    BY <1>1, <1>3, <1>5
  <2>2. first \in 1 .. Len(h)
    BY <1>1, <1>3, <2>1
  <2>3. h[first].seq > after /\ h[first].seq = n - Len(h) + first
    BY <1>1, <1>3, <2>2
  <2>4. r[i].seq = n - Len(r) + i
    BY <1>6
  <2>5. n - Len(r) + i >= n - Len(h) + first
    BY <1>1, <2>1
  <2> QED
    BY <1>1, <2>1, <2>3, <2>4, <2>5
<1>8. Len(h) = n /\ after <= n => Len(r) = n - after
  <2> SUFFICES ASSUME Len(h) = n, after <= n PROVE first = after + 1
    BY <1>1, <1>3, <1>5
  <2>1. ~ (first < after + 1)
    BY <1>1, <1>3
  <2>2. ~ (first > after + 1)
    <3> SUFFICES ASSUME first > after + 1 PROVE FALSE
      OBVIOUS
    <3>1. after + 1 \in 1 .. first - 1 /\ after + 1 \in 1 .. Len(h)
      BY <1>1, <1>3
    <3> QED
      BY <3>1, <1>1, <1>3
  <2>3. first \in Int
    BY <1>1, <1>3
  <2> QED
    BY <2>1, <2>2, <2>3
<1> QED
  BY <1>4, <1>5, <1>6, <1>7, <1>8, <1>1, <1>3

-----------------------------------------------------------------------------
(* HubInv is inductive.                                                    *)

(* A history never holds more events than were published.                  *)
LEMMA HistoryLength ==
  ASSUME TypeOK, HistoryIsLatest, NEW t \in Tasks
  PROVE  /\ history[t] \in Seq(Event)
         /\ Len(history[t]) \in Nat
         /\ sequences[t] \in Nat
         /\ Len(history[t]) <= sequences[t]
         /\ Len(history[t]) <= HistoryCap
         /\ \A i \in 1 .. Len(history[t]) :
              history[t][i].seq = sequences[t] - Len(history[t]) + i
<1>1. history[t] \in Seq(Event) /\ sequences[t] \in Nat
  BY CapAssumption DEF TypeOK
<1>2. Len(history[t]) \in Nat
  BY <1>1, LenProperties
<1> QED
  BY <1>1, <1>2, CapAssumption DEF TypeOK, HistoryIsLatest

(* What a new connection finds to replay is a window of the history.       *)
LEMMA ReplayOfHistory ==
  ASSUME TypeOK, HistoryIsLatest, NEW c \in Clients
  PROVE  LET t == TaskOf[c]
             r == Replay(history[t], seen[c])
         IN  /\ t \in Tasks
             /\ r \in Seq(Event)
             /\ Len(r) \in Nat
             /\ Len(r) <= Len(history[t])
             /\ \A i \in 1 .. Len(r) : r[i] = history[t][Len(history[t]) - Len(r) + i]
             /\ \A i \in 1 .. Len(r) : r[i].seq = sequences[t] - Len(r) + i
             /\ \A i \in 1 .. Len(r) : r[i].seq > seen[c]
             /\ Len(history[t]) = sequences[t] /\ seen[c] <= sequences[t]
                  => Len(r) = sequences[t] - seen[c]
<1>1. TaskOf[c] \in Tasks
  BY TaskOfAssumption
<1>2. seen[c] \in Nat
  BY CapAssumption DEF TypeOK
<1>3. /\ history[TaskOf[c]] \in Seq(Event)
      /\ sequences[TaskOf[c]] \in Nat
      /\ Len(history[TaskOf[c]]) <= sequences[TaskOf[c]]
      /\ \A i \in 1 .. Len(history[TaskOf[c]]) :
           history[TaskOf[c]][i].seq
             = sequences[TaskOf[c]] - Len(history[TaskOf[c]]) + i
  BY <1>1, HistoryLength
<1> DEFINE hist == history[TaskOf[c]]
           n == sequences[TaskOf[c]]
           after == seen[c]
           r == Replay(hist, after)
<1> HIDE DEF hist, n, after
<1>4. /\ r \in Seq(Event)
      /\ Len(r) <= Len(hist)
      /\ \A i \in 1 .. Len(r) : r[i] = hist[Len(hist) - Len(r) + i]
      /\ \A i \in 1 .. Len(r) : r[i].seq = n - Len(r) + i
      /\ \A i \in 1 .. Len(r) : r[i].seq > after
      /\ Len(hist) = n /\ after <= n => Len(r) = n - after
  <2>1. /\ hist \in Seq(Event)
        /\ n \in Nat
        /\ after \in Nat
        /\ Len(hist) <= n
        /\ \A i \in 1 .. Len(hist) : hist[i].seq = n - Len(hist) + i
    BY <1>2, <1>3 DEF hist, n, after
  <2> QED
    BY <2>1, ReplayIsWindow
<1>5. Len(r) \in Nat
  BY <1>4, LenProperties
<1> HIDE DEF r
<1>6. \A x : x = r => x = Replay(history[TaskOf[c]], seen[c])
  BY DEF r, hist, after
<1> QED
  BY <1>1, <1>4, <1>5, <1>6 DEF hist, n, after

(* The connection a client opens next has not been used.                   *)
LEMMA NextConnIsFresh ==
  ASSUME TypeOK, Registered, NEW c \in Clients, cur[c] < MaxConns
  PROVE  /\ <<c, cur[c] + 1>> \in Conns
         /\ chan[<<c, cur[c] + 1>>] = <<>>
         /\ handler[<<c, cur[c] + 1>>] = "none"
         /\ \A t \in Tasks : <<c, cur[c] + 1>> \notin subscribers[t]
<1>1. cur[c] + 1 \in 1 .. MaxConns /\ cur[c] \in Nat
  BY CapAssumption DEF TypeOK
<1>2. <<c, cur[c] + 1>> \in Conns
  BY <1>1 DEF Conns
<1> QED
  BY <1>1, <1>2 DEF Registered

(* An empty hub is well formed.                                            *)
LEMMA HubInvInit == Init => HubInv
<1> SUFFICES ASSUME Init PROVE HubInv
  OBVIOUS
<1>1. TypeOK
  BY CapAssumption DEF Init, TypeOK
<1>2. HistoryIsLatest
  <2>1. \A t \in Tasks : Len(history[t]) = 0 /\ sequences[t] = 0
    BY EmptySeq DEF Init
  <2>2. ASSUME NEW t \in Tasks
        PROVE  /\ sequences[t] <= HistoryCap => Len(history[t]) = sequences[t]
               /\ sequences[t] > HistoryCap => Len(history[t]) = HistoryCap
               /\ \A i \in 1 .. Len(history[t]) :
                    history[t][i].seq = sequences[t] - Len(history[t]) + i
    <3>1. ~ (sequences[t] > HistoryCap)
      BY <2>1, CapAssumption
    <3>2. \A i \in 1 .. Len(history[t]) : FALSE
      BY <2>1
    <3> QED
      BY <2>1, <3>1, <3>2
  <2> QED
    BY <2>2 DEF HistoryIsLatest
<1>3. Registered
  BY DEF Init, Registered
<1> QED
  BY <1>1, <1>2, <1>3 DEF HubInv

(* A published event joins the history and the channels of its own task.   *)
LEMMA PublishKeepsHubInv ==
  ASSUME HubInv, NEW t \in Tasks, NEW terminal \in BOOLEAN, Publish(t, terminal)
  PROVE  HubInv'
<1> DEFINE e == [seq |-> sequences[t] + 1, terminal |-> terminal]
           h == Append(history[t], e)
<1>0. /\ Len(history[t]) \in Nat
      /\ Len(history[t]) <= sequences[t]
      /\ Len(history[t]) <= HistoryCap
      /\ \A i \in 1 .. Len(history[t]) :
           history[t][i].seq = sequences[t] - Len(history[t]) + i
  BY HistoryLength DEF HubInv
<1>1. /\ e \in Event
      /\ sequences[t] \in Nat
      /\ sequences[t] + 1 \in 0 .. MaxEvents
  BY CapAssumption DEF HubInv, TypeOK, Publish, Event
<1>2. /\ sequences' = [sequences EXCEPT ![t] = @ + 1]
      /\ history' = [history EXCEPT ![t] = Latest(h)]
      /\ chan' = [k \in Conns |-> IF k \in subscribers[t] /\ Len(chan[k]) < ChanCap
                                  THEN Append(chan[k], e) ELSE chan[k]]
      /\ UNCHANGED <<subscribers, hubLock, handler, cur, up, seen, done, refused>>
  BY DEF Publish, clientVars
<1>3. /\ h \in Seq(Event)
      /\ Len(h) = Len(history[t]) + 1
      /\ Len(h) \in Nat
      /\ \A i \in 1 .. Len(h) : h[i].seq = (sequences[t] + 1) - Len(h) + i
  <2>1. /\ h \in Seq(Event)
        /\ Len(h) = Len(history[t]) + 1
        /\ \A i \in 1 .. Len(history[t]) : h[i] = history[t][i]
        /\ h[Len(history[t]) + 1] = e
    BY <1>1, HistoryLength, AppendProperties DEF HubInv
  <2> SUFFICES ASSUME NEW i \in 1 .. Len(h)
               PROVE  h[i].seq = (sequences[t] + 1) - Len(h) + i
    BY <2>1, LenProperties
  <2> HIDE DEF h
  <2>2. CASE i = Len(history[t]) + 1
    BY <2>1, <2>2, <1>0, <1>1 DEF e
  <2>3. CASE i \in 1 .. Len(history[t])
    <3>1. h[i].seq = sequences[t] - Len(history[t]) + i
      BY <2>1, <2>3, <1>0
    <3> QED
      BY <3>1, <2>1, <2>3, <1>0, <1>1
  <2> QED
    BY <2>1, <2>2, <2>3, <1>0
<1> HIDE DEF e, h
<1>4. /\ Latest(h) \in Seq(Event)
      /\ Len(h) <= HistoryCap => Latest(h) = h
      /\ Len(h) > HistoryCap => Len(Latest(h)) = HistoryCap
      /\ \A i \in 1 .. Len(Latest(h)) :
           Latest(h)[i].seq = (sequences[t] + 1) - Len(Latest(h)) + i
  <2>1. /\ sequences[t] + 1 \in Nat
        /\ Len(h) <= HistoryCap + 1
        /\ Len(h) <= sequences[t] + 1
    BY <1>0, <1>1, <1>3, CapAssumption
  <2> QED
    BY <2>1, <1>3, LatestIsWindow
<1>5. \A k \in Conns : chan'[k] \in Seq(Event) /\ Len(chan'[k]) <= ChanCap
  <2> SUFFICES ASSUME NEW k \in Conns
               PROVE  chan'[k] \in Seq(Event) /\ Len(chan'[k]) <= ChanCap
    OBVIOUS
  <2>1. chan[k] \in Seq(Event) /\ Len(chan[k]) <= ChanCap /\ Len(chan[k]) \in Nat
    BY LenProperties DEF HubInv, TypeOK
  <2>2. Append(chan[k], e) \in Seq(Event) /\ Len(Append(chan[k], e)) = Len(chan[k]) + 1
    BY <2>1, <1>1, AppendProperties
  <2> QED
    BY <2>1, <2>2, <1>2, CapAssumption
<1>6. TypeOK'
  <2>1. history' \in [Tasks -> Seq(Event)]
    BY <1>2, <1>4 DEF HubInv, TypeOK
  <2>2. \A u \in Tasks : Len(history'[u]) <= HistoryCap
    BY <1>2, <1>3, <1>4, CapAssumption DEF HubInv, TypeOK
  <2>3. chan' \in [Conns -> Seq(Event)]
    BY <1>2, <1>5
  <2> QED
    BY <2>1, <2>2, <2>3, <1>1, <1>2, <1>5 DEF HubInv, TypeOK
<1>7. HistoryIsLatest'
  <2> SUFFICES ASSUME NEW u \in Tasks
               PROVE  /\ sequences'[u] <= HistoryCap => Len(history'[u]) = sequences'[u]
                      /\ sequences'[u] > HistoryCap => Len(history'[u]) = HistoryCap
                      /\ \A i \in 1 .. Len(history'[u]) :
                           history'[u][i].seq = sequences'[u] - Len(history'[u]) + i
    BY DEF HistoryIsLatest
  <2>1. CASE u /= t
    BY <2>1, <1>2 DEF HubInv, TypeOK, HistoryIsLatest
  <2>2. CASE u = t
    <3>1. sequences'[u] = sequences[t] + 1 /\ history'[u] = Latest(h)
      BY <2>2, <1>2 DEF HubInv, TypeOK
    <3>2. /\ sequences[t] <= HistoryCap => Len(history[t]) = sequences[t]
          /\ sequences[t] > HistoryCap => Len(history[t]) = HistoryCap
      BY DEF HubInv, HistoryIsLatest
    <3> QED
      BY <3>1, <3>2, <1>1, <1>3, <1>4, CapAssumption
  <2> QED
    BY <2>1, <2>2
<1>8. Registered'
  BY <1>2 DEF HubInv, Registered, TypeOK
<1> QED
  BY <1>6, <1>7, <1>8 DEF HubInv

(* A new connection receives a window of the history and is registered.    *)
LEMMA SubscribeKeepsHubInv ==
  ASSUME HubInv, NEW c \in Clients, Subscribe(c)
  PROVE  HubInv'
<1> DEFINE k == <<c, cur[c] + 1>>
           r == Replay(history[TaskOf[c]], seen[c])
<1>1. /\ chan' = [chan EXCEPT ![k] = r]
      /\ subscribers' = [subscribers EXCEPT ![TaskOf[c]] = @ \union {k}]
      /\ handler' = [handler EXCEPT ![k] = "streaming"]
      /\ cur' = [cur EXCEPT ![c] = @ + 1]
      /\ up' = [up EXCEPT ![c] = TRUE]
      /\ UNCHANGED <<sequences, history, hubLock, seen, done, refused>>
      /\ Len(r) <= ChanCap
      /\ cur[c] < MaxConns
  BY DEF Subscribe, Reconnects, Opens
<1>2. k \in Conns /\ k[1] = c /\ k[2] = cur[c] + 1 /\ cur[c] \in Nat
  BY <1>1, NextConnIsFresh, CapAssumption DEF HubInv, TypeOK
<1>3. r \in Seq(Event) /\ TaskOf[c] \in Tasks
  BY ReplayOfHistory DEF HubInv
<1> HIDE DEF k, r
<1>4. TypeOK'
  <2>1. chan' \in [Conns -> Seq(Event)]
    BY <1>1, <1>2, <1>3 DEF HubInv, TypeOK
  <2>2. \A j \in Conns : Len(chan'[j]) <= ChanCap
    BY <1>1, <1>2 DEF HubInv, TypeOK
  <2>3. subscribers' \in [Tasks -> SUBSET Conns]
    BY <1>1, <1>2, <1>3 DEF HubInv, TypeOK
  <2>4. handler' \in [Conns -> {"none", "streaming", "blocked", "returning", "closed"}]
    BY <1>1, <1>2 DEF HubInv, TypeOK
  <2>5. cur' \in [Clients -> 0 .. MaxConns] /\ up' \in [Clients -> BOOLEAN]
    BY <1>1, <1>2, CapAssumption DEF HubInv, TypeOK
  <2> QED
    BY <2>1, <2>2, <2>3, <2>4, <2>5, <1>1 DEF HubInv, TypeOK
<1>5. HistoryIsLatest'
  BY <1>1 DEF HubInv, HistoryIsLatest
<1>6. Registered'
  <2>1. \A j \in Conns : cur'[j[1]] >= cur[j[1]] /\ cur[j[1]] \in Nat
    BY <1>1 DEF HubInv, TypeOK, Conns
  <2>2. ASSUME NEW t \in Tasks, NEW j \in subscribers'[t]
        PROVE  /\ t = TaskOf[j[1]]
               /\ j[2] <= cur'[j[1]]
               /\ handler'[j] \in {"streaming", "returning"}
    <3>1. CASE j = k
      <4>1. t = TaskOf[c]
        BY <1>1, <1>2, <2>2, <3>1, NextConnIsFresh DEF HubInv, TypeOK, k
      <4> QED
        BY <4>1, <1>1, <1>2, <3>1 DEF HubInv, TypeOK
    <3>2. CASE j /= k
      <4>1. j \in subscribers[t] /\ j \in Conns
        BY <1>1, <3>2, <2>2 DEF HubInv, TypeOK
      <4>2. j[2] \in Nat
        BY <4>1 DEF Conns
      <4> QED
        BY <4>1, <4>2, <2>1, <1>1, <3>2 DEF HubInv, Registered, TypeOK
    <3> QED
      BY <3>1, <3>2
  <2>3. ASSUME NEW j \in Conns, j[2] > cur'[j[1]]
        PROVE  handler'[j] = "none" /\ chan'[j] = <<>>
    <3>1. j /= k
      BY <2>3, <1>1, <1>2 DEF HubInv, TypeOK
    <3>2. j[2] > cur[j[1]]
      BY <2>3, <2>1, <1>1 DEF HubInv, TypeOK, Conns
    <3> QED
      BY <3>1, <3>2, <1>1 DEF HubInv, TypeOK, Registered
  <2> QED
    BY <2>2, <2>3 DEF Registered
<1> QED
  BY <1>4, <1>5, <1>6 DEF HubInv

(* A replay that does not fit leaves a full channel and a held mutex.      *)
LEMMA SubscribeBlocksKeepsHubInv ==
  ASSUME HubInv, NEW c \in Clients, SubscribeBlocks(c)
  PROVE  HubInv'
<1> DEFINE k == <<c, cur[c] + 1>>
           r == Replay(history[TaskOf[c]], seen[c])
           w == SubSeq(r, 1, ChanCap)
<1>1. /\ chan' = [chan EXCEPT ![k] = w]
      /\ handler' = [handler EXCEPT ![k] = "blocked"]
      /\ cur' = [cur EXCEPT ![c] = @ + 1]
      /\ up' = [up EXCEPT ![c] = TRUE]
      /\ hubLock' = k
      /\ UNCHANGED <<sequences, history, subscribers, seen, done, refused>>
      /\ Len(r) > ChanCap
      /\ cur[c] < MaxConns
  BY DEF SubscribeBlocks, Reconnects, Opens
<1>2. /\ k \in Conns /\ k[1] = c /\ k[2] = cur[c] + 1 /\ cur[c] \in Nat
      /\ \A t \in Tasks : k \notin subscribers[t]
  BY <1>1, NextConnIsFresh, CapAssumption DEF HubInv, TypeOK
<1>3. w \in Seq(Event) /\ Len(w) = ChanCap
  <2>1. r \in Seq(Event) /\ Len(r) \in Nat
    BY ReplayOfHistory DEF HubInv
  <2> HIDE DEF r
  <2> QED
    BY <2>1, <1>1, CapAssumption, SubSeqProperties
<1> HIDE DEF k, w
<1>4. TypeOK'
  BY SMTT(60), <1>1, <1>2, <1>3, CapAssumption DEF HubInv, TypeOK
<1>5. HistoryIsLatest'
  BY <1>1 DEF HubInv, HistoryIsLatest
<1>6. Registered'
  <2>1. \A j \in Conns : cur'[j[1]] >= cur[j[1]] /\ cur[j[1]] \in Nat
    BY <1>1 DEF HubInv, TypeOK, Conns
  <2>2. ASSUME NEW t \in Tasks, NEW j \in subscribers'[t]
        PROVE  /\ t = TaskOf[j[1]]
               /\ j[2] <= cur'[j[1]]
               /\ handler'[j] \in {"streaming", "returning"}
    <3>1. j \in subscribers[t] /\ j \in Conns /\ j /= k
      BY <1>1, <1>2, <2>2 DEF HubInv, TypeOK
    <3>2. j[2] \in Nat
      BY <3>1 DEF Conns
    <3> QED
      BY <3>1, <3>2, <2>1, <1>1 DEF HubInv, Registered, TypeOK
  <2>3. ASSUME NEW j \in Conns, j[2] > cur'[j[1]]
        PROVE  handler'[j] = "none" /\ chan'[j] = <<>>
    <3>1. j /= k
      BY <2>3, <1>1, <1>2 DEF HubInv, TypeOK
    <3>2. j[2] > cur[j[1]]
      BY <2>3, <2>1, <1>1 DEF HubInv, TypeOK, Conns
    <3> QED
      BY <3>1, <3>2, <1>1 DEF HubInv, TypeOK, Registered
  <2> QED
    BY <2>2, <2>3 DEF Registered
<1> QED
  BY <1>4, <1>5, <1>6 DEF HubInv

(* Taking an event shortens one channel and advances one cursor.           *)
LEMMA DeliverKeepsHubInv ==
  ASSUME HubInv, NEW k \in Conns, Deliver(k)
  PROVE  HubInv'
<1>1. /\ k[1] \in Clients
      /\ chan[k] \in Seq(Event)
      /\ chan[k] /= <<>>
      /\ Len(chan[k]) <= ChanCap
      /\ handler[k] = "streaming"
  BY DEF HubInv, TypeOK, Deliver, Conns
<1>2. /\ Head(chan[k]) \in Event
      /\ Tail(chan[k]) \in Seq(Event)
      /\ Len(Tail(chan[k])) = Len(chan[k]) - 1
      /\ Len(chan[k]) \in Nat
  BY <1>1, HeadTailProperties, LenProperties
<1>3. Head(chan[k]).seq \in 1 .. MaxEvents /\ Head(chan[k]).terminal \in BOOLEAN
  BY <1>2 DEF Event
<1>4. TypeOK'
  <2>1. chan' \in [Conns -> Seq(Event)]
    BY <1>2 DEF HubInv, TypeOK, Deliver
  <2>2. \A j \in Conns : Len(chan'[j]) <= ChanCap
    <3> SUFFICES ASSUME NEW j \in Conns PROVE Len(chan'[j]) <= ChanCap
      OBVIOUS
    <3>1. CASE j = k
      <4>1. chan'[j] = Tail(chan[k])
        BY <3>1 DEF HubInv, TypeOK, Deliver
      <4> QED
        BY <4>1, <1>1, <1>2, CapAssumption
    <3>2. CASE j /= k
      BY <3>2 DEF HubInv, TypeOK, Deliver
    <3> QED
      BY <3>1, <3>2
  <2>3. handler' \in [Conns -> {"none", "streaming", "blocked", "returning", "closed"}]
    BY DEF HubInv, TypeOK, Deliver
  <2>4. seen' \in [Clients -> 0 .. MaxEvents]
    <3>1. Head(chan[k]).seq \in 0 .. MaxEvents
      BY <1>3
    <3> QED
      BY <3>1, <1>1 DEF HubInv, TypeOK, Deliver
  <2>5. done' \in [Clients -> BOOLEAN] /\ up' \in [Clients -> BOOLEAN]
    BY <1>1, <1>3 DEF HubInv, TypeOK, Deliver
  <2> QED
    BY <2>1, <2>2, <2>3, <2>4, <2>5 DEF HubInv, TypeOK, Deliver, hubVars
<1>5. HistoryIsLatest'
  BY DEF HubInv, HistoryIsLatest, Deliver, hubVars
<1>6. Registered'
  <2>1. k[2] <= cur[k[1]]
    BY <1>1 DEF HubInv, Registered, TypeOK, Conns
  <2> QED
    BY <2>1, <1>1 DEF HubInv, Registered, TypeOK, Deliver, hubVars
<1> QED
  BY <1>4, <1>5, <1>6 DEF HubInv

(* A channel is closed and forgotten in one step.                          *)
LEMMA UnsubscribeKeepsHubInv ==
  ASSUME HubInv, NEW k \in Conns, Unsubscribe(k)
  PROVE  HubInv'
<1>1. TypeOK'
  <2>1. <<>> \in Seq(Event) /\ Len(<<>>) = 0
    BY EmptySeq
  <2>2. TypeOK'
    <3>1. chan' \in [Conns -> Seq(Event)]
      BY <2>1 DEF HubInv, TypeOK, Unsubscribe
    <3>2. \A j \in Conns : Len(chan'[j]) <= ChanCap
      BY <2>1, CapAssumption DEF HubInv, TypeOK, Unsubscribe
    <3>3. subscribers' \in [Tasks -> SUBSET Conns]
      BY DEF HubInv, TypeOK, Unsubscribe
    <3> QED
      BY <3>1, <3>2, <3>3 DEF HubInv, TypeOK, Unsubscribe, clientVars
  <2> QED
    BY <2>2
<1>2. HistoryIsLatest'
  BY DEF HubInv, HistoryIsLatest, Unsubscribe
<1>3. Registered'
  <2>1. k[1] \in Clients /\ TaskOf[k[1]] \in Tasks
    BY TaskOfAssumption DEF Conns
  <2>2. k[2] <= cur[k[1]]
    BY <2>1 DEF HubInv, Registered, TypeOK, Conns, Unsubscribe
  <2> QED
    BY <2>1, <2>2 DEF HubInv, Registered, TypeOK, Unsubscribe, clientVars
<1> QED
  BY <1>1, <1>2, <1>3 DEF HubInv

(* Every step of the hub keeps its invariant.                              *)
LEMMA HubInvNext == HubInv /\ [Next]_vars => HubInv'
<1> SUFFICES ASSUME HubInv, [Next]_vars PROVE HubInv'
  OBVIOUS
<1>1. ASSUME NEW t \in Tasks, NEW terminal \in BOOLEAN, Publish(t, terminal)
      PROVE  HubInv'
  BY <1>1, PublishKeepsHubInv
<1>2. ASSUME NEW c \in Clients, Subscribe(c) PROVE HubInv'
  BY <1>2, SubscribeKeepsHubInv
<1>3. ASSUME NEW c \in Clients, SubscribeBlocks(c) PROVE HubInv'
  BY <1>3, SubscribeBlocksKeepsHubInv
<1>4. ASSUME NEW c \in Clients, Disconnect(c) PROVE HubInv'
  BY <1>4 DEF Disconnect, hubVars, HubInv, TypeOK, HistoryIsLatest, Registered
<1>5. ASSUME NEW k \in Conns, Deliver(k) PROVE HubInv'
  BY <1>5, DeliverKeepsHubInv
<1>6. ASSUME NEW k \in Conns, ContextDone(k) PROVE HubInv'
  <2>1. HistoryIsLatest' /\ TypeOK'
    BY <1>6 DEF ContextDone, hubVars, clientVars, HubInv, TypeOK, HistoryIsLatest
  <2>2. Registered'
    BY <1>6 DEF ContextDone, hubVars, clientVars, HubInv, TypeOK, Registered
  <2> QED
    BY <2>1, <2>2 DEF HubInv
<1>7. ASSUME NEW k \in Conns, Unsubscribe(k) PROVE HubInv'
  BY <1>7, UnsubscribeKeepsHubInv
<1>8. ASSUME NEW c \in Clients, Refuse(c) PROVE HubInv'
  <2>1. TypeOK'
    BY <1>8 DEF Refuse, hubVars, HubInv, TypeOK
  <2> QED
    BY <1>8, <2>1 DEF Refuse, hubVars, HubInv, HistoryIsLatest, Registered
<1>9. CASE UNCHANGED vars
  <2>1. TypeOK'
    BY <1>9 DEF vars, HubInv, TypeOK
  <2>2. HistoryIsLatest' /\ Registered'
    BY <1>9 DEF vars, HubInv, HistoryIsLatest, Registered
  <2> QED
    BY <2>1, <2>2 DEF HubInv
<1> QED
  BY <1>1, <1>2, <1>3, <1>4, <1>5, <1>6, <1>7, <1>8, <1>9 DEF Next

-----------------------------------------------------------------------------
(* The invariants of the hub for every capacity.                           *)

LEMMA HubInvHolds == Spec => []HubInv
BY HubInvInit, HubInvNext, PTL DEF Spec

(* Types, and the bounds on channels and histories.                        *)
THEOREM TypeCorrect == Spec => []TypeOK
<1>1. HubInv => TypeOK
  BY DEF HubInv
<1> QED
  BY <1>1, HubInvHolds, PTL

(* The hub retains the latest events, without a hole, however many are     *)
(* published.                                                              *)
THEOREM RetainsLatest == Spec => []HistoryIsLatest
<1>1. HubInv => HistoryIsLatest
  BY DEF HubInv
<1> QED
  BY <1>1, HubInvHolds, PTL

(* No schedule of publishes, losses and unsubscriptions sends on a closed  *)
(* channel.                                                                *)
THEOREM NoSendOnClosed == Spec => []NoSendOnClosedChannel
<1>1. HubInv => NoSendOnClosedChannel
  BY DEF HubInv, Registered, NoSendOnClosedChannel
<1> QED
  BY <1>1, HubInvHolds, PTL

-----------------------------------------------------------------------------
(* The order of what a client reads, also when full channels lose events:  *)
(* a channel ascends, from above what its client has seen, and never holds *)
(* an event that is not published.                                         *)
SeenPublished == \A c \in Clients : seen[c] <= sequences[TaskOf[c]]

Ordered(k) ==
  /\ \A i, j \in 1 .. Len(chan[k]) : i < j => chan[k][i].seq < chan[k][j].seq
  /\ \A i \in 1 .. Len(chan[k]) : chan[k][i].seq <= sequences[TaskOf[k[1]]]
  /\ Alive(k) => \A i \in 1 .. Len(chan[k]) : chan[k][i].seq > seen[k[1]]

OrderInv ==
  /\ SeenPublished
  /\ \A k \in Conns : handler[k] = "streaming" => Ordered(k)

LEMMA OrderInvInit == Init => OrderInv
<1> SUFFICES ASSUME Init PROVE OrderInv
  OBVIOUS
<1>1. SeenPublished
  BY TaskOfAssumption DEF Init, SeenPublished
<1> QED BY <1>1 DEF Init, OrderInv

(* The numbers of a channel's events, of tasks and of cursors.             *)
LEMMA Numbers ==
  ASSUME TypeOK, NEW k \in Conns
  PROVE  /\ chan[k] \in Seq(Event) /\ Len(chan[k]) \in Nat
         /\ \A i \in 1 .. Len(chan[k]) : chan[k][i].seq \in Nat
         /\ k[1] \in Clients /\ k[2] \in Nat /\ TaskOf[k[1]] \in Tasks
         /\ sequences[TaskOf[k[1]]] \in Nat /\ seen[k[1]] \in Nat
<1>1. k[1] \in Clients /\ k[2] \in Nat /\ TaskOf[k[1]] \in Tasks
  BY TaskOfAssumption DEF Conns
<1>2. chan[k] \in Seq(Event) /\ Len(chan[k]) \in Nat
  BY LenProperties DEF TypeOK
<1>3. \A i \in 1 .. Len(chan[k]) : chan[k][i] \in Event
  <2> HIDE DEF Event
  <2> QED BY <1>2
<1>4. \A i \in 1 .. Len(chan[k]) : chan[k][i].seq \in Nat
  BY <1>3, CapAssumption DEF Event
<1>5. sequences[TaskOf[k[1]]] \in Nat /\ seen[k[1]] \in Nat
  BY <1>1, CapAssumption DEF TypeOK
<1> QED BY <1>1, <1>2, <1>4, <1>5

(* A new event is above all that its task has published.                   *)
LEMMA PublishKeepsOrder ==
  ASSUME HubInv, OrderInv, NEW t \in Tasks, NEW terminal \in BOOLEAN, Publish(t, terminal)
  PROVE  OrderInv'
<1> DEFINE e == [seq |-> sequences[t] + 1, terminal |-> terminal]
<1>1. /\ sequences' = [sequences EXCEPT ![t] = @ + 1]
      /\ chan' = [k \in Conns |-> IF k \in subscribers[t] /\ Len(chan[k]) < ChanCap
                                  THEN Append(chan[k], e) ELSE chan[k]]
      /\ UNCHANGED <<handler, cur, up, seen>>
      /\ e \in Event /\ e.seq = sequences[t] + 1
  BY CapAssumption DEF Publish, clientVars, Event, HubInv, TypeOK
<1> HIDE DEF e
<1>2. \A u \in Tasks : sequences[u] \in Nat /\ sequences'[u] \in Nat
                       /\ sequences[u] <= sequences'[u]
  BY <1>1, CapAssumption DEF HubInv, TypeOK
<1>3. SeenPublished'
  <2>1. \A c \in Clients : TaskOf[c] \in Tasks /\ seen[c] \in Nat
    BY TaskOfAssumption, CapAssumption DEF HubInv, TypeOK
  <2> QED BY <1>1, <1>2, <2>1 DEF OrderInv, SeenPublished
<1>4. ASSUME NEW k \in Conns, handler'[k] = "streaming" PROVE Ordered(k)'
  <2>1. Ordered(k) /\ (Alive(k)' <=> Alive(k))
    BY <1>1, <1>4 DEF OrderInv, Alive
  <2>2. /\ chan[k] \in Seq(Event) /\ Len(chan[k]) \in Nat
        /\ \A i \in 1 .. Len(chan[k]) : chan[k][i].seq \in Nat
        /\ k[1] \in Clients /\ TaskOf[k[1]] \in Tasks
        /\ seen[k[1]] \in Nat
    BY Numbers DEF HubInv
  <2>3. CASE chan'[k] = chan[k]
    <3>1. sequences[TaskOf[k[1]]] \in Nat /\ sequences'[TaskOf[k[1]]] \in Nat
          /\ sequences[TaskOf[k[1]]] <= sequences'[TaskOf[k[1]]]
      BY <1>2, <2>2
    <3>2. \A i \in 1 .. Len(chan[k]) : chan[k][i].seq <= sequences'[TaskOf[k[1]]]
      BY <2>1, <2>2, <3>1 DEF Ordered
    <3> QED BY <1>1, <2>1, <2>3, <3>2 DEF Ordered
  <2>4. CASE k \in subscribers[t] /\ chan'[k] = Append(chan[k], e)
    <3>1. t = TaskOf[k[1]] /\ seen[k[1]] <= sequences[t] /\ sequences'[t] = sequences[t] + 1
      BY <1>1, <2>2, <2>4 DEF HubInv, TypeOK, Registered, OrderInv, SeenPublished
    <3>2. /\ Len(chan'[k]) = Len(chan[k]) + 1
          /\ \A i \in 1 .. Len(chan'[k]) :
               \/ i \in 1 .. Len(chan[k]) /\ chan'[k][i] = chan[k][i]
               \/ i = Len(chan[k]) + 1 /\ chan'[k][i] = e
      BY <1>1, <2>2, <2>4
    <3>3. \A i, j \in 1 .. Len(chan'[k]) : i < j => chan'[k][i].seq < chan'[k][j].seq
      <4> SUFFICES ASSUME NEW i \in 1 .. Len(chan'[k]), NEW j \in 1 .. Len(chan'[k]), i < j
                   PROVE  chan'[k][i].seq < chan'[k][j].seq
        OBVIOUS
      <4>1. i \in 1 .. Len(chan[k]) /\ chan'[k][i] = chan[k][i]
        BY <2>2, <3>2
      <4>2. chan[k][i].seq \in Nat /\ chan[k][i].seq <= sequences[t]
        BY <2>1, <2>2, <3>1, <4>1 DEF Ordered
      <4> QED BY <1>1, <1>2, <2>1, <3>2, <4>1, <4>2 DEF Ordered
    <3>4. \A i \in 1 .. Len(chan'[k]) : chan'[k][i].seq <= sequences'[t]
      BY <1>1, <1>2, <2>1, <2>2, <3>1, <3>2 DEF Ordered
    <3>5. Alive(k) => \A i \in 1 .. Len(chan'[k]) : chan'[k][i].seq > seen[k[1]]
      BY <1>1, <1>2, <2>1, <2>2, <3>1, <3>2 DEF Ordered
    <3> QED BY <1>1, <2>1, <3>1, <3>3, <3>4, <3>5 DEF Ordered
  <2> QED BY <1>1, <2>3, <2>4
<1> QED BY <1>3, <1>4 DEF OrderInv

(* A replay is a window of the history beyond what the client has seen.    *)
LEMMA SubscribeKeepsOrder ==
  ASSUME HubInv, OrderInv, NEW c \in Clients, Subscribe(c) \/ SubscribeBlocks(c)
  PROVE  OrderInv'
<1> DEFINE n == <<c, cur[c] + 1>>
           r == Replay(history[TaskOf[c]], seen[c])
<1>1. /\ cur' = [cur EXCEPT ![c] = @ + 1] /\ cur[c] < MaxConns
      /\ up' = [up EXCEPT ![c] = TRUE] /\ ~ up[c]
      /\ UNCHANGED <<sequences, seen>>
      /\ \/ chan' = [chan EXCEPT ![n] = r] /\ handler' = [handler EXCEPT ![n] = "streaming"]
         \/ /\ handler' = [handler EXCEPT ![n] = "blocked"]
            /\ \E w : chan' = [chan EXCEPT ![n] = w]
  BY DEF Subscribe, SubscribeBlocks, Reconnects, Opens
<1>2. n \in Conns /\ n[1] = c /\ n[2] = cur[c] + 1 /\ cur[c] \in Nat
  BY <1>1, NextConnIsFresh, CapAssumption DEF HubInv, TypeOK
<1>3. SeenPublished'
  BY <1>1 DEF OrderInv, SeenPublished
<1>4. /\ r \in Seq(Event) /\ Len(r) \in Nat /\ TaskOf[c] \in Tasks
      /\ \A i \in 1 .. Len(r) : r[i].seq = sequences[TaskOf[c]] - Len(r) + i
      /\ \A i \in 1 .. Len(r) : r[i].seq > seen[c]
  BY ReplayOfHistory DEF HubInv
<1>5. sequences[TaskOf[c]] \in Nat
  BY <1>4, CapAssumption DEF HubInv, TypeOK
<1> HIDE DEF n, r
<1>6. ASSUME NEW k \in Conns, k = n, handler'[k] = "streaming" PROVE Ordered(k)'
  <2>1. chan'[k] = r /\ k[1] = c
    BY <1>1, <1>2, <1>6 DEF HubInv, TypeOK
  <2>2. \A i, j \in 1 .. Len(r) : i < j => r[i].seq < r[j].seq
    BY <1>4, <1>5
  <2>3. \A i \in 1 .. Len(r) : r[i].seq <= sequences[TaskOf[c]]
    BY <1>4, <1>5
  <2>4. \A i \in 1 .. Len(r) : r[i].seq > seen[c]
    BY <1>4
  <2> QED BY <1>1, <2>1, <2>2, <2>3, <2>4 DEF Ordered
<1>7. ASSUME NEW k \in Conns \ {n}, handler'[k] = "streaming" PROVE Ordered(k)'
  <2>1. chan'[k] = chan[k] /\ handler[k] = "streaming"
    BY <1>1, <1>7 DEF HubInv, TypeOK
  <2>2. k[1] = c => k[2] # cur[c] + 1
    BY <1>7 DEF n, Conns
  <2>3. Alive(k)' => Alive(k)
    BY <1>1, <1>2, <2>2, Numbers DEF Alive, HubInv, TypeOK
  <2> QED BY <1>1, <2>1, <2>3 DEF OrderInv, Ordered
<1>8. \A k \in Conns : handler'[k] = "streaming" => Ordered(k)'
  BY <1>6, <1>7
<1> QED BY <1>3, <1>8 DEF OrderInv

(* What is left in a channel is above the event that is taken.             *)
LEMMA DeliverKeepsOrder ==
  ASSUME HubInv, OrderInv, NEW k \in Conns, Deliver(k)
  PROVE  OrderInv'
<1> DEFINE c == k[1]
           e == Head(chan[k])
<1>1. /\ handler[k] = "streaming" /\ chan[k] /= <<>>
      /\ chan' = [chan EXCEPT ![k] = Tail(@)]
      /\ handler' = [handler EXCEPT ![k] = IF e.terminal THEN "returning" ELSE @]
      /\ IF Alive(k)
         THEN /\ seen' = [seen EXCEPT ![c] = e.seq]
              /\ up' = [up EXCEPT ![c] = ~ e.terminal]
         ELSE UNCHANGED <<seen, up>>
      /\ UNCHANGED <<sequences, cur>>
  BY DEF Deliver, hubVars
<1>2. /\ chan[k] \in Seq(Event) /\ Len(chan[k]) \in Nat
      /\ \A i \in 1 .. Len(chan[k]) : chan[k][i].seq \in Nat
      /\ c \in Clients /\ TaskOf[c] \in Tasks
  BY Numbers DEF HubInv
<1>3. /\ Len(chan[k]) \in Nat \ {0} /\ Len(Tail(chan[k])) = Len(chan[k]) - 1
      /\ e = chan[k][1]
      /\ \A i \in 1 .. Len(Tail(chan[k])) : Tail(chan[k])[i] = chan[k][i + 1]
  BY <1>1, <1>2
<1>4. Ordered(k) /\ chan'[k] = Tail(chan[k])
  BY <1>1 DEF OrderInv, HubInv, TypeOK
<1>5. 1 \in 1 .. Len(chan[k])
      /\ \A i \in 1 .. Len(chan'[k]) :
           i + 1 \in 1 .. Len(chan[k]) /\ 1 < i + 1 /\ chan'[k][i] = chan[k][i + 1]
  BY <1>3, <1>4
<1> HIDE DEF e
<1>6. SeenPublished'
  <2>1. e.seq <= sequences[TaskOf[c]]
    BY <1>3, <1>4, <1>5 DEF Ordered
  <2> QED BY <1>1, <1>2, <2>1 DEF OrderInv, SeenPublished, HubInv, TypeOK
<1>7. Ordered(k)'
  <2>1. ASSUME NEW i \in 1 .. Len(chan'[k]), NEW j \in 1 .. Len(chan'[k]), i < j
        PROVE  chan'[k][i].seq < chan'[k][j].seq
    <3>1. i + 1 < j + 1 /\ i + 1 \in 1 .. Len(chan[k]) /\ j + 1 \in 1 .. Len(chan[k])
      BY <1>5, <2>1
    <3> QED BY <1>4, <1>5, <3>1 DEF Ordered
  <2>2. \A i \in 1 .. Len(chan'[k]) : chan'[k][i].seq <= sequences[TaskOf[c]]
    BY <1>4, <1>5 DEF Ordered
  <2>3. Alive(k)' => Alive(k)
    BY <1>1, <1>2 DEF Alive, HubInv, TypeOK
  <2>4. Alive(k) => seen'[c] = e.seq
    BY <1>1, <1>2 DEF HubInv, TypeOK
  <2>5. \A i \in 1 .. Len(chan'[k]) : chan'[k][i].seq > e.seq
    BY <1>2, <1>3, <1>4, <1>5 DEF Ordered
  <2> QED BY <1>1, <2>1, <2>2, <2>3, <2>4, <2>5 DEF Ordered
<1>8. ASSUME NEW j \in Conns \ {k}, handler'[j] = "streaming" PROVE Ordered(j)'
  <2>1. chan'[j] = chan[j] /\ handler[j] = "streaming"
    BY <1>1, <1>8 DEF HubInv, TypeOK
  <2>2. CASE j[1] = c /\ Alive(k)
    <3>1. ~ Alive(j)'
      <4>1. j[2] # k[2]
        BY <1>8, <2>2 DEF Conns
      <4> QED BY <1>1, <2>2, <4>1 DEF Alive
    <3> QED BY <1>1, <2>1, <3>1 DEF OrderInv, Ordered
  <2>3. CASE ~ (j[1] = c /\ Alive(k))
    <3>1. seen'[j[1]] = seen[j[1]] /\ up'[j[1]] = up[j[1]]
      BY <1>1, <2>3, Numbers DEF HubInv, TypeOK
    <3> QED BY <1>1, <2>1, <3>1 DEF OrderInv, Ordered, Alive
  <2> QED BY <2>2, <2>3
<1> QED BY <1>6, <1>7, <1>8 DEF OrderInv

LEMMA OrderInvNext == HubInv /\ OrderInv /\ [Next]_vars => OrderInv'
<1> SUFFICES ASSUME HubInv, OrderInv, [Next]_vars PROVE OrderInv'
  OBVIOUS
<1>1. ASSUME NEW t \in Tasks, NEW terminal \in BOOLEAN, Publish(t, terminal)
      PROVE  OrderInv'
  BY <1>1, PublishKeepsOrder
<1>2. ASSUME NEW c \in Clients, Subscribe(c) \/ SubscribeBlocks(c) PROVE OrderInv'
  BY <1>2, SubscribeKeepsOrder
<1>3. ASSUME NEW k \in Conns, Deliver(k) PROVE OrderInv'
  BY <1>3, DeliverKeepsOrder
<1>4. ASSUME NEW c \in Clients, Disconnect(c) PROVE OrderInv'
  <2>1. UNCHANGED <<sequences, chan, handler, cur, seen>> /\ up' = [up EXCEPT ![c] = FALSE]
    BY <1>4 DEF Disconnect, hubVars
  <2>2. \A k \in Conns : Alive(k)' => Alive(k)
    BY <2>1, Numbers DEF Alive, HubInv, TypeOK
  <2> QED BY <2>1, <2>2 DEF OrderInv, SeenPublished, Ordered
<1>5. ASSUME NEW k \in Conns, ContextDone(k) \/ Unsubscribe(k) PROVE OrderInv'
  <2>1. /\ UNCHANGED <<sequences, cur, up, seen>> /\ handler'[k] # "streaming"
        /\ \A j \in Conns \ {k} : handler'[j] = handler[j] /\ chan'[j] = chan[j]
    BY <1>5 DEF ContextDone, Unsubscribe, hubVars, clientVars, HubInv, TypeOK
  <2> QED BY <2>1 DEF OrderInv, SeenPublished, Ordered, Alive
<1>6. ASSUME NEW c \in Clients, Refuse(c) PROVE OrderInv'
  BY <1>6 DEF Refuse, hubVars, OrderInv, SeenPublished, Ordered, Alive
<1>7. CASE UNCHANGED vars
  BY <1>7 DEF vars, OrderInv, SeenPublished, Ordered, Alive
<1> QED BY <1>1, <1>2, <1>3, <1>4, <1>5, <1>6, <1>7 DEF Next

(* No client reads an event twice or after a later one, whatever the       *)
(* capacities are and however many events full channels lose.              *)
THEOREM StreamsAreInOrder == Spec => []InOrder
<1>1. OrderInv => InOrder
  BY DEF OrderInv, Ordered, InOrder
<1> QED
  BY <1>1, OrderInvInit, OrderInvNext, HubInvHolds, PTL DEF Spec

-----------------------------------------------------------------------------
(* When a task publishes no more events than a channel and a history hold  *)
(* (34 against 64 and 256 in the code), a channel always holds exactly     *)
(* what its client still lacks.                                            *)
Lossless == MaxEvents <= ChanCap /\ MaxEvents <= HistoryCap

QueuedIsRest ==
  \A k \in Conns :
    handler[k] = "streaming" =>
      LET h == history[TaskOf[k[1]]] IN
      /\ k \in subscribers[TaskOf[k[1]]]
      /\ Len(chan[k]) <= Len(h)
      /\ \A i \in 1 .. Len(chan[k]) : chan[k][i] = h[Len(h) - Len(chan[k]) + i]
      /\ Alive(k) => seen[k[1]] = Len(h) - Len(chan[k])

DoneIsClosed == \A c \in Clients : done[c] => ~ up[c]

LosslessInv ==
  /\ HubInv
  /\ QueuedIsRest
  /\ SeenPublished
  /\ DoneIsClosed
  /\ NeverBlocks

(* Nothing is trimmed.                                                     *)
LEMMA WholeHistory ==
  ASSUME Lossless, HubInv, NEW t \in Tasks
  PROVE  /\ history[t] \in Seq(Event)
         /\ sequences[t] \in Nat
         /\ sequences[t] <= MaxEvents
         /\ Len(history[t]) = sequences[t]
         /\ \A i \in 1 .. Len(history[t]) : history[t][i].seq = i
<1>1. /\ history[t] \in Seq(Event)
      /\ Len(history[t]) \in Nat
      /\ sequences[t] \in Nat
      /\ \A i \in 1 .. Len(history[t]) :
           history[t][i].seq = sequences[t] - Len(history[t]) + i
  BY HistoryLength DEF HubInv
<1>2. sequences[t] <= MaxEvents
  BY CapAssumption DEF HubInv, TypeOK
<1>3. Len(history[t]) = sequences[t]
  BY <1>1, <1>2, CapAssumption DEF HubInv, HistoryIsLatest, Lossless
<1>4. \A i \in 1 .. Len(history[t]) : history[t][i].seq = i
  <2> SUFFICES ASSUME NEW i \in 1 .. Len(history[t]) PROVE history[t][i].seq = i
    OBVIOUS
  <2>1. history[t][i].seq = sequences[t] - Len(history[t]) + i
    BY <1>1
  <2>2. i \in Nat
    BY <1>1
  <2> QED
    BY <2>1, <2>2, <1>1, <1>3
<1> QED
  BY <1>1, <1>2, <1>3, <1>4

(* Nobody is connected at first, so nobody lacks an event.                 *)
LEMMA LosslessInvInit == Init => LosslessInv
<1> SUFFICES ASSUME Init PROVE LosslessInv
  OBVIOUS
<1>1. QueuedIsRest
  BY DEF Init, QueuedIsRest
<1>2. SeenPublished
  BY TaskOfAssumption DEF Init, SeenPublished
<1>3. DoneIsClosed /\ NeverBlocks
  BY DEF Init, DoneIsClosed, NeverBlocks
<1> QED
  BY <1>1, <1>2, <1>3, HubInvInit DEF LosslessInv

(* What is appended to the history is appended to every channel.           *)
LEMMA PublishKeepsLosslessInv ==
  ASSUME Lossless, LosslessInv, NEW t \in Tasks, NEW terminal \in BOOLEAN,
         Publish(t, terminal)
  PROVE  /\ history' = [history EXCEPT
                ![t] = Append(@, [seq |-> sequences[t] + 1, terminal |-> terminal])]
         /\ QueuedIsRest'
         /\ SeenPublished'
<1> DEFINE e == [seq |-> sequences[t] + 1, terminal |-> terminal]
           h == Append(history[t], e)
<1>1. /\ sequences' = [sequences EXCEPT ![t] = @ + 1]
      /\ history' = [history EXCEPT ![t] = Latest(h)]
      /\ chan' = [k \in Conns |-> IF k \in subscribers[t] /\ Len(chan[k]) < ChanCap
                                  THEN Append(chan[k], e) ELSE chan[k]]
      /\ UNCHANGED <<subscribers, handler, cur, up, seen>>
      /\ sequences[t] < MaxEvents
  BY DEF Publish, clientVars
<1>2. /\ history[t] \in Seq(Event)
      /\ sequences[t] \in Nat
      /\ Len(history[t]) = sequences[t]
  BY WholeHistory DEF LosslessInv
<1>3. e \in Event
  BY <1>1, <1>2, CapAssumption DEF Event
<1> HIDE DEF e
<1>4. /\ h \in Seq(Event)
      /\ Len(h) = Len(history[t]) + 1
      /\ \A i \in 1 .. Len(history[t]) : h[i] = history[t][i]
      /\ h[Len(history[t]) + 1] = e
  BY <1>2, <1>3, AppendProperties
<1> HIDE DEF h
<1>5. Latest(h) = h
  BY SMTT(30), <1>1, <1>2, <1>4, CapAssumption DEF Latest, Lossless
<1>6. history' = [history EXCEPT ![t] = h]
  BY <1>1, <1>5
<1>7. QueuedIsRest'
  <2> SUFFICES ASSUME NEW k \in Conns, handler'[k] = "streaming"
               PROVE  /\ k \in subscribers'[TaskOf[k[1]]]
                      /\ Len(chan'[k]) <= Len(history'[TaskOf[k[1]]])
                      /\ \A i \in 1 .. Len(chan'[k]) : chan'[k][i]
                           = history'[TaskOf[k[1]]][Len(history'[TaskOf[k[1]]]) - Len(chan'[k]) + i]
                      /\ Alive(k)' => seen'[k[1]]
                           = Len(history'[TaskOf[k[1]]]) - Len(chan'[k])
    BY DEF QueuedIsRest
  <2>1. /\ handler[k] = "streaming"
        /\ Alive(k)' <=> Alive(k)
        /\ seen'[k[1]] = seen[k[1]]
    BY <1>1 DEF Alive
  <2>2. /\ k[1] \in Clients
        /\ TaskOf[k[1]] \in Tasks
        /\ chan[k] \in Seq(Event)
        /\ Len(chan[k]) \in Nat
    BY TaskOfAssumption, LenProperties DEF LosslessInv, HubInv, TypeOK, Conns
  <2>3. /\ k \in subscribers[TaskOf[k[1]]]
        /\ Len(chan[k]) <= Len(history[TaskOf[k[1]]])
        /\ \A i \in 1 .. Len(chan[k]) : chan[k][i]
             = history[TaskOf[k[1]]][Len(history[TaskOf[k[1]]]) - Len(chan[k]) + i]
        /\ Alive(k) => seen[k[1]] = Len(history[TaskOf[k[1]]]) - Len(chan[k])
    BY <2>1 DEF LosslessInv, QueuedIsRest
  <2>4. CASE TaskOf[k[1]] = t
    <3>1. chan'[k] = Append(chan[k], e)
      BY <1>1, <1>2, <2>2, <2>3, <2>4, CapAssumption DEF Lossless
    <3>2. history'[TaskOf[k[1]]] = h
      BY <1>6, <2>4 DEF LosslessInv, HubInv, TypeOK
    <3>3. /\ Len(chan'[k]) = Len(chan[k]) + 1
          /\ \A i \in 1 .. Len(chan[k]) : chan'[k][i] = chan[k][i]
          /\ chan'[k][Len(chan[k]) + 1] = e
      BY <3>1, <2>2, <1>3, AppendProperties
    <3>0. /\ Len(chan'[k]) \in Nat
          /\ Len(h) \in Nat
          /\ Len(history[t]) \in Nat
          /\ Len(chan'[k]) = Len(chan[k]) + 1
          /\ Len(h) = Len(history[t]) + 1
          /\ Len(chan[k]) \in Nat
          /\ Len(chan[k]) <= Len(history[t])
      BY <1>2, <1>4, <2>2, <2>3, <2>4, <3>3
    <3>4. ASSUME NEW i \in 1 .. Len(chan'[k])
          PROVE  chan'[k][i] = h[Len(h) - Len(chan'[k]) + i]
      <4>1. Len(h) - Len(chan'[k]) + i = Len(history[t]) - Len(chan[k]) + i
        BY <3>0
      <4>2. CASE i = Len(chan[k]) + 1
        <5>1. Len(h) - Len(chan'[k]) + i = Len(history[t]) + 1
          <6> DEFINE a == Len(history[t])
                     b == Len(chan[k])
                     x == Len(h)
                     y == Len(chan'[k])
          <6>1. a \in Nat /\ b \in Nat /\ x = a + 1 /\ y = b + 1 /\ i = b + 1
            BY <4>2, <3>0
          <6> HIDE DEF a, b, x, y
          <6>2. x - y + i = a + 1
            BY <6>1
          <6> QED
            BY <6>2 DEF a, b, x, y
        <5> QED
          BY <5>1, <4>2, <1>4, <3>3
      <4>3. CASE i \in 1 .. Len(chan[k])
        <5>1. Len(history[t]) - Len(chan[k]) + i \in 1 .. Len(history[t])
          BY <4>3, <1>2, <2>2, <2>3, <2>4
        <5> QED
          BY <5>1, <4>1, <4>3, <1>4, <2>3, <2>4, <3>3
      <4> QED
        <5>1. i = Len(chan[k]) + 1 \/ i \in 1 .. Len(chan[k])
          BY <3>0
        <5> QED
          BY <5>1, <4>2, <4>3
    <3>5. /\ Len(chan'[k]) <= Len(h)
          /\ Alive(k) => seen[k[1]] = Len(h) - Len(chan'[k])
      <4>1. Len(chan'[k]) <= Len(h)
        BY <3>0
      <4>2. Alive(k) => seen[k[1]] = Len(history[t]) - Len(chan[k])
        BY <2>3, <2>4
      <4>3. Len(h) - Len(chan'[k]) = Len(history[t]) - Len(chan[k])
        BY <3>0
      <4> QED
        BY <4>1, <4>2, <4>3
    <3> QED
      BY <3>2, <3>4, <3>5, <2>1, <2>3, <1>1
  <2>5. CASE TaskOf[k[1]] /= t
    <3>1. k \notin subscribers[t]
      BY <2>5 DEF LosslessInv, HubInv, Registered
    <3>2. chan'[k] = chan[k] /\ history'[TaskOf[k[1]]] = history[TaskOf[k[1]]]
      BY <3>1, <2>5, <2>2, <1>1, <1>6 DEF LosslessInv, HubInv, TypeOK
    <3> QED
      BY <3>2, <2>1, <2>3, <1>1
  <2> QED
    BY <2>4, <2>5
<1>8. SeenPublished'
  <2> SUFFICES ASSUME NEW c \in Clients PROVE seen'[c] <= sequences'[TaskOf[c]]
    BY DEF SeenPublished
  <2>1. /\ seen[c] \in Nat
        /\ sequences[TaskOf[c]] \in Nat
        /\ seen[c] <= sequences[TaskOf[c]]
        /\ TaskOf[c] \in Tasks
    BY TaskOfAssumption, CapAssumption DEF LosslessInv, HubInv, TypeOK,
       SeenPublished
  <2>2. sequences'[TaskOf[c]] \in {sequences[TaskOf[c]], sequences[TaskOf[c]] + 1}
    BY <1>1, <2>1 DEF LosslessInv, HubInv, TypeOK
  <2> QED
    BY <2>1, <2>2, <1>1
<1> QED
  BY <1>6, <1>7, <1>8 DEF h, e

(* A replay is exactly what the client lacks.                              *)
LEMMA SubscribeKeepsLosslessInv ==
  ASSUME Lossless, LosslessInv, NEW c \in Clients, Subscribe(c)
  PROVE  QueuedIsRest' /\ DoneIsClosed'
<1> DEFINE n == <<c, cur[c] + 1>>
           r == Replay(history[TaskOf[c]], seen[c])
<1>1. /\ chan' = [chan EXCEPT ![n] = r]
      /\ subscribers' = [subscribers EXCEPT ![TaskOf[c]] = @ \union {n}]
      /\ handler' = [handler EXCEPT ![n] = "streaming"]
      /\ cur' = [cur EXCEPT ![c] = @ + 1]
      /\ up' = [up EXCEPT ![c] = TRUE]
      /\ UNCHANGED <<sequences, history, seen, done>>
      /\ cur[c] < MaxConns
      /\ ~ done[c]
      /\ ~ up[c]
  BY DEF Subscribe, Reconnects, Opens
<1>2. /\ n \in Conns /\ n[1] = c /\ n[2] = cur[c] + 1 /\ cur[c] \in Nat
      /\ TaskOf[c] \in Tasks
  <2>1. TypeOK /\ Registered
    BY DEF LosslessInv, HubInv
  <2>2. cur[c] \in Nat
    BY <2>1, CapAssumption DEF TypeOK
  <2>3. n \in Conns
    BY <1>1, <2>1, NextConnIsFresh
  <2> QED
    BY <2>2, <2>3, TaskOfAssumption
<1>3. /\ Len(history[TaskOf[c]]) = sequences[TaskOf[c]]
      /\ sequences[TaskOf[c]] \in Nat
      /\ seen[c] \in Nat
      /\ seen[c] <= sequences[TaskOf[c]]
  BY SMTT(30), <1>2, WholeHistory, CapAssumption
     DEF LosslessInv, HubInv, TypeOK, SeenPublished
<1>4. /\ Len(r) \in Nat
      /\ Len(r) <= Len(history[TaskOf[c]])
      /\ \A i \in 1 .. Len(r) :
           r[i] = history[TaskOf[c]][Len(history[TaskOf[c]]) - Len(r) + i]
      /\ Len(r) = sequences[TaskOf[c]] - seen[c]
  BY <1>3, ReplayOfHistory DEF LosslessInv, HubInv
<1> HIDE DEF n, r
<1>5. QueuedIsRest'
  <2> SUFFICES ASSUME NEW k \in Conns, handler'[k] = "streaming"
               PROVE  /\ k \in subscribers'[TaskOf[k[1]]]
                      /\ Len(chan'[k]) <= Len(history'[TaskOf[k[1]]])
                      /\ \A i \in 1 .. Len(chan'[k]) : chan'[k][i]
                           = history'[TaskOf[k[1]]][Len(history'[TaskOf[k[1]]]) - Len(chan'[k]) + i]
                      /\ Alive(k)' => seen'[k[1]]
                           = Len(history'[TaskOf[k[1]]]) - Len(chan'[k])
    BY DEF QueuedIsRest
  <2>1. CASE k = n
    <3>1. chan'[k] = r /\ k[1] = c /\ k \in subscribers'[TaskOf[c]]
      BY <2>1, <1>1, <1>2 DEF LosslessInv, HubInv, TypeOK
    <3>2. seen[c] = Len(history[TaskOf[c]]) - Len(r)
      BY <1>3, <1>4
    <3> QED
      BY <3>1, <3>2, <1>1, <1>4
  <2>2. CASE k /= n
    <3>1. /\ handler[k] = "streaming"
          /\ chan'[k] = chan[k]
          /\ TaskOf[k[1]] \in Tasks
          /\ \A t \in Tasks : subscribers[t] \subseteq subscribers'[t]
      BY <2>2, <1>1, <1>2, TaskOfAssumption DEF LosslessInv, HubInv, TypeOK, Conns
    <3>2. Alive(k)' => Alive(k)
      <4>1. CASE k[1] = c
        <5>1. k[2] /= cur[c] + 1
          BY <4>1, <2>2 DEF n, Conns
        <5> QED
          BY <4>1, <5>1, <1>1 DEF Alive, LosslessInv, HubInv, TypeOK
      <4>2. CASE k[1] /= c
        BY <4>2, <1>1 DEF Alive, LosslessInv, HubInv, TypeOK, Conns
      <4> QED
        BY <4>1, <4>2
    <3> QED
      BY <3>1, <3>2, <1>1 DEF LosslessInv, QueuedIsRest
  <2> QED
    BY <2>1, <2>2
<1>6. DoneIsClosed'
  BY <1>1 DEF LosslessInv, DoneIsClosed, HubInv, TypeOK
<1> QED
  BY <1>5, <1>6

(* Such a replay fits into the channel.                                    *)
LEMMA SubscribeNeverBlocks ==
  ASSUME Lossless, LosslessInv, NEW c \in Clients
  PROVE  ~ SubscribeBlocks(c)
<1> DEFINE r == Replay(history[TaskOf[c]], seen[c])
<1>1. /\ TaskOf[c] \in Tasks
      /\ Len(r) \in Nat
      /\ Len(r) <= Len(history[TaskOf[c]])
  BY ReplayOfHistory DEF LosslessInv, HubInv
<1>2. /\ Len(history[TaskOf[c]]) \in Nat
      /\ Len(history[TaskOf[c]]) <= MaxEvents
  BY <1>1, WholeHistory DEF LosslessInv
<1>3. SubscribeBlocks(c) => Len(r) > ChanCap
  BY DEF SubscribeBlocks
<1> HIDE DEF r
<1> QED
  BY <1>1, <1>2, <1>3, CapAssumption DEF Lossless

(* The event a handler takes is the next one its live client lacks.        *)
LEMMA DeliveredIsNext ==
  ASSUME Lossless, LosslessInv, NEW k \in Conns, Deliver(k)
  PROVE  LET h == history[TaskOf[k[1]]]
             e == Head(chan[k])
         IN  /\ e.seq \in 1 .. Len(h)
             /\ e = h[e.seq]
             /\ e.seq = Len(h) - Len(chan[k]) + 1
             /\ Alive(k) => e.seq = seen[k[1]] + 1
<1> DEFINE h == history[TaskOf[k[1]]]
           e == Head(chan[k])
           p == Len(h) - Len(chan[k]) + 1
<1>1. k[1] \in Clients /\ TaskOf[k[1]] \in Tasks
  BY TaskOfAssumption DEF Conns
<1>2. /\ chan[k] \in Seq(Event)
      /\ chan[k] /= <<>>
      /\ handler[k] = "streaming"
  BY DEF LosslessInv, HubInv, TypeOK, Deliver
<1>3. /\ Len(chan[k]) \in Nat
      /\ Len(chan[k]) >= 1
      /\ e = chan[k][1]
  BY <1>2, LenProperties, EmptySeq
<1>4. /\ Len(h) \in Nat
      /\ \A i \in 1 .. Len(h) : h[i].seq = i
  BY <1>1, WholeHistory DEF LosslessInv
<1>5. /\ Len(chan[k]) <= Len(h)
      /\ \A i \in 1 .. Len(chan[k]) : chan[k][i] = h[Len(h) - Len(chan[k]) + i]
      /\ Alive(k) => seen[k[1]] = Len(h) - Len(chan[k])
  BY <1>2 DEF LosslessInv, QueuedIsRest
<1> HIDE DEF h, e
<1>6. e = h[p]
  <2>1. 1 \in 1 .. Len(chan[k])
    BY <1>3
  <2>2. chan[k][1] = h[Len(h) - Len(chan[k]) + 1]
    BY <2>1, <1>5
  <2> QED
    BY <2>2, <1>3
<1>7. p \in 1 .. Len(h)
  BY <1>3, <1>4, <1>5
<1>8. e.seq = p
  BY <1>4, <1>6, <1>7
<1>9. Alive(k) => p = seen[k[1]] + 1
  BY <1>5
<1> QED
  BY <1>6, <1>7, <1>8, <1>9 DEF h, e

(* After a delivery the channel still holds the rest.                      *)
LEMMA DeliverKeepsLosslessInv ==
  ASSUME Lossless, LosslessInv, NEW k \in Conns, Deliver(k)
  PROVE  QueuedIsRest' /\ SeenPublished' /\ DoneIsClosed'
<1> DEFINE e == Head(chan[k])
<1>1. /\ k[1] \in Clients
      /\ TaskOf[k[1]] \in Tasks
      /\ chan[k] \in Seq(Event)
      /\ chan[k] /= <<>>
      /\ handler[k] = "streaming"
      /\ UNCHANGED <<sequences, history, subscribers, cur>>
      /\ chan' = [chan EXCEPT ![k] = Tail(@)]
      /\ handler' = [handler EXCEPT ![k] = IF e.terminal THEN "returning" ELSE @]
  BY TaskOfAssumption DEF LosslessInv, HubInv, TypeOK, Deliver, Conns, hubVars
<1>2. /\ Len(chan[k]) \in Nat
      /\ Len(Tail(chan[k])) = Len(chan[k]) - 1
      /\ Tail(chan[k]) \in Seq(Event)
      /\ \A i \in 1 .. Len(Tail(chan[k])) : Tail(chan[k])[i] = chan[k][i + 1]
      /\ Head(chan[k]).terminal \in BOOLEAN
  <2>1. /\ Head(chan[k]) \in Event
        /\ Tail(chan[k]) \in Seq(Event)
        /\ Len(Tail(chan[k])) = Len(chan[k]) - 1
        /\ \A i \in 1 .. Len(Tail(chan[k])) : Tail(chan[k])[i] = chan[k][i + 1]
    BY <1>1, HeadTailProperties
  <2>2. Len(chan[k]) \in Nat
    BY <1>1, LenProperties
  <2>3. Head(chan[k]).terminal \in BOOLEAN
    BY <2>1 DEF Event
  <2> QED
    BY <2>1, <2>2, <2>3
<1>3. /\ Alive(k) => /\ seen' = [seen EXCEPT ![k[1]] = e.seq]
                     /\ done' = [done EXCEPT ![k[1]] = @ \/ e.terminal]
                     /\ up' = [up EXCEPT ![k[1]] = ~ e.terminal]
      /\ ~ Alive(k) => UNCHANGED <<seen, done, up>>
  BY DEF Deliver
<1>4. /\ e.seq = Len(history[TaskOf[k[1]]]) - Len(chan[k]) + 1
      /\ e.seq \in 1 .. Len(history[TaskOf[k[1]]])
      /\ Len(history[TaskOf[k[1]]]) \in Nat
      /\ Len(history[TaskOf[k[1]]]) = sequences[TaskOf[k[1]]]
  BY <1>1, DeliveredIsNext, WholeHistory DEF LosslessInv
<1> HIDE DEF e
<1>5. QueuedIsRest'
  <2> SUFFICES ASSUME NEW j \in Conns, handler'[j] = "streaming"
               PROVE  /\ j \in subscribers'[TaskOf[j[1]]]
                      /\ Len(chan'[j]) <= Len(history'[TaskOf[j[1]]])
                      /\ \A i \in 1 .. Len(chan'[j]) : chan'[j][i]
                           = history'[TaskOf[j[1]]][Len(history'[TaskOf[j[1]]]) - Len(chan'[j]) + i]
                      /\ Alive(j)' => seen'[j[1]]
                           = Len(history'[TaskOf[j[1]]]) - Len(chan'[j])
    BY DEF QueuedIsRest
  <2>1. handler[j] = "streaming" /\ j[1] \in Clients
    BY <1>1 DEF LosslessInv, HubInv, TypeOK, Conns
  <2>2. /\ j \in subscribers[TaskOf[j[1]]]
        /\ Len(chan[j]) <= Len(history[TaskOf[j[1]]])
        /\ \A i \in 1 .. Len(chan[j]) : chan[j][i]
             = history[TaskOf[j[1]]][Len(history[TaskOf[j[1]]]) - Len(chan[j]) + i]
        /\ Alive(j) => seen[j[1]] = Len(history[TaskOf[j[1]]]) - Len(chan[j])
    BY <2>1 DEF LosslessInv, QueuedIsRest
  <2>3. Alive(j)' => Alive(j)
    BY <1>1, <1>3, <2>1 DEF Alive, LosslessInv, HubInv, TypeOK
  <2>4. CASE j = k
    <3>1. chan'[k] = Tail(chan[k])
      BY <1>1 DEF LosslessInv, HubInv, TypeOK
    <3> DEFINE h == history[TaskOf[k[1]]]
               q == Tail(chan[k])
    <3>2. /\ Len(h) \in Nat /\ Len(q) = Len(chan[k]) - 1
          /\ Len(chan[k]) \in Nat /\ Len(chan[k]) <= Len(h)
          /\ Len(q) \in Nat
          /\ \A i \in 1 .. Len(q) : q[i] = chan[k][i + 1]
          /\ \A i \in 1 .. Len(chan[k]) : chan[k][i] = h[Len(h) - Len(chan[k]) + i]
          /\ e.seq = Len(h) - Len(chan[k]) + 1
      BY <1>2, <1>4, <2>2, <2>4, LenProperties
    <3> HIDE DEF h, q
    <3>3. ASSUME NEW i \in 1 .. Len(q)
          PROVE  q[i] = h[Len(h) - Len(q) + i]
      <4>1. i + 1 \in 1 .. Len(chan[k])
        BY <3>2
      <4>2. Len(h) - Len(chan[k]) + (i + 1) = Len(h) - Len(q) + i
        BY <3>2
      <4> QED
        BY <4>1, <4>2, <3>2
    <3>4. Len(q) <= Len(h) /\ e.seq = Len(h) - Len(q)
      BY <3>2
    <3>5. Alive(j)' => seen'[k[1]] = e.seq
      BY <2>3, <2>4, <1>1, <1>3 DEF LosslessInv, HubInv, TypeOK
    <3>6. /\ chan'[j] = q
          /\ history'[TaskOf[j[1]]] = h
          /\ j \in subscribers'[TaskOf[j[1]]]
          /\ Alive(j)' => seen'[j[1]] = e.seq
      BY <3>1, <3>5, <2>2, <2>4, <1>1 DEF h, q
    <3> QED
      BY <3>3, <3>4, <3>6
  <2>5. CASE j /= k
    <3>1. chan'[j] = chan[j]
      BY <2>5, <1>1 DEF LosslessInv, HubInv, TypeOK
    <3>2. Alive(j)' => seen'[j[1]] = seen[j[1]]
      <4> SUFFICES ASSUME Alive(j)' PROVE seen'[j[1]] = seen[j[1]]
        OBVIOUS
      <4>1. CASE j[1] = k[1]
        <5>1. ~ Alive(k)
          BY <4>1, <2>3, <2>5 DEF Alive, Conns
        <5> QED
          BY <5>1, <1>3
      <4>2. CASE j[1] /= k[1]
        BY <4>2, <1>3, <2>1 DEF LosslessInv, HubInv, TypeOK
      <4> QED
        BY <4>1, <4>2
    <3> QED
      BY <3>1, <3>2, <2>2, <2>3, <1>1
  <2> QED
    BY <2>4, <2>5
<1>6. SeenPublished'
  <2> SUFFICES ASSUME NEW c \in Clients PROVE seen'[c] <= sequences'[TaskOf[c]]
    BY DEF SeenPublished
  <2>1. seen[c] <= sequences[TaskOf[c]] /\ sequences' = sequences
    BY <1>1 DEF LosslessInv, SeenPublished
  <2>2. CASE seen'[c] = seen[c]
    BY <2>1, <2>2
  <2>3. CASE seen'[c] /= seen[c]
    <3>1. c = k[1] /\ seen'[c] = e.seq
      BY <2>3, <1>1, <1>3 DEF LosslessInv, HubInv, TypeOK
    <3> QED
      BY <3>1, <2>1, <1>4
  <2> QED
    BY <2>2, <2>3
<1>7. DoneIsClosed'
  BY ZenonT(30), <1>1, <1>2, <1>3 DEF LosslessInv, DoneIsClosed, HubInv, TypeOK,
     Alive, e
<1> QED
  BY <1>5, <1>6, <1>7

(* Every step keeps the lossless invariant.                                *)
LEMMA LosslessInvNext == Lossless /\ LosslessInv /\ [Next]_vars => LosslessInv'
<1> SUFFICES ASSUME Lossless, LosslessInv, [Next]_vars PROVE LosslessInv'
  OBVIOUS
<1>1. HubInv'
  BY HubInvNext DEF LosslessInv
<1> USE DEF LosslessInv
<1>2. ASSUME NEW t \in Tasks, NEW terminal \in BOOLEAN, Publish(t, terminal)
      PROVE  QueuedIsRest' /\ SeenPublished' /\ DoneIsClosed' /\ NeverBlocks'
  <2>1. DoneIsClosed' /\ NeverBlocks'
    BY <1>2 DEF Publish, clientVars, DoneIsClosed, NeverBlocks
  <2> QED
    BY <1>2, <2>1, PublishKeepsLosslessInv
<1>3. ASSUME NEW c \in Clients, Subscribe(c)
      PROVE  QueuedIsRest' /\ SeenPublished' /\ DoneIsClosed' /\ NeverBlocks'
  <2>1. SeenPublished' /\ NeverBlocks'
    BY <1>3 DEF Subscribe, SeenPublished, NeverBlocks
  <2> QED
    BY <1>3, <2>1, SubscribeKeepsLosslessInv
<1>4. ASSUME NEW c \in Clients, SubscribeBlocks(c) PROVE FALSE
  BY <1>4, SubscribeNeverBlocks
<1>5. ASSUME NEW c \in Clients, Disconnect(c)
      PROVE  QueuedIsRest' /\ SeenPublished' /\ DoneIsClosed' /\ NeverBlocks'
  <2>1. \A k \in Conns : Alive(k)' => Alive(k)
    BY <1>5 DEF Disconnect, Alive, HubInv, TypeOK, Conns
  <2>2. QueuedIsRest'
    BY <1>5, <2>1 DEF Disconnect, hubVars, QueuedIsRest
  <2>3. SeenPublished' /\ DoneIsClosed' /\ NeverBlocks'
    BY <1>5 DEF Disconnect, hubVars, SeenPublished, DoneIsClosed, NeverBlocks,
                HubInv, TypeOK
  <2> QED
    BY <2>2, <2>3
<1>6. ASSUME NEW k \in Conns, Deliver(k)
      PROVE  QueuedIsRest' /\ SeenPublished' /\ DoneIsClosed' /\ NeverBlocks'
  <2>1. NeverBlocks'
    BY <1>6 DEF Deliver, hubVars, NeverBlocks
  <2> QED
    BY <1>6, <2>1, DeliverKeepsLosslessInv
<1>7. ASSUME NEW k \in Conns, ContextDone(k)
      PROVE  QueuedIsRest' /\ SeenPublished' /\ DoneIsClosed' /\ NeverBlocks'
  <2>1. \A j \in Conns : handler'[j] = "streaming" => handler[j] = "streaming"
    BY <1>7 DEF ContextDone, HubInv, TypeOK
  <2>2. QueuedIsRest'
    BY <1>7, <2>1 DEF ContextDone, hubVars, clientVars, QueuedIsRest, Alive
  <2> QED
    BY <1>7, <2>2 DEF ContextDone, hubVars, clientVars, SeenPublished,
                      DoneIsClosed, NeverBlocks
<1>8. ASSUME NEW k \in Conns, Unsubscribe(k)
      PROVE  QueuedIsRest' /\ SeenPublished' /\ DoneIsClosed' /\ NeverBlocks'
  <2>1. \A j \in Conns : handler'[j] = "streaming" =>
          /\ handler[j] = "streaming"
          /\ chan'[j] = chan[j]
          /\ j \in subscribers[TaskOf[j[1]]] => j \in subscribers'[TaskOf[j[1]]]
    BY <1>8, TaskOfAssumption DEF Unsubscribe, HubInv, TypeOK, Conns
  <2>2. QueuedIsRest'
    <3>1. /\ UNCHANGED <<history, seen>>
          /\ \A j \in Conns : Alive(j)' <=> Alive(j)
      BY <1>8 DEF Unsubscribe, clientVars, Alive
    <3> SUFFICES ASSUME NEW j \in Conns, handler'[j] = "streaming"
                 PROVE  /\ j \in subscribers'[TaskOf[j[1]]]
                        /\ Len(chan'[j]) <= Len(history[TaskOf[j[1]]])
                        /\ \A i \in 1 .. Len(chan'[j]) : chan'[j][i]
                             = history[TaskOf[j[1]]][Len(history[TaskOf[j[1]]]) - Len(chan'[j]) + i]
                        /\ Alive(j) => seen[j[1]]
                             = Len(history[TaskOf[j[1]]]) - Len(chan'[j])
      BY <3>1 DEF QueuedIsRest
    <3> QED
      BY ZenonT(30), <2>1 DEF QueuedIsRest
  <2> QED
    BY <1>8, <2>2 DEF Unsubscribe, clientVars, SeenPublished, DoneIsClosed,
                      NeverBlocks
<1>9. ASSUME NEW c \in Clients, Refuse(c)
      PROVE  QueuedIsRest' /\ SeenPublished' /\ DoneIsClosed' /\ NeverBlocks'
  <2>1. QueuedIsRest'
    BY <1>9 DEF Refuse, hubVars, QueuedIsRest, Alive
  <2> QED
    BY <1>9, <2>1 DEF Refuse, hubVars, SeenPublished, DoneIsClosed, NeverBlocks
<1>10. CASE UNCHANGED vars
  BY <1>10, <1>1 DEF vars, QueuedIsRest, SeenPublished, DoneIsClosed, NeverBlocks,
     Alive
<1> QED
  BY <1>1, <1>2, <1>3, <1>4, <1>5, <1>6, <1>7, <1>8, <1>9, <1>10 DEF Next

(* With room for all events, every channel holds the rest throughout.      *)
LEMMA LosslessInvHolds == ASSUME Lossless PROVE Spec => []LosslessInv
<1>1. LosslessInv /\ [Next]_vars => LosslessInv'
  BY LosslessInvNext
<1> QED
  BY <1>1, LosslessInvInit, PTL DEF Spec

(* With at most as many events per task as a channel and a history hold,   *)
(* no replay ever waits while it holds the hub's mutex.                    *)
THEOREM HubNeverBlocks == ASSUME Lossless PROVE Spec => []NeverBlocks
<1>1. LosslessInv => NeverBlocks
  BY DEF LosslessInv
<1> QED
  BY <1>1, LosslessInvHolds, PTL

(* Under the same assumption every client, through any number of lost      *)
(* connections, reads the events of its task one after another.            *)
THEOREM StreamsAreGapFree == ASSUME Lossless PROVE Spec => GapFree
<1>1. ASSUME LosslessInv, [Next]_vars, NEW c \in Clients, seen'[c] /= seen[c]
      PROVE  seen'[c] = seen[c] + 1
  <2>1. PICK k \in Conns : Deliver(k)
    BY <1>1 DEF Next, vars, Publish, Subscribe, SubscribeBlocks, Refuse, Disconnect,
                ContextDone, Unsubscribe, clientVars
  <2>2. c = k[1] /\ Alive(k) /\ seen'[c] = Head(chan[k]).seq
    BY <1>1, <2>1 DEF Deliver, LosslessInv, HubInv, TypeOK, Conns
  <2> QED
    BY <1>1, <2>1, <2>2, DeliveredIsNext
<1>2. LosslessInv /\ [Next]_vars =>
        [\A c \in Clients : seen'[c] /= seen[c] => seen'[c] = seen[c] + 1]_vars
  BY <1>1
<1> QED
  BY <1>2, LosslessInvHolds, PTL DEF Spec, GapFree

-----------------------------------------------------------------------------
(* The refinement of EventStream.                                          *)
-----------------------------------------------------------------------------
(* An event is terminal or it is not.                                      *)
LEMMA TerminalIsBoolean ==
  ASSUME NEW h \in Seq(Event), NEW i \in 1 .. Len(h)
  PROVE  h[i].terminal \in BOOLEAN
<1>1. h[i] \in Event
  BY LenProperties
<1> QED
  BY <1>1 DEF Event

(* The ideal log the refinement reads off the history.                     *)
LogOf == [t \in Tasks |-> [i \in 1 .. Len(history[t]) |-> history[t][i].terminal]]

(* An empty hub is an empty stream.                                        *)
LEMMA LogInit == Init => Stream!Init
<1> SUFFICES ASSUME Init PROVE Stream!Init
  OBVIOUS
<1>1. ASSUME NEW t \in Tasks
      PROVE  [i \in 1 .. Len(history[t]) |-> history[t][i].terminal] = <<>>
  <2>1. Len(history[t]) = 0
    BY EmptySeq DEF Init
  <2>2. 1 .. Len(history[t]) = {}
    BY <2>1
  <2> QED
    BY <2>2
<1> QED
  BY <1>1 DEF Init, Stream!Init

(* A publish of the hub is a publish of the stream.                        *)
LEMMA PublishIsStreamPublish ==
  ASSUME Lossless, LosslessInv, NEW t \in Tasks, NEW terminal \in BOOLEAN,
         Publish(t, terminal)
  PROVE  Stream!Publish(t)
<1> DEFINE e == [seq |-> sequences[t] + 1, terminal |-> terminal]
           old == [i \in 1 .. Len(history[t]) |-> history[t][i].terminal]
           new == [i \in 1 .. Len(history'[t]) |-> history'[t][i].terminal]
<1>1. /\ history' = [history EXCEPT ![t] = Append(@, e)]
      /\ sequences[t] < MaxEvents
      /\ UNCHANGED <<seen, done>>
  BY PublishKeepsLosslessInv DEF Publish, clientVars
<1>2. /\ history[t] \in Seq(Event)
      /\ Len(history[t]) \in Nat
      /\ Len(history[t]) = sequences[t]
      /\ e \in Event
  <2>1. /\ history[t] \in Seq(Event)
        /\ Len(history[t]) = sequences[t]
        /\ sequences[t] \in Nat
    BY WholeHistory DEF LosslessInv
  <2>2. e \in Event
    BY <1>1, <2>1, CapAssumption DEF Event
  <2> QED
    BY <2>1, <2>2
<1>3. /\ history'[t] = Append(history[t], e)
      /\ \A u \in Tasks : u /= t => history'[u] = history[u]
  BY <1>1 DEF LosslessInv, HubInv, TypeOK
<1>4. /\ Len(history'[t]) = Len(history[t]) + 1
      /\ \A i \in 1 .. Len(history[t]) : history'[t][i] = history[t][i]
      /\ history'[t][Len(history[t]) + 1] = e
  BY <1>2, <1>3, AppendProperties
<1>5. old \in Seq(BOOLEAN) /\ Len(old) = Len(history[t])
  <2>1. \A i \in 1 .. Len(history[t]) : history[t][i].terminal \in BOOLEAN
    BY <1>2, TerminalIsBoolean
  <2> QED
    BY <2>1, <1>2
<1>6. new = Append(old, terminal)
  <2>1. /\ Append(old, terminal) \in [1 .. Len(history[t]) + 1 -> BOOLEAN]
        /\ \A i \in 1 .. Len(history[t]) : Append(old, terminal)[i] = old[i]
        /\ Append(old, terminal)[Len(history[t]) + 1] = terminal
    <3>1. /\ Append(old, terminal) \in Seq(BOOLEAN)
          /\ Len(Append(old, terminal)) = Len(history[t]) + 1
          /\ \A i \in 1 .. Len(history[t]) : Append(old, terminal)[i] = old[i]
          /\ Append(old, terminal)[Len(history[t]) + 1] = terminal
      BY <1>5, AppendProperties
    <3> QED
      BY <3>1, LenProperties
  <2>2. \A i \in 1 .. Len(history[t]) + 1 : new[i] = Append(old, terminal)[i]
    BY <2>1, <1>2, <1>4
  <2> QED
    BY <2>1, <2>2, <1>4
<1>7. LogOf' = [LogOf EXCEPT ![t] = Append(@, terminal)]
  BY <1>3, <1>6 DEF LogOf
<1>8. Len(LogOf[t]) < MaxEvents
  BY <1>1, <1>2, <1>5 DEF LogOf
<1> QED
  BY <1>1, <1>7, <1>8 DEF Stream!Publish, LogOf

(* A delivery is a read of the stream by the client.                       *)
LEMMA DeliverIsStreamRead ==
  ASSUME Lossless, LosslessInv, NEW k \in Conns, Deliver(k)
  PROVE  Stream!Read(k[1]) \/ UNCHANGED Stream!streamVars
<1> DEFINE c == k[1]
           h == history[TaskOf[c]]
           e == Head(chan[k])
<1>1. /\ c \in Clients
      /\ TaskOf[c] \in Tasks
      /\ UNCHANGED history
  BY TaskOfAssumption DEF Deliver, hubVars, Conns
<1>2. CASE ~ Alive(k)
  BY <1>1, <1>2 DEF Deliver, Stream!streamVars
<1>3. CASE Alive(k)
  <2>1. /\ e.seq = seen[c] + 1
        /\ e.seq \in 1 .. Len(h)
        /\ e = h[e.seq]
    BY <1>3, DeliveredIsNext
  <2>2. /\ h \in Seq(Event)
        /\ Len(h) \in Nat
        /\ seen[c] \in Nat
    BY <1>1, WholeHistory, CapAssumption DEF LosslessInv, HubInv, TypeOK
  <2>3. e.terminal \in BOOLEAN
    BY <2>1, <2>2, TerminalIsBoolean
  <2>4. ~ done[c]
    BY <1>1, <1>3 DEF LosslessInv, DoneIsClosed, Alive
  <2>5. /\ seen' = [seen EXCEPT ![c] = @ + 1]
        /\ done' = [done EXCEPT ![c] = e.terminal]
    BY <1>3, <2>1, <2>3, <2>4 DEF Deliver
  <2>6. /\ LogOf[TaskOf[c]] = [i \in 1 .. Len(h) |-> h[i].terminal]
        /\ LogOf' = LogOf
    BY <1>1 DEF LogOf
  <2>7. LogOf[TaskOf[c]] \in Seq(BOOLEAN) /\ Len(LogOf[TaskOf[c]]) = Len(h)
    <3>1. \A i \in 1 .. Len(h) : h[i].terminal \in BOOLEAN
      BY <2>2, TerminalIsBoolean
    <3> QED
      BY <3>1, <2>2, <2>6
  <2>8. seen[c] < Len(LogOf[TaskOf[c]])
    BY <2>1, <2>2, <2>7
  <2>9. LogOf[TaskOf[c]][seen[c] + 1] = e.terminal
    BY SMTT(30), <2>1, <2>6
  <2> QED
    BY <2>4, <2>5, <2>6, <2>8, <2>9 DEF Stream!Read, LogOf
<1> QED
  BY <1>2, <1>3

(* Every other step is invisible in the stream.                            *)
LEMMA StepIsStreamStep ==
  Lossless /\ LosslessInv /\ [Next]_vars => [Stream!Next]_(Stream!streamVars)
<1> SUFFICES ASSUME Lossless, LosslessInv, [Next]_vars
             PROVE  Stream!Next \/ UNCHANGED Stream!streamVars
  OBVIOUS
<1>1. ASSUME NEW t \in Tasks, NEW terminal \in BOOLEAN, Publish(t, terminal)
      PROVE  Stream!Next
  BY <1>1, PublishIsStreamPublish DEF Stream!Next
<1>2. ASSUME NEW k \in Conns, Deliver(k)
      PROVE  Stream!Next \/ UNCHANGED Stream!streamVars
  <2>1. k[1] \in Clients
    BY DEF Conns
  <2> QED
    BY <1>2, <2>1, DeliverIsStreamRead DEF Stream!Next
<1>3. UNCHANGED <<history, seen, done>> => UNCHANGED Stream!streamVars
  BY DEF Stream!streamVars
<1>4. ASSUME NEW c \in Clients,
             Subscribe(c) \/ SubscribeBlocks(c) \/ Refuse(c) \/ Disconnect(c)
      PROVE  UNCHANGED Stream!streamVars
  BY <1>3, <1>4 DEF Subscribe, SubscribeBlocks, Refuse, Disconnect, hubVars
<1>5. ASSUME NEW k \in Conns, ContextDone(k) \/ Unsubscribe(k)
      PROVE  UNCHANGED Stream!streamVars
  BY <1>3, <1>5 DEF ContextDone, Unsubscribe, hubVars, clientVars
<1>6. CASE UNCHANGED vars
  BY <1>3, <1>6 DEF vars
<1> QED
  BY <1>1, <1>2, <1>4, <1>5, <1>6 DEF Next

(* Under the same assumption the hub, its handlers and the reconnecting    *)
(* clients implement the ideal stream.                                     *)
THEOREM HubImplementsStream == ASSUME Lossless PROVE Spec => RefinesStream
<1>1. LosslessInv /\ [Next]_vars => [Stream!Next]_(Stream!streamVars)
  BY StepIsStreamStep
<1> QED
  BY <1>1, LogInit, LosslessInvHolds, PTL DEF Spec, RefinesStream, Stream!Spec
=============================================================================
