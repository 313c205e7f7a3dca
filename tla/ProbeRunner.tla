---------------------------- MODULE ProbeRunner -----------------------------
(***************************************************************************)
(* GuardedProbeRunner of internal/network/probe.go: calls of Run are       *)
(* checked, wait for one of a fixed number of slots or for the end of      *)
(* their context, and give the slot back however the probe ends.           *)
(*                                                                         *)
(* The slots are the buffer of the channel sem.  A call that finds the     *)
(* buffer full waits in the channel's queue, and the call that receives    *)
(* from the channel moves the first waiting one into the buffer.           *)
(*                                                                         *)
(* The executor is external (the repository has only the fake of a test):  *)
(* it answers, fails or panics at any time, and either returns when its    *)
(* context ends or may not.  The server builds a runner that is disabled.  *)
(***************************************************************************)
EXTENDS Integers, FiniteSets, SequencesExt

CONSTANTS
  Callers,        \* goroutines that call Run
  Concurrencies,  \* concurrency arguments of NewGuardedProbeRunner
  Allowed,        \* the allowed targets
  Hosts,          \* hosts of actions
  InvalidHosts,   \* local addresses and what is no DNS name
  Ports,          \* ports of actions
  Timeouts,       \* timeouts of actions, in seconds
  MaxCalls        \* bound: calls of one goroutine

ASSUME RunnerAssumption ==
  IsFiniteSet(Callers) /\ Concurrencies \subseteq Int /\ MaxCalls \in Nat

VARIABLES
  enabled,   \* the runner is enabled
  capacity,  \* capacity of the channel sem
  executor,  \* "none", or what it does at the end of its context
  sem,       \* tokens in the channel
  queue,     \* calls that wait to send to the channel, in order
  pc,        \* per goroutine: where its call stands
  ended,     \* goroutines whose own context has ended
  expired,   \* goroutines whose probe has used up its timeout
  calls      \* per goroutine: calls so far

config == <<enabled, capacity, executor>>
vars == <<enabled, capacity, executor, sem, queue, pc, ended, expired, calls>>

Kinds == {"DNS", "TCP", "HTTP"}
Action == [kind : Kinds \union {"SHELL"}, host : Hosts, port : Ports,
           path : {"", "/healthz", "healthz"}, timeout : Timeouts]

Init ==
  /\ enabled \in BOOLEAN
  /\ \E n \in Concurrencies : capacity = IF n < 1 THEN 1 ELSE n
  /\ executor \in {"none", "returns", "hangs"}
  /\ sem = 0
  /\ queue = <<>>
  /\ pc = [c \in Callers |-> "idle"]
  /\ ended = {}
  /\ expired = {}
  /\ calls = [c \in Callers |-> 0]

Goto(c, place) == pc' = [pc EXCEPT ![c] = place]

(* Loopback, unspecified, multicast and link-local addresses, localhost and*)
(* names with anything but letters, digits and hyphens in their labels are *)
(* refused although they may be in the list of allowed targets.            *)
ValidProbeHost(host) == host \notin InvalidHosts

(* The checks before the select, each with an error of its own.            *)
Permitted(action) ==
  /\ action.kind \in Kinds
  /\ ValidProbeHost(action.host)
  /\ action.host \in Allowed
  /\ action.kind # "DNS" => action.port \in 1 .. 65535
  /\ action.kind = "HTTP" => action.path # "healthz"
  /\ action.timeout > 0 /\ action.timeout <= 10

Call(c, action) ==
  /\ pc[c] = "idle"
  /\ calls[c] < MaxCalls
  /\ calls' = [calls EXCEPT ![c] = @ + 1]
  /\ Goto(c, IF enabled /\ Permitted(action) THEN "select" ELSE "idle")
  /\ UNCHANGED <<config, sem, queue, ended, expired>>

(* The select: a free slot is taken, an ended context is noticed, either   *)
(* of them when both are there, and otherwise the call waits for one.      *)
Select(c) ==
  /\ pc[c] = "select"
  /\ \/ /\ sem < capacity
        /\ sem' = sem + 1
        /\ Goto(c, "slot")
        /\ UNCHANGED queue
     \/ /\ c \in ended
        /\ Goto(c, "return")
        /\ UNCHANGED <<sem, queue>>
     \/ /\ sem = capacity /\ c \notin ended
        /\ queue' = Append(queue, c)
        /\ Goto(c, "queue")
        /\ UNCHANGED sem
  /\ UNCHANGED <<config, ended, expired, calls>>

(* A call that waits leaves the queue when its context ends.               *)
GiveUp(c) ==
  /\ pc[c] = "queue"
  /\ c \in ended
  /\ \E i \in DOMAIN queue : queue[i] = c /\ queue' = RemoveAt(queue, i)
  /\ Goto(c, "return")
  /\ UNCHANGED <<config, sem, ended, expired, calls>>

(* With the slot: the executor is called under the timeout, or there is    *)
(* none; either way the deferred function is due.                          *)
BeginReturnsEarly(c) ==
  /\ pc[c] = "slot"
  /\ Goto(c, IF executor = "none" THEN "return" ELSE "probe")
  /\ UNCHANGED <<config, sem, queue, ended, expired, calls>>

Begin(c) ==
  /\ pc[c] = "slot"
  /\ Goto(c, IF executor = "none" THEN "defer" ELSE "probe")
  /\ UNCHANGED <<config, sem, queue, ended, expired, calls>>

(* The executor answers, fails or panics.                                  *)
Execute(c) ==
  /\ pc[c] = "probe"
  /\ Goto(c, "defer")
  /\ UNCHANGED <<config, sem, queue, ended, expired, calls>>

(* The deferred receive from the channel, which lets the first waiting     *)
(* call send.                                                              *)
ReleaseForgetsQueue(c) ==
  /\ pc[c] = "defer"
  /\ sem' = sem - 1
  /\ Goto(c, "return")
  /\ UNCHANGED <<config, queue, ended, expired, calls>>

Release(c) ==
  /\ pc[c] = "defer"
  /\ IF queue = <<>>
     THEN sem' = sem - 1 /\ Goto(c, "return") /\ UNCHANGED queue
     ELSE /\ queue' = Tail(queue)
          /\ pc' = [pc EXCEPT ![c] = "return", ![Head(queue)] = "slot"]
          /\ UNCHANGED sem
  /\ UNCHANGED <<config, ended, expired, calls>>

(* Back in the caller, which may call again with a new context.            *)
Return(c) ==
  /\ pc[c] = "return"
  /\ Goto(c, "idle")
  /\ ended' = ended \ {c}
  /\ expired' = expired \ {c}
  /\ UNCHANGED <<config, sem, queue, calls>>

(* The caller's context ends; the timeout of its probe runs out.           *)
ContextEnds(c) ==
  /\ pc[c] # "idle"
  /\ ended' = ended \union {c}
  /\ UNCHANGED <<config, sem, queue, pc, expired, calls>>

TimeoutEnds(c) ==
  /\ pc[c] = "probe"
  /\ expired' = expired \union {c}
  /\ UNCHANGED <<config, sem, queue, pc, ended, calls>>

Next ==
  \E c \in Callers :
    \/ \E action \in Action : Call(c, action)
    \/ Select(c) \/ GiveUp(c) \/ Begin(c) \/ Execute(c) \/ Release(c) \/ Return(c)
    \/ ContextEnds(c) \/ TimeoutEnds(c)

(* A goroutine that can move is scheduled, timers run, and an executor     *)
(* that honours its context returns when the context has ended.            *)
Fairness ==
  \A c \in Callers :
    /\ WF_vars(Select(c) \/ GiveUp(c) \/ Begin(c) \/ Release(c) \/ Return(c))
    /\ WF_vars(TimeoutEnds(c))
    /\ WF_vars(executor = "returns" /\ c \in expired \union ended /\ Execute(c))

Spec == Init /\ [][Next]_vars
FairSpec == Spec /\ Fairness

-----------------------------------------------------------------------------
(* The variables keep their types.                                         *)
Places == {"idle", "select", "queue", "slot", "probe", "defer", "return"}
TypeOK ==
  /\ enabled \in BOOLEAN
  /\ capacity \in Nat \ {0}
  /\ executor \in {"none", "returns", "hangs"}
  /\ sem \in Nat
  /\ queue \in Seq(Callers)
  /\ pc \in [Callers -> Places]
  /\ ended \subseteq Callers
  /\ expired \subseteq Callers
  /\ calls \in [Callers -> 0 .. MaxCalls]

(* No path of a call loses or doubles a slot: the tokens in the channel    *)
(* are those of the calls that hold one, no more than the limit execute,   *)
(* the queue holds exactly the calls that wait, and none of them waits     *)
(* while a slot is free.                                                   *)
Holders == {c \in Callers : pc[c] \in {"slot", "probe", "defer"}}
SlotsAreHeld ==
  /\ sem = Cardinality(Holders)
  /\ sem <= capacity
  /\ IsInjective(queue)
  /\ Range(queue) = {c \in Callers : pc[c] = "queue"}
  /\ queue # <<>> => sem = capacity

(* If the executor honours contexts, every call returns, with a context    *)
(* that never ends and any number of calls before it in the queue.  And a  *)
(* call whose context ends before it has a slot returns without one or     *)
(* gets one, even when every slot is held by a probe that never ends.      *)
EveryCallReturns ==
  \A c \in Callers :
    /\ (executor # "hangs" /\ pc[c] # "idle") ~> pc[c] = "idle"
    /\ (pc[c] \in {"select", "queue"} /\ c \in ended) ~> pc[c] \in {"idle", "slot"}
=============================================================================
