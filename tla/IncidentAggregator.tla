------------------------- MODULE IncidentAggregator -------------------------
(***************************************************************************)
(* DefaultAggregator of internal/incident/aggregator.go: the findings of   *)
(* one namespace with one symptom are split into incidents wherever more   *)
(* than a window passes without a finding.                                 *)
(*                                                                         *)
(* Abstracted: a finding is its resource, its symptom ("availability", or  *)
(* its code), the rank of its severity and its time; it stands for its own *)
(* ID.  Titles are "outage" or not; a severity P3 .. P0 is 1 .. 4.         *)
(***************************************************************************)
EXTENDS Integers, FiniteSets, SequencesExt

CONSTANTS
  Window,       \* DefaultAggregator.Window, in units of time
  NamespaceOf,  \* the namespace of each resource
  Pods          \* the resources that are Pods

KeyOf(finding) == <<NamespaceOf[finding.resource], finding.symptom>>

(* The sort; findings of one time come in an order of their own.           *)
ByTime(findings) ==
  CHOOSE order \in [1 .. Cardinality(findings) -> findings] :
    \A i, j \in DOMAIN order : i < j => order[i] # order[j] /\ order[i].at <= order[j].at

LastTime(group) == group[Len(group)].at

SplitFromFirst(items) ==
  FoldLeft(LAMBDA groups, f :
             IF groups = <<>> \/ f.at - Last(groups)[1].at > Window
             THEN Append(groups, <<f>>)
             ELSE Append(Front(groups), Append(Last(groups), f)),
           <<>>, items)

SplitByWindow(items) ==
  FoldLeft(LAMBDA groups, f :
             IF groups = <<>> \/ f.at - LastTime(Last(groups)) > Window
             THEN Append(groups, <<f>>)
             ELSE Append(Front(groups), Append(Last(groups), f)),
           <<>>, items)

LatestSeverity(group) == group[Len(group)].severity

HighestSeverity(group) == Max({f.severity : f \in Range(group)} \union {1})

(* The title that a Service has no healthy backend: two findings, of one   *)
(* Pod or of several, and one Pod that a Service selects.                  *)
IsServiceAvailability(group, selected) ==
  /\ Len(group) >= 2
  /\ \E f \in Range(group) : f.resource \in Pods \intersect selected

SignalsAroundEnd(group, signals) ==
  {s.id : s \in {q \in signals :
                   /\ \E f \in Range(group) : f.resource = q.resource
                   /\ q.last >= group[1].at
                   /\ q.last - LastTime(group) <= Window}}

SignalIds(group, signals) ==
  {s.id : s \in {q \in signals :
                   /\ \E f \in Range(group) : f.resource = q.resource
                   /\ q.last - group[1].at <= Window}}

IncidentOf(id, group, signals, selected) ==
  [id       |-> id,
   findings |-> Range(group),
   started  |-> group[1].at,
   updated  |-> LastTime(group),
   severity |-> HighestSeverity(group),
   signals  |-> SignalIds(group, signals),
   outage   |-> IsServiceAvailability(group, selected)]

(* Aggregate over one key, and over all of them.  The number in an ID      *)
(* counts the incidents of its key from the earliest.                      *)
IncidentsOf(key, findings, signals, selected) ==
  LET groups == SplitByWindow(ByTime({f \in findings : KeyOf(f) = key}))
  IN  {IncidentOf(<<key, n>>, groups[n], signals, selected) : n \in DOMAIN groups}

Aggregate(findings, signals, selected) ==
  UNION {IncidentsOf(key, findings, signals, selected) :
           key \in {KeyOf(f) : f \in findings}}
=============================================================================
