---------------------------- MODULE IncidentFlow ----------------------------
(***************************************************************************)
(* From Events and findings to Signals, Evidence and Incidents:            *)
(* NormalizeEvent and SignalAccumulator of internal/incident/normalizer.go,*)
(* the Store of internal/evidence/store.go and the aggregator.             *)
(*                                                                         *)
(* Events, rule results and findings arrive in any order, with any times,  *)
(* and repeatedly: an Event is updated while its series goes on, and every *)
(* new list of the Kubernetes API delivers it again.                       *)
(*                                                                         *)
(* Nothing outside the tests calls these packages at this commit.  What    *)
(* puts them together here is the data flow of docs/architecture: an Event *)
(* becomes a Signal and evidence with the Signal's fingerprint as its      *)
(* source and an ID of its own; a rule gives evidence as rules.go does,    *)
(* with an ID that is the same for all resources.                          *)
(*                                                                         *)
(* Abstracted: there is one reason and one rule; a fingerprint is the pair *)
(* of a resource and a normalised message.                                 *)
(***************************************************************************)
EXTENDS IncidentAggregator, Bags

CONSTANTS
  Resources,     \* resource UIDs
  Messages,      \* messages of Events
  Normalized,    \* NormalizeMessage: Messages -> normalised messages
  Symptoms,      \* symptoms of findings
  Severities,    \* ranks of severities of findings
  MaxTime,       \* bound: times of Events, evidence and findings
  MaxInputs      \* bound: Events, rule results and findings

ASSUME FlowAssumption ==
  /\ Window \in Nat /\ MaxTime \in Nat /\ MaxInputs \in Nat
  /\ Pods \subseteq Resources /\ Severities \subseteq Nat

VARIABLES
  seen,      \* the bag of Events delivered so far
  signals,   \* SignalAccumulator.byFingerprint
  items,     \* evidence.Store.items: the evidence of each ID
  dedup,     \* evidence.Store.dedup: the ID of each source
  findings,  \* the findings so far
  selected,  \* the Pods that the topology's Services select
  inputs     \* Events, rule results and findings so far

vars == <<seen, signals, items, dedup, findings, selected, inputs>>

Times == 0 .. MaxTime
Fingerprints == Resources \X {Normalized[m] : m \in Messages}
FingerprintOf(e) == <<e.resource, Normalized[e.message]>>

(* A series of Events has one occurrence in each unit of time.             *)
Event == {[resource |-> r, message |-> m, first |-> f, last |-> l, count |-> l - f + 1] :
            r \in Resources, m \in Messages, f \in Times, l \in Times}
Events == {e \in Event : e.first <= e.last}
Finding == [resource : Resources, symptom : Symptoms, severity : Severities, at : Times]

RuleId == 0
RuleSource(r) == <<r>>

Init ==
  /\ seen = EmptyBag
  /\ signals = <<>>
  /\ items = <<>>
  /\ dedup = <<>>
  /\ findings = {}
  /\ selected \in SUBSET Pods
  /\ inputs = 0

(* An assignment to one key of a map.                                      *)
Put(map, key, value) ==
  [k \in DOMAIN map \union {key} |-> IF k = key THEN value ELSE map[k]]

(* NormalizeEvent.  Two fingerprints of a resource and a reason have one ID.*)
NormalizeEvent(e) ==
  [id |-> e.resource, resource |-> e.resource, message |-> e.message,
   first |-> e.first, last |-> e.last, count |-> e.count]

(* SignalAccumulator.Add: what a signal becomes when it is seen again.     *)
MergeCountsOnce(old, new) ==
  [old EXCEPT !.first = IF new.first < @ THEN new.first ELSE @,
              !.last = IF new.last > @ THEN new.last ELSE @,
              !.message = IF new.last > old.last THEN new.message ELSE @,
              !.count = IF new.count > @ THEN new.count ELSE @]

Merge(old, new) ==
  [old EXCEPT !.first = IF new.first < @ THEN new.first ELSE @,
              !.last = IF new.last > @ THEN new.last ELSE @,
              !.message = IF new.last > old.last THEN new.message ELSE @,
              !.count = @ + new.count]

AddSignal(fp, signal) ==
  signals' = Put(signals, fp, IF fp \in DOMAIN signals
                              THEN Merge(signals[fp], signal)
                              ELSE signal)

(* Store.Add: a known source only makes its evidence fresher.              *)
AddEvidenceByTime(id, source, at) ==
  LET item == [source |-> source, at |-> at]
      known == source \in DOMAIN dedup /\ items[dedup[source]].at >= at
  IN  /\ items' = IF known THEN items ELSE Put(items, id, item)
      /\ dedup' = IF known THEN dedup ELSE Put(dedup, source, id)

AddEvidence(id, source, at) ==
  IF source \in DOMAIN dedup
  THEN /\ items' = [items EXCEPT ![dedup[source]].at = IF at > @ THEN at ELSE @]
       /\ UNCHANGED dedup
  ELSE /\ items' = Put(items, id, [source |-> source, at |-> at])
       /\ dedup' = Put(dedup, source, id)

-----------------------------------------------------------------------------
Input == inputs < MaxInputs /\ inputs' = inputs + 1

Sight(e) ==
  /\ Input
  /\ seen' = seen (+) SetToBag({e})
  /\ AddSignal(FingerprintOf(e), NormalizeEvent(e))
  /\ AddEvidence(inputs', FingerprintOf(e), e.last)
  /\ UNCHANGED <<findings, selected>>

Judge(r, at) ==
  /\ Input
  /\ AddEvidence(RuleId, RuleSource(r), at)
  /\ UNCHANGED <<seen, signals, findings, selected>>

Find(f) ==
  /\ Input
  /\ findings' = findings \union {f}
  /\ UNCHANGED <<seen, signals, items, dedup, selected>>

Next ==
  \/ \E e \in Events : Sight(e)
  \/ \E r \in Resources, at \in Times : Judge(r, at)
  \/ \E f \in Finding : Find(f)

Spec == Init /\ [][Next]_vars

Incidents == Aggregate(findings, Range(signals), selected)

-----------------------------------------------------------------------------
(* However often and in whatever order the Events of a series arrive, its  *)
(* Signal spans them all, carries the message of a latest one, and counts  *)
(* every delivery in full: an Event that is delivered again or updated is  *)
(* counted again with all its earlier occurrences, so the count is never   *)
(* below the true one.                                                     *)
SightingsOf(fp) == {e \in DOMAIN seen : FingerprintOf(e) = fp}
SignalsAddUp ==
  \A fp \in Fingerprints :
    LET own == SightingsOf(fp) IN
      IF own = {}
      THEN fp \notin DOMAIN signals
      ELSE LET s == signals[fp] IN
             /\ s.first = Min({e.first : e \in own})
             /\ s.last = Max({e.last : e \in own})
             /\ \E e \in own : e.last = s.last /\ e.message = s.message
             /\ s.count = MapThenSumSet(LAMBDA e : e.count * seen[e], own)

(* Evidence is counted once for each source, however often it is seen, and *)
(* is as fresh as its Signal, in any order of arrival.  A source that asks *)
(* again is answered with its own evidence: only the resources of one rule,*)
(* whose evidence has one ID, may be answered with each other's.           *)
EvidenceCountsOnce ==
  /\ \A fp \in DOMAIN signals :
       /\ Cardinality({id \in DOMAIN items : items[id].source = fp}) = 1
       /\ items[dedup[fp]] = [source |-> fp, at |-> signals[fp].last]
  /\ \A r \in Resources :
       RuleSource(r) \in DOMAIN dedup =>
         \E other \in Resources : items[RuleId].source = RuleSource(other)

(* Two findings are in one incident exactly when they have one key and a   *)
(* chain of findings joins them whose steps are no longer than the window: *)
(* no incident is cut where findings go on, and none spans a quiet window. *)
Near(f, g) == KeyOf(f) = KeyOf(g) /\ f.at - g.at \in -Window .. Window
Chain(f) == LET reach[n \in Nat] ==
                  IF n = 0 THEN {f}
                  ELSE {g \in findings : \E h \in reach[n - 1] : Near(g, h)}
            IN  reach[Cardinality(findings)]
IncidentsAreChains ==
  LET incidents == Incidents IN
    /\ {i.findings : i \in incidents} = {Chain(f) : f \in findings}
    /\ \A i, j \in incidents : i.id = j.id => i = j

(* While findings arrive in the order of their times, an incident keeps    *)
(* its ID and its start, only gains findings and severity, and stays an    *)
(* outage.  A late finding renumbers the incidents behind it.              *)
IncidentsOnlyGrow ==
  [][(\A f \in findings' \ findings, g \in findings :
        KeyOf(f) = KeyOf(g) => g.at <= f.at)
     => LET later == Incidents' IN
        \A i \in Incidents : \E j \in later :
          /\ j.id = i.id /\ j.started = i.started
          /\ i.findings \subseteq j.findings
          /\ i.severity <= j.severity
          /\ i.outage => j.outage]_<<findings, selected>>

(* What an incident lists changes only for a cause.  A Signal leaves it     *)
(* when a late finding makes the incident start earlier, or when its Event *)
(* is delivered again with a last time that lies more than the window      *)
(* after the start: the repetition of an alert takes it off its incident.  *)
(* A Signal comes in with the first Event of its fingerprint or with a     *)
(* finding of a resource new to the incident, and never by waiting or by   *)
(* being seen once more.                                                   *)
TooLate(e, i) == seen' = seen (+) SetToBag({e}) /\ e.last - i.started > Window
IsNew(fp) == fp \in DOMAIN signals' /\ fp \notin DOMAIN signals
SignalsChangeForCause ==
  [][LET later == Incidents' IN
     \A i \in Incidents : \E j \in later :
       /\ i.findings \subseteq j.findings
       /\ \A id \in i.signals : id \notin j.signals =>
            \/ j.started < i.started
            \/ \E e \in Events : e.resource = id /\ TooLate(e, j)
       /\ \A id \in j.signals : id \notin i.signals =>
            \/ \A f \in i.findings : f.resource # id
            \/ \E fp \in Fingerprints : fp[1] = id /\ IsNew(fp)]_<<findings, signals>>
=============================================================================
