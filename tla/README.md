# A verification of KDiag in TLA+

KDiag is a read-only diagnosis console for Kubernetes. An API server follows
the cluster through informers, runs rule-based diagnoses of resources and of
network paths in background goroutines, streams their progress to browsers over
Server-Sent Events, and stores tasks and incidents in memory or in PostgreSQL.
This directory holds TLA+ models of its stateful core, the TLC configurations
that check them, and TLAPS proofs of the properties that matter most.
`PROJECT.json` lists the runs, the defective variants that show each property
can fail, the correspondence of every definition to its source lines, the
hazards, the findings and the theorems.

## 1. Inventory

### Components, their state and operations

| Component | State | Operations |
|---|---|---|
| Event hub (`internal/api/hub.go`) | per task: sequence number, last 256 events, set of subscriber channels (64 slots each); one mutex | `publish`, `subscribe` with replay after a number, `unsubscribe` |
| SSE handler (`diagnosisEvents` in `internal/api/server.go`), `EventSource` in `web/src/api.ts` | one goroutine and channel per connection; the browser's Last-Event-ID | forward one event, end on a terminal event or a lost connection, reconnect |
| Diagnosis service (`internal/api/server.go`, `internal/diagnosis/engine.go`) | the `cancels` table; per task a goroutine with its own copy of the task and a two-minute context | create (resource or network), cancel, replay; rule loop; report; incident; final save |
| Repository (`internal/repository`) | tasks, incidents, resources, in maps or tables | save, get, list, search |
| Topology graph (`internal/topology/graph.go`) | nodes, outgoing and incoming edges, one lock | upsert, remove, replace edges, direct edges, neighbourhood |
| Collector (`internal/collector/kubernetes.go`) | an informer per kind, one channel of 4096 changes | list and watch, `emit` |
| Inventory (`internal/inventory/inventory.go`) | resources by UID, connection status, access report | review of permissions, apply a change, list with filters and paging, get, summaries |
| Observation provider (`internal/diagnosis/observation.go`) | none | read the inventory page by page; observations; topology view |
| Rules, engine DAG, reports (`internal/rules`, `internal/diagnosis`) | none | evaluate, order by dependencies, build a report |
| Network analyzer and probes (`internal/network`) | the probe semaphore | analyse a path, run a guarded probe |
| Evidence store, incident normalizer and aggregator (`internal/evidence`, `internal/incident`) | items and source identities; signals by fingerprint | add, normalise, aggregate |
| Clients (`web/src/pages`, `cmd/kdiag`, `pkg/client`) | the view of the diagnosis pages and the query cache; the CLI's polled task | merge events and polled rows, wait for an end |

At this commit the topology graph, the evidence store, the incident aggregator
and the guarded probe runner are built and tested but not wired into the
server; the server answers topology questions from the inventory.

### How they interact

* A browser or the CLI posts a diagnosis. The handler stores a PENDING row,
  registers a cancel function under `Server.mu`, starts a goroutine and answers
  202. The goroutine publishes to the hub (a call under the hub's mutex), reads
  the inventory (calls under its read lock) and finally writes the repository.
* The browser opens an SSE stream. The hub replays the history into a new
  channel and then the publisher and the handler share that channel.
* `DELETE` looks the cancel function up under the mutex and calls it after the
  unlock. The engine looks at its context between two rules.
* Informer listeners (one goroutine per kind) share the collector's channel.
  One goroutine of the manager takes changes from it and applies them to the
  store, while `Manager.Run` waits for the informers to sync.

### What is hard

Two goroutines, two stores and a stream describe the same task and are written
one after another; a cancellation, a deadline, a failing save or the end of the
process may fall between any two writes. The hub mixes sends that wait and
sends that do not with one mutex. Connections are lost with events in flight.
The inventory relies on the order of an unversioned channel. A diagnosis reads
it page by page while it changes. Selection, readiness and ports of a Service
are computed twice, and what a report says is spread over fields that separate
loops fill. Permissions are reviewed once, and may change at any time after.
Events arrive again, updated and out of order, and incidents are cut from them
by time. A probe waits for a slot, its context or a timeout, and must give the
slot back on every path. `PROJECT.json` lists each such place as a hazard with
its line and the properties that cover it.

### What makes each component correct

* Hub and stream: what is kept is the latest part of the log; nobody sends on a
  closed channel; a client reads the log in order, without gap or repetition,
  to its terminal event; lost connections leave; the mutex is never held for ever.
* Diagnosis service: one announced end, equal to the stored one; a report
  exactly when completed; an incident for every confirmed issue that could be
  saved, and for no other; a final row is final; a task is cancellable exactly
  while it runs; it stops at the rule boundary; it always ends and its result is
  stored. In short, each task leads one life (`TaskLife`).
* Topology graph: the two copies of an edge agree; no edge outlives an end; a
  neighbourhood is a graph and contains what is within the depth.
* Inventory synchronisation: the store lags behind the informers but never
  contradicts or precedes them; it never goes back; it catches up; a kind that
  is missing is reported as missing.
* Inventory reads: a scan ends, misses no more than what moved past it, and the
  topology view of a store at rest is exactly what is within the depth.
* Network analysis: the whole path is accounted for, nothing is found behind a
  block, the root cause is the last broken link, report and hypothesis agree,
  and the rules read the same objects in the same way.
* Rules and reports: what is confirmed is there, missing data is never healthy,
  the report covers the rules of the kind, and agrees with the inventory's state.
* Clients: what a client ends up with is what is stored, whatever the order of
  rows and events; whoever waits hears of the end.
* Evidence and incidents: a signal adds its Events up in any order; the evidence
  of one source counts once; an incident is a chain of findings within the
  window, only grows while findings arrive in order, and keeps a signal unless
  there is a cause to drop it.
* Probe runner: every slot is held by one call and given back by it, nobody
  waits while one is free, and every call returns.

## 2. Modules

| Module | Models | Depends on |
|---|---|---|
| `EventStream` | the promise of the hub: a log per task, a cursor per client | |
| `EventHub` | hub, SSE handlers, reconnecting clients | `EventStream` (refinement) |
| `TaskLife` | the promise of the service: the life of one task | |
| `DiagnosisService` | handlers, goroutines, rows, incidents, crashes | `TaskLife` (refinement) |
| `DiagnosisClients` | diagnosis pages with their query cache and stream, waiting CLI | `DiagnosisService` |
| `TopologyGraph` | the graph and its readers | |
| `InventorySync` | review of permissions, informers, channel, apply loop, status | |
| `InventoryScan` | the paged scan of a moving store, filtered or not, the topology view | |
| `ClusterObjects` | the objects around a Service and the two readings of them | |
| `NetworkAnalysis` | the steps of `Analyze`, hypothesis and report | `ClusterObjects` |
| `ServiceDiagnoses` | the analysis on what `BuildNetwork` makes of the inventory | `NetworkAnalysis` |
| `InventoryState` | the state the inventory gives to a resource, for every kind | `ClusterObjects` |
| `RuleDiagnosis` | observation, rule loop and report of a resource diagnosis | `InventoryState` |
| `IncidentAggregator` | the incidents made of a set of findings | |
| `IncidentFlow` | signals, evidence and incidents while Events and findings arrive | `IncidentAggregator` |
| `ProbeRunner` | the guarded runner of network probes | |
| `MC...` | values for TLC | the module they check |
| `..._proofs` | theorems | the module they prove |

Where a definition is preceded by one that resembles it
(`UnsubscribeOnlyCloses` before `Unsubscribe`), the first is the operation with
a plausible defect. It is no part of the specification. Putting it in place of
the real one makes the property it is listed with in `PROJECT.json` fail.

### EventHub

`sequences`, `history` and `subscribers` are the three maps of `eventHub`;
`hubLock` names the connection whose replay waits with the mutex held, or
`Free`. Every hub operation that does not wait is one action, since it holds
the mutex from its first to its last line. `subscribe` is two actions,
`Subscribe` when the replay fits the channel and `SubscribeBlocks` when it does
not: nobody reads the channel before `subscribe` has returned, so the send
waits for ever. `Deliver` and `ContextDone` are the two branches of the
handler's `select`; a handler whose connection is lost may take either.
`Deliver` writes and flushes one event; to a client still connected this
arrives, and a terminal one makes the page close its `EventSource` and the
handler return. `Unsubscribe` is the deferred call. A client reconnects with
the number of the last event it has read. Before it subscribes, `diagnosisEvents`
reads the task and answers 404 to any error; `GetTask` of PostgreSQL says "not
found" of every read that fails. `Refuse` is this answer, at the first connection
or a later one. An `EventSource` takes it for final: the client is `refused` and
opens no other connection. An event's payload is abstracted to
whether its type ends the stream; which task publishes what is left open, so
the hub's properties hold for any publisher.

`EventStream` knows no channels, connections or history. `EventHub` implements
it when `MaxEvents` is at most the channel's and the history's capacity: `log`
is the history's terminal flags and `cursor` is `seen`. A task of the program
publishes at most 34 events (a Pod has 8 rules, each with 4 events, and a start
and an end) or 33 (a network path has 10 steps with 3 events each), so a task
satisfies this with 64 and 256. The catalogue is what keeps it true: 16 rules
for one kind would not.

### DiagnosisService

`pc` says where the handler or goroutine of a task stands. A task lives in
three places: `mem` is the goroutine's copy, `events` the hub's history, `rows`
the repository. `cancels` is the table of cancel functions, `cancelling` the
`DELETE` handlers between lookup and call, `ctx` the task's context. Each
action ends where another goroutine can see the difference: a publication, a
save, a check of the context, a registration. `Create` ends with the first
save, which fails the request when it fails. `Check` is the engine's `select`.
The events of one rule are one event "step". What a rule finds, how many rules
apply (0 to `MaxRules`) and what the report concludes are free choices, except
that a confirmed resource verdict needs a rule that was evaluated. `late`
counts steps made after the end of the context and `lost` the tasks whose last
save failed; both only record, no action reads them.

`SaveTask` of PostgreSQL may fail, and a failed call may have stored the row
(an answer lost). Which repository runs, `postgres`, is chosen in `Init` and
never changes. `SaveIncident` of PostgreSQL may fail as well, and independently of
`SaveTask`: it is another call, after or before which the database may be gone,
and its table requires a row of the table `clusters` that nothing in the program
writes (see Findings). `incidents` says of each task whether its incident was
saved or refused, so that `IncidentMatchesTask` covers both saves, either saved
or failed, in the order of a resource diagnosis and in that of a network
diagnosis, with the end of the process between them. A replay of an incident
without the resource it needs is refused and changes nothing. `MaxSteps` bounds
the steps of a network path as `MaxRules` does the rules of a kind. `Crash` is
the end of the process by a signal, a panic or a shutdown, followed by a start:
goroutines, hub and cancel functions are gone, in-memory rows too.

`TaskLife` knows four things of a task: that it was accepted, that it is open,
the end that was announced and the result that is stored. `DiagnosisService`
implements it with `pc` for "open", the last event of `events` for "said" and
`rows` for "stored". A deadline, which is announced twice, and a completed
result that is stored before or after its announcement are the liberties the
code needs, and `TaskLife` names them.

### DiagnosisClients

A page has a `view` of the task and two sources for it: `data`, the row its
query cache holds, with an answer under way in `flight`, and the event stream,
of which it has read `got`. Every visit (after the POST, by loading the URL, by
coming back while the cache lives) replays the stream from its start. `Answer`
caches a row and sets the view only when the row differs from the cached one,
which is what structural sharing in the query library and the effect on
`savedTask.data` amount to. `ReduceEvent` is `reduceEvent` of both pages;
`CompletedTask` is the task inside the completion event, which has its report
for network diagnoses only. `PollDue` is `refetchInterval`. The stream is the
lossless one that `EventHub` implements for the program's numbers of events,
and a connection that drops resumes where it was, so neither shows here. What
shows is a connection that is refused, the first one or a later one
(`StreamRefused`): the page keeps what it has read, its polls go on, and nothing
tells it. The command line is one action: the poll that ends `waitTask`'s loop.

### TopologyGraph

`outgoing` and `incoming` are total functions with `None` for an absent entry,
so that a missing inner map and an empty one are the same, as they are to every
reader of the Go maps. A node is its key. `Walk` is the loop of `Neighborhood`
as a recursive function on the level.

### InventorySync

A version number stands for an object's state, so that "older" has a meaning
although the code compares nothing. `seen` is the informer's cache, `pending`
the notifications its listener has yet to hand to `emit`, `changes` the shared
channel, `hand` the change the loop has received and not applied. `Receive` and
`Apply` are two actions because the channel has room again before the store has
changed. The cluster and client-go are the environment: an informer lists once
and then moves forward, possibly over several versions after a broken watch; it
delivers a deletion of what it has held. Objects of one first list are
independent of each other, and their order is fixed.

The cache of an informer is keyed by namespace and name (`NameOf`), the store by
UID, which is what an object is here. When an object is deleted and another one
created under its name, a watch tells of both. A list after a broken watch
(`Relist`) does not: client-go replaces one by the other in its cache and calls
`OnUpdate(old, new)`, and the handler (`kubernetes.go:98`) drops `old`. Nobody
then tells the store that the first UID is gone. `replaced` are these objects;
the properties say what becomes of them.

`granted` is what the API server allows at this moment and `access` the report
of `checkAccess`, which `NewAuto` obtains once, before it makes informers for
the kinds in `Followed`: those it may list and watch, or all when the review
itself failed. `Grant` is the administrator changing his mind later. A revoked
informer neither lists nor watches, and keeps what it has; a kind granted later
is not followed, as in the code.

### InventoryScan

An object is its place in the order of namespace, kind and name, which breaks
ties of severity. `Page` is one turn of the loop in `all()`: it cuts a page
from the store sorted as it is at that moment and ends as the code ends.
`Apply` is what the manager's loop may do between two pages: one object
appears, vanishes or changes severity, and with it perhaps one whose summary
is computed from it. `items` is what the diagnosis then works on; `View` is the
breadth-first walk of `Topology` over the edges that `topologyEdges` finds,
from owners and names among the scanned items and from the relations that came
with an item. `query` is the filter of `List`: by the state, which moves, or by
what does not (kind, namespace, labels); a diagnosis scans without, the lists of
the console with one. `steady` and `moves` only record.

### ClusterObjects, NetworkAnalysis, ServiceDiagnoses

`ClusterObjects` is pure: `ServiceObservation` is what the rules see of a
Service, `BuildNetwork` what the path analysis sees, from the same Pods,
EndpointSlices and NetworkPolicies. `NetworkAnalysis` has one action per step
of the path, in the order of the code, `Fails` for its early returns, and
`Report` for the two loops that draw hypothesis and report from the steps.
`ServiceDiagnoses` starts it on the snapshot of a cluster, so that the two
readings can be compared, and on snapshots no cluster gives, because `Analyze`
takes any: `BuildNetwork` never sets that a policy denies.

### RuleDiagnosis

`Catalog` is the table of the thirteen rules: each reads one fact and matches
at one value. `Build` makes the observation, `NotApplicable` and `Evaluate` are
the two branches of the engine's loop over the catalogue, `BuildReport` draws
the report. `Shows` and `Silent` say the same of the objects themselves,
container by container and event by event; the properties compare the two.
Cancellation, failure and storing of the task are those of `DiagnosisService`.
`unfollowed`, chosen in `Init`, are kinds that the inventory could not follow
for lack of permission (`InventorySync`): `Collected` is what it then holds.
`InventoryState` is `summarize` for every kind; `AgreesWithInventory` compares
it with the report.

### IncidentAggregator and IncidentFlow

`IncidentAggregator` is pure: `Aggregate` sorts the findings of one namespace
and symptom by time, splits them where more than the window passes without one,
and makes an incident of each group. `ByTime` is some
order by time: of findings of one time, `sort.Slice` may take any first, and no
property depends on which. `IncidentFlow` lets Events, rule results
and findings arrive in any order. `Sight` is what an Event causes:
`NormalizeEvent`, `SignalAccumulator.Add` and `Store.Add` for its evidence;
`Judge` adds the evidence of a rule, `Find` a finding. An Event of a series is
delivered again with a later time and a higher count, and by every new list of
the API unchanged. `seen` is the bag of deliveries; it only records. No
production code calls these packages at this commit, so how they are put
together is taken from `docs/architecture`, which the module says where it does
so.

### ProbeRunner

`sem` is the number of tokens in the channel `sem` of the code and `queue` the
goroutines blocked on it, which Go serves in order. `Call` are the checks
before the `select`, `Select` its branches, `GiveUp` a waiting call whose
context ends, `Begin`, `Execute` and `Release` the part under the deferred
receive. The executor is external: it answers, fails or panics (all lead to the
deferred function), and either honours its context or may hang. The server
builds a disabled runner, which is one of the initial states.

Type invariants that are theorems (`TypeOK` of `EventHub`, `DiagnosisService`,
`TopologyGraph`, `InventorySync`, `ProbeRunner`) are not repeated as properties
of runs. The other modules state none: their variables are assigned a literal or
the result of one operator, and what these may be is part of the properties on
reports.

## 3. Runs, bounds and what they show

| Run | Instance | States | Shows |
|---|---|---|---|
| `hub_lossless` | 1 task, 2 clients, 3 events, channel 3, history 4, 2 connections each | 31 044 | the mutex is never held for ever, no send on a closed channel, streams reach the terminal event unless a connection is refused, lost connections leave, refinement of `EventStream` |
| `hub_lossy` | 2 tasks, a client each, 3 events, channel 1, history 2 | 1.05 M | the history is the latest events, order without repetition even when events are lost |
| `service_safety` | 2 tasks, up to 2 rules, 1 path step, 1 restart, either repository, any save failing | 1.34 M | agreement of row and stream, incidents and confirmed issues match but for a save that failed or is missing, cancel table, stop at the rule boundary, refinement of `TaskLife` |
| `clients` | 1 task, up to 1 rule, either repository, 1 restart, 2 visits, streams refused | 0.45 M | every task ends and its result is stored; open pages hear of it and end with what is stored, unless cut off from their stream |
| `graph` | 3 nodes, 2 relations, lists of up to 3 edges | 1 754 | mirrored edges, no dangling edge, reach against a definition by paths |
| `inventory` | 2 pods with one name, one after the other, with 2 versions and 1, and 1 service with 1, a deletion each, channel of 1, all verbs or no watch on each kind, changed once later | 934 939 | currency and order of the store, what a relist leaves in it, missing kinds are told, the store catches up |
| `scan` | 4 objects, 2 severities, pages of 2, up to 3 moves, 29 graphs, filters by state and by object | 0.41 M | scans end, what a moving store can hide, completeness and views at rest |
| `network` | 1 or 2 Pods with their ports, Services, slices, sources; any snapshots | 0.95 M | whole paths, root cause, agreeing lists, agreement with the rules |
| `rules` | Pods with up to 2 containers or events, Services with up to 2 Pods, and every other kind in each state; the kinds looked up followed or not | 262 176 | confirmed is there, missing is never healthy, what is reported healthy in spite of a fault, coverage of the catalogue, agreement with the inventory's state |
| `incidents` | a Pod and a Deployment, 2 messages with one normal form, 2 symptoms, 2 severities, a window of 1, times 0 to 2, 3 inputs | 53 286 | signals add up, evidence counts once, incidents are chains and keep their identity, signals come and go for a cause |
| `probes` | 3 goroutines with 2 calls each, concurrency 0 (made 1) or 2, every action and executor | 145 732 | slots are held and given back, nobody waits beside a free slot, every call returns |
| `refresh` | 1 task with 1 visit | | the finding below |

*Why the bounds are enough.* The hub's cases are: replay fits or not, channel
full or not, history truncated or not, a handler of an old connection that still
takes events while a new one runs, a connection refused. Three events with
channel 1 and history 2 meet all of them, and two connections per client bring
the last. Two clients share a task in `hub_lossless` so that one may unsubscribe
while the other is served; clients of different tasks meet only at the mutex,
which `hub_lossy` has. Tasks of the service share the `cancels` table, the
repository and, by a replay, an incident: two tasks are enough for each. Two
rules give a rule before and one after the cancellation; a path looks at no
cancellation, so that one step will do. One restart may fall anywhere. In
`clients` one step is enough, since a page treats all steps alike, and two
visits give every combination of an empty or a filled cache with a replay; pages
of different tasks share nothing. Edges of the graph interact in pairs through a
shared end, and a list of three holds a repeated target and a third edge; three
nodes have paths of length 2 and cycles. In the inventory two kinds are needed
for listeners that compete for the channel, and several versions of one object
for order within a listener; the channel is shorter than the changes on the way,
so that `emit` waits; one later change of permissions revokes or grants a verb
before, during or after the first list; two pods that have one name are what a
relist can mistake for each other, and the change that brings the second may be
queued behind others of the first, or ahead of the service's. A scan of four
objects has two full pages, and one, two or three moves carry an object over
their boundary in either direction; the graphs are all paths through the four
objects, in every order of how edges are found, and forks, cycles and loops.
Every condition of the path analysis is met with each answer by some snapshot; a
Service port may name its target, number it or leave it out, and come second.
Two containers and two events are what it takes for one to overwrite the other.
Left out are Pods two of whose containers give one name to different ports:
`networkPod` keeps the last of them only, and the two readings then differ (see
the observations). Three findings with times that are 0, 1 or 2 apart and a
window of 1 give a chain longer than the window, a cut, and a late finding that
joins two incidents; three Events give two that are out of order and a
repetition. Three goroutines and one slot give a holder and two in the queue, of
which either may give up; with two slots, one more waits than is served; a
second call of each meets a runner that others have used.

*Bounds.* `MaxEvents`, `MaxConns` (`EventHub`), `MaxRules`, `MaxSteps`, `MaxCrashes`
(`DiagnosisService`), `MaxVisits` (`DiagnosisClients`), `MaxEdges`
(`TopologyGraph`), `MaxVersion`, `LastVersion`, `MaxGrants` (`InventorySync`),
`MaxMoves` (`InventoryScan`), `MaxTime`, `MaxInputs` (`IncidentFlow`), `MaxCalls`
(`ProbeRunner`) bound what the program does not. `HistoryCap`, `ChanCap` and
`PageSize` are the program's 256, 64, 4096 and 200, made small.

*Symmetry.* Tasks of the service, keys and relations of the graph, and messages
and symptoms of `incidents` are interchangeable; the runs with symmetry check no
liveness property.

*Deadlock* is not checked where the system may come to rest: when all events
are published, all tasks ended, the cluster at rest at its last version, a scan
complete, a report built, all inputs seen or all calls made. It is checked for
the graph, whose operations are always possible.

*Fairness.* `EventHub!FairSpec` assumes weak fairness of delivery, of a handler
noticing a lost connection, of `unsubscribe` and of the browser's connecting:
Go schedules goroutines that can run, and `EventSource` reconnects by itself as
long as no answer was a refusal. It assumes nothing of publishers, of the network
and of the repository, which may refuse every connection; the last connection a
client may open within `MaxConns` is not lost, for a client whose connections
are always lost receives nothing. `DiagnosisService!Fairness` assumes weak
fairness of each goroutine as a whole, of the handler's registration and of the
`DELETE` handler's call. No deadline, cancellation or crash is assumed to
happen. `FairClientsSpec` adds that the timers of an open page fire, its
requests are answered and its events delivered or its stream refused; nobody has
to visit or come back. `InventorySync!FairSpec` assumes weak fairness of the
informers (client-go retries) while they may list, and of their watches while
they may do both, of each listener, of the apply loop and of the end of the
60-second wait. `ProbeRunner!Fairness` assumes weak fairness of each goroutine
and of the probe's timer, and that an executor that honours its context returns
after the context has ended; no caller's context has to end.

## 4. Findings

*A reloaded page loses its report* (`refresh`). The page sets its task from
every new polled row and from every event, and each load replays the stream
from its start. The completion event of a resource diagnosis carries the task
as it was before its report was built (`engine.go:104`). When the first poll
is answered before that event arrives, the event takes the report away; the
refetch 250 ms later brings an equal row, for which the effect does not run;
and polling is off, since the cached row has its report. The page then shows
a live diagnosis for good. `CHANGELOG.md:120`: "Refreshable resource and
network diagnosis report URLs". Network pages do not have the fault, since
their event carries the report (`ClientsAgreeWithStore` in `clients`).

Further observations, met while modelling, that are no findings of a run:

* The insert of an incident into PostgreSQL (`postgres.go:86`) takes `cluster_id`
  from the table `clusters`, which the program never fills, and the column is NOT
  NULL. Unless an administrator adds that row every `SaveIncident` fails, and the
  caller drops the error, while `docs/release-notes/v0.3.0.md:39` says "confirmed
  interactive diagnoses create Incidents". With the row, one of two saves may
  still fail alone. `IncidentMatchesTask` names this as its exception (an incident
  `refused`), and says that there is no other but the end of the process.
* Any error of reading the task refuses the event stream with 404
  (`server.go:582-585`, `postgres.go:108-112`), after which a browser never asks
  again: a moment without the database at a reconnection cuts a page off in the
  middle of its stream. `TerminalReachesClient`, `PageHearsEnd` and
  `ClientsAgreeWithStore` state this exception.
* An object deleted and created anew under its name while a watch is broken stays
  in the inventory beside its successor until the end of the process
  (`kubernetes.go:98`, `inventory.go:155-158`). `QuietIsCurrent` and
  `EventuallyCurrent` say that this happens to such objects and to no others.
* `buildPodObservation` keeps one waiting and one termination reason per Pod,
  those of the last container that has any (`observation.go:89`), so that the
  out-of-memory check of a Pod whose first container was OOMKilled and whose
  second ended otherwise is healthy. `HealthyIsOverwritten` says exactly where a
  fault may be reported healthy.
* Without permission to follow Pods or EndpointSlices, the diagnosis of a Service
  confirms SVC-SELECTOR or SVC-ENDPOINT (`ConfirmedIsShown`), while
  `docs/architecture/overview.md:45-46` says "If required facts are unavailable
  the result is `NEEDS_MORE_EVIDENCE`". `ConfirmedIsShown` excepts these two rules
  then, and only then.
* The deadline of a resource diagnosis publishes `task_cancelled` and then
  `diagnosis_failed`; `StoreAgreesWithStream` allows two ends only then, a
  subscriber stops at the first, and the stored status is the second.
* `createNetworkDiagnosis` never looks at `ctx` between its steps: a cancelled or
  expired network task runs to its end and is stored COMPLETED, after the
  `DELETE` was answered with 204, although `cmd/kdiag-api/main.go:63` says
  "Per-task contexts bound execution". (`StopsAtRuleBoundary` is for resource
  diagnoses only.)
* A page polls a cancelled task every second for ever (`DiagnosePage.tsx:25`).
  After a deadline, or when the process ends during a replay, a page at rest may
  show CANCELLED or RUNNING while the stored row is FAILED or COMPLETED, by the
  same mechanism as the first finding; `PageHearsEnd` excepts a process that
  ended while it was sending.
* A resource diagnosis announces `diagnosis_completed` before its report is
  stored; a page that saw it running polls until it sees a report. A network
  diagnosis stores first (`StoreAgreesWithStream`).
* A replay is stored PENDING and never executed (`server.go:664`), while
  `web/src/pages/ReplayPage.tsx:17` asks to compare its result.
* A Pod's last event about its readiness probe outranks a Ready condition that is
  true (`observation.go:115`), so that a Pod that has recovered is confirmed to
  fail its probe. `docs/adr/0002-deterministic-rules.md:7` and `README.md:21` say
  the reverse. `ConfirmedIsShown` states it as an exception.
* A source that is not ready becomes a root cause but does not end the analysis
  (`analyzer.go:144`), unlike every other failed step; `RootCauseIsLastBreak`
  says what then is reported.
* A probe that the disabled runner refuses is a FAILED step, and so a CONFIRMED
  verdict (`analyzer.go:236`); what a probe's result says of its success is not
  looked at.
* `networkPod` keys ports by name, so that of two containers with one port name
  only the last counts (`observation.go:372`), while the rules look at all.
* `BuildNetwork` never sets that a NetworkPolicy denies, so this branch of the
  analysis is reached by tests only.
* No report of the program has a suspected issue, and a Pod that is scheduled
  cannot be found without issue, since the two scheduling checks are then
  unknown.
* Where the inventory and a diagnosis judge one resource differently, which
  `AgreesWithInventory` lists exactly: an endpoint without a `ready` condition is
  ready for the inventory (`inventory.go:802`) and not ready for both kinds of
  diagnosis; an ExternalName Service is healthy in the inventory, and its
  diagnosis confirms SVC-SELECTOR; a Lost claim is critical in the inventory, and
  its diagnosis ends with no issue (`rules.go:137`).
* A HorizontalPodAutoscaler at work has a condition ScalingLimited that is false,
  which its state takes for a warning, and a DaemonSet that no node asks for is a
  warning.
* A PodDisruptionBudget without a status is listed as healthy, since both numbers
  that are compared are then 0 (`inventory.go:672-676`), while `README.md:142-143` says
  "Missing data is never rendered as 'no problem found'". `MissingIsNeverHealthy`
  states it as its only exception.
* The policies page asks for 500 of a kind at once
  (`OperationsPages.tsx:27`), and `List` takes a limit above 200 for 50
  (`inventory.go:196`).
* The incident title "Service currently has no healthy backend Pods"
  (`aggregator.go:55`) needs two findings and one selected Pod, which may be the
  Pod of both, whatever other Pods the Service has.
* An incident's ID holds its place among the incidents of its key, so that a late
  finding renumbers those behind it (`IncidentsOnlyGrow` excepts it).
* An incident lists the signals of its resources from any time before its start,
  but not those that come later than a window after its start while it still goes
  on: the repetition of an alert takes its signal off the incident
  (`SignalsChangeForCause`).
* Two fingerprints of one resource and reason share a signal ID, and the evidence
  of one rule has one ID for all resources (`EvidenceCountsOnce`).
* A signal adds the counts of an Event's deliveries up, although each count
  already includes those before (`SignalsAddUp`).
* `containsFold` (`repository.go:158`) is true for every query that is not
  longer than the value, so the in-memory search does not filter.

## 5. Proofs

TLAPS checks every theorem for all values of the constants that satisfy the
modules' assumptions: any number of tasks, clients, connections, events and
rules, any capacities, both repositories, any objects, clusters, snapshots,
findings and windows. Every invariant that a passing run checks is proved, and
so is every action property and both refinements.

| Module | Theorem | States |
|---|---|---|
| `EventHub_proofs` | `TypeCorrect`, `RetainsLatest`, `NoSendOnClosed`, `StreamsAreInOrder` | `Spec => []` of `TypeOK`, `HistoryIsLatest`, `NoSendOnClosedChannel`, `InOrder` |
| | `HubNeverBlocks`, `StreamsAreGapFree`, `HubImplementsStream` | under `Lossless`: `NeverBlocks`, `GapFree` (a client advances by one event at a time; TLC checks it as part of `RefinesStream`), `RefinesStream` |
| `DiagnosisService_proofs` | `TypeCorrect`, `ReportsComeWithCompletion`, `CancelsAreTheRunning`, `ResourceTasksStop`, `FinalRowsStay` | `TypeOK`, `ReportIffCompleted`, `CancellableWhileRunning`, `StopsAtRuleBoundary`, `StoredResultIsFinal` |
| | `ServiceImplementsLife`, `AnnouncedEndIsStored`, `IncidentsStandForIssues` | `RefinesTaskLife`, `StoreAgreesWithStream`, `IncidentMatchesTask` |
| | `ClientsTypeCorrect`, `ClientsEndWithTheStored` | `ClientsSpec => []` of `ClientsTypeOK`, `ClientsAgreeWithStore` |
| `InventorySync_proofs` | `SyncTypeCorrect`, `StoreFollowsInformers`, `StoreMovesForward`, `MissingKindsAreTold` | `TypeOK`, `QuietIsCurrent`, `OnlyForward`, `UnfollowedIsTold` |
| | `WhatLeftStaysOut` | what has been in the store and has left it never comes back |
| `ProbeRunner_proofs` | `RunnerTypeCorrect`, `NoSlotIsLost` | `TypeOK`, `SlotsAreHeld` |
| `Topology_proofs` | `TypeCorrect`, `CopiesAgree`, `EdgesHaveEnds`, `NeighborhoodIsGraph`, `NeighborhoodIsReach` | `TypeOK`, `Mirrored`, `NoDanglingEdge`, `SnapshotIsClosed`, `WalkReachesDepth` |
| | `ScansMissFew`, `ViewsAreReach` | `ScanSpec => []` of `MissedWithinMoves`, `QuietViewIsReach` |
| `ServiceDiagnoses_proofs` | `EveryPathIsWhole`, `RootCauseIsOfLastBreak`, `ReportsListThePath`, `ReadingsNeverContradict` | `PathIsWhole`, `RootCauseIsLastBreak`, `ListsAgree`, `ReadingsAgree` |
| `RuleDiagnosis_proofs` | `ReportsCoverCatalog`, `MissingDataIsNotHealthy`, `ConfirmedFaultsAreShown`, `ReportsAgreeWithInventory`, `HealthyFaultsAreOverwritten` | `ReportCoversCatalog`, `MissingIsNeverHealthy`, `ConfirmedIsShown`, `AgreesWithInventory`, `HealthyIsOverwritten` |
| `IncidentFlow_proofs` | `FlowHolds`, `SignalsCount`, `EvidenceCounts` | `FlowInv`, `SignalsAddUp`, `EvidenceCountsOnce` |
| | `IncidentsChain`, `SignalsChange`, `IncidentsGrow` | `IncidentsAreChains`, `SignalsChangeForCause`, `IncidentsOnlyGrow` |

### What is assumed of the constants

Most assumptions give bounds and capacities their type. These say more:

* `ClustersAssumption` (`ServiceDiagnoses`): two ports of a Pod with one name
  have one number. Kubernetes guarantees it within a container only; for Pods
  that break it the two readings do differ (section 4), so `ReadingsAgree`
  needs it. The other three theorems of the module do not use it.
* `TargetsAssumption` (`RuleDiagnosis`): a Pod that cannot be scheduled has no
  container statuses and has not succeeded, since no kubelet has seen it; the
  conditions of an endpoint are true, false or absent; replica counts are
  natural numbers; and `Absent`, which stands for what the Go code leaves empty,
  is none of the values. Reasons, labels and names are otherwise arbitrary.
* `ReadingsAssumption` (`InventoryScan`): edges join pairs of objects.
* `FlowAssumption` (`IncidentFlow`): Pods are among the resources; severities,
  which rank P3 to P0, and times are natural numbers.
* `Lossless` (`EventHub`) is a hypothesis of three theorems, no assumption;
  section 2 says why the program satisfies it.

### Along which argument

*The hub.* The first four theorems need no assumption on capacities. `InOrder`
rests on channels holding published events only, so that a new event is above
them all, and on a cursor never being ahead of its task. For the others
`Lossless` says that a task's events fit a channel and the history. Then the
history of a task is its whole log, and the invariant says of every registered
channel that it holds, without gap, the numbers after what its handler has
taken, up to the task's sequence; for the connection the client reads this is
from `seen` on. A channel never holds more than `MaxEvents` events, so a
publication is never dropped and a replay always fits; the channel of a
connection not yet opened is empty. From that each step that moves `seen` moves
it by one (`GapFree`), and every step is a step of `EventStream` or a stutter:
`Publish` a `Publish`, `Deliver` to a live client a `Read`, all others nothing.

*The service.* None of the four properties is inductive. `ServiceInv` adds for
every task: what the goroutine's copy holds at each place (`CopyInv`), what the
row may be there: the initial row until the final save, and after it the final
one (`RowInv`), that a context which has ended at the check leaves at most one
late step (`WorkInv`), and which places a kind of task can be in (`PlaceInv`).
The proof has one case per action; an action of one task changes nothing the
other tasks' conjuncts mention. `ReportIffCompleted` and `StoredResultIsFinal` are
stated and proved here and are not properties of a run: `RefinesTaskLife` says as
much of every task.

*The life of a task.* `LifeInv` says, place by place, what a task has announced
and what is stored: nothing and PENDING before its first terminal event, the
stored end and the announced one equal at the places after it. With it and
`ServiceInv` each step of the service is one of `TaskLife` or changes nothing
`TaskLife` sees: a publication of a terminal event is an `Announce`, a save that
took effect a `Store`, a failed registration an `Accept` that leaves the task
closed, and a crash a `Restart`. `OutcomeInv` adds, place by place, the ends a
task has announced in their order (one, or a cancellation followed by the failure
that a deadline leaves), what the repository then holds, and what became of its
incident: not yet tried, saved or refused. A row may be lost after its incident was
saved and an incident refused before or after its row was stored, which
`IncidentAt` keeps apart by what the place of the task says of the two calls
(`IncidentsStandForIssues`). Each group of actions has one lemma, and an action
of one task leaves the others as they were.

*The clients.* A client holds rows it has read at different times: the cached
one, the one in an answer under way, the one it printed. Each is `Known`: it is
none, the pending row, or the result of a task that is past its save, which the
repository may have lost but never contradicts. `PageInv` adds that once a result
is cached no older row is under way, and that a network page whose stream has
closed shows what it has cached; for this a network task has one way to end
(`NetworkEnds`). A page whose stream was refused before its first event is such a
page too, since its view is then what its polls have brought; of one that was
cut off later only the cache is claimed. Each step of the service keeps this
because a write to a row leaves what was known of it known (`RowWrites`), and a
step of a client because it only moves rows between its places. The service's
own invariants hold of `ClientsSpec` because each of its steps is one of the
service or leaves the service alone (`ClientsRunTheService`).

*The inventory.* `QuietIsCurrent` says nothing of an object whose changes are on
their way, so it is not inductive. `News` follows the latest change of an object
from station to station: what the listener holds last, or else what the channel
holds last, or else what the loop has in hand, or else what is stored, is what
the informer holds. Each step takes the head of one station and appends it to
the next, which the lemmas on `Append` and `Tail` show to keep it. `SyncInv`
adds that a listener has objects of its own kind only and that an object its
informer does not know has left no trace. A relist that replaces an object keeps
its last change on its way: of a replaced object `News` says that the last word is
the version held before, which is never that of a deletion, so that the store ends
up with it (`StoreFollowsInformers`). For `OnlyForward`, `InOrder` says of
all changes of an object on the way, and not of the latest only, that their
versions ascend from what is stored to what the informer holds; a first list
keeps this because it has each object once. A deletion that is applied is
therefore the last change there will be, and an object in that state (`Buried`)
stays in it; `WhatLeftStaysOut` says so in terms of the store alone.
`UnfollowedIsTold` rests on the report not changing after the informers have
been made from it.

*The probe runner.* `SlotsAreHeld` is inductive together with the types. Its
parts need each other: that a release finds a waiting call needs that the queue
holds exactly the calls that wait, that the number of tokens is right needs that
the call is in the queue once, and that nobody waits beside a free slot is what
lets a release hand its token over without touching the count.

*The graph.* `Mirrored` and `NoDanglingEdge` are inductive together with
`TypeOK`: removing a node finds the copies it has to delete only because the two
agreed before.

*The two walks.* `Neighborhood` and the view of `Topology` walk level by level,
and both keep what is seen and what was seen last. `LevelsReach` says once for
both that such a walk holds after `n` levels what paths of at most `n` edges
reach: whatever an edge joins to the part that was seen before the last level is
seen by now, so that looking at the last level only is enough.

*The scan.* The objects a scan may have missed are those it has passed: unmoved,
matching, at a place before `offset`, and not among `items`. `ScanInv` says that
they are at most `moves`, the number of objects that have moved. A page passes
none, since it takes all objects from the offset on, up to the next one. A move
shifts places: an object that did not move comes before the offset only as
another leaves that side, and as many objects are shifted over it as have moved
(`MovePassesFew`; two for a move that carries a computed summary along). With no
move none is passed, every page follows on the one before, and a finished scan
has all matching objects in order; a view is then cut from all objects and all
edges, and `LevelsReach` applies.

*The network path.* Each of the ten actions either adds one step to the path or
ends it and lets `withSkipped` fill the rest (`StepsOfThePath`); the invariant is
kept in these two cases and not once for each action. It says that the steps are
the path as far as it goes, each with a role that fits its status; where they
were blocked; which root cause the breaks so far give; and what the steps that
two readings share say of the snapshot. `ReadingsAgree` then compares, object by
object, how `networkPod` finds a port by its name in a map and how the rules
search the list of ports.

*The rules.* `RunInv` is about the engine's loop: after `n` entries of the
catalogue there is one step and one hypothesis for each of them that is about the
target's kind, in order, each in the role its observation gives it. When the
loop is done the report holds the roles of those rules and nothing else
(`ReportIs`). What remains is about the observation, kind by kind: what each fact
of it says of the objects, with the reading of a Pod's containers and events as
"the last one that has a reason", from which a fault is overwritten exactly when
a later reading follows it. Where the program does not keep what its documents
promise, the theorems claim the rest: `MissingDataIsNotHealthy` of every resource
but a PodDisruptionBudget, `ConfirmedFaultsAreShown` of every confirmation that
neither an event about the probe nor a kind not followed explains.

*Signals and evidence.* `FlowInv` says that the Signal of a fingerprint sums up
the bag of its Events: its times are the least and the greatest, its message is
of a latest one and its count is the weighted sum of the bag. That sum does not
depend on the order in which `MapThenSumSet` takes the elements (`SumTakesAny`),
and a delivery adds its count whether its Event was there before or not
(`TotalGrows`). Of the evidence it says that sources and IDs are inverse to each
other, except for the ID of the rule.

*Incidents.* They are a function of the state, so that no invariant but `FlowInv`
is needed. A run of a sorted list begins at its first position and after each
quiet window; `SplitIsRuns` shows that the fold in `SplitByWindow` returns the
runs, by following it over the prefixes of the list. A run is a chain: steps
within the window do not leave it, and the neighbours in it are such steps
(`RunIsChain`). A finding that is not earlier than all others of its key comes
last in every sorted list, up to findings of its own time, so that the times
before it and with them the runs stay as they were and only the last run may
grow, or a new one begin (`LateComesLast`, `RunGrows`). `SignalsChange` compares
the incidents before and after a step: an input that changes no finding leaves
their starts as they were, a new finding makes a run that contains the old one,
and what an incident lists then depends on the last time of the signals of its
resources alone, which a step changes for the fingerprint of its own Event only;
a signal's resource is that of its fingerprint (`SignalInv`), and `StepHasCause`
names the Event.

*Induction.* The theorems of the library that prove by induction take an operator
as a parameter, which the installed provers cannot instantiate. Where a property
of a fold, a walk or a sum needs induction over numbers, the proof takes the
smallest counterexample instead (`SmallestMember`), and where a definition is
recursive it first shows that a function with its equations exists.

*Only model-checked* are the liveness properties, since TLAPS 1.4.5 has no
ENABLED: `TerminalReachesClient` and `LostConnectionsLeave` of the hub,
`ResultStored` and `PageHearsEnd` of the service and its clients,
`EventuallyCurrent` of the inventory and `EveryCallReturns` of the probe runner.

## 6. Not modelled

* Wording and display: message normalisation by regular expressions (an
  abstract function here), commands and advice texts of the report, rendering,
  translations, the marking of topology nodes in a report, and of an inventory
  item its facets, most recent event and group. Nothing is decided by them.
* Translation and decoding: `toResource`, HTTP decoding and headers, kubeconfig,
  manifests. They keep no state.
* `Repository`'s resource table and search: no production code fills it.
* `validateDAG` and the waiting for dependencies in the engine: `New` builds all
  nodes without dependencies and no two rules have one ID, so that they cannot be
  reached.
* That a replay is never executed and that a cancellation has no effect on a
  network diagnosis are not properties but what the models do: `DiagnosisService`
  has no action that starts a replayed task, and no step of a network task looks
  at `ctx`.

## 7. Plan

Done, in this order: `EventHub` with `EventStream`, `DiagnosisService`,
`TopologyGraph`, `InventorySync`; `InventoryScan`, `ClusterObjects` with
`NetworkAnalysis` and `ServiceDiagnoses`, `RuleDiagnosis`, `DiagnosisClients`;
then `TaskLife` with its refinement, `InventoryState` for every kind, the
permissions in `InventorySync` and `RuleDiagnosis`, filters in `InventoryScan`,
`IncidentAggregator` with `IncidentFlow`, and `ProbeRunner`; and the proofs above.

What is left:

1. `Build` of `RuleDiagnosis` on top of `InventoryScan`, so that the observation
   is made from a store that moves while it is read.
