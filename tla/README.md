# Lazy-Koala in TLA+

Lazy-Koala watches the services of a Kubernetes cluster and scores how unusual
they behave. This directory specifies the parts of it that decide what is
watched, what is counted and what is scored; it checks them with TLC on small
instances and proves the central safety properties with TLAPS for all sizes.
Paths below are relative to the repository's root.

## 1. Inventory

| part | code | state it keeps | operations |
|---|---|---|---|
| Operator (Inspector controller) | `control-plane/controllers/inspector_controller.go`, `control-plane/main.go`, `api/v1alpha1/inspector_types.go` | none of its own: Inspector objects (spec, finalizer, status) and two ConfigMaps in the API server; in memory a cache, a work queue and the local variables of one `Reconcile` | `Reconcile`, `removeMonitoredIPs`, `configureGazer`, `configureSherlock`, `eventFilter`, start and stop |
| Gazer config watcher | `gazer/config.py` | `config_watcher.config`, an inotify watch | first read, watch, read on notice |
| Gazer threads | `gazer/gazer.py` | Prometheus gauges and counters, tables of the console | `ipv4_request_event`, `poll_kube_api`, `poll_syn_backlog` |
| Socket state probe | `gazer/sock_state.c`, maps of `gazer/bpf.c` | BPF maps `birth`, `whoami` (10240 entries each), the perf buffer `ipv4_events` | the handler of `sock:inet_sock_set_state` |
| SYN backlog probe | `gazer/syn_backlog.c`, maps of `gazer/bpf.c` | BPF maps `currsock`, `syn_backlog` | kprobe and kretprobe of `tcp_v4_syn_recv_sock` |
| Sherlock | `sherlock/src/inference.rs`, `query.rs`, `main.rs` | the gauge `anomaly_score` | `poll_anomaly_scores` and what it calls |
| Serving pod | `sherlock/deployment.yaml`, `charts/lazy-koala/templates/sherlock` | a volume with models, the models that are loaded | copy of the bucket, load of `models.config` |
| Inspector proxy | `inspector/main.go` | none | forwards HTTP requests |
| Settings page | `ui/src/pages/settings.tsx`, `components/deployments.tsx`, `modals/monitor.tsx`, `modals/unmonitor.tsx` | the browser's query cache, the selected namespace, the table's search text, column, direction and copy of the rows, open dialogues, a request in flight | fetch, refetch and render; select, sort, search; create and delete an Inspector |
| Service graph | `ui/src/pages/dashboard.tsx` | three entries of the query cache, the nodes and links that are drawn | fetch scores, services and requests, each from what the one before it has |
| Training, scripts, charts, documentation | `sherlock/training`, `scripts`, `charts`, `documentation` | none at run time | |

How they meet. A user, or the UI, creates an **Inspector** object: a
deployment, its service and a model. The **operator** turns it into entries of
two ConfigMaps in the namespace `lazy-koala`: `gazer-config` maps an IP address
to a scrape point, `sherlock-config` maps the Inspector's name to a model and a
namespace and holds the `models.config` of TensorFlow Serving. Kubernetes
mounts the first into every **Gazer** (one on each node) and the second into
**Sherlock**. Gazer's two kernel probes submit TCP events and count backlogs;
its threads look the addresses up in the config and export Prometheus series.
Sherlock reads its list every minute, queries Prometheus for each service,
asks TensorFlow Serving for a prediction and exports the score. The **UI** runs
in a browser: through the proxy it reads deployments, services and Inspectors
from the API server and scores and request rates from Prometheus, and creates
and deletes Inspectors.

What is hard. `Reconcile` makes up to nine API calls, on cached copies, with
optimistic concurrency, and each can fail or be the last one before a crash;
what it has published is recorded only by the last call. Threads of Gazer look
at an object that another thread replaces in two assignments. The kernel uses
the address of a `struct sock` again; BPF maps fill up; a probe is loaded among
connections that are open already; interrupts share thread ids. Sherlock works
on a list that changes under it, through calls that fail, hang or panic. The
pages of the UI compute one query's answer from another's, with functions that
close over an earlier render, while answers are late, fail, or belong to a
namespace that has been left.

What makes each part correct:

- **Operator**: no update of a shared ConfigMap is lost; nothing is published
  for an Inspector that nobody will clean up after; what the status says is
  true; a deletion completes and removes what was recorded; left in peace the
  operator reaches what the Inspector asks for.
- **Config watcher**: a change becomes known; only this node's pods are kept.
- **Gazer threads**: an event is counted for the right series; a backlog round
  tells this round's counts and nothing older; threads go on after failures.
- **Socket probe**: each connection is reported once, with its own span and task.
- **Backlog probe**: the sampled queue is that of the listener of the call.
- **Sherlock**: scores are for services that are listed, every listed service
  is tried, and the score becomes that of the listed model.
- **Settings page**: the rows are of the selected namespace and agree with the
  Inspectors that the page has; what the user created shows up; the endpoints
  that are offered exist there; rows are in the order that the head tells.
- **Service graph**: services were scored by the scores that the page has, links
  join services that are there, and in the end the graph tells what there is.

`PROJECT.json` lists the hazards line by line with the properties that watch them.

## 2. Modules

    MonitoringLifecycle     what the operator promises (abstract)
      ^ refinement
    InspectorController     the operator, its API server, users, cluster
      ^ MCInspectorController  ^ InspectorControllerProofs ^ LifecycleProofs
    ConnectionReports       what the first probe promises (abstract)
      ^ refinement
    SockState, SynBacklog   the two kernel probes
      ^ MCProbes            ^ ProbesProofs (extends SockStateProofs)
    ConfigWatcher           ^ MCConfigWatcher
      ^ Gazer               threads composed with the watcher
          ^ MCGazer                      ^ GazerProofs
    Sherlock                ^ MCSherlock ^ SherlockProofs
    QueryClient             react-query's cache, operators only (external)
      ^ DeploymentsTable    the table: what its handlers make of its state
          ^ Settings        the settings page        ^ SettingsProofs
      ^ Dashboard           the service graph
    MCConsole               Settings and Dashboard   ^ ConsoleProofs
                                                       (extends SettingsProofs)

No module declares a RECURSIVE operator, so all of them can be proved about.
Definitions headed "Seeded defect" are wrong variants of the definition that
follows them. They are in no specification; each is used once in place of the
right one, to see that a property notices (the list "mutants" of `PROJECT.json`).

### InspectorController

One action per API call of `Reconcile`; between two calls anything else may
happen. `worker[o].pc` names the next call, and the other fields of the record
are the local variables: the Inspector as it was read from the cache, the
computed scrape points, the copies of the ConfigMaps.

| action | code |
|---|---|
| `StartReconcile` | lines 77-124 up to the first call; `FirstCall` is the branching on deletion and finalizer |
| `AddFinalizer`, `RemoveFinalizer` | 94-100, 116-119 |
| `RemoveRead`, `RemoveWrite` | `removeMonitoredIPs` |
| `ListPods`, `GazerRead`, `GazerWrite` | `configureGazer` |
| `SherlockRead`, `SherlockCheck`, `SherlockWrite` | `configureSherlock`, which updates the ConfigMap once as it was read and once more with the new list |
| `StatusWrite` | 136-147 |
| `Conflict`, `MissingRef`, `APIError` | a write refused for its version, a deployment or service that is not there, any other failing call; all return the error, and the request goes back to the queue |
| `SyncCache` | the watch and `eventFilter`: updates that leave the generation alone are not queued |
| `StartOperator`, `StopOperator` | the manager of `main.go`, with or without leader election |
| `CreateInspector`, `UpdateSpec`, `DeleteInspector` | users and the UI |
| `PodStart` ... `DeleteService` | the cluster |

Abstractions, and why they lose nothing that the properties speak of:

- A resourceVersion is a flag: whether a copy still has the stored version
  (`fresh`, `current`). Every write that changes an object resets the flag of
  every other copy of it, which is what comparing versions comes to.
- `client.Get` of a ConfigMap may be answered from the manager's cache with an
  old copy. The write that follows is then refused, so the outcome is that of
  a failing call (`APIError`). The same for a write whose answer is lost after
  it was stored, once the retry has begun.
- The manager's cache answers `ListPods`, and may lag behind the API server. The
  cluster of the module (`deployed`, `pods`, `clusterIP`) is what that cache
  has: for one operator at a time its changes are those of the real cluster,
  some time later, and a new operator that starts from a newer list is a change
  of the cluster between two operators. For operators that run together it is an
  assumption that their caches agree, which the code does not see to. It matters to `MonitoringStays` and
  `Converges` only, the two that compare what is published with the pods: an
  operator with an older list would publish an address that is gone, and may remove
  the one that the other has published, until its own cache and next reconcile
  catch up. What is said of stored state (updates, finalizers, records, status)
  does not depend on the list.
- Deployment, pods and service are read by one action. They are three `Get`s
  and `List`s of objects that the operator never writes.
- Delayed requeues are in the same queue as others: time is not modelled.
- With `LeaderElection = TRUE` one operator runs at a time. That is the flag of
  `main.go:73`, and it is also what the chart's single replica amounts to but
  for rolling updates; `LeaderElection = FALSE` with two operators is the
  rolling update.

`MonitoringLifecycle` is the promise: an Inspector goes absent, declared,
guarded (it has the finalizer), finalizing, absent; its service is listed only
while it is guarded or finalizing, and it is released only when unlisted.
`InspectorController` implements it with `phase` computed from the stored
object and `listed` from `services.yaml`.

### SockState

The handler as one step (`Trace`), because the kernel serialises the
transitions of a socket and map operations are atomic per key, among the state
machine of the kernel's TCP (`After`, external). A connection is a *life*: the
ghost fields of `birth`, `whoami` and `events` tell which life a stored value
was taken in, so that the properties can tell whose span and task an event
carries. `Attach` and `Detach` are Gazer's start and stop.

`ConnectionReports` is the promise: with the probe loaded and less than
`MaxEntries` connections open, an IPv4 connection that begins is followed, and a
followed one is reported when it closes; others may be; none is reported twice,
at another time, with another's span or with the task of an earlier IPv4
connection; IPv6 ones never are. `SockState` implements it with `phase` computed
from the socket that carries a connection (`PhaseOf`), and its own `events`. The
ghost field `traced` is in no guard: it only names the connections that were
followed.

### SynBacklog

`Enter` and `Return` are the two probes around the kernel's function, on
several CPUs. `currsock` has the thread id as its key, and idle CPUs share id 0.
The kernel may skip the probe of an entry; the field `probed` of a call tells
whether it did, so that the properties can tell a missed entry, of which
nothing is counted, from one that another call has overwritten or deleted.

### ConfigWatcher and Gazer

`ConfigWatcher` has the first read, the watch, and the two assignments of
`read_config` as two steps (`ReadConfig`, `FilterConfig`), with the writers of
the file: kubelet's link swap when it is mounted (`Swap`), or truncate, write
and close in place. A file that does not parse, or is empty as the chart's is,
is `None`. `Gazer` extends it with the three threads. Each lookup of
`config_watcher.config` in an expression is a step of its own, with what the
exception does when the object has changed in between: it is lost with the
event (`DropEvent`), ends the thread (`LookForPods`) or ends the round
(`EndRound`). A request to the metrics server is sent in one step (`AskForPod`)
and answered, or fails, in another (`KubeAnswers`), which may never come.
`items()` and `clear()` of a BPF table are one step each. The ghost variable
`seen` has the configs that there were since the event at hand was taken:
`CountedByConfig` says that an event is counted whole, each address for an entry
that it had meanwhile, or not at all, and lost only if the config has changed.
Durations, bytes, CPU and memory values are left out.

### Sherlock

The polling task, with telemetry as one call that is answered or fails and the
score told by the model that computed it; the model-poller and TensorFlow
Serving as the two other containers; restarts of each. `SharedVolume` tells
the two manifests apart: in `sherlock/deployment.yaml` the model-poller mounts
the volume that is served, in the chart it does not.

### QueryClient, DeploymentsTable, Settings

`QueryClient` is react-query as the pages use it. An entry has the last data,
whether the last fetch failed, and the fetch in flight with its *closure*: what
the function sees of the render that started it. A second fetch of a key is not
started while the first is in flight, whatever it closes over; that is the root
of most of what can go wrong.

`DeploymentsTable` has `filterData`, `sortData` and the three ways in which
`TableSort` changes its state: `NewData` (the effect), `SetSorting` and
`HandleSearchChange`. A text is told by its place in the order of
`localeCompare` and by the search texts that it contains. Sorting and filtering
are one definition (`Arranged`): the rows at some positions, each at the rank
that an order of the positions gives it. For a column this is the order of the
texts, and of the positions where these are equal, as the sort is stable.

`Settings` has one action per event of the page:

| action | code |
|---|---|
| `AnswerInspectors`, `RefuseInspectors`, `ReceiveInspectors` | the fetch of `settings.tsx:19-22`, split where the server answers and where the answer arrives; the answer is taken whatever its status |
| `ReceiveDeployments`, `WithRows`, `Find` | the query of lines 25-43: the rows, from the answer and from the Inspectors in the closure |
| `ReceiveNamespaces`, `ReceiveServices`, `FetchFails` | the other queries, and any that failed at each attempt |
| `Focus`, `RefetchDeployments`, `RefetchNamespaces` | react-query's refetches |
| `OpenSettings`, `LeaveSettings`, `SelectNamespace`, `Sort`, `Search` | navigation, the select, the table's head and search field |
| `OpenMonitor`, `CloseMonitor`, `Submit`, `OpenConfirm`, `CancelConfirm`, `Confirm` | the dialogues up to their requests |
| `CreateAccepted`, `DeleteAccepted`, `CallRefused` | what the API server makes of a request |
| `CreateAnswered`, `DeleteAnswered`, `CallFails` | `monitor.tsx:60-91`, `unmonitor.tsx:18-33` |
| `OthersCreate`, `OperatorUpdates`, `ReplicasChange` | the cluster |

`Commit` is the rendering that belongs to each of them: which queries get
another key and are fetched (`Observe`), whether a loader, an error or the table
is shown, what the table makes of new rows, which buttons are new and ask for
the services, whether an open dialogue loses its button, and which unused
entries the cache forgets.

### Dashboard

The three queries of the graph. The key of the services holds the whole result
of the scores, so each change of that result starts a new query (`Rekeyed`) and
leaves what was in flight without a reader. `Render` also starts the query of
the requests when it becomes enabled and makes the graph. `Calm` ends the
changes of the cluster and the failures.

## 3. What TLC checks

| run | instance | shows |
|---|---|---|
| `OperatorSolo` | 1 operator, 2 Inspectors with a shared model, 1 pod address that moves between 2 deployments, crashes, deletions; 965,000 states | no Inspector is forgotten, what is settled is monitored without a gap, lists and records are consistent, and the operator implements `MonitoringLifecycle` |
| `OperatorPair` | 2 operators without leader election, 2 Inspectors, pods without an address in both; 382,000 states | no lost update of either ConfigMap |
| `OperatorLive` | 1 Inspector, failing calls, edits, moving pods, vanishing deployments and services; 101,000 states | the status is truthful, deletions complete, and the operator converges |
| `OperatorLiveTwo` | 2 Inspectors, 1 worker; 25,000 states | each goes through the whole lifecycle: liveness of the refinement |
| `Probes` | 3 sockets, 3 lives, room for 2; 3 CPUs, 2 threads and the idle one, 2 listeners, entries that are missed; 279,000 states up to symmetry | the handler implements `ConnectionReports` with full maps, reused addresses, both families and a probe that comes and goes; threads find their own listener, and the map does not leak |
| `GazerThreads` | 3 addresses, 3 file contents, 3 histogram rows, mounted or written in place, one thread at a time beside the watcher; 273,000 states | all of Gazer's promises |
| `SherlockScores` | 2 services, 2 models of which one is in the bucket, 1 restart; 89,000 states | all of Sherlock's promises |
| `Console` | 2 namespaces with a deployment of the same name, at most 1 Inspector; 2 services that score below 0.1, between and above 0.3; 278,000 states | the promises of the settings page and of the graph |
| `OperatorClaimUnmonitor`, `GazerUsageUnconfigured`, `SherlockPanic` | the same instances | three findings, section 5 |
| `WatcherMounted` | a mounted file with 6 contents, updated only while the process runs and has set its watch (`MountedSpec`, whose behaviours are some of those of `WatcherSpec`) | finding 2 of section 5 |

Why these bounds. The operator's properties relate one reconcile to what
happens between its calls, and the shared maps relate two writers of them: two
Inspectors, two operators and one address that changes hands contain every
such pair. One pod address suffices because keys of `gazer-config` do not
interact. In the socket probe two lives at one address and a third connection
elsewhere that takes the room are all that a handler can confuse. In Gazer two
ports of one address share a gauge, one level is not zeroed by default, and the
three contents of the file contain a pod that moves to another node and an
address that passes from a service to a pod. On the settings page one namespace
that has been left, one Inspector that comes, runs, is deleted and goes, and two
rows are what a late answer can confuse; the names in a namespace are unique.

What is taken apart. The threads of Gazer share nothing but the config, which
none of them writes, so `MCGazer` runs them one at a time (`focus`). The two
kernel probes have no map in common (`MCProbes`, `probe`). The pages of the UI
share the cache but none of its keys and are never open together, and
`MCConsole` gives each behaviour one `scenario`: *reading* (navigation, late
answers, Inspectors that change, unused entries kept), *failing* (refusals and
failed fetches), *sorting* (sort, search and replicas that change), *opening*
(the dialogue and its services, between two namespaces), *editing* (requests to
create and delete, also from a page that is left) and *graph*. All steps of the
page itself are in each; which of the others are is written out in
`SettingsStep`. What is lost are mixtures of troubles, such as a failing fetch
while a deletion is in flight.

The bounds on counters are `MaxSamples` (a histogram row), `MaxBacklog` (the
kernel's own limit: at 0 a queue is empty, or is full and makes no socket; the
lengths in between are only counted, and the proof is for any limit), `MaxRestarts`, `MaxInspectors` (per namespace), `MaxUnused` (entries
kept in the query cache though nobody reads them; react-query keeps any number
for five minutes) and `MaxLate` (fetches in flight that nobody waits for).
`SYMMETRY` is used only in runs without liveness properties.

Fairness.

- `InspectorController!Fairness`: a started call has a result (weak fairness of
  `WorkerStep`); the work queue is first in, first out and every error is
  requeued with a bounded delay, so a queued Inspector is served (strong
  fairness of `StartReconcile`, because one worker serves several); the watch
  delivers; Kubernetes restarts the operator. That calls do not fail is never
  assumed: `DeletionCompletes` and `Converges` say "if from some point on no
  answer is lost", and refusals for old versions do not count as lost.
- `Gazer!FairSpec`: a Python thread that can go on does. `WF_vars(KubeAnswers)` is
  an assumption about the metrics server and the network, not about this code,
  which gives `requests.get` no timeout (`gazer.py:103`): a request is answered
  or fails in the end. It may fail each time. Section 5 says what happens
  without it. Nothing is assumed of the writers of the file.
- `Sherlock!FairSpec`: the task and the two pollers run. `WF_vars(Answers)` is
  an assumption about Prometheus and TensorFlow Serving, not about this code,
  which sets no timeout: a call is answered or fails in the end. Section 5
  says what happens without it.
- `DashboardFairness`: the timer of `refetchInterval` fires, and each fetch is
  answered or fails, as the browser sees to. `GraphSettles` asks nothing of a
  cluster that goes on changing or of fetches that go on failing: it begins
  with `calm`. There is none on the settings page, of which only safety is said.

The properties are stated and explained at the end of each module.

## 4. What TLAPS proves

`InspectorControllerProofs`, for any sets of operators, Inspectors, names,
deployments, services, models and addresses, any selectors and any initial
cluster, from `ConstantsAssumption` (the types of the constants) and
`AbsentAssumption` (`Absent` is none of the values):

- `TypeCorrect`: `Spec => []TypeOK`. `TypeOK` is not inductive: a worker in the
  middle of a reconcile must have an Inspector to work on, which `TInv` adds.
- `NoLostScrapePoint`, `NoLostService`: the two action properties on the shared
  ConfigMaps. They need `Coherent` (a copy whose version is current *is* what
  is stored) and `OnItsPath`: a write that is accepted starts from the stored
  map, so it changes only its own keys.
- `SherlockAlwaysOwned`, `PublishedOnlyUnderFinalizer`: with one operator at a
  time. `SherlockOwned` alone is not inductive: a worker that is about to
  list its service works on a copy that may be older than the Inspector's
  release. `Protected` closes the gap: a copy of a live Inspector with a
  finalizer, in the cache or in a worker, is one of an Inspector that still
  has it, because only this operator removes finalizers; and a worker that is
  about to remove the finalizer has unlisted the service.

The inductive invariant, `IInv`, is the conjunction of these. No run checks
`PublishedUnderFinalizer`, as the proof does not depend on an instance.

`LifecycleProofs`, from the same assumptions:

- `RunningIsServed` (`SherlockServesRunning`) and `LifecycleImplemented`
  (`ImplementsLifecycle`), for one operator at a time and unique names. That a
  Running Inspector is listed is not inductive: a worker with an old copy might
  take it for deleted and unlist it. `Served` says that whoever takes an
  Inspector for deleted, the cache or a worker, is right or finds it unlisted
  already; a worker that will list a service may have an older copy than its
  cache. The refinement then goes step by step: a write of an Inspector is a
  move from phase to phase (`PhaseMoves`), a write of `services.yaml` lists a
  guarded one or unlists a finalizing one, and all else is a stutter.
- `ReportsAreTrue` (`StatusIsTruthful`) and `RemovalIsClean`
  (`RecordedPointsRemoved`), for one operator at a time. `Stands` says that
  what a reconcile has done so far, remove or publish points and list its
  service, is still so at its last call, and that an Inspector without a
  finalizer has recorded nothing.
- `NoInspectorForgotten` (`NothingForgotten`), for one operator at a time: for
  each Inspector that exists the operator has a request, works on one, or has a
  watch event to come that makes one. Nothing but the queue brings an Inspector
  back, and `eventFilter` drops events, so a wake-up could be lost between an old
  copy and the request that was made of it. `Remembered` says what the operator
  has no request for: an Inspector that its cache has not seen, or has seen
  dying (`MarkedGuarded`: an object that is being deleted still has its
  finalizer) and that has been released.
- `MonitoredWithoutGaps` (`MonitoringStays`), for unique names and *any* number of
  operators, with leader election or without, as far as those that run together
  have the same pods in their caches (section 2). An Inspector is `Steady` when it is
  monitored as it wants to be, all that is known of it (`CopiesOf`: stored,
  cached, in a worker) agrees on its spec, and no other one claims its addresses
  (`Claims`: those a reconcile may remove or publish). It stays so, in every
  state between calls, until the cluster or a spec changes. `NextMoves` shows
  that every step makes the same few moves: a worker begins on what the cache
  has, goes on, or stops; a copy comes from what is stored. Hence copies and
  claims only shrink (`CopiesKept`, `ClaimsShrink`), and a write of either
  ConfigMap leaves the Inspector's entries (`PointsStay`, `ServiceStays`). It is
  the part of `Converges` that is a safety property: what has converged stays.

`SockStateProofs`, for any number of sockets and lives and any capacity of the
maps: `SpansAreOwn`, `AtMostOneReport`, `TasksAreOwnButForIPv6`,
`TaskLeaksAreIPv6`, `TracedAreReported` and `ReportsImplemented`, the refinement
of `ConnectionReports`, from `ConstantsAssumption` (types; finitely many sockets
and lives, for the maps are counted). The inductive invariant adds that a
life is at one address only, that the maps are empty without the probe, that an
open connection is not reported yet, and that the task of the present life has
its family; for the last two `TracedInv` adds that a traced connection that is
open has its birth in the map. `FullIsCrowded` counts: a full map has the births
of as many other connections, each of its own and open. Every step of the kernel is shown to be a
`Transition` of one socket, and the effect of the handler on that socket's keys
is one lemma (`TraceEffect`). `AtMostOneReport` and `TasksAreOwnButForIPv6` state
parts of `ConnectionReports` on their own; the run checks the whole.

`ProbesProofs`, for any CPUs, threads and bounds: `OwnListenerFound`,
`MapIsEmptied` and `SamplesAreOwn` (a return to a thread counts one sample, for
the listener of its call and the length of that queue, or none if the entry was
missed). All need
`OneCallPerThread`: calls that run at a time have different threads unless the
CPUs are idle, which is what the kernel gives. `ProbesBehave` shows that the two
probes together, as the run checks them, implement the specification of each,
so that everything proved of one holds there; `ProbesTypesHold` is their types.

`GazerProofs`, for any addresses, series, file contents and rows:
`RoundsTellBacklog` and `EventsCountedByConfig`. `Followed` says of an event that
what the handler has found so far it found in a config that there has been since
the event was taken; `Quiet` that a mounted file is never noticed, so the config
stays between restarts; `Told` what a round has told so far, gauge by
gauge. Of the watcher: `KnowsOwnPoints` (between two reads the config has points of this node and services only) and `NoNoticeIsLost` (`NoticesKept`: a
file that is written in place is known, or a notice of it waits or is being
read, and each write that the watch has seen keeps it so). They rest on
`Watched`.

`SherlockProofs`, for any services, models, contents of the file and bucket:
`OnlyNamedScored`, by `Remembered`: what a round works on has been in the file
since it began; and `ScoresAreKept` (`ScoresStay`): scores that are those of the
listed models stay so until the file changes, an answer is lost or a container
starts over.

`ConsoleProofs`, for any services, scores and calls: `ServicesFitScores` and
`TrueGraphStays`. `GoodQueries` says of the three entries of the graph that
services which are there, or on their way, belong to the scores that are there;
it is kept by each fetch, answer and failure. `TrueGraphStays` (`GraphStays`)
says that a graph that tells what is there goes on doing so while nothing changes
or fails: `UpToDate` is that nothing in the cache or on its way is older, and
each refetch keeps it although it blanks the services under their new key.
`PagesBehave` shows that the two pages together, as the run checks them in any
scenario, implement the specification of each; `ConsoleTypesHold` is their types.

`SettingsProofs`, for any namespaces, deployments, services, texts and orders of
the texts, from `TextAssumption`, `SettingsAssumption` (the types of the
constants) and `NoneAssumption` (`None` is no Inspector and no fetch): all the
properties of the settings page that the run `Console` checks.

- `RowsAreOfNamespace`, `RowsAgree`, `ShownRowsAreCurrent`,
  `ServicesOfferedAreOwn` and `HeadTellsRows` follow from `SettingsInv`. None of
  them is inductive: what the page shows comes from entries of the cache that
  were filled, or asked for, under an earlier render. `Good` says what each of
  them promises: rows under a key are of its namespace and of its versions, and
  so is the closure of a fetch in flight. `Page` says that the table shows rows
  of the data of the current key, and that as long as a button observes the
  services they are of the selected namespace, in flight, or carried over
  (`carried`). One lemma, `CommitGood`, shows that a render keeps `Page` whatever
  good cache a handler gives it; one lemma per handler shows that its cache is
  good. About the table, `ArrangedOnce` shows that ranking puts each position
  once and in order, from which `SortedRows` and `FilteredRows` follow.
- `CreationIsShown` needs `OwnInv` as well: the Inspector exists until the
  operator removes it, and once the user has been told of it, with no fetch of
  the Inspectors in flight, every answer on its way has it, and so has the list
  that the page of its namespace has when nothing is in flight or failed.

Type correctness is proved for each of these modules, as a theorem of its own or,
in `SockStateProofs`, in `InductiveInvariant`. All invariants and action
properties that the passing runs check are theorems.

Each proof has the same shape: the invariant holds initially, every action
keeps it (one step per action, one below it per conjunct that the action can
disturb), and it implies the property.

Model-checked only: everything under fairness (`DeletionCompletes`,
`Converges`, `ImplementsFairLifecycle`, `NoticedIsKnown`, `KubePollsOn`,
`BacklogPollsOn`, `EveryListedIsTried`, `ScoresSettle`, `GraphSettles`), which
is out of the prover's reach. Of those that say "in the end and for good" the
"for good" is proved: `MonitoringStays` for `Converges`, `NoticesKept` for
`NoticedIsKnown`, `ScoresStay` for `ScoresSettle` and `GraphStays` for
`GraphSettles`. TLC alone tells that the end is reached.

## 5. Findings

Each has a run whose counterexample shows it.

1. **Unmonitoring can leave scrape points behind** (`OperatorClaimUnmonitor`).
   `gazer-config` is written before the status that records its keys. When the
   status write is refused, because the Inspector was deleted meanwhile, or
   never made, the deletion removes only the keys of the older status
   (`inspector_controller.go:168`), although the dialogue of
   `ui/src/modals/unmonitor.tsx:42` says that the deployment is untracked.
2. **Gazer does not see updates of its config in a cluster** (`WatcherMounted`).
   `config.py:34` watches the file's inode for `IN_CLOSE_WRITE`; a mounted
   ConfigMap is updated by swapping a link. In the counterexample the watch is
   set, the update comes after it, and the process keeps the config of its start.
3. **The usage poller dies without a config** (`GazerUsageUnconfigured`).
   `gazer.py:97` calls `.values()` on `None` outside of the `try`, and the
   chart installs an empty file.
4. **One ill-fitting model ends all scoring** (`SherlockPanic`).
   `inference.rs:64` panics on a prediction of another length, which ends the
   task; the HTTP server goes on exporting the last scores.

Seen while modelling, without a run of their own:

- A recorded address that has moved to a pod of another Inspector is deleted
  from that one's points (`inspector_controller.go:256`), until its next reconcile.
- Points of an interrupted reconcile whose pods are gone stay, although
  line 255 says that all existing points of the Inspector are removed.
- The pod list of line 207 has no namespace: pods of another namespace with
  the same labels are scraped for this Inspector (`Selects` models it).
- `services.yaml` is keyed by the bare name (line 300): of two namesakes in two
  namespaces only the last one reconciled is scored.
- IPv6 connections are not reported, and their tasks stay in `whoami`
  (`sock_state.c:101`); `WrongTaskOnlyAfterIPv6` states exactly the wrong
  attribution that this allows.
- Calls on two idle CPUs share the key 0 of `currsock` (`syn_backlog.c:6`); one
  samples the other's queue or none. `ThreadsFindTheirOwn` holds for the rest.
- Samples counted between `items()` and `clear()` are lost (`gazer.py:121`, `151`).
- Between the two assignments of `read_config` (`config.py:19-20`) the threads see
  the points of every node: `CountedByConfig` lets an event be counted by these.
- An event for a tracked pod that is not a service is not counted at all
  (`gazer.py:77`).
- Without an answer from the metrics server `poll_kube_api` waits for ever, and no
  pod's CPU and memory are told any more: `requests.get` has no timeout
  (`gazer.py:103`). Dropping `WF_vars(KubeAnswers)` from the run's specification
  makes `KubePollsOn` fail.
- Without an answer from a peer Sherlock waits for ever, for all services: its
  clients have no timeout. Dropping `WF_vars(Answers)` from `FairSpec` makes
  `EveryListedIsTried` fail.
- With the chart's pod (`SharedVolume = FALSE`) `ScoresSettle` fails: no model
  is ever loaded.
- A pod without an address yet becomes the key `""` of `gazer-config`, and a
  headless service the key `"None"` (`inspector_controller.go:214`, `232`); two
  Inspectors take these keys from each other. `NoIP` models the first.
- A full accept queue makes the kernel's function return NULL, and the sample is
  counted for address 0 (`syn_backlog.c:26`; `Address` in the model).
- The gauge of a service that is no longer listed, or has changed its namespace,
  keeps its last score until Sherlock restarts (`inference.rs:93`).

On the settings page:

- A refetch that changes a row shows all rows in the order of the answer, while
  the head still marks a sorted column and the search field still has its text
  (`deployments.tsx:114`). `HeadTellsOrder` is about the user's own steps.
- Sorting or searching a table without rows throws: `filterData` reads the keys
  of the first row.
- When the Inspectors cannot be fetched and never were, the query of the
  deployments is not enabled and the page shows an empty table, not an error.
- New Inspectors make a new key, which has no rows yet: the loader takes the
  place of the table, which loses sorting, search and an open dialogue.
- `invalidateQueries` starts no fetch while an older one is in flight, whose
  answer may lack what was just created (`monitor.tsx:86`): `OwnCreationShown`
  leaves this case out (`raced`), and fails with it.
- The key of the services lacks the namespace (`monitor.tsx:46`). A fetch for
  the namespace that was left serves the new one, and a failed fetch leaves the
  old list; `OwnServicesOffered` leaves out just these (`carried`).
- The answer to DELETE is not looked at: a refusal is told as "Inspector
  Deleted" (`unmonitor.tsx:23`). A deleted Inspector that waits for its
  finalizer is still shown as monitored. A POST that gets no answer shows nothing.
- Nothing keeps a second Inspector from being created for a deployment that
  somebody else has begun to monitor; the page shows the first by name.

In the graph:

- Between new services and the next answer for the requests, links may lead to
  a node that is not there any more. `GraphSettles` says that this passes.
- A service that Sherlock has no score for, or the score 0 or NaN, is shown as
  healthy to 100 % (`normlize` of -1).
- Inspectors of one name in two namespaces are one node.

## 6. Not modelled

- `query.rs` below "answered or failed": the queries and the arithmetic of the
  telemetry matrix. It is one pass over numbers that touches no state; of what
  could go wrong there (a range of zero, values below zero, a short series) the
  outcome is a number, or the panic that `Sherlock` has for a row of another
  length.
- The console's tables in `gazer.py`, `console.py`, `gazer/tests`: for development.
- `inspector/main.go`: a proxy without state; requests do not meet in it.
- Of the UI: drawing, notifications, the navigation bar's highlight and burger
  (which opens nothing on small screens), the providers of `App.tsx` and
  `main.tsx` but for the routes, and a dashboard that is left and opened again.
- In the kernel, a return of `tcp_v4_syn_recv_sock` that is not probed (of a call
  that began before both probes were loaded): its listener stays in `currsock`
  until the same thread's next call.
- TensorFlow Serving, Prometheus, the API server, the kernel and react-query:
  external, modelled from how the code uses them.
- Training notebooks, scripts, CI, documentation.

## 7. What is left

1. Composition of operator and consumers: `gazer-config` read by a Gazer and
   `sherlock-config` by Sherlock, with the property that a monitored service is
   counted and scored in the end, and no longer after its deletion. Each half
   is checked: `Converges` up to the ConfigMaps, `NoticedIsKnown` and
   `ScoresSettle` from the files on; the mount between them is finding 2.
2. Mixed scenarios of `MCConsole` with larger bounds. The proofs about the
   settings page do not depend on the scenarios; `GraphSettles` does.
