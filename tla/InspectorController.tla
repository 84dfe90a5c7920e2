------------------------ MODULE InspectorController ------------------------
(***************************************************************************)
(* The lazy-koala operator: control-plane/controllers/                     *)
(* inspector_controller.go, run by the manager of control-plane/main.go.   *)
(*                                                                         *)
(* An Inspector object asks for one deployment to be monitored.  Each      *)
(* operator process keeps a cached copy of the Inspectors and a work       *)
(* queue, and one worker of it reconciles one Inspector at a time: it      *)
(* publishes the deployment's scrape points in the gazer-config ConfigMap, *)
(* its model in the sherlock-config ConfigMap and, last, the addresses it  *)
(* published in the Inspector's own status.  Every call to the API server  *)
(* is a step; between two calls everything else may happen.                *)
(*                                                                         *)
(* Covered: stale caches, optimistic concurrency (resourceVersion) on the  *)
(* Inspectors and on both ConfigMaps, failing calls, crashes, restarts and *)
(* two overlapping operators, users that create, edit and delete           *)
(* Inspectors, pods, deployments and services that come and go.            *)
(* Not covered: the text of the YAML files, pod and node names, several    *)
(* namespaces for the ConfigMaps (the code fixes "lazy-koala").            *)
(***************************************************************************)
EXTENDS FiniteSets

CONSTANTS
    Operators,      \* operator processes (pods of the control-plane deployment)
    Inspectors,     \* Inspector objects, by namespace and name
    Names,          \* their bare names, the keys of services.yaml
    NameOf,         \* [Inspectors -> Names]
    Deployments, Services, Models,
    Selects,        \* [Deployments -> SUBSET Deployments]: whose pods carry
                    \*   the labels that the deployment's selector asks for
    PodIPs,         \* pod addresses; NoIP may be one of them
    NoIP,           \* "", the address of a pod that is still pending
    ServiceIPs,     \* cluster IPs
    SpecOptions,    \* [Inspectors -> SUBSET InspectorSpec]: what users write
    LeaderElection, \* the -leader-elect flag of main.go
    PodsAtStart, ClusterIPAtStart,  \* the cluster before the operator runs
    Disturbances,   \* what users, the cluster and the network may do
    Absent          \* "there is none"

IPs == PodIPs \cup ServiceIPs

InspectorSpec ==
    [deployment : Deployments, service : Services, model : Models]

\* An Inspector as the API server stores it.
Object ==
    [spec : InspectorSpec, deleting : BOOLEAN, finalizer : BOOLEAN,
     monitoredIPs : SUBSET IPs, status : {"", "Running"}]

\* A value of config.yaml: the Inspector stands for the pair
\* serviceName, namespace that the code writes.
ScrapePoint == [inspector : Inspectors, isService : BOOLEAN]
GazerConfig == [IPs -> ScrapePoint \cup {Absent}]

\* A value of services.yaml: the Inspector stands for the namespace.
InferenceData == [inspector : Inspectors, model : Models]
ServiceList == [Names -> InferenceData \cup {Absent}]

ASSUME ConstantsAssumption ==
    /\ NameOf \in [Inspectors -> Names]
    /\ Selects \in [Deployments -> SUBSET Deployments]
    /\ SpecOptions \in [Inspectors -> SUBSET InspectorSpec]
    /\ PodsAtStart \in [Deployments -> SUBSET PodIPs]
    /\ ClusterIPAtStart \in [Services -> ServiceIPs]
    /\ LeaderElection \in BOOLEAN

ASSUME AbsentAssumption ==
    /\ Absent \notin Inspectors
    /\ Absent \notin Object
    /\ Absent \notin ScrapePoint
    /\ Absent \notin InferenceData
    /\ Absent \notin ServiceIPs

VARIABLES
    inspector,    \* [Inspectors -> Object \cup {Absent}], in the API server
    gazerConfig,  \* config.yaml of the gazer-config ConfigMap
    serviceList,  \* services.yaml of the sherlock-config ConfigMap
    modelsConfig, \* the models named by its models.config
    deployed,     \* the deployments that exist
    pods,         \* [Deployments -> SUBSET PodIPs]
    clusterIP,    \* [Services -> ServiceIPs \cup {Absent}]
    up,           \* the operators that run (and hold the lease, if any)
    cache,        \* [Operators -> [Inspectors -> a copy and whether it has
                  \*   the resourceVersion of the stored object]]
    queue,        \* [Operators -> SUBSET Inspectors]: the work queue, the
                  \*   delayed requeues included
    worker        \* [Operators -> Worker]: the reconcile that is running

configs == <<gazerConfig, serviceList, modelsConfig>>
cluster == <<deployed, pods, clusterIP>>
vars == <<inspector, configs, cluster, up, cache, queue, worker>>

\* The local variables of Reconcile.  pc names the next API call.  fresh tells
\* which of the copies it holds still have the stored resourceVersion.
Calls == {"addFinalizer", "removeRead", "removeWrite", "listPods", "gazerRead",
          "gazerWrite", "sherlockRead", "sherlockCheck", "sherlockWrite",
          "removeFinalizer", "statusWrite"}

Copies == {"inspector", "gazer", "sherlock"}

CachedObject == [obj : Object \cup {Absent}, current : BOOLEAN]

Worker ==
    [pc : Calls \cup {"idle"}, req : Inspectors \cup {Absent},
     insp : Object \cup {Absent}, points : GazerConfig,
     gazer : GazerConfig, services : ServiceList, fresh : SUBSET Copies]

NoPoints == [ip \in IPs |-> Absent]
NoServices == [n \in Names |-> Absent]

Idle == [pc |-> "idle", req |-> Absent, insp |-> Absent, points |-> NoPoints,
         gazer |-> NoPoints, services |-> NoServices, fresh |-> {}]

Init ==
    /\ inspector = [i \in Inspectors |-> Absent]
    /\ gazerConfig = NoPoints
    /\ serviceList = NoServices
    /\ modelsConfig = {}
    /\ deployed = Deployments
    /\ pods = PodsAtStart
    /\ clusterIP = ClusterIPAtStart
    /\ up = {}
    /\ cache = [o \in Operators |-> [i \in Inspectors |->
                    [obj |-> Absent, current |-> TRUE]]]
    /\ queue = [o \in Operators |-> {}]
    /\ worker = [o \in Operators |-> Idle]

-----------------------------------------------------------------------------
(* What the code computes from its copies. *)

\* The domain of a map of config.yaml: the keys it holds.
Keys(points) == {ip \in IPs : points[ip] # Absent}

\* The scrape points of configureGazer: the pods that the selector finds, then
\* the cluster IP, which overrides a pod with the same key.
ScrapePoints(i, spec) ==
    LET found == UNION {pods[d] : d \in Selects[spec.deployment]}
    IN  [ip \in IPs |->
            IF ip = clusterIP[spec.service] THEN [inspector |-> i, isService |-> TRUE]
            ELSE IF ip \in found THEN [inspector |-> i, isService |-> FALSE]
            ELSE Absent]

\* config.yaml without the keys that the Inspector's status records.
Removed(gz, recorded) == [ip \in IPs |-> IF ip \in recorded THEN Absent ELSE gz[ip]]

\* config.yaml with the new scrape points over what is there.
Added(gz, points) == [ip \in IPs |-> IF points[ip] # Absent THEN points[ip] ELSE gz[ip]]

\* What a reconcile puts under its Inspector's name in services.yaml: its model,
\* or nothing when the Inspector is being deleted.
Entry(w) ==
    IF w.insp.deleting THEN Absent
    ELSE [inspector |-> w.req, model |-> w.insp.spec.model]

\* Seeded defect: the list of models gets the services' entries.
ModelsOfEntries(list) == {list[n] : n \in {m \in Names : list[m] # Absent}}

\* The models that createServingsConfig is given.
ModelsOf(list) == {list[n].model : n \in {m \in Names : list[m] # Absent}}

\* Seeded defect: the finalizer is never added.
FirstCallUnguarded(obj) ==
    CASE obj = Absent -> "idle"
      [] obj # Absent /\ ~obj.deleting -> "listPods"
      [] obj # Absent /\ obj.deleting -> "removeRead"

\* Seeded defect: a deleted Inspector's scrape points are not removed.
FirstCallKeepsPoints(obj) ==
    CASE obj = Absent -> "idle"
      [] obj # Absent /\ ~obj.deleting /\ ~obj.finalizer -> "addFinalizer"
      [] obj # Absent /\ ~obj.deleting /\ obj.finalizer -> "listPods"
      [] obj # Absent /\ obj.deleting -> "sherlockRead"

\* The first API call of Reconcile, given the cached object.
FirstCall(obj) ==
    CASE obj = Absent -> "idle"
      [] obj # Absent /\ ~obj.deleting /\ ~obj.finalizer -> "addFinalizer"
      [] obj # Absent /\ ~obj.deleting /\ obj.finalizer -> "listPods"
      [] obj # Absent /\ obj.deleting /\ obj.finalizer -> "removeRead"
      [] obj # Absent /\ obj.deleting /\ ~obj.finalizer -> "idle"

-----------------------------------------------------------------------------
(* What a write does to the copies that others hold. *)

\* Every cached copy of Inspector i is now old.
CacheOutdated(i) ==
    [o \in Operators |-> [cache[o] EXCEPT ![i].current = FALSE]]

\* Every worker's copy of Inspector i is now old.
InspectorOutdated(i) ==
    [o \in Operators |->
        IF worker[o].req = i THEN [worker[o] EXCEPT !.fresh = @ \ {"inspector"}]
        ELSE worker[o]]

\* Every worker's copy of a ConfigMap is now old, if a write changed it.
ConfigOutdated(copy, changed) ==
    [o \in Operators |->
        IF changed THEN [worker[o] EXCEPT !.fresh = @ \ {copy}] ELSE worker[o]]

\* Reconcile returns and its request goes back to the queue: an error, a
\* Requeue or a RequeueAfter.
Requeue(o) == queue' = [queue EXCEPT ![o] = @ \cup {worker[o].req}]

-----------------------------------------------------------------------------
(* Reconcile, call by call. *)

Holds(o, copy) == copy \in worker[o].fresh

StartReconcile(o, i) ==
    LET obj == cache[o][i].obj
        call == FirstCall(obj)
    IN
    /\ o \in up
    /\ worker[o].pc = "idle"
    /\ i \in queue[o]
    /\ queue' = [queue EXCEPT ![o] = @ \ {i}]
    /\ worker' = [worker EXCEPT ![o] =
            IF call = "idle" THEN Idle
            ELSE [Idle EXCEPT !.pc = call, !.req = i, !.insp = obj,
                              !.fresh = IF cache[o][i].current THEN {"inspector"} ELSE {}]]
    /\ UNCHANGED <<inspector, configs, cluster, up, cache>>

\* A write of the Inspector ends the reconcile.
StoreInspector(o, obj) ==
    /\ inspector' = [inspector EXCEPT ![worker[o].req] = obj]
    /\ cache' = CacheOutdated(worker[o].req)
    /\ worker' = [InspectorOutdated(worker[o].req) EXCEPT ![o] = Idle]
    /\ UNCHANGED <<configs, cluster, up>>

AddFinalizer(o) ==
    /\ worker[o].pc = "addFinalizer"
    /\ Holds(o, "inspector")
    /\ StoreInspector(o, [worker[o].insp EXCEPT !.finalizer = TRUE])
    /\ Requeue(o)

\* The Get of a ConfigMap.
ReadGazer(o, next) ==
    /\ worker' = [worker EXCEPT ![o].pc = next, ![o].gazer = gazerConfig,
                                ![o].fresh = @ \cup {"gazer"}]
    /\ UNCHANGED <<inspector, configs, cluster, up, cache, queue>>

\* The Update of gazer-config.  Written back unchanged, it keeps its version.
StoreGazer(o, gz, next) ==
    /\ gazerConfig' = gz
    /\ worker' = [ConfigOutdated("gazer", gz # gazerConfig) EXCEPT
                    ![o] = [worker[o] EXCEPT !.pc = next, !.gazer = NoPoints,
                                             !.fresh = @ \ {"gazer"}]]
    /\ UNCHANGED <<inspector, serviceList, modelsConfig, cluster, up, cache, queue>>

\* removeMonitoredIPs: Get gazer-config, remove the recorded keys, Update.
RemoveRead(o) == worker[o].pc = "removeRead" /\ ReadGazer(o, "removeWrite")

Remaining(o) == Removed(worker[o].gazer, worker[o].insp.monitoredIPs)

\* Seeded defect: the service of a deleted Inspector is not unlisted.
RemoveWriteSkipsSherlock(o) ==
    /\ worker[o].pc = "removeWrite"
    /\ Holds(o, "gazer")
    /\ StoreGazer(o, Remaining(o), "removeFinalizer")

RemoveWrite(o) ==
    /\ worker[o].pc = "removeWrite"
    /\ Holds(o, "gazer")
    /\ StoreGazer(o, Remaining(o), "sherlockRead")

\* configureGazer up to its scrape points: the deployment, the pods of any
\* namespace that match its selector, the service.  The code reads them from the
\* manager's cache: the cluster of this module is what the running operators see.
ListPods(o) ==
    LET spec == worker[o].insp.spec IN
    /\ worker[o].pc = "listPods"
    /\ spec.deployment \in deployed
    /\ clusterIP[spec.service] # Absent
    /\ worker' = [worker EXCEPT ![o].pc = "gazerRead",
                                ![o].points = ScrapePoints(worker[o].req, spec)]
    /\ UNCHANGED <<inspector, configs, cluster, up, cache, queue>>

GazerRead(o) == worker[o].pc = "gazerRead" /\ ReadGazer(o, "gazerWrite")

\* Seeded defects: a write over any version of the map, a reconcile that goes on
\* to its status when Sherlock could not be configured, and one that removes the
\* recorded keys when it has put the new ones.
GazerWriteBlind(o) ==
    /\ worker[o].pc = "gazerWrite"
    /\ StoreGazer(o, Added(Remaining(o), worker[o].points), "sherlockRead")

GazerWriteSkipsSherlock(o) ==
    /\ worker[o].pc = "gazerWrite"
    /\ Holds(o, "gazer")
    /\ StoreGazer(o, Added(Remaining(o), worker[o].points), "statusWrite")

GazerWriteRemovesLast(o) ==
    /\ worker[o].pc = "gazerWrite"
    /\ Holds(o, "gazer")
    /\ StoreGazer(o, Removed(Added(worker[o].gazer, worker[o].points),
                             worker[o].insp.monitoredIPs), "sherlockRead")

GazerWrite(o) ==
    /\ worker[o].pc = "gazerWrite"
    /\ Holds(o, "gazer")
    /\ StoreGazer(o, Added(Remaining(o), worker[o].points), "sherlockRead")

\* configureSherlock: Get sherlock-config and put or delete the key, ...
SherlockRead(o) ==
    /\ worker[o].pc = "sherlockRead"
    /\ worker' = [worker EXCEPT
            ![o].pc = "sherlockCheck",
            ![o].services = [serviceList EXCEPT ![NameOf[worker[o].req]] = Entry(worker[o])],
            ![o].fresh = @ \cup {"sherlock"}]
    /\ UNCHANGED <<inspector, configs, cluster, up, cache, queue>>

\* ... Update the ConfigMap as it was read, which stores nothing new but is
\* refused when the copy is old, ...
SherlockCheck(o) ==
    /\ worker[o].pc = "sherlockCheck"
    /\ Holds(o, "sherlock")
    /\ worker' = [worker EXCEPT ![o].pc = "sherlockWrite"]
    /\ UNCHANGED <<inspector, configs, cluster, up, cache, queue>>

StoreSherlock(o, list, models) ==
    LET next == IF worker[o].insp.deleting THEN "removeFinalizer" ELSE "statusWrite" IN
    /\ serviceList' = list
    /\ modelsConfig' = models
    /\ worker' = [ConfigOutdated("sherlock", list # serviceList) EXCEPT
                    ![o] = [worker[o] EXCEPT !.pc = next, !.services = NoServices,
                                             !.fresh = @ \ {"sherlock"}]]
    /\ UNCHANGED <<inspector, gazerConfig, cluster, up, cache, queue>>

\* Seeded defect: a write over any version of the list.
SherlockWriteBlind(o) ==
    /\ worker[o].pc = "sherlockWrite"
    /\ StoreSherlock(o, worker[o].services, ModelsOf(worker[o].services))

\* ... and Update it again with the new list and its models.
SherlockWrite(o) ==
    /\ worker[o].pc = "sherlockWrite"
    /\ Holds(o, "sherlock")
    /\ StoreSherlock(o, worker[o].services, ModelsOf(worker[o].services))

\* Without its last finalizer a deleted object is gone.
RemoveFinalizer(o) ==
    /\ worker[o].pc = "removeFinalizer"
    /\ Holds(o, "inspector")
    /\ StoreInspector(o, Absent)
    /\ UNCHANGED queue

\* What the reconcile reports: the keys of its scrape points.
Reported(o) ==
    [worker[o].insp EXCEPT !.monitoredIPs = Keys(worker[o].points),
                           !.status = "Running"]

\* The list of addresses comes out of a Go map in random order: a write of the
\* same set changes the object or does not.
StoreStatus(o) ==
    \/ StoreInspector(o, Reported(o))
    \/ /\ Reported(o) = worker[o].insp
       /\ worker' = [worker EXCEPT ![o] = Idle]
       /\ UNCHANGED <<inspector, configs, cluster, up, cache>>

\* Seeded defects: a status over any version of the Inspector, and no requeue
\* after a minute.
StatusWriteBlind(o) ==
    /\ worker[o].pc = "statusWrite"
    /\ inspector[worker[o].req] # Absent
    /\ StoreInspector(o, [inspector[worker[o].req] EXCEPT
            !.monitoredIPs = Keys(worker[o].points), !.status = "Running"])
    /\ Requeue(o)

StatusWriteOnce(o) ==
    /\ worker[o].pc = "statusWrite"
    /\ Holds(o, "inspector")
    /\ StoreStatus(o)
    /\ UNCHANGED queue

StatusWrite(o) ==
    /\ worker[o].pc = "statusWrite"
    /\ Holds(o, "inspector")
    /\ StoreStatus(o)
    /\ Requeue(o)

-----------------------------------------------------------------------------
(* Calls that fail: Reconcile returns the error and is retried. *)

\* The copy that a call needs to be fresh.
Needs(call) ==
    CASE call \in {"addFinalizer", "removeFinalizer", "statusWrite"} -> "inspector"
      [] call \in {"removeWrite", "gazerWrite"} -> "gazer"
      [] call \in {"sherlockCheck", "sherlockWrite"} -> "sherlock"
      [] OTHER -> "nothing"

\* Seeded defect: the error is logged and not returned.
FailSilently(o) ==
    /\ worker' = [worker EXCEPT ![o] = Idle]
    /\ UNCHANGED <<inspector, configs, cluster, up, cache, queue>>

Fail(o) ==
    /\ worker' = [worker EXCEPT ![o] = Idle]
    /\ Requeue(o)
    /\ UNCHANGED <<inspector, configs, cluster, up, cache>>

\* The API server refuses a write with an old resourceVersion.
Conflict(o) ==
    /\ Needs(worker[o].pc) \in Copies \ worker[o].fresh
    /\ Fail(o)

\* The deployment or the service that the Inspector names does not exist.
MissingRef(o) ==
    LET spec == worker[o].insp.spec IN
    /\ worker[o].pc = "listPods"
    /\ \/ spec.deployment \notin deployed
       \/ clusterIP[spec.service] = Absent
    /\ Fail(o)

\* Any call may fail.  This is also what becomes of a Get that finds an old
\* ConfigMap in the cache: the write that follows is refused.
APIError(o) ==
    /\ "api" \in Disturbances
    /\ worker[o].pc # "idle"
    /\ Fail(o)

-----------------------------------------------------------------------------
(* The manager: its cache, its queue, its life. *)

\* The watch delivers what is stored.  eventFilter drops an update that leaves
\* the generation alone; spec and deletion timestamp move it, status and
\* finalizers do not.
Enqueues(old, new) ==
    \/ Absent \in {old, new}
    \/ old.spec # new.spec
    \/ old.deleting # new.deleting

SyncCache(o, i) ==
    /\ o \in up
    /\ ~cache[o][i].current
    /\ cache' = [cache EXCEPT ![o][i] = [obj |-> inspector[i], current |-> TRUE]]
    /\ queue' = IF Enqueues(cache[o][i].obj, inspector[i])
                THEN [queue EXCEPT ![o] = @ \cup {i}] ELSE queue
    /\ UNCHANGED <<inspector, configs, cluster, up, worker>>

\* The manager lists every Inspector, and each is a create event.
StartOperator(o) ==
    /\ o \notin up
    /\ LeaderElection => up = {}
    /\ up' = up \cup {o}
    /\ cache' = [cache EXCEPT ![o] = [i \in Inspectors |->
                    [obj |-> inspector[i], current |-> TRUE]]]
    /\ queue' = [queue EXCEPT ![o] = {i \in Inspectors : inspector[i] # Absent}]
    /\ UNCHANGED <<inspector, configs, cluster, worker>>

\* A crash, an eviction or a lost lease: all of its memory goes.
StopOperator(o) ==
    /\ "crash" \in Disturbances
    /\ o \in up
    /\ up' = up \ {o}
    /\ cache' = [cache EXCEPT ![o] = [i \in Inspectors |->
                    [obj |-> Absent, current |-> TRUE]]]
    /\ queue' = [queue EXCEPT ![o] = {}]
    /\ worker' = [worker EXCEPT ![o] = Idle]
    /\ UNCHANGED <<inspector, configs, cluster>>

-----------------------------------------------------------------------------
(* Users. *)

CreateInspector(i) ==
    /\ inspector[i] = Absent
    /\ \E spec \in SpecOptions[i] :
        inspector' = [inspector EXCEPT ![i] =
            [spec |-> spec, deleting |-> FALSE, finalizer |-> FALSE,
             monitoredIPs |-> {}, status |-> ""]]
    /\ cache' = CacheOutdated(i)
    /\ worker' = InspectorOutdated(i)
    /\ UNCHANGED <<configs, cluster, up, queue>>

UpdateSpec(i) ==
    /\ "spec" \in Disturbances
    /\ inspector[i] # Absent
    /\ \E spec \in SpecOptions[i] :
        /\ spec # inspector[i].spec
        /\ inspector' = [inspector EXCEPT ![i].spec = spec]
    /\ cache' = CacheOutdated(i)
    /\ worker' = InspectorOutdated(i)
    /\ UNCHANGED <<configs, cluster, up, queue>>

\* An object with a finalizer is only marked.
DeleteInspector(i) ==
    /\ "delete" \in Disturbances
    /\ inspector[i] # Absent
    /\ ~inspector[i].deleting
    /\ inspector' = [inspector EXCEPT ![i] =
            IF @.finalizer THEN [@ EXCEPT !.deleting = TRUE] ELSE Absent]
    /\ cache' = CacheOutdated(i)
    /\ worker' = InspectorOutdated(i)
    /\ UNCHANGED <<configs, cluster, up, queue>>

-----------------------------------------------------------------------------
(* The cluster. *)

PodStart(d, ip) ==
    /\ "pods" \in Disturbances
    /\ d \in deployed
    /\ ip \notin pods[d]
    /\ ip # NoIP => \A e \in Deployments : ip \notin pods[e]
    /\ pods' = [pods EXCEPT ![d] = @ \cup {ip}]
    /\ UNCHANGED <<inspector, configs, deployed, clusterIP, up, cache, queue, worker>>

PodStop(d, ip) ==
    /\ "pods" \in Disturbances
    /\ ip \in pods[d]
    /\ pods' = [pods EXCEPT ![d] = @ \ {ip}]
    /\ UNCHANGED <<inspector, configs, deployed, clusterIP, up, cache, queue, worker>>

ToggleDeployment(d) ==
    /\ "deployments" \in Disturbances
    /\ deployed' = IF d \in deployed THEN deployed \ {d} ELSE deployed \cup {d}
    /\ UNCHANGED <<inspector, configs, pods, clusterIP, up, cache, queue, worker>>

CreateService(s, ip) ==
    /\ "services" \in Disturbances
    /\ clusterIP[s] = Absent
    /\ \A t \in Services : clusterIP[t] # ip
    /\ clusterIP' = [clusterIP EXCEPT ![s] = ip]
    /\ UNCHANGED <<inspector, configs, deployed, pods, up, cache, queue, worker>>

DeleteService(s) ==
    /\ "services" \in Disturbances
    /\ clusterIP[s] # Absent
    /\ clusterIP' = [clusterIP EXCEPT ![s] = Absent]
    /\ UNCHANGED <<inspector, configs, deployed, pods, up, cache, queue, worker>>

-----------------------------------------------------------------------------

\* The calls of a reconcile that is running, the refused ones included.
WorkerStep(o) ==
    \/ AddFinalizer(o) \/ RemoveRead(o) \/ RemoveWrite(o) \/ ListPods(o)
    \/ GazerRead(o) \/ GazerWrite(o)
    \/ SherlockRead(o) \/ SherlockCheck(o) \/ SherlockWrite(o)
    \/ RemoveFinalizer(o) \/ StatusWrite(o)
    \/ Conflict(o) \/ MissingRef(o)

User(i) == CreateInspector(i) \/ UpdateSpec(i) \/ DeleteInspector(i)

Cluster ==
    \/ \E d \in Deployments, ip \in PodIPs : PodStart(d, ip) \/ PodStop(d, ip)
    \/ \E d \in Deployments : ToggleDeployment(d)
    \/ \E s \in Services, ip \in ServiceIPs : CreateService(s, ip)
    \/ \E s \in Services : DeleteService(s)

Fault(o) == APIError(o) \/ StopOperator(o)

Next ==
    \/ \E o \in Operators :
        \/ WorkerStep(o) \/ Fault(o) \/ StartOperator(o)
        \/ \E i \in Inspectors : StartReconcile(o, i) \/ SyncCache(o, i)
    \/ \E i \in Inspectors : User(i)
    \/ Cluster

Spec == Init /\ [][Next]_vars

\* The work queue is FIFO and every requeue is delayed by a bounded time, so a
\* request in it is served again and again unless the worker stops; a worker
\* has a result for each of its calls; the watch delivers; and Kubernetes
\* restarts the deployment's pod.
Fairness ==
    /\ \A o \in Operators : WF_vars(WorkerStep(o))
    /\ \A o \in Operators, i \in Inspectors :
            SF_vars(StartReconcile(o, i)) /\ WF_vars(SyncCache(o, i))
    /\ WF_vars(\E o \in Operators : StartOperator(o))

FairSpec == Spec /\ Fairness

-----------------------------------------------------------------------------
(* Properties. *)

TypeOK ==
    /\ inspector \in [Inspectors -> Object \cup {Absent}]
    /\ gazerConfig \in GazerConfig
    /\ serviceList \in ServiceList
    /\ modelsConfig \subseteq Models
    /\ deployed \subseteq Deployments
    /\ pods \in [Deployments -> SUBSET PodIPs]
    /\ clusterIP \in [Services -> ServiceIPs \cup {Absent}]
    /\ up \subseteq Operators
    /\ cache \in [Operators -> [Inspectors -> CachedObject]]
    /\ queue \in [Operators -> SUBSET Inspectors]
    /\ worker \in [Operators -> Worker]

\* A write of gazer-config changes no key but those that its Inspector
\* recorded or that the reconcile has just computed: whatever the order in
\* which two reconcilers read and write the map, neither loses the other's
\* scrape points (Update, lines 182 and 275, on the map read at 154 and 241).
OwnPointsStep ==
    gazerConfig' # gazerConfig =>
        \E o \in Operators :
            LET w == worker[o] IN
            /\ w.pc \in {"removeWrite", "gazerWrite"}
            /\ \A ip \in IPs \ (w.insp.monitoredIPs \cup Keys(w.points)) :
                    gazerConfig'[ip] = gazerConfig[ip]

OnlyOwnPointsTouched == [][OwnPointsStep]_vars

\* The same for services.yaml: a write of sherlock-config changes no service but
\* the one of the Inspector that is reconciled.
OwnServiceStep ==
    serviceList' # serviceList =>
        \E o \in Operators :
            /\ worker[o].pc = "sherlockWrite"
            /\ \A n \in Names \ {NameOf[worker[o].req]} :
                    serviceList'[n] = serviceList[n]

OnlyOwnServiceTouched == [][OwnServiceStep]_vars

\* A service that Sherlock is told to score has an Inspector that still holds
\* the finalizer, so there is someone left to remove it: the finalizer is
\* stored before the service is listed and dropped after it is unlisted.
SherlockOwned ==
    LeaderElection =>
        \A n \in Names : serviceList[n] # Absent =>
            LET i == serviceList[n].inspector IN
            /\ inspector[i] # Absent
            /\ inspector[i].finalizer

\* The same at the moment a scrape point is published for Gazer: no step
\* publishes one for an Inspector that is gone or has no finalizer.
PublishStep ==
    LeaderElection =>
        \A ip \in IPs :
            LET p == gazerConfig'[ip] IN
            p \notin {Absent, gazerConfig[ip]} =>
                /\ inspector[p.inspector] # Absent
                /\ inspector[p.inspector].finalizer

PublishedUnderFinalizer == [][PublishStep]_vars

UniqueNames == \A i, j \in Inspectors : NameOf[i] = NameOf[j] => i = j

\* An Inspector that users see as Running, and have not deleted, is in
\* Sherlock's list, although the list, its ConfigMap and the status are
\* written by different calls and any of them may fail.
SherlockServesRunning ==
    LeaderElection /\ UniqueNames =>
        \A i \in Inspectors :
            /\ inspector[i] # Absent
            /\ inspector[i].status = "Running"
            /\ ~inspector[i].deleting
            => /\ serviceList[NameOf[i]] # Absent
               /\ serviceList[NameOf[i]].inspector = i

\* A reconcile that reports addresses, or that the Inspector runs, tells the
\* truth as of that step: each address it records is tracked for the Inspector,
\* and the service is listed with the model that the stored spec names, however
\* long ago the reconcile read the spec and wrote the two ConfigMaps.
TruthfulStep ==
    LeaderElection =>
        \A o \in Operators : StatusWrite(o) =>
            LET i == worker[o].req IN
            /\ \A ip \in inspector'[i].monitoredIPs :
                    gazerConfig[ip] # Absent /\ gazerConfig[ip].inspector = i
            /\ serviceList[NameOf[i]] =
                    [inspector |-> i, model |-> inspector'[i].spec.model]

StatusIsTruthful == [][TruthfulStep]_vars

\* When an Inspector disappears, no address that its status recorded is still
\* tracked for it.
RemovalStep ==
    LeaderElection =>
        \A i \in Inspectors : inspector[i] # Absent /\ inspector'[i] = Absent =>
            \A ip \in inspector[i].monitoredIPs :
                gazerConfig[ip] # Absent => gazerConfig[ip].inspector # i

RecordedPointsRemoved == [][RemovalStep]_vars

\* The work queue holds it or the worker has it; or the watch is about to deliver
\* a change of it that eventFilter lets through.
Requested(o, i) ==
    i \in queue[o] \/ (worker[o].pc # "idle" /\ worker[o].req = i)

Attended(o, i) ==
    \/ Requested(o, i)
    \/ ~cache[o][i].current /\ Enqueues(cache[o][i].obj, inspector[i])

\* No wake-up is lost: an operator that runs never forgets an Inspector that
\* exists, although a request leaves the queue before its work is done, an update
\* of status or finalizers is filtered out, several updates may reach the cache
\* as one, and a reconcile that finds nothing to do or ends a deletion is not
\* requeued.
NothingForgotten ==
    LeaderElection =>
        \A o \in up, i \in Inspectors : inspector[i] # Absent => Attended(o, i)

\* "Deleting [it] will result in [the] deployment and [the service] and ClusterIP
\* being untracked and exluded from service graph" (ui/src/modals/
\* unmonitor.tsx:42).  Once an Inspector is gone, nothing is tracked for it.
UnmonitorUntracks ==
    \A i \in Inspectors : inspector[i] = Absent =>
        \A ip \in Keys(gazerConfig) : gazerConfig[ip].inspector # i

\* An operator stops, or a call fails that had an answer: neither refused for an
\* old version nor in want of what it asks for.
Faulty ==
    \E o \in Operators :
        StopOperator(o) \/ (APIError(o) /\ ~Conflict(o) /\ ~MissingRef(o))

Disturbed == Faulty \/ (\E i \in Inspectors : User(i)) \/ Cluster

\* When calls stop failing and nobody edits the object, an Inspector that is
\* being deleted goes away: also when its deployment or its service is gone,
\* and whatever pods and other Inspectors do.
DeletionCompletes ==
    \A i \in Inspectors :
        <>[][~Faulty /\ ~UpdateSpec(i)]_vars =>
            [](inspector[i] # Absent /\ inspector[i].deleting
                => <>(inspector[i] = Absent))

\* What an Inspector asks for can be had: its deployment and service exist.
Wanted(i) ==
    /\ inspector[i] # Absent
    /\ ~inspector[i].deleting
    /\ inspector[i].spec.deployment \in deployed
    /\ clusterIP[inspector[i].spec.service] # Absent

\* Its addresses are tracked for it and recorded in its status, and its service
\* is listed with the model it names.
Monitored(i) ==
    LET spec == inspector[i].spec
        points == ScrapePoints(i, spec)
    IN
    /\ \A ip \in Keys(points) : gazerConfig[ip] = points[ip]
    /\ inspector[i].monitoredIPs = Keys(points)
    /\ inspector[i].status = "Running"
    /\ serviceList[NameOf[i]] = [inspector |-> i, model |-> spec.model]

\* When users, the cluster and the network leave it in peace, the operator
\* brings every Inspector it can to what it asks for, and keeps it there: the
\* watch does not see pods, so this rests on the requeue after a minute.
Converges ==
    <>[][~Disturbed]_vars =>
        \A i \in Inspectors : <>[](Wanted(i) => Monitored(i))

Busy(o, i) == worker[o].pc # "idle" /\ worker[o].req = i

\* What is known of an Inspector: in the API server, to caches and to workers.
CopiesOf(i) ==
    {inspector[i]} \cup {cache[o][i].obj : o \in up}
        \cup {worker[o].insp : o \in {p \in Operators : Busy(p, i)}}

\* The addresses that a reconcile of the Inspector may remove or publish.
Claims(i) ==
    UNION ({obj.monitoredIPs \cup Keys(ScrapePoints(i, obj.spec)) :
                obj \in CopiesOf(i) \ {Absent}}
           \cup {Keys(worker[o].points) : o \in {p \in Operators : Busy(p, i)}})

\* Nobody works for an earlier spec, pods that have gone or a deletion.
Agreed(i) ==
    /\ \A obj \in CopiesOf(i) \ {Absent} : obj.spec = inspector[i].spec /\ ~obj.deleting
    /\ \A o \in Operators :
            Busy(o, i) /\ worker[o].pc \notin {"addFinalizer", "listPods"} =>
                worker[o].points = ScrapePoints(i, inspector[i].spec)

\* The Inspector is monitored as it wants to be, and nothing under way disputes it.
Steady(i) ==
    /\ Wanted(i) /\ Monitored(i) /\ Agreed(i)
    /\ \A j \in Inspectors \ {i} :
            Keys(ScrapePoints(i, inspector[i].spec)) \cap Claims(j) = {}

Unsettled(i) ==
    Cluster \/ DeleteInspector(i) \/ \E j \in Inspectors : CreateInspector(j) \/ UpdateSpec(j)

\* Once it is steady, an Inspector is monitored without interruption, although each
\* reconcile takes its scrape points away and puts them back: until the cluster
\* or the specs change, no crash, failing call, old copy, second operator or
\* deletion of another Inspector takes them out, not for a moment.  Of operators
\* that run together this supposes that their caches have the same pods.
MonitoringStays ==
    [][UniqueNames => \A i \in Inspectors : Steady(i) /\ ~Unsettled(i) => Steady(i)']_vars

-----------------------------------------------------------------------------
(* The promise that the operator implements. *)

PhaseOf(obj) ==
    IF obj = Absent THEN "absent"
    ELSE IF obj.deleting THEN "finalizing"
    ELSE IF obj.finalizer THEN "guarded"
    ELSE "declared"

Listed ==
    {i \in Inspectors : /\ serviceList[NameOf[i]] # Absent
                        /\ serviceList[NameOf[i]].inspector = i}

Lifecycle == INSTANCE MonitoringLifecycle
                WITH phase <- [i \in Inspectors |-> PhaseOf(inspector[i])],
                     listed <- Listed

\* One operator at a time, whatever fails, crashes, lags or is edited, takes
\* every Inspector through the life that MonitoringLifecycle promises.
ImplementsLifecycle == Lifecycle!Spec

\* Without failures it also takes every Inspector through all of it.
ImplementsFairLifecycle == Lifecycle!FairSpec

-----------------------------------------------------------------------------
(* What makes the properties inductive; the proofs use it. *)

\* A copy that is not old is the stored one.  For services.yaml the worker
\* already holds what it will write.
FreshCopies(o) ==
    LET w == worker[o] IN
    /\ "gazer" \in w.fresh => w.gazer = gazerConfig
    /\ "sherlock" \in w.fresh =>
        w.services = [serviceList EXCEPT ![NameOf[w.req]] = Entry(w)]
    /\ "inspector" \in w.fresh =>
        inspector[w.req] = w.insp /\ cache[o][w.req].obj = w.insp

FreshCache(o) ==
    o \in up => \A i \in Inspectors :
                    cache[o][i].current => cache[o][i].obj = inspector[i]

Coherent == \A o \in Operators : FreshCopies(o) /\ FreshCache(o)

\* Only a running operator works, and where a worker is tells what it read.
PathOK(w) ==
    /\ w.pc = "idle" => w.fresh = {}
    /\ w.pc \in {"listPods", "gazerRead", "gazerWrite", "statusWrite"} =>
        ~w.insp.deleting /\ w.insp.finalizer
    /\ w.pc \in {"removeRead", "removeWrite", "removeFinalizer"} =>
        w.insp.deleting /\ w.insp.finalizer
    /\ w.pc \in {"sherlockRead", "sherlockCheck", "sherlockWrite"} =>
        w.insp.finalizer
    /\ \A ip \in IPs : w.points[ip] # Absent => w.points[ip].inspector = w.req

OnItsPath ==
    \A o \in Operators :
        PathOK(worker[o]) /\ (worker[o].pc # "idle" => o \in up)

Guards(obj) == obj # Absent /\ obj.finalizer

\* With one operator: a copy of a live, guarded Inspector is a copy of one that
\* is still guarded, and a service is unlisted before its Inspector is released.
Protected ==
    /\ \A p, q \in up : p = q
    /\ \A o \in up, i \in Inspectors :
        Guards(cache[o][i].obj) /\ ~cache[o][i].obj.deleting => Guards(inspector[i])
    /\ \A o \in Operators :
        LET w == worker[o] IN
        /\ w.pc # "idle" /\ Guards(w.insp) /\ ~w.insp.deleting => Guards(inspector[w.req])
        /\ w.pc = "removeFinalizer" => serviceList[NameOf[w.req]] = Absent
    /\ \A n \in Names : serviceList[n] # Absent =>
        NameOf[serviceList[n].inspector] = n /\ Guards(inspector[serviceList[n].inspector])

IInv == Coherent /\ OnItsPath /\ (LeaderElection => Protected)

\* An object that is being deleted is still guarded, in the API server and in a cache.
MarkedGuarded ==
    /\ \A i \in Inspectors : inspector[i] # Absent /\ inspector[i].deleting =>
            inspector[i].finalizer
    /\ \A o \in up, i \in Inspectors :
            LET obj == cache[o][i].obj IN obj # Absent /\ obj.deleting => obj.finalizer

\* Behind NothingForgotten: the operator does without a request only for an
\* Inspector that its cache has not seen, or has seen dying and that is released.
Remembered ==
    \A o \in up, i \in Inspectors :
        LET obj == cache[o][i].obj IN
        \/ Requested(o, i)
        \/ obj = Absent
        \/ obj.deleting /\ ~Guards(inspector[i])
=============================================================================
