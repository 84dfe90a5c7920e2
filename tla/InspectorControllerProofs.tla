--------------------- MODULE InspectorControllerProofs ---------------------
(***************************************************************************)
(* What is proved of InspectorController for every value of its constants. *)
(***************************************************************************)
EXTENDS InspectorController, TLAPS

-----------------------------------------------------------------------------
(* Types. *)

\* Nothing to publish, no list and an idle worker are well typed.
LEMMA IdleType ==
    NoPoints \in GazerConfig /\ NoServices \in ServiceList /\ Idle \in Worker
BY DEF NoPoints, NoServices, GazerConfig, ServiceList, Idle, Worker

\* The operators on the ConfigMaps return ConfigMaps.
LEMMA ConfigOperatorsType ==
    ASSUME NEW gz \in GazerConfig, NEW points \in GazerConfig, NEW recorded
    PROVE  /\ Removed(gz, recorded) \in GazerConfig
           /\ Added(gz, points) \in GazerConfig
           /\ Keys(points) \subseteq IPs
BY DEF Removed, Added, Keys, GazerConfig

LEMMA ScrapePointsType ==
    ASSUME NEW i \in Inspectors, NEW spec
    PROVE  ScrapePoints(i, spec) \in GazerConfig
BY DEF ScrapePoints, GazerConfig, ScrapePoint

LEMMA ModelsOfType ==
    ASSUME NEW list \in ServiceList
    PROVE  ModelsOf(list) \subseteq Models
BY AbsentAssumption DEF ModelsOf, ServiceList, InferenceData

\* A write that makes other copies old leaves the workers and caches typed.
LEMMA OutdatedType ==
    ASSUME TypeOK
    PROVE  /\ \A i \in Inspectors : InspectorOutdated(i) \in [Operators -> Worker]
           /\ \A i \in Inspectors :
                CacheOutdated(i) \in [Operators -> [Inspectors -> CachedObject]]
           /\ \A copy, changed : ConfigOutdated(copy, changed) \in [Operators -> Worker]
<1>1. ASSUME NEW w \in Worker, NEW copy
      PROVE  [w EXCEPT !.fresh = @ \ {copy}] \in Worker
  BY <1>1 DEF Worker
<1>2. worker \in [Operators -> Worker]
  BY DEF TypeOK
<1>3. \A i \in Inspectors : InspectorOutdated(i) \in [Operators -> Worker]
  BY <1>1, <1>2 DEF InspectorOutdated
<1>4. ASSUME NEW i \in Inspectors
      PROVE  CacheOutdated(i) \in [Operators -> [Inspectors -> CachedObject]]
  <2>1. ASSUME NEW c \in CachedObject
        PROVE  [c EXCEPT !.current = FALSE] \in CachedObject
    BY <2>1 DEF CachedObject
  <2>2. ASSUME NEW o \in Operators
        PROVE  [cache[o] EXCEPT ![i].current = FALSE] \in [Inspectors -> CachedObject]
    <3>1. cache[o] \in [Inspectors -> CachedObject]
      BY DEF TypeOK
    <3>. QED BY <3>1, <2>1
  <2>. QED BY <2>2 DEF CacheOutdated
<1>5. \A copy, changed : ConfigOutdated(copy, changed) \in [Operators -> Worker]
  BY <1>1, <1>2 DEF ConfigOutdated
<1>. QED BY <1>3, <1>4, <1>5

\* A worker that is busy has a request and a copy of its Inspector.
BusyOK ==
    \A o \in Operators : worker[o].pc # "idle" =>
        worker[o].req \in Inspectors /\ worker[o].insp \in Object

TInv == TypeOK /\ BusyOK

LEMMA InitTypes == Init => TInv
<1>. SUFFICES ASSUME Init PROVE TInv
  OBVIOUS
<1>1. TypeOK
  BY IdleType, ConstantsAssumption DEF Init, TypeOK, CachedObject
<1>2. BusyOK
  BY DEF Init, BusyOK, Idle
<1>. QED BY <1>1, <1>2 DEF TInv

\* Reconcile returns: the worker is idle again.
LEMMA FailTypes ==
    ASSUME TInv, NEW o \in Operators, worker[o].pc # "idle", Fail(o)
    PROVE  TInv'
<1>1. worker' \in [Operators -> Worker] /\ queue' \in [Operators -> SUBSET Inspectors]
  BY IdleType DEF TInv, TypeOK, BusyOK, Fail, Requeue
<1>2. TypeOK'
  BY <1>1 DEF TInv, TypeOK, Fail, configs, cluster
<1>3. BusyOK'
  BY DEF TInv, TypeOK, BusyOK, Fail, Idle
<1>. QED BY <1>2, <1>3 DEF TInv

\* The worker's next record is typed whenever a step changes only that.
LEMMA StoreInspectorTypes ==
    ASSUME TInv, NEW o \in Operators, worker[o].pc # "idle",
           NEW obj \in Object \cup {Absent}, StoreInspector(o, obj),
           queue' \in [Operators -> SUBSET Inspectors]
    PROVE  TInv'
<1>. DEFINE r == worker[o].req
<1>1. r \in Inspectors
  BY DEF TInv, BusyOK
<1>2. InspectorOutdated(r) \in [Operators -> Worker]
      /\ CacheOutdated(r) \in [Operators -> [Inspectors -> CachedObject]]
  BY <1>1, OutdatedType DEF TInv
<1>3. TypeOK'
  BY <1>1, <1>2, IdleType DEF TInv, TypeOK, StoreInspector, configs, cluster
<1>4. ASSUME NEW p \in Operators, p # o
      PROVE  /\ worker'[p].pc = worker[p].pc
             /\ worker'[p].req = worker[p].req
             /\ worker'[p].insp = worker[p].insp
  BY <1>4 DEF TInv, TypeOK, Worker, StoreInspector, InspectorOutdated
<1>5. worker'[o].pc = "idle"
  BY DEF StoreInspector, InspectorOutdated, Idle
<1>6. BusyOK'
  BY <1>4, <1>5 DEF TInv, BusyOK
<1>. QED BY <1>3, <1>6 DEF TInv

LEMMA ReadGazerTypes ==
    ASSUME TInv, NEW o \in Operators, NEW next \in Calls,
           worker[o].pc # "idle", ReadGazer(o, next)
    PROVE  TInv'
<1>1. worker' \in [Operators -> Worker]
  <2>. DEFINE next_w == [worker[o] EXCEPT !.pc = next, !.gazer = gazerConfig,
                                          !.fresh = @ \cup {"gazer"}]
  <2>1. next_w \in Worker
    BY DEF TInv, TypeOK, Worker, Copies
  <2>2. worker' = [worker EXCEPT ![o] = next_w]
    BY DEF ReadGazer, TInv, TypeOK
  <2>. HIDE DEF next_w
  <2>. QED BY <2>1, <2>2 DEF TInv, TypeOK
<1>2. TypeOK'
  BY <1>1 DEF TInv, TypeOK, ReadGazer, configs, cluster
<1>3. BusyOK'
  <2>1. ASSUME NEW p \in Operators
        PROVE  /\ worker'[p].req = worker[p].req
               /\ worker'[p].insp = worker[p].insp
               /\ p # o => worker'[p].pc = worker[p].pc
    BY DEF TInv, TypeOK, Worker, ReadGazer
  <2>. QED BY <2>1 DEF TInv, BusyOK
<1>. QED BY <1>2, <1>3 DEF TInv

LEMMA StoreGazerTypes ==
    ASSUME TInv, NEW o \in Operators, NEW gz \in GazerConfig, NEW next \in Calls,
           worker[o].pc # "idle", StoreGazer(o, gz, next)
    PROVE  TInv'
<1>1. ConfigOutdated("gazer", gz # gazerConfig) \in [Operators -> Worker]
  BY OutdatedType DEF TInv
<1>2. worker' \in [Operators -> Worker]
  <2>. DEFINE next_w == [worker[o] EXCEPT !.pc = next, !.gazer = NoPoints,
                                          !.fresh = @ \ {"gazer"}]
  <2>1. next_w \in Worker
    BY IdleType DEF TInv, TypeOK, Worker
  <2>2. worker' = [ConfigOutdated("gazer", gz # gazerConfig) EXCEPT ![o] = next_w]
    BY DEF StoreGazer
  <2>. HIDE DEF next_w
  <2>. QED BY <1>1, <2>1, <2>2
<1>3. TypeOK'
  BY <1>2 DEF TInv, TypeOK, StoreGazer, cluster
<1>4. ASSUME NEW p \in Operators
      PROVE  /\ worker'[p].req = worker[p].req
             /\ worker'[p].insp = worker[p].insp
             /\ p # o => worker'[p].pc = worker[p].pc
  BY DEF TInv, TypeOK, Worker, StoreGazer, ConfigOutdated
<1>5. BusyOK'
  BY <1>4 DEF TInv, BusyOK
<1>. QED BY <1>3, <1>5 DEF TInv

LEMMA StoreSherlockTypes ==
    ASSUME TInv, NEW o \in Operators, NEW list \in ServiceList,
           NEW models \in SUBSET Models,
           worker[o].pc # "idle", StoreSherlock(o, list, models)
    PROVE  TInv'
<1>1. ConfigOutdated("sherlock", list # serviceList) \in [Operators -> Worker]
  BY OutdatedType DEF TInv
<1>2. worker' \in [Operators -> Worker]
  <2>. DEFINE next == IF worker[o].insp.deleting THEN "removeFinalizer" ELSE "statusWrite"
              next_w == [worker[o] EXCEPT !.pc = next, !.services = NoServices,
                                          !.fresh = @ \ {"sherlock"}]
  <2>1. next_w \in Worker
    <3>1. next \in Calls
      BY DEF Calls
    <3>. HIDE DEF next
    <3>. QED BY <3>1, IdleType DEF TInv, TypeOK, Worker
  <2>2. worker' = [ConfigOutdated("sherlock", list # serviceList) EXCEPT ![o] = next_w]
    BY DEF StoreSherlock
  <2>. HIDE DEF next_w
  <2>. QED BY <1>1, <2>1, <2>2
<1>3. TypeOK'
  BY <1>2 DEF TInv, TypeOK, StoreSherlock, cluster
<1>4. ASSUME NEW p \in Operators
      PROVE  /\ worker'[p].req = worker[p].req
             /\ worker'[p].insp = worker[p].insp
             /\ p # o => worker'[p].pc = worker[p].pc
  BY DEF TInv, TypeOK, Worker, StoreSherlock, ConfigOutdated
<1>5. BusyOK'
  BY <1>4 DEF TInv, BusyOK
<1>. QED BY <1>3, <1>5 DEF TInv

\* A step that changes one worker's record, and at most that worker's queue.
LEMMA LocalTypes ==
    ASSUME TInv, NEW o \in Operators, NEW w \in Worker,
           worker' = [worker EXCEPT ![o] = w],
           w.pc # "idle" => w.req \in Inspectors /\ w.insp \in Object,
           queue' \in [Operators -> SUBSET Inspectors],
           UNCHANGED <<inspector, configs, cluster, up, cache>>
    PROVE  TInv'
<1>1. TypeOK'
  BY DEF TInv, TypeOK, configs, cluster
<1>2. BusyOK'
  BY DEF TInv, TypeOK, BusyOK
<1>. QED BY <1>1, <1>2 DEF TInv

LEMMA WorkerStepTypes ==
    ASSUME TInv, NEW o \in Operators, WorkerStep(o) \/ APIError(o)
    PROVE  TInv'
<1>. DEFINE w == worker[o]
<1>0. /\ w \in Worker
      /\ queue \in [Operators -> SUBSET Inspectors]
      /\ w.pc # "idle" => w.req \in Inspectors /\ w.insp \in Object
      /\ w.insp \in Object => w.insp.spec \in InspectorSpec
  BY DEF TInv, TypeOK, BusyOK, Object
<1>1. CASE AddFinalizer(o)
  <2>1. [w.insp EXCEPT !.finalizer = TRUE] \in Object
    BY <1>0, <1>1 DEF AddFinalizer, Object
  <2>. QED BY <1>0, <1>1, <2>1, StoreInspectorTypes DEF AddFinalizer, Requeue
<1>2. CASE RemoveRead(o) \/ GazerRead(o)
  BY <1>2, ReadGazerTypes DEF RemoveRead, GazerRead, Calls
<1>3. CASE RemoveWrite(o) \/ GazerWrite(o)
  <2>1. w.gazer \in GazerConfig /\ w.points \in GazerConfig
    BY <1>0 DEF Worker
  <2>2. /\ Remaining(o) \in GazerConfig
        /\ Added(Remaining(o), w.points) \in GazerConfig
    BY <2>1, ConfigOperatorsType DEF Remaining
  <2>. QED BY <1>3, <2>2, StoreGazerTypes DEF RemoveWrite, GazerWrite, Calls
<1>4. CASE ListPods(o)
  <2>. DEFINE nw == [w EXCEPT !.pc = "gazerRead",
                              !.points = ScrapePoints(w.req, w.insp.spec)]
  <2>1. w.pc # "idle"
    BY <1>4 DEF ListPods
  <2>2. ScrapePoints(w.req, w.insp.spec) \in GazerConfig
    BY <1>0, <2>1, ScrapePointsType
  <2>3. nw \in Worker /\ nw.req = w.req /\ nw.insp = w.insp
    BY <1>0, <2>2 DEF Worker, Calls
  <2>4. worker' = [worker EXCEPT ![o] = nw] /\ queue' = queue
    BY <1>4 DEF ListPods, TInv, TypeOK
  <2>5. UNCHANGED <<inspector, configs, cluster, up, cache>>
    BY <1>4 DEF ListPods
  <2>. HIDE DEF nw
  <2>. QED BY <1>0, <2>1, <2>3, <2>4, <2>5, LocalTypes
<1>5. CASE SherlockRead(o)
  <2>. DEFINE list == [serviceList EXCEPT ![NameOf[w.req]] = Entry(w)]
              nw == [w EXCEPT !.pc = "sherlockCheck", !.services = list,
                              !.fresh = @ \cup {"sherlock"}]
  <2>1. w.pc # "idle"
    BY <1>5 DEF SherlockRead
  <2>2. Entry(w) \in InferenceData \cup {Absent}
    BY <1>0, <2>1 DEF Entry, InferenceData, InspectorSpec
  <2>3. list \in ServiceList
    BY <2>2 DEF TInv, TypeOK, ServiceList
  <2>. HIDE DEF list
  <2>4. nw \in Worker /\ nw.req = w.req /\ nw.insp = w.insp
    BY <1>0, <2>3 DEF Worker, Calls, Copies
  <2>5. worker' = [worker EXCEPT ![o] = nw] /\ queue' = queue
    BY <1>5 DEF SherlockRead, TInv, TypeOK, list
  <2>6. UNCHANGED <<inspector, configs, cluster, up, cache>>
    BY <1>5 DEF SherlockRead
  <2>. HIDE DEF nw
  <2>. QED BY <1>0, <2>1, <2>4, <2>5, <2>6, LocalTypes
<1>6. CASE SherlockCheck(o)
  <2>. DEFINE nw == [w EXCEPT !.pc = "sherlockWrite"]
  <2>1. nw \in Worker /\ nw.req = w.req /\ nw.insp = w.insp
    BY <1>0 DEF Worker, Calls
  <2>2. /\ worker' = [worker EXCEPT ![o] = nw] /\ queue' = queue
        /\ w.pc # "idle"
        /\ UNCHANGED <<inspector, configs, cluster, up, cache>>
    BY <1>6 DEF SherlockCheck, TInv, TypeOK
  <2>. HIDE DEF nw
  <2>. QED BY <1>0, <2>1, <2>2, LocalTypes
<1>7. CASE SherlockWrite(o)
  <2>1. w.services \in ServiceList
    BY <1>0 DEF Worker
  <2>2. ModelsOf(w.services) \in SUBSET Models
    BY <2>1, ModelsOfType
  <2>. QED BY <1>7, <2>1, <2>2, StoreSherlockTypes DEF SherlockWrite
<1>8. CASE RemoveFinalizer(o)
  BY <1>0, <1>8, StoreInspectorTypes DEF RemoveFinalizer
<1>9. CASE StatusWrite(o)
  <2>1. Keys(w.points) \subseteq IPs
    BY DEF Keys
  <2>2. w.pc # "idle" /\ Reported(o) \in Object
    BY <1>0, <1>9, <2>1 DEF StatusWrite, Reported, Object
  <2>3. queue' \in [Operators -> SUBSET Inspectors]
    BY <1>0, <1>9, <2>2 DEF StatusWrite, Requeue
  <2>4. CASE StoreInspector(o, Reported(o))
    BY <2>2, <2>3, <2>4, StoreInspectorTypes
  <2>5. CASE worker' = [worker EXCEPT ![o] = Idle]
             /\ UNCHANGED <<inspector, configs, cluster, up, cache>>
    <3>1. Idle.pc = "idle"
      BY DEF Idle
    <3>. QED BY <2>3, <2>5, <3>1, IdleType, LocalTypes
  <2>. QED BY <1>9, <2>4, <2>5 DEF StatusWrite, StoreStatus
<1>10. CASE Conflict(o) \/ MissingRef(o) \/ APIError(o)
  <2>1. w.pc # "idle" /\ Fail(o)
    BY <1>10 DEF Conflict, MissingRef, APIError, Needs, Copies
  <2>. QED BY <2>1, FailTypes
<1>. QED
  BY <1>1, <1>2, <1>3, <1>4, <1>5, <1>6, <1>7, <1>8, <1>9, <1>10 DEF WorkerStep

LEMMA ManagerTypes ==
    ASSUME TInv, NEW o \in Operators,
           \/ \E i \in Inspectors : StartReconcile(o, i) \/ SyncCache(o, i)
           \/ StartOperator(o)
           \/ StopOperator(o)
    PROVE  TInv'
<1>1. ASSUME NEW i \in Inspectors, StartReconcile(o, i) PROVE TInv'
  <2>. DEFINE obj == cache[o][i].obj
              fresh == IF cache[o][i].current THEN {"inspector"} ELSE {}
              nw == [Idle EXCEPT !.pc = FirstCall(obj), !.req = i, !.insp = obj,
                                 !.fresh = fresh]
  <2>1. queue' \in [Operators -> SUBSET Inspectors]
        /\ UNCHANGED <<inspector, configs, cluster, up, cache>>
    BY <1>1 DEF StartReconcile, TInv, TypeOK
  <2>2. CASE FirstCall(obj) = "idle"
    <3>1. worker' = [worker EXCEPT ![o] = Idle]
      BY <1>1, <2>2 DEF StartReconcile
    <3>2. Idle.pc = "idle"
      BY DEF Idle
    <3>. QED BY <2>1, <3>1, <3>2, IdleType, LocalTypes
  <2>3. CASE FirstCall(obj) # "idle"
    <3>1. obj \in Object \cup {Absent}
      BY DEF TInv, TypeOK, CachedObject
    <3>2. obj \in Object /\ FirstCall(obj) \in Calls
      BY <2>3, <3>1 DEF FirstCall, Calls, Object
    <3>3. fresh \in SUBSET Copies
      BY DEF Copies
    <3>4. worker' = [worker EXCEPT ![o] = nw]
      BY <1>1, <2>3 DEF StartReconcile
    <3>. HIDE DEF fresh, obj
    <3>5. nw \in Worker /\ nw.req = i /\ nw.insp = obj
      BY <3>2, <3>3, IdleType DEF Worker, Idle
    <3>. HIDE DEF nw
    <3>. QED BY <2>1, <3>2, <3>4, <3>5, LocalTypes
  <2>. QED BY <2>2, <2>3
<1>2. ASSUME NEW i \in Inspectors, SyncCache(o, i) PROVE TInv'
  <2>1. [obj |-> inspector[i], current |-> TRUE] \in CachedObject
    BY DEF TInv, TypeOK, CachedObject
  <2>2. cache' \in [Operators -> [Inspectors -> CachedObject]]
    BY <1>2, <2>1 DEF SyncCache, TInv, TypeOK
  <2>3. queue' \in [Operators -> SUBSET Inspectors]
    BY <1>2 DEF SyncCache, TInv, TypeOK
  <2>4. UNCHANGED <<inspector, configs, cluster, up, worker>>
    BY <1>2 DEF SyncCache
  <2>. QED BY <2>2, <2>3, <2>4 DEF TInv, TypeOK, BusyOK, configs, cluster
<1>3. CASE StartOperator(o)
  <2>1. [j \in Inspectors |-> [obj |-> inspector[j], current |-> TRUE]]
            \in [Inspectors -> CachedObject]
    BY DEF TInv, TypeOK, CachedObject
  <2>2. /\ cache' \in [Operators -> [Inspectors -> CachedObject]]
        /\ queue' \in [Operators -> SUBSET Inspectors]
        /\ up' \subseteq Operators
        /\ UNCHANGED <<inspector, configs, cluster, worker>>
    BY <1>3, <2>1 DEF StartOperator, TInv, TypeOK
  <2>. QED BY <2>2 DEF TInv, TypeOK, BusyOK, configs, cluster
<1>4. CASE StopOperator(o)
  <2>1. [j \in Inspectors |-> [obj |-> Absent, current |-> TRUE]]
            \in [Inspectors -> CachedObject]
    BY DEF CachedObject
  <2>2. /\ cache' \in [Operators -> [Inspectors -> CachedObject]]
        /\ queue' \in [Operators -> SUBSET Inspectors]
        /\ up' \subseteq Operators
        /\ worker' = [worker EXCEPT ![o] = Idle]
        /\ UNCHANGED <<inspector, configs, cluster>>
    BY <1>4, <2>1 DEF StopOperator, TInv, TypeOK
  <2>3. worker' \in [Operators -> Worker]
    BY <2>2, IdleType DEF TInv, TypeOK
  <2>4. BusyOK'
    BY <2>2 DEF TInv, TypeOK, BusyOK, Idle
  <2>. QED BY <2>2, <2>3, <2>4 DEF TInv, TypeOK, configs, cluster
<1>. QED BY <1>1, <1>2, <1>3, <1>4

LEMMA UserTypes ==
    ASSUME TInv, NEW i \in Inspectors, User(i)
    PROVE  TInv'
<1>1. /\ cache' = CacheOutdated(i)
      /\ worker' = InspectorOutdated(i)
      /\ UNCHANGED <<configs, cluster, up, queue>>
  BY DEF User, CreateInspector, UpdateSpec, DeleteInspector
<1>2. ASSUME NEW spec \in SpecOptions[i]
      PROVE  /\ [spec |-> spec, deleting |-> FALSE, finalizer |-> FALSE,
                 monitoredIPs |-> {}, status |-> ""] \in Object
             /\ inspector[i] # Absent => [inspector[i] EXCEPT !.spec = spec] \in Object
  BY <1>2, ConstantsAssumption DEF TInv, TypeOK, Object
<1>3. inspector[i] # Absent => [inspector[i] EXCEPT !.deleting = TRUE] \in Object
  BY DEF TInv, TypeOK, Object
<1>4. inspector' \in [Inspectors -> Object \cup {Absent}]
  <2>1. CASE CreateInspector(i)
    BY <1>2, <2>1 DEF CreateInspector, TInv, TypeOK
  <2>2. CASE UpdateSpec(i)
    BY <1>2, <2>2 DEF UpdateSpec, TInv, TypeOK
  <2>3. CASE DeleteInspector(i)
    BY <1>3, <2>3 DEF DeleteInspector, TInv, TypeOK
  <2>. QED BY <2>1, <2>2, <2>3 DEF User
<1>5. /\ worker' \in [Operators -> Worker]
      /\ cache' \in [Operators -> [Inspectors -> CachedObject]]
  BY <1>1, OutdatedType DEF TInv
<1>6. ASSUME NEW o \in Operators
      PROVE  /\ worker'[o].pc = worker[o].pc
             /\ worker'[o].req = worker[o].req
             /\ worker'[o].insp = worker[o].insp
  BY <1>1 DEF TInv, TypeOK, Worker, InspectorOutdated
<1>. QED
  BY <1>1, <1>4, <1>5, <1>6 DEF TInv, TypeOK, BusyOK, configs, cluster

LEMMA ClusterTypes ==
    ASSUME TInv, Cluster
    PROVE  TInv'
<1>1. /\ UNCHANGED <<inspector, configs, up, cache, queue, worker>>
      /\ deployed' \subseteq Deployments
      /\ pods' \in [Deployments -> SUBSET PodIPs]
      /\ clusterIP' \in [Services -> ServiceIPs \cup {Absent}]
  BY DEF Cluster, PodStart, PodStop, ToggleDeployment, CreateService, DeleteService,
         TInv, TypeOK
<1>. QED BY <1>1 DEF TInv, TypeOK, BusyOK, configs

LEMMA NextTypes == TInv /\ [Next]_vars => TInv'
<1>. SUFFICES ASSUME TInv, [Next]_vars PROVE TInv'
  OBVIOUS
<1>1. ASSUME NEW o \in Operators, WorkerStep(o) \/ Fault(o) \/ StartOperator(o)
      PROVE  TInv'
  <2>1. CASE WorkerStep(o) \/ APIError(o)
    BY <2>1, WorkerStepTypes
  <2>2. CASE StopOperator(o) \/ StartOperator(o)
    BY <2>2, ManagerTypes
  <2>. QED BY <1>1, <2>1, <2>2 DEF Fault
<1>2. ASSUME NEW o \in Operators, NEW i \in Inspectors,
             StartReconcile(o, i) \/ SyncCache(o, i)
      PROVE  TInv'
  BY <1>2, ManagerTypes
<1>3. ASSUME NEW i \in Inspectors, User(i) PROVE TInv'
  BY <1>3, UserTypes
<1>4. CASE Cluster
  BY <1>4, ClusterTypes
<1>5. CASE UNCHANGED vars
  BY <1>5 DEF TInv, TypeOK, BusyOK, vars, configs, cluster
<1>. QED BY <1>1, <1>2, <1>3, <1>4, <1>5 DEF Next

\* Every variable of the operator has its type in every reachable state; a
\* worker that is in the middle of a reconcile has an Inspector to work on.
THEOREM TypeCorrect == Spec => []TypeOK
<1>1. TInv => TypeOK
  BY DEF TInv
<1>. QED BY InitTypes, NextTypes, <1>1, PTL DEF Spec

-----------------------------------------------------------------------------
(* Copies and paths: where a worker is, and what its copies are worth. *)

LEMMA IdlePath == PathOK(Idle) /\ Idle.pc = "idle" /\ Idle.fresh = {}
BY DEF PathOK, Idle, NoPoints

\* A worker that holds a fresh copy is busy.
LEMMA FreshBusy ==
    ASSUME TInv, OnItsPath, NEW o \in Operators, worker[o].fresh # {}
    PROVE  worker[o].req \in Inspectors /\ worker[o].insp \in Object
BY DEF TInv, BusyOK, OnItsPath, PathOK

LEMMA InitInv == Init => Coherent /\ OnItsPath
<1>. SUFFICES ASSUME Init PROVE Coherent /\ OnItsPath
  OBVIOUS
<1>1. \A o \in Operators : worker[o] = Idle
  BY DEF Init
<1>2. Coherent
  BY <1>1, IdlePath DEF Init, Coherent, FreshCopies, FreshCache
<1>3. OnItsPath
  BY <1>1, IdlePath DEF OnItsPath
<1>. QED BY <1>2, <1>3

\* Steps of one worker that store nothing.
LEMMA LocalInv ==
    ASSUME TInv, Coherent, OnItsPath, NEW o \in Operators, NEW w,
           worker' = [worker EXCEPT ![o] = w],
           UNCHANGED <<inspector, configs, cache, up>>,
           PathOK(w), w.pc # "idle" => o \in up,
           w = Idle \/ FreshCopies(o)'
    PROVE  Coherent' /\ OnItsPath'
<1>1. worker'[o] = w /\ \A p \in Operators : p # o => worker'[p] = worker[p]
  BY DEF TInv, TypeOK
<1>2. ASSUME NEW p \in Operators PROVE FreshCopies(p)' /\ FreshCache(p)'
  <2>1. CASE p # o
    <3>1. /\ worker'[p] = worker[p]
          /\ FreshCopies(p) /\ FreshCache(p)
          /\ inspector' = inspector /\ gazerConfig' = gazerConfig
          /\ serviceList' = serviceList /\ cache' = cache /\ up' = up
      BY <1>1, <2>1 DEF Coherent, configs
    <3>2. FreshCopies(p)'
      BY <3>1, Zenon DEF FreshCopies, Entry
    <3>. QED BY <3>1, <3>2 DEF FreshCache
  <2>2. CASE p = o /\ w = Idle
    BY <1>1, <2>2, IdlePath DEF Coherent, FreshCopies, FreshCache
  <2>3. CASE p = o /\ FreshCopies(o)'
    BY <2>3 DEF Coherent, FreshCache
  <2>. QED BY <2>1, <2>2, <2>3
<1>3. OnItsPath'
  BY <1>1 DEF OnItsPath
<1>. QED BY <1>2, <1>3 DEF Coherent

\* An Inspector changes in the API server: its copies are old everywhere.
LEMMA InspectorChangedInv ==
    ASSUME TInv, Coherent, OnItsPath, NEW r \in Inspectors, NEW obj,
           inspector' = [inspector EXCEPT ![r] = obj],
           cache' = CacheOutdated(r),
           UNCHANGED <<configs, up>>,
           \A p \in Operators : worker'[p] \in {Idle, InspectorOutdated(r)[p]}
    PROVE  Coherent' /\ OnItsPath'
<1>1. ASSUME NEW p \in Operators
      PROVE  /\ worker'[p].pc \in {"idle", worker[p].pc}
             /\ PathOK(worker'[p])
             /\ FreshCopies(p)'
  <2>1. CASE worker'[p] = Idle
    BY <2>1, IdlePath DEF FreshCopies
  <2>2. CASE worker'[p] # Idle
    <3>1. worker'[p] = IF worker[p].req = r
                       THEN [worker[p] EXCEPT !.fresh = @ \ {"inspector"}]
                       ELSE worker[p]
      BY <2>2 DEF InspectorOutdated
    <3>2. worker[p] \in Worker /\ worker'[p] \in Worker
      BY <2>2, OutdatedType DEF TInv, TypeOK
    <3>3. /\ worker'[p].pc = worker[p].pc
          /\ worker'[p].req = worker[p].req
          /\ worker'[p].insp = worker[p].insp
          /\ worker'[p].points = worker[p].points
          /\ worker'[p].gazer = worker[p].gazer
          /\ worker'[p].services = worker[p].services
          /\ worker'[p].fresh = worker[p].fresh
                \ (IF worker[p].req = r THEN {"inspector"} ELSE {})
      BY <3>1, <3>2 DEF Worker
    <3>4. PathOK(worker'[p])
      BY <3>3 DEF OnItsPath, PathOK
    <3>5. worker'[p].fresh # {} =>
            worker[p].req \in Inspectors /\ worker[p].req \in Inspectors
      BY <3>3, FreshBusy
    <3>6. "inspector" \in worker'[p].fresh =>
            inspector'[worker[p].req] = inspector[worker[p].req]
            /\ cache'[p][worker[p].req].obj = cache[p][worker[p].req].obj
      BY <3>3, <3>5 DEF TInv, TypeOK, CacheOutdated, CachedObject
    <3>7. FreshCopies(p)'
      BY <3>3, <3>6 DEF Coherent, FreshCopies, Entry, configs
    <3>. QED BY <3>3, <3>4, <3>7
  <2>. QED BY <2>1, <2>2
<1>2. ASSUME NEW p \in Operators PROVE FreshCache(p)'
  BY DEF Coherent, FreshCache, TInv, TypeOK, CacheOutdated, CachedObject
<1>3. Coherent'
  BY <1>1, <1>2 DEF Coherent
<1>4. OnItsPath'
  BY <1>1 DEF OnItsPath
<1>. QED BY <1>3, <1>4

LEMMA StoreInspectorInv ==
    ASSUME TInv, Coherent, OnItsPath, NEW o \in Operators, worker[o].pc # "idle",
           NEW obj, StoreInspector(o, obj)
    PROVE  Coherent' /\ OnItsPath'
<1>1. \A p \in Operators : worker'[p] \in {Idle, InspectorOutdated(worker[o].req)[p]}
  BY DEF StoreInspector, InspectorOutdated
<1>2. worker[o].req \in Inspectors
  BY DEF TInv, BusyOK
<1>. QED BY <1>1, <1>2, InspectorChangedInv DEF StoreInspector

LEMMA StoreGazerInv ==
    ASSUME TInv, Coherent, OnItsPath, NEW o \in Operators, NEW gz \in GazerConfig,
           worker[o].pc \in {"removeWrite", "gazerWrite"},
           StoreGazer(o, gz, "sherlockRead")
    PROVE  Coherent' /\ OnItsPath'
<1>1. ASSUME NEW p \in Operators
      PROVE  /\ worker'[p].req = worker[p].req
             /\ worker'[p].insp = worker[p].insp
             /\ worker'[p].points = worker[p].points
             /\ worker'[p].services = worker[p].services
             /\ p # o => worker'[p].pc = worker[p].pc
                         /\ worker'[p].gazer = worker[p].gazer
             /\ worker'[o].pc = "sherlockRead"
             /\ worker'[p].fresh \subseteq worker[p].fresh
             /\ "gazer" \in worker'[p].fresh => p # o /\ gazerConfig' = gazerConfig
  BY DEF TInv, TypeOK, Worker, StoreGazer, ConfigOutdated
<1>2. UNCHANGED <<inspector, serviceList, cache, up>>
  BY DEF StoreGazer
<1>3. ASSUME NEW p \in Operators PROVE FreshCopies(p)' /\ FreshCache(p)'
  <2>1. FreshCopies(p) /\ FreshCache(p)
    BY DEF Coherent
  <2>2. FreshCopies(p)'
    BY <1>1, <1>2, <2>1 DEF FreshCopies, Entry
  <2>. QED BY <1>2, <2>1, <2>2 DEF FreshCache
<1>4. OnItsPath'
  BY <1>1, <1>2 DEF OnItsPath, PathOK
<1>. QED BY <1>3, <1>4 DEF Coherent

LEMMA StoreSherlockInv ==
    ASSUME TInv, Coherent, OnItsPath, NEW o \in Operators, NEW list, NEW models,
           worker[o].pc = "sherlockWrite", StoreSherlock(o, list, models)
    PROVE  Coherent' /\ OnItsPath'
<1>. DEFINE next == IF worker[o].insp.deleting THEN "removeFinalizer" ELSE "statusWrite"
<1>1. ASSUME NEW p \in Operators
      PROVE  /\ worker'[p].req = worker[p].req
             /\ worker'[p].insp = worker[p].insp
             /\ worker'[p].points = worker[p].points
             /\ worker'[p].gazer = worker[p].gazer
             /\ p # o => worker'[p].pc = worker[p].pc
                         /\ worker'[p].services = worker[p].services
             /\ worker'[o].pc = next
             /\ worker'[p].fresh \subseteq worker[p].fresh
             /\ "sherlock" \in worker'[p].fresh => p # o /\ serviceList' = serviceList
  BY DEF TInv, TypeOK, Worker, StoreSherlock, ConfigOutdated
<1>2. UNCHANGED <<inspector, gazerConfig, cache, up>>
  BY DEF StoreSherlock
<1>3. ASSUME NEW p \in Operators PROVE FreshCopies(p)' /\ FreshCache(p)'
  <2>1. FreshCopies(p) /\ FreshCache(p)
    BY DEF Coherent
  <2>2. FreshCopies(p)'
    BY <1>1, <1>2, <2>1 DEF FreshCopies, Entry
  <2>. QED BY <1>2, <2>1, <2>2 DEF FreshCache
<1>4. OnItsPath'
  BY <1>1, <1>2 DEF OnItsPath, PathOK
<1>. QED BY <1>3, <1>4 DEF Coherent

LEMMA WorkerStepInv ==
    ASSUME TInv, Coherent, OnItsPath, NEW o \in Operators,
           WorkerStep(o) \/ APIError(o)
    PROVE  Coherent' /\ OnItsPath'
<1>. DEFINE w == worker[o]
<1>0. /\ w \in Worker /\ worker \in [Operators -> Worker]
      /\ PathOK(w) /\ FreshCopies(o)
      /\ w.pc # "idle" => o \in up
  BY DEF TInv, TypeOK, OnItsPath, Coherent
<1>1. CASE AddFinalizer(o)
  BY <1>1, StoreInspectorInv DEF AddFinalizer
<1>2. ASSUME NEW next, ReadGazer(o, next), w.pc # "idle",
             \/ w.pc = "removeRead" /\ next = "removeWrite"
             \/ w.pc = "gazerRead" /\ next = "gazerWrite"
      PROVE  Coherent' /\ OnItsPath'
  <2>. DEFINE nw == [w EXCEPT !.pc = next, !.gazer = gazerConfig,
                              !.fresh = @ \cup {"gazer"}]
  <2>1. /\ worker' = [worker EXCEPT ![o] = nw]
        /\ UNCHANGED <<inspector, configs, cluster, up, cache>>
    BY <1>0, <1>2 DEF ReadGazer
  <2>2. /\ nw.pc = next /\ nw.req = w.req /\ nw.insp = w.insp
        /\ nw.points = w.points /\ nw.services = w.services
        /\ nw.gazer = gazerConfig /\ nw.fresh = w.fresh \cup {"gazer"}
    BY <1>0 DEF Worker
  <2>. HIDE DEF nw
  <2>3. PathOK(nw)
    BY <1>0, <1>2, <2>2 DEF PathOK
  <2>4. FreshCopies(o)'
    BY <1>0, <2>1, <2>2 DEF FreshCopies, Entry, configs
  <2>. QED BY <1>0, <1>2, <2>1, <2>2, <2>3, <2>4, LocalInv
<1>3. CASE RemoveRead(o) \/ GazerRead(o)
  BY <1>2, <1>3 DEF RemoveRead, GazerRead
<1>4. CASE RemoveWrite(o) \/ GazerWrite(o)
  <2>1. w.gazer \in GazerConfig /\ w.points \in GazerConfig
    BY <1>0 DEF Worker
  <2>2. /\ Remaining(o) \in GazerConfig
        /\ Added(Remaining(o), w.points) \in GazerConfig
    BY <2>1, ConfigOperatorsType DEF Remaining
  <2>. QED BY <1>4, <2>2, StoreGazerInv DEF RemoveWrite, GazerWrite
<1>5. CASE ListPods(o)
  <2>. DEFINE points == ScrapePoints(w.req, w.insp.spec)
              nw == [w EXCEPT !.pc = "gazerRead", !.points = points]
  <2>1. /\ worker' = [worker EXCEPT ![o] = nw]
        /\ UNCHANGED <<inspector, configs, cluster, up, cache>>
        /\ w.pc = "listPods"
    BY <1>0, <1>5 DEF ListPods
  <2>2. /\ nw.pc = "gazerRead" /\ nw.req = w.req /\ nw.insp = w.insp
        /\ nw.points = points /\ nw.services = w.services
        /\ nw.gazer = w.gazer /\ nw.fresh = w.fresh
    BY <1>0 DEF Worker
  <2>3. \A ip \in IPs : points[ip] # Absent => points[ip].inspector = w.req
    BY DEF ScrapePoints
  <2>. HIDE DEF nw, points
  <2>4. PathOK(nw)
    BY <1>0, <2>1, <2>2, <2>3 DEF PathOK
  <2>5. FreshCopies(o)'
    BY <1>0, <2>1, <2>2 DEF FreshCopies, Entry, configs
  <2>. QED BY <1>0, <2>1, <2>2, <2>4, <2>5, LocalInv
<1>6. CASE SherlockRead(o)
  <2>. DEFINE list == [serviceList EXCEPT ![NameOf[w.req]] = Entry(w)]
              nw == [w EXCEPT !.pc = "sherlockCheck", !.services = list,
                              !.fresh = @ \cup {"sherlock"}]
  <2>1. /\ worker' = [worker EXCEPT ![o] = nw]
        /\ UNCHANGED <<inspector, configs, cluster, up, cache>>
        /\ w.pc = "sherlockRead"
    BY <1>0, <1>6 DEF SherlockRead
  <2>2. /\ nw.pc = "sherlockCheck" /\ nw.req = w.req /\ nw.insp = w.insp
        /\ nw.points = w.points /\ nw.services = list
        /\ nw.gazer = w.gazer /\ nw.fresh = w.fresh \cup {"sherlock"}
    BY <1>0 DEF Worker
  <2>. HIDE DEF nw
  <2>3. PathOK(nw)
    BY <1>0, <2>1, <2>2 DEF PathOK
  <2>4. FreshCopies(o)'
    BY <1>0, <2>1, <2>2 DEF FreshCopies, Entry, configs
  <2>. QED BY <1>0, <2>1, <2>2, <2>3, <2>4, LocalInv
<1>7. CASE SherlockCheck(o)
  <2>. DEFINE nw == [w EXCEPT !.pc = "sherlockWrite"]
  <2>1. /\ worker' = [worker EXCEPT ![o] = nw]
        /\ UNCHANGED <<inspector, configs, cluster, up, cache>>
        /\ w.pc = "sherlockCheck"
    BY <1>0, <1>7 DEF SherlockCheck
  <2>2. /\ nw.pc = "sherlockWrite" /\ nw.req = w.req /\ nw.insp = w.insp
        /\ nw.points = w.points /\ nw.services = w.services
        /\ nw.gazer = w.gazer /\ nw.fresh = w.fresh
    BY <1>0 DEF Worker
  <2>. HIDE DEF nw
  <2>3. PathOK(nw)
    BY <1>0, <2>1, <2>2 DEF PathOK
  <2>4. FreshCopies(o)'
    BY <1>0, <2>1, <2>2 DEF FreshCopies, Entry, configs
  <2>. QED BY <1>0, <2>1, <2>2, <2>3, <2>4, LocalInv
<1>8. CASE SherlockWrite(o)
  BY <1>8, StoreSherlockInv DEF SherlockWrite
<1>9. CASE RemoveFinalizer(o)
  BY <1>9, StoreInspectorInv DEF RemoveFinalizer
<1>10. ASSUME worker' = [worker EXCEPT ![o] = Idle],
              UNCHANGED <<inspector, configs, cluster, up, cache>>
       PROVE  Coherent' /\ OnItsPath'
  BY <1>10, IdlePath, LocalInv
<1>11. CASE StatusWrite(o)
  BY <1>10, <1>11, StoreInspectorInv DEF StatusWrite, StoreStatus
<1>12. CASE Conflict(o) \/ MissingRef(o) \/ APIError(o)
  BY <1>10, <1>12 DEF Conflict, MissingRef, APIError, Fail
<1>. QED
  BY <1>1, <1>3, <1>4, <1>5, <1>6, <1>7, <1>8, <1>9, <1>11, <1>12 DEF WorkerStep

LEMMA ManagerInv ==
    ASSUME TInv, Coherent, OnItsPath, NEW o \in Operators,
           \/ \E i \in Inspectors : StartReconcile(o, i) \/ SyncCache(o, i)
           \/ StartOperator(o)
           \/ StopOperator(o)
    PROVE  Coherent' /\ OnItsPath'
<1>1. ASSUME NEW i \in Inspectors, StartReconcile(o, i) PROVE Coherent' /\ OnItsPath'
  <2>. DEFINE obj == cache[o][i].obj
              fresh == IF cache[o][i].current THEN {"inspector"} ELSE {}
              nw == [Idle EXCEPT !.pc = FirstCall(obj), !.req = i, !.insp = obj,
                                 !.fresh = fresh]
  <2>1. o \in up /\ UNCHANGED <<inspector, configs, cache, up>>
    BY <1>1 DEF StartReconcile
  <2>2. CASE FirstCall(obj) = "idle"
    BY <1>1, <2>1, <2>2, IdlePath, LocalInv DEF StartReconcile
  <2>3. CASE FirstCall(obj) # "idle"
    <3>1. worker' = [worker EXCEPT ![o] = nw]
      BY <1>1, <2>3 DEF StartReconcile
    <3>2. obj \in Object \cup {Absent}
      BY DEF TInv, TypeOK, CachedObject
    <3>3. obj \in Object
      BY <2>3, <3>2 DEF FirstCall
    <3>4. /\ nw.pc = FirstCall(obj) /\ nw.req = i /\ nw.insp = obj
          /\ nw.fresh = fresh /\ nw.points = NoPoints
      BY DEF Idle
    <3>5. FreshCopies(o)'
      <4>1. worker'[o] = nw
        BY <3>1 DEF TInv, TypeOK
      <4>2. "inspector" \in fresh => inspector[i] = obj
        BY <2>1 DEF Coherent, FreshCache
      <4>. HIDE DEF nw
      <4>3. "gazer" \notin fresh /\ "sherlock" \notin fresh
        OBVIOUS
      <4>. QED BY <2>1, <3>4, <4>1, <4>2, <4>3 DEF FreshCopies
    <3>6. PathOK(nw)
      <4>. HIDE DEF nw
      <4>1. FirstCall(obj) \in {"addFinalizer", "listPods", "removeRead"}
            /\ (FirstCall(obj) = "listPods" => ~obj.deleting /\ obj.finalizer)
            /\ (FirstCall(obj) = "removeRead" => obj.deleting /\ obj.finalizer)
        BY <2>3, <3>3, AbsentAssumption DEF FirstCall, Object
      <4>. HIDE DEF obj, fresh
      <4>. QED BY <3>4, <4>1 DEF PathOK, NoPoints
    <3>. HIDE DEF nw
    <3>. QED BY <2>1, <3>1, <3>5, <3>6, LocalInv
  <2>. QED BY <2>2, <2>3
<1>2. ASSUME NEW i \in Inspectors, SyncCache(o, i) PROVE Coherent' /\ OnItsPath'
  <2>1. UNCHANGED <<inspector, configs, cluster, up, worker>>
        /\ cache' = [cache EXCEPT ![o][i] = [obj |-> inspector[i], current |-> TRUE]]
    BY <1>2 DEF SyncCache
  <2>2. ASSUME NEW p \in Operators, NEW j \in Inspectors
        PROVE  cache'[p][j] = IF p = o /\ j = i
                              THEN [obj |-> inspector[i], current |-> TRUE]
                              ELSE cache[p][j]
    BY <2>1 DEF TInv, TypeOK
  <2>3. ASSUME NEW p \in Operators PROVE FreshCache(p)'
    BY <2>1, <2>2 DEF Coherent, FreshCache
  <2>4. ASSUME NEW p \in Operators PROVE FreshCopies(p)'
    <3>1. "inspector" \in worker[p].fresh =>
            cache'[p][worker[p].req].obj = worker[p].insp
      <4>. SUFFICES ASSUME "inspector" \in worker[p].fresh
                    PROVE  cache'[p][worker[p].req].obj = worker[p].insp
        OBVIOUS
      <4>1. worker[p].req \in Inspectors
        BY FreshBusy
      <4>2. /\ inspector[worker[p].req] = worker[p].insp
            /\ cache[p][worker[p].req].obj = worker[p].insp
        BY DEF Coherent, FreshCopies
      <4>. QED BY <2>2, <4>1, <4>2
    <3>. QED BY <2>1, <3>1 DEF Coherent, FreshCopies, Entry, configs
  <2>. QED BY <2>1, <2>3, <2>4 DEF Coherent, OnItsPath
<1>3. ASSUME StartOperator(o) \/ StopOperator(o) PROVE Coherent' /\ OnItsPath'
  <2>1. /\ worker'[o].pc = "idle" /\ worker'[o].fresh = {} /\ PathOK(worker'[o])
        /\ \A p \in Operators : p # o => /\ worker'[p] = worker[p]
                                         /\ cache'[p] = cache[p]
                                         /\ p \in up' <=> p \in up
        /\ UNCHANGED <<inspector, configs>>
    <3>1. CASE StartOperator(o)
      <4>1. worker[o].pc = "idle"
        BY <3>1 DEF StartOperator, OnItsPath
      <4>2. worker[o].fresh = {} /\ PathOK(worker[o])
        BY <4>1 DEF OnItsPath, PathOK
      <4>. QED BY <3>1, <4>1, <4>2 DEF StartOperator, TInv, TypeOK
    <3>2. CASE StopOperator(o)
      BY <3>2, IdlePath DEF StopOperator, TInv, TypeOK
    <3>. QED BY <1>3, <3>1, <3>2
  <2>2. FreshCache(o)'
    BY <1>3 DEF StartOperator, StopOperator, FreshCache, TInv, TypeOK
  <2>3. ASSUME NEW p \in Operators PROVE FreshCopies(p)' /\ FreshCache(p)'
    <3>1. CASE p = o
      BY <2>1, <2>2, <3>1 DEF FreshCopies
    <3>2. CASE p # o
      <4>1. /\ worker'[p] = worker[p] /\ cache'[p] = cache[p]
            /\ inspector' = inspector /\ gazerConfig' = gazerConfig
            /\ serviceList' = serviceList
            /\ FreshCopies(p) /\ FreshCache(p)
        BY <2>1, <3>2 DEF Coherent, configs
      <4>2. FreshCopies(p)'
        BY <4>1, Zenon DEF FreshCopies, Entry
      <4>. QED BY <2>1, <3>2, <4>1, <4>2 DEF FreshCache
    <3>. QED BY <3>1, <3>2
  <2>4. OnItsPath'
    BY <2>1 DEF OnItsPath
  <2>. QED BY <2>3, <2>4 DEF Coherent
<1>. QED BY <1>1, <1>2, <1>3

LEMMA UserInv ==
    ASSUME TInv, Coherent, OnItsPath, NEW i \in Inspectors, User(i)
    PROVE  Coherent' /\ OnItsPath'
<1>1. PICK obj : inspector' = [inspector EXCEPT ![i] = obj]
  <2>1. CASE CreateInspector(i)
    BY <2>1 DEF CreateInspector
  <2>2. CASE UpdateSpec(i)
    BY <2>2 DEF UpdateSpec
  <2>3. CASE DeleteInspector(i)
    BY <2>3 DEF DeleteInspector
  <2>. QED BY <2>1, <2>2, <2>3 DEF User
<1>2. /\ cache' = CacheOutdated(i)
      /\ worker' = InspectorOutdated(i)
      /\ UNCHANGED <<configs, up>>
  BY DEF User, CreateInspector, UpdateSpec, DeleteInspector
<1>. QED BY <1>1, <1>2, InspectorChangedInv

LEMMA NextInv ==
    TInv /\ Coherent /\ OnItsPath /\ [Next]_vars => Coherent' /\ OnItsPath'
<1>. SUFFICES ASSUME TInv, Coherent, OnItsPath, [Next]_vars
              PROVE  Coherent' /\ OnItsPath'
  OBVIOUS
<1>1. ASSUME NEW o \in Operators,
             \/ WorkerStep(o) \/ Fault(o) \/ StartOperator(o)
             \/ \E i \in Inspectors : StartReconcile(o, i) \/ SyncCache(o, i)
      PROVE  Coherent' /\ OnItsPath'
  BY <1>1, WorkerStepInv, ManagerInv DEF Fault
<1>2. ASSUME NEW i \in Inspectors, User(i) PROVE Coherent' /\ OnItsPath'
  BY <1>2, UserInv
<1>3. ASSUME UNCHANGED <<inspector, configs, up, cache, queue, worker>>
      PROVE  Coherent' /\ OnItsPath'
  <2>1. \A o \in Operators : (FreshCopies(o) <=> FreshCopies(o)')
                             /\ (FreshCache(o) <=> FreshCache(o)')
    BY <1>3 DEF FreshCopies, FreshCache, Entry, configs
  <2>. QED BY <1>3, <2>1 DEF Coherent, OnItsPath
<1>4. CASE Cluster
  BY <1>3, <1>4 DEF Cluster, PodStart, PodStop, ToggleDeployment, CreateService,
                    DeleteService
<1>5. CASE UNCHANGED vars
  BY <1>3, <1>5 DEF vars
<1>. QED BY <1>1, <1>2, <1>4, <1>5 DEF Next

\* A fresh copy is what is stored, and every worker is where its copy says.
LEMMA CopiesInv == Spec => [](TInv /\ Coherent /\ OnItsPath)
BY InitTypes, NextTypes, InitInv, NextInv, PTL DEF Spec

-----------------------------------------------------------------------------
(* Concurrent reconcilers do not lose each other's entries. *)

\* Only these steps write the ConfigMaps.
LEMMA Writers ==
    ASSUME [Next]_vars
    PROVE  /\ gazerConfig' # gazerConfig =>
                \E o \in Operators : RemoveWrite(o) \/ GazerWrite(o)
           /\ serviceList' # serviceList => \E o \in Operators : SherlockWrite(o)
<1>1. ASSUME NEW o \in Operators,
             WorkerStep(o) \/ Fault(o) \/ StartOperator(o)
      PROVE  /\ gazerConfig' # gazerConfig => RemoveWrite(o) \/ GazerWrite(o)
             /\ serviceList' # serviceList => SherlockWrite(o)
  BY <1>1 DEF WorkerStep, Fault, StartOperator, APIError, StopOperator, Conflict,
       MissingRef, Fail, AddFinalizer, RemoveRead, ListPods, GazerRead, SherlockRead,
       SherlockCheck, SherlockWrite, RemoveFinalizer, StatusWrite, StoreStatus,
       StoreInspector, ReadGazer, RemoveWrite, GazerWrite, StoreGazer, StoreSherlock,
       configs
<1>2. ASSUME NEW o \in Operators, NEW i \in Inspectors,
             StartReconcile(o, i) \/ SyncCache(o, i)
      PROVE  UNCHANGED configs
  BY <1>2 DEF StartReconcile, SyncCache
<1>3. ASSUME NEW i \in Inspectors, User(i) PROVE UNCHANGED configs
  BY <1>3 DEF User, CreateInspector, UpdateSpec, DeleteInspector
<1>4. Cluster \/ UNCHANGED vars => UNCHANGED configs
  BY DEF Cluster, PodStart, PodStop, ToggleDeployment, CreateService, DeleteService, vars
<1>. QED BY <1>1, <1>2, <1>3, <1>4 DEF Next, configs

\* However many operators run, and however they read, compute and write, a write
\* of gazer-config changes only keys that the writer's Inspector recorded or that
\* its reconcile has just computed: no update is lost.
THEOREM NoLostScrapePoint == Spec => OnlyOwnPointsTouched
<1>1. TInv /\ Coherent /\ OnItsPath /\ [Next]_vars => [OwnPointsStep]_vars
  <2>. SUFFICES ASSUME TInv, Coherent, [Next]_vars, gazerConfig' # gazerConfig
                PROVE  OwnPointsStep
    BY DEF OwnPointsStep
  <2>1. PICK o \in Operators : RemoveWrite(o) \/ GazerWrite(o)
    BY Writers
  <2>2. worker[o].pc \in {"removeWrite", "gazerWrite"} /\ worker[o].gazer = gazerConfig
    BY <2>1 DEF RemoveWrite, GazerWrite, Holds, Coherent, FreshCopies
  <2>3. ASSUME NEW ip \in IPs, ip \notin worker[o].insp.monitoredIPs \cup Keys(worker[o].points)
        PROVE  gazerConfig'[ip] = gazerConfig[ip]
    BY <2>1, <2>2, <2>3 DEF RemoveWrite, GazerWrite, StoreGazer, Remaining, Removed,
                            Added, Keys
  <2>. QED BY <2>2, <2>3 DEF OwnPointsStep
<1>. QED BY <1>1, CopiesInv, PTL DEF Spec, OnlyOwnPointsTouched

\* The same for services.yaml, whose write is checked and done by two calls.
THEOREM NoLostService == Spec => OnlyOwnServiceTouched
<1>1. TInv /\ Coherent /\ OnItsPath /\ [Next]_vars => [OwnServiceStep]_vars
  <2>. SUFFICES ASSUME TInv, Coherent, [Next]_vars, serviceList' # serviceList
                PROVE  OwnServiceStep
    BY DEF OwnServiceStep
  <2>1. PICK o \in Operators : SherlockWrite(o)
    BY Writers
  <2>2. /\ worker[o].pc = "sherlockWrite"
        /\ serviceList' = [serviceList EXCEPT ![NameOf[worker[o].req]] = Entry(worker[o])]
    BY <2>1 DEF SherlockWrite, StoreSherlock, Holds, Coherent, FreshCopies
  <2>3. serviceList \in ServiceList
    BY DEF TInv, TypeOK
  <2>. QED BY <2>2, <2>3 DEF OwnServiceStep, ServiceList
<1>. QED BY <1>1, CopiesInv, PTL DEF Spec, OnlyOwnServiceTouched

-----------------------------------------------------------------------------
(* One operator at a time: what is listed or published has a guard. *)

\* While one operator works the others are idle.
LEMMA OthersIdle ==
    ASSUME OnItsPath, Protected, NEW o \in Operators, worker[o].pc # "idle"
    PROVE  /\ o \in up
           /\ \A p \in Operators : p # o => worker[p].pc = "idle"
BY DEF OnItsPath, Protected

\* Steps that change neither the stored Inspectors nor services.yaml.
LEMMA QuietProtected ==
    ASSUME Protected, UNCHANGED <<inspector, serviceList, up, cache>>,
           \A o \in Operators :
              \/ worker'[o].pc = "idle"
              \/ /\ worker[o].pc # "idle"
                 /\ worker'[o].req = worker[o].req
                 /\ worker'[o].insp = worker[o].insp
                 /\ worker'[o].pc = "removeFinalizer" => worker[o].pc = "removeFinalizer"
    PROVE  Protected'
<1>1. ASSUME NEW o \in Operators
      PROVE  /\ worker'[o].pc # "idle" /\ Guards(worker'[o].insp)
                /\ ~worker'[o].insp.deleting => Guards(inspector'[worker'[o].req])
             /\ worker'[o].pc = "removeFinalizer" =>
                serviceList'[NameOf[worker'[o].req]] = Absent
  BY DEF Protected
<1>. QED BY <1>1 DEF Protected, Guards

\* A stored Inspector changes and keeps its finalizer if it has one.
LEMMA GuardKeptProtected ==
    ASSUME TInv, Protected, NEW r \in Inspectors, NEW obj,
           inspector' = [inspector EXCEPT ![r] = obj],
           Guards(inspector[r]) => Guards(obj),
           cache' = CacheOutdated(r),
           UNCHANGED <<serviceList, up>>,
           \A p \in Operators : worker'[p] \in {Idle, InspectorOutdated(r)[p]}
    PROVE  Protected'
<1>1. \A i \in Inspectors : Guards(inspector[i]) => Guards(inspector'[i])
  BY DEF TInv, TypeOK
<1>2. \A o \in Operators, i \in Inspectors : cache'[o][i].obj = cache[o][i].obj
  BY DEF TInv, TypeOK, CacheOutdated, CachedObject
<1>3. ASSUME NEW o \in Operators, worker'[o].pc # "idle"
      PROVE  /\ worker'[o].pc = worker[o].pc
             /\ worker'[o].req = worker[o].req
             /\ worker'[o].insp = worker[o].insp
             /\ worker[o].req \in Inspectors
  BY <1>3, IdlePath DEF TInv, TypeOK, BusyOK, Worker, InspectorOutdated
<1>4. \A p, q \in up' : p = q
  BY DEF Protected
<1>5. \A o \in up', i \in Inspectors :
        Guards(cache[o][i].obj)' /\ ~cache'[o][i].obj.deleting => Guards(inspector'[i])
  BY <1>1, <1>2 DEF Protected, TInv, TypeOK, Guards
<1>6. ASSUME NEW o \in Operators
      PROVE  /\ worker'[o].pc # "idle" /\ Guards(worker'[o].insp)
                /\ ~worker'[o].insp.deleting => Guards(inspector'[worker'[o].req])
             /\ worker'[o].pc = "removeFinalizer" =>
                serviceList'[NameOf[worker'[o].req]] = Absent
  BY <1>1, <1>3 DEF Protected
<1>7. ASSUME NEW n \in Names, serviceList'[n] # Absent
      PROVE  /\ NameOf[serviceList'[n].inspector] = n
             /\ Guards(inspector'[serviceList'[n].inspector])
  <2>1. serviceList[n].inspector \in Inspectors
    BY <1>7 DEF TInv, TypeOK, ServiceList, InferenceData
  <2>. QED BY <1>1, <1>7, <2>1 DEF Protected
<1>. QED BY <1>4, <1>5, <1>6, <1>7 DEF Protected, Guards

LEMMA WorkerStepProtected ==
    ASSUME TInv, Coherent, OnItsPath, Protected, NEW o \in Operators,
           WorkerStep(o) \/ APIError(o)
    PROVE  Protected'
<1>. DEFINE w == worker[o]
            r == worker[o].req
<1>0. /\ w \in Worker /\ worker \in [Operators -> Worker]
      /\ w.pc # "idle" => r \in Inspectors /\ w.insp \in Object
      /\ PathOK(w) /\ FreshCopies(o)
  BY DEF TInv, TypeOK, BusyOK, OnItsPath, Coherent
<1>1. CASE AddFinalizer(o)
  <2>1. Guards([w.insp EXCEPT !.finalizer = TRUE])
    BY <1>0, <1>1, AbsentAssumption DEF AddFinalizer, Guards, Object
  <2>2. \A p \in Operators : worker'[p] \in {Idle, InspectorOutdated(r)[p]}
    BY <1>1 DEF AddFinalizer, StoreInspector, InspectorOutdated
  <2>. QED BY <1>0, <1>1, <2>1, <2>2, GuardKeptProtected
           DEF AddFinalizer, StoreInspector, configs
<1>2. CASE StatusWrite(o)
  <2>1. CASE StoreInspector(o, Reported(o))
    <3>1. Guards(Reported(o))
      <4>1. w.insp \in Object /\ w.insp.finalizer
        BY <1>0, <1>2 DEF StatusWrite, PathOK
      <4>2. Keys(w.points) \subseteq IPs
        BY DEF Keys
      <4>3. Reported(o) \in Object /\ Reported(o).finalizer
        BY <4>1, <4>2 DEF Reported, Object
      <4>. QED BY <4>3, AbsentAssumption DEF Guards
    <3>2. \A p \in Operators : worker'[p] \in {Idle, InspectorOutdated(r)[p]}
      BY <2>1 DEF StoreInspector, InspectorOutdated
    <3>. QED BY <1>0, <1>2, <2>1, <3>1, <3>2, GuardKeptProtected
             DEF StatusWrite, StoreInspector, configs
  <2>2. CASE worker' = [worker EXCEPT ![o] = Idle]
             /\ UNCHANGED <<inspector, configs, cluster, up, cache>>
    BY <1>0, <2>2, IdlePath, QuietProtected DEF configs
  <2>. QED BY <1>2, <2>1, <2>2 DEF StatusWrite, StoreStatus
<1>3. CASE Conflict(o) \/ MissingRef(o) \/ APIError(o)
  BY <1>0, <1>3, IdlePath, QuietProtected
     DEF Conflict, MissingRef, APIError, Fail, configs
<1>4. CASE RemoveRead(o) \/ GazerRead(o)
  BY <1>0, <1>4, QuietProtected DEF RemoveRead, GazerRead, ReadGazer, Worker, configs
<1>5. CASE RemoveWrite(o) \/ GazerWrite(o)
  <2>0. PICK gz : StoreGazer(o, gz, "sherlockRead")
    BY <1>5 DEF RemoveWrite, GazerWrite
  <2>1. ASSUME NEW p \in Operators
        PROVE  /\ worker'[p].req = worker[p].req
               /\ worker'[p].insp = worker[p].insp
               /\ p # o => worker'[p].pc = worker[p].pc
    BY <1>0, <2>0 DEF StoreGazer, ConfigOutdated, Worker
  <2>2. worker'[o].pc = "sherlockRead" /\ w.pc # "idle"
    BY <1>0, <1>5, <2>0 DEF RemoveWrite, GazerWrite, StoreGazer, ConfigOutdated, Worker
  <2>3. UNCHANGED <<inspector, serviceList, up, cache>>
    BY <1>5 DEF RemoveWrite, GazerWrite, StoreGazer
  <2>. QED BY <2>1, <2>2, <2>3, QuietProtected
<1>6. CASE ListPods(o) \/ SherlockRead(o) \/ SherlockCheck(o)
  BY <1>0, <1>6, QuietProtected DEF ListPods, SherlockRead, SherlockCheck, Worker, configs
<1>7. CASE SherlockWrite(o)
  <2>1. /\ w.pc = "sherlockWrite" /\ w.insp.finalizer /\ r \in Inspectors
        /\ serviceList' = [serviceList EXCEPT ![NameOf[r]] = Entry(w)]
        /\ UNCHANGED <<inspector, up, cache>>
    BY <1>0, <1>7 DEF SherlockWrite, StoreSherlock, Holds, FreshCopies, PathOK
  <2>2. /\ worker'[o].pc = IF w.insp.deleting THEN "removeFinalizer" ELSE "statusWrite"
        /\ worker'[o].req = r /\ worker'[o].insp = w.insp
        /\ \A p \in Operators : p # o => worker'[p].pc = "idle"
    BY <1>0, <1>7, <2>1, OthersIdle DEF SherlockWrite, StoreSherlock, ConfigOutdated, Worker
  <2>3. serviceList \in ServiceList /\ NameOf[r] \in Names
    BY <2>1, ConstantsAssumption DEF TInv, TypeOK
  <2>4. Guards(w.insp) /\ (~w.insp.deleting => Guards(inspector[r]))
    BY <1>0, <2>1, AbsentAssumption DEF Guards, Protected
  <2>5. ASSUME NEW n \in Names, serviceList'[n] # Absent
        PROVE  /\ NameOf[serviceList'[n].inspector] = n
               /\ Guards(inspector[serviceList'[n].inspector])
    BY <2>1, <2>3, <2>4, <2>5 DEF Entry, Protected, ServiceList
  <2>6. ASSUME NEW p \in Operators
        PROVE  /\ worker'[p].pc # "idle" /\ Guards(worker'[p].insp)
                  /\ ~worker'[p].insp.deleting => Guards(inspector'[worker'[p].req])
               /\ worker'[p].pc = "removeFinalizer" =>
                  serviceList'[NameOf[worker'[p].req]] = Absent
    BY <2>1, <2>2, <2>3, <2>4 DEF Entry, ServiceList
  <2>. QED BY <2>1, <2>5, <2>6 DEF Protected, Guards
<1>8. CASE RemoveFinalizer(o)
  <2>1. /\ r \in Inspectors /\ w.insp.deleting
        /\ inspector' = [inspector EXCEPT ![r] = Absent]
        /\ cache' = CacheOutdated(r)
        /\ cache[o][r].obj = w.insp
        /\ serviceList[NameOf[r]] = Absent
        /\ UNCHANGED <<serviceList, up>>
        /\ worker'[o] = Idle
    BY <1>0, <1>8 DEF RemoveFinalizer, StoreInspector, Holds, FreshCopies, PathOK,
                      Protected, configs, InspectorOutdated
  <2>2. \A p \in Operators : worker'[p].pc = "idle"
    <3>1. \A p \in Operators : p # o => worker'[p].pc = worker[p].pc
      BY <1>0, <1>8 DEF RemoveFinalizer, StoreInspector, InspectorOutdated, Worker
    <3>. QED BY <1>8, <2>1, <3>1, OthersIdle, IdlePath DEF RemoveFinalizer
  <2>3. \A p \in Operators, i \in Inspectors : cache'[p][i].obj = cache[p][i].obj
    BY <2>1 DEF TInv, TypeOK, CacheOutdated, CachedObject
  <2>4. \A p \in up : p = o
    BY <1>8, OthersIdle DEF RemoveFinalizer, Protected
  <2>5. \A i \in Inspectors : i # r => inspector'[i] = inspector[i]
    BY <2>1 DEF TInv, TypeOK
  <2>6. ASSUME NEW p \in up, NEW i \in Inspectors,
               Guards(cache[p][i].obj)', ~cache'[p][i].obj.deleting
        PROVE  Guards(inspector'[i])
    <3>1. p = o /\ p \in Operators
      BY <2>4 DEF TInv, TypeOK
    <3>2. Guards(cache[p][i].obj) /\ ~cache[p][i].obj.deleting
      BY <2>3, <2>6, <3>1 DEF Guards
    <3>3. i # r
      BY <2>1, <3>1, <3>2
    <3>. QED BY <2>5, <3>2, <3>3 DEF Protected
  <2>7. ASSUME NEW n \in Names, serviceList'[n] # Absent
        PROVE  /\ NameOf[serviceList'[n].inspector] = n
               /\ Guards(inspector'[serviceList'[n].inspector])
    <3>1. /\ serviceList[n].inspector \in Inspectors
          /\ NameOf[serviceList[n].inspector] = n
      BY <2>1, <2>7 DEF TInv, TypeOK, ServiceList, InferenceData, Protected
    <3>2. serviceList[n].inspector # r
      BY <2>1, <2>7, <3>1
    <3>. QED BY <2>1, <2>5, <2>7, <3>1, <3>2 DEF Protected
  <2>. QED BY <2>1, <2>2, <2>6, <2>7 DEF Protected, Guards
<1>. QED
  BY <1>1, <1>2, <1>3, <1>4, <1>5, <1>6, <1>7, <1>8 DEF WorkerStep

LEMMA ManagerProtected ==
    ASSUME TInv, Coherent, OnItsPath, Protected, LeaderElection, NEW o \in Operators,
           \/ \E i \in Inspectors : StartReconcile(o, i) \/ SyncCache(o, i)
           \/ StartOperator(o)
           \/ StopOperator(o)
    PROVE  Protected'
<1>1. ASSUME NEW i \in Inspectors, StartReconcile(o, i) PROVE Protected'
  <2>. DEFINE obj == cache[o][i].obj
              nw == worker'[o]
  <2>1. /\ o \in up
        /\ UNCHANGED <<inspector, configs, up, cache>>
        /\ \A p \in Operators : p # o => worker'[p] = worker[p]
        /\ \/ nw = Idle
           \/ nw.pc = FirstCall(obj) /\ nw.req = i /\ nw.insp = obj
    BY <1>1 DEF StartReconcile, TInv, TypeOK, Idle
  <2>2. FirstCall(obj) # "removeFinalizer"
    <3>1. obj \in Object \cup {Absent}
      BY DEF TInv, TypeOK, CachedObject
    <3>. QED BY <3>1, AbsentAssumption DEF FirstCall, Object
  <2>3. ASSUME NEW p \in Operators
        PROVE  /\ worker'[p].pc # "idle" /\ Guards(worker'[p].insp)
                  /\ ~worker'[p].insp.deleting => Guards(inspector'[worker'[p].req])
               /\ worker'[p].pc = "removeFinalizer" =>
                  serviceList'[NameOf[worker'[p].req]] = Absent
    <3>1. CASE p # o
      BY <2>1, <3>1 DEF Protected, configs
    <3>2. CASE p = o /\ nw = Idle
      BY <3>2, IdlePath
    <3>3. CASE p = o /\ nw.pc = FirstCall(obj) /\ nw.req = i /\ nw.insp = obj
      <4>1. Guards(obj) /\ ~obj.deleting => Guards(inspector[i])
        BY <2>1 DEF Protected
      <4>. HIDE DEF obj
      <4>. QED BY <2>1, <2>2, <3>3, <4>1
    <3>. QED BY <2>1, <3>1, <3>2, <3>3
  <2>. QED BY <2>1, <2>3 DEF Protected, Guards, configs
<1>2. ASSUME NEW i \in Inspectors, SyncCache(o, i) PROVE Protected'
  <2>1. UNCHANGED <<inspector, configs, up, worker>>
    BY <1>2 DEF SyncCache
  <2>2. ASSUME NEW p \in up, NEW j \in Inspectors
        PROVE  cache'[p][j].obj \in {inspector[j], cache[p][j].obj}
    BY <1>2 DEF SyncCache, TInv, TypeOK
  <2>3. ASSUME NEW p \in up, NEW j \in Inspectors,
               Guards(cache'[p][j].obj), ~cache'[p][j].obj.deleting
        PROVE  Guards(inspector'[j])
    BY <2>1, <2>2, <2>3 DEF Protected
  <2>. QED BY <2>1, <2>3 DEF Protected, Guards, configs
<1>3. ASSUME StartOperator(o) PROVE Protected'
  <2>1. /\ up' = {o}
        /\ \A i \in Inspectors : cache'[o][i].obj = inspector[i]
        /\ UNCHANGED <<inspector, configs, worker>>
    BY <1>3 DEF StartOperator, TInv, TypeOK
  <2>. QED BY <2>1 DEF Protected, Guards, configs
<1>4. ASSUME StopOperator(o) PROVE Protected'
  <2>1. /\ up' = up \ {o}
        /\ \A p \in Operators : p # o => /\ cache'[p] = cache[p]
                                         /\ worker'[p] = worker[p]
        /\ worker'[o] = Idle
        /\ up \subseteq Operators
        /\ UNCHANGED <<inspector, configs>>
    BY <1>4 DEF StopOperator, TInv, TypeOK
  <2>2. ASSUME NEW p \in Operators
        PROVE  /\ worker'[p].pc # "idle" /\ Guards(worker'[p].insp)
                  /\ ~worker'[p].insp.deleting => Guards(inspector'[worker'[p].req])
               /\ worker'[p].pc = "removeFinalizer" =>
                  serviceList'[NameOf[worker'[p].req]] = Absent
    BY <2>1, IdlePath DEF Protected, configs
  <2>. QED BY <2>1, <2>2 DEF Protected, Guards, configs
<1>. QED BY <1>1, <1>2, <1>3, <1>4

LEMMA UserProtected ==
    ASSUME TInv, Protected, NEW i \in Inspectors, User(i)
    PROVE  Protected'
<1>1. /\ cache' = CacheOutdated(i)
      /\ worker' = InspectorOutdated(i)
      /\ UNCHANGED <<serviceList, up>>
  BY DEF User, CreateInspector, UpdateSpec, DeleteInspector, configs
<1>2. inspector[i] \in Object \cup {Absent}
  BY DEF TInv, TypeOK
<1>3. PICK obj : /\ inspector' = [inspector EXCEPT ![i] = obj]
                 /\ Guards(inspector[i]) => Guards(obj)
  <2>1. CASE CreateInspector(i)
    BY <2>1 DEF CreateInspector, Guards
  <2>2. CASE UpdateSpec(i)
    <3>1. PICK spec \in InspectorSpec :
            inspector' = [inspector EXCEPT ![i] = [@ EXCEPT !.spec = spec]]
      BY <2>2, ConstantsAssumption DEF UpdateSpec
    <3>2. inspector[i] \in Object =>
            [inspector[i] EXCEPT !.spec = spec] \in Object
      BY <3>1 DEF Object
    <3>3. Guards(inspector[i]) => Guards([inspector[i] EXCEPT !.spec = spec])
      BY <1>2, <3>2, AbsentAssumption DEF Guards, Object
    <3>. QED BY <3>1, <3>3
  <2>3. CASE DeleteInspector(i)
    <3>. DEFINE marked == [inspector[i] EXCEPT !.deleting = TRUE]
    <3>1. inspector' = [inspector EXCEPT ![i] =
                            IF @.finalizer THEN marked ELSE Absent]
      BY <2>3 DEF DeleteInspector
    <3>2. Guards(inspector[i]) => marked \in Object /\ marked.finalizer
      BY <1>2 DEF Guards, Object
    <3>3. Guards(inspector[i]) =>
            Guards(IF inspector[i].finalizer THEN marked ELSE Absent)
      BY <3>2, AbsentAssumption DEF Guards
    <3>. QED BY <3>1, <3>3
  <2>. QED BY <2>1, <2>2, <2>3 DEF User
<1>. QED BY <1>1, <1>3, GuardKeptProtected

LEMMA NextProtected ==
    ASSUME TInv, Coherent, OnItsPath, Protected, LeaderElection, [Next]_vars
    PROVE  Protected'
<1>1. ASSUME NEW o \in Operators,
             \/ WorkerStep(o) \/ Fault(o) \/ StartOperator(o)
             \/ \E i \in Inspectors : StartReconcile(o, i) \/ SyncCache(o, i)
      PROVE  Protected'
  BY <1>1, WorkerStepProtected, ManagerProtected DEF Fault
<1>2. ASSUME NEW i \in Inspectors, User(i) PROVE Protected'
  BY <1>2, UserProtected
<1>3. ASSUME UNCHANGED <<inspector, configs, up, cache, queue, worker>>
      PROVE  Protected'
  BY <1>3 DEF Protected, Guards, configs
<1>4. CASE Cluster
  BY <1>3, <1>4 DEF Cluster, PodStart, PodStop, ToggleDeployment, CreateService,
                    DeleteService
<1>5. CASE UNCHANGED vars
  BY <1>3, <1>5 DEF vars
<1>. QED BY <1>1, <1>2, <1>4, <1>5 DEF Next

\* The inductive invariant of the operator.
LEMMA InductiveInvariant == Spec => [](TInv /\ IInv)
<1>1. Init => Protected
  BY IdlePath, AbsentAssumption DEF Init, Protected, NoServices
<1>2. Init => TInv /\ IInv
  BY <1>1, InitTypes, InitInv DEF IInv
<1>3. TInv /\ IInv /\ [Next]_vars => (TInv /\ IInv)'
  BY NextTypes, NextInv, NextProtected DEF IInv
<1>. QED BY <1>2, <1>3, PTL DEF Spec

\* With leader election, a service that Sherlock scores always has an Inspector
\* that holds the finalizer, whatever crashes, fails, lags or is deleted.
THEOREM SherlockAlwaysOwned == Spec => []SherlockOwned
<1>1. TInv /\ IInv => SherlockOwned
  BY DEF IInv, Protected, Guards, SherlockOwned
<1>. QED BY InductiveInvariant, <1>1, PTL

\* With leader election, scrape points are published only for an Inspector that
\* holds the finalizer at that moment.
THEOREM PublishedOnlyUnderFinalizer == Spec => PublishedUnderFinalizer
<1>1. TInv /\ IInv /\ [Next]_vars => [PublishStep]_vars
  <2>. SUFFICES ASSUME TInv, IInv, [Next]_vars, LeaderElection, NEW ip \in IPs,
                       gazerConfig'[ip] \notin {Absent, gazerConfig[ip]}
                PROVE  Guards(inspector[gazerConfig'[ip].inspector])
    BY Zenon DEF PublishStep, Guards
  <2>1. PICK o \in Operators : RemoveWrite(o) \/ GazerWrite(o)
    BY Writers
  <2>2. worker[o].gazer = gazerConfig
    BY <2>1 DEF RemoveWrite, GazerWrite, Holds, IInv, Coherent, FreshCopies
  <2>3. /\ GazerWrite(o)
        /\ gazerConfig'[ip] = worker[o].points[ip]
    BY <2>1, <2>2 DEF RemoveWrite, GazerWrite, StoreGazer, Remaining, Removed, Added
  <2>4. /\ worker[o].pc = "gazerWrite"
        /\ gazerConfig'[ip].inspector = worker[o].req
        /\ worker[o].insp \in Object
    BY <2>3 DEF GazerWrite, IInv, OnItsPath, PathOK, TInv, BusyOK
  <2>5. Guards(worker[o].insp) /\ ~worker[o].insp.deleting
    BY <2>4, AbsentAssumption DEF IInv, OnItsPath, PathOK, Guards
  <2>. QED BY <2>4, <2>5 DEF IInv, Protected
<1>. QED BY <1>1, InductiveInvariant, PTL DEF Spec, PublishedUnderFinalizer
=============================================================================
