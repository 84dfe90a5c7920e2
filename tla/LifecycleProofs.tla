---------------------------- MODULE LifecycleProofs ---------------------------
(*************************************************************************)
(* Further proofs about InspectorController, whatever crashes, fails or  *)
(* lags behind.  With one operator at a time: an Inspector that users    *)
(* see as Running is served by Sherlock, the operator implements         *)
(* MonitoringLifecycle, a report is true when it is stored, a removal    *)
(* leaves none of the recorded addresses, and no Inspector is forgotten. *)
(* With any number of operators: what is monitored and settled is        *)
(* monitored without interruption.                                       *)
(*                                                                       *)
(* They rest on the inductive invariant of InspectorControllerProofs and *)
(* on three more.  Served (where no two Inspectors share a name): an     *)
(* operator that takes an Inspector for deleted, in its cache or at      *)
(* work, is right, or the Inspector's service is not listed.  Stands:    *)
(* what the reconcile has removed, published and listed so far is still  *)
(* so.  Remembered: what the operator has no request for it has not seen *)
(* yet, or has seen dying and released.  The last theorem needs none:    *)
(* Steady is kept by each step (Moves), as copies and claims only shrink.*)
(*************************************************************************)
EXTENDS InspectorControllerProofs

Deleting(obj) == obj # Absent /\ obj.deleting

Running(i) ==
    inspector[i] # Absent /\ inspector[i].status = "Running" /\ ~inspector[i].deleting

IsListed(i) ==
    serviceList[NameOf[i]] # Absent /\ serviceList[NameOf[i]].inspector = i

\* It may be unlisted: it is being deleted, or is not listed at all.
Dead(i) == Deleting(inspector[i]) \/ ~IsListed(i)

RunningListed == \A i \in Inspectors : Running(i) => IsListed(i)

DyingCached == \A o \in up, i \in Inspectors : Deleting(cache[o][i].obj) => Dead(i)

\* A worker on its way to unlist a service, one that has listed its own, and one on
\* its way to list it, with a cache that may know of the deletion before the worker.
WorkerKnows(o) ==
    LET w == worker[o] IN
    w.pc # "idle" =>
        /\ w.insp.deleting => Dead(w.req)
        /\ w.pc = "statusWrite" => IsListed(w.req)
        /\ Guards(w.insp) /\ ~w.insp.deleting /\ Deleting(cache[o][w.req].obj)
             => Deleting(inspector[w.req])

Served == RunningListed /\ DyingCached /\ \A o \in Operators : WorkerKnows(o)

-----------------------------------------------------------------------------
(* Steps that list nothing. *)

\* Steps that change neither the stored Inspectors nor services.yaml.
LEMMA QuietServed ==
    ASSUME Served, UNCHANGED <<inspector, serviceList, up, cache>>,
           \A o \in Operators :
              \/ worker'[o].pc = "idle"
              \/ /\ worker[o].pc # "idle"
                 /\ worker'[o].req = worker[o].req
                 /\ worker'[o].insp = worker[o].insp
                 /\ worker'[o].pc = "statusWrite" => worker[o].pc = "statusWrite"
    PROVE  Served'
<1>1. RunningListed' /\ DyingCached'
  BY DEF Served, RunningListed, DyingCached, Running, IsListed, Dead, Deleting
<1>2. ASSUME NEW o \in Operators PROVE WorkerKnows(o)'
  BY DEF Served, WorkerKnows, IsListed, Dead, Deleting, Guards
<1>. QED BY <1>1, <1>2 DEF Served

\* A stored Inspector changes: it does not begin to run unlisted, and it stops being
\* deleted only when it is not listed and nobody works.
LEMMA InspectorChangedServed ==
    ASSUME TInv, Served, NEW r \in Inspectors, NEW obj,
           inspector' = [inspector EXCEPT ![r] = obj],
           Running(r)' => Running(r) \/ IsListed(r),
           \/ Deleting(inspector[r]) => Deleting(obj)
           \/ ~IsListed(r) /\ \A p \in Operators : worker'[p].pc = "idle",
           cache' = CacheOutdated(r),
           UNCHANGED <<serviceList, up>>,
           \A p \in Operators : worker'[p] \in {Idle, InspectorOutdated(r)[p]}
    PROVE  Served'
<1>1. /\ inspector'[r] = obj
      /\ \A i \in Inspectors : i # r => inspector'[i] = inspector[i]
      /\ \A i \in Inspectors : IsListed(i)' <=> IsListed(i)
  BY DEF TInv, TypeOK, IsListed
<1>2. \A o \in Operators, i \in Inspectors : cache'[o][i].obj = cache[o][i].obj
  BY DEF TInv, TypeOK, CacheOutdated, CachedObject
<1>3. ASSUME NEW o \in Operators, worker'[o].pc # "idle"
      PROVE  /\ worker'[o].pc = worker[o].pc
             /\ worker'[o].req = worker[o].req
             /\ worker'[o].insp = worker[o].insp
             /\ worker[o].req \in Inspectors
  BY <1>3, IdlePath DEF TInv, TypeOK, BusyOK, Worker, InspectorOutdated
<1>4. \A i \in Inspectors : Dead(i) => Dead(i)'
  BY <1>1 DEF Dead
<1>5. RunningListed'
  BY <1>1 DEF Served, RunningListed, Running
<1>6. DyingCached'
  BY <1>2, <1>4 DEF Served, DyingCached, Deleting, TInv, TypeOK
<1>7. ASSUME NEW o \in Operators, worker'[o].pc # "idle" PROVE WorkerKnows(o)'
  <2>1. \A i \in Inspectors : Deleting(inspector[i]) => Deleting(inspector'[i])
    BY <1>1, <1>7
  <2>2. cache'[o][worker[o].req].obj = cache[o][worker[o].req].obj
    BY <1>2, <1>3, <1>7
  <2>. QED BY <1>1, <1>3, <1>4, <1>7, <2>1, <2>2 DEF Served, WorkerKnows, Deleting, Guards
<1>. QED BY <1>5, <1>6, <1>7 DEF Served, WorkerKnows

-----------------------------------------------------------------------------
(* The calls of a reconcile. *)

LEMMA WorkerStepServed ==
    ASSUME TInv, Coherent, OnItsPath, Protected, UniqueNames, Served,
           NEW o \in Operators, WorkerStep(o) \/ APIError(o)
    PROVE  Served'
<1>. DEFINE w == worker[o]
<1>r. PICK r : r = w.req
  OBVIOUS
<1>0. /\ r = w.req
      /\ w \in Worker /\ worker \in [Operators -> Worker]
      /\ w.pc # "idle" => r \in Inspectors /\ w.insp \in Object
      /\ PathOK(w) /\ FreshCopies(o) /\ WorkerKnows(o)
  BY <1>r DEF TInv, TypeOK, BusyOK, OnItsPath, Coherent, Served
<1>1. CASE AddFinalizer(o)
  <2>1. r \in Inspectors /\ inspector[r] = w.insp /\ w.insp \in Object
    BY <1>0, <1>1 DEF AddFinalizer, Holds, FreshCopies
  <2>. DEFINE obj == [w.insp EXCEPT !.finalizer = TRUE]
  <2>2. /\ obj.status = w.insp.status /\ obj.deleting = w.insp.deleting
        /\ obj # Absent
    BY <2>1, AbsentAssumption DEF Object
  <2>3. inspector' = [inspector EXCEPT ![r] = obj]
    BY <1>0, <1>1 DEF AddFinalizer, StoreInspector
  <2>. HIDE DEF obj
  <2>4. inspector'[r] = obj
    BY <2>1, <2>3 DEF TInv, TypeOK
  <2>5. Running(r)' => Running(r)
    BY <2>1, <2>2, <2>4, AbsentAssumption DEF Running
  <2>6. \A p \in Operators : worker'[p] \in {Idle, InspectorOutdated(r)[p]}
    BY <1>0, <1>1 DEF AddFinalizer, StoreInspector, InspectorOutdated
  <2>7. cache' = CacheOutdated(r) /\ UNCHANGED <<serviceList, up>>
    BY <1>0, <1>1 DEF AddFinalizer, StoreInspector, configs
  <2>8. Deleting(inspector[r]) => Deleting(obj)
    BY <2>1, <2>2 DEF Deleting
  <2>. QED BY <2>1, <2>3, <2>5, <2>6, <2>7, <2>8, InspectorChangedServed
<1>2. CASE StatusWrite(o)
  <2>1. /\ r \in Inspectors /\ IsListed(r)
        /\ inspector[r] = w.insp /\ ~w.insp.deleting
    BY <1>0, <1>2 DEF StatusWrite, Holds, FreshCopies, PathOK, WorkerKnows
  <2>2. CASE StoreInspector(o, Reported(o))
    <3>1. /\ inspector' = [inspector EXCEPT ![r] = Reported(o)]
          /\ cache' = CacheOutdated(r) /\ UNCHANGED <<serviceList, up>>
      BY <1>0, <2>2 DEF StoreInspector, configs
    <3>2. \A p \in Operators : worker'[p] \in {Idle, InspectorOutdated(r)[p]}
      BY <1>0, <2>2 DEF StoreInspector, InspectorOutdated
    <3>3. ~Deleting(inspector[r])
      BY <2>1 DEF Deleting
    <3>. QED BY <2>1, <3>1, <3>2, <3>3, InspectorChangedServed
  <2>3. CASE worker' = [worker EXCEPT ![o] = Idle]
             /\ UNCHANGED <<inspector, configs, cluster, up, cache>>
    BY <1>0, <2>3, IdlePath, QuietServed DEF configs
  <2>. QED BY <1>2, <2>2, <2>3 DEF StatusWrite, StoreStatus
<1>3. CASE Conflict(o) \/ MissingRef(o) \/ APIError(o)
  <2>1. worker' = [worker EXCEPT ![o] = Idle] /\ UNCHANGED <<inspector, serviceList, up, cache>>
    BY <1>3 DEF Conflict, MissingRef, APIError, Fail, configs
  <2>. QED BY <1>0, <2>1, IdlePath, QuietServed
<1>4. CASE RemoveRead(o) \/ GazerRead(o)
  BY <1>0, <1>4, QuietServed DEF RemoveRead, GazerRead, ReadGazer, Worker, configs
<1>5. CASE RemoveWrite(o) \/ GazerWrite(o)
  <2>0. PICK gz : StoreGazer(o, gz, "sherlockRead")
    BY <1>5 DEF RemoveWrite, GazerWrite
  <2>1. ASSUME NEW p \in Operators
        PROVE  /\ worker'[p].req = worker[p].req
               /\ worker'[p].insp = worker[p].insp
               /\ p # o => worker'[p].pc = worker[p].pc
    BY <1>0, <2>0 DEF StoreGazer, ConfigOutdated, Worker
  <2>2. worker'[o].pc = "sherlockRead" /\ w.pc # "idle"
    BY <1>0, <1>5, <2>0 DEF RemoveWrite, GazerWrite, StoreGazer, ConfigOutdated, Worker
  <2>3. UNCHANGED <<inspector, serviceList, up, cache>>
    BY <1>5 DEF RemoveWrite, GazerWrite, StoreGazer
  <2>. QED BY <2>1, <2>2, <2>3, QuietServed
<1>6. CASE ListPods(o) \/ SherlockRead(o) \/ SherlockCheck(o)
  BY <1>0, <1>6, QuietServed DEF ListPods, SherlockRead, SherlockCheck, Worker, configs
<1>7. CASE SherlockWrite(o)
  <2>1. /\ w.pc = "sherlockWrite" /\ r \in Inspectors
        /\ serviceList' = [serviceList EXCEPT ![NameOf[r]] = Entry(w)]
        /\ UNCHANGED <<inspector, up, cache>>
    BY <1>0, <1>7 DEF SherlockWrite, StoreSherlock, Holds, FreshCopies
  <2>2. /\ worker'[o].pc = IF w.insp.deleting THEN "removeFinalizer" ELSE "statusWrite"
        /\ worker'[o].req = r /\ worker'[o].insp = w.insp
        /\ \A p \in Operators : p # o => worker'[p].pc = "idle"
    BY <1>0, <1>7, <2>1, OthersIdle DEF SherlockWrite, StoreSherlock, ConfigOutdated, Worker
  <2>3. serviceList'[NameOf[r]] = Entry(w)
    BY <2>1, ConstantsAssumption DEF TInv, TypeOK, ServiceList
  <2>4. ~w.insp.deleting => IsListed(r)'
    <3>1. ASSUME ~w.insp.deleting PROVE Entry(w) # Absent /\ Entry(w).inspector = r
      <4>1. Entry(w) = [inspector |-> r, model |-> w.insp.spec.model]
        BY <1>0, <3>1 DEF Entry
      <4>2. w.insp \in Object
        BY <1>0, <2>1
      <4>3. w.insp.spec.model \in Models
        BY <4>2 DEF Object, InspectorSpec
      <4>4. Entry(w) \in InferenceData
        BY <2>1, <4>1, <4>3 DEF InferenceData
      <4>. QED BY <4>1, <4>4, AbsentAssumption
    <3>. QED BY <2>3, <3>1 DEF IsListed
  <2>5. w.insp.deleting => ~IsListed(r)'
    BY <2>3 DEF Entry, IsListed
  <2>6. \A i \in Inspectors : i # r => (IsListed(i)' <=> IsListed(i))
    BY <2>1, ConstantsAssumption DEF TInv, TypeOK, ServiceList, IsListed, UniqueNames
  <2>7. \A i \in Inspectors : Running(i)' <=> Running(i)
    BY <2>1 DEF Running
  <2>8. RunningListed'
    <3>1. w.insp.deleting => ~Running(r)
      BY <1>0, <2>1 DEF Served, RunningListed, WorkerKnows, Dead, Deleting, Running
    <3>. QED BY <2>4, <2>6, <2>7, <3>1 DEF Served, RunningListed
  <2>9. /\ w.insp.deleting => Dead(r)'
        /\ ~w.insp.deleting /\ Deleting(cache[o][r].obj) => Dead(r)'
    <3>1. Guards(w.insp)
      BY <1>0, <2>1, AbsentAssumption DEF PathOK, Guards
    <3>. QED BY <1>0, <2>1, <2>5, <3>1 DEF WorkerKnows, Dead
  <2>10. DyingCached'
    <3>1. \A p \in up : p = o
      BY <2>1 DEF OnItsPath, Protected
    <3>2. \A i \in Inspectors : i # r => (Dead(i)' <=> Dead(i))
      BY <2>1, <2>6 DEF Dead
    <3>. QED BY <2>1, <2>9, <3>1, <3>2 DEF Served, DyingCached
  <2>11. ASSUME NEW p \in Operators PROVE WorkerKnows(p)'
    <3>1. CASE p # o
      BY <2>2, <3>1 DEF WorkerKnows
    <3>2. CASE p = o
      BY <1>0, <2>1, <2>2, <2>4, <2>9, <3>2 DEF WorkerKnows
    <3>. QED BY <3>1, <3>2
  <2>. QED BY <2>8, <2>10, <2>11 DEF Served
<1>8. CASE RemoveFinalizer(o)
  <2>1. /\ r \in Inspectors
        /\ inspector' = [inspector EXCEPT ![r] = Absent]
        /\ cache' = CacheOutdated(r) /\ UNCHANGED <<serviceList, up>>
    BY <1>0, <1>8 DEF RemoveFinalizer, StoreInspector, configs
  <2>2. ~Running(r)'
    BY <2>1 DEF Running, TInv, TypeOK
  <2>3. \A p \in Operators : worker'[p] \in {Idle, InspectorOutdated(r)[p]}
    BY <1>0, <1>8 DEF RemoveFinalizer, StoreInspector, InspectorOutdated
  <2>4. ~IsListed(r)
    BY <1>0, <1>8 DEF RemoveFinalizer, Protected, IsListed
  <2>5. \A p \in Operators : worker'[p].pc = "idle"
    <3>1. worker'[o] = Idle
      BY <1>0, <1>8 DEF RemoveFinalizer, StoreInspector, InspectorOutdated
    <3>2. \A p \in Operators : p # o => worker[p].pc = "idle"
      BY <1>0, <1>8, OthersIdle DEF RemoveFinalizer
    <3>3. \A p \in Operators : worker'[p].pc \in {"idle", worker[p].pc}
      BY <1>0, <2>3, IdlePath DEF InspectorOutdated, Worker
    <3>. QED BY <3>1, <3>2, <3>3, IdlePath
  <2>. QED BY <2>1, <2>2, <2>3, <2>4, <2>5, InspectorChangedServed
<1>. QED
  BY <1>1, <1>2, <1>3, <1>4, <1>5, <1>6, <1>7, <1>8 DEF WorkerStep

-----------------------------------------------------------------------------
(* The manager, the users, and all steps. *)

LEMMA ManagerServed ==
    ASSUME TInv, Coherent, OnItsPath, Served, LeaderElection, NEW o \in Operators,
           \/ \E i \in Inspectors : StartReconcile(o, i) \/ SyncCache(o, i)
           \/ StartOperator(o)
           \/ StopOperator(o)
    PROVE  Served'
<1>1. ASSUME NEW i \in Inspectors, StartReconcile(o, i) PROVE Served'
  <2>. DEFINE obj == cache[o][i].obj
              nw == worker'[o]
  <2>1. /\ o \in up
        /\ UNCHANGED <<inspector, configs, up, cache>>
        /\ \A p \in Operators : p # o => worker'[p] = worker[p]
        /\ \/ nw = Idle
           \/ nw.pc = FirstCall(obj) /\ nw.req = i /\ nw.insp = obj /\ nw.pc # "idle"
    BY <1>1 DEF StartReconcile, TInv, TypeOK, Idle
  <2>2. FirstCall(obj) # "statusWrite" /\ (FirstCall(obj) # "idle" => obj # Absent)
    <3>1. obj \in Object \cup {Absent}
      BY DEF TInv, TypeOK, CachedObject
    <3>. QED BY <3>1, AbsentAssumption DEF FirstCall, Object
  <2>3. \A j \in Inspectors : /\ Running(j)' <=> Running(j)
                              /\ IsListed(j)' <=> IsListed(j)
                              /\ Dead(j)' <=> Dead(j)
    BY <2>1 DEF Running, IsListed, Dead, configs
  <2>4. RunningListed' /\ DyingCached'
    BY <2>1, <2>3 DEF Served, RunningListed, DyingCached
  <2>5. ASSUME NEW p \in Operators PROVE WorkerKnows(p)'
    <3>1. CASE p # o
      BY <2>1, <3>1 DEF Served, WorkerKnows, Dead, IsListed, configs
    <3>2. CASE p = o /\ nw = Idle
      BY <3>2, IdlePath DEF WorkerKnows
    <3>3. CASE p = o /\ nw.pc = FirstCall(obj) /\ nw.req = i /\ nw.insp = obj /\ nw.pc # "idle"
      <4>1. obj # Absent /\ (obj.deleting => Dead(i))
        BY <2>1, <2>2, <3>3 DEF Served, DyingCached, Deleting
      <4>. QED BY <2>1, <2>2, <2>3, <3>3, <4>1 DEF WorkerKnows, Deleting
    <3>. QED BY <2>1, <3>1, <3>2, <3>3
  <2>. QED BY <2>4, <2>5 DEF Served
<1>2. ASSUME NEW i \in Inspectors, SyncCache(o, i) PROVE Served'
  <2>1. UNCHANGED <<inspector, serviceList, up, worker>>
    BY <1>2 DEF SyncCache, configs
  <2>2. ASSUME NEW p \in Operators, NEW j \in Inspectors
        PROVE  cache'[p][j].obj \in {inspector[j], cache[p][j].obj}
    BY <1>2 DEF SyncCache, TInv, TypeOK
  <2>3. DyingCached' /\ RunningListed'
    BY <2>1, <2>2
       DEF Served, DyingCached, RunningListed, Running, IsListed, Dead, TInv, TypeOK
  <2>4. ASSUME NEW p \in Operators, worker[p].pc # "idle" PROVE WorkerKnows(p)'
    <3>1. worker[p].req \in Inspectors
      BY <2>4 DEF TInv, BusyOK
    <3>2. cache'[p][worker[p].req].obj
            \in {inspector[worker[p].req], cache[p][worker[p].req].obj}
      BY <2>2, <3>1
    <3>. QED BY <2>1, <3>2 DEF Served, WorkerKnows, IsListed, Dead
  <2>. QED BY <2>1, <2>3, <2>4 DEF Served, WorkerKnows
<1>3. ASSUME StartOperator(o) PROVE Served'
  <2>1. /\ up = {} /\ up' = {o}
        /\ \A i \in Inspectors : cache'[o][i].obj = inspector[i]
        /\ UNCHANGED <<inspector, serviceList, worker>>
    BY <1>3 DEF StartOperator, TInv, TypeOK, configs
  <2>2. \A p \in Operators : worker'[p].pc = "idle"
    BY <2>1 DEF OnItsPath
  <2>. QED BY <2>1, <2>2
           DEF Served, RunningListed, DyingCached, WorkerKnows, Running, IsListed, Dead
<1>4. ASSUME StopOperator(o) PROVE Served'
  <2>1. /\ up' = up \ {o}
        /\ \A p \in Operators : p # o => /\ cache'[p] = cache[p]
                                         /\ worker'[p] = worker[p]
        /\ worker'[o] = Idle
        /\ up \subseteq Operators
        /\ UNCHANGED <<inspector, serviceList>>
    BY <1>4 DEF StopOperator, TInv, TypeOK, configs
  <2>2. RunningListed' /\ DyingCached'
    BY <2>1 DEF Served, RunningListed, DyingCached, Running, IsListed, Dead
  <2>3. ASSUME NEW p \in Operators PROVE WorkerKnows(p)'
    BY <2>1, IdlePath DEF Served, WorkerKnows, IsListed, Dead
  <2>. QED BY <2>2, <2>3 DEF Served
<1>. QED BY <1>1, <1>2, <1>3, <1>4

\* A user's new Inspector does not run yet, an edit changes its spec alone, and a
\* deletion marks it.
LEMMA UserServed ==
    ASSUME TInv, Served, NEW i \in Inspectors, User(i)
    PROVE  Served'
<1>1. /\ cache' = CacheOutdated(i)
      /\ worker' = InspectorOutdated(i)
      /\ UNCHANGED <<serviceList, up>>
  BY DEF User, CreateInspector, UpdateSpec, DeleteInspector, configs
<1>2. inspector[i] \in Object \cup {Absent} /\ inspector \in [Inspectors -> Object \cup {Absent}]
  BY DEF TInv, TypeOK
<1>3. PICK obj : /\ inspector' = [inspector EXCEPT ![i] = obj]
                 /\ (obj # Absent /\ obj.status = "Running" /\ ~obj.deleting) => Running(i)
                 /\ Deleting(inspector[i]) => Deleting(obj)
  <2>1. CASE CreateInspector(i)
    BY <2>1 DEF CreateInspector, Deleting
  <2>2. CASE UpdateSpec(i)
    <3>1. PICK spec \in InspectorSpec :
            inspector' = [inspector EXCEPT ![i] = [@ EXCEPT !.spec = spec]]
      BY <2>2, ConstantsAssumption DEF UpdateSpec
    <3>2. inspector[i] \in Object
      BY <1>2, <2>2 DEF UpdateSpec
    <3>. DEFINE edited == [inspector[i] EXCEPT !.spec = spec]
    <3>3. /\ edited.status = inspector[i].status /\ edited.deleting = inspector[i].deleting
          /\ edited # Absent
      BY <3>2, AbsentAssumption DEF Object
    <3>4. /\ edited.status = "Running" /\ ~edited.deleting => Running(i)
          /\ Deleting(inspector[i]) => Deleting(edited)
      BY <2>2, <3>3 DEF UpdateSpec, Running, Deleting
    <3>. QED BY <3>1, <3>4
  <2>3. CASE DeleteInspector(i)
    <3>. DEFINE marked == [inspector[i] EXCEPT !.deleting = TRUE]
    <3>1. inspector' = [inspector EXCEPT ![i] =
                            IF @.finalizer THEN marked ELSE Absent]
      BY <2>3 DEF DeleteInspector
    <3>2. marked.deleting
      BY <1>2, <2>3 DEF DeleteInspector, Object
    <3>3. ~Deleting(inspector[i])
      BY <2>3 DEF DeleteInspector, Deleting
    <3>. QED BY <3>1, <3>2, <3>3
  <2>. QED BY <2>1, <2>2, <2>3 DEF User
<1>4. inspector'[i] = obj
  BY <1>2, <1>3
<1>5. Running(i)' => Running(i)
  BY <1>3, <1>4 DEF Running
<1>6. \A p \in Operators : worker'[p] \in {Idle, InspectorOutdated(i)[p]}
  BY <1>1
<1>. QED BY <1>1, <1>3, <1>5, <1>6, InspectorChangedServed

LEMMA NextServed ==
    ASSUME TInv, Coherent, OnItsPath, Protected, Served, LeaderElection, UniqueNames,
           [Next]_vars
    PROVE  Served'
<1>1. ASSUME NEW o \in Operators,
             \/ WorkerStep(o) \/ Fault(o) \/ StartOperator(o)
             \/ \E i \in Inspectors : StartReconcile(o, i) \/ SyncCache(o, i)
      PROVE  Served'
  BY <1>1, WorkerStepServed, ManagerServed DEF Fault
<1>2. ASSUME NEW i \in Inspectors, User(i) PROVE Served'
  BY <1>2, UserServed
<1>3. ASSUME UNCHANGED <<inspector, configs, up, cache, queue, worker>>
      PROVE  Served'
  BY <1>3 DEF Served, RunningListed, DyingCached, WorkerKnows, Running, IsListed, Dead,
             configs
<1>4. CASE Cluster
  BY <1>3, <1>4 DEF Cluster, PodStart, PodStop, ToggleDeployment, CreateService,
                    DeleteService
<1>5. CASE UNCHANGED vars
  BY <1>3, <1>5 DEF vars
<1>. QED BY <1>1, <1>2, <1>4, <1>5 DEF Next

\* With leader election, and names that no two Inspectors share, an Inspector that is
\* shown as Running is in Sherlock's list, whatever crashes, fails or lags behind:
\* inspector_controller.go lists the service (line 131) before it reports that
\* the Inspector runs (lines 136-143).
THEOREM RunningIsServed == Spec => []SherlockServesRunning
<1>. DEFINE Inv == LeaderElection /\ UniqueNames => Served
<1>1. Init => Inv
  BY IdlePath DEF Init, Served, RunningListed, DyingCached, WorkerKnows, Running, Deleting
<1>2. TInv /\ IInv /\ Inv /\ [Next]_vars => Inv'
  BY NextServed DEF IInv, UniqueNames
<1>3. Inv => SherlockServesRunning
  BY DEF Served, RunningListed, Running, IsListed, SherlockServesRunning
<1>. QED BY <1>1, <1>2, <1>3, InductiveInvariant, PTL DEF Spec

-----------------------------------------------------------------------------
(* The refinement: each step is a step of MonitoringLifecycle or none of it. *)

LifecycleStep == [Lifecycle!Next]_(Lifecycle!vars)

LEMMA QuietStep ==
    ASSUME UNCHANGED <<inspector, serviceList>>
    PROVE  LifecycleStep
BY DEF LifecycleStep, Lifecycle!vars, Listed

\* A write of one Inspector moves it from phase to phase, or keeps it in its own.
LEMMA PhaseMoves ==
    ASSUME TInv, NEW r \in Inspectors, NEW obj,
           inspector' = [inspector EXCEPT ![r] = obj],
           UNCHANGED serviceList
    PROVE  /\ Lifecycle!Move(r, PhaseOf(inspector[r]), PhaseOf(obj))
           /\ PhaseOf(inspector[r]) = PhaseOf(obj) => LifecycleStep
<1>1. \A i \in Inspectors : inspector'[i] = IF i = r THEN obj ELSE inspector[i]
  BY DEF TInv, TypeOK
<1>2. [i \in Inspectors |-> PhaseOf(inspector[i])]'
        = [[i \in Inspectors |-> PhaseOf(inspector[i])] EXCEPT ![r] = PhaseOf(obj)]
  BY <1>1 DEF PhaseOf
<1>3. Listed' = Listed
  BY DEF Listed
<1>4. Lifecycle!Move(r, PhaseOf(inspector[r]), PhaseOf(obj))
  BY <1>2, <1>3 DEF Lifecycle!Move
<1>5. ASSUME PhaseOf(inspector[r]) = PhaseOf(obj) PROVE LifecycleStep
  <2>1. [i \in Inspectors |-> PhaseOf(inspector[i])]'
          = [i \in Inspectors |-> PhaseOf(inspector[i])]
    BY <1>1, <1>5
  <2>. QED BY <1>3, <2>1 DEF LifecycleStep, Lifecycle!vars
<1>. QED BY <1>4, <1>5

\* A write of services.yaml lists its Inspector's service, or unlists one that is
\* being deleted or was not listed.
LEMMA SherlockWriteMaps ==
    ASSUME TInv, Coherent, OnItsPath, Protected, UniqueNames, Served,
           NEW o \in Operators, SherlockWrite(o)
    PROVE  LifecycleStep
<1>. DEFINE w == worker[o]
<1>r. PICK r : r = w.req
  OBVIOUS
<1>1. /\ r \in Inspectors /\ w.insp \in Object /\ w.insp.finalizer
      /\ serviceList' = [serviceList EXCEPT ![NameOf[r]] = Entry(w)]
      /\ UNCHANGED inspector
  BY <1>r DEF TInv, BusyOK, OnItsPath, PathOK, Coherent, FreshCopies, SherlockWrite,
              StoreSherlock, Holds
<1>2. /\ serviceList'[NameOf[r]] = Entry(w)
      /\ \A i \in Inspectors : i # r => serviceList'[NameOf[i]] = serviceList[NameOf[i]]
  BY <1>1, ConstantsAssumption DEF TInv, TypeOK, ServiceList, UniqueNames
<1>3. /\ r \in Listed' <=> (Entry(w) # Absent /\ Entry(w).inspector = r)
      /\ \A i \in Inspectors : i # r => (i \in Listed' <=> i \in Listed)
  BY <1>1, <1>2 DEF Listed
<1>4. UNCHANGED [i \in Inspectors |-> PhaseOf(inspector[i])]
  BY <1>1
<1>5. CASE ~w.insp.deleting
  <2>1. Guards(inspector[r])
    BY <1>r, <1>1, <1>5, AbsentAssumption DEF Protected, Guards, SherlockWrite
  <2>2. PhaseOf(inspector[r]) \in {"guarded", "finalizing"}
    BY <2>1 DEF PhaseOf, Guards
  <2>3. Entry(w) # Absent /\ Entry(w).inspector = r
    <3>1. Entry(w) = [inspector |-> r, model |-> w.insp.spec.model]
      BY <1>r, <1>5 DEF Entry
    <3>2. w.insp.spec.model \in Models
      BY <1>1 DEF Object, InspectorSpec
    <3>. QED BY <1>1, <3>1, <3>2, AbsentAssumption DEF InferenceData
  <2>4. Listed' = Listed \cup {r}
    BY <1>1, <1>3, <2>3 DEF Listed
  <2>5. Lifecycle!List(r)
    BY <1>1, <1>4, <2>2, <2>4 DEF Lifecycle!List
  <2>. QED BY <1>1, <2>5 DEF LifecycleStep, Lifecycle!Next
<1>6. CASE w.insp.deleting
  <2>1. Listed' = Listed \ {r}
    BY <1>3, <1>6 DEF Entry, Listed
  <2>2. Deleting(inspector[r]) \/ r \notin Listed
    BY <1>r, <1>1, <1>6 DEF Served, WorkerKnows, Dead, IsListed, Listed, SherlockWrite
  <2>3. CASE r \notin Listed
    BY <1>4, <2>1, <2>3 DEF LifecycleStep, Lifecycle!vars
  <2>4. CASE Deleting(inspector[r])
    <3>1. PhaseOf(inspector[r]) = "finalizing"
      BY <2>4 DEF PhaseOf, Deleting
    <3>2. Lifecycle!Unlist(r)
      BY <1>1, <1>4, <2>1, <3>1 DEF Lifecycle!Unlist
    <3>. QED BY <1>1, <3>2 DEF LifecycleStep, Lifecycle!Next
  <2>. QED BY <2>2, <2>3, <2>4
<1>. QED BY <1>5, <1>6

LEMMA WorkerStepMaps ==
    ASSUME TInv, Coherent, OnItsPath, Protected, UniqueNames, Served,
           NEW o \in Operators, WorkerStep(o) \/ APIError(o)
    PROVE  LifecycleStep
<1>. DEFINE w == worker[o]
<1>r. PICK r : r = w.req
  OBVIOUS
<1>0. /\ r = w.req
      /\ w.pc # "idle" => r \in Inspectors /\ w.insp \in Object
      /\ PathOK(w) /\ FreshCopies(o)
  BY <1>r DEF TInv, BusyOK, OnItsPath, Coherent
<1>1. CASE AddFinalizer(o)
  <2>1. r \in Inspectors /\ inspector[r] = w.insp /\ w.insp \in Object
    BY <1>0, <1>1 DEF AddFinalizer, Holds, FreshCopies
  <2>. DEFINE obj == [w.insp EXCEPT !.finalizer = TRUE]
  <2>2. obj # Absent /\ obj.deleting = w.insp.deleting /\ obj.finalizer
    BY <2>1, AbsentAssumption DEF Object
  <2>3. inspector' = [inspector EXCEPT ![r] = obj] /\ UNCHANGED serviceList
    BY <1>0, <1>1 DEF AddFinalizer, StoreInspector, configs
  <2>. HIDE DEF obj
  <2>4. /\ Lifecycle!Move(r, PhaseOf(inspector[r]), PhaseOf(obj))
        /\ PhaseOf(inspector[r]) = PhaseOf(obj) => LifecycleStep
    BY <2>1, <2>3, PhaseMoves
  <2>5. CASE w.insp.deleting \/ w.insp.finalizer
    <3>1. PhaseOf(inspector[r]) = PhaseOf(obj)
      BY <2>1, <2>2, <2>5, AbsentAssumption DEF PhaseOf
    <3>. QED BY <2>4, <3>1
  <2>6. CASE ~w.insp.deleting /\ ~w.insp.finalizer
    <3>1. PhaseOf(inspector[r]) = "declared" /\ PhaseOf(obj) = "guarded"
      BY <2>1, <2>2, <2>6, AbsentAssumption DEF PhaseOf
    <3>2. Lifecycle!Guard(r)
      BY <2>4, <3>1 DEF Lifecycle!Guard
    <3>. QED BY <2>1, <3>2 DEF LifecycleStep, Lifecycle!Next
  <2>. QED BY <2>5, <2>6
<1>2. CASE StatusWrite(o)
  <2>1. r \in Inspectors /\ inspector[r] = w.insp /\ w.insp \in Object
    BY <1>0, <1>2 DEF StatusWrite, Holds, FreshCopies
  <2>2. CASE StoreInspector(o, Reported(o))
    <3>1. inspector' = [inspector EXCEPT ![r] = Reported(o)] /\ UNCHANGED serviceList
      BY <1>0, <2>2 DEF StoreInspector, configs
    <3>2. /\ Reported(o) # Absent
          /\ Reported(o).deleting = w.insp.deleting
          /\ Reported(o).finalizer = w.insp.finalizer
      <4>1. Keys(w.points) \in SUBSET IPs
        BY DEF Keys
      <4>2. Reported(o) \in Object
        BY <2>1, <4>1 DEF Reported, Object
      <4>. QED BY <2>1, <4>2, AbsentAssumption DEF Reported, Object
    <3>3. PhaseOf(Reported(o)) = PhaseOf(inspector[r])
      BY <2>1, <3>2, AbsentAssumption DEF PhaseOf
    <3>. QED BY <2>1, <3>1, <3>3, PhaseMoves
  <2>3. CASE UNCHANGED <<inspector, configs, cluster, up, cache>>
    BY <2>3, QuietStep DEF configs
  <2>. QED BY <1>2, <2>2, <2>3 DEF StatusWrite, StoreStatus
<1>3. CASE RemoveFinalizer(o)
  <2>1. /\ r \in Inspectors /\ inspector[r] = w.insp /\ w.insp \in Object
        /\ w.insp.deleting
        /\ serviceList[NameOf[r]] = Absent
    BY <1>0, <1>3 DEF RemoveFinalizer, Holds, FreshCopies, PathOK, Protected
  <2>2. inspector' = [inspector EXCEPT ![r] = Absent] /\ UNCHANGED serviceList
    BY <1>0, <1>3 DEF RemoveFinalizer, StoreInspector, configs
  <2>3. Lifecycle!Move(r, PhaseOf(inspector[r]), PhaseOf(Absent))
    BY <2>1, <2>2, PhaseMoves
  <2>4. PhaseOf(inspector[r]) = "finalizing" /\ PhaseOf(Absent) = "absent"
    BY <2>1, AbsentAssumption DEF PhaseOf
  <2>5. Lifecycle!Release(r)
    BY <2>1, <2>3, <2>4 DEF Lifecycle!Release, Listed
  <2>. QED BY <2>1, <2>5 DEF LifecycleStep, Lifecycle!Next
<1>4. CASE SherlockWrite(o)
  BY <1>4, SherlockWriteMaps
<1>5. CASE \/ Conflict(o) \/ MissingRef(o) \/ APIError(o)
           \/ RemoveRead(o) \/ RemoveWrite(o) \/ ListPods(o)
           \/ GazerRead(o) \/ GazerWrite(o) \/ SherlockRead(o) \/ SherlockCheck(o)
  BY <1>5, QuietStep
     DEF Conflict, MissingRef, APIError, Fail, RemoveRead, RemoveWrite, ListPods,
         GazerRead, GazerWrite, ReadGazer, StoreGazer, SherlockRead, SherlockCheck,
         configs
<1>. QED BY <1>1, <1>2, <1>3, <1>4, <1>5 DEF WorkerStep

\* A user declares an Inspector, edits it, withdraws it or retires it.
LEMMA UserMaps ==
    ASSUME TInv, NEW i \in Inspectors, User(i)
    PROVE  LifecycleStep
<1>1. inspector[i] \in Object \cup {Absent} /\ UNCHANGED serviceList
  BY DEF TInv, TypeOK, User, CreateInspector, UpdateSpec, DeleteInspector, configs
<1>2. CASE CreateInspector(i)
  <2>1. PICK spec \in SpecOptions[i] :
            inspector' = [inspector EXCEPT ![i] =
                [spec |-> spec, deleting |-> FALSE, finalizer |-> FALSE,
                 monitoredIPs |-> {}, status |-> ""]]
    BY <1>2 DEF CreateInspector
  <2>. DEFINE obj == [spec |-> spec, deleting |-> FALSE, finalizer |-> FALSE,
                      monitoredIPs |-> {}, status |-> ""]
  <2>2. obj \in Object
    BY <2>1, ConstantsAssumption DEF Object
  <2>3. PhaseOf(inspector[i]) = "absent" /\ PhaseOf(obj) = "declared"
    BY <1>2, <2>2, AbsentAssumption DEF PhaseOf, CreateInspector
  <2>. HIDE DEF obj
  <2>4. Lifecycle!Move(i, PhaseOf(inspector[i]), PhaseOf(obj))
    BY <1>1, <2>1, PhaseMoves DEF obj
  <2>5. Lifecycle!Declare(i)
    BY <2>3, <2>4 DEF Lifecycle!Declare
  <2>. QED BY <2>5 DEF LifecycleStep, Lifecycle!Next
<1>3. CASE UpdateSpec(i)
  <2>1. PICK spec \in InspectorSpec :
            inspector' = [inspector EXCEPT ![i] = [@ EXCEPT !.spec = spec]]
    BY <1>3, ConstantsAssumption DEF UpdateSpec
  <2>. DEFINE obj == [inspector[i] EXCEPT !.spec = spec]
  <2>2. /\ inspector[i] # Absent /\ obj # Absent
        /\ obj.deleting = inspector[i].deleting /\ obj.finalizer = inspector[i].finalizer
    BY <1>1, <1>3, AbsentAssumption DEF UpdateSpec, Object
  <2>3. inspector' = [inspector EXCEPT ![i] = obj]
    BY <2>1
  <2>. HIDE DEF obj
  <2>4. PhaseOf(inspector[i]) = PhaseOf(obj)
    BY <2>2 DEF PhaseOf
  <2>. QED BY <1>1, <2>3, <2>4, PhaseMoves
<1>4. CASE DeleteInspector(i)
  <2>. DEFINE marked == [inspector[i] EXCEPT !.deleting = TRUE]
              obj == IF inspector[i].finalizer THEN marked ELSE Absent
  <2>1. inspector' = [inspector EXCEPT ![i] = obj]
    BY <1>4 DEF DeleteInspector
  <2>2. /\ inspector[i] # Absent /\ ~inspector[i].deleting
        /\ marked # Absent /\ marked.deleting
    BY <1>1, <1>4, AbsentAssumption DEF DeleteInspector, Object
  <2>3. CASE inspector[i].finalizer
    <3>1. PhaseOf(inspector[i]) = "guarded" /\ PhaseOf(obj) = "finalizing"
      BY <2>2, <2>3 DEF PhaseOf
    <3>. HIDE DEF obj
    <3>2. Lifecycle!Retire(i)
      BY <1>1, <2>1, <3>1, PhaseMoves DEF Lifecycle!Retire
    <3>. QED BY <3>2 DEF LifecycleStep, Lifecycle!Next
  <2>4. CASE ~inspector[i].finalizer
    <3>1. PhaseOf(inspector[i]) = "declared" /\ PhaseOf(obj) = "absent"
      BY <2>2, <2>4 DEF PhaseOf
    <3>. HIDE DEF obj
    <3>2. Lifecycle!Withdraw(i)
      BY <1>1, <2>1, <3>1, PhaseMoves DEF Lifecycle!Withdraw
    <3>. QED BY <3>2 DEF LifecycleStep, Lifecycle!Next
  <2>. QED BY <2>3, <2>4
<1>. QED BY <1>2, <1>3, <1>4 DEF User

LEMMA NextMaps ==
    ASSUME TInv, Coherent, OnItsPath, Protected, Served, UniqueNames, [Next]_vars
    PROVE  LifecycleStep
<1>1. ASSUME NEW o \in Operators, WorkerStep(o) \/ APIError(o) PROVE LifecycleStep
  BY <1>1, WorkerStepMaps
<1>2. ASSUME NEW o \in Operators,
             \/ StopOperator(o) \/ StartOperator(o)
             \/ \E i \in Inspectors : StartReconcile(o, i) \/ SyncCache(o, i)
      PROVE  LifecycleStep
  BY <1>2, QuietStep DEF StopOperator, StartOperator, StartReconcile, SyncCache, configs
<1>3. ASSUME NEW i \in Inspectors, User(i) PROVE LifecycleStep
  BY <1>3, UserMaps
<1>4. CASE Cluster
  BY <1>4, QuietStep DEF Cluster, PodStart, PodStop, ToggleDeployment, CreateService,
                         DeleteService, configs
<1>5. CASE UNCHANGED vars
  BY <1>5, QuietStep DEF vars, configs
<1>. QED BY <1>1, <1>2, <1>3, <1>4, <1>5 DEF Next, Fault

\* With leader election, and names that no two Inspectors share, the operator takes
\* every Inspector through the life that MonitoringLifecycle promises: guarded before
\* it is listed, unlisted before it is released (inspector_controller.go:90-145).
THEOREM LifecycleImplemented ==
    ASSUME LeaderElection, UniqueNames
    PROVE  Spec => ImplementsLifecycle
<1>1. Init => Served
  BY IdlePath DEF Init, Served, RunningListed, DyingCached, WorkerKnows, Running, Deleting
<1>2. TInv /\ IInv /\ Served /\ [Next]_vars => Served'
  BY NextServed DEF IInv
<1>3. Init => Lifecycle!Init
  <2>1. Init => [i \in Inspectors |-> PhaseOf(inspector[i])] = [i \in Inspectors |-> "absent"]
    BY DEF Init, PhaseOf
  <2>2. Init => Listed = {}
    BY ConstantsAssumption DEF Init, Listed, NoServices
  <2>. QED BY <2>1, <2>2 DEF Lifecycle!Init
<1>4. TInv /\ IInv /\ Served /\ [Next]_vars => [Lifecycle!Next]_(Lifecycle!vars)
  BY NextMaps DEF IInv, LifecycleStep
<1>. QED
  BY <1>1, <1>2, <1>3, <1>4, InductiveInvariant, PTL
     DEF Spec, ImplementsLifecycle, Lifecycle!Spec

-----------------------------------------------------------------------------
(* What a single operator's reconcile has done stands when it stores the Inspector. *)

Early == {"idle", "addFinalizer", "removeRead", "removeWrite", "listPods",
          "gazerRead", "gazerWrite"}

Listing == {"sherlockRead", "sherlockCheck", "sherlockWrite"}

NothingRecorded ==
    \A i \in Inspectors :
        inspector[i] # Absent /\ ~inspector[i].finalizer => inspector[i].monitoredIPs = {}

\* It has removed the recorded points, or published the new ones, and then listed
\* the service.
WorkStands(o) ==
    LET w == worker[o] IN
    /\ w.pc \in Listing \cup {"removeFinalizer"} /\ w.insp.deleting =>
        \A ip \in w.insp.monitoredIPs : gazerConfig[ip] = Absent
    /\ w.pc \in Listing \cup {"statusWrite"} /\ ~w.insp.deleting =>
        \A ip \in Keys(w.points) : gazerConfig[ip] = w.points[ip]
    /\ w.pc = "statusWrite" => serviceList[NameOf[w.req]] = Entry(w)

Stands == NothingRecorded /\ \A o \in Operators : WorkStands(o)

\* A write of an Inspector that guards it, removes it or keeps it as bare as it was.
LEMMA RecordsKept ==
    ASSUME TInv, NothingRecorded, NEW r \in Inspectors, NEW obj,
           inspector' = [inspector EXCEPT ![r] = obj],
           \/ obj = Absent
           \/ obj.finalizer
           \/ obj.monitoredIPs = {}
    PROVE  NothingRecorded'
BY DEF NothingRecorded, TInv, TypeOK

\* Steps that write no ConfigMap.
LEMMA QuietWork ==
    ASSUME \A p \in Operators : WorkStands(p), UNCHANGED <<gazerConfig, serviceList>>,
           \A p \in Operators :
              \/ worker'[p].pc \in Early
              \/ /\ worker'[p].req = worker[p].req
                 /\ worker'[p].insp = worker[p].insp
                 /\ worker'[p].points = worker[p].points
                 /\ \/ worker'[p].pc = worker[p].pc
                    \/ worker'[p].pc \in Listing /\ worker[p].pc \in Listing
    PROVE  \A p \in Operators : WorkStands(p)'
<1>1. ASSUME NEW p \in Operators PROVE WorkStands(p)'
  <2>1. CASE worker'[p].pc \in Early
    BY <2>1 DEF WorkStands, Early, Listing
  <2>2. CASE /\ worker'[p].req = worker[p].req
             /\ worker'[p].insp = worker[p].insp
             /\ worker'[p].points = worker[p].points
             /\ \/ worker'[p].pc = worker[p].pc
                \/ worker'[p].pc \in Listing /\ worker[p].pc \in Listing
    BY <2>2 DEF WorkStands, Listing, Keys, Entry
  <2>. QED BY <2>1, <2>2
<1>. QED BY <1>1

\* A write of an Inspector ends the work of one worker and is news to the others.
LEMMA InspectorWork ==
    ASSUME TInv, \A p \in Operators : WorkStands(p), NEW r,
           UNCHANGED <<gazerConfig, serviceList>>,
           \A p \in Operators : worker'[p] \in {Idle, InspectorOutdated(r)[p]}
    PROVE  \A p \in Operators : WorkStands(p)'
<1>1. ASSUME NEW p \in Operators
      PROVE  \/ worker'[p].pc \in Early
             \/ /\ worker'[p].req = worker[p].req
                /\ worker'[p].insp = worker[p].insp
                /\ worker'[p].points = worker[p].points
                /\ worker'[p].pc = worker[p].pc
  BY IdlePath DEF Early, InspectorOutdated, TInv, TypeOK, Worker
<1>. QED BY <1>1, QuietWork

LEMMA WorkerStepStands ==
    ASSUME TInv, Coherent, OnItsPath, Protected, Stands,
           NEW o \in Operators, WorkerStep(o) \/ APIError(o)
    PROVE  Stands'
<1>. DEFINE w == worker[o]
<1>r. PICK r : r = w.req
  OBVIOUS
<1>0. /\ r = w.req
      /\ w \in Worker /\ worker \in [Operators -> Worker]
      /\ w.pc # "idle" => r \in Inspectors /\ w.insp \in Object
      /\ PathOK(w) /\ FreshCopies(o) /\ WorkStands(o)
      /\ NothingRecorded /\ \A p \in Operators : WorkStands(p)
  BY <1>r DEF TInv, TypeOK, BusyOK, OnItsPath, Coherent, Stands
<1>1. ASSUME NEW obj, StoreInspector(o, obj), w.pc # "idle",
             obj = Absent \/ obj.finalizer
      PROVE  Stands'
  <2>1. /\ inspector' = [inspector EXCEPT ![r] = obj] /\ r \in Inspectors
        /\ UNCHANGED <<gazerConfig, serviceList>>
    BY <1>0, <1>1 DEF StoreInspector, configs
  <2>2. \A p \in Operators : worker'[p] \in {Idle, InspectorOutdated(r)[p]}
    BY <1>0, <1>1 DEF StoreInspector, InspectorOutdated
  <2>3. NothingRecorded'
    BY <1>0, <1>1, <2>1, RecordsKept
  <2>. QED BY <1>0, <2>1, <2>2, <2>3, InspectorWork DEF Stands
<1>2. ASSUME worker' = [worker EXCEPT ![o] = Idle],
             UNCHANGED <<inspector, gazerConfig, serviceList>>
      PROVE  Stands'
  <2>1. NothingRecorded'
    BY <1>0, <1>2 DEF NothingRecorded
  <2>2. \A p \in Operators : WorkStands(p)'
    BY <1>0, <1>2, IdlePath, QuietWork DEF Early
  <2>. QED BY <2>1, <2>2 DEF Stands
<1>3. CASE AddFinalizer(o)
  BY <1>0, <1>1, <1>3 DEF AddFinalizer, Object
<1>4. CASE StatusWrite(o)
  <2>1. Reported(o).finalizer /\ w.pc # "idle"
    <3>1. w.pc = "statusWrite" /\ w.insp \in Object /\ w.insp.finalizer
      BY <1>0, <1>4 DEF StatusWrite, PathOK
    <3>2. Reported(o) = [w.insp EXCEPT !.monitoredIPs = Keys(w.points), !.status = "Running"]
      BY DEF Reported
    <3>. QED BY <3>1, <3>2 DEF Object
  <2>2. CASE StoreInspector(o, Reported(o))
    BY <1>1, <2>1, <2>2
  <2>3. CASE worker' = [worker EXCEPT ![o] = Idle]
             /\ UNCHANGED <<inspector, configs, cluster, up, cache>>
    BY <1>2, <2>3 DEF configs
  <2>. QED BY <1>4, <2>2, <2>3 DEF StatusWrite, StoreStatus
<1>5. CASE RemoveFinalizer(o)
  BY <1>1, <1>5 DEF RemoveFinalizer
<1>6. CASE Conflict(o) \/ MissingRef(o) \/ APIError(o)
  BY <1>2, <1>6 DEF Conflict, MissingRef, APIError, Fail, configs
<1>7. CASE RemoveRead(o) \/ GazerRead(o) \/ ListPods(o) \/ SherlockRead(o) \/ SherlockCheck(o)
  <2>1. NothingRecorded' /\ UNCHANGED <<gazerConfig, serviceList>>
    BY <1>0, <1>7 DEF RemoveRead, GazerRead, ReadGazer, ListPods, SherlockRead,
                      SherlockCheck, configs, NothingRecorded
  <2>2. \A p \in Operators : p # o => worker'[p] = worker[p]
    BY <1>0, <1>7 DEF RemoveRead, GazerRead, ReadGazer, ListPods, SherlockRead,
                      SherlockCheck
  <2>3. \/ worker'[o].pc \in Early
        \/ /\ worker'[o].req = w.req /\ worker'[o].insp = w.insp
           /\ worker'[o].points = w.points
           /\ worker'[o].pc \in Listing /\ w.pc \in Listing
    BY <1>0, <1>7 DEF RemoveRead, GazerRead, ReadGazer, ListPods, SherlockRead,
                      SherlockCheck, Worker, Early, Listing
  <2>4. \A p \in Operators : WorkStands(p)'
    BY <1>0, <2>1, <2>2, <2>3, QuietWork
  <2>. QED BY <2>1, <2>4 DEF Stands
<1>8. CASE RemoveWrite(o) \/ GazerWrite(o)
  <2>. DEFINE gz == IF w.pc = "removeWrite" THEN Remaining(o)
                    ELSE Added(Remaining(o), w.points)
  <2>1. /\ StoreGazer(o, gz, "sherlockRead")
        /\ w.pc \in {"removeWrite", "gazerWrite"}
        /\ w.pc = "removeWrite" <=> w.insp.deleting
    BY <1>0, <1>8 DEF RemoveWrite, GazerWrite, PathOK
  <2>2. /\ gazerConfig' = gz /\ UNCHANGED <<inspector, serviceList>>
        /\ worker'[o].pc = "sherlockRead" /\ worker'[o].insp = w.insp
        /\ worker'[o].points = w.points
        /\ \A p \in Operators : p # o => worker'[p].pc = worker[p].pc
    BY <1>0, <2>1 DEF StoreGazer, ConfigOutdated, Worker
  <2>3. \A p \in Operators : p # o => worker'[p].pc = "idle"
    BY <2>1, <2>2, OthersIdle
  <2>4. NothingRecorded'
    BY <1>0, <2>2 DEF NothingRecorded
  <2>5. ASSUME w.insp.deleting, NEW ip \in w.insp.monitoredIPs PROVE gz[ip] = Absent
    <3>1. ip \in IPs
      BY <1>0, <2>1, <2>5 DEF Object
    <3>. QED BY <2>1, <2>5, <3>1 DEF Remaining, Removed
  <2>6. ASSUME ~w.insp.deleting, NEW ip \in Keys(w.points) PROVE gz[ip] = w.points[ip]
    BY <2>1, <2>6 DEF Added, Keys
  <2>. HIDE DEF gz
  <2>7. WorkStands(o)'
    BY <2>2, <2>5, <2>6 DEF WorkStands, Listing, Keys
  <2>8. \A p \in Operators : p # o => WorkStands(p)'
    BY <2>3 DEF WorkStands, Listing
  <2>. QED BY <2>4, <2>7, <2>8 DEF Stands
<1>9. CASE SherlockWrite(o)
  <2>1. /\ w.pc = "sherlockWrite" /\ r \in Inspectors
        /\ serviceList' = [serviceList EXCEPT ![NameOf[r]] = Entry(w)]
        /\ UNCHANGED <<inspector, gazerConfig>>
    BY <1>0, <1>9 DEF SherlockWrite, StoreSherlock, Holds, FreshCopies
  <2>2. /\ worker'[o].pc = IF w.insp.deleting THEN "removeFinalizer" ELSE "statusWrite"
        /\ worker'[o].req = r /\ worker'[o].insp = w.insp /\ worker'[o].points = w.points
        /\ \A p \in Operators : p # o => worker'[p].pc = "idle"
    BY <1>0, <1>9, <2>1, OthersIdle DEF SherlockWrite, StoreSherlock, ConfigOutdated, Worker
  <2>3. serviceList'[NameOf[r]] = Entry(w)
    BY <2>1, ConstantsAssumption DEF TInv, TypeOK, ServiceList
  <2>4. Entry(worker'[o]) = Entry(w)
    BY <1>0, <2>2 DEF Entry
  <2>5. NothingRecorded'
    BY <1>0, <2>1 DEF NothingRecorded
  <2>6. WorkStands(o)'
    <3>1. \A ip \in w.insp.monitoredIPs : w.insp.deleting => gazerConfig'[ip] = Absent
      BY <1>0, <2>1 DEF WorkStands, Listing
    <3>2. \A ip \in Keys(w.points) : ~w.insp.deleting => gazerConfig'[ip] = w.points[ip]
      BY <1>0, <2>1 DEF WorkStands, Listing
    <3>3. serviceList'[NameOf[worker'[o].req]] = Entry(worker'[o])
      BY <2>2, <2>3, <2>4
    <3>4. Entry(worker[o])' = Entry(worker'[o]) /\ Keys(worker[o].points)' = Keys(w.points)
      BY <2>2 DEF Entry, Keys
    <3>. QED BY <2>2, <3>1, <3>2, <3>3, <3>4 DEF WorkStands, Listing
  <2>7. \A p \in Operators : p # o => WorkStands(p)'
    BY <2>2 DEF WorkStands, Listing
  <2>. QED BY <2>5, <2>6, <2>7 DEF Stands
<1>. QED
  BY <1>3, <1>4, <1>5, <1>6, <1>7, <1>8, <1>9 DEF WorkerStep

LEMMA NextStands ==
    ASSUME TInv, Coherent, OnItsPath, Protected, Stands, [Next]_vars
    PROVE  Stands'
<1>0. NothingRecorded /\ \A p \in Operators : WorkStands(p)
  BY DEF Stands
<1>1. ASSUME NEW o \in Operators, WorkerStep(o) \/ APIError(o) PROVE Stands'
  BY <1>1, WorkerStepStands
<1>2. ASSUME UNCHANGED <<inspector, gazerConfig, serviceList>>,
             \A p \in Operators : worker'[p] = worker[p] \/ worker'[p].pc \in Early
      PROVE  Stands'
  <2>1. NothingRecorded'
    BY <1>0, <1>2 DEF NothingRecorded
  <2>2. \A p \in Operators : WorkStands(p)'
    BY <1>0, <1>2, QuietWork
  <2>. QED BY <2>1, <2>2 DEF Stands
<1>3. ASSUME NEW o \in Operators, NEW i \in Inspectors, StartReconcile(o, i) PROVE Stands'
  <2>1. cache[o][i].obj \in Object \cup {Absent}
    BY DEF TInv, TypeOK, CachedObject
  <2>2. FirstCall(cache[o][i].obj) \in Early
    BY <2>1, AbsentAssumption DEF FirstCall, Early, Object
  <2>3. worker'[o].pc \in Early
    BY <1>3, <2>2, IdlePath DEF StartReconcile, TInv, TypeOK, Idle, Early
  <2>4. \A p \in Operators : p # o => worker'[p] = worker[p]
    BY <1>3 DEF StartReconcile, TInv, TypeOK
  <2>. QED BY <1>2, <1>3, <2>3, <2>4 DEF StartReconcile, configs
<1>4. ASSUME NEW o \in Operators, StopOperator(o) PROVE Stands'
  BY <1>2, <1>4, IdlePath DEF StopOperator, TInv, TypeOK, Early, configs
<1>5. CASE (\E o \in Operators : StartOperator(o) \/ \E i \in Inspectors : SyncCache(o, i))
           \/ Cluster \/ UNCHANGED vars
  BY <1>2, <1>5
     DEF StartOperator, SyncCache, Cluster, PodStart, PodStop, ToggleDeployment,
         CreateService, DeleteService, vars, configs
<1>6. ASSUME NEW i \in Inspectors, User(i) PROVE Stands'
  <2>1. /\ worker' = InspectorOutdated(i)
        /\ UNCHANGED <<gazerConfig, serviceList>>
    BY <1>6 DEF User, CreateInspector, UpdateSpec, DeleteInspector, configs
  <2>2. inspector[i] \in Object \cup {Absent}
    BY DEF TInv, TypeOK
  <2>3. PICK obj : /\ inspector' = [inspector EXCEPT ![i] = obj]
                   /\ obj = Absent \/ obj.finalizer \/ obj.monitoredIPs = {}
    <3>1. CASE CreateInspector(i)
      <4>1. PICK spec \in SpecOptions[i] : inspector' = [inspector EXCEPT ![i] =
                [spec |-> spec, deleting |-> FALSE, finalizer |-> FALSE,
                 monitoredIPs |-> {}, status |-> ""]]
        BY <3>1 DEF CreateInspector
      <4>. DEFINE bare == [spec |-> spec, deleting |-> FALSE, finalizer |-> FALSE,
                           monitoredIPs |-> {}, status |-> ""]
      <4>2. bare.monitoredIPs = {}
        OBVIOUS
      <4>. QED BY <4>1, <4>2
    <3>2. CASE UpdateSpec(i)
      <4>1. PICK spec : inspector' = [inspector EXCEPT ![i] = [@ EXCEPT !.spec = spec]]
        BY <3>2 DEF UpdateSpec
      <4>. DEFINE edited == [inspector[i] EXCEPT !.spec = spec]
      <4>2. inspector[i] \in Object
        BY <2>2, <3>2 DEF UpdateSpec
      <4>3. /\ edited.finalizer = inspector[i].finalizer
            /\ edited.monitoredIPs = inspector[i].monitoredIPs
        BY <4>2 DEF Object
      <4>4. edited.finalizer \/ edited.monitoredIPs = {}
        BY <1>0, <3>2, <4>2, <4>3 DEF NothingRecorded, Object, UpdateSpec
      <4>. QED BY <4>1, <4>4
    <3>3. CASE DeleteInspector(i)
      <4>. DEFINE marked == [inspector[i] EXCEPT !.deleting = TRUE]
      <4>1. inspector' = [inspector EXCEPT ![i] =
                              IF inspector[i].finalizer THEN marked ELSE Absent]
        BY <3>3 DEF DeleteInspector
      <4>2. marked.finalizer = inspector[i].finalizer
        BY <2>2, <3>3 DEF DeleteInspector, Object
      <4>. QED BY <4>1, <4>2
    <3>. QED BY <1>6, <3>1, <3>2, <3>3 DEF User
  <2>4. NothingRecorded'
    BY <1>0, <2>3, RecordsKept
  <2>5. \A p \in Operators : WorkStands(p)'
    BY <1>0, <2>1, InspectorWork
  <2>. QED BY <2>4, <2>5 DEF Stands
<1>. QED BY <1>1, <1>3, <1>4, <1>5, <1>6 DEF Next, Fault

LEMMA AlwaysStands == Spec => [](LeaderElection => Stands)
<1>1. Init => Stands
  BY IdlePath DEF Init, Stands, NothingRecorded, WorkStands, Listing
<1>2. TInv /\ IInv /\ (LeaderElection => Stands) /\ [Next]_vars => (LeaderElection => Stands)'
  BY NextStands DEF IInv
<1>. QED BY <1>1, <1>2, InductiveInvariant, PTL DEF Spec

\* With leader election, a reconcile that reports tells the truth as of that step,
\* although it wrote the two ConfigMaps calls ago and others edit the Inspector:
\* nobody else writes them for it (inspector_controller.go:126-145).
THEOREM ReportsAreTrue == Spec => StatusIsTruthful
<1>1. ASSUME TInv, IInv, LeaderElection => Stands PROVE TruthfulStep
  <2>. SUFFICES ASSUME LeaderElection, NEW o \in Operators, StatusWrite(o)
                PROVE  LET i == worker[o].req IN
                       /\ \A ip \in inspector'[i].monitoredIPs :
                            gazerConfig[ip] # Absent /\ gazerConfig[ip].inspector = i
                       /\ serviceList[NameOf[i]] =
                            [inspector |-> i, model |-> inspector'[i].spec.model]
    BY DEF TruthfulStep
  <2>. DEFINE w == worker[o]
  <2>1. /\ w.pc = "statusWrite" /\ w.req \in Inspectors /\ w.insp \in Object
        /\ inspector[w.req] = w.insp /\ ~w.insp.deleting
        /\ PathOK(w) /\ WorkStands(o)
    BY <1>1 DEF StatusWrite, Holds, IInv, Coherent, FreshCopies, OnItsPath, PathOK, TInv,
                BusyOK, Stands
  <2>2. /\ \A ip \in Keys(w.points) : gazerConfig[ip] # Absent /\ gazerConfig[ip].inspector = w.req
        /\ serviceList[NameOf[w.req]] = [inspector |-> w.req, model |-> w.insp.spec.model]
    BY <2>1 DEF WorkStands, Listing, PathOK, Keys, Entry
  <2>3. Reported(o) \in Object /\ Reported(o).monitoredIPs = Keys(w.points)
        /\ Reported(o).spec = w.insp.spec
    <3>1. Keys(w.points) \in SUBSET IPs
      BY DEF Keys
    <3>. QED BY <2>1, <3>1 DEF Reported, Object
  <2>4. inspector'[w.req] = Reported(o)
    <3>1. CASE StoreInspector(o, Reported(o))
      BY <1>1, <2>1, <3>1 DEF StoreInspector, TInv, TypeOK
    <3>2. CASE Reported(o) = w.insp /\ UNCHANGED <<inspector, configs, cluster, up, cache>>
      BY <2>1, <3>2
    <3>. QED BY <3>1, <3>2 DEF StatusWrite, StoreStatus
  <2>. QED BY <2>2, <2>3, <2>4
<1>. QED BY <1>1, InductiveInvariant, AlwaysStands, PTL DEF StatusIsTruthful

\* With leader election, an Inspector that disappears leaves no recorded address
\* tracked for it: removeMonitoredIPs (line 105) comes before the finalizer is
\* dropped (line 116), and one that nobody guards has recorded nothing.
THEOREM RemovalIsClean == Spec => RecordedPointsRemoved
<1>1. ASSUME TInv, IInv, LeaderElection => Stands, [Next]_vars PROVE RemovalStep
  <2>. SUFFICES ASSUME LeaderElection, NEW i \in Inspectors,
                       inspector[i] # Absent, inspector'[i] = Absent,
                       NEW ip \in inspector[i].monitoredIPs
                PROVE  gazerConfig[ip] = Absent
    BY DEF RemovalStep
  <2>0. inspector \in [Inspectors -> Object \cup {Absent}] /\ inspector[i] \in Object
    BY <1>1 DEF TInv, TypeOK
  <2>1. inspector[i].finalizer
    BY <1>1, <2>0 DEF Stands, NothingRecorded, Object
  <2>2. ASSUME NEW o \in Operators, NEW obj, StoreInspector(o, obj), worker[o].pc # "idle"
        PROVE  worker[o].req = i /\ obj = Absent
    BY <1>1, <2>0, <2>2 DEF StoreInspector, TInv, BusyOK
  <2>3. ASSUME NEW o \in Operators, RemoveFinalizer(o) PROVE gazerConfig[ip] = Absent
    <3>1. worker[o].req = i
      BY <2>2, <2>3 DEF RemoveFinalizer
    <3>2. /\ worker[o].insp = inspector[i] /\ worker[o].insp.deleting /\ WorkStands(o)
      BY <1>1, <2>3, <3>1 DEF RemoveFinalizer, Holds, IInv, Coherent, FreshCopies,
                              OnItsPath, PathOK, Stands
    <3>. QED BY <2>3, <3>2 DEF WorkStands, RemoveFinalizer
  <2>4. ASSUME NEW o \in Operators, AddFinalizer(o) \/ StatusWrite(o) PROVE FALSE
    <3>. DEFINE w == worker[o]
    <3>1. w.pc # "idle" /\ w.insp \in Object /\ Keys(w.points) \in SUBSET IPs
      BY <1>1, <2>4 DEF AddFinalizer, StatusWrite, TInv, BusyOK, Keys
    <3>2. [w.insp EXCEPT !.finalizer = TRUE] \in Object /\ Reported(o) \in Object
      BY <3>1 DEF Reported, Object
    <3>3. \A obj \in Object : ~StoreInspector(o, obj)
      BY <2>2, <3>1, AbsentAssumption
    <3>4. ~AddFinalizer(o)
      BY <3>2, <3>3 DEF AddFinalizer
    <3>5. UNCHANGED inspector
      BY <2>4, <3>2, <3>3, <3>4 DEF StatusWrite, StoreStatus
    <3>. QED BY <3>5
  <2>5. ASSUME NEW j \in Inspectors, User(j) PROVE FALSE
    <3>1. CASE j # i
      BY <2>0, <2>5, <3>1 DEF User, CreateInspector, UpdateSpec, DeleteInspector
    <3>2. CASE j = i /\ UpdateSpec(j)
      <4>1. PICK spec \in InspectorSpec :
                inspector' = [inspector EXCEPT ![i] = [@ EXCEPT !.spec = spec]]
        BY <3>2, ConstantsAssumption DEF UpdateSpec
      <4>2. [inspector[i] EXCEPT !.spec = spec] \in Object
        BY <2>0 DEF Object
      <4>. QED BY <2>0, <4>1, <4>2, AbsentAssumption
    <3>3. CASE j = i /\ DeleteInspector(j)
      <4>1. [inspector[i] EXCEPT !.deleting = TRUE] \in Object
        BY <2>0 DEF Object
      <4>. QED BY <2>0, <2>1, <3>3, <4>1, AbsentAssumption DEF DeleteInspector
    <3>4. CASE j = i /\ CreateInspector(j)
      BY <3>4 DEF CreateInspector
    <3>. QED BY <2>5, <3>1, <3>2, <3>3, <3>4 DEF User
  <2>6. ASSUME UNCHANGED inspector PROVE FALSE
    BY <2>6
  <2>7. ASSUME NEW o \in Operators, WorkerStep(o) \/ Fault(o) \/ StartOperator(o)
        PROVE  gazerConfig[ip] = Absent
    BY <2>3, <2>4, <2>6, <2>7
       DEF WorkerStep, Fault, StartOperator, StopOperator, APIError, Conflict, MissingRef,
           Fail, RemoveRead, RemoveWrite, ListPods, GazerRead, GazerWrite, ReadGazer,
           StoreGazer, SherlockRead, SherlockCheck, SherlockWrite, StoreSherlock
  <2>8. ASSUME NEW o \in Operators, NEW j \in Inspectors, StartReconcile(o, j) \/ SyncCache(o, j)
        PROVE  FALSE
    BY <2>6, <2>8 DEF StartReconcile, SyncCache
  <2>9. CASE Cluster \/ UNCHANGED vars
    BY <2>6, <2>9 DEF Cluster, PodStart, PodStop, ToggleDeployment, CreateService,
                      DeleteService, vars
  <2>. QED BY <1>1, <2>5, <2>7, <2>8, <2>9 DEF Next
<1>. QED BY <1>1, InductiveInvariant, AlwaysStands, PTL DEF Spec, RecordedPointsRemoved

-----------------------------------------------------------------------------
(* No wake-up is lost. *)

\* Steps that store no Inspector and reach no cache: whoever is asked for stays so.
LEMMA QuietMemory ==
    ASSUME MarkedGuarded, Remembered, UNCHANGED <<inspector, up, cache>>,
           \A o \in up, i \in Inspectors : Requested(o, i) => Requested(o, i)'
    PROVE  MarkedGuarded' /\ Remembered'
<1>1. MarkedGuarded'
  BY DEF MarkedGuarded
<1>2. ASSUME NEW o \in up, NEW i \in Inspectors
      PROVE  \/ Requested(o, i)'
             \/ cache'[o][i].obj = Absent
             \/ cache'[o][i].obj.deleting /\ ~Guards(inspector'[i])
  BY DEF Remembered
<1>. QED BY <1>1, <1>2 DEF Remembered, Guards

\* A stored Inspector changes.  It may be guarded anew only when it is asked for,
\* and may be dropped from the requests only when it is seen dying and released.
LEMMA InspectorMemory ==
    ASSUME TInv, MarkedGuarded, Remembered, NEW r \in Inspectors, NEW obj,
           inspector' = [inspector EXCEPT ![r] = obj],
           cache' = CacheOutdated(r), up' = up,
           obj # Absent /\ obj.deleting => obj.finalizer,
           Guards(obj) => Guards(inspector[r]) \/ \A o \in up : Requested(o, r)',
           \A o \in up, i \in Inspectors : Requested(o, i) =>
              \/ Requested(o, i)'
              \/ i = r /\ cache[o][r].obj.deleting /\ ~Guards(obj)
    PROVE  MarkedGuarded' /\ Remembered'
<1>1. /\ inspector'[r] = obj
      /\ \A i \in Inspectors : i # r => inspector'[i] = inspector[i]
      /\ \A o \in up, i \in Inspectors : cache'[o][i].obj = cache[o][i].obj
  BY DEF TInv, TypeOK, CacheOutdated, CachedObject
<1>2. MarkedGuarded'
  BY <1>1 DEF MarkedGuarded
<1>3. ASSUME NEW o \in up, NEW i \in Inspectors
      PROVE  \/ Requested(o, i)'
             \/ cache'[o][i].obj = Absent
             \/ cache'[o][i].obj.deleting /\ ~Guards(inspector'[i])
  <2>1. CASE i = r
    BY <1>1, <2>1 DEF Remembered
  <2>2. CASE i # r
    BY <1>1, <2>2 DEF Remembered
  <2>. QED BY <2>1, <2>2
<1>. QED BY <1>1, <1>2, <1>3 DEF Remembered, Guards

LEMMA WorkerStepMemory ==
    ASSUME TInv, Coherent, OnItsPath, Protected, MarkedGuarded, Remembered,
           NEW o \in Operators, WorkerStep(o) \/ APIError(o)
    PROVE  MarkedGuarded' /\ Remembered'
<1>. DEFINE w == worker[o]
<1>r. PICK r : r = w.req
  OBVIOUS
<1>0. /\ r = w.req
      /\ w \in Worker /\ worker \in [Operators -> Worker]
      /\ w.pc # "idle" => r \in Inspectors /\ w.insp \in Object
      /\ PathOK(w) /\ FreshCopies(o)
      /\ queue \in [Operators -> SUBSET Inspectors] /\ up \subseteq Operators
      /\ w.pc # "idle" => \A p \in up : p = o
  BY <1>r DEF TInv, TypeOK, BusyOK, OnItsPath, Coherent, Protected
<1>1. ASSUME worker' = [worker EXCEPT ![o] = Idle], Requeue(o),
             UNCHANGED <<inspector, up, cache>>
      PROVE  MarkedGuarded' /\ Remembered'
  <2>1. \A p \in up, i \in Inspectors : Requested(p, i) => Requested(p, i)'
    BY <1>0, <1>1 DEF Requested, Requeue
  <2>. QED BY <1>1, <2>1, QuietMemory
<1>2. ASSUME UNCHANGED <<inspector, up, cache, queue>>, w.pc # "idle",
             worker'[o].pc # "idle", worker'[o].req = w.req
      PROVE  MarkedGuarded' /\ Remembered'
  <2>1. \A p \in up, i \in Inspectors : Requested(p, i) => Requested(p, i)'
    BY <1>0, <1>2 DEF Requested
  <2>. QED BY <1>2, <2>1, QuietMemory
<1>3. ASSUME NEW obj, StoreInspector(o, obj), Requeue(o), w.pc # "idle", obj.finalizer
      PROVE  MarkedGuarded' /\ Remembered'
  <2>1. /\ inspector' = [inspector EXCEPT ![r] = obj] /\ r \in Inspectors
        /\ cache' = CacheOutdated(r) /\ up' = up
    BY <1>0, <1>3 DEF StoreInspector
  <2>2. \A p \in up : Requested(p, r)'
    BY <1>0, <1>3 DEF Requested, Requeue
  <2>3. \A p \in up, i \in Inspectors : Requested(p, i) => Requested(p, i)'
    BY <1>0, <1>3 DEF Requested, Requeue
  <2>. QED BY <1>3, <2>1, <2>2, <2>3, InspectorMemory
<1>4. CASE AddFinalizer(o)
  <2>. DEFINE obj == [w.insp EXCEPT !.finalizer = TRUE]
  <2>1. w.pc # "idle" /\ StoreInspector(o, obj) /\ Requeue(o)
    BY <1>4 DEF AddFinalizer
  <2>2. obj.finalizer
    BY <1>0, <2>1 DEF Object
  <2>. HIDE DEF obj
  <2>. QED BY <1>3, <2>1, <2>2
<1>5. CASE StatusWrite(o)
  <2>1. CASE StoreInspector(o, Reported(o))
    <3>1. w.insp \in Object /\ w.insp.finalizer /\ w.pc # "idle"
      BY <1>0, <1>5 DEF StatusWrite, PathOK
    <3>2. Reported(o).finalizer
      BY <3>1 DEF Reported, Object
    <3>. QED BY <1>3, <1>5, <2>1, <3>1, <3>2 DEF StatusWrite
  <2>2. CASE worker' = [worker EXCEPT ![o] = Idle]
             /\ UNCHANGED <<inspector, configs, cluster, up, cache>>
    BY <1>1, <1>5, <2>2 DEF StatusWrite
  <2>. QED BY <1>5, <2>1, <2>2 DEF StatusWrite, StoreStatus
<1>6. CASE RemoveFinalizer(o)
  <2>1. /\ inspector' = [inspector EXCEPT ![r] = Absent] /\ r \in Inspectors
        /\ cache' = CacheOutdated(r) /\ up' = up /\ queue' = queue
        /\ cache[o][r].obj.deleting
    BY <1>0, <1>6 DEF RemoveFinalizer, StoreInspector, Holds, FreshCopies, PathOK
  <2>2. ~Guards(Absent)
    BY DEF Guards
  <2>3. \A p \in up, i \in Inspectors : Requested(p, i) =>
              \/ Requested(p, i)'
              \/ i = r /\ cache[p][r].obj.deleting /\ ~Guards(Absent)
    BY <1>0, <1>6, <2>1, <2>2 DEF Requested, RemoveFinalizer
  <2>. QED BY <2>1, <2>2, <2>3, InspectorMemory
<1>7. CASE RemoveRead(o) \/ GazerRead(o) \/ ListPods(o) \/ SherlockRead(o) \/ SherlockCheck(o)
  BY <1>0, <1>2, <1>7
     DEF RemoveRead, GazerRead, ReadGazer, ListPods, SherlockRead, SherlockCheck, Worker
<1>8. CASE RemoveWrite(o) \/ GazerWrite(o)
  <2>1. PICK gz : StoreGazer(o, gz, "sherlockRead")
    BY <1>8 DEF RemoveWrite, GazerWrite
  <2>2. w.pc # "idle" /\ worker'[o].pc = "sherlockRead" /\ worker'[o].req = w.req
    BY <1>0, <1>8, <2>1 DEF RemoveWrite, GazerWrite, StoreGazer, ConfigOutdated, Worker
  <2>. QED BY <1>2, <2>1, <2>2 DEF StoreGazer
<1>9. CASE SherlockWrite(o)
  <2>1. /\ w.pc # "idle" /\ worker'[o].req = w.req
        /\ worker'[o].pc \in {"removeFinalizer", "statusWrite"}
    BY <1>0, <1>9 DEF SherlockWrite, StoreSherlock, ConfigOutdated, Worker
  <2>. QED BY <1>2, <1>9, <2>1 DEF SherlockWrite, StoreSherlock
<1>10. CASE Conflict(o) \/ MissingRef(o) \/ APIError(o)
  BY <1>1, <1>10 DEF Conflict, MissingRef, APIError, Fail
<1>. QED
  BY <1>4, <1>5, <1>6, <1>7, <1>8, <1>9, <1>10 DEF WorkerStep

LEMMA ManagerMemory ==
    ASSUME TInv, Coherent, OnItsPath, Protected, LeaderElection, MarkedGuarded,
           Remembered, NEW o \in Operators,
           \/ \E i \in Inspectors : StartReconcile(o, i) \/ SyncCache(o, i)
           \/ StartOperator(o)
           \/ StopOperator(o)
    PROVE  MarkedGuarded' /\ Remembered'
<1>0. /\ queue \in [Operators -> SUBSET Inspectors] /\ up \subseteq Operators
      /\ worker \in [Operators -> Worker]
      /\ cache \in [Operators -> [Inspectors -> CachedObject]]
      /\ \A p, q \in up : p = q
  BY DEF TInv, TypeOK, Protected
<1>1. ASSUME NEW i \in Inspectors, StartReconcile(o, i)
      PROVE  MarkedGuarded' /\ Remembered'
  <2>. DEFINE obj == cache[o][i].obj
  <2>1. /\ UNCHANGED <<inspector, up, cache>> /\ o \in up
        /\ worker[o].pc = "idle"
        /\ \A p \in up : p = o
        /\ queue'[o] = queue[o] \ {i}
    BY <1>0, <1>1 DEF StartReconcile
  <2>2. CASE FirstCall(obj) = "idle"
    <3>1. obj \in Object \cup {Absent}
      BY <1>0 DEF CachedObject
    <3>2. obj = Absent
      <4>1. obj # Absent => ~(obj.deleting /\ ~obj.finalizer)
        BY <2>1 DEF MarkedGuarded
      <4>. QED BY <2>2, <3>1, <4>1, AbsentAssumption DEF FirstCall, Object
    <3>3. \A j \in Inspectors :
            \/ Requested(o, j)'
            \/ cache[o][j].obj = Absent
            \/ cache[o][j].obj.deleting /\ ~Guards(inspector[j])
      <4>. TAKE j \in Inspectors
      <4>1. CASE j = i
        BY <3>2, <4>1
      <4>2. CASE j # i
        <5>1. Requested(o, j) => j \in queue'[o]
          BY <2>1, <4>2 DEF Requested
        <5>. QED BY <2>1, <5>1 DEF Remembered, Requested
      <4>. QED BY <4>1, <4>2
    <3>4. MarkedGuarded'
      BY <2>1 DEF MarkedGuarded
    <3>. QED BY <2>1, <3>3, <3>4 DEF Remembered, Guards
  <2>3. CASE FirstCall(obj) # "idle"
    <3>1. worker'[o].req = i /\ worker'[o].pc = FirstCall(obj)
      BY <1>0, <1>1, <2>3 DEF StartReconcile, Idle
    <3>. HIDE DEF obj
    <3>2. \A p \in up, j \in Inspectors : Requested(p, j) => Requested(p, j)'
      BY <2>1, <2>3, <3>1 DEF Requested
    <3>. QED BY <2>1, <3>2, QuietMemory
  <2>. QED BY <2>2, <2>3
<1>2. ASSUME NEW i \in Inspectors, SyncCache(o, i)
      PROVE  MarkedGuarded' /\ Remembered'
  <2>1. /\ UNCHANGED <<inspector, up, worker>> /\ o \in up
        /\ \A p \in up : p = o
        /\ cache'[o][i].obj = inspector[i]
        /\ \A j \in Inspectors : j # i => cache'[o][j] = cache[o][j]
        /\ \A j \in Inspectors : Requested(o, j) => Requested(o, j)'
        /\ Enqueues(cache[o][i].obj, inspector[i]) => Requested(o, i)'
    BY <1>0, <1>2 DEF SyncCache, Requested
  <2>2. MarkedGuarded'
    BY <1>0, <2>1 DEF MarkedGuarded
  <2>3. \A j \in Inspectors :
            \/ Requested(o, j)'
            \/ cache'[o][j].obj = Absent
            \/ cache'[o][j].obj.deleting /\ ~Guards(inspector[j])
    <3>. TAKE j \in Inspectors
    <3>1. CASE j # i
      BY <2>1, <3>1 DEF Remembered
    <3>2. CASE j = i /\ inspector[i] # Absent
      <4>1. CASE cache[o][i].obj = Absent
        BY <2>1, <3>2, <4>1 DEF Enqueues
      <4>2. CASE cache[o][i].obj.deleting /\ ~Guards(inspector[i])
        <5>1. ~inspector[i].deleting
          BY <3>2, <4>2 DEF MarkedGuarded, Guards
        <5>. QED BY <2>1, <3>2, <4>2, <5>1 DEF Enqueues
      <4>. QED BY <2>1, <3>2, <4>1, <4>2 DEF Remembered
    <3>. QED BY <2>1, <3>1, <3>2
  <2>. QED BY <2>1, <2>2, <2>3 DEF Remembered, Guards
<1>3. ASSUME StartOperator(o) PROVE MarkedGuarded' /\ Remembered'
  <2>1. /\ UNCHANGED inspector
        /\ \A p \in up' : p = o
        /\ \A i \in Inspectors : cache'[o][i].obj = inspector[i]
        /\ \A i \in Inspectors : inspector[i] # Absent => i \in queue'[o]
    BY <1>0, <1>3 DEF StartOperator
  <2>. QED BY <2>1 DEF MarkedGuarded, Remembered, Requested
<1>4. ASSUME StopOperator(o) PROVE MarkedGuarded' /\ Remembered'
  <2>1. UNCHANGED inspector /\ up' = {}
    BY <1>0, <1>4 DEF StopOperator
  <2>. QED BY <2>1 DEF MarkedGuarded, Remembered
<1>. QED BY <1>1, <1>2, <1>3, <1>4

LEMMA UserMemory ==
    ASSUME TInv, MarkedGuarded, Remembered, NEW i \in Inspectors, User(i)
    PROVE  MarkedGuarded' /\ Remembered'
<1>1. /\ cache' = CacheOutdated(i) /\ up' = up /\ queue' = queue
      /\ worker' = InspectorOutdated(i)
  BY DEF User, CreateInspector, UpdateSpec, DeleteInspector
<1>2. inspector[i] \in Object \cup {Absent}
  BY DEF TInv, TypeOK
<1>3. \A o \in up, j \in Inspectors : Requested(o, j) => Requested(o, j)'
  <2>1. \A o \in Operators : /\ worker'[o].pc = worker[o].pc
                             /\ worker'[o].req = worker[o].req
    BY <1>1 DEF InspectorOutdated, TInv, TypeOK, Worker
  <2>. QED BY <1>1, <2>1 DEF Requested, TInv, TypeOK
<1>4. PICK obj : /\ inspector' = [inspector EXCEPT ![i] = obj]
                 /\ obj # Absent /\ obj.deleting => obj.finalizer
                 /\ Guards(obj) => Guards(inspector[i])
  <2>1. CASE CreateInspector(i)
    <3>1. PICK spec \in SpecOptions[i] : inspector' = [inspector EXCEPT ![i] =
                [spec |-> spec, deleting |-> FALSE, finalizer |-> FALSE,
                 monitoredIPs |-> {}, status |-> ""]]
      BY <2>1 DEF CreateInspector
    <3>. DEFINE bare == [spec |-> spec, deleting |-> FALSE, finalizer |-> FALSE,
                         monitoredIPs |-> {}, status |-> ""]
    <3>2. ~bare.deleting /\ ~Guards(bare)
      BY DEF Guards
    <3>. QED BY <3>1, <3>2
  <2>2. CASE UpdateSpec(i)
    <3>1. PICK spec : inspector' = [inspector EXCEPT ![i] = [@ EXCEPT !.spec = spec]]
      BY <2>2 DEF UpdateSpec
    <3>. DEFINE edited == [inspector[i] EXCEPT !.spec = spec]
    <3>2. inspector[i] \in Object /\ inspector[i] # Absent
      BY <1>2, <2>2 DEF UpdateSpec
    <3>3. /\ edited.finalizer = inspector[i].finalizer
          /\ edited.deleting = inspector[i].deleting
      BY <3>2 DEF Object
    <3>4. Guards(edited) => Guards(inspector[i])
      BY <3>2, <3>3 DEF Guards
    <3>. QED BY <3>1, <3>2, <3>3, <3>4 DEF MarkedGuarded
  <2>3. CASE DeleteInspector(i)
    <3>. DEFINE marked == [inspector[i] EXCEPT !.deleting = TRUE]
                left == IF inspector[i].finalizer THEN marked ELSE Absent
    <3>1. inspector' = [inspector EXCEPT ![i] = left]
      BY <2>3 DEF DeleteInspector
    <3>2. inspector[i] \in Object /\ inspector[i] # Absent
      BY <1>2, <2>3 DEF DeleteInspector
    <3>3. marked.finalizer = inspector[i].finalizer
      BY <3>2 DEF Object
    <3>4. left # Absent /\ left.deleting => left.finalizer
      BY <3>3
    <3>5. Guards(left) => Guards(inspector[i])
      BY <3>2, <3>3 DEF Guards
    <3>. QED BY <3>1, <3>4, <3>5
  <2>. QED BY <2>1, <2>2, <2>3 DEF User
<1>. QED BY <1>1, <1>3, <1>4, InspectorMemory

LEMMA NextMemory ==
    ASSUME TInv, Coherent, OnItsPath, Protected, LeaderElection, MarkedGuarded,
           Remembered, [Next]_vars
    PROVE  MarkedGuarded' /\ Remembered'
<1>1. ASSUME NEW o \in Operators,
             \/ WorkerStep(o) \/ Fault(o) \/ StartOperator(o)
             \/ \E i \in Inspectors : StartReconcile(o, i) \/ SyncCache(o, i)
      PROVE  MarkedGuarded' /\ Remembered'
  BY <1>1, WorkerStepMemory, ManagerMemory DEF Fault
<1>2. ASSUME NEW i \in Inspectors, User(i) PROVE MarkedGuarded' /\ Remembered'
  BY <1>2, UserMemory
<1>3. ASSUME UNCHANGED <<inspector, up, cache, queue, worker>>
      PROVE  MarkedGuarded' /\ Remembered'
  BY <1>3, QuietMemory DEF Requested
<1>4. CASE Cluster \/ UNCHANGED vars
  BY <1>3, <1>4 DEF Cluster, PodStart, PodStop, ToggleDeployment, CreateService,
                    DeleteService, vars
<1>. QED BY <1>1, <1>2, <1>4 DEF Next

LEMMA AlwaysRemembered == Spec => [](LeaderElection => MarkedGuarded /\ Remembered)
<1>1. Init => MarkedGuarded /\ Remembered
  BY DEF Init, MarkedGuarded, Remembered
<1>2. TInv /\ IInv /\ (LeaderElection => MarkedGuarded /\ Remembered) /\ [Next]_vars
        => (LeaderElection => MarkedGuarded /\ Remembered)'
  BY NextMemory DEF IInv
<1>. QED BY <1>1, <1>2, InductiveInvariant, PTL DEF Spec

\* With leader election, the operator that runs never forgets an Inspector:
\* whatever is edited, deleted and created again while a reconcile runs, the
\* queue, the worker or an event that eventFilter (inspector_controller.go:347)
\* lets through leads back to it.
THEOREM NoInspectorForgotten == Spec => []NothingForgotten
<1>1. ASSUME TInv, IInv, LeaderElection => MarkedGuarded /\ Remembered
      PROVE  NothingForgotten
  <2>. SUFFICES ASSUME LeaderElection, NEW o \in up, NEW i \in Inspectors,
                       inspector[i] # Absent, ~Requested(o, i)
                PROVE  ~cache[o][i].current /\ Enqueues(cache[o][i].obj, inspector[i])
    BY DEF NothingForgotten, Attended
  <2>1. cache[o][i].current => cache[o][i].obj = inspector[i]
    BY <1>1 DEF IInv, Coherent, FreshCache, TInv, TypeOK
  <2>2. CASE cache[o][i].obj = Absent
    BY <2>1, <2>2 DEF Enqueues
  <2>3. CASE cache[o][i].obj.deleting /\ ~Guards(inspector[i])
    <3>1. ~inspector[i].deleting
      BY <1>1, <2>3 DEF MarkedGuarded, Guards
    <3>. QED BY <2>1, <2>3, <3>1 DEF Enqueues
  <2>. QED BY <1>1, <2>2, <2>3 DEF Remembered
<1>. QED BY <1>1, InductiveInvariant, AlwaysRemembered, PTL

-----------------------------------------------------------------------------
(* What is monitored stays monitored. *)

\* Calls of a reconcile that has not computed its scrape points.
Unprepared == {"addFinalizer", "listPods"}

\* A worker stops, goes on with its Inspector, or starts on what its cache has.
WorkMoves(o) ==
    LET w == worker[o]
        v == worker'[o]
    IN
    \/ v.pc = "idle"
    \/ /\ w.pc # "idle" /\ v.req = w.req /\ v.insp = w.insp
       /\ \/ v.points = w.points /\ (v.pc \in Unprepared \/ w.pc \notin Unprepared)
          \/ v.points = ScrapePoints(w.req, w.insp.spec)
    \/ /\ o \in up /\ v.insp = cache[o][v.req].obj /\ v.points = NoPoints
       /\ v.pc \in Unprepared \/ v.insp.deleting

\* An Inspector that is not edited stays, is released, or gets a finalizer, a mark or
\* a report.
StoredMoves(i) ==
    LET old == inspector[i]
        new == inspector'[i]
    IN
    \/ new = old
    \/ new = Absent /\ (old.deleting \/ DeleteInspector(i))
    \/ /\ old # Absent /\ new # Absent /\ new.spec = old.spec
       /\ new.deleting = old.deleting \/ DeleteInspector(i)
       /\ \/ new.monitoredIPs = old.monitoredIPs /\ new.status = old.status
          \/ \E o \in Operators :
                /\ Busy(o, i) /\ worker[o].pc = "statusWrite" /\ new.status = "Running"
                /\ new.monitoredIPs = Keys(worker[o].points)

CacheMoves(o, i) ==
    o \in up' =>
        \/ cache'[o][i].obj \in {Absent, inspector[i]}
        \/ o \in up /\ cache'[o][i].obj = cache[o][i].obj

Moves ==
    /\ UNCHANGED cluster
    /\ \A o \in Operators : WorkMoves(o)
    /\ \A i \in Inspectors : StoredMoves(i)
    /\ \A o \in Operators, i \in Inspectors : CacheMoves(o, i)

LEMMA WorkerStepMoves ==
    ASSUME TInv, Coherent, OnItsPath,
           NEW o \in Operators, WorkerStep(o) \/ APIError(o)
    PROVE  Moves
<1>. DEFINE w == worker[o]
<1>r. PICK r : r = w.req
  OBVIOUS
<1>0. /\ r = w.req
      /\ w \in Worker /\ worker \in [Operators -> Worker]
      /\ w.pc # "idle" => r \in Inspectors /\ w.insp \in Object
      /\ PathOK(w) /\ FreshCopies(o)
      /\ inspector \in [Inspectors -> Object \cup {Absent}]
      /\ cache \in [Operators -> [Inspectors -> CachedObject]]
      /\ up \subseteq Operators
  BY <1>r DEF TInv, TypeOK, BusyOK, OnItsPath, Coherent
<1>1. ASSUME UNCHANGED <<inspector, cluster, up, cache>>, \A p \in Operators : WorkMoves(p)
      PROVE  Moves
  BY <1>1 DEF Moves, StoredMoves, CacheMoves
<1>2. ASSUME UNCHANGED <<inspector, cluster, up, cache>>, worker' = [worker EXCEPT ![o] = Idle]
      PROVE  Moves
  <2>1. \A p \in Operators : WorkMoves(p)
    BY <1>0, <1>2 DEF WorkMoves, Idle
  <2>. QED BY <1>1, <1>2, <2>1
<1>3. ASSUME UNCHANGED <<inspector, cluster, up, cache>>, w.pc # "idle", WorkMoves(o),
             \A p \in Operators : p # o =>
                /\ worker'[p].pc = worker[p].pc /\ worker'[p].req = worker[p].req
                /\ worker'[p].insp = worker[p].insp /\ worker'[p].points = worker[p].points
      PROVE  Moves
  <2>1. ASSUME NEW p \in Operators, p # o PROVE WorkMoves(p)
    BY <1>3, <2>1 DEF WorkMoves
  <2>. QED BY <1>1, <1>3, <2>1
<1>4. ASSUME NEW obj, StoreInspector(o, obj), w.pc # "idle",
             LET old == inspector[r] IN
             \/ obj = Absent /\ old.deleting
             \/ /\ old # Absent /\ obj # Absent /\ obj.spec = old.spec
                /\ obj.deleting = old.deleting
                /\ \/ obj.monitoredIPs = old.monitoredIPs /\ obj.status = old.status
                   \/ /\ w.pc = "statusWrite" /\ obj.status = "Running"
                      /\ obj.monitoredIPs = Keys(w.points)
      PROVE  Moves
  <2>1. /\ inspector' = [inspector EXCEPT ![r] = obj] /\ r \in Inspectors
        /\ cache' = CacheOutdated(r) /\ up' = up /\ UNCHANGED cluster
        /\ worker' = [InspectorOutdated(r) EXCEPT ![o] = Idle]
    BY <1>0, <1>4 DEF StoreInspector
  <2>2. Busy(o, r)
    BY <1>0, <1>4 DEF Busy
  <2>3. StoredMoves(r)
    BY <1>0, <1>4, <2>1, <2>2 DEF StoredMoves
  <2>4. \A i \in Inspectors : i # r => StoredMoves(i)
    BY <1>0, <2>1 DEF StoredMoves
  <2>5. \A p \in Operators, i \in Inspectors : CacheMoves(p, i)
    BY <1>0, <2>1 DEF CacheMoves, CacheOutdated, CachedObject
  <2>6. ASSUME NEW p \in Operators PROVE WorkMoves(p)
    <3>1. CASE p = o
      BY <1>0, <2>1, <3>1 DEF WorkMoves, Idle, InspectorOutdated
    <3>2. CASE p # o
      <4>1. /\ worker'[p].pc = worker[p].pc /\ worker'[p].req = worker[p].req
            /\ worker'[p].insp = worker[p].insp /\ worker'[p].points = worker[p].points
        BY <1>0, <2>1, <3>2 DEF InspectorOutdated, Worker
      <4>. QED BY <4>1 DEF WorkMoves
    <3>. QED BY <3>1, <3>2
  <2>. QED BY <2>1, <2>3, <2>4, <2>5, <2>6 DEF Moves
<1>5. CASE AddFinalizer(o)
  <2>. DEFINE obj == [w.insp EXCEPT !.finalizer = TRUE]
  <2>1. w.pc # "idle" /\ StoreInspector(o, obj) /\ inspector[r] = w.insp
    BY <1>0, <1>5 DEF AddFinalizer, Holds, FreshCopies
  <2>2. w.insp \in Object /\ w.insp # Absent
    BY <1>0, <2>1, AbsentAssumption
  <2>3. /\ obj \in Object /\ obj.spec = w.insp.spec /\ obj.deleting = w.insp.deleting
        /\ obj.monitoredIPs = w.insp.monitoredIPs /\ obj.status = w.insp.status
    BY <2>2 DEF Object
  <2>. HIDE DEF obj
  <2>4. obj # Absent
    BY <2>3, AbsentAssumption
  <2>. QED BY <1>4, <2>1, <2>2, <2>3, <2>4
<1>6. CASE StatusWrite(o)
  <2>1. CASE StoreInspector(o, Reported(o))
    <3>. DEFINE obj == Reported(o)
    <3>1. w.pc = "statusWrite" /\ inspector[r] = w.insp
      BY <1>0, <1>6 DEF StatusWrite, Holds, FreshCopies
    <3>2. w.insp \in Object /\ w.insp # Absent
      BY <1>0, <3>1, AbsentAssumption
    <3>3. /\ obj \in Object /\ obj.spec = w.insp.spec /\ obj.deleting = w.insp.deleting
          /\ obj.monitoredIPs = Keys(w.points) /\ obj.status = "Running"
      BY <3>2 DEF Object, Reported, Keys
    <3>. HIDE DEF obj
    <3>4. obj # Absent
      BY <3>3, AbsentAssumption
    <3>5. StoreInspector(o, obj)
      BY <2>1 DEF obj
    <3>. QED BY <1>4, <3>1, <3>2, <3>3, <3>4, <3>5
  <2>2. CASE worker' = [worker EXCEPT ![o] = Idle]
             /\ UNCHANGED <<inspector, configs, cluster, up, cache>>
    BY <1>2, <2>2
  <2>. QED BY <1>6, <2>1, <2>2 DEF StatusWrite, StoreStatus
<1>7. CASE RemoveFinalizer(o)
  <2>1. w.pc # "idle" /\ StoreInspector(o, Absent) /\ inspector[r].deleting
    BY <1>0, <1>7 DEF RemoveFinalizer, Holds, FreshCopies, PathOK
  <2>. QED BY <1>4, <2>1
<1>8. CASE RemoveRead(o) \/ GazerRead(o) \/ SherlockRead(o) \/ SherlockCheck(o)
  <2>1. WorkMoves(o) /\ w.pc # "idle"
    BY <1>0, <1>8 DEF WorkMoves, Unprepared, RemoveRead, GazerRead, ReadGazer, SherlockRead,
                      SherlockCheck, Worker
  <2>. QED BY <1>0, <1>3, <1>8, <2>1
           DEF RemoveRead, GazerRead, ReadGazer, SherlockRead, SherlockCheck
<1>9. CASE ListPods(o)
  <2>1. WorkMoves(o) /\ w.pc # "idle"
    BY <1>0, <1>9 DEF WorkMoves, ListPods, Worker
  <2>. QED BY <1>0, <1>3, <1>9, <2>1 DEF ListPods
<1>10. CASE RemoveWrite(o) \/ GazerWrite(o)
  <2>1. PICK gz : StoreGazer(o, gz, "sherlockRead") /\ w.pc \in {"removeWrite", "gazerWrite"}
    BY <1>10 DEF RemoveWrite, GazerWrite
  <2>2. WorkMoves(o)
    BY <1>0, <2>1 DEF WorkMoves, Unprepared, StoreGazer, ConfigOutdated, Worker
  <2>3. \A p \in Operators : p # o =>
            /\ worker'[p].pc = worker[p].pc /\ worker'[p].req = worker[p].req
            /\ worker'[p].insp = worker[p].insp /\ worker'[p].points = worker[p].points
    BY <1>0, <2>1 DEF StoreGazer, ConfigOutdated, Worker
  <2>. QED BY <1>3, <2>1, <2>2, <2>3 DEF StoreGazer
<1>11. CASE SherlockWrite(o)
  <2>1. WorkMoves(o) /\ w.pc # "idle"
    BY <1>0, <1>11 DEF WorkMoves, Unprepared, SherlockWrite, StoreSherlock, ConfigOutdated, Worker
  <2>2. \A p \in Operators : p # o =>
            /\ worker'[p].pc = worker[p].pc /\ worker'[p].req = worker[p].req
            /\ worker'[p].insp = worker[p].insp /\ worker'[p].points = worker[p].points
    BY <1>0, <1>11 DEF SherlockWrite, StoreSherlock, ConfigOutdated, Worker
  <2>. QED BY <1>3, <1>11, <2>1, <2>2 DEF SherlockWrite, StoreSherlock
<1>12. CASE Conflict(o) \/ MissingRef(o) \/ APIError(o)
  BY <1>2, <1>12 DEF Conflict, MissingRef, APIError, Fail
<1>. QED
  BY <1>5, <1>6, <1>7, <1>8, <1>9, <1>10, <1>11, <1>12 DEF WorkerStep

LEMMA ManagerMoves ==
    ASSUME TInv, OnItsPath, NEW o \in Operators,
           \/ \E i \in Inspectors : StartReconcile(o, i) \/ SyncCache(o, i)
           \/ StartOperator(o)
           \/ StopOperator(o)
    PROVE  Moves
<1>0. /\ worker \in [Operators -> Worker] /\ up \subseteq Operators
      /\ cache \in [Operators -> [Inspectors -> CachedObject]]
  BY DEF TInv, TypeOK
<1>1. UNCHANGED <<inspector, cluster>>
  BY DEF StartReconcile, SyncCache, StartOperator, StopOperator
<1>2. \A i \in Inspectors : StoredMoves(i)
  BY <1>1 DEF StoredMoves
<1>3. ASSUME worker' = worker \/ worker' = [worker EXCEPT ![o] = Idle],
             \A p \in Operators, i \in Inspectors : CacheMoves(p, i)
      PROVE  Moves
  <2>1. ASSUME NEW p \in Operators PROVE WorkMoves(p)
    BY <1>0, <1>3, <2>1 DEF WorkMoves, Idle
  <2>. QED BY <1>1, <1>2, <1>3, <2>1 DEF Moves
<1>4. ASSUME NEW i \in Inspectors, StartReconcile(o, i) PROVE Moves
  <2>. DEFINE obj == cache[o][i].obj
  <2>1. /\ UNCHANGED <<up, cache>> /\ o \in up
        /\ \A p \in Operators : p # o => worker'[p] = worker[p]
        /\ IF FirstCall(obj) = "idle" THEN worker'[o].pc = "idle"
           ELSE /\ worker'[o].pc = FirstCall(obj) /\ worker'[o].req = i
                /\ worker'[o].insp = obj /\ worker'[o].points = NoPoints
    BY <1>0, <1>4 DEF StartReconcile, Idle
  <2>2. FirstCall(obj) \in {"idle"} \cup Unprepared \/ obj.deleting
    <3>1. obj \in Object \cup {Absent}
      BY <1>0 DEF CachedObject
    <3>. QED BY <3>1, AbsentAssumption DEF FirstCall, Unprepared, Object
  <2>3. WorkMoves(o)
    BY <2>1, <2>2 DEF WorkMoves
  <2>4. \A p \in Operators : p # o => WorkMoves(p)
    BY <2>1 DEF WorkMoves
  <2>5. \A p \in Operators, j \in Inspectors : CacheMoves(p, j)
    BY <2>1 DEF CacheMoves
  <2>. QED BY <1>1, <1>2, <2>3, <2>4, <2>5 DEF Moves
<1>5. ASSUME NEW i \in Inspectors, SyncCache(o, i) PROVE Moves
  <2>1. \A p \in Operators, j \in Inspectors : CacheMoves(p, j)
    BY <1>0, <1>5 DEF CacheMoves, SyncCache
  <2>. QED BY <1>3, <1>5, <2>1 DEF SyncCache
<1>6. CASE StartOperator(o)
  <2>1. \A p \in Operators, j \in Inspectors : CacheMoves(p, j)
    BY <1>0, <1>6 DEF CacheMoves, StartOperator
  <2>. QED BY <1>3, <1>6, <2>1 DEF StartOperator
<1>7. CASE StopOperator(o)
  <2>1. \A p \in Operators, j \in Inspectors : CacheMoves(p, j)
    BY <1>0, <1>7 DEF CacheMoves, StopOperator
  <2>. QED BY <1>3, <1>7, <2>1 DEF StopOperator
<1>. QED BY <1>4, <1>5, <1>6, <1>7

LEMMA DeleteMoves ==
    ASSUME TInv, NEW i \in Inspectors, DeleteInspector(i)
    PROVE  Moves
<1>0. /\ worker \in [Operators -> Worker] /\ up \subseteq Operators
      /\ cache \in [Operators -> [Inspectors -> CachedObject]]
      /\ inspector \in [Inspectors -> Object \cup {Absent}]
  BY DEF TInv, TypeOK
<1>1. /\ cache' = CacheOutdated(i) /\ up' = up /\ UNCHANGED cluster
      /\ worker' = InspectorOutdated(i)
  BY DEF DeleteInspector
<1>2. \A p \in Operators, j \in Inspectors : CacheMoves(p, j)
  BY <1>0, <1>1 DEF CacheMoves, CacheOutdated, CachedObject
<1>3. ASSUME NEW p \in Operators PROVE WorkMoves(p)
  <2>1. /\ worker'[p].pc = worker[p].pc /\ worker'[p].req = worker[p].req
        /\ worker'[p].insp = worker[p].insp /\ worker'[p].points = worker[p].points
    BY <1>0, <1>1 DEF InspectorOutdated, Worker
  <2>. QED BY <2>1 DEF WorkMoves
<1>4. StoredMoves(i)
  <2>. DEFINE marked == [inspector[i] EXCEPT !.deleting = TRUE]
  <2>1. inspector[i] \in Object /\ inspector[i] # Absent
    BY <1>0 DEF DeleteInspector
  <2>2. /\ marked \in Object /\ marked.spec = inspector[i].spec
        /\ marked.monitoredIPs = inspector[i].monitoredIPs
        /\ marked.status = inspector[i].status
    BY <2>1 DEF Object
  <2>3. inspector'[i] \in {Absent, marked}
    BY <1>0 DEF DeleteInspector
  <2>. HIDE DEF marked
  <2>. QED BY <2>1, <2>2, <2>3, AbsentAssumption DEF StoredMoves
<1>5. \A j \in Inspectors : j # i => StoredMoves(j)
  BY <1>0 DEF StoredMoves, DeleteInspector
<1>. QED BY <1>1, <1>2, <1>3, <1>4, <1>5 DEF Moves

LEMMA NextMoves ==
    ASSUME TInv, Coherent, OnItsPath, [Next]_vars, ~Cluster,
           \A i \in Inspectors : ~CreateInspector(i) /\ ~UpdateSpec(i)
    PROVE  Moves
<1>1. ASSUME NEW o \in Operators,
             \/ WorkerStep(o) \/ Fault(o) \/ StartOperator(o)
             \/ \E i \in Inspectors : StartReconcile(o, i) \/ SyncCache(o, i)
      PROVE  Moves
  BY <1>1, WorkerStepMoves, ManagerMoves DEF Fault
<1>2. ASSUME NEW i \in Inspectors, User(i) PROVE Moves
  BY <1>2, DeleteMoves DEF User
<1>3. CASE UNCHANGED vars
  BY <1>3 DEF Moves, WorkMoves, StoredMoves, CacheMoves, vars
<1>. QED BY <1>1, <1>2, <1>3 DEF Next

\* What is known of an Inspector after a step was known before, but for a deletion
\* and the addresses of a report.
LEMMA CopiesKept ==
    ASSUME TInv, TInv', Moves, NEW i \in Inspectors, NEW obj \in CopiesOf(i)', obj # Absent
    PROVE  \E old \in CopiesOf(i) \ {Absent} :
              /\ obj.spec = old.spec
              /\ obj.deleting => old.deleting \/ DeleteInspector(i)
              /\ \/ obj.monitoredIPs = old.monitoredIPs
                 \/ \E o \in Operators : /\ Busy(o, i)
                                          /\ obj.monitoredIPs = Keys(worker[o].points)
<1>0. /\ up \subseteq Operators /\ up' \subseteq Operators
      /\ inspector[i] \in CopiesOf(i)
      /\ \A o \in up : cache[o][i].obj \in CopiesOf(i)
      /\ \A o \in Operators : Busy(o, i) => worker[o].insp \in CopiesOf(i)
  BY DEF TInv, TypeOK, CopiesOf
<1>1. CASE obj \in CopiesOf(i)
  BY <1>1
<1>2. CASE obj = inspector'[i]
  BY <1>0, <1>2 DEF Moves, StoredMoves
<1>3. ASSUME NEW o \in up', obj = cache'[o][i].obj PROVE obj \in CopiesOf(i)
  BY <1>0, <1>3 DEF Moves, CacheMoves
<1>4. ASSUME NEW o \in Operators, Busy(o, i)', obj = worker'[o].insp PROVE obj \in CopiesOf(i)
  <2>1. WorkMoves(o) /\ worker'[o].pc # "idle" /\ worker'[o].req = i
    BY <1>4 DEF Moves, Busy
  <2>2. \/ Busy(o, i) /\ obj = worker[o].insp
        \/ o \in up /\ obj = cache[o][i].obj
    BY <1>4, <2>1 DEF WorkMoves, Busy
  <2>. QED BY <1>0, <2>2
<1>5. \/ obj = inspector'[i]
      \/ \E o \in up' : obj = cache'[o][i].obj
      \/ \E o \in Operators : Busy(o, i)' /\ obj = worker'[o].insp
  BY DEF CopiesOf
<1>. QED BY <1>1, <1>2, <1>3, <1>4, <1>5

\* No step of the operator, and no deletion, claims an address anew.
LEMMA ClaimsShrink ==
    ASSUME TInv, TInv', Moves, NEW i \in Inspectors
    PROVE  Claims(i)' \subseteq Claims(i)
<1>1. \A spec : ScrapePoints(i, spec)' = ScrapePoints(i, spec)
  BY DEF Moves, cluster, ScrapePoints
<1>2. ASSUME NEW old \in CopiesOf(i) \ {Absent}
      PROVE  /\ old.monitoredIPs \subseteq Claims(i)
             /\ Keys(ScrapePoints(i, old.spec)) \subseteq Claims(i)
  <2>. DEFINE all(obj) == obj.monitoredIPs \cup Keys(ScrapePoints(i, obj.spec))
  <2>. HIDE DEF all
  <2>1. all(old) \subseteq UNION ({all(obj) : obj \in CopiesOf(i) \ {Absent}}
                    \cup {Keys(worker[o].points) : o \in {p \in Operators : Busy(p, i)}})
    BY <1>2
  <2>. QED BY <2>1 DEF Claims, all
<1>3. ASSUME NEW o \in Operators, Busy(o, i)
      PROVE  Keys(worker[o].points) \subseteq Claims(i)
  BY <1>3 DEF Claims
<1>4. ASSUME NEW obj \in CopiesOf(i)', obj # Absent
      PROVE  obj.monitoredIPs \cup Keys(ScrapePoints(i, obj.spec))' \subseteq Claims(i)
  <2>1. PICK old \in CopiesOf(i) \ {Absent} :
              /\ obj.spec = old.spec
              /\ \/ obj.monitoredIPs = old.monitoredIPs
                 \/ \E o \in Operators : Busy(o, i) /\ obj.monitoredIPs = Keys(worker[o].points)
    BY <1>4, CopiesKept
  <2>2. obj.monitoredIPs \subseteq Claims(i)
    BY <1>2, <1>3, <2>1
  <2>3. Keys(ScrapePoints(i, obj.spec))' = Keys(ScrapePoints(i, old.spec))
    BY <1>1, <2>1 DEF Keys
  <2>. QED BY <1>2, <2>2, <2>3
<1>5. ASSUME NEW o \in Operators, Busy(o, i)'
      PROVE  Keys(worker'[o].points) \subseteq Claims(i)
  <2>1. WorkMoves(o) /\ worker'[o].pc # "idle" /\ worker'[o].req = i
    BY <1>5 DEF Moves, Busy
  <2>2. \/ Busy(o, i) /\ worker'[o].points = worker[o].points
        \/ Busy(o, i) /\ worker'[o].points = ScrapePoints(i, worker[o].insp.spec)
        \/ worker'[o].points = NoPoints
    BY <2>1 DEF WorkMoves, Busy
  <2>3. Busy(o, i) => worker[o].insp \in CopiesOf(i) \ {Absent}
    BY AbsentAssumption DEF Busy, CopiesOf, TInv, BusyOK
  <2>4. Keys(NoPoints) = {}
    BY DEF Keys, NoPoints
  <2>. QED BY <1>2, <1>3, <2>2, <2>3, <2>4
<1>6. ASSUME NEW ip \in Claims(i)'
      PROVE  \/ \E obj \in CopiesOf(i)' \ {Absent} :
                    ip \in obj.monitoredIPs \cup Keys(ScrapePoints(i, obj.spec))'
             \/ \E o \in Operators : Busy(o, i)' /\ ip \in Keys(worker'[o].points)
  BY <1>6 DEF Claims, Keys
<1>. QED BY <1>4, <1>5, <1>6

\* A worker's copy is one of the copies, and its claims are among the claims.
LEMMA WorkerClaims ==
    ASSUME TInv, NEW o \in Operators, NEW i \in Inspectors, Busy(o, i)
    PROVE  /\ worker[o].insp \in CopiesOf(i) \ {Absent}
           /\ worker[o].insp.monitoredIPs \cup Keys(worker[o].points) \subseteq Claims(i)
<1>1. worker[o].insp \in CopiesOf(i) \ {Absent}
  BY AbsentAssumption DEF Busy, CopiesOf, TInv, BusyOK
<1>. DEFINE all(obj) == obj.monitoredIPs \cup Keys(ScrapePoints(i, obj.spec))
            own(p) == Keys(worker[p].points)
<1>. HIDE DEF all, own
<1>2. all(worker[o].insp) \cup own(o)
        \subseteq UNION ({all(obj) : obj \in CopiesOf(i) \ {Absent}}
                    \cup {own(q) : q \in {p \in Operators : Busy(p, i)}})
  BY <1>1
<1>. QED BY <1>1, <1>2 DEF Claims, all, own

\* Those who know of an Inspector go on agreeing about it.
LEMMA AgreedStays ==
    ASSUME TInv, TInv', Moves, NEW i \in Inspectors, inspector[i] # Absent,
           Agreed(i), ~DeleteInspector(i)
    PROVE  /\ inspector'[i] # Absent /\ ~inspector'[i].deleting
           /\ inspector'[i].spec = inspector[i].spec
           /\ Agreed(i)'
<1>1. inspector[i] \in CopiesOf(i) \ {Absent}
  BY DEF CopiesOf
<1>2. ~inspector[i].deleting
  BY <1>1 DEF Agreed
<1>3. inspector'[i] # Absent /\ inspector'[i].spec = inspector[i].spec
  BY <1>2 DEF Moves, StoredMoves
<1>4. ASSUME NEW obj \in CopiesOf(i)', obj # Absent
      PROVE  obj.spec = inspector[i].spec /\ ~obj.deleting
  BY <1>4, CopiesKept DEF Agreed
<1>5. inspector'[i] \in CopiesOf(i)'
  BY DEF CopiesOf
<1>6. ASSUME NEW o \in Operators, Busy(o, i)', worker'[o].pc \notin Unprepared
      PROVE  worker'[o].points = ScrapePoints(i, inspector[i].spec)
  <2>1. WorkMoves(o) /\ worker'[o].pc # "idle" /\ worker'[o].req = i
    BY <1>6 DEF Moves, Busy
  <2>2. worker'[o].insp \in CopiesOf(i)' \ {Absent}
    BY <1>6, AbsentAssumption DEF Busy, CopiesOf, TInv, BusyOK
  <2>3. ~worker'[o].insp.deleting
    BY <1>4, <2>2
  <2>4. Busy(o, i)
    BY <1>6, <2>1, <2>3 DEF WorkMoves, Busy
  <2>5. worker[o].insp.spec = inspector[i].spec
    BY <2>4, WorkerClaims DEF Agreed
  <2>. QED BY <1>6, <2>1, <2>3, <2>4, <2>5 DEF WorkMoves, Agreed, Busy, Unprepared
<1>7. ScrapePoints(i, inspector[i].spec)' = ScrapePoints(i, inspector[i].spec)
  BY <1>3 DEF Moves, cluster, ScrapePoints
<1>8. Agreed(i)'
  BY <1>3, <1>4, <1>6, <1>7 DEF Agreed, Unprepared
<1>. QED BY <1>3, <1>4, <1>5, <1>8

\* The scrape points stay where they are, whoever writes the map.
LEMMA PointsStay ==
    ASSUME TInv, Coherent, OnItsPath, [Next]_vars, NEW i \in Inspectors, Steady(i),
           NEW ip \in Keys(ScrapePoints(i, inspector[i].spec))
    PROVE  gazerConfig'[ip] = gazerConfig[ip]
<1>. SUFFICES ASSUME gazerConfig' # gazerConfig
              PROVE  gazerConfig'[ip] = gazerConfig[ip]
  OBVIOUS
<1>1. PICK o \in Operators : RemoveWrite(o) \/ GazerWrite(o)
  BY Writers
<1>. DEFINE w == worker[o]
<1>2. PICK r \in Inspectors : Busy(o, r)
  BY <1>1 DEF TInv, BusyOK, Busy, RemoveWrite, GazerWrite
<1>3. w.pc \in {"removeWrite", "gazerWrite"} /\ w.gazer = gazerConfig /\ PathOK(w)
  BY <1>1 DEF RemoveWrite, GazerWrite, Holds, Coherent, FreshCopies, OnItsPath
<1>4. ip \in IPs
  BY DEF Keys
<1>5. CASE r # i
  <2>1. ip \notin w.insp.monitoredIPs \cup Keys(w.points)
    BY <1>2, <1>5, WorkerClaims DEF Steady
  <2>. QED BY <1>1, <1>3, <1>4, <2>1
           DEF RemoveWrite, GazerWrite, StoreGazer, Remaining, Removed, Added, Keys
<1>6. CASE r = i
  <2>1. ~w.insp.deleting
    BY <1>2, <1>6, WorkerClaims DEF Steady, Agreed
  <2>2. GazerWrite(o)
    BY <1>1, <2>1, <1>3 DEF PathOK, RemoveWrite
  <2>3. w.points = ScrapePoints(i, inspector[i].spec)
    BY <1>2, <1>6, <2>2 DEF Steady, Agreed, GazerWrite
  <2>4. gazerConfig'[ip] = ScrapePoints(i, inspector[i].spec)[ip]
    BY <1>4, <2>2, <2>3 DEF GazerWrite, StoreGazer, Added, Keys
  <2>. QED BY <2>4 DEF Steady, Monitored
<1>. QED BY <1>5, <1>6

\* So does its service in Sherlock's list.
LEMMA ServiceStays ==
    ASSUME TInv, Coherent, OnItsPath, UniqueNames, [Next]_vars,
           NEW i \in Inspectors, Steady(i)
    PROVE  serviceList'[NameOf[i]] = serviceList[NameOf[i]]
<1>. SUFFICES ASSUME serviceList' # serviceList
              PROVE  serviceList'[NameOf[i]] = serviceList[NameOf[i]]
  OBVIOUS
<1>1. PICK o \in Operators : SherlockWrite(o)
  BY Writers
<1>. DEFINE w == worker[o]
<1>2. PICK r \in Inspectors : Busy(o, r)
  BY <1>1 DEF TInv, BusyOK, Busy, SherlockWrite
<1>3. /\ serviceList' = [serviceList EXCEPT ![NameOf[w.req]] = Entry(w)]
      /\ w.req = r
  BY <1>1, <1>2 DEF SherlockWrite, StoreSherlock, Holds, Coherent, FreshCopies, Busy
<1>4. serviceList \in ServiceList /\ NameOf[i] \in Names /\ NameOf[r] \in Names
  BY ConstantsAssumption DEF TInv, TypeOK
<1>5. CASE r # i
  BY <1>3, <1>4, <1>5 DEF UniqueNames, ServiceList
<1>6. CASE r = i
  <2>1. ~w.insp.deleting /\ w.insp.spec = inspector[i].spec
    BY <1>2, <1>6, WorkerClaims DEF Steady, Agreed
  <2>2. Entry(w) = [inspector |-> i, model |-> inspector[i].spec.model]
    BY <1>3, <1>6, <2>1 DEF Entry
  <2>. QED BY <1>3, <1>4, <1>6, <2>2 DEF Steady, Monitored, ServiceList
<1>. QED BY <1>5, <1>6

LEMMA SteadyStays ==
    ASSUME TInv, TInv', Coherent, OnItsPath, UniqueNames, [Next]_vars,
           NEW i \in Inspectors, Steady(i), ~Unsettled(i)
    PROVE  Steady(i)'
<1>1. Moves
  BY NextMoves DEF Unsettled
<1>. DEFINE points == ScrapePoints(i, inspector[i].spec)
<1>2. inspector[i] # Absent /\ Agreed(i) /\ ~DeleteInspector(i)
  BY DEF Steady, Wanted, Unsettled
<1>3. /\ inspector'[i] # Absent /\ ~inspector'[i].deleting
      /\ inspector'[i].spec = inspector[i].spec
      /\ Agreed(i)'
  BY <1>1, <1>2, AgreedStays
<1>4. ScrapePoints(i, inspector[i].spec)' = points
  BY <1>1, <1>3 DEF Moves, cluster, ScrapePoints
<1>5. Keys(ScrapePoints(i, inspector[i].spec))' = Keys(points)
  BY <1>4 DEF Keys
<1>6. Wanted(i)'
  BY <1>1, <1>3 DEF Moves, cluster, Steady, Wanted
<1>7. Monitored(i)'
  <2>1. \A ip \in Keys(points) : gazerConfig'[ip] = points[ip]
    BY PointsStay DEF Steady, Monitored
  <2>2. serviceList'[NameOf[i]] = [inspector |-> i, model |-> inspector'[i].spec.model]
    BY <1>3, ServiceStays DEF Steady, Monitored
  <2>3. inspector'[i].monitoredIPs = Keys(points) /\ inspector'[i].status = "Running"
    <3>1. inspector[i].monitoredIPs = Keys(points) /\ inspector[i].status = "Running"
      BY DEF Steady, Monitored
    <3>2. ASSUME NEW o \in Operators, Busy(o, i), worker[o].pc = "statusWrite"
          PROVE  worker[o].points = points
      BY <1>2, <3>2 DEF Agreed
    <3>. HIDE DEF points
    <3>. QED BY <1>1, <1>3, <3>1, <3>2 DEF Moves, StoredMoves
  <2>. QED BY <1>4, <1>5, <2>1, <2>2, <2>3 DEF Monitored
<1>8. ASSUME NEW j \in Inspectors \ {i}
      PROVE  Keys(points) \cap Claims(j)' = {}
  BY <1>1, ClaimsShrink DEF Steady
<1>. QED BY <1>3, <1>5, <1>6, <1>7, <1>8 DEF Steady

\* For any number of operators, with leader election or without, provided that those
\* which run together have the same pods in their caches: an Inspector that
\* is monitored as it wants to be, and whose addresses no other one claims, stays
\* so in every step of every reconcile, failure, crash or restart, until the
\* cluster or a spec changes.  removeMonitoredIPs and configureGazer
\* (inspector_controller.go:241-275) never leave it without its points.
THEOREM MonitoredWithoutGaps == Spec => MonitoringStays
<1>1. /\ TInv /\ Coherent /\ OnItsPath
      /\ TInv'
      /\ [Next]_vars
      => [UniqueNames => \A i \in Inspectors : Steady(i) /\ ~Unsettled(i) => Steady(i)']_vars
  BY SteadyStays
<1>. QED BY <1>1, CopiesInv, PTL DEF Spec, MonitoringStays
=============================================================================
