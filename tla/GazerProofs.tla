----------------------------- MODULE GazerProofs -----------------------------
(***************************************************************************)
(* Proofs about Gazer and its config watcher, for any addresses, series,   *)
(* file contents, rows and bounds.                                         *)
(*                                                                         *)
(* What the handler of an event has found so far it found in a config that *)
(* there has been since it took the event (Followed).  A mounted file is   *)
(* never noticed (Quiet), so between two restarts its config is one and    *)
(* the same, and what a round of the backlog's poller has told so far is   *)
(* still true when it goes on, row by row (Told).  Where the file is       *)
(* written in place the process watches it and knows its own points        *)
(* (Watched), and so has each write noticed or read.                       *)
(***************************************************************************)
EXTENDS Gazer, TLAPS

Quiet ==
    /\ mounted => ~notice /\ watcher # "filter"
    /\ watcher = "boot" => request = Waiting /\ poll = Sleeping
    /\ watcher = "filter" => config # None

\* What the handler has found of the event's sender and receiver, and where.
Followed ==
    /\ request.pc # "poll" =>
        request.from \in Addrs /\ request.to \in Addrs /\ config \in seen
    /\ request.pc \in {"to", "receiver"} =>
        /\ request.pod # None
        /\ \E c \in seen : c # None /\ c[request.from] = request.pod
    /\ request.pc = "receiver" => \E d \in seen : d # None /\ d[request.to] # None

\* The rows of a gauge that the round has done.
Done(g) ==
    {r \in Rows :
        /\ poll.data[r] # 0 /\ r \notin poll.rows /\ ~(poll.pc = "row" /\ r = poll.row)
        /\ r[3] = g[2] /\ Has(r[1]) /\ config[r[1]].series = g[1]}

Untold(g) == IF g[1] \in TrackedPods /\ g[2] \in {1, 2} THEN 0 ELSE None

Told ==
    /\ poll.pc = "row" => poll.row \in Rows \ poll.rows /\ poll.data[poll.row] # 0
    /\ \A r \in poll.rows : poll.data[r] # 0
    /\ poll.pc \in {"clear", "zero"} => poll.rows = {r \in Rows : poll.data[r] # 0}
    /\ poll.pc = "zero" => backlog = NoBacklog
    /\ mounted /\ poll.pc \in {"rows", "row", "drain"} =>
        \A g \in Gauges :
            \/ \E r \in Done(g) : backlog[g] = poll.data[r]
            \/ Done(g) = {} /\ backlog[g] = Untold(g)
    /\ poll.pc = "drain" => poll.rows = {}

GazerInv == TypeOK /\ Quiet /\ Followed /\ Told

-----------------------------------------------------------------------------
(* Types. *)

\* What is kept of a config is a config.
LEMMA OwnType ==
    ASSUME NEW c \in Config
    PROVE  Own(c) \in Config
BY DEF Config, Own

\* A lookup that finds something finds a point.
LEMMA HasType ==
    ASSUME WatcherTypeOK, NEW a \in Addrs, Has(a)
    PROVE  config[a] \in Point /\ config[a].series \in Series
BY ConfigAssumption DEF WatcherTypeOK, Has, Config, Point

LEMMA ThreadTypes ==
    /\ Waiting \in RequestState /\ Nothing \in Counted /\ Looking \in KubeState
    /\ Sleeping \in PollState
    /\ NoSamples \in [Rows -> 0 .. MaxSamples]
    /\ NoBacklog \in [Gauges -> (0 .. MaxSamples) \cup {None}]
<1>1. NoSamples \in [Rows -> 0 .. MaxSamples]
  BY GazerAssumption DEF NoSamples
<1>2. Waiting \in RequestState /\ Nothing \in Counted /\ Looking \in KubeState
  BY DEF Waiting, RequestState, Nothing, Counted, Looking, KubeState
<1>3. Sleeping \in PollState
  BY <1>1 DEF Sleeping, PollState
<1>. QED BY <1>1, <1>2, <1>3 DEF NoBacklog

LEMMA InitInv == Init => GazerInv
<1>. SUFFICES ASSUME Init PROVE GazerInv
  OBVIOUS
<1>1. WatcherTypeOK
  BY OwnType, ConfigAssumption DEF Init, WatcherInit, ReadAll, WatcherTypeOK
<1>2. TypeOK
  BY <1>1, ThreadTypes DEF Init, ThreadsInit, TypeOK
<1>3. Quiet /\ Followed /\ Told
  BY DEF Init, WatcherInit, ThreadsInit, Quiet, Followed, Told, Waiting, Sleeping
<1>. QED BY <1>2, <1>3 DEF GazerInv

-----------------------------------------------------------------------------
(* The watcher and the process. *)

LEMMA WatcherInv ==
    ASSUME GazerInv, WatcherSteps
    PROVE  GazerInv'
<1>1. /\ UNCHANGED <<request, counted, kube, usage, poll, samples, backlog>>
      /\ mounted' = mounted
      /\ seen' = IF request.pc = "poll" THEN {} ELSE seen \cup {config'}
  BY DEF WatcherSteps, WatcherThread, Writer, AddWatch, ReadConfig, FilterConfig, Swap,
         Truncate, CloseWrite, kubeVars, backlogVars
<1>2. WatcherTypeOK /\ Quiet
  BY DEF GazerInv, TypeOK
<1>3. /\ WatcherTypeOK' /\ Quiet'
      /\ mounted => config' = config
  <2>. USE <1>1, <1>2 DEF WatcherTypeOK, Quiet
  <2>1. CASE AddWatch
    BY <2>1 DEF AddWatch
  <2>2. CASE ReadConfig
    <3>1. WatcherTypeOK'
      BY <2>2, ConfigAssumption DEF ReadConfig
    <3>2. ~mounted
      BY <2>2 DEF ReadConfig
    <3>3. Quiet'
      BY <2>2, <3>2 DEF ReadConfig
    <3>. QED BY <3>1, <3>2, <3>3
  <2>3. CASE FilterConfig
    <3>1. config \in Config /\ config # None
      BY <2>3 DEF FilterConfig
    <3>2. Own(config) \in Config
      BY <3>1, OwnType
    <3>. QED BY <2>3, <3>2 DEF FilterConfig
  <2>4. CASE Writer
    <3>1. WatcherTypeOK'
      BY <2>4 DEF Writer, Swap, Truncate, CloseWrite
    <3>2. Quiet'
      BY <2>4 DEF Writer, Swap, Truncate, CloseWrite
    <3>3. config' = config
      BY <2>4 DEF Writer, Swap, Truncate, CloseWrite
    <3>. QED BY <3>1, <3>2, <3>3
  <2>. QED BY <2>1, <2>2, <2>3, <2>4 DEF WatcherSteps, WatcherThread
<1>4. TypeOK'
  BY <1>1, <1>3 DEF GazerInv, TypeOK, WatcherTypeOK
<1>5. Followed'
  BY <1>1 DEF GazerInv, Followed
<1>6. Told'
  BY <1>1, <1>3 DEF GazerInv, Told, Done, Untold, TrackedPods, Has
<1>. QED BY <1>3, <1>4, <1>5, <1>6 DEF GazerInv

LEMMA RestartInv ==
    ASSUME GazerInv, Restart
    PROVE  GazerInv'
<1>1. WatcherTypeOK'
  BY OwnType, ConfigAssumption DEF GazerInv, TypeOK, WatcherTypeOK, Restart, Boot, ReadAll
<1>2. TypeOK'
  BY <1>1, ThreadTypes DEF Restart, TypeOK
<1>3. Quiet' /\ Followed' /\ Told'
  BY DEF Restart, Boot, Quiet, Followed, Told, Waiting, Sleeping
<1>. QED BY <1>2, <1>3 DEF GazerInv

-----------------------------------------------------------------------------
(* ipv4_request_event. *)

\* Nothing that the threads of the poller look at has changed.
LEMMA RequestMovesInv ==
    ASSUME GazerInv, UNCHANGED <<watcherVars, kubeVars, backlogVars>>, Up,
           request' \in RequestState, counted' \in Counted, seen' \subseteq Config \cup {None},
           Followed'
    PROVE  GazerInv'
<1>. USE DEF watcherVars, kubeVars, backlogVars
<1>1. WatcherTypeOK'
  BY DEF GazerInv, TypeOK, WatcherTypeOK
<1>2. TypeOK'
  BY <1>1 DEF GazerInv, TypeOK
<1>3. Quiet'
  BY DEF GazerInv, Quiet, Up
<1>4. Told'
  BY DEF GazerInv, Told, Done, Untold, TrackedPods, Has
<1>. QED BY <1>2, <1>3, <1>4 DEF GazerInv

LEMMA DropEventInv ==
    ASSUME GazerInv, Up, DropEvent
    PROVE  GazerInv'
<1>1. Followed'
  BY DEF DropEvent, Followed, Waiting
<1>. QED BY <1>1, RequestMovesInv, ThreadTypes DEF DropEvent

LEMMA CountInv ==
    ASSUME GazerInv, Up, request.pc # "poll", request.pod # None,
           NEW s \in Series \cup {None}, Count(s)
    PROVE  GazerInv'
<1>1. Followed'
  BY DEF Count, Followed, Waiting
<1>2. request.pod.series \in Series
  BY DEF GazerInv, TypeOK, RequestState, Point
<1>3. counted' \in Counted
  BY <1>2 DEF Count, Counted
<1>. QED BY <1>1, <1>3, RequestMovesInv, ThreadTypes DEF Count

LEMMA RequestGoesInv ==
    ASSUME GazerInv, Up, NEW next \in RequestState, RequestGoes(next), Followed'
    PROVE  GazerInv'
<1>1. counted' \in Counted /\ seen' \subseteq Config \cup {None}
  BY DEF GazerInv, TypeOK, RequestGoes
<1>. QED BY <1>1, RequestMovesInv DEF RequestGoes

LEMMA RequestInv ==
    ASSUME GazerInv, RequestThread
    PROVE  GazerInv'
<1>. USE DEF RequestStep
<1>0. WatcherTypeOK /\ request \in RequestState /\ Followed
  BY DEF GazerInv, TypeOK
<1>1. CASE TakeEvent
  <2>1. PICK from \in Addrs, to \in Addrs :
            request' = [Waiting EXCEPT !.pc = "from", !.from = from, !.to = to]
    BY <1>1 DEF TakeEvent
  <2>2. /\ request' \in RequestState /\ request'.pc = "from"
        /\ request'.from = from /\ request'.to = to
    BY <2>1 DEF Waiting, RequestState
  <2>3. /\ UNCHANGED <<watcherVars, counted, kubeVars, backlogVars>> /\ Up
        /\ seen' = {config} /\ config' = config
    BY <1>1 DEF TakeEvent, watcherVars
  <2>4. Followed'
    BY <2>2, <2>3 DEF Followed
  <2>5. counted' \in Counted /\ seen' \subseteq Config \cup {None}
    BY <1>0, <2>3 DEF GazerInv, TypeOK, WatcherTypeOK
  <2>. QED BY <2>2, <2>3, <2>4, <2>5, RequestMovesInv
<1>2. CASE FindSender
  <2>1. CASE Has(request.from)
    <3>. DEFINE next == [request EXCEPT !.pc = "sender"]
    <3>1. /\ next \in RequestState /\ next.pc = "sender"
          /\ next.from = request.from /\ next.to = request.to
      BY <1>0 DEF RequestState
    <3>2. RequestGoes(next) /\ Up /\ request.pc = "from"
      BY <1>2, <2>1 DEF FindSender
    <3>. HIDE DEF next
    <3>3. Followed'
      BY <1>0, <2>1, <3>1, <3>2 DEF RequestGoes, Followed, Has, watcherVars
    <3>. QED BY <3>1, <3>2, <3>3, RequestGoesInv
  <2>2. CASE ~Has(request.from)
    BY <1>2, <2>2, DropEventInv DEF FindSender
  <2>. QED BY <2>1, <2>2
<1>3. CASE TakeSender
  <2>1. CASE Has(request.from)
    <3>. DEFINE next == [request EXCEPT !.pc = "to", !.pod = config[request.from]]
    <3>1. request.from \in Addrs
      BY <1>0, <1>3 DEF TakeSender, Followed
    <3>2. config[request.from] \in Point /\ config[request.from] # None
      BY <1>0, <2>1, <3>1, HasType DEF Has
    <3>3. /\ next \in RequestState /\ next.pc = "to" /\ next.pod = config[request.from]
          /\ next.from = request.from /\ next.to = request.to
      BY <1>0, <3>2 DEF RequestState
    <3>4. RequestGoes(next) /\ Up /\ request.pc = "sender"
      BY <1>3, <2>1 DEF TakeSender
    <3>. HIDE DEF next
    <3>5. Followed'
      BY <1>0, <2>1, <3>2, <3>3, <3>4 DEF RequestGoes, Followed, Has, watcherVars
    <3>. QED BY <3>3, <3>4, <3>5, RequestGoesInv
  <2>2. CASE ~Has(request.from)
    BY <1>3, <2>2, DropEventInv DEF TakeSender
  <2>. QED BY <2>1, <2>2
<1>4. CASE FindReceiver
  <2>1. CASE config = None
    BY <1>4, <2>1, DropEventInv DEF FindReceiver
  <2>2. CASE config # None /\ Has(request.to)
    <3>. DEFINE next == [request EXCEPT !.pc = "receiver"]
    <3>1. /\ next \in RequestState /\ next.pc = "receiver" /\ next.pod = request.pod
          /\ next.from = request.from /\ next.to = request.to
      BY <1>0 DEF RequestState
    <3>2. RequestGoes(next) /\ Up /\ request.pc = "to"
      BY <1>4, <2>2 DEF FindReceiver
    <3>. HIDE DEF next
    <3>3. Followed'
      BY <1>0, <2>2, <3>1, <3>2 DEF RequestGoes, Followed, Has, watcherVars
    <3>. QED BY <3>1, <3>2, <3>3, RequestGoesInv
  <2>3. CASE config # None /\ ~Has(request.to)
    BY <1>0, <1>4, <2>3, CountInv DEF FindReceiver, Followed
  <2>. QED BY <2>1, <2>2, <2>3
<1>5. CASE TakeReceiver
  <2>1. CASE Has(request.to) /\ config[request.to].isService
    <3>1. request.to \in Addrs
      BY <1>0, <1>5 DEF TakeReceiver, Followed
    <3>2. config[request.to].series \in Series
      BY <1>0, <2>1, <3>1, HasType
    <3>. QED BY <1>0, <1>5, <2>1, <3>2, CountInv DEF TakeReceiver, Followed
  <2>2. CASE ~(Has(request.to) /\ config[request.to].isService)
    BY <1>5, <2>2, DropEventInv DEF TakeReceiver
  <2>. QED BY <2>1, <2>2
<1>. QED BY <1>1, <1>2, <1>3, <1>4, <1>5 DEF RequestThread

-----------------------------------------------------------------------------
(* poll_kube_api. *)

LEMMA KubeInv ==
    ASSUME GazerInv, KubeThread \/ KubeAnswers
    PROVE  GazerInv'
<1>1. UNCHANGED <<watcherVars, requestVars, backlogVars>>
  BY DEF KubeThread, LookForPods, AskForPod, EndKubeRound, KubeAnswers
<1>2. WatcherTypeOK /\ kube \in KubeState /\ usage \subseteq Series
  BY DEF GazerInv, TypeOK
<1>3. kube' \in KubeState /\ usage' \subseteq Series
  <2>1. CASE LookForPods
    <3>1. config # None => {config[a] : a \in Addrs} \ {None} \subseteq Point
      BY <1>2 DEF WatcherTypeOK, Config
    <3>. QED BY <2>1, <3>1 DEF LookForPods, KubeState, Looking
  <2>2. ASSUME NEW p \in Point, AskForPod(p)
        PROVE  kube' \in KubeState /\ usage' \subseteq Series
    <3>1. kube.pc = "each"
      BY <2>2 DEF AskForPod, KubeStep
    <3>. QED BY <1>2, <2>2, <3>1 DEF AskForPod, KubeState
  <2>3. CASE EndKubeRound
    BY <1>2, <2>3, ThreadTypes DEF EndKubeRound
  <2>4. CASE KubeAnswers
    <3>1. kube.pc = "asked"
      BY <2>4 DEF KubeAnswers, KubeStep
    <3>2. kube.pod \in Point /\ kube' \in KubeState
      BY <1>2, <2>4, <3>1 DEF KubeAnswers, KubeState
    <3>3. kube.pod.series \in Series
      BY <3>2 DEF Point
    <3>. QED BY <1>2, <2>4, <3>2, <3>3 DEF KubeAnswers
  <2>. QED BY <2>1, <2>2, <2>3, <2>4 DEF KubeThread
<1>. USE <1>1 DEF watcherVars, requestVars, backlogVars
<1>4. WatcherTypeOK'
  BY <1>2 DEF WatcherTypeOK
<1>5. TypeOK'
  BY <1>3, <1>4 DEF GazerInv, TypeOK
<1>6. Quiet' /\ Followed'
  BY DEF GazerInv, Quiet, Followed, Has
<1>7. Told'
  BY DEF GazerInv, Told, Done, Untold, TrackedPods, Has
<1>. QED BY <1>5, <1>6, <1>7 DEF GazerInv

-----------------------------------------------------------------------------
(* poll_syn_backlog. *)

\* What a step of the poller or of the kernel's probe has to show.
LEMMA BacklogMovesInv ==
    ASSUME GazerInv, UNCHANGED <<watcherVars, requestVars, kubeVars>>, Up,
           poll' \in PollState, samples' \in [Rows -> 0 .. MaxSamples],
           backlog' \in [Gauges -> (0 .. MaxSamples) \cup {None}], Told'
    PROVE  GazerInv'
<1>. USE DEF watcherVars, requestVars, kubeVars
<1>1. WatcherTypeOK'
  BY DEF GazerInv, TypeOK, WatcherTypeOK
<1>2. TypeOK'
  BY <1>1 DEF GazerInv, TypeOK
<1>3. Quiet' /\ Followed'
  BY DEF GazerInv, Quiet, Up, Followed, Has
<1>. QED BY <1>2, <1>3 DEF GazerInv

LEMMA BacklogGoesInv ==
    ASSUME GazerInv, Up, NEW next \in PollState,
           NEW gauge \in [Gauges -> (0 .. MaxSamples) \cup {None}],
           BacklogGoes(next, gauge), Told'
    PROVE  GazerInv'
<1>1. samples' \in [Rows -> 0 .. MaxSamples]
  BY DEF GazerInv, TypeOK, BacklogGoes
<1>. QED BY <1>1, BacklogMovesInv DEF BacklogGoes

LEMMA EndRoundInv ==
    ASSUME GazerInv, Up, EndRound
    PROVE  GazerInv'
<1>1. Told'
  BY DEF EndRound, BacklogGoes, Told, Sleeping
<1>2. backlog \in [Gauges -> (0 .. MaxSamples) \cup {None}]
  BY DEF GazerInv, TypeOK
<1>. QED BY <1>1, <1>2, ThreadTypes, BacklogGoesInv DEF EndRound

\* The two first steps of a round: nothing is told any more.
LEMMA ReadItemsInv ==
    ASSUME GazerInv, ReadItems
    PROVE  GazerInv'
<1>. DEFINE next == [Sleeping EXCEPT !.pc = "clear", !.data = samples,
                        !.rows = {r \in Rows : samples[r] > 0}]
<1>1. samples \in [Rows -> 0 .. MaxSamples] /\ MaxSamples \in Nat
      /\ backlog \in [Gauges -> (0 .. MaxSamples) \cup {None}]
  BY GazerAssumption DEF GazerInv, TypeOK
<1>2. next \in PollState /\ next.pc = "clear" /\ next.data = samples
      /\ next.rows = {r \in Rows : samples[r] # 0}
  <2>1. {r \in Rows : samples[r] > 0} = {r \in Rows : samples[r] # 0}
    BY <1>1
  <2>2. Sleeping \in PollState
    BY ThreadTypes
  <2>. QED BY <1>1, <2>1, <2>2 DEF PollState
<1>3. BacklogGoes(next, backlog) /\ Up
  BY DEF ReadItems, BacklogStep
<1>. HIDE DEF next
<1>4. Told'
  BY <1>2, <1>3 DEF BacklogGoes, Told
<1>. QED BY <1>1, <1>2, <1>3, <1>4, BacklogGoesInv

LEMMA ClearGaugeInv ==
    ASSUME GazerInv, ClearGauge
    PROVE  GazerInv'
<1>. DEFINE next == [poll EXCEPT !.pc = "zero"]
<1>1. poll \in PollState /\ Told /\ poll.pc = "clear"
  BY DEF GazerInv, TypeOK, ClearGauge, BacklogStep
<1>2. next \in PollState /\ next.pc = "zero" /\ next.data = poll.data /\ next.rows = poll.rows
  BY <1>1 DEF PollState
<1>3. BacklogGoes(next, NoBacklog) /\ Up
  BY DEF ClearGauge, BacklogStep
<1>. HIDE DEF next
<1>4. Told'
  BY <1>1, <1>2, <1>3 DEF BacklogGoes, Told
<1>. QED BY <1>2, <1>3, <1>4, ThreadTypes, BacklogGoesInv

\* The gauge is what it is when no row is done.
LEMMA ZeroPodsInv ==
    ASSUME GazerInv, ZeroPods
    PROVE  GazerInv'
<1>1. poll \in PollState /\ Told /\ poll.pc = "zero" /\ Up
  BY DEF GazerInv, TypeOK, ZeroPods, BacklogStep
<1>2. CASE config = None
  BY <1>1, <1>2, EndRoundInv DEF ZeroPods
<1>3. CASE config # None
  <2>. DEFINE next == [poll EXCEPT !.pc = "rows"]
              gauge == [g \in Gauges |->
                    IF g[1] \in TrackedPods /\ g[2] \in {1, 2} THEN 0 ELSE backlog[g]]
  <2>1. next \in PollState /\ next.pc = "rows" /\ next.data = poll.data
        /\ next.rows = {r \in Rows : poll.data[r] # 0}
    BY <1>1 DEF PollState, Told
  <2>2. backlog = NoBacklog
    BY <1>1 DEF Told
  <2>3. \A g \in Gauges : gauge[g] = Untold(g)
    BY <2>2 DEF Untold, NoBacklog
  <2>4. gauge \in [Gauges -> (0 .. MaxSamples) \cup {None}]
    BY <2>2, GazerAssumption DEF NoBacklog
  <2>5. BacklogGoes(next, gauge)
    BY <1>3 DEF ZeroPods
  <2>. HIDE DEF next, gauge
  <2>6. /\ poll' = next /\ backlog' = gauge
        /\ config' = config
    BY <2>5 DEF BacklogGoes, watcherVars
  <2>7. \A g \in Gauges : Done(g)' = {}
    BY <2>1, <2>6 DEF Done
  <2>8. \A g \in Gauges : Untold(g)' = Untold(g)
    BY <2>6 DEF Untold, TrackedPods, Has
  <2>9. Told'
    BY <2>1, <2>3, <2>6, <2>7, <2>8 DEF Told
  <2>. QED BY <1>1, <2>1, <2>4, <2>5, <2>9, BacklogGoesInv
<1>. QED BY <1>2, <1>3

\* A row that is not tracked is not one of any gauge.
LEMMA FindRowInv ==
    ASSUME GazerInv, FindRow
    PROVE  GazerInv'
<1>1. /\ poll \in PollState /\ Told /\ poll.pc = "rows" /\ Up
      /\ backlog \in [Gauges -> (0 .. MaxSamples) \cup {None}]
  BY DEF GazerInv, TypeOK, FindRow, BacklogStep
<1>2. CASE EndRound
  BY <1>1, <1>2, EndRoundInv
<1>3. CASE ~EndRound
  <2>1. PICK r \in poll.rows :
            BacklogGoes([poll EXCEPT !.rows = @ \ {r}, !.row = r,
                                     !.pc = IF Has(r[1]) THEN "row" ELSE "rows"], backlog)
    BY <1>3 DEF FindRow
  <2>. DEFINE next == [poll EXCEPT !.rows = @ \ {r}, !.row = r,
                                   !.pc = IF Has(r[1]) THEN "row" ELSE "rows"]
  <2>2. r \in Rows
    BY <1>1 DEF PollState
  <2>3. /\ next \in PollState /\ next.data = poll.data /\ next.row = r
        /\ next.rows = poll.rows \ {r}
        /\ next.pc = IF Has(r[1]) THEN "row" ELSE "rows"
    BY <1>1, <2>2 DEF PollState
  <2>4. poll' = next /\ backlog' = backlog /\ config' = config /\ mounted' = mounted
    BY <2>1 DEF BacklogGoes, watcherVars
  <2>. HIDE DEF next
  <2>5. \A g \in Gauges : Untold(g)' = Untold(g)
    BY <2>4 DEF Untold, TrackedPods, Has
  <2>6. \A g \in Gauges : Done(g)' = Done(g)
    BY <1>1, <2>3, <2>4 DEF Done, Has
  <2>7. poll.data[r] # 0
    BY <1>1, <2>2 DEF Told
  <2>8. Told'
    BY <1>1, <2>2, <2>3, <2>4, <2>5, <2>6, <2>7 DEF Told
  <2>. QED BY <1>1, <2>1, <2>3, <2>8, BacklogGoesInv DEF next
<1>. QED BY <1>2, <1>3

\* The row that is told is the last one done of its gauge.
LEMMA SetRowInv ==
    ASSUME GazerInv, SetRow
    PROVE  GazerInv'
<1>1. /\ poll \in PollState /\ Told /\ poll.pc = "row" /\ Up /\ WatcherTypeOK
      /\ backlog \in [Gauges -> (0 .. MaxSamples) \cup {None}]
  BY DEF GazerInv, TypeOK, SetRow, BacklogStep
<1>2. CASE ~Has(poll.row[1])
  BY <1>1, <1>2, EndRoundInv DEF SetRow
<1>3. CASE Has(poll.row[1])
  <2>. DEFINE next == [poll EXCEPT !.pc = "rows"]
  <2>1. /\ next \in PollState /\ next.pc = "rows" /\ next.data = poll.data
        /\ next.rows = poll.rows
    BY <1>1 DEF PollState
  <2>2. poll.row \in Rows /\ poll.row \notin poll.rows /\ poll.data[poll.row] # 0
        /\ \A r \in poll.rows : poll.data[r] # 0
    BY <1>1 DEF Told
  <2>3. poll.row[1] \in Addrs /\ poll.row[3] \in Slots
    BY <2>2, GazerAssumption
  <2>4. config[poll.row[1]].series \in Series
    BY <1>1, <1>3, <2>3, HasType
  <2>5. PICK mine \in Gauges : mine = <<config[poll.row[1]].series, poll.row[3]>>
    BY <2>3, <2>4 DEF Gauges
  <2>. DEFINE gauge == [backlog EXCEPT ![mine] = poll.data[poll.row]]
  <2>6. poll.data[poll.row] \in 0 .. MaxSamples
    BY <1>1, <2>2 DEF PollState
  <2>7. BacklogGoes(next, gauge)
    BY <1>3, <2>5 DEF SetRow
  <2>8. gauge \in [Gauges -> (0 .. MaxSamples) \cup {None}]
        /\ gauge[mine] = poll.data[poll.row]
        /\ \A g \in Gauges : g # mine => gauge[g] = backlog[g]
    BY <1>1, <2>5, <2>6
  <2>. HIDE DEF next, gauge
  <2>9. poll' = next /\ backlog' = gauge /\ config' = config /\ mounted' = mounted
    BY <2>7 DEF BacklogGoes, watcherVars
  <2>10. \A g \in Gauges : Untold(g)' = Untold(g)
    BY <2>9 DEF Untold, TrackedPods, Has
  <2>11. poll.row \in Done(mine)'
    BY <1>3, <2>1, <2>2, <2>5, <2>9 DEF Done, Has
  <2>12. ASSUME NEW g \in Gauges, g # mine
         PROVE  Done(g)' = Done(g)
    <3>1. ~(poll.row[3] = g[2] /\ config[poll.row[1]].series = g[1])
      BY <2>12, <2>5 DEF Gauges
    <3>. QED BY <1>1, <2>1, <2>9, <3>1 DEF Done, Has
  <2>13. ASSUME mounted, NEW g \in Gauges
         PROVE  \/ \E r \in Done(g)' : gauge[g] = poll.data[r]
                \/ Done(g)' = {} /\ gauge[g] = Untold(g)
    <3>1. CASE g = mine
      BY <2>8, <2>11, <3>1
    <3>2. CASE g # mine
      BY <1>1, <2>8, <2>12, <2>13, <3>2 DEF Told
    <3>. QED BY <3>1, <3>2
  <2>14. Told'
    BY <2>1, <2>2, <2>9, <2>10, <2>13 DEF Told
  <2>. QED BY <1>1, <2>1, <2>7, <2>8, <2>14, BacklogGoesInv
<1>. QED BY <1>2, <1>3

LEMMA EndBacklogRoundInv ==
    ASSUME GazerInv, EndBacklogRound
    PROVE  GazerInv'
<1>. DEFINE next == [poll EXCEPT !.pc = "drain"]
<1>1. /\ poll \in PollState /\ Told /\ poll.pc = "rows" /\ poll.rows = {} /\ Up
      /\ backlog \in [Gauges -> (0 .. MaxSamples) \cup {None}]
      /\ BacklogGoes(next, backlog)
  BY DEF GazerInv, TypeOK, EndBacklogRound, BacklogStep
<1>2. /\ next \in PollState /\ next.pc = "drain" /\ next.data = poll.data
      /\ next.rows = {}
  BY <1>1 DEF PollState
<1>. HIDE DEF next
<1>3. poll' = next /\ backlog' = backlog /\ config' = config /\ mounted' = mounted
  BY <1>1 DEF BacklogGoes, watcherVars
<1>4. \A g \in Gauges : Untold(g)' = Untold(g) /\ Done(g)' = Done(g)
  BY <1>1, <1>2, <1>3 DEF Untold, TrackedPods, Done, Has
<1>5. Told'
  BY <1>1, <1>2, <1>3, <1>4 DEF Told
<1>. QED BY <1>1, <1>2, <1>5, BacklogGoesInv

LEMMA DrainHistogramInv ==
    ASSUME GazerInv, DrainHistogram
    PROVE  GazerInv'
<1>1. Told'
  BY DEF DrainHistogram, Told, Sleeping
<1>2. backlog' \in [Gauges -> (0 .. MaxSamples) \cup {None}]
  BY DEF GazerInv, TypeOK, DrainHistogram
<1>. QED BY <1>1, <1>2, ThreadTypes, BacklogMovesInv DEF DrainHistogram, BacklogStep

\* The poller works on its own copy of the histogram.
LEMMA KernelSampleInv ==
    ASSUME GazerInv, NEW r \in Rows, KernelSample(r)
    PROVE  GazerInv'
<1>1. samples' \in [Rows -> 0 .. MaxSamples]
  BY GazerAssumption DEF GazerInv, TypeOK, KernelSample
<1>2. poll' \in PollState /\ backlog' \in [Gauges -> (0 .. MaxSamples) \cup {None}]
  BY DEF GazerInv, TypeOK, KernelSample
<1>3. Told'
  BY DEF GazerInv, KernelSample, Told, Done, Untold, TrackedPods, Has, watcherVars
<1>. QED BY <1>1, <1>2, <1>3, BacklogMovesInv DEF KernelSample

-----------------------------------------------------------------------------
(* The theorems. *)

LEMMA NextInv == GazerInv /\ [Next]_vars => GazerInv'
<1>. SUFFICES ASSUME GazerInv, [Next]_vars
              PROVE  GazerInv'
  OBVIOUS
<1>1. CASE WatcherSteps
  BY <1>1, WatcherInv
<1>2. CASE Restart
  BY <1>2, RestartInv
<1>3. CASE RequestThread
  BY <1>3, RequestInv
<1>4. CASE KubeThread \/ KubeAnswers
  BY <1>4, KubeInv
<1>5. CASE BacklogThread
  BY <1>5, ReadItemsInv, ClearGaugeInv, ZeroPodsInv, FindRowInv, SetRowInv,
     EndBacklogRoundInv, DrainHistogramInv DEF BacklogThread
<1>6. ASSUME NEW r \in Rows, KernelSample(r)
      PROVE  GazerInv'
  BY <1>6, KernelSampleInv
<1>7. CASE UNCHANGED vars
  <2>. USE <1>7 DEF vars, watcherVars, requestVars, kubeVars, backlogVars
  <2>1. WatcherTypeOK'
    BY DEF GazerInv, TypeOK, WatcherTypeOK
  <2>2. TypeOK'
    BY <2>1 DEF GazerInv, TypeOK
  <2>3. Quiet' /\ Followed'
    BY DEF GazerInv, Quiet, Followed, Has
  <2>4. Told'
    BY DEF GazerInv, Told, Done, Untold, TrackedPods, Has
  <2>. QED BY <2>2, <2>3, <2>4 DEF GazerInv
<1>. QED BY <1>1, <1>2, <1>3, <1>4, <1>5, <1>6, <1>7 DEF Next

LEMMA Invariant == Spec => []GazerInv
BY InitInv, NextInv, PTL DEF Spec

\* Every variable of Gazer's threads and of its config watcher keeps its type.
THEOREM TypeCorrect == Spec => []TypeOK
<1>1. GazerInv => TypeOK
  BY DEF GazerInv
<1>. QED BY <1>1, Invariant, PTL

\* A round of the backlog's poller tells this round's counts and nothing older.
THEOREM RoundsTellBacklog == Spec => []RoundTellsBacklog
<1>1. ASSUME GazerInv
      PROVE  RoundTellsBacklog
  <2>. SUFFICES ASSUME mounted, poll.pc = "drain", NEW g \in Gauges
                PROVE  LET counts == {poll.data[r] : r \in {q \in Rows :
                            q[3] = g[2] /\ Has(q[1]) /\ config[q[1]].series = g[1]}} \ {0}
                       IN  \/ backlog[g] \in counts
                           \/ counts = {} /\ backlog[g] = Untold(g)
    BY DEF RoundTellsBacklog, Untold
  <2>1. /\ poll.rows = {}
        /\ \/ \E r \in Done(g) : backlog[g] = poll.data[r]
           \/ Done(g) = {} /\ backlog[g] = Untold(g)
    BY <1>1 DEF GazerInv, Told
  <2>. QED BY <2>1 DEF Done
<1>. QED BY <1>1, Invariant, PTL

\* An event is counted whole (gazer.py:72-85), each address for an entry that it had
\* while the event was handled, or not at all; it is counted as the config says when
\* that stays.
THEOREM EventsCountedByConfig == Spec => CountedByConfig
<1> DEFINE Right ==
        \/ \E c, d \in seen : counted' = CountedBy(c, d, request.from, request.to)
        \/ counted' = Nothing /\ seen # {config}
<1>1. ASSUME GazerInv, [Next]_vars, Handled
      PROVE  Right
  <2>1. /\ Followed /\ request.pc # "poll" /\ request' = Waiting /\ watcher' # "boot"
        /\ request \in RequestState /\ config \in seen
    BY <1>1 DEF GazerInv, TypeOK, Handled, Followed
  <2>2. Waiting.pc = "poll"
    BY DEF Waiting
  <2>3. RequestThread
    <3>1. request' # request
      BY <2>1, <2>2
    <3>2. ~Restart
      BY <2>1 DEF Restart, Boot
    <3>. QED BY <1>1, <3>1, <3>2 DEF Next, vars, requestVars, WatcherSteps, KubeThread,
              LookForPods, AskForPod, EndKubeRound, KubeAnswers, BacklogThread, ReadItems,
              ClearGauge, ZeroPods, FindRow, SetRow, EndBacklogRound, DrainHistogram,
              EndRound, BacklogGoes, KernelSample
  <2>4. CASE FindSender
    <3>1. ~Has(request.from)
      <4>1. SUFFICES ASSUME Has(request.from) PROVE FALSE
        OBVIOUS
      <4>2. request' = [request EXCEPT !.pc = "sender"]
        BY <2>4, <4>1 DEF FindSender, RequestGoes
      <4>. QED BY <2>1, <2>2, <4>2 DEF RequestState
    <3>. QED BY <2>1, <2>4, <3>1 DEF FindSender, DropEvent, CountedBy, Has
  <2>5. CASE TakeSender
    <3>1. ~Has(request.from)
      <4>1. SUFFICES ASSUME Has(request.from) PROVE FALSE
        OBVIOUS
      <4>2. request' = [request EXCEPT !.pc = "to", !.pod = config[request.from]]
        BY <2>5, <4>1 DEF TakeSender, RequestGoes
      <4>. QED BY <2>1, <2>2, <4>2 DEF RequestState
    <3>. QED BY <2>1, <2>5, <3>1 DEF TakeSender, DropEvent, CountedBy, Has
  <2>6. CASE FindReceiver
    <3>1. PICK c \in seen : c # None /\ c[request.from] = request.pod /\ request.pod # None
      BY <2>1, <2>6 DEF Followed, FindReceiver, RequestStep
    <3>2. CASE config = None
      BY <2>1, <2>6, <3>2 DEF FindReceiver, DropEvent, CountedBy
    <3>3. CASE config # None
      <4>1. ~Has(request.to)
        <5>1. SUFFICES ASSUME Has(request.to) PROVE FALSE
          OBVIOUS
        <5>2. request' = [request EXCEPT !.pc = "receiver"]
          BY <2>6, <3>3, <5>1 DEF FindReceiver, RequestGoes
        <5>. QED BY <2>1, <2>2, <5>2 DEF RequestState
      <4>2. counted' = CountedBy(c, config, request.from, request.to)
        BY <2>6, <3>1, <3>3, <4>1 DEF FindReceiver, Count, CountedBy, Has
      <4>. QED BY <2>1, <3>1, <4>2
    <3>. QED BY <3>2, <3>3
  <2>7. CASE TakeReceiver
    <3>1. PICK c \in seen : c # None /\ c[request.from] = request.pod /\ request.pod # None
      BY <2>1, <2>7 DEF Followed, TakeReceiver, RequestStep
    <3>2. PICK d \in seen : d # None /\ d[request.to] # None
      BY <2>1, <2>7 DEF Followed, TakeReceiver, RequestStep
    <3>3. CASE Has(request.to)
      <4>1. counted' = CountedBy(c, config, request.from, request.to)
        BY <2>7, <3>1, <3>3 DEF TakeReceiver, Count, DropEvent, CountedBy, Has
      <4>. QED BY <2>1, <3>1, <4>1
    <3>4. CASE ~Has(request.to)
      <4>1. d # config
        BY <3>2, <3>4 DEF Has
      <4>. QED BY <2>7, <3>2, <3>4, <4>1 DEF TakeReceiver, DropEvent
    <3>. QED BY <3>3, <3>4
  <2>8. ~TakeEvent
    BY <2>1 DEF TakeEvent, RequestStep
  <2>. QED BY <2>3, <2>4, <2>5, <2>6, <2>7, <2>8 DEF RequestThread
<1>2. GazerInv /\ [Next]_vars => [Handled => Right]_vars
  BY <1>1
<1>. QED BY <1>2, Invariant, PTL DEF Spec, CountedByConfig

-----------------------------------------------------------------------------
(* What the watcher knows. *)

\* A config that is filtered once is filtered.
LEMMA OwnOnce ==
    ASSUME NEW c \in Config
    PROVE  Own(Own(c)) = Own(c)
BY DEF Own, Config

\* A process whose file is written in place watches it, and knows its own points.
Watched ==
    /\ Up /\ ~mounted => watching
    /\ OwnPointsOnly

\* The steps of Gazer that are the watcher's.
LEMMA WatcherMoves ==
    ASSUME [Next]_vars
    PROVE  Boot \/ WatcherThread \/ Writer \/ UNCHANGED watcherVars
BY DEF Next, vars, WatcherSteps, Restart, RequestThread, TakeEvent, FindSender, TakeSender,
       FindReceiver, TakeReceiver, RequestGoes, DropEvent, Count, KubeThread, LookForPods,
       AskForPod, EndKubeRound, KubeAnswers, BacklogThread, ReadItems, ClearGauge, ZeroPods,
       FindRow, SetRow, EndBacklogRound, DrainHistogram, EndRound, BacklogGoes, KernelSample

LEMMA WatchedStays ==
    ASSUME GazerInv, Watched, [Next]_vars
    PROVE  Watched' /\ (~mounted /\ Up /\ Up' /\ (Caught \/ CloseWrite) => Caught')
<1>0. /\ WatcherTypeOK /\ (watcher = "filter" => config # None)
  BY DEF GazerInv, TypeOK, Quiet
<1>1. file # None => file \in Config
  BY <1>0, ConfigAssumption DEF WatcherTypeOK
<1>2. CASE Boot
  BY <1>1, <1>2, OwnOnce DEF Watched, OwnPointsOnly, Boot, ReadAll, Up
<1>3. CASE AddWatch
  BY <1>3 DEF Watched, OwnPointsOnly, AddWatch, Up
<1>4. CASE ReadConfig
  <2>1. Watched'
    BY <1>4 DEF Watched, OwnPointsOnly, ReadConfig, Up
  <2>2. Caught'
    BY <1>4 DEF Caught, ReadConfig
  <2>. QED BY <2>1, <2>2
<1>5. CASE FilterConfig
  <2>1. config \in Config
    BY <1>0, <1>5 DEF WatcherTypeOK, FilterConfig
  <2>2. Watched'
    BY <1>5, <2>1, OwnOnce DEF Watched, OwnPointsOnly, FilterConfig, Up
  <2>3. Caught => Caught'
    BY <1>5, <2>1 DEF Caught, FilterConfig
  <2>. QED BY <1>5, <2>2, <2>3 DEF CloseWrite, FilterConfig
<1>6. CASE Swap
  BY <1>6 DEF Watched, OwnPointsOnly, Swap, Up
<1>7. CASE Truncate
  BY <1>7 DEF Watched, OwnPointsOnly, Truncate, Up, Caught
<1>8. CASE CloseWrite
  BY <1>8 DEF Watched, OwnPointsOnly, CloseWrite, Up, Caught
<1>9. CASE UNCHANGED watcherVars
  BY <1>9 DEF Watched, OwnPointsOnly, watcherVars, Up, Caught, CloseWrite
<1>. QED
  BY <1>2, <1>3, <1>4, <1>5, <1>6, <1>7, <1>8, <1>9, WatcherMoves DEF WatcherThread, Writer

LEMMA AlwaysWatched == Spec => []Watched
<1>1. Init => Watched
  BY OwnOnce, ConfigAssumption
     DEF Init, WatcherInit, ReadAll, Watched, OwnPointsOnly, Up
<1>2. GazerInv /\ Watched /\ [Next]_vars => Watched'
  BY WatchedStays
<1>. QED BY <1>1, <1>2, Invariant, PTL DEF Spec

\* read_config (config.py:19) leaves the points of this node and the services, and
\* no others but between its two assignments.
THEOREM KnowsOwnPoints == Spec => []OwnPointsOnly
<1>1. Watched => OwnPointsOnly
  BY DEF Watched
<1>. QED BY <1>1, AlwaysWatched, PTL

\* Outside a cluster, where the file is written in place, no write that the watch of
\* config.py:34 saw is lost, however writes, notices and reads interleave.
THEOREM NoNoticeIsLost == Spec => NoticesKept
<1>1. GazerInv /\ Watched /\ [Next]_vars =>
        [~mounted /\ Up /\ Up' /\ (Caught \/ CloseWrite) => Caught']_watcherVars
  BY WatchedStays
<1>. QED BY <1>1, Invariant, AlwaysWatched, PTL DEF Spec, NoticesKept
=============================================================================
