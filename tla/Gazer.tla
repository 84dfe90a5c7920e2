-------------------------------- MODULE Gazer --------------------------------
(***************************************************************************)
(* gazer/gazer.py: a Gazer process.  Three threads turn what the probes    *)
(* and the Kubernetes API tell into metrics: one takes the TCP events, one *)
(* asks for CPU and memory every 40 s, one exports the backlog histogram   *)
(* every 5 s.  Each looks at config_watcher.config as it goes along, once  *)
(* for every use, while the watcher's thread replaces the object.          *)
(*                                                                         *)
(* What an exception does is part of each thread: it is lost with the      *)
(* event in a perf-buffer callback, it ends the thread of poll_kube_api,   *)
(* and it ends the round of poll_syn_backlog.                              *)
(* Not covered: the values of durations, bytes, CPU and memory, the        *)
(* console, an exception inside prometheus_client.                         *)
(***************************************************************************)
EXTENDS ConfigWatcher, Naturals, FiniteSets

CONSTANTS
    Ports,      \* ports that accept connections
    Slots,      \* levels of the backlog histogram, of which 1 and 2 are always told
    Rows,       \* the rows that the histogram may get: address, port and level
    MaxSamples  \* bound on a counter of the histogram

ASSUME GazerAssumption ==
    /\ Slots \subseteq Nat
    /\ Rows \subseteq Addrs \X Ports \X Slots
    /\ MaxSamples \in Nat

VARIABLES
    request,  \* the event that ipv4_request_event handles
    counted,  \* what the last handled event added to: its sender and receiver
    seen,     \* the configs that there were since the event was taken (for the
              \*   properties only: no guard looks at it)
    kube,     \* poll_kube_api; "asked" while a request to the metrics server is out
    usage,    \* the series whose CPU and memory gauges this round has set
    poll,     \* poll_syn_backlog
    samples,  \* the kernel's histogram: [Rows -> Nat]
    backlog   \* the gauge: [Gauges -> Nat \cup {None}]

requestVars == <<request, counted, seen>>
kubeVars == <<kube, usage>>
backlogVars == <<poll, samples, backlog>>
vars == <<watcherVars, requestVars, kubeVars, backlogVars>>

Gauges == Series \X Slots
NoSamples == [r \in Rows |-> 0]
NoBacklog == [g \in Gauges |-> None]

Waiting == [pc |-> "poll", from |-> None, to |-> None, pod |-> None]
Looking == [pc |-> "look", pods |-> {}, pod |-> None]
Sleeping == [pc |-> "items", data |-> NoSamples, rows |-> {}, row |-> None]

Nothing == [sender |-> None, receiver |-> None]

\* The threads as they are when the process starts.
ThreadsInit ==
    /\ request = Waiting
    /\ counted = Nothing
    /\ seen = {}
    /\ kube = Looking
    /\ usage = {}
    /\ poll = Sleeping
    /\ samples = NoSamples
    /\ backlog = NoBacklog

Init == WatcherInit /\ ThreadsInit

\* config_watcher.config as it is now: a lookup in None, or of a key that is not
\* there, raises an exception.
Has(a) == config # None /\ config[a] # None

\* The series of the pods that are tracked now.
TrackedPods == {config[a].series : a \in {b \in Addrs : Has(b) /\ ~config[b].isService}}

-----------------------------------------------------------------------------
(* ipv4_request_event. *)

RequestStep(pc) == Up /\ request.pc = pc

RequestGoes(next) ==
    /\ request' = next
    /\ UNCHANGED <<watcherVars, counted, seen, kubeVars, backlogVars>>

TakeEvent ==
    /\ RequestStep("poll")
    /\ \E from, to \in Addrs :
        request' = [Waiting EXCEPT !.pc = "from", !.from = from, !.to = to]
    /\ seen' = {config}
    /\ UNCHANGED <<watcherVars, counted, kubeVars, backlogVars>>

\* The event is dropped: an exception, or an address that is not tracked.
DropEvent ==
    /\ request' = Waiting
    /\ counted' = Nothing
    /\ seen' = {}
    /\ UNCHANGED <<watcherVars, kubeVars, backlogVars>>

FindSender ==
    /\ RequestStep("from")
    /\ IF Has(request.from) THEN RequestGoes([request EXCEPT !.pc = "sender"]) ELSE DropEvent

TakeSender ==
    /\ RequestStep("sender")
    /\ IF Has(request.from)
       THEN RequestGoes([request EXCEPT !.pc = "to", !.pod = config[request.from]])
       ELSE DropEvent

\* Seeded defect: the sender's whole entry stands for its series.
CountWhole(receiver) ==
    /\ request' = Waiting
    /\ counted' = [sender |-> request.pod, receiver |-> receiver]
    /\ seen' = {}
    /\ UNCHANGED <<watcherVars, kubeVars, backlogVars>>

Count(receiver) ==
    /\ request' = Waiting
    /\ counted' = [sender |-> request.pod.series, receiver |-> receiver]
    /\ seen' = {}
    /\ UNCHANGED <<watcherVars, kubeVars, backlogVars>>

FindReceiver ==
    /\ RequestStep("to")
    /\ IF config = None THEN DropEvent
       ELSE IF Has(request.to) THEN RequestGoes([request EXCEPT !.pc = "receiver"])
       ELSE Count(None)

\* Seeded defect: the second lookup is not checked for what it finds.
TakeAnyReceiver ==
    /\ RequestStep("receiver")
    /\ IF Has(request.to) THEN Count(config[request.to].series) ELSE DropEvent

\* An event for a tracked pod, not a service, is not counted at all.
TakeReceiver ==
    /\ RequestStep("receiver")
    /\ IF Has(request.to) /\ config[request.to].isService
       THEN Count(config[request.to].series)
       ELSE DropEvent

RequestThread == TakeEvent \/ FindSender \/ TakeSender \/ FindReceiver \/ TakeReceiver

-----------------------------------------------------------------------------
(* poll_kube_api. *)

KubeStep(pc) == Up /\ kube.pc = pc

\* The values of the config at this moment; None has none, and nothing catches
\* that exception.
LookForPods ==
    /\ KubeStep("look")
    /\ kube' = IF config = None THEN [Looking EXCEPT !.pc = "dead"]
               ELSE [Looking EXCEPT !.pc = "each", !.pods = {config[a] : a \in Addrs} \ {None}]
    /\ usage' = {}
    /\ UNCHANGED <<watcherVars, requestVars, backlogVars>>

\* The next entry: a service is passed over, for a pod the request is sent.
AskForPod(p) ==
    /\ KubeStep("each")
    /\ p \in kube.pods
    /\ \/ p.isService /\ kube' = [kube EXCEPT !.pods = @ \ {p}]
       \/ ~p.isService /\ kube' = [pc |-> "asked", pods |-> kube.pods \ {p}, pod |-> p]
    /\ UNCHANGED <<watcherVars, requestVars, usage, backlogVars>>

\* Seeded defect: a failed request is not caught.
KubeAnswersUncaught ==
    /\ KubeStep("asked")
    /\ \/ /\ kube' = [kube EXCEPT !.pc = "each", !.pod = None]
          /\ usage' = usage \cup {kube.pod.series}
       \/ kube' = [Looking EXCEPT !.pc = "dead"] /\ usage' = usage
    /\ UNCHANGED <<watcherVars, requestVars, backlogVars>>

\* The metrics server tells the usage, or the request fails or is answered with
\* something else, and that is caught.  Nothing but this ends the wait for it.
KubeAnswers ==
    /\ KubeStep("asked")
    /\ kube' = [kube EXCEPT !.pc = "each", !.pod = None]
    /\ usage' \in {usage, usage \cup {kube.pod.series}}
    /\ UNCHANGED <<watcherVars, requestVars, backlogVars>>

EndKubeRound ==
    /\ KubeStep("each")
    /\ kube.pods = {}
    /\ kube' = Looking
    /\ UNCHANGED <<watcherVars, requestVars, usage, backlogVars>>

KubeThread == LookForPods \/ (\E p \in Point : AskForPod(p)) \/ EndKubeRound

-----------------------------------------------------------------------------
(* poll_syn_backlog. *)

BacklogStep(pc) == Up /\ poll.pc = pc

BacklogGoes(next, gauge) ==
    /\ poll' = next
    /\ backlog' = gauge
    /\ UNCHANGED <<watcherVars, requestVars, kubeVars, samples>>

\* Seeded defect: an exception ends the thread.
EndThread == BacklogGoes([Sleeping EXCEPT !.pc = "dead"], backlog)

\* An exception: the rest of the round is skipped.
EndRound == BacklogGoes(Sleeping, backlog)

ReadItems ==
    /\ BacklogStep("items")
    /\ BacklogGoes([Sleeping EXCEPT !.pc = "clear", !.data = samples,
                        !.rows = {r \in Rows : samples[r] > 0}], backlog)

ClearGauge ==
    /\ BacklogStep("clear")
    /\ BacklogGoes([poll EXCEPT !.pc = "zero"], NoBacklog)

\* Seeded defect: services are set to zero as well.
ZeroAll ==
    /\ BacklogStep("zero")
    /\ IF config = None THEN EndRound
       ELSE BacklogGoes([poll EXCEPT !.pc = "rows"],
                [g \in Gauges |->
                    IF g[2] \in {1, 2} /\ \E a \in Addrs : Has(a) /\ config[a].series = g[1]
                    THEN 0 ELSE backlog[g]])

\* Every pod that is tracked now gets a zero for the levels 1 and 2.
ZeroPods ==
    /\ BacklogStep("zero")
    /\ IF config = None THEN EndRound
       ELSE BacklogGoes([poll EXCEPT !.pc = "rows"],
                [g \in Gauges |->
                    IF g[1] \in TrackedPods /\ g[2] \in {1, 2} THEN 0 ELSE backlog[g]])

\* A row of the histogram: first whether its address is tracked ...
FindRow ==
    /\ BacklogStep("rows")
    /\ \E r \in poll.rows :
        IF config = None THEN EndRound
        ELSE BacklogGoes([poll EXCEPT !.rows = @ \ {r}, !.row = r,
                                      !.pc = IF Has(r[1]) THEN "row" ELSE "rows"], backlog)

\* ... then whose it is.  Rows of two ports set the same gauge, one by one.
SetRow ==
    /\ BacklogStep("row")
    /\ IF ~Has(poll.row[1]) THEN EndRound
       ELSE BacklogGoes([poll EXCEPT !.pc = "rows"],
                [backlog EXCEPT ![<<config[poll.row[1]].series, poll.row[3]>>] = poll.data[poll.row]])

EndBacklogRound ==
    /\ BacklogStep("rows")
    /\ poll.rows = {}
    /\ BacklogGoes([poll EXCEPT !.pc = "drain"], backlog)

\* The histogram is cleared, with what was counted since it was read.
DrainHistogram ==
    /\ BacklogStep("drain")
    /\ poll' = Sleeping
    /\ samples' = NoSamples
    /\ UNCHANGED <<watcherVars, requestVars, kubeVars, backlog>>

BacklogThread ==
    \/ ReadItems \/ ClearGauge \/ ZeroPods \/ FindRow \/ SetRow
    \/ EndBacklogRound \/ DrainHistogram

\* The kernel's probe counts a sample.
KernelSample(r) ==
    /\ Up
    /\ samples[r] < MaxSamples
    /\ samples' = [samples EXCEPT ![r] = @ + 1]
    /\ UNCHANGED <<watcherVars, requestVars, kubeVars, poll, backlog>>

-----------------------------------------------------------------------------
(* The process. *)

WatcherSteps ==
    /\ WatcherThread \/ Writer
    /\ seen' = IF request.pc = "poll" THEN {} ELSE seen \cup {config'}
    /\ UNCHANGED <<request, counted, kubeVars, backlogVars>>

\* The process starts over, its probes and metrics with it.
Restart ==
    /\ Boot
    /\ request' = Waiting /\ counted' = Nothing /\ seen' = {}
    /\ kube' = Looking /\ usage' = {}
    /\ poll' = Sleeping /\ samples' = NoSamples /\ backlog' = NoBacklog

Next ==
    \/ WatcherSteps \/ Restart
    \/ RequestThread \/ KubeThread \/ KubeAnswers \/ BacklogThread
    \/ \E r \in Rows : KernelSample(r)

Spec == Init /\ [][Next]_vars

\* Python runs every thread of a process that can go on, and nothing starves.
\* That each request to the metrics server is answered or fails in the end is
\* assumed of that server and the network: requests.get is given no timeout.
FairSpec ==
    /\ Spec
    /\ WF_vars(WatcherSteps /\ WatcherThread)
    /\ WF_vars(RequestThread) /\ WF_vars(KubeThread) /\ WF_vars(BacklogThread)
    /\ WF_vars(KubeAnswers)

-----------------------------------------------------------------------------
(* Properties. *)

RequestState ==
    [pc : {"poll", "from", "sender", "to", "receiver"},
     from : Addrs \cup {None}, to : Addrs \cup {None}, pod : Point \cup {None}]
Counted == [sender : Series \cup {None}, receiver : Series \cup {None}]
KubeState ==
    [pc : {"look", "each", "dead"}, pods : SUBSET Point, pod : {None}]
        \cup [pc : {"asked"}, pods : SUBSET Point, pod : Point]
PollState ==
    [pc : {"items", "clear", "zero", "rows", "row", "drain"},
     data : [Rows -> 0 .. MaxSamples], rows : SUBSET Rows, row : Rows \cup {None}]

TypeOK ==
    /\ WatcherTypeOK
    /\ request \in RequestState
    /\ counted \in Counted
    /\ seen \subseteq Config \cup {None}
    /\ kube \in KubeState
    /\ usage \subseteq Series
    /\ poll \in PollState
    /\ samples \in [Rows -> 0 .. MaxSamples]
    /\ backlog \in [Gauges -> (0 .. MaxSamples) \cup {None}]

\* What an event adds to when its sender is looked up in the config c and its
\* receiver in d: nothing unless the sender is tracked, and nothing between two
\* tracked pods.
CountedBy(c, d, from, to) ==
    IF c = None \/ d = None THEN Nothing
    ELSE IF c[from] = None THEN Nothing
    ELSE IF d[to] = None THEN [sender |-> c[from].series, receiver |-> None]
    ELSE IF ~d[to].isService THEN Nothing
    ELSE [sender |-> c[from].series, receiver |-> d[to].series]

Handled == Up /\ request.pc # "poll" /\ request' = Waiting /\ watcher' # "boot"

\* The handler looks its event up four times while the config may be replaced.  It
\* counts the event whole, each address for an entry that it had meanwhile, or not
\* at all; and an event that each config would count is lost only when the config
\* has been another one.
CountedByConfig ==
    [][Handled =>
        \/ \E c, d \in seen : counted' = CountedBy(c, d, request.from, request.to)
        \/ counted' = Nothing /\ seen # {config}]_vars

\* The histogram's poller goes on, also when there is no config to look at.
BacklogPollsOn == []<>(poll.pc = "items")

\* The poller of the Kubernetes API goes on as long as there is a config,
\* whichever requests fail, and provided that none is left without an answer.
KubePollsOn ==
    [](config # None) => []<>(kube.pc = "look")

\* A round that ends has told, for each tracked series and level, the count of
\* one of its ports that have one; without one it told zero for a pod's levels
\* 1 and 2, and nothing otherwise.  What an earlier round told is gone.
RoundTellsBacklog ==
    mounted /\ Up /\ poll.pc = "drain" =>
        \A g \in Gauges :
            LET counts == {poll.data[r] : r \in {q \in Rows :
                    q[3] = g[2] /\ Has(q[1]) /\ config[q[1]].series = g[1]}} \ {0}
            IN
            \/ backlog[g] \in counts
            \/ counts = {} /\ backlog[g] = IF g[1] \in TrackedPods /\ g[2] \in {1, 2} THEN 0 ELSE None

\* "Gazer should poll the Kubernetes metric server periodically" (documentation/
\* thesis/chapters/appendix/requirements-evaluation.tex:15, FR08).
PollsPeriodically == []<>(kube.pc = "look")
=============================================================================
