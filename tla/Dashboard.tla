----------------------------- MODULE Dashboard -----------------------------
(***************************************************************************)
(* The service graph: ui/src/pages/dashboard.tsx, on the query cache       *)
(* (QueryClient).                                                          *)
(*                                                                         *)
(* Three queries feed it, each of what the one before it has: the scores   *)
(* of Sherlock, the services (the inspectors of all namespaces, with these *)
(* scores) and the requests between services that Gazer has counted.  The  *)
(* key of the second is made of the whole result of the first, with its    *)
(* status and its times: each change that useQuery tells, also that a      *)
(* fetch begins or has to be tried again, makes a key that no query had.   *)
(* What is fetched for earlier keys goes nowhere, so "queries" has, under  *)
(* Services, the entry of the present key.                                 *)
(*                                                                         *)
(* A service is its name: inspectors of one name in two namespaces are one *)
(* node.  A score counts hundredths.  Drawing, and the width of a link,    *)
(* which tells the rate, are left out; a rate of zero is no call.          *)
(***************************************************************************)
EXTENDS Integers, QueryClient

CONSTANTS
    ServiceNames,
    Scores,    \* what Sherlock's gauge may say, in hundredths
    NoScore,   \* it says nothing of a service, or NaN
    Clusters,  \* which inspectors there may be
    Gauges,    \* what the gauge may be
    Exchanges  \* who may call whom

ASSUME DashboardAssumption ==
    /\ Scores \subseteq Int /\ NoScore \notin Int
    /\ Clusters \subseteq SUBSET ServiceNames /\ \A names \in SUBSET ServiceNames : names # None
    /\ Gauges \subseteq [ServiceNames -> Scores \cup {NoScore}]
    /\ Exchanges \subseteq SUBSET (ServiceNames \X ServiceNames)

VARIABLES
    inspected,  \* the cluster: the inspectors there are
    gauge,      \* Prometheus: anomaly_score
    calls,      \*   and request_exchanges_total
    queries,    \* the entries of the three queries
    graph,      \* data: the nodes with their anomalyScore, and the links
    calm        \* from now on nothing changes and no fetch fails

server == <<inspected, gauge, calls>>
dashboardVars == <<server, queries, graph, calm>>

AnomalyScore == <<"anomaly_score">>
ServicesQuery == <<"services", "anomaly_score">>
RequestExchanges == <<"request_exchanges">>

-----------------------------------------------------------------------------
(* What the page computes.  An anomalyScore is told in percent. *)

Clamp(num, min, max) ==
    LET least == IF num < min THEN min ELSE num IN
    IF least > max THEN max ELSE least

\* normlize: from 0.1 to 0.3.
Normalize(val) == Clamp((val - 10) * 5, 0, 100)

\* anomaly_score.data[name] || -1
ScoreOf(scores, n) == IF scores[n] \in {NoScore, 0} THEN -100 ELSE scores[n]

ServiceData(names, scores) == [n \in names |-> Normalize(ScoreOf(scores, n))]

\* Seeded defect: the answer is not filtered.
AllCalls(names) == calls

Among(names) == {c \in calls : c[1] \in names /\ c[2] \in names}

GraphOf(q) == [nodes |-> DataOf(q, ServicesQuery), links |-> DataOf(q, RequestExchanges)]
NoGraph == [nodes |-> <<>>, links |-> {}]

-----------------------------------------------------------------------------
(* Rendering. *)

ServicesEnabled(q) == DataOf(q, AnomalyScore) # None

\* Seeded defect: without "enabled".
ExchangesNotGuarded(q) == TRUE

ExchangesEnabled(q) == DataOf(q, ServicesQuery) # None

\* Seeded defect: the key of the services does not tell the scores.
RekeyedOnce(q) ==
    IF ServicesQuery \in DOMAIN q THEN q
    ELSE FetchIf(ServicesEnabled(q), q, ServicesQuery, DataOf(q, AnomalyScore))

\* The result of the scores has changed: the services have another key.
Rekeyed(q) ==
    FetchIf(ServicesEnabled(q), Put(q, ServicesQuery, Blank),
            ServicesQuery, DataOf(q, AnomalyScore))

FetchExchanges(condition, q) ==
    LET data == DataOf(q, ServicesQuery) IN
    FetchIf(condition, q, RequestExchanges, IF data = None THEN None ELSE DOMAIN data)

\* The page is rendered with these entries; the requests are fetched when the
\* services have come, and the effect makes the graph of what is there.
Render(q) ==
    LET q1 == FetchExchanges(ExchangesEnabled(q) /\ ~ExchangesEnabled(queries), q) IN
    /\ queries' = q1
    /\ graph' = IF ExchangesEnabled(q1) /\ DataOf(q1, RequestExchanges) # None
                THEN GraphOf(q1) ELSE graph

DashboardInit ==
    /\ inspected \in Clusters /\ gauge \in Gauges /\ calls \in Exchanges
    /\ calm = FALSE
    /\ queries = Fetch(<<>>, AnomalyScore, None)
    /\ graph = NoGraph

-----------------------------------------------------------------------------
(* Answers. *)

ReceiveScores ==
    /\ IsFetching(queries, AnomalyScore)
    /\ Render(Rekeyed(Resolve(queries, AnomalyScore, gauge)))
    /\ UNCHANGED <<server, calm>>

ReceiveServiceData ==
    /\ IsFetching(queries, ServicesQuery)
    /\ Render(Resolve(queries, ServicesQuery,
                      ServiceData(inspected, queries[ServicesQuery].fetch.closure)))
    /\ UNCHANGED <<server, calm>>

\* The answer is filtered by the services that the page had when it asked.
ReceiveExchanges ==
    /\ IsFetching(queries, RequestExchanges)
    /\ Render(Resolve(queries, RequestExchanges, Among(queries[RequestExchanges].fetch.closure)))
    /\ UNCHANGED <<server, calm>>

\* An attempt to fetch the scores fails, and the next one follows, or none does.
ScoresFail ==
    /\ ~calm /\ IsFetching(queries, AnomalyScore)
    /\ \/ Render(Rekeyed(queries))
       \/ Render(Rekeyed(Reject(queries, AnomalyScore)))
    /\ UNCHANGED <<server, calm>>

OthersFail(key) ==
    /\ ~calm /\ key # AnomalyScore /\ IsFetching(queries, key)
    /\ Render(Reject(queries, key))
    /\ UNCHANGED <<server, calm>>

-----------------------------------------------------------------------------
(* Timers and the user. *)

\* refetchInterval
ScoresInterval ==
    /\ ~IsFetching(queries, AnomalyScore)
    /\ Render(Rekeyed(Fetch(queries, AnomalyScore, None)))
    /\ UNCHANGED <<server, calm>>

ExchangesInterval ==
    /\ ExchangesEnabled(queries) /\ ~IsFetching(queries, RequestExchanges)
    /\ Render(FetchExchanges(TRUE, queries))
    /\ UNCHANGED <<server, calm>>

\* The window gets the focus: what is enabled is fetched, before the page renders.
FocusDashboard ==
    LET q1 == Fetch(queries, AnomalyScore, None)
        q2 == FetchIf(ServicesEnabled(queries), q1, ServicesQuery, DataOf(queries, AnomalyScore))
        q3 == FetchExchanges(ExchangesEnabled(queries), q2)
    IN  /\ q3 # queries
        /\ Render(IF IsFetching(queries, AnomalyScore) THEN q3 ELSE Rekeyed(q3))
        /\ UNCHANGED <<server, calm>>

-----------------------------------------------------------------------------
(* The cluster, Sherlock and Gazer. *)

ServerChanges ==
    /\ ~calm
    /\ \/ inspected' \in Clusters /\ UNCHANGED <<gauge, calls>>
       \/ gauge' \in Gauges /\ UNCHANGED <<inspected, calls>>
       \/ calls' \in Exchanges /\ UNCHANGED <<inspected, gauge>>
    /\ UNCHANGED <<queries, graph, calm>>

Calm == ~calm /\ calm' = TRUE /\ UNCHANGED <<server, queries, graph>>

Failures == ScoresFail \/ \E key \in {ServicesQuery, RequestExchanges} : OthersFail(key)

DashboardNext ==
    \/ ReceiveScores \/ ReceiveServiceData \/ ReceiveExchanges \/ Failures
    \/ ScoresInterval \/ ExchangesInterval \/ FocusDashboard
    \/ ServerChanges \/ Calm

\* The browser's timer fires every five minutes, and every fetch comes to an end.
DashboardFairness ==
    /\ WF_dashboardVars(ReceiveScores \/ ScoresFail)
    /\ WF_dashboardVars(ReceiveServiceData \/ OthersFail(ServicesQuery))
    /\ WF_dashboardVars(ReceiveExchanges \/ OthersFail(RequestExchanges))
    /\ WF_dashboardVars(ScoresInterval)

DashboardSpec == DashboardInit /\ [][DashboardNext]_dashboardVars /\ DashboardFairness

-----------------------------------------------------------------------------
(* Properties. *)

DashboardTypeOK ==
    /\ inspected \in Clusters /\ gauge \in Gauges /\ calls \in Exchanges
    /\ DOMAIN graph.nodes \subseteq ServiceNames
    /\ \A n \in DOMAIN graph.nodes : graph.nodes[n] \in 0 .. 100
    /\ graph.links \subseteq ServiceNames \X ServiceNames
    /\ IsFetching(queries, RequestExchanges) =>
        LET names == queries[RequestExchanges].fetch.closure
        IN  names # None /\ names \subseteq ServiceNames

\* The services that the page has were scored by the scores it has.
ScoresAreCurrent ==
    ExchangesEnabled(queries) =>
        LET services == DataOf(queries, ServicesQuery) IN
        services = ServiceData(DOMAIN services, DataOf(queries, AnomalyScore))

\* The graph tells what is there: each service, that it is healthy when its score
\* is at most 0.1 or there is none, worse with a higher score, worst from 0.3; and
\* the calls between services, none of which leads nowhere.
GraphIsTrue ==
    /\ DOMAIN graph.nodes = inspected
    /\ \A n \in inspected :
        /\ graph.nodes[n] = 0 <=> gauge[n] = NoScore \/ gauge[n] <= 10
        /\ graph.nodes[n] = 100 <=> gauge[n] # NoScore /\ gauge[n] >= 30
    /\ \A n, m \in inspected :
        gauge[n] # NoScore /\ gauge[m] # NoScore /\ gauge[n] <= gauge[m] =>
            graph.nodes[n] <= graph.nodes[m]
    /\ graph.links = {c \in calls : {c[1], c[2]} \subseteq inspected}

\* Once nothing changes and no fetch fails, the graph comes to tell what is there
\* and does so for good, although each of its queries may have been answered with
\* what another one had before.
GraphSettles == <>calm => <>[]GraphIsTrue

\* The entries of the queries have, and wait for, what is there now.
CaughtUp(q) ==
    LET services == EntryOf(q, ServicesQuery)
        exchanges == EntryOf(q, RequestExchanges)
    IN  /\ DataOf(q, AnomalyScore) = gauge
        /\ services.data # None => DOMAIN services.data = inspected
        /\ exchanges.data = Among(inspected)
        /\ exchanges.fetch # None => exchanges.fetch.closure = inspected

UpToDate ==
    /\ calm
    /\ CaughtUp(queries)
    /\ graph = [nodes |-> ServiceData(inspected, gauge), links |-> Among(inspected)]

\* The safety half of GraphSettles: a page that is up to date draws the truth for
\* good, although every refetch makes the services' entry blank again, and with it
\* the requests wait for other services.
GraphStays == [](UpToDate => []GraphIsTrue)
=============================================================================
