----------------------------- MODULE MCConsole -----------------------------
(***************************************************************************)
(* A small instance of Settings and of Dashboard for TLC.  The pages of    *)
(* App.tsx share the query cache but none of its keys, and one of them is  *)
(* open at a time: a behaviour of the instance is about one page, and      *)
(* about one kind of trouble there (its scenario).                         *)
(***************************************************************************)
EXTENDS Settings, Dashboard, TLC

\* Two namespaces with a deployment of the same name and services of their own.
TwoNamespaces == {"a", "b"}
Deployed == [n \in TwoNamespaces |-> IF n = "a" THEN <<"web">> ELSE <<"web", "db">>]
Serving == [n \in TwoNamespaces |-> IF n = "a" THEN {"sa"} ELSE {"sb"}]

\* Inspectors come and go in one of them.
OneInspector == [n \in TwoNamespaces |-> IF n = "a" THEN 1 ELSE 0]

Texts ==
    {"", "a", "b", "web", "db", "sa", "sb", "0/1", "1/1", "Running", "N/A", "true", "false",
     "undefined"}
Alphabet ==
    [t \in Texts |-> CASE t = "db" -> 1 [] t = "false" -> 2 [] t = "true" -> 3
                       [] t \in {"web", "1/1", "Running"} -> 4 [] OTHER -> 0]
Found == [q \in {"", "db"} |-> IF q = "" THEN Texts ELSE {"db"}]

\* A service is always there and calls another one, which is not; it is healthy
\* while nothing is known of the other, or worse, while the other is worst.
OneCall == {{}, {<<"a", "b">>}}
TwoClusters == {{"a"}, {"a", "b"}}
TwoGauges ==
    {[n \in {"a", "b"} |-> IF n = "a" THEN 5 ELSE NoScore],
     [n \in {"a", "b"} |-> IF n = "a" THEN 20 ELSE 40]}

-----------------------------------------------------------------------------

VARIABLE scenario

\* Entries that nobody uses are kept for a while in some of them.
Unused ==
    {k \in DOMAIN cache : k \notin InUse(cache, selected, table) /\ ~IsFetching(cache, k)}

Only(s, steps) == scenario = s /\ steps

Answered ==
    \/ OpenSettings
    \/ \E n \in Namespaces : AnswerInspectors(n) \/ ReceiveInspectors(n)
    \/ \E key \in DOMAIN cache : ReceiveDeployments(key)
    \/ ReceiveNamespaces \/ RefetchDeployments
Failing ==
    \/ \E n \in Namespaces : RefuseInspectors(n)
    \/ \E key \in DOMAIN cache : FetchFails(key)
    \/ RefetchNamespaces
Sorting ==
    \/ \E field \in {"name", "ready"} : Sort(field)
    \/ \E value \in Queries : Search(value)
Opening == (\E m \in Monitors(table) : OpenMonitor(m)) \/ CloseMonitor \/ ReceiveServices
Editing ==
    \/ \E name \in Names, endpoint \in Offered : Submit(name, endpoint)
    \/ \E k \in DOMAIN table.sortedData : OpenConfirm(table.sortedData[k])
    \/ CancelConfirm \/ Confirm
    \/ Calls

\* The dashboard has no part in the other scenarios, nor the settings in its own.
SettingsStep ==
    /\ \/ Answered \/ Focus
       \/ scenario # "editing" /\ \E n \in Namespaces : SelectNamespace(n)
       \/ scenario \in {"reading", "editing"} /\ LeaveSettings
       \/ Only("failing", Failing \/ Kubectl)
       \/ Only("reading", Kubectl \/ Operator)
       \/ Only("sorting", Sorting \/ Replicas)
       \/ Only("opening", Opening)
       \/ Only("editing", Opening \/ Editing \/ Operator)
    /\ scenario \in {"failing", "sorting", "editing"} => Unused' = {}
    /\ UNCHANGED dashboardVars

DashboardStep == scenario = "graph" /\ DashboardNext /\ UNCHANGED vars

ConsoleInit ==
    /\ Init
    /\ DashboardInit
    /\ scenario \in {"reading", "failing", "sorting", "opening", "editing", "graph"}
    /\ scenario # "sorting" => \A n \in Namespaces, d \in Deployments : ready[n][d] = "1/1"
    /\ scenario # "graph" => inspected = {"a"} /\ calls = {} /\ gauge["a"] = 5

ConsoleNext ==
    /\ \/ scenario # "graph" /\ SettingsStep
       \/ DashboardStep
    /\ UNCHANGED scenario

ConsoleVars == <<vars, dashboardVars, scenario>>

\* DashboardFairness, in its scenario.
ConsoleSpec ==
    /\ ConsoleInit /\ [][ConsoleNext]_ConsoleVars
    /\ WF_dashboardVars(Only("graph", ReceiveScores \/ ScoresFail))
    /\ WF_dashboardVars(Only("graph", ReceiveServiceData \/ OthersFail(ServicesQuery)))
    /\ WF_dashboardVars(Only("graph", ReceiveExchanges \/ OthersFail(RequestExchanges)))
    /\ WF_dashboardVars(Only("graph", ScoresInterval))

-----------------------------------------------------------------------------
\* Every variable of both pages has its type: the rows of the table among them, and
\* the services by which the requests in flight will be filtered.
ConsoleTypeOK == TypeOK /\ DashboardTypeOK
=============================================================================
