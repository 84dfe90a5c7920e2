------------------------------ MODULE Settings ------------------------------
(***************************************************************************)
(* The settings page: ui/src/pages/settings.tsx with its table             *)
(* (DeploymentsTable) and the dialogues of its rows, modals/monitor.tsx    *)
(* and modals/unmonitor.tsx, on the query cache (QueryClient).             *)
(*                                                                         *)
(* The page has four queries.  The rows are made by the query of the       *)
(* deployments from what the query of the inspectors has: its key is made  *)
(* of the namespace and of the versions of these inspectors.  Every change *)
(* of the cache or of the namespace renders the page again, and what the   *)
(* render starts, mounts or unmounts belongs to the same step (Commit).    *)
(*                                                                         *)
(* The versions of objects are told by their contents.  What namespaces    *)
(* and services there are does not change, and of deployments only how     *)
(* many replicas are ready.  A user waits for the answer to a request to   *)
(* create or delete before making another one.  Notifications are told by  *)
(* the action that shows them.                                             *)
(***************************************************************************)
EXTENDS DeploymentsTable

CONSTANTS
    Namespaces,
    FirstNamespace,  \* "default"
    DeployedIn,      \* [Namespaces -> Seq(Text)]: the deployments, as they are listed
    ServicesIn,      \* [Namespaces -> SUBSET Text]
    Names,           \* what users call inspectors
    Ready,           \* what deployments say of their replicas
    Running,         \* the operator's word for the status
    NotAvailable,    \* "N/A"
    TRUEText, FALSEText, Undefined,  \* String(...) of what is not a text
    NotAList,        \* an answer that is not a list, but says why
    MaxInspectors,   \* [Namespaces -> Nat]: bound on the inspectors of a namespace
    MaxUnused,       \* bound on the unused entries that the cache keeps
    MaxLate          \* bound on the fetches in flight that nobody waits for any more

Deployments == UNION {{DeployedIn[n][i] : i \in DOMAIN DeployedIn[n]} : n \in Namespaces}
Services == UNION {ServicesIn[n] : n \in Namespaces}

ASSUME SettingsAssumption ==
    /\ FirstNamespace \in Namespaces /\ Namespaces \subseteq Text
    /\ DeployedIn \in [Namespaces -> Seq(Text)]
    /\ ServicesIn \in [Namespaces -> SUBSET Text]
    /\ Names \cup Ready \cup {Running, NotAvailable, TRUEText, FALSEText, Undefined} \subseteq Text
    /\ Ready # {} /\ TRUEText # FALSEText
    /\ MaxInspectors \in [Namespaces -> Nat] /\ MaxUnused \in Nat /\ MaxLate \in Nat
    /\ None \notin Namespaces

VARIABLES
    inspectors,  \* the cluster's: [Namespaces -> SUBSET Inspector]
    ready,       \* [Namespaces -> [Deployments -> Ready]]
    selected,    \* selectedNamespace, as long as the page is open
    cache,       \* the browser's query cache
    table,       \* the table on the page
    dialog,      \* the row whose Monitor dialogue is open
    confirm,     \* the inspector whose deletion is to be confirmed
    call,        \* the request to create or to delete that is in flight
    own,         \* history: the last inspector that this user has created, as long as
                 \*   it is there
    carried      \* history: the last fetch of the services was made for a namespace
                 \*   that was left before the answer came

cluster == <<inspectors, ready>>
page == <<selected, cache, table, carried>>
vars == <<cluster, page, dialog, confirm, call, own>>

Inspector ==
    [name : Names, deployment : Deployments, service : Services \cup {NoText},
     status : {NoText, Running}, deleting : BOOLEAN]

\* None is no inspector, and no fetch for a namespace, answered or not.
ASSUME NoneAssumption ==
    /\ None \notin Inspector
    /\ None \notin [closure : Namespaces, reply : {None, NotAList} \cup SUBSET Inspector]

-----------------------------------------------------------------------------
(* The queries of the page. *)

NamespacesKey == <<"namespaces">>
InspectorsKey(n) == <<"inspectors", n>>
ServicesKey == <<"services">>

\* getResourceVersions: nothing without a list.
Versions(items) == IF items \in {None, NotAList} THEN None ELSE items

\* Seeded defects: the key of the deployments lacks the namespace, or the versions.
DeploymentsKeyAnywhere(n, items) == <<"deployments", FirstNamespace, Versions(items)>>
DeploymentsKeyUnversioned(n, items) == <<"deployments", n, None>>

DeploymentsKey(n, items) == <<"deployments", n, Versions(items)>>

\* The key of the deployments that a render with this cache asks for.
CurrentKey(c, n) == DeploymentsKey(n, DataOf(c, InspectorsKey(n)))
Enabled(c, n) == IsSuccess(c, InspectorsKey(n))

\* What the function of that query sees of the page.
Closure(c, n) == [namespace |-> n, items |-> DataOf(c, InspectorsKey(n))]

\* inspectors.data.items.find: the list is in the order of the names.
Find(items, d) ==
    LET found == {i \in items : i.deployment = d} IN
    IF found = {} THEN None
    ELSE CHOOSE i \in found : \A j \in found : Place[i.name] <= Place[j.name]

Row(n, d, i) ==
    [name |-> d, ready |-> ready[n][d], namespace |-> n,
     serviceRef |-> IF i = None \/ i.service = NoText THEN NotAvailable ELSE i.service,
     status |-> IF i = None \/ i.status = NoText THEN NotAvailable ELSE i.status,
     monitored |-> IF i = None THEN FALSEText ELSE TRUEText,
     inspectorName |-> IF i = None THEN Undefined ELSE i.name]

RowsOf(n, items) ==
    [k \in DOMAIN DeployedIn[n] |-> Row(n, DeployedIn[n][k], Find(items, DeployedIn[n][k]))]

TableData == DataOf(cache, CurrentKey(cache, selected))

\* What the page shows.
View(c, n) ==
    CASE IsLoading(c, CurrentKey(c, n)) \/ IsLoading(c, NamespacesKey) -> "loader"
      [] ~IsLoading(c, CurrentKey(c, n)) /\ ~IsLoading(c, NamespacesKey) ->
            IF IsError(c, CurrentKey(c, n)) \/ IsError(c, NamespacesKey) THEN "error" ELSE "table"

-----------------------------------------------------------------------------
(* Rendering. *)

\* The fetches that a render with this cache and namespace starts: of a query that
\* has got another key, or has become enabled.
Observe(c, n) ==
    LET c0 == FetchIf(selected = None, c, NamespacesKey, None)
        c1 == FetchIf(n # selected, c0, InspectorsKey(n), n)
        changed == CurrentKey(c1, n) # CurrentKey(cache, selected)
    IN  FetchIf(Enabled(c1, n) /\ (changed \/ ~Enabled(cache, selected)),
                c1, CurrentKey(c1, n), Closure(c1, n))

\* The rows that have a Monitor button, which has the query of the services.
Monitors(t) ==
    {<<r.namespace, r.name>> : r \in {t.sortedData[i] : i \in
        {j \in DOMAIN t.sortedData : t.sortedData[j].monitored = FALSEText}}}

\* Seeded defect: what is cached is taken as it is.
AskServicesOnce(c, new) ==
    FetchIf(new # {} /\ DataOf(c, ServicesKey) = None,
            c, ServicesKey, (CHOOSE m \in new : TRUE)[1])

\* Buttons that are new on the page fetch the services, of the namespace of one.
AskServices(c, new) == FetchIf(new # {}, c, ServicesKey, (CHOOSE m \in new : TRUE)[1])

\* What of the cache is in use.
InUse(c, n, t) ==
    IF n = None THEN {}
    ELSE {NamespacesKey, InspectorsKey(n), CurrentKey(c, n)}
            \cup IF Monitors(t) = {} THEN {} ELSE {ServicesKey}

\* The table becomes t, with dialogue d.  The dialogue of a button that has gone is
\* gone.
Display(c, n, t, d) ==
    LET c1 == AskServices(c, Monitors(t) \ Monitors(table))
        idle == DOMAIN c1 \ InUse(c, n, t)
        late == {k \in idle : IsFetching(c1, k)}
    IN  /\ Cardinality(late) <= MaxLate
        /\ selected' = n
        /\ table' = t
        /\ dialog' = IF d \in Monitors(t) THEN d ELSE None
        /\ carried' = IF IsFetching(c1, ServicesKey) THEN c1[ServicesKey].fetch.closure # n
                      ELSE carried
        /\ \E kept \in SUBSET (idle \ late) :
            /\ Cardinality(kept) <= MaxUnused
            /\ cache' = Collected(c1, kept \cup InUse(c, n, t))

\* The page is rendered with this cache, this namespace and this dialogue.
CommitWith(c, n, d) ==
    LET c1 == Observe(c, n)
        data == DataOf(c1, CurrentKey(c1, n))
        t == IF View(c1, n) # "table" THEN Unmounted
             ELSE IF ~table.mounted THEN Mounted(data)
             ELSE IF data = TableData THEN table ELSE NewData(table, data)
    IN  IF n = None THEN Display(c, None, Unmounted, None) ELSE Display(c1, n, t, d)

Commit(c, n) == CommitWith(c, n, dialog)

Init ==
    /\ inspectors = [n \in Namespaces |-> {}]
    /\ ready \in [Namespaces -> [Deployments -> Ready]]
    /\ selected = None /\ cache = <<>>
    /\ table = Unmounted
    /\ dialog = None /\ confirm = None /\ call = None
    /\ own = None /\ carried = FALSE

-----------------------------------------------------------------------------
(* Fetches. *)

Unanswered(n) ==
    IsFetching(cache, InspectorsKey(n)) /\ cache[InspectorsKey(n)].fetch.reply = None

\* The API server answers the fetch of the inspectors with the list; the answer is
\* on its way.
AnswerInspectors(n) ==
    /\ Unanswered(n)
    /\ cache' = Reply(cache, InspectorsKey(n), inspectors[n])
    /\ UNCHANGED <<cluster, selected, table, carried, dialog, confirm, call, own>>

\* It, or the proxy, answers with an error.
RefuseInspectors(n) ==
    /\ Unanswered(n)
    /\ cache' = Reply(cache, InspectorsKey(n), NotAList)
    /\ UNCHANGED <<cluster, selected, table, carried, dialog, confirm, call, own>>

\* Whatever JSON it is, it is the data: the status of the answer is not looked at.
ReceiveInspectors(n) ==
    /\ IsFetching(cache, InspectorsKey(n))
    /\ cache[InspectorsKey(n)].fetch.reply # None
    /\ Commit(Resolve(cache, InspectorsKey(n), cache[InspectorsKey(n)].fetch.reply), selected)
    /\ UNCHANGED <<cluster, confirm, call, own>>

\* The rows are made of the answer and of the inspectors that the function closes
\* over, if these are a list or there are no deployments.
WithRows(key, seen) ==
    IF seen.items = NotAList /\ DeployedIn[seen.namespace] # <<>> THEN Reject(cache, key)
    ELSE Resolve(cache, key, RowsOf(seen.namespace, seen.items))

ReceiveDeployments(key) ==
    /\ key[1] = "deployments" /\ IsFetching(cache, key)
    /\ Commit(WithRows(key, cache[key].fetch.closure), selected)
    /\ UNCHANGED <<cluster, confirm, call, own>>

ReceiveNamespaces ==
    /\ IsFetching(cache, NamespacesKey)
    /\ Commit(Resolve(cache, NamespacesKey, Namespaces), selected)
    /\ UNCHANGED <<cluster, confirm, call, own>>

ReceiveServices ==
    /\ IsFetching(cache, ServicesKey)
    /\ LET offered == ServicesIn[cache[ServicesKey].fetch.closure]
       IN  Commit(Resolve(cache, ServicesKey, offered), selected)
    /\ UNCHANGED <<cluster, confirm, call, own>>

\* A fetch fails, or is answered with something that its function cannot read.
FetchFails(key) ==
    /\ IsFetching(cache, key)
    /\ Commit(Reject(cache, key), selected)
    /\ UNCHANGED <<cluster, confirm, call, own>>

\* The window gets the focus: the queries in use fetch again.
Focus ==
    LET c1 == FetchIf(selected # None, cache, InspectorsKey(selected), selected)
        c2 == FetchIf(Monitors(table) # {}, c1, ServicesKey, selected)
        c3 == FetchIf(selected # None /\ IsError(cache, NamespacesKey), c2, NamespacesKey, None)
        c4 == FetchIf(Enabled(cache, selected) /\ IsError(cache, CurrentKey(cache, selected)),
                      c3, CurrentKey(cache, selected), Closure(cache, selected))
    IN  /\ c4 # cache
        /\ Commit(c4, selected)
        /\ UNCHANGED <<cluster, confirm, call, own>>

\* The two queries that the page waits for fetch again as well.  As long as they
\* have data nothing shows that they do, until the answer comes or they fail.
RefetchDeployments ==
    LET key == CurrentKey(cache, selected) IN
    /\ Enabled(cache, selected) /\ IsSuccess(cache, key) /\ ~IsFetching(cache, key)
    /\ \/ Commit(WithRows(key, Closure(cache, selected)), selected)
       \/ Commit(Reject(cache, key), selected)
    /\ UNCHANGED <<cluster, confirm, call, own>>

RefetchNamespaces ==
    /\ selected # None /\ IsSuccess(cache, NamespacesKey)
    /\ Commit(Reject(cache, NamespacesKey), selected)
    /\ UNCHANGED <<cluster, confirm, call, own>>

-----------------------------------------------------------------------------
(* The user. *)

\* An open dialogue covers the page.
Uncovered == dialog = None /\ confirm = None

\* A link of the navigation bar, or the browser's history.  The state of the page
\* goes with it; what it fetched or asked for goes on.
OpenSettings ==
    /\ selected = None
    /\ Commit(cache, FirstNamespace)
    /\ UNCHANGED <<cluster, confirm, call, own>>

LeaveSettings ==
    /\ selected # None
    /\ Commit(cache, None)
    /\ UNCHANGED <<cluster, confirm, call, own>>

SelectNamespace(n) ==
    /\ table.mounted /\ Uncovered
    /\ n # selected
    /\ Commit(cache, n)
    /\ UNCHANGED <<cluster, confirm, call, own>>

Sort(field) ==
    /\ table.mounted /\ Uncovered
    /\ Display(cache, selected, SetSorting(table, TableData, field), dialog)
    /\ UNCHANGED <<cluster, confirm, call, own>>

Search(value) ==
    /\ table.mounted /\ Uncovered
    /\ value # table.search
    /\ Display(cache, selected, HandleSearchChange(table, TableData, value), dialog)
    /\ UNCHANGED <<cluster, confirm, call, own>>

\* Monitor opens its dialogue once it has fetched the services, or failed to.
OpenMonitor(m) ==
    /\ Uncovered
    /\ m \in Monitors(table)
    /\ ~IsLoading(cache, ServicesKey)
    /\ dialog' = m
    /\ UNCHANGED <<cluster, page, confirm, call, own>>

CloseMonitor ==
    /\ dialog # None
    /\ dialog' = None
    /\ UNCHANGED <<cluster, page, confirm, call, own>>

\* What the dialogue offers as endpoint; it may be left empty.
Offered == IF DataOf(cache, ServicesKey) = None THEN {} ELSE DataOf(cache, ServicesKey)

\* The form is submitted: POST.
Submit(name, endpoint) ==
    /\ dialog # None /\ call = None
    /\ ~IsLoading(cache, ServicesKey)
    /\ endpoint \in Offered \cup {NoText}
    /\ call' = [op |-> "create", namespace |-> dialog[1], name |-> name, reply |-> None,
                deployment |-> dialog[2], service |-> endpoint]
    /\ UNCHANGED <<cluster, page, dialog, confirm, own>>

\* Unmonitor asks for a confirmation.
OpenConfirm(row) ==
    /\ Uncovered
    /\ row.monitored # FALSEText
    /\ confirm' = [namespace |-> row.namespace, name |-> row.inspectorName]
    /\ UNCHANGED <<cluster, page, dialog, call, own>>

CancelConfirm ==
    /\ confirm # None
    /\ confirm' = None
    /\ UNCHANGED <<cluster, page, dialog, call, own>>

\* The deletion is confirmed: DELETE.
Confirm ==
    /\ confirm # None /\ call = None
    /\ confirm' = None
    /\ call' = [op |-> "delete", namespace |-> confirm.namespace, name |-> confirm.name,
                reply |-> None, deployment |-> None, service |-> None]
    /\ UNCHANGED <<cluster, page, dialog, own>>

-----------------------------------------------------------------------------
(* The requests. *)

Named(n, name) == {i \in inspectors[n] : i.name = name}

\* The object that POST creates.
Created ==
    [name |-> call.name, deployment |-> call.deployment, service |-> call.service,
     status |-> NoText, deleting |-> FALSE]

CreateAccepted ==
    /\ call # None /\ call.op = "create" /\ call.reply = None
    /\ Named(call.namespace, call.name) = {}
    /\ Cardinality(inspectors[call.namespace]) < MaxInspectors[call.namespace]
    /\ inspectors' = [inspectors EXCEPT ![call.namespace] = @ \cup {Created}]
    /\ call' = [call EXCEPT !.reply = "ok"]
    /\ own' = [namespace |-> call.namespace, name |-> call.name,
               deployment |-> call.deployment, told |-> FALSE, raced |-> FALSE]
    /\ UNCHANGED <<ready, page, dialog, confirm>>

\* The inspector goes when the operator removes its finalizer.
DeleteAccepted ==
    /\ call # None /\ call.op = "delete" /\ call.reply = None
    /\ Named(call.namespace, call.name) # {}
    /\ inspectors' = [inspectors EXCEPT ![call.namespace] =
            {IF i.name = call.name THEN [i EXCEPT !.deleting = TRUE] ELSE i : i \in @}]
    /\ call' = [call EXCEPT !.reply = "ok"]
    /\ UNCHANGED <<ready, page, dialog, confirm, own>>

\* The object exists already, or no more, or may not be touched.
CallRefused ==
    /\ call # None /\ call.reply = None
    /\ call' = [call EXCEPT !.reply = "refused"]
    /\ UNCHANGED <<cluster, page, dialog, confirm, own>>

\* Seeded defect: the table is not told.
InvalidatedNothing == cache

\* queryClient.invalidateQueries("inspectors"): what is in use is fetched again.
Invalidated == FetchIf(selected # None, cache, InspectorsKey(selected), selected)

\* The user is told of the creation, with a fetch of the inspectors in flight or not.
Told ==
    IF own = None THEN None
    ELSE [own EXCEPT !.told = TRUE, !.raced = IsFetching(cache, InspectorsKey(own.namespace))]

CreateAnswered ==
    /\ call # None /\ call.op = "create" /\ call.reply # None
    /\ call' = None
    /\ IF call.reply = "ok"
       THEN /\ own' = Told
            /\ IF dialog = <<call.namespace, call.deployment>>
               THEN CommitWith(Invalidated, selected, None)
               ELSE Commit(Invalidated, selected)
       ELSE UNCHANGED <<page, dialog, own>>
    /\ UNCHANGED <<cluster, confirm>>

\* onSuccess: any answer is a success.
DeleteAnswered ==
    /\ call # None /\ call.op = "delete" /\ call.reply # None
    /\ call' = None
    /\ Commit(Invalidated, selected)
    /\ UNCHANGED <<cluster, confirm, own>>

\* No answer comes; nothing is shown.
CallFails ==
    /\ call # None
    /\ call' = None
    /\ UNCHANGED <<cluster, page, dialog, confirm, own>>

-----------------------------------------------------------------------------
(* The cluster: kubectl, the operator, kubelet. *)

OthersCreate(n, i) ==
    /\ Named(n, i.name) = {}
    /\ Cardinality(inspectors[n]) < MaxInspectors[n]
    /\ inspectors' = [inspectors EXCEPT ![n] = @ \cup {i}]
    /\ UNCHANGED <<ready, page, dialog, confirm, call, own>>

\* The operator writes the status, or removes the finalizer of a deleted one.
OperatorUpdates(n, i) ==
    /\ i \in inspectors[n]
    /\ inspectors' = [inspectors EXCEPT ![n] =
            IF i.deleting THEN @ \ {i} ELSE (@ \ {i}) \cup {[i EXCEPT !.status = Running]}]
    /\ own' = IF i.deleting /\ own # None /\ own.namespace = n /\ own.name = i.name
              THEN None ELSE own
    /\ UNCHANGED <<ready, page, dialog, confirm, call>>

ReplicasChange(n, d) ==
    /\ \E r \in Ready : ready' = [ready EXCEPT ![n][d] = r]
    /\ UNCHANGED <<inspectors, page, dialog, confirm, call, own>>

-----------------------------------------------------------------------------
Fetches ==
    \/ \E n \in Namespaces : AnswerInspectors(n) \/ RefuseInspectors(n) \/ ReceiveInspectors(n)
    \/ \E key \in DOMAIN cache : ReceiveDeployments(key) \/ FetchFails(key)
    \/ ReceiveNamespaces \/ ReceiveServices
    \/ RefetchDeployments \/ RefetchNamespaces

User ==
    \/ OpenSettings \/ LeaveSettings \/ Focus
    \/ \E n \in Namespaces : SelectNamespace(n)
    \/ \E field \in Columns : Sort(field)
    \/ \E value \in Queries : Search(value)
    \/ \E m \in Monitors(table) : OpenMonitor(m)
    \/ CloseMonitor
    \/ \E name \in Names, endpoint \in Services \cup {NoText} : Submit(name, endpoint)
    \/ \E k \in DOMAIN table.sortedData : OpenConfirm(table.sortedData[k])
    \/ CancelConfirm \/ Confirm

Calls == CreateAccepted \/ DeleteAccepted \/ CallRefused
            \/ CreateAnswered \/ DeleteAnswered \/ CallFails

Kubectl ==
    \E n \in Namespaces, name \in Names, s \in Services :
        \E k \in DOMAIN DeployedIn[n] :
            OthersCreate(n, [name |-> name, deployment |-> DeployedIn[n][k], service |-> s,
                             status |-> NoText, deleting |-> FALSE])
Operator == \E n \in Namespaces : \E i \in inspectors[n] : OperatorUpdates(n, i)
Replicas ==
    \E n \in Namespaces : \E k \in DOMAIN DeployedIn[n] : ReplicasChange(n, DeployedIn[n][k])

Next == Fetches \/ User \/ Calls \/ Kubectl \/ Operator \/ Replicas
Spec == Init /\ [][Next]_vars

-----------------------------------------------------------------------------
(* Properties. *)

TypeOK ==
    /\ inspectors \in [Namespaces -> SUBSET Inspector]
    /\ ready \in [Namespaces -> [Deployments -> Ready]]
    /\ selected \in Namespaces \cup {None}
    /\ table \in TableSort
    /\ dialog \in (Namespaces \X Deployments) \cup {None}
    /\ \A n \in Namespaces :
        DataOf(cache, InspectorsKey(n)) \in {None, NotAList} \cup SUBSET Inspector
    /\ DataOf(cache, ServicesKey) \in {None} \cup SUBSET Services

\* The rows on the page are of the namespace that is selected, whatever answers
\* for another one come late.
RowsOfNamespace ==
    \A k \in DOMAIN table.sortedData : table.sortedData[k].namespace = selected

\* The rows tell the inspectors that the page has: the two queries, which are
\* answered one after the other, do not fall apart.
RowsTellInspectors ==
    \A k \in DOMAIN table.sortedData :
        LET row == table.sortedData[k]
            items == DataOf(cache, InspectorsKey(selected))
            i == Find(items, row.name)
        IN  /\ items \notin {None, NotAList}
            /\ row.monitored = IF i = None THEN FALSEText ELSE TRUEText
            /\ i # None => row.inspectorName = i.name
            /\ i # None /\ i.status # NoText => row.status = i.status

\* The table shows rows of the present data only, and without a search text all.
ShownIsCurrent ==
    table.mounted =>
        /\ OnlyRowsOf(table.sortedData, Rows(TableData))
        /\ table.search = NoText => Len(table.sortedData) = Len(Rows(TableData))

\* Whoever sorts or searches gets rows in the order that the head then shows.  (A
\* refetch may bring them in another order, under the same head.)
HeadTellsOrder ==
    [][table.mounted /\ table'.mounted
        /\ <<table'.sortBy, table'.reversed, table'.search>>
             # <<table.sortBy, table.reversed, table.search>>
            => InOrder(table')]_vars

\* An inspector that this user has created, and has been told so, is shown as such
\* once the page is quiet, unless a fetch of the inspectors was in flight when the
\* answer came: that one may be older than the inspector, and no other is started.
OwnCreationShown ==
    LET quiet == \A key \in DOMAIN cache \ {ServicesKey} :
                    ~IsFetching(cache, key) /\ ~IsError(cache, key)
    IN  own # None /\ own.told /\ ~own.raced /\ selected = own.namespace
            /\ table.mounted /\ quiet =>
        \A k \in DOMAIN table.sortedData :
            table.sortedData[k].name = own.deployment => table.sortedData[k].monitored = TRUEText

\* "Ingress endpoint for the deployment" (monitor.tsx:121): the services that an
\* open dialogue offers are those of its namespace, although the key of their query
\* does not tell it; unless the user came while the services of another namespace
\* were on their way, or the fetch failed and left older ones.
OwnServicesOffered ==
    /\ dialog # None /\ ~carried
    /\ ~IsFetching(cache, ServicesKey) /\ ~IsError(cache, ServicesKey)
    => Offered \subseteq ServicesIn[dialog[1]]
=============================================================================
