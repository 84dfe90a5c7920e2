----------------------------- MODULE ConsoleProofs -----------------------------
(***************************************************************************)
(* Proofs about Dashboard, for any services, scores, calls and changes of  *)
(* them, and about the pages of the console together (MCConsole).          *)
(*                                                                         *)
(* GoodQueries is what the entries of the dashboard's three queries keep,  *)
(* whatever is answered, fails or is asked again: above all that services  *)
(* which are there, or on their way, belong to the scores that are there.  *)
(* It is kept by each of the three fetches, by each answer and by each     *)
(* failure.                                                                *)
(***************************************************************************)
EXTENDS MCConsole, SettingsProofs

-----------------------------------------------------------------------------
(* What the entries of the dashboard keep. *)

IsEntry(e) == e = [data |-> e.data, failed |-> e.failed, fetch |-> e.fetch]

\* What a page can have of the services and of the requests between them.
Nodes == UNION {[names -> 0 .. 100] : names \in SUBSET ServiceNames}
Links == SUBSET (ServiceNames \X ServiceNames)

GoodScores(e) == IsEntry(e) /\ (e.data # None => e.data \in Gauges)

\* The services are of the scores that are there, those that are being fetched too.
GoodServiceData(e, scores) ==
    /\ IsEntry(e)
    /\ e.data # None => e.data \in Nodes /\ e.data = ServiceData(DOMAIN e.data, scores)
    /\ e.fetch # None => e.fetch.closure \in Gauges /\ e.fetch.closure = scores

GoodExchanges(e) ==
    /\ IsEntry(e)
    /\ e.data # None => e.data \in Links
    /\ e.fetch # None => e.fetch.closure \in SUBSET ServiceNames

GoodQueries(q) ==
    /\ GoodScores(EntryOf(q, AnomalyScore))
    /\ GoodServiceData(EntryOf(q, ServicesQuery), EntryOf(q, AnomalyScore).data)
    /\ GoodExchanges(EntryOf(q, RequestExchanges))

GoodGraph(g) == g.nodes \in Nodes /\ g.links \in Links

DashboardInv ==
    /\ inspected \in Clusters /\ gauge \in Gauges /\ calls \in Exchanges
    /\ GoodQueries(queries) /\ GoodGraph(graph)

-----------------------------------------------------------------------------
(* The query cache. *)

LEMMA QueriesDiffer ==
    /\ AnomalyScore # ServicesQuery /\ AnomalyScore # RequestExchanges
    /\ ServicesQuery # RequestExchanges
BY DEF AnomalyScore, ServicesQuery, RequestExchanges

\* Fetching changes nothing but the key's own entry, and there what is in flight.
LEMMA QueryFetched ==
    ASSUME NEW q, NEW k, NEW closure, IsEntry(EntryOf(q, k))
    PROVE  LET p == Fetch(q, k, closure) IN
           /\ \A j : j # k => EntryOf(p, j) = EntryOf(q, j)
           /\ \/ EntryOf(p, k) = EntryOf(q, k)
              \/ /\ IsEntry(EntryOf(p, k)) /\ EntryOf(p, k).data = EntryOf(q, k).data
                 /\ EntryOf(p, k).fetch.closure = closure
<1>1. CASE EntryOf(q, k).fetch # None
  BY <1>1 DEF Fetch
<1>2. CASE EntryOf(q, k).fetch = None
  <2>. DEFINE e == EntryOf(q, k)
              new == [data |-> e.data, failed |-> e.failed /\ e.data # None,
                      fetch |-> FetchOf(closure)]
  <2>1. Fetch(q, k, closure) = Put(q, k, new)
    BY <1>2 DEF Fetch
  <2>2. IsEntry(new) /\ new.data = e.data /\ new.fetch.closure = closure
    BY DEF IsEntry, FetchOf
  <2>. HIDE DEF new
  <2>3. \A j : EntryOf(Fetch(q, k, closure), j) = IF j = k THEN new ELSE EntryOf(q, j)
    BY <2>1, EntryOfPut
  <2>. QED BY <2>2, <2>3
<1>. QED BY <1>1, <1>2

LEMMA FetchKeepsData ==
    ASSUME NEW q, NEW k, NEW closure, NEW condition, IsEntry(EntryOf(q, k))
    PROVE  \A j : DataOf(FetchIf(condition, q, k, closure), j) = DataOf(q, j)
BY QueryFetched DEF DataOf, FetchIf

\* A page that has good entries keeps them when it asks for the scores, ...
LEMMA FetchScoresGood ==
    ASSUME NEW q, GoodQueries(q)
    PROVE  GoodQueries(Fetch(q, AnomalyScore, None))
<1>. DEFINE p == Fetch(q, AnomalyScore, None)
<1>1. /\ EntryOf(p, ServicesQuery) = EntryOf(q, ServicesQuery)
      /\ EntryOf(p, RequestExchanges) = EntryOf(q, RequestExchanges)
      /\ IsEntry(EntryOf(p, AnomalyScore))
      /\ EntryOf(p, AnomalyScore).data = EntryOf(q, AnomalyScore).data
  BY QueryFetched, QueriesDiffer DEF GoodQueries, GoodScores
<1>. QED BY <1>1 DEF GoodQueries, GoodScores

\* ... for the services of the scores it has, ...
LEMMA FetchServiceDataGood ==
    ASSUME NEW q, GoodQueries(q), NEW condition, condition => ServicesEnabled(q)
    PROVE  GoodQueries(FetchIf(condition, q, ServicesQuery, DataOf(q, AnomalyScore)))
<1>1. CASE ~condition
  BY <1>1 DEF FetchIf
<1>2. CASE condition
  <2>. DEFINE scores == EntryOf(q, AnomalyScore).data
              p == Fetch(q, ServicesQuery, scores)
              old == EntryOf(q, ServicesQuery)
              new == EntryOf(p, ServicesQuery)
  <2>1. scores \in Gauges
    BY <1>2 DEF GoodQueries, GoodScores, ServicesEnabled, DataOf
  <2>2. /\ EntryOf(p, AnomalyScore) = EntryOf(q, AnomalyScore)
        /\ EntryOf(p, RequestExchanges) = EntryOf(q, RequestExchanges)
        /\ \/ new = old
           \/ IsEntry(new) /\ new.data = old.data /\ new.fetch.closure = scores
    BY QueryFetched, QueriesDiffer DEF GoodQueries, GoodServiceData
  <2>3. GoodServiceData(old, scores)
    BY DEF GoodQueries
  <2>. HIDE DEF new, old, scores
  <2>4. GoodServiceData(new, scores)
    BY <2>1, <2>2, <2>3 DEF GoodServiceData
  <2>5. GoodQueries(p)
    BY <2>2, <2>4 DEF GoodQueries, new, scores
  <2>. QED BY <1>2, <2>5 DEF FetchIf, DataOf, scores
<1>. QED BY <1>1, <1>2

\* ... and for the requests between the services it has.
LEMMA FetchExchangesGood ==
    ASSUME NEW q, GoodQueries(q), NEW condition, condition => ExchangesEnabled(q)
    PROVE  GoodQueries(FetchExchanges(condition, q))
<1>1. CASE ~condition
  BY <1>1 DEF FetchExchanges, FetchIf
<1>2. CASE condition
  <2>. DEFINE data == DataOf(q, ServicesQuery)
              names == DOMAIN data
              p == Fetch(q, RequestExchanges, names)
              old == EntryOf(q, RequestExchanges)
              new == EntryOf(p, RequestExchanges)
  <2>1. data \in Nodes /\ data # None
    BY <1>2 DEF GoodQueries, GoodServiceData, ExchangesEnabled, DataOf
  <2>2. names \in SUBSET ServiceNames
    BY <2>1 DEF Nodes
  <2>3. /\ EntryOf(p, AnomalyScore) = EntryOf(q, AnomalyScore)
        /\ EntryOf(p, ServicesQuery) = EntryOf(q, ServicesQuery)
        /\ \/ new = old
           \/ IsEntry(new) /\ new.data = old.data /\ new.fetch.closure = names
    BY QueryFetched, QueriesDiffer DEF GoodQueries, GoodExchanges
  <2>4. GoodExchanges(old)
    BY DEF GoodQueries
  <2>5. FetchExchanges(condition, q) = p
    BY <1>2, <2>1 DEF FetchExchanges, FetchIf
  <2>. HIDE DEF new, old, names
  <2>6. GoodExchanges(new)
    BY <2>2, <2>3, <2>4 DEF GoodExchanges
  <2>7. GoodQueries(p)
    BY <2>3, <2>6 DEF GoodQueries, new
  <2>. QED BY <2>5, <2>7 DEF names
<1>. QED BY <1>1, <1>2

LEMMA FetchExchangesKeepsData ==
    ASSUME NEW q, GoodQueries(q), NEW condition
    PROVE  \A j : DataOf(FetchExchanges(condition, q), j) = DataOf(q, j)
BY FetchKeepsData DEF FetchExchanges, GoodQueries, GoodExchanges

-----------------------------------------------------------------------------
(* Scores that have changed, and what comes of a fetch. *)

GoodWithoutServices(q) ==
    GoodScores(EntryOf(q, AnomalyScore)) /\ GoodExchanges(EntryOf(q, RequestExchanges))

\* The entry under the services' new key begins blank, whatever the old one was.
LEMMA RekeyedGood ==
    ASSUME NEW q, GoodWithoutServices(q)
    PROVE  GoodQueries(Rekeyed(q))
<1>. DEFINE p == Put(q, ServicesQuery, Blank)
<1>1. /\ EntryOf(p, AnomalyScore) = EntryOf(q, AnomalyScore)
      /\ EntryOf(p, RequestExchanges) = EntryOf(q, RequestExchanges)
      /\ EntryOf(p, ServicesQuery) = Blank
  BY EntryOfPut, QueriesDiffer
<1>2. GoodServiceData(Blank, EntryOf(p, AnomalyScore).data)
  BY DEF GoodServiceData, IsEntry, Blank
<1>3. GoodQueries(p)
  BY <1>1, <1>2 DEF GoodQueries, GoodWithoutServices
<1>4. ServicesEnabled(p) <=> ServicesEnabled(q)
  BY <1>1 DEF ServicesEnabled, DataOf
<1>5. Rekeyed(q) = FetchIf(ServicesEnabled(q), p, ServicesQuery, DataOf(p, AnomalyScore))
  BY <1>1 DEF Rekeyed, DataOf
<1>. HIDE DEF p
<1>. QED BY <1>3, <1>4, <1>5, FetchServiceDataGood

\* A fetch that is in flight is of an entry that the cache has.
LEMMA FetchingHasEntry ==
    ASSUME NEW q, NEW k, IsFetching(q, k)
    PROVE  q[k] = EntryOf(q, k) /\ EntryOf(q, k).fetch # None
BY DEF IsFetching, EntryOf, Blank

LEMMA ResolveEntries ==
    ASSUME NEW q, NEW k, NEW data
    PROVE  LET p == Resolve(q, k, data) IN
           /\ \A j : j # k => EntryOf(p, j) = EntryOf(q, j)
           /\ IsEntry(EntryOf(p, k))
           /\ EntryOf(p, k).data = data /\ EntryOf(p, k).fetch = None
<1>. DEFINE new == [data |-> data, failed |-> FALSE, fetch |-> None]
<1>1. \A j : EntryOf(Resolve(q, k, data), j) = IF j = k THEN new ELSE EntryOf(q, j)
  BY EntryOfPut DEF Resolve
<1>2. IsEntry(new) /\ new.data = data /\ new.fetch = None
  BY DEF IsEntry
<1>. HIDE DEF new
<1>. QED BY <1>1, <1>2

LEMMA RejectEntries ==
    ASSUME NEW q, NEW k
    PROVE  LET p == Reject(q, k) IN
           /\ \A j : j # k => EntryOf(p, j) = EntryOf(q, j)
           /\ IsEntry(EntryOf(p, k))
           /\ EntryOf(p, k).data = EntryOf(q, k).data /\ EntryOf(p, k).fetch = None
<1>. DEFINE new == [data |-> EntryOf(q, k).data, failed |-> TRUE, fetch |-> None]
<1>1. \A j : EntryOf(Reject(q, k), j) = IF j = k THEN new ELSE EntryOf(q, j)
  BY EntryOfPut DEF Reject, DataOf
<1>2. IsEntry(new) /\ new.data = EntryOf(q, k).data /\ new.fetch = None
  BY DEF IsEntry
<1>. HIDE DEF new
<1>. QED BY <1>1, <1>2

\* Rendering with good entries leaves good ones, and a graph of what they have.
LEMMA DashboardRenderGood ==
    ASSUME NEW q, GoodQueries(q), GoodGraph(graph), Render(q)
    PROVE  GoodQueries(queries') /\ GoodGraph(graph')
<1>. DEFINE condition == ExchangesEnabled(q) /\ ~ExchangesEnabled(queries)
            q1 == FetchExchanges(condition, q)
<1>1. GoodQueries(q1)
  BY FetchExchangesGood
<1>2. queries' = q1
  BY DEF Render
<1>3. GoodGraph(graph')
  <2>1. CASE ExchangesEnabled(q1) /\ DataOf(q1, RequestExchanges) # None
    <3>1. graph' = GraphOf(q1)
      BY <2>1 DEF Render
    <3>. HIDE DEF q1
    <3>. QED BY <1>1, <2>1, <3>1
         DEF GraphOf, GoodGraph, GoodQueries, GoodServiceData, GoodExchanges, ExchangesEnabled, DataOf
  <2>2. CASE ~(ExchangesEnabled(q1) /\ DataOf(q1, RequestExchanges) # None)
    BY <2>2 DEF Render
  <2>. QED BY <2>1, <2>2
<1>. QED BY <1>1, <1>2, <1>3

-----------------------------------------------------------------------------
(* What the page computes of the services is a percentage of each. *)

LEMMA ServiceDataIsNodes ==
    ASSUME NEW names \in SUBSET ServiceNames, NEW scores \in Gauges
    PROVE  ServiceData(names, scores) \in [names -> 0 .. 100]
<1>1. SUFFICES ASSUME NEW n \in names PROVE Normalize(ScoreOf(scores, n)) \in 0 .. 100
  BY DEF ServiceData
<1>2. scores[n] \in Scores \cup {NoScore} /\ Scores \subseteq Int
  BY DashboardAssumption
<1>3. ScoreOf(scores, n) \in Int
  <2>1. CASE scores[n] \in {NoScore, 0}
    BY <2>1 DEF ScoreOf
  <2>2. CASE scores[n] \notin {NoScore, 0}
    <3>1. scores[n] \in Int
      BY <1>2, <2>2
    <3>. QED BY <2>2, <3>1 DEF ScoreOf
  <2>. QED BY <2>1, <2>2
<1>. QED BY <1>3 DEF Normalize, Clamp

-----------------------------------------------------------------------------
(* The invariant. *)

LEMMA DashboardInitGood == DashboardInit => DashboardInv
<1>1. SUFFICES ASSUME DashboardInit PROVE DashboardInv
  OBVIOUS
<1>2. \A k : EntryOf(<<>>, k) = Blank
  <2>1. DOMAIN <<>> = {}
    OBVIOUS
  <2>. QED BY <2>1 DEF EntryOf
<1>3. GoodQueries(<<>>)
  BY <1>2 DEF GoodQueries, GoodScores, GoodServiceData, GoodExchanges, Blank, IsEntry
<1>4. GoodQueries(queries)
  BY <1>1, <1>3, FetchScoresGood DEF DashboardInit
<1>5. <<>> \in Nodes
  <2>1. <<>> \in [{} -> 0 .. 100]
    OBVIOUS
  <2>. QED BY <2>1 DEF Nodes
<1>6. GoodGraph(graph)
  BY <1>1, <1>5 DEF DashboardInit, NoGraph, GoodGraph, Links
<1>. QED BY <1>1, <1>4, <1>6 DEF DashboardInit, DashboardInv

LEMMA DashboardNextGood == DashboardInv /\ [DashboardNext]_dashboardVars => DashboardInv'
<1>. SUFFICES ASSUME DashboardInv, [DashboardNext]_dashboardVars PROVE DashboardInv'
  OBVIOUS
<1>. USE DEF DashboardInv
\* A render of good entries, of a cluster that stays as it is.
<1>1. ASSUME NEW q, GoodQueries(q), Render(q), UNCHANGED server PROVE DashboardInv'
  BY <1>1, DashboardRenderGood DEF server
<1>2. CASE ReceiveScores
  <2>. DEFINE q == Resolve(queries, AnomalyScore, gauge)
  <2>1. GoodWithoutServices(q)
    BY ResolveEntries, QueriesDiffer DEF GoodWithoutServices, GoodScores, GoodQueries
  <2>2. GoodQueries(Rekeyed(q))
    BY <2>1, RekeyedGood
  <2>. QED BY <1>1, <1>2, <2>2 DEF ReceiveScores
<1>3. CASE ReceiveServiceData
  <2>. DEFINE closure == EntryOf(queries, ServicesQuery).fetch.closure
              data == ServiceData(inspected, closure)
              q == Resolve(queries, ServicesQuery, data)
  <2>1. /\ queries[ServicesQuery].fetch.closure = closure
        /\ closure \in Gauges /\ closure = EntryOf(queries, AnomalyScore).data
    BY <1>3, FetchingHasEntry DEF ReceiveServiceData, GoodQueries, GoodServiceData
  <2>2. inspected \in SUBSET ServiceNames
    BY DashboardAssumption
  <2>3. data \in [inspected -> 0 .. 100]
    BY <2>1, <2>2, ServiceDataIsNodes
  <2>4. data \in Nodes /\ DOMAIN data = inspected
    BY <2>2, <2>3 DEF Nodes
  <2>. HIDE DEF data, closure
  <2>5. /\ EntryOf(q, AnomalyScore) = EntryOf(queries, AnomalyScore)
        /\ EntryOf(q, RequestExchanges) = EntryOf(queries, RequestExchanges)
        /\ IsEntry(EntryOf(q, ServicesQuery))
        /\ EntryOf(q, ServicesQuery).data = data /\ EntryOf(q, ServicesQuery).fetch = None
    BY ResolveEntries, QueriesDiffer
  <2>6. data = ServiceData(DOMAIN data, EntryOf(queries, AnomalyScore).data)
    BY <2>1, <2>4 DEF data
  <2>7. GoodQueries(q)
    BY <2>4, <2>5, <2>6 DEF GoodQueries, GoodServiceData
  <2>8. Render(q) /\ UNCHANGED server
    BY <1>3, <2>1 DEF ReceiveServiceData, data
  <2>. QED BY <1>1, <2>7, <2>8
<1>4. CASE ReceiveExchanges
  <2>. DEFINE data == Among(queries[RequestExchanges].fetch.closure)
              q == Resolve(queries, RequestExchanges, data)
  <2>1. data \in Links
    BY DashboardAssumption DEF Among, Links
  <2>2. /\ EntryOf(q, AnomalyScore) = EntryOf(queries, AnomalyScore)
        /\ EntryOf(q, ServicesQuery) = EntryOf(queries, ServicesQuery)
        /\ IsEntry(EntryOf(q, RequestExchanges))
        /\ EntryOf(q, RequestExchanges).data = data
        /\ EntryOf(q, RequestExchanges).fetch = None
    BY ResolveEntries, QueriesDiffer
  <2>3. GoodQueries(q)
    BY <2>1, <2>2 DEF GoodQueries, GoodExchanges
  <2>. QED BY <1>1, <1>4, <2>3 DEF ReceiveExchanges
<1>5. CASE Failures
  <2>1. GoodWithoutServices(queries)
    BY DEF GoodQueries, GoodWithoutServices
  <2>2. GoodQueries(Rekeyed(queries))
    BY <2>1, RekeyedGood
  <2>3. GoodWithoutServices(Reject(queries, AnomalyScore))
    BY <2>1, RejectEntries, QueriesDiffer DEF GoodWithoutServices, GoodScores
  <2>4. GoodQueries(Rekeyed(Reject(queries, AnomalyScore)))
    BY <2>3, RekeyedGood
  <2>5. GoodQueries(Reject(queries, ServicesQuery))
    BY RejectEntries, QueriesDiffer DEF GoodQueries, GoodServiceData
  <2>6. GoodQueries(Reject(queries, RequestExchanges))
    BY RejectEntries, QueriesDiffer DEF GoodQueries, GoodExchanges
  <2>7. CASE ScoresFail
    BY <1>1, <2>2, <2>4, <2>7 DEF ScoresFail
  <2>8. ASSUME NEW key \in {ServicesQuery, RequestExchanges}, OthersFail(key)
        PROVE  DashboardInv'
    BY <1>1, <2>5, <2>6, <2>8 DEF OthersFail
  <2>. QED BY <1>5, <2>7, <2>8 DEF Failures
<1>6. CASE ScoresInterval
  <2>1. GoodWithoutServices(Fetch(queries, AnomalyScore, None))
    BY FetchScoresGood DEF GoodQueries, GoodWithoutServices
  <2>2. GoodQueries(Rekeyed(Fetch(queries, AnomalyScore, None)))
    BY <2>1, RekeyedGood
  <2>. QED BY <1>1, <1>6, <2>2 DEF ScoresInterval
<1>7. CASE ExchangesInterval
  <2>1. GoodQueries(FetchExchanges(TRUE, queries))
    BY <1>7, FetchExchangesGood DEF ExchangesInterval
  <2>. QED BY <1>1, <1>7, <2>1 DEF ExchangesInterval
<1>8. CASE FocusDashboard
  <2>. DEFINE q1 == Fetch(queries, AnomalyScore, None)
              condition == ServicesEnabled(queries)
              q2 == FetchIf(condition, q1, ServicesQuery, DataOf(queries, AnomalyScore))
              q3 == FetchExchanges(ExchangesEnabled(queries), q2)
  <2>1. GoodQueries(q1)
    BY FetchScoresGood
  <2>2. \A j : DataOf(q1, j) = DataOf(queries, j)
    BY QueryFetched DEF DataOf, GoodQueries, GoodScores
  <2>3. GoodQueries(q2) /\ \A j : DataOf(q2, j) = DataOf(queries, j)
    <3>. HIDE DEF q1
    <3>1. condition => ServicesEnabled(q1)
      BY <2>2 DEF ServicesEnabled
    <3>2. q2 = FetchIf(condition, q1, ServicesQuery, DataOf(q1, AnomalyScore))
      BY <2>2
    <3>. HIDE DEF q2, condition
    <3>3. GoodQueries(q2)
      BY <2>1, <3>1, <3>2, FetchServiceDataGood
    <3>4. \A j : DataOf(q2, j) = DataOf(q1, j)
      BY <2>1, <3>2, FetchKeepsData DEF GoodQueries, GoodServiceData
    <3>. QED BY <2>2, <3>3, <3>4
  <2>4. GoodQueries(q3)
    <3>. HIDE DEF q2
    <3>1. ExchangesEnabled(queries) => ExchangesEnabled(q2)
      BY <2>3 DEF ExchangesEnabled
    <3>. QED BY <2>3, <3>1, FetchExchangesGood
  <2>5. GoodQueries(Rekeyed(q3))
    <3>. HIDE DEF q3
    <3>1. GoodWithoutServices(q3)
      BY <2>4 DEF GoodQueries, GoodWithoutServices
    <3>. QED BY <3>1, RekeyedGood
  <2>6. /\ UNCHANGED server
        /\ Render(IF IsFetching(queries, AnomalyScore) THEN q3 ELSE Rekeyed(q3))
    BY <1>8 DEF FocusDashboard
  <2>. HIDE DEF q3
  <2>. QED BY <1>1, <2>4, <2>5, <2>6
<1>9. CASE ServerChanges
  BY <1>9 DEF ServerChanges
<1>10. CASE Calm
  BY <1>10 DEF Calm, server
<1>11. CASE UNCHANGED dashboardVars
  BY <1>11 DEF dashboardVars, server
<1>. QED BY <1>2, <1>3, <1>4, <1>5, <1>6, <1>7, <1>8, <1>9, <1>10, <1>11 DEF DashboardNext

THEOREM DashboardInvariant ==
    DashboardInit /\ [][DashboardNext]_dashboardVars => []DashboardInv
<1>1. DashboardInit => DashboardInv
  BY DashboardInitGood
<1>2. DashboardInv /\ [DashboardNext]_dashboardVars => DashboardInv'
  BY DashboardNextGood
<1>. QED BY <1>1, <1>2, PTL

-----------------------------------------------------------------------------
(* What follows. *)

LEMMA DashboardInvTypes == DashboardInv => DashboardTypeOK
<1>. SUFFICES ASSUME DashboardInv PROVE DashboardTypeOK
  OBVIOUS
<1>1. /\ DOMAIN graph.nodes \subseteq ServiceNames
      /\ \A n \in DOMAIN graph.nodes : graph.nodes[n] \in 0 .. 100
      /\ graph.links \subseteq ServiceNames \X ServiceNames
  BY DEF DashboardInv, GoodGraph, Nodes, Links
<1>2. ASSUME IsFetching(queries, RequestExchanges)
      PROVE  LET names == queries[RequestExchanges].fetch.closure
             IN  names # None /\ names \subseteq ServiceNames
  BY <1>2, FetchingHasEntry, DashboardAssumption DEF DashboardInv, GoodQueries, GoodExchanges
<1>. QED BY <1>1, <1>2 DEF DashboardTypeOK, DashboardInv

\* The graph has percentages for services and links between names of services, and
\* the requests are asked for only with the names of the services that have come.
THEOREM DashboardTypesHold == DashboardSpec => []DashboardTypeOK
BY DashboardInvTypes, DashboardInvariant, PTL DEF DashboardSpec

\* The services that the page has were scored by the scores it has, however the
\* answers to the two queries, their failures and their refetches interleave.
THEOREM ServicesFitScores == DashboardSpec => []ScoresAreCurrent
<1>1. DashboardInv => ScoresAreCurrent
  BY DEF DashboardInv, GoodQueries, GoodServiceData, ScoresAreCurrent, ExchangesEnabled, DataOf
<1>. QED BY <1>1, DashboardInvariant, PTL DEF DashboardSpec

-----------------------------------------------------------------------------
(* A graph that is true stays true. *)

\* normlize: nothing up to 0.1, everything from 0.3, and no more for a lower score.
LEMMA NormalizeTells ==
    ASSUME NEW v \in Int
    PROVE  /\ Normalize(v) = 0 <=> v <= 10
           /\ Normalize(v) = 100 <=> v >= 30
           /\ \A w \in Int : v <= w => Normalize(v) <= Normalize(w)
BY DEF Normalize, Clamp

\* A service without a score counts as healthy.
LEMMA ScoreTells ==
    ASSUME NEW scores \in Gauges, NEW n \in ServiceNames
    PROVE  /\ ScoreOf(scores, n) \in Int
           /\ ScoreOf(scores, n) <= 10 <=> scores[n] = NoScore \/ scores[n] <= 10
           /\ ScoreOf(scores, n) >= 30 <=> scores[n] # NoScore /\ scores[n] >= 30
           /\ scores[n] # NoScore =>
                scores[n] \in Int /\ ScoreOf(scores, n) = IF scores[n] = 0 THEN -100 ELSE scores[n]
<1>1. scores[n] \in Scores \cup {NoScore} /\ Scores \subseteq Int /\ NoScore \notin Int
  BY DashboardAssumption
<1>2. CASE scores[n] = NoScore
  BY <1>2 DEF ScoreOf
<1>3. CASE scores[n] # NoScore
  <2>1. scores[n] \in Int
    BY <1>1, <1>3
  <2>2. ScoreOf(scores, n) = IF scores[n] = 0 THEN -100 ELSE scores[n]
    BY <1>3 DEF ScoreOf
  <2>. QED BY <1>3, <2>1, <2>2
<1>. QED BY <1>2, <1>3

\* A page that is up to date draws the truth.
LEMMA UpToDateIsTrue ==
    ASSUME DashboardInv, UpToDate
    PROVE  GraphIsTrue
<1>. DEFINE node(n) == Normalize(ScoreOf(gauge, n))
<1>1. inspected \in SUBSET ServiceNames /\ gauge \in Gauges
  BY DashboardAssumption DEF DashboardInv
<1>2. graph.nodes = ServiceData(inspected, gauge) /\ graph.links = Among(inspected)
  BY DEF UpToDate
<1>3. DOMAIN graph.nodes = inspected /\ \A n \in inspected : graph.nodes[n] = node(n)
  BY <1>2 DEF ServiceData
<1>4. ASSUME NEW n \in inspected
      PROVE  /\ node(n) = 0 <=> gauge[n] = NoScore \/ gauge[n] <= 10
             /\ node(n) = 100 <=> gauge[n] # NoScore /\ gauge[n] >= 30
  <2>1. n \in ServiceNames
    BY <1>1
  <2>. QED BY <1>1, <2>1, NormalizeTells, ScoreTells
<1>5. ASSUME NEW n \in inspected, NEW m \in inspected,
             gauge[n] # NoScore, gauge[m] # NoScore, gauge[n] <= gauge[m]
      PROVE  node(n) <= node(m)
  <2>1. n \in ServiceNames /\ m \in ServiceNames
    BY <1>1
  <2>2. /\ ScoreOf(gauge, n) \in Int /\ ScoreOf(gauge, m) \in Int
        /\ gauge[n] \in Int /\ gauge[m] \in Int
        /\ ScoreOf(gauge, n) = IF gauge[n] = 0 THEN -100 ELSE gauge[n]
        /\ ScoreOf(gauge, m) = IF gauge[m] = 0 THEN -100 ELSE gauge[m]
    BY <1>1, <1>5, <2>1, ScoreTells
  <2>3. CASE gauge[m] # 0
    <3>1. ScoreOf(gauge, n) <= ScoreOf(gauge, m) \/ ScoreOf(gauge, m) <= 10
      BY <1>5, <2>2, <2>3
    <3>2. ScoreOf(gauge, n) <= 10 \/ ScoreOf(gauge, n) <= ScoreOf(gauge, m)
      BY <1>5, <2>2, <2>3
    <3>. QED BY <2>2, <3>1, <3>2, NormalizeTells
  <2>4. CASE gauge[m] = 0
    <3>1. ScoreOf(gauge, n) <= 10 /\ ScoreOf(gauge, m) <= 10
      BY <1>5, <2>2, <2>4
    <3>. QED BY <2>2, <3>1, NormalizeTells
  <2>. QED BY <2>3, <2>4
<1>6. Among(inspected) = {c \in calls : {c[1], c[2]} \subseteq inspected}
  BY DEF Among
<1>. HIDE DEF node
<1>. QED BY <1>2, <1>3, <1>4, <1>5, <1>6 DEF GraphIsTrue

\* Asking again keeps what the page is about, if it asks for what it has.
LEMMA FetchesCatchUp ==
    ASSUME NEW q, GoodQueries(q), CaughtUp(q), NEW condition
    PROVE  /\ CaughtUp(Fetch(q, AnomalyScore, None))
           /\ \A closure : CaughtUp(FetchIf(condition, q, ServicesQuery, closure))
           /\ (condition => ExchangesEnabled(q)) => CaughtUp(FetchExchanges(condition, q))
<1>0. IsEntry(EntryOf(q, AnomalyScore)) /\ IsEntry(EntryOf(q, ServicesQuery))
      /\ IsEntry(EntryOf(q, RequestExchanges))
  BY DEF GoodQueries, GoodScores, GoodServiceData, GoodExchanges
<1>1. CaughtUp(Fetch(q, AnomalyScore, None))
  <2>. DEFINE p == Fetch(q, AnomalyScore, None)
  <2>1. /\ EntryOf(p, ServicesQuery) = EntryOf(q, ServicesQuery)
        /\ EntryOf(p, RequestExchanges) = EntryOf(q, RequestExchanges)
        /\ EntryOf(p, AnomalyScore).data = EntryOf(q, AnomalyScore).data
    BY <1>0, QueryFetched, QueriesDiffer
  <2>. HIDE DEF p
  <2>2. CaughtUp(p)
    BY <2>1 DEF CaughtUp, DataOf
  <2>. QED BY <2>2 DEF p
<1>2. ASSUME NEW closure PROVE CaughtUp(FetchIf(condition, q, ServicesQuery, closure))
  <2>. DEFINE p == Fetch(q, ServicesQuery, closure)
  <2>1. /\ EntryOf(p, AnomalyScore) = EntryOf(q, AnomalyScore)
        /\ EntryOf(p, RequestExchanges) = EntryOf(q, RequestExchanges)
        /\ EntryOf(p, ServicesQuery).data = EntryOf(q, ServicesQuery).data
    BY <1>0, QueryFetched, QueriesDiffer
  <2>2. CaughtUp(p)
    <3>. HIDE DEF p
    <3>. QED BY <2>1 DEF CaughtUp, DataOf
  <2>. QED BY <2>2 DEF FetchIf
<1>3. ASSUME condition => ExchangesEnabled(q) PROVE CaughtUp(FetchExchanges(condition, q))
  <2>1. CASE ~condition
    BY <2>1 DEF FetchExchanges, FetchIf
  <2>2. CASE condition
    <3>. DEFINE names == DOMAIN DataOf(q, ServicesQuery)
                p == Fetch(q, RequestExchanges, names)
    <3>1. DataOf(q, ServicesQuery) # None
      BY <1>3, <2>2 DEF ExchangesEnabled
    <3>2. FetchExchanges(condition, q) = p
      BY <2>2, <3>1 DEF FetchExchanges, FetchIf
    <3>3. names = inspected
      BY <3>1 DEF CaughtUp, DataOf
    <3>4. /\ EntryOf(p, AnomalyScore) = EntryOf(q, AnomalyScore)
          /\ EntryOf(p, ServicesQuery) = EntryOf(q, ServicesQuery)
          /\ \/ EntryOf(p, RequestExchanges) = EntryOf(q, RequestExchanges)
             \/ /\ EntryOf(p, RequestExchanges).data = EntryOf(q, RequestExchanges).data
                /\ EntryOf(p, RequestExchanges).fetch.closure = names
      BY <1>0, QueryFetched, QueriesDiffer
    <3>5. CaughtUp(p)
      <4>. HIDE DEF p, names
      <4>. QED BY <3>3, <3>4 DEF CaughtUp, DataOf
    <3>. QED BY <3>2, <3>5
  <2>. QED BY <2>1, <2>2
<1>. QED BY <1>1, <1>2, <1>3

\* What the page is about but for its services.
CaughtUpWithoutServices(q) ==
    LET exchanges == EntryOf(q, RequestExchanges)
    IN  /\ DataOf(q, AnomalyScore) = gauge
        /\ exchanges.data = Among(inspected)
        /\ exchanges.fetch # None => exchanges.fetch.closure = inspected

\* Under a new key the services are missing, not old.
LEMMA RekeyedCatchesUp ==
    ASSUME NEW q, GoodWithoutServices(q), CaughtUpWithoutServices(q)
    PROVE  CaughtUp(Rekeyed(q))
<1>. DEFINE p == Put(q, ServicesQuery, Blank)
<1>1. /\ EntryOf(p, AnomalyScore) = EntryOf(q, AnomalyScore)
      /\ EntryOf(p, RequestExchanges) = EntryOf(q, RequestExchanges)
      /\ EntryOf(p, ServicesQuery) = Blank
  BY EntryOfPut, QueriesDiffer
<1>2. Blank.data = None /\ GoodServiceData(Blank, EntryOf(p, AnomalyScore).data)
  BY DEF GoodServiceData, IsEntry, Blank
<1>3. GoodQueries(p) /\ CaughtUp(p)
  BY <1>1, <1>2
     DEF GoodQueries, GoodWithoutServices, CaughtUp, CaughtUpWithoutServices, DataOf
<1>4. Rekeyed(q) = FetchIf(ServicesEnabled(q), p, ServicesQuery, DataOf(q, AnomalyScore))
  BY DEF Rekeyed
<1>. HIDE DEF p
<1>. QED BY <1>3, <1>4, FetchesCatchUp

\* Rendering entries that have caught up keeps the graph, or draws it as it is.
LEMMA RenderUpToDate ==
    ASSUME UpToDate, NEW q, GoodQueries(q), CaughtUp(q), Render(q), UNCHANGED <<server, calm>>
    PROVE  UpToDate'
<1>. DEFINE condition == ExchangesEnabled(q) /\ ~ExchangesEnabled(queries)
            q1 == FetchExchanges(condition, q)
            drawn == [nodes |-> ServiceData(inspected, gauge), links |-> Among(inspected)]
<1>1. GoodQueries(q1) /\ CaughtUp(q1)
  BY FetchExchangesGood, FetchesCatchUp
<1>2. queries' = q1
  BY DEF Render
<1>3. graph' = drawn
  <2>1. CASE ExchangesEnabled(q1) /\ DataOf(q1, RequestExchanges) # None
    <3>1. graph' = GraphOf(q1)
      BY <2>1 DEF Render
    <3>2. DataOf(q1, ServicesQuery) = ServiceData(inspected, gauge)
          /\ DataOf(q1, RequestExchanges) = Among(inspected)
      <4>. HIDE DEF q1
      <4>. QED BY <1>1, <2>1 DEF GoodQueries, GoodServiceData, CaughtUp, ExchangesEnabled, DataOf
    <3>. QED BY <3>1, <3>2 DEF GraphOf
  <2>2. CASE ~(ExchangesEnabled(q1) /\ DataOf(q1, RequestExchanges) # None)
    BY <2>2 DEF Render, UpToDate
  <2>. QED BY <2>1, <2>2
<1>4. inspected' = inspected /\ gauge' = gauge /\ calls' = calls /\ calm'
  BY DEF server, UpToDate
<1>5. Among(inspected)' = Among(inspected)
  BY <1>4 DEF Among
<1>6. CaughtUp(queries)'
  <2>. HIDE DEF q1
  <2>. QED BY <1>1, <1>2, <1>4, <1>5 DEF CaughtUp, DataOf
<1>7. graph' = [nodes |-> ServiceData(inspected', gauge'), links |-> Among(inspected)']
  BY <1>3, <1>4, <1>5
<1>. QED BY <1>4, <1>6, <1>7 DEF UpToDate

LEMMA StaysUpToDate ==
    ASSUME DashboardInv, UpToDate, [DashboardNext]_dashboardVars
    PROVE  UpToDate'
<1>0. calm /\ GoodQueries(queries) /\ CaughtUp(queries)
  BY DEF DashboardInv, UpToDate
<1>1. ASSUME NEW q, GoodQueries(q), CaughtUp(q), Render(q), UNCHANGED <<server, calm>>
      PROVE  UpToDate'
  BY <1>1, RenderUpToDate
<1>2. ASSUME NEW q, GoodWithoutServices(q), CaughtUpWithoutServices(q)
      PROVE  GoodQueries(Rekeyed(q)) /\ CaughtUp(Rekeyed(q))
  BY <1>2, RekeyedGood, RekeyedCatchesUp
<1>3. ASSUME NEW q, GoodQueries(q), CaughtUp(q)
      PROVE  GoodWithoutServices(q) /\ CaughtUpWithoutServices(q)
  BY <1>3 DEF GoodQueries, CaughtUp, GoodWithoutServices, CaughtUpWithoutServices
<1>4. CASE ReceiveScores
  <2>. DEFINE q == Resolve(queries, AnomalyScore, gauge)
  <2>1. /\ EntryOf(q, RequestExchanges) = EntryOf(queries, RequestExchanges)
        /\ EntryOf(q, AnomalyScore).data = gauge /\ IsEntry(EntryOf(q, AnomalyScore))
    BY ResolveEntries, QueriesDiffer
  <2>2. gauge \in Gauges
    BY DEF DashboardInv
  <2>. HIDE DEF q
  <2>3. GoodWithoutServices(q) /\ CaughtUpWithoutServices(q)
    BY <1>0, <2>1, <2>2
       DEF GoodQueries, GoodWithoutServices, GoodScores, CaughtUp, CaughtUpWithoutServices, DataOf
  <2>4. Render(Rekeyed(q)) /\ UNCHANGED <<server, calm>>
    BY <1>4 DEF ReceiveScores, q
  <2>. QED BY <1>1, <1>2, <2>3, <2>4
<1>5. CASE ReceiveServiceData
  <2>. DEFINE data == ServiceData(inspected, gauge)
              q == Resolve(queries, ServicesQuery, data)
  <2>1. queries[ServicesQuery].fetch.closure = gauge
    BY <1>0, <1>5, FetchingHasEntry
       DEF ReceiveServiceData, GoodQueries, GoodServiceData, CaughtUp, DataOf
  <2>2. /\ EntryOf(q, AnomalyScore) = EntryOf(queries, AnomalyScore)
        /\ EntryOf(q, RequestExchanges) = EntryOf(queries, RequestExchanges)
        /\ EntryOf(q, ServicesQuery).data = data
        /\ EntryOf(q, ServicesQuery).fetch = None /\ IsEntry(EntryOf(q, ServicesQuery))
    BY ResolveEntries, QueriesDiffer
  <2>3. inspected \in SUBSET ServiceNames /\ gauge \in Gauges
    BY DashboardAssumption DEF DashboardInv
  <2>4. data \in [inspected -> 0 .. 100]
    BY <2>3, ServiceDataIsNodes
  <2>5. DOMAIN data = inspected /\ data \in Nodes /\ data = ServiceData(DOMAIN data, gauge)
    BY <2>3, <2>4 DEF Nodes
  <2>6. Render(q) /\ UNCHANGED <<server, calm>>
    BY <1>5, <2>1 DEF ReceiveServiceData
  <2>. HIDE DEF q, data
  <2>7. GoodQueries(q) /\ CaughtUp(q)
    BY <1>0, <2>2, <2>5 DEF GoodQueries, GoodServiceData, CaughtUp, DataOf
  <2>. QED BY <1>1, <2>6, <2>7
<1>6. CASE ReceiveExchanges
  <2>. DEFINE q == Resolve(queries, RequestExchanges, Among(inspected))
  <2>1. queries[RequestExchanges].fetch.closure = inspected
    BY <1>0, <1>6, FetchingHasEntry DEF ReceiveExchanges, CaughtUp
  <2>2. /\ EntryOf(q, AnomalyScore) = EntryOf(queries, AnomalyScore)
        /\ EntryOf(q, ServicesQuery) = EntryOf(queries, ServicesQuery)
        /\ EntryOf(q, RequestExchanges).data = Among(inspected)
        /\ EntryOf(q, RequestExchanges).fetch = None /\ IsEntry(EntryOf(q, RequestExchanges))
    BY ResolveEntries, QueriesDiffer
  <2>3. Among(inspected) \in Links
    BY DashboardAssumption DEF DashboardInv, Among, Links
  <2>4. Render(q) /\ UNCHANGED <<server, calm>>
    BY <1>6, <2>1 DEF ReceiveExchanges
  <2>. HIDE DEF q
  <2>5. GoodQueries(q) /\ CaughtUp(q)
    BY <1>0, <2>2, <2>3 DEF GoodQueries, GoodExchanges, CaughtUp, DataOf
  <2>. QED BY <1>1, <2>4, <2>5
<1>7. CASE Failures
  BY <1>0, <1>7 DEF Failures, ScoresFail, OthersFail
<1>8. CASE ScoresInterval
  <2>1. GoodQueries(Fetch(queries, AnomalyScore, None)) /\ CaughtUp(Fetch(queries, AnomalyScore, None))
    BY <1>0, FetchScoresGood, FetchesCatchUp
  <2>. QED BY <1>1, <1>2, <1>3, <1>8, <2>1 DEF ScoresInterval
<1>9. CASE ExchangesInterval
  <2>1. GoodQueries(FetchExchanges(TRUE, queries)) /\ CaughtUp(FetchExchanges(TRUE, queries))
    BY <1>0, <1>9, FetchExchangesGood, FetchesCatchUp DEF ExchangesInterval
  <2>. QED BY <1>1, <1>9, <2>1 DEF ExchangesInterval
<1>10. CASE FocusDashboard
  <2>. DEFINE q1 == Fetch(queries, AnomalyScore, None)
              condition == ServicesEnabled(queries)
              q2 == FetchIf(condition, q1, ServicesQuery, DataOf(queries, AnomalyScore))
              q3 == FetchExchanges(ExchangesEnabled(queries), q2)
  <2>1. GoodQueries(q1) /\ CaughtUp(q1)
    BY <1>0, FetchScoresGood, FetchesCatchUp
  <2>2. \A j : DataOf(q1, j) = DataOf(queries, j)
    BY <1>0, QueryFetched DEF DataOf, GoodQueries, GoodScores
  <2>3. GoodQueries(q2) /\ CaughtUp(q2) /\ \A j : DataOf(q2, j) = DataOf(queries, j)
    <3>. HIDE DEF q1
    <3>1. condition => ServicesEnabled(q1)
      BY <2>2 DEF ServicesEnabled
    <3>2. q2 = FetchIf(condition, q1, ServicesQuery, DataOf(q1, AnomalyScore))
      BY <2>2
    <3>. HIDE DEF q2, condition
    <3>3. GoodQueries(q2) /\ CaughtUp(q2)
      BY <2>1, <3>1, <3>2, FetchServiceDataGood, FetchesCatchUp
    <3>4. \A j : DataOf(q2, j) = DataOf(q1, j)
      BY <2>1, <3>2, FetchKeepsData DEF GoodQueries, GoodServiceData
    <3>. QED BY <2>2, <3>3, <3>4
  <2>4. GoodQueries(q3) /\ CaughtUp(q3)
    <3>. HIDE DEF q2
    <3>1. ExchangesEnabled(queries) => ExchangesEnabled(q2)
      BY <2>3 DEF ExchangesEnabled
    <3>. QED BY <2>3, <3>1, FetchExchangesGood, FetchesCatchUp
  <2>5. /\ UNCHANGED <<server, calm>>
        /\ Render(IF IsFetching(queries, AnomalyScore) THEN q3 ELSE Rekeyed(q3))
    BY <1>10 DEF FocusDashboard
  <2>. HIDE DEF q3
  <2>6. GoodQueries(Rekeyed(q3)) /\ CaughtUp(Rekeyed(q3))
    BY <1>2, <1>3, <2>4
  <2>. QED BY <1>1, <2>4, <2>5, <2>6
<1>11. CASE ServerChanges \/ Calm
  BY <1>0, <1>11 DEF ServerChanges, Calm
<1>12. CASE UNCHANGED dashboardVars
  BY <1>12 DEF dashboardVars, server, UpToDate, CaughtUp, Among
<1>. QED
  BY <1>4, <1>5, <1>6, <1>7, <1>8, <1>9, <1>10, <1>11, <1>12 DEF DashboardNext

\* Once nothing changes and no fetch fails, a graph that is up to date is true for
\* good: the refetches of the scores, the blank services under their new key and
\* the requests that are asked again in between (dashboard.tsx) never bring back
\* what was there before.
THEOREM TrueGraphStays ==
    DashboardInit /\ [][DashboardNext]_dashboardVars => GraphStays
BY StaysUpToDate, UpToDateIsTrue, DashboardInvariant, PTL DEF GraphStays

-----------------------------------------------------------------------------
(* The console: what is proved of each page holds of MCConsole. *)

\* The scenarios are about the page of the settings as it is: whatever one of them
\* does is a step of Settings.  Its form offers services only.
LEMMA ScenarioSteps ==
    ASSUME SettingsInv, SettingsStep
    PROVE  Next /\ UNCHANGED dashboardVars
<1>1. ASSUME Answered \/ Failing PROVE Fetches \/ User
  BY <1>1 DEF Answered, Failing, Fetches, User
<1>2. ASSUME Sorting PROVE User
  BY <1>2 DEF Sorting, User, Columns
<1>3. ASSUME Opening PROVE Fetches \/ User
  BY <1>3 DEF Opening, Fetches, User
<1>4. ASSUME Editing PROVE User \/ Calls
  <2>1. Offered \subseteq Services \cup {NoText}
    BY DEF SettingsInv, Good, GoodServices, Offered, DataOf
  <2>. QED BY <1>4, <2>1 DEF Editing, User
<1>5. ASSUME Focus \/ LeaveSettings \/ \E n \in Namespaces : SelectNamespace(n) PROVE User
  BY <1>5 DEF User
<1>. QED BY <1>1, <1>2, <1>3, <1>4, <1>5 DEF SettingsStep, Only, Next

LEMMA ConsoleSteps ==
    ASSUME SettingsInv, [ConsoleNext]_ConsoleVars
    PROVE  [Next]_vars /\ [DashboardNext]_dashboardVars
BY ScenarioSteps DEF ConsoleNext, ConsoleVars, DashboardStep

\* Each page behaves in the instance, in whatever scenario, as it does on its own.
THEOREM PagesBehave ==
    ConsoleSpec => Spec /\ DashboardInit /\ [][DashboardNext]_dashboardVars
<1>1. ConsoleInit => Init /\ DashboardInit
  BY DEF ConsoleInit
<1>2. SettingsInv /\ [ConsoleNext]_ConsoleVars => [Next]_vars /\ [DashboardNext]_dashboardVars
  BY ConsoleSteps
<1>. QED BY <1>1, <1>2, InitGood, StepGood, PTL DEF ConsoleSpec, Spec

\* The variables of both pages keep their types in the run's own specification.
THEOREM ConsoleTypesHold == ConsoleSpec => []ConsoleTypeOK
BY PagesBehave, TypesHold, DashboardInvariant, DashboardInvTypes, PTL DEF ConsoleTypeOK
=============================================================================
