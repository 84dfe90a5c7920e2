--------------------------- MODULE SettingsProofs ---------------------------
(***************************************************************************)
(* Proofs about Settings, for any namespaces, deployments, services, texts *)
(* and orders of them.                                                     *)
(*                                                                         *)
(* SettingsInv is inductive.  Good says of every entry of the cache what   *)
(* its key promises: rows, and the fetches of rows, are of the namespace   *)
(* and of the versions in the key.  Page says that the table shows rows of *)
(* the data of the current key, and that the services are those of the     *)
(* namespace since a button that observes them has come.  Each handler     *)
(* makes a good cache, and a render keeps Page whatever good cache it gets *)
(* (CommitGood).                                                           *)
(*                                                                         *)
(* OwnInv adds what the user has created: nothing that was fetched since   *)
(* the answer to the creation lacks it.                                    *)
(***************************************************************************)
EXTENDS Settings, FiniteSetTheorems, WellFoundedInduction, TLAPS

-----------------------------------------------------------------------------
(* Rows arranged: the sorting and the filtering of the table. *)

\* Some positions are arranged by pos: each once, in this order.
Arranges(pos, positions, order) ==
    /\ pos \in [1..Cardinality(positions) -> positions]
    /\ \A k, l \in DOMAIN pos : k < l => pos[k] # pos[l] /\ <<pos[k], pos[l]>> \in order

Picked(data, pos) == [k \in DOMAIN pos |-> data[pos[k]]]

IsOrder(order, positions) ==
    /\ \A i \in positions : <<i, i>> \in order
    /\ \A i, j \in positions : <<i, j>> \in order \/ <<j, i>> \in order
    /\ \A i, j \in positions : <<i, j>> \in order /\ <<j, i>> \in order => i = j
    /\ \A i, j, k \in positions : <<i, j>> \in order /\ <<j, k>> \in order => <<i, k>> \in order

LEMMA ArrangedOnce ==
    ASSUME NEW data, NEW positions, NEW order,
           IsFiniteSet(positions), IsOrder(order, positions)
    PROVE  \E pos : /\ Arranges(pos, positions, order)
                    /\ Arranged(data, positions, order) = Picked(data, pos)
<1> DEFINE N == Cardinality(positions)
           UpTo(j) == {i \in positions : <<i, j>> \in order}
           rank == [j \in positions |-> Cardinality(UpTo(j))]
           pos == [k \in 1..N |-> CHOOSE j \in positions : rank[j] = k]
<1>1. N \in Nat
  BY FS_CardinalityType
<1>2. ASSUME NEW j \in positions
      PROVE  IsFiniteSet(UpTo(j)) /\ rank[j] \in 1..N
  <2>1. UpTo(j) \in SUBSET positions /\ j \in UpTo(j)
    BY DEF IsOrder
  <2>2. IsFiniteSet(UpTo(j)) /\ Cardinality(UpTo(j)) <= N
    BY <2>1, FS_Subset
  <2>3. Cardinality(UpTo(j)) \in Nat /\ Cardinality(UpTo(j)) # 0
    BY <2>1, <2>2, FS_CardinalityType, FS_EmptySet
  <2> QED BY <1>1, <2>2, <2>3
<1>3. ASSUME NEW i \in positions, NEW j \in positions, i # j, <<i, j>> \in order
      PROVE  rank[i] < rank[j]
  <2>1. UpTo(i) \in SUBSET UpTo(j)
    BY <1>3 DEF IsOrder
  <2>2. j \in UpTo(j) /\ j \notin UpTo(i)
    BY <1>3 DEF IsOrder
  <2>3. IsFiniteSet(UpTo(j))
    BY <1>2
  <2>4. Cardinality(UpTo(i)) <= Cardinality(UpTo(j)) /\ Cardinality(UpTo(i)) # Cardinality(UpTo(j))
    BY <2>1, <2>2, <2>3, FS_Subset
  <2>5. rank[i] \in 1..N /\ rank[j] \in 1..N
    BY <1>2
  <2> QED BY <2>4, <2>5, <1>1
<1>4. rank \in Injection(positions, 1..N)
  <2>1. rank \in [positions -> 1..N]
    BY <1>2
  <2>2. ASSUME NEW i \in positions, NEW j \in positions, i # j
        PROVE  rank[i] # rank[j]
    <3>1. rank[i] \in 1..N /\ rank[j] \in 1..N
      BY <1>2
    <3>2. <<i, j>> \in order \/ <<j, i>> \in order
      BY DEF IsOrder
    <3> HIDE DEF rank
    <3> QED BY <1>1, <1>3, <2>2, <3>1, <3>2
  <2> HIDE DEF rank
  <2> QED BY <2>1, <2>2 DEF Injection, IsInjective
<1>5. rank \in Surjection(positions, 1..N)
  <2>1. IsFiniteSet(1..N) /\ Cardinality(1..N) = N
    BY <1>1, FS_Interval
  <2> HIDE DEF rank
  <2> QED BY <1>4, <2>1, FS_Injection
<1>6. \A k \in 1..N : pos[k] \in positions /\ rank[pos[k]] = k
  <2> HIDE DEF rank
  <2> QED BY <1>5 DEF Surjection
<1>7. Arranges(pos, positions, order)
  <2>1. pos \in [1..N -> positions]
    BY <1>6
  <2>2. ASSUME NEW k \in 1..N, NEW l \in 1..N, k < l
        PROVE  pos[k] # pos[l] /\ <<pos[k], pos[l]>> \in order
    <3>1. pos[k] \in positions /\ pos[l] \in positions /\ rank[pos[k]] = k /\ rank[pos[l]] = l
      BY <1>6
    <3> HIDE DEF rank, pos
    <3>2. pos[k] # pos[l]
      BY <3>1, <2>2, <1>1
    <3>3. <<pos[k], pos[l]>> \in order \/ <<pos[l], pos[k]>> \in order
      BY <3>1 DEF IsOrder
    <3> QED BY <3>1, <3>2, <3>3, <1>3, <2>2, <1>1
  <2> HIDE DEF pos
  <2> QED BY <2>1, <2>2 DEF Arranges
<1>8. Arranged(data, positions, order) = [k \in 1..N |-> data[pos[k]]]
  BY DEF Arranged
<1>9. Arranged(data, positions, order) = Picked(data, pos)
  <2> HIDE DEF pos
  <2> QED BY <1>7, <1>8 DEF Arranges, Picked
<1> QED BY <1>7, <1>9

LEMMA TimesType ==
    ASSUME NEW S, NEW rows \in Seq(S), NEW row
    PROVE  /\ IsFiniteSet({i \in DOMAIN rows : rows[i] = row})
           /\ Times(row, rows) \in Nat
<1>1. IsFiniteSet(DOMAIN rows)
  BY FS_Interval
<1>2. {i \in DOMAIN rows : rows[i] = row} \in SUBSET DOMAIN rows
  OBVIOUS
<1> QED BY <1>1, <1>2, FS_Subset, FS_CardinalityType DEF Times

\* Arranged rows are rows of the data, each as often as it is there at most.
LEMMA ArrangedRows ==
    ASSUME NEW S, NEW data \in Seq(S), NEW positions \in SUBSET (DOMAIN data),
           NEW order, IsOrder(order, positions)
    PROVE  LET rows == Arranged(data, positions, order) IN
           /\ rows \in Seq(S) /\ Len(rows) = Cardinality(positions)
           /\ \A row : Times(row, rows) <= Times(row, data)
<1> DEFINE N == Cardinality(positions)
           rows == Arranged(data, positions, order)
<1>1. IsFiniteSet(DOMAIN data) /\ IsFiniteSet(positions) /\ N \in Nat
  <2>1. IsFiniteSet(DOMAIN data)
    BY FS_Interval
  <2>2. IsFiniteSet(positions)
    BY <2>1, FS_Subset
  <2> QED BY <2>1, <2>2, FS_CardinalityType
<1>2. PICK pos : Arranges(pos, positions, order) /\ rows = [k \in 1..N |-> data[pos[k]]]
  <2>1. PICK pos : Arranges(pos, positions, order) /\ rows = Picked(data, pos)
    BY <1>1, ArrangedOnce
  <2>2. rows = [k \in 1..N |-> data[pos[k]]]
    BY <2>1 DEF Arranges, Picked
  <2> QED BY <2>1, <2>2
<1> HIDE DEF rows
<1>3. \A k \in 1..N : pos[k] \in DOMAIN data /\ rows[k] \in S
  BY <1>2 DEF Arranges
<1>4. rows \in Seq(S) /\ Len(rows) = N /\ DOMAIN rows = 1..N
  BY <1>1, <1>2, <1>3
<1>5. ASSUME NEW row
      PROVE  Times(row, rows) <= Times(row, data)
  <2> DEFINE here == {k \in DOMAIN rows : rows[k] = row}
             there == {j \in DOMAIN data : data[j] = row}
             f == [k \in here |-> pos[k]]
  <2>1. f \in [here -> there]
    BY <1>2, <1>3, <1>4
  <2>2. ASSUME NEW k \in here, NEW l \in here, k # l
        PROVE  f[k] # f[l]
    <3>1. k \in 1..N /\ l \in 1..N /\ (k < l \/ l < k)
      BY <1>1, <1>4, <2>2
    <3>2. pos[k] # pos[l]
      BY <1>2, <3>1 DEF Arranges
    <3> QED BY <3>2
  <2>3. f \in Injection(here, there)
    <3> HIDE DEF f, here, there
    <3> QED BY <2>1, <2>2 DEF Injection, IsInjective
  <2>4. IsFiniteSet(there)
    BY TimesType
  <2> HIDE DEF f, here, there
  <2>5. Cardinality(here) <= Cardinality(there)
    BY <2>3, <2>4, FS_Injection
  <2> QED BY <2>5 DEF here, there, Times
<1> QED BY <1>4, <1>5 DEF rows

\* The order of a column is one, whatever the texts and their order.
LEMMA ByColumnIsOrder ==
    ASSUME NEW data \in Seq(RowData), NEW field \in Columns, NEW reversed \in BOOLEAN
    PROVE  IsOrder(ByColumn(data, field, reversed), DOMAIN data)
<1> DEFINE P(i) == Place[data[i][field]]
           order == ByColumn(data, field, reversed)
<1>1. \A i \in DOMAIN data : i \in Nat /\ P(i) \in Nat
  <2>1. \A i \in DOMAIN data : i \in Nat /\ data[i] \in [Fields -> Text] /\ field \in Fields
    BY DEF RowData, Columns, Fields
  <2>2. \A i \in DOMAIN data : data[i][field] \in Text
    BY <2>1
  <2> QED BY <2>1, <2>2, TextAssumption
<1>0. \A i, j \in DOMAIN data :
        <<i, j>> \in order <=> IF P(i) = P(j) THEN i <= j ELSE IF reversed THEN P(j) < P(i) ELSE P(i) < P(j)
  BY DEF ByColumn
<1> HIDE DEF order, P
<1>2. CASE reversed = TRUE
  <2>1. ASSUME NEW i \in DOMAIN data, NEW j \in DOMAIN data
        PROVE  <<i, j>> \in order <=> P(i) > P(j) \/ (P(i) = P(j) /\ i <= j)
    <3>1. <<i, j>> \in order <=> IF P(i) = P(j) THEN i <= j ELSE P(j) < P(i)
      BY <1>0, <1>2, Zenon
    <3>2. i \in Nat /\ j \in Nat /\ P(i) \in Nat /\ P(j) \in Nat
      BY <1>1
    <3> QED BY <3>1, <3>2
  <2>2. IsOrder(order, DOMAIN data)
    BY <1>1, <2>1 DEF IsOrder
  <2> QED BY <2>2 DEF order
<1>3. CASE reversed = FALSE
  <2>1. ASSUME NEW i \in DOMAIN data, NEW j \in DOMAIN data
        PROVE  <<i, j>> \in order <=> P(i) < P(j) \/ (P(i) = P(j) /\ i <= j)
    <3>1. <<i, j>> \in order <=> IF P(i) = P(j) THEN i <= j ELSE P(i) < P(j)
      BY <1>0, <1>3, Zenon
    <3>2. i \in Nat /\ j \in Nat /\ P(i) \in Nat /\ P(j) \in Nat
      BY <1>1
    <3> QED BY <3>1, <3>2
  <2>2. IsOrder(order, DOMAIN data)
    BY <1>1, <2>1 DEF IsOrder
  <2> QED BY <2>2 DEF order
<1> QED BY <1>2, <1>3

\* The rows are in the order of a column.
Along(rows, field, reversed) ==
    \A i, j \in DOMAIN rows :
        LET a == Place[rows[i][field]]
            b == Place[rows[j][field]]
        IN  i < j => IF reversed THEN a >= b ELSE a <= b

LEMMA ArrangedAlong ==
    ASSUME NEW data \in Seq(RowData), NEW positions \in SUBSET (DOMAIN data), NEW order,
           IsOrder(order, positions), NEW field, NEW reversed,
           \A i, j \in positions :
                LET a == Place[data[i][field]]
                    b == Place[data[j][field]]
                IN  i # j /\ <<i, j>> \in order => IF reversed THEN a >= b ELSE a <= b
    PROVE  Along(Arranged(data, positions, order), field, reversed)
<1> DEFINE rows == Arranged(data, positions, order)
<1>1. IsFiniteSet(positions)
  BY FS_Interval, FS_Subset
<1>2. PICK pos : Arranges(pos, positions, order) /\ rows = Picked(data, pos)
  BY <1>1, ArrangedOnce
<1> HIDE DEF rows
<1>3. DOMAIN rows = DOMAIN pos /\ \A k \in DOMAIN pos : rows[k] = data[pos[k]] /\ pos[k] \in positions
  BY <1>2 DEF Picked, Arranges
<1>4. ASSUME NEW k \in DOMAIN rows, NEW l \in DOMAIN rows, k < l
      PROVE  IF reversed THEN Place[rows[k][field]] >= Place[rows[l][field]]
             ELSE Place[rows[k][field]] <= Place[rows[l][field]]
  <2>1. /\ pos[k] \in positions /\ pos[l] \in positions
        /\ pos[k] # pos[l] /\ <<pos[k], pos[l]>> \in order
    BY <1>2, <1>3, <1>4 DEF Arranges
  <2>2. IF reversed THEN Place[data[pos[k]][field]] >= Place[data[pos[l]][field]]
        ELSE Place[data[pos[k]][field]] <= Place[data[pos[l]][field]]
    BY <2>1, Zenon
  <2> QED BY <1>3, <2>2
<1>5. Along(rows, field, reversed)
  BY <1>4, Zenon DEF Along
<1> QED BY <1>5 DEF rows

LEMMA SortedRows ==
    ASSUME NEW data \in Seq(RowData), NEW field \in Columns, NEW reversed \in BOOLEAN
    PROVE  LET rows == Sorted(data, field, reversed) IN
           /\ rows \in Seq(RowData) /\ Len(rows) = Len(data)
           /\ \A row : Times(row, rows) <= Times(row, data)
           /\ Along(rows, field, reversed)
<1> DEFINE order == ByColumn(data, field, reversed)
<1>1. IsOrder(order, DOMAIN data)
  BY ByColumnIsOrder
<1>2. Cardinality(DOMAIN data) = Len(data)
  BY FS_Interval
<1>3. ASSUME NEW i \in DOMAIN data, NEW j \in DOMAIN data, <<i, j>> \in order
      PROVE  IF reversed THEN Place[data[i][field]] >= Place[data[j][field]]
             ELSE Place[data[i][field]] <= Place[data[j][field]]
  <2>1. data[i] \in [Fields -> Text] /\ data[j] \in [Fields -> Text] /\ field \in Fields
    BY DEF RowData, Columns, Fields
  <2>2. Place[data[i][field]] \in Nat /\ Place[data[j][field]] \in Nat
    BY <2>1, TextAssumption
  <2>3. \/ Place[data[i][field]] = Place[data[j][field]]
        \/ IF reversed THEN Place[data[j][field]] < Place[data[i][field]]
           ELSE Place[data[i][field]] < Place[data[j][field]]
    BY <1>3 DEF ByColumn
  <2> QED BY <2>2, <2>3
<1> HIDE DEF order
<1>4. Along(Arranged(data, DOMAIN data, order), field, reversed)
  BY <1>1, <1>3, ArrangedAlong
<1> QED BY <1>1, <1>2, <1>4, ArrangedRows DEF Sorted, order

LEMMA FilteredRows ==
    ASSUME NEW data \in Seq(RowData), data # <<>>, NEW search \in Queries
    PROVE  LET rows == FilterData(data, search) IN
           /\ rows \in Seq(RowData)
           /\ \A row : Times(row, rows) <= Times(row, data)
           /\ search = NoText => Len(rows) = Len(data)
           /\ \A field, reversed : Along(data, field, reversed) => Along(rows, field, reversed)
<1> DEFINE found == {i \in DOMAIN data :
                        \E key \in DOMAIN data[1] : data[i][key] \in Contains[search]}
           order == {p \in found \X found : p[1] <= p[2]}
           rows == Arranged(data, found, order)
<1>1. found \in SUBSET (DOMAIN data)
  OBVIOUS
<1>2. \A i, j \in found : <<i, j>> \in order <=> i <= j
  OBVIOUS
<1>3. IsOrder(order, found)
  <2> HIDE DEF order, found
  <2> QED BY <1>1, <1>2 DEF IsOrder
<1>4. ASSUME search = NoText
      PROVE  Cardinality(found) = Len(data)
  <2>1. 1 \in DOMAIN data /\ \A i \in DOMAIN data : data[i] \in [Fields -> Text]
    BY DEF RowData
  <2>2. "name" \in DOMAIN data[1] /\ \A i \in DOMAIN data : data[i]["name"] \in Text
    BY <2>1 DEF Fields
  <2>3. found = DOMAIN data
    BY <1>4, <2>2, TextAssumption
  <2> QED BY <2>3, FS_Interval
<1> HIDE DEF order, found
<1>5. ASSUME NEW field, NEW reversed, Along(data, field, reversed)
      PROVE  Along(rows, field, reversed)
  <2>1. \A i, j \in found :
            i # j /\ <<i, j>> \in order =>
                IF reversed THEN Place[data[i][field]] >= Place[data[j][field]]
                ELSE Place[data[i][field]] <= Place[data[j][field]]
    BY <1>1, <1>2, <1>5 DEF Along
  <2> QED BY <1>1, <1>3, <2>1, ArrangedAlong
<1>6. rows = FilterData(data, search)
  BY DEF FilterData, found, order
<1>7. /\ rows \in Seq(RowData) /\ Len(rows) = Cardinality(found)
      /\ \A row : Times(row, rows) <= Times(row, data)
  BY <1>1, <1>3, ArrangedRows
<1> QED BY <1>4, <1>5, <1>6, <1>7

\* What sortData makes of rows: rows of these, all of them without a search text,
\* in the order of the column.
LEMMA SortedDataRows ==
    ASSUME NEW data \in Seq(RowData), data # <<>>, NEW field \in Columns \cup {None},
           NEW reversed \in BOOLEAN, NEW search \in Queries
    PROVE  LET rows == SortData(data, field, reversed, search) IN
           /\ rows \in Seq(RowData)
           /\ OnlyRowsOf(rows, data)
           /\ search = NoText => Len(rows) = Len(data)
           /\ field # None => Along(rows, field, reversed)
<1> DEFINE mid == IF field = None THEN data ELSE Sorted(data, field, reversed)
           rows == FilterData(mid, search)
<1>1. /\ mid \in Seq(RowData) /\ Len(mid) = Len(data)
      /\ \A row : Times(row, mid) <= Times(row, data)
      /\ field # None => Along(mid, field, reversed)
  <2>1. CASE field = None
    <3>1. \A row : Times(row, data) \in Nat
      BY TimesType
    <3> QED BY <2>1, <3>1
  <2>2. CASE field # None
    BY <2>2, SortedRows
  <2> QED BY <2>1, <2>2
<1> HIDE DEF mid
<1>2. mid # <<>>
  BY <1>1
<1>3. /\ rows \in Seq(RowData)
      /\ \A row : Times(row, rows) <= Times(row, mid)
      /\ search = NoText => Len(rows) = Len(mid)
      /\ field # None => Along(rows, field, reversed)
  BY <1>1, <1>2, FilteredRows
<1>4. \A row : Times(row, rows) \in Nat /\ Times(row, mid) \in Nat /\ Times(row, data) \in Nat
  BY <1>1, <1>3, TimesType
<1>5. OnlyRowsOf(rows, data)
  BY <1>1, <1>3, <1>4 DEF OnlyRowsOf
<1>6. rows = SortData(data, field, reversed, search)
  BY DEF SortData, mid
<1> HIDE DEF rows
<1> QED BY <1>1, <1>3, <1>5, <1>6

-----------------------------------------------------------------------------
(* What the entries of the query cache keep. *)

\* What the page can have of the inspectors of a namespace.
Lists == {NotAList} \cup SUBSET Inspector

\* The row is of namespace n and tells the list v.
RowTells(row, n, v) ==
    LET i == Find(v, row.name) IN
    /\ row \in RowData
    /\ row.namespace = n /\ row.name \in Deployments
    /\ v # None
    /\ row.monitored = IF i = None THEN FALSEText ELSE TRUEText
    /\ i # None => row.inspectorName = i.name
    /\ i # None /\ i.status # NoText => row.status = i.status

RowsTell(rows, n, v) == rows \in Seq(RowData) /\ \A k \in DOMAIN rows : RowTells(rows[k], n, v)

\* The entry of the deployments of namespace n with the versions v.
GoodDeployments(e, n, v) ==
    /\ e.data # None => RowsTell(e.data, n, v)
    /\ e.fetch # None =>
        /\ e.fetch.closure.namespace = n
        /\ e.fetch.closure.items \in Lists \ {None}
        /\ Versions(e.fetch.closure.items) = v

GoodInspectors(e) ==
    /\ e.data \in Lists \cup {None}
    /\ e.fetch # None =>
        e.fetch.closure \in Namespaces /\ e.fetch.reply \in Lists \cup {None}

GoodServices(e) ==
    /\ e.data \in {None} \cup SUBSET Services
    /\ e.fetch # None => e.fetch.closure \in Namespaces

Good(c) ==
    /\ \A n \in Namespaces : GoodInspectors(EntryOf(c, InspectorsKey(n)))
    /\ \A n \in Namespaces : \A v : GoodDeployments(EntryOf(c, <<"deployments", n, v>>), n, v)
    /\ GoodServices(EntryOf(c, ServicesKey))

LEMMA KeysDiffer ==
    /\ \A n : InspectorsKey(n) # NamespacesKey /\ InspectorsKey(n) # ServicesKey
    /\ \A n, m : InspectorsKey(n) = InspectorsKey(m) => n = m
    /\ \A n, m, v : <<"deployments", n, v>> # InspectorsKey(m)
    /\ \A n, v : <<"deployments", n, v>> # NamespacesKey /\ <<"deployments", n, v>> # ServicesKey
    /\ \A n, v, m, w : <<"deployments", n, v>> = <<"deployments", m, w>> => n = m /\ v = w
    /\ NamespacesKey # ServicesKey
BY DEF InspectorsKey, NamespacesKey, ServicesKey

LEMMA EntryOfPut ==
    ASSUME NEW c, NEW k, NEW e, NEW j
    PROVE  EntryOf(Put(c, k, e), j) = IF j = k THEN e ELSE EntryOf(c, j)
BY DEF EntryOf, Put

LEMMA EntryOfCollected ==
    ASSUME NEW c, NEW kept, NEW j
    PROVE  EntryOf(Collected(c, kept), j) =
                IF j \in kept \/ IsFetching(c, j) THEN EntryOf(c, j) ELSE Blank
BY DEF EntryOf, Collected, IsFetching, Blank

\* A fetch changes what is in flight of its own key, and leaves the data.
LEMMA FetchEffect ==
    ASSUME NEW c, NEW key, NEW closure, NEW condition
    PROVE  LET c1 == FetchIf(condition, c, key, closure) IN
           /\ \A j : j # key => EntryOf(c1, j) = EntryOf(c, j)
           /\ \A j : DataOf(c1, j) = DataOf(c, j)
           /\ \/ EntryOf(c1, key) = EntryOf(c, key)
              \/ condition /\ EntryOf(c1, key).fetch = FetchOf(closure)
           /\ condition => EntryOf(c, key).fetch # None \/ EntryOf(c1, key).fetch = FetchOf(closure)
<1> DEFINE old == EntryOf(c, key)
           new == [data |-> old.data, failed |-> old.failed /\ old.data # None,
                   fetch |-> FetchOf(closure)]
           c1 == FetchIf(condition, c, key, closure)
<1>1. CASE ~condition \/ old.fetch # None
  <2>1. c1 = c
    BY <1>1 DEF FetchIf, Fetch
  <2> QED BY <1>1, <2>1
<1>2. CASE condition /\ old.fetch = None
  <2>1. c1 = Put(c, key, new)
    BY <1>2 DEF FetchIf, Fetch
  <2>2. new.data = old.data /\ new.fetch = FetchOf(closure)
    OBVIOUS
  <2> HIDE DEF new, c1
  <2>3. \A j : EntryOf(c1, j) = IF j = key THEN new ELSE EntryOf(c, j)
    BY <2>1, EntryOfPut
  <2> QED BY <1>2, <2>2, <2>3 DEF DataOf, c1
<1> QED BY <1>1, <1>2

LEMMA FetchStarts ==
    ASSUME NEW c, NEW key, NEW closure, FetchOf(closure) # None
    PROVE  IsFetching(Fetch(c, key, closure), key)
BY EntryOfPut DEF Fetch, IsFetching

LEMMA FetchIsSome ==
    ASSUME NEW n \in Namespaces
    PROVE  FetchOf(n) # None
BY NoneAssumption DEF FetchOf

LEMMA FetchNamespacesGood ==
    ASSUME NEW c, Good(c), NEW condition
    PROVE  Good(FetchIf(condition, c, NamespacesKey, None))
BY FetchEffect, KeysDiffer DEF Good

LEMMA FetchInspectorsGood ==
    ASSUME NEW c, Good(c), NEW condition, NEW n \in Namespaces
    PROVE  Good(FetchIf(condition, c, InspectorsKey(n), n))
<1> DEFINE c1 == FetchIf(condition, c, InspectorsKey(n), n)
<1>1. /\ \A j : j # InspectorsKey(n) => EntryOf(c1, j) = EntryOf(c, j)
      /\ \A j : EntryOf(c1, j).data = EntryOf(c, j).data
      /\ EntryOf(c1, InspectorsKey(n)) # EntryOf(c, InspectorsKey(n)) =>
            EntryOf(c1, InspectorsKey(n)).fetch = FetchOf(n)
  BY FetchEffect DEF DataOf
<1>2. FetchOf(n).reply = None /\ FetchOf(n).closure = n
  BY DEF FetchOf
<1> HIDE DEF c1
<1>3. GoodInspectors(EntryOf(c1, InspectorsKey(n)))
  BY <1>1, <1>2 DEF Good, GoodInspectors
<1>4. Good(c1)
  BY <1>1, <1>3, KeysDiffer DEF Good
<1> QED BY <1>4 DEF c1

LEMMA FetchServicesGood ==
    ASSUME NEW c, Good(c), NEW condition, NEW n, condition => n \in Namespaces
    PROVE  Good(FetchIf(condition, c, ServicesKey, n))
<1> DEFINE c1 == FetchIf(condition, c, ServicesKey, n)
<1>1. /\ \A j : j # ServicesKey => EntryOf(c1, j) = EntryOf(c, j)
      /\ EntryOf(c1, ServicesKey).data = EntryOf(c, ServicesKey).data
      /\ \/ EntryOf(c1, ServicesKey) = EntryOf(c, ServicesKey)
         \/ condition /\ EntryOf(c1, ServicesKey).fetch = FetchOf(n)
  BY FetchEffect DEF DataOf
<1>2. FetchOf(n).closure = n
  BY DEF FetchOf
<1> HIDE DEF c1
<1>3. GoodServices(EntryOf(c1, ServicesKey))
  BY <1>1, <1>2 DEF Good, GoodServices
<1>4. Good(c1)
  BY <1>1, <1>3, KeysDiffer DEF Good
<1> QED BY <1>4 DEF c1

\* The deployments are fetched by a render that has a list of the versions in the key.
LEMMA FetchDeploymentsGood ==
    ASSUME NEW c, Good(c), NEW n \in Namespaces, NEW b, Good(b), NEW condition,
           condition => Enabled(b, n)
    PROVE  Good(FetchIf(condition, c, CurrentKey(b, n), Closure(b, n)))
<1> DEFINE items == DataOf(b, InspectorsKey(n))
           v == Versions(items)
           key == <<"deployments", n, v>>
           closure == Closure(b, n)
           c1 == FetchIf(condition, c, key, closure)
<1>1. /\ \A j : j # key => EntryOf(c1, j) = EntryOf(c, j)
      /\ EntryOf(c1, key).data = EntryOf(c, key).data
      /\ \/ EntryOf(c1, key) = EntryOf(c, key)
         \/ condition /\ EntryOf(c1, key).fetch = FetchOf(closure)
  BY FetchEffect DEF DataOf
<1>2. FetchOf(closure).closure = closure /\ closure.namespace = n /\ closure.items = items
  BY DEF FetchOf, Closure
<1>3. condition => items \in Lists \ {None}
  BY DEF Enabled, IsSuccess, Good, GoodInspectors, DataOf
<1>4. key = CurrentKey(b, n)
  BY DEF CurrentKey, DeploymentsKey
<1> HIDE DEF closure, items, key, c1
<1>5. GoodDeployments(EntryOf(c1, key), n, v)
  <2>1. GoodDeployments(EntryOf(c, key), n, v)
    BY DEF Good, key
  <2> QED BY <1>1, <1>2, <1>3, <2>1 DEF GoodDeployments
<1>6. \A m \in Namespaces : \A w :
        <<"deployments", m, w>> # key => EntryOf(c1, <<"deployments", m, w>>) = EntryOf(c, <<"deployments", m, w>>)
  BY <1>1
<1>7. \A m \in Namespaces : \A w : <<"deployments", m, w>> = key => m = n /\ w = v
  BY KeysDiffer DEF key
<1>8. key # ServicesKey /\ \A m : key # InspectorsKey(m)
  BY KeysDiffer DEF key
<1>9. Good(c1)
  BY <1>1, <1>5, <1>6, <1>7, <1>8 DEF Good
<1> QED BY <1>4, <1>9 DEF c1, closure

\* What a render starts leaves the data, and the services alone.
LEMMA ObserveGood ==
    ASSUME NEW c, Good(c), Good(cache), NEW n \in Namespaces
    PROVE  /\ Good(Observe(c, n))
           /\ \A j : DataOf(Observe(c, n), j) = DataOf(c, j)
           /\ EntryOf(Observe(c, n), ServicesKey) = EntryOf(c, ServicesKey)
<1> DEFINE c0 == FetchIf(selected = None, c, NamespacesKey, None)
           c1 == FetchIf(n # selected, c0, InspectorsKey(n), n)
           wanted == Enabled(c1, n) /\
                        (CurrentKey(c1, n) # CurrentKey(cache, selected) \/ ~Enabled(cache, selected))
           c2 == FetchIf(wanted, c1, CurrentKey(c1, n), Closure(c1, n))
<1>1. c2 = Observe(c, n)
  BY DEF Observe
<1>2. Good(c0) /\ \A j : DataOf(c0, j) = DataOf(c, j)
  BY FetchNamespacesGood, FetchEffect
<1>3. EntryOf(c0, ServicesKey) = EntryOf(c, ServicesKey)
  BY FetchEffect, KeysDiffer
<1> HIDE DEF c0
<1>4. Good(c1) /\ \A j : DataOf(c1, j) = DataOf(c0, j)
  BY <1>2, FetchInspectorsGood, FetchEffect
<1>5. EntryOf(c1, ServicesKey) = EntryOf(c0, ServicesKey)
  BY FetchEffect, KeysDiffer
<1>6. wanted => Enabled(c1, n)
  OBVIOUS
<1> HIDE DEF c1, wanted
<1>7. Good(c2) /\ \A j : DataOf(c2, j) = DataOf(c1, j)
  BY <1>4, <1>6, FetchDeploymentsGood, FetchEffect
<1>8. EntryOf(c2, ServicesKey) = EntryOf(c1, ServicesKey)
  <2>1. CurrentKey(c1, n) # ServicesKey
    BY KeysDiffer DEF CurrentKey, DeploymentsKey
  <2> QED BY <2>1, FetchEffect
<1> HIDE DEF c2
<1> QED BY <1>1, <1>2, <1>3, <1>4, <1>5, <1>7, <1>8

\* The first inspector of a deployment, in the order of the names, exists.
LEMMA FindFinds ==
    ASSUME NEW items \in SUBSET Inspector, NEW d
    PROVE  /\ Find(items, d) \in Inspector \cup {None}
           /\ (\E i \in items : i.deployment = d) => Find(items, d) # None
<1> DEFINE found == {i \in items : i.deployment = d}
           places == {Place[i.name] : i \in found}
<1>1. CASE found = {}
  BY <1>1 DEF Find
<1>2. CASE found # {}
  <2>1. \A i \in found : i \in Inspector /\ Place[i.name] \in Nat
    <3>1. \A i \in found : i \in Inspector /\ i.name \in Names
      BY DEF Inspector
    <3> QED BY <3>1, SettingsAssumption, TextAssumption
  <2>2. places \subseteq Nat /\ places # {}
    BY <1>2, <2>1
  <2>3. PICK least \in places : \A y \in places : ~(<<y, least>> \in OpToRel(<, Nat))
    BY <2>2, NatLessThanWellFounded, WFMin
  <2>4. PICK i \in found : Place[i.name] = least
    OBVIOUS
  <2>5. ASSUME NEW j \in found
        PROVE  Place[i.name] <= Place[j.name]
    <3>1. Place[j.name] \in places
      OBVIOUS
    <3>2. ~(<<Place[j.name], least>> \in OpToRel(<, Nat))
      BY <2>3, <3>1
    <3>3. ~(Place[j.name] < least)
      BY <2>1, <2>2, <3>2 DEF OpToRel
    <3> QED BY <2>1, <2>4, <3>3
  <2> HIDE DEF found
  <2>6. (CHOOSE i_1 \in found : \A j \in found : Place[i_1.name] <= Place[j.name]) \in found
    BY <2>5
  <2>7. Find(items, d) \in found
    BY <1>2, <2>6 DEF Find, found
  <2> QED BY <2>1, <2>7, NoneAssumption
<1> QED BY <1>1, <1>2

ReadyType == ready \in [Namespaces -> [Deployments -> Ready]]

\* The rows made of a list tell it.
LEMMA RowsOfTell ==
    ASSUME ReadyType, NEW n \in Namespaces, NEW items \in Lists \ {None},
           ~(items = NotAList /\ DeployedIn[n] # <<>>)
    PROVE  RowsTell(RowsOf(n, items), n, Versions(items))
<1> DEFINE rows == RowsOf(n, items)
<1>1. DeployedIn[n] \in Seq(Text)
  BY SettingsAssumption
<1>2. CASE items = NotAList
  <2>1. rows = <<>>
    BY <1>1, <1>2 DEF RowsOf
  <2> QED BY <2>1 DEF RowsTell
<1>3. CASE items # NotAList
  <2>1. items \in SUBSET Inspector /\ Versions(items) = items /\ items # None
    BY <1>3 DEF Lists, Versions
  <2>2. ASSUME NEW k \in DOMAIN DeployedIn[n]
        PROVE  RowTells(rows[k], n, items)
    <3> DEFINE d == DeployedIn[n][k]
               i == Find(items, d)
    <3>1. rows[k] = Row(n, d, i)
      BY DEF RowsOf
    <3>2. d \in Text /\ d \in Deployments
      BY <1>1 DEF Deployments
    <3>3. i \in Inspector \cup {None}
      BY <2>1, FindFinds
    <3>4. i # None => /\ i.name \in Text
                      /\ i.service # NoText => i.service \in Text
                      /\ i.status # NoText => i.status \in Text
      BY <3>3, SettingsAssumption DEF Inspector, Services
    <3>5. {ready[n][d], n, NotAvailable, TRUEText, FALSEText, Undefined} \subseteq Text
      BY <3>2, SettingsAssumption DEF ReadyType
    <3> HIDE DEF d, i
    <3>6. Row(n, d, i) \in RowData
      BY <3>2, <3>4, <3>5 DEF Row, RowData, Fields
    <3>7. /\ Row(n, d, i).namespace = n /\ Row(n, d, i).name = d
          /\ Row(n, d, i).monitored = IF i = None THEN FALSEText ELSE TRUEText
          /\ i # None => Row(n, d, i).inspectorName = i.name
          /\ i # None /\ i.status # NoText => Row(n, d, i).status = i.status
      BY DEF Row
    <3>8. i = Find(items, d)
      BY DEF i
    <3> QED BY <2>1, <3>1, <3>2, <3>6, <3>7, <3>8 DEF RowTells
  <2>3. rows \in Seq(RowData) /\ DOMAIN rows = DOMAIN DeployedIn[n]
    <3>1. DOMAIN rows = 1..Len(DeployedIn[n]) /\ Len(DeployedIn[n]) \in Nat
      BY <1>1 DEF RowsOf
    <3>2. \A k \in DOMAIN rows : rows[k] \in RowData
      BY <1>1, <2>2, <3>1 DEF RowTells
    <3>3. rows = [k \in 1..Len(DeployedIn[n]) |-> rows[k]]
      BY <1>1 DEF RowsOf
    <3> HIDE DEF rows
    <3> QED BY <1>1, <3>1, <3>2, <3>3
  <2> HIDE DEF rows
  <2> QED BY <2>1, <2>2, <2>3 DEF RowsTell, rows
<1> QED BY <1>2, <1>3

LEMMA RejectGood ==
    ASSUME NEW c, Good(c), NEW key
    PROVE  Good(Reject(c, key))
<1> DEFINE new == [data |-> DataOf(c, key), failed |-> TRUE, fetch |-> None]
           c1 == Put(c, key, new)
<1>1. \A j : EntryOf(c1, j) = IF j = key THEN new ELSE EntryOf(c, j)
  BY EntryOfPut
<1>2. new.data = EntryOf(c, key).data /\ new.fetch = None
  BY DEF DataOf
<1> HIDE DEF new, c1
<1>3. \A j : EntryOf(c1, j).data = EntryOf(c, j).data
             /\ (EntryOf(c1, j).fetch # None => EntryOf(c1, j).fetch = EntryOf(c, j).fetch)
  BY <1>1, <1>2
<1>4. Good(c1)
  BY <1>3 DEF Good, GoodInspectors, GoodDeployments, GoodServices
<1> QED BY <1>4 DEF c1, new, Reject

LEMMA ResolveEffect ==
    ASSUME NEW c, NEW key, NEW data
    PROVE  LET c1 == Resolve(c, key, data) IN
           /\ \A j : j # key => EntryOf(c1, j) = EntryOf(c, j)
           /\ EntryOf(c1, key).data = data /\ EntryOf(c1, key).fetch = None
BY EntryOfPut DEF Resolve

LEMMA ResolveNamespacesGood ==
    ASSUME NEW c, Good(c), NEW data
    PROVE  Good(Resolve(c, NamespacesKey, data))
BY ResolveEffect, KeysDiffer DEF Good

LEMMA ResolveServicesGood ==
    ASSUME NEW c, Good(c), NEW data \in SUBSET Services
    PROVE  Good(Resolve(c, ServicesKey, data))
<1> DEFINE c1 == Resolve(c, ServicesKey, data)
<1>1. /\ \A j : j # ServicesKey => EntryOf(c1, j) = EntryOf(c, j)
      /\ EntryOf(c1, ServicesKey).data = data /\ EntryOf(c1, ServicesKey).fetch = None
  BY ResolveEffect
<1> HIDE DEF c1
<1>2. GoodServices(EntryOf(c1, ServicesKey))
  BY <1>1 DEF GoodServices
<1>3. Good(c1)
  BY <1>1, <1>2, KeysDiffer DEF Good
<1> QED BY <1>3 DEF c1

LEMMA ResolveInspectorsGood ==
    ASSUME NEW c, Good(c), NEW n \in Namespaces, NEW data \in Lists \cup {None}
    PROVE  Good(Resolve(c, InspectorsKey(n), data))
<1> DEFINE key == InspectorsKey(n)
           c1 == Resolve(c, key, data)
<1>1. /\ \A j : j # key => EntryOf(c1, j) = EntryOf(c, j)
      /\ EntryOf(c1, key).data = data /\ EntryOf(c1, key).fetch = None
  BY ResolveEffect
<1> HIDE DEF c1
<1>2. GoodInspectors(EntryOf(c1, key))
  BY <1>1 DEF GoodInspectors
<1>3. Good(c1)
  BY <1>1, <1>2, KeysDiffer DEF Good
<1> QED BY <1>3 DEF c1

LEMMA ReplyGood ==
    ASSUME NEW c, Good(c), NEW n \in Namespaces, NEW value \in Lists,
           IsFetching(c, InspectorsKey(n))
    PROVE  /\ Good(Reply(c, InspectorsKey(n), value))
           /\ \A j : DataOf(Reply(c, InspectorsKey(n), value), j) = DataOf(c, j)
           /\ EntryOf(Reply(c, InspectorsKey(n), value), ServicesKey) = EntryOf(c, ServicesKey)
<1> DEFINE key == InspectorsKey(n)
           old == EntryOf(c, key)
           new == [data |-> old.data, failed |-> old.failed,
                   fetch |-> [closure |-> old.fetch.closure, reply |-> value]]
           c1 == Put(c, key, new)
<1>1. \A j : EntryOf(c1, j) = IF j = key THEN new ELSE EntryOf(c, j)
  BY EntryOfPut
<1>2. new.data = old.data /\ new.fetch.reply = value /\ new.fetch.closure = old.fetch.closure
  OBVIOUS
<1>3. c1 = Reply(c, key, value)
  BY DEF Reply
<1> HIDE DEF new, c1
<1>4. GoodInspectors(EntryOf(c1, key))
  BY <1>1, <1>2 DEF Good, GoodInspectors, IsFetching
<1>5. Good(c1)
  BY <1>1, <1>4, KeysDiffer DEF Good
<1>6. EntryOf(c1, ServicesKey) = EntryOf(c, ServicesKey)
  BY <1>1, KeysDiffer
<1>7. \A j : DataOf(c1, j) = DataOf(c, j)
  BY <1>1, <1>2 DEF DataOf
<1> HIDE DEF key
<1> QED BY <1>3, <1>5, <1>6, <1>7 DEF key

\* The rows of an answer are of the namespace and of the versions in the key.
LEMMA WithRowsGood ==
    ASSUME Good(cache), ReadyType, NEW n \in Namespaces, NEW seen,
           seen.namespace = n, seen.items \in Lists \ {None}
    PROVE  Good(WithRows(<<"deployments", n, Versions(seen.items)>>, seen))
<1> DEFINE v == Versions(seen.items)
           key == <<"deployments", n, v>>
           data == RowsOf(n, seen.items)
           c1 == Resolve(cache, key, data)
<1>1. CASE seen.items = NotAList /\ DeployedIn[n] # <<>>
  BY <1>1, RejectGood DEF WithRows
<1>2. CASE ~(seen.items = NotAList /\ DeployedIn[n] # <<>>)
  <2>1. RowsTell(data, n, v)
    BY <1>2, RowsOfTell
  <2>2. /\ \A j : j # key => EntryOf(c1, j) = EntryOf(cache, j)
        /\ EntryOf(c1, key).data = data /\ EntryOf(c1, key).fetch = None
    BY ResolveEffect
  <2>3. c1 = WithRows(key, seen)
    BY <1>2 DEF WithRows
  <2>4. \A m, w : <<"deployments", m, w>> = key => m = n /\ w = v
    BY KeysDiffer
  <2>5. key # ServicesKey /\ \A m : key # InspectorsKey(m)
    BY KeysDiffer
  <2> HIDE DEF c1, key, data, v
  <2>6. GoodDeployments(EntryOf(c1, key), n, v)
    BY <2>1, <2>2 DEF GoodDeployments
  <2>7. Good(c1)
    BY <2>2, <2>4, <2>5, <2>6 DEF Good
  <2> QED BY <2>3, <2>7 DEF key, v
<1> QED BY <1>1, <1>2

LEMMA AnyRowsGood ==
    ASSUME Good(cache), ReadyType, NEW key, key[1] = "deployments", IsFetching(cache, key)
    PROVE  Good(WithRows(key, EntryOf(cache, key).fetch.closure))
<1> DEFINE seen == EntryOf(cache, key).fetch.closure
<1>1. CASE \E n \in Namespaces : \E v : key = <<"deployments", n, v>>
  <2>1. PICK n \in Namespaces : \E v : key = <<"deployments", n, v>>
    BY <1>1
  <2>2. PICK v : key = <<"deployments", n, v>>
    BY <2>1
  <2>3. GoodDeployments(EntryOf(cache, key), n, v)
    BY <2>2 DEF Good
  <2>4. seen.namespace = n /\ seen.items \in Lists \ {None} /\ Versions(seen.items) = v
    BY <2>3 DEF GoodDeployments, IsFetching
  <2> QED BY <2>2, <2>4, WithRowsGood
<1>2. CASE ~\E n \in Namespaces : \E v : key = <<"deployments", n, v>>
  <2> DEFINE c1 == Resolve(cache, key, RowsOf(seen.namespace, seen.items))
  <2>1. \A j : j # key => EntryOf(c1, j) = EntryOf(cache, j)
    BY ResolveEffect
  <2>2. key # ServicesKey /\ \A m : key # InspectorsKey(m)
    BY DEF ServicesKey, InspectorsKey
  <2> HIDE DEF c1
  <2>3. Good(c1)
    BY <1>2, <2>1, <2>2 DEF Good
  <2> QED BY <2>3, RejectGood DEF WithRows, c1
<1> QED BY <1>1, <1>2

-----------------------------------------------------------------------------
(* What the page keeps. *)

\* The table shows rows of the data, and is on the page of a namespace.
GoodTable(t, data, n) ==
    /\ t \in TableSort
    /\ ~t.mounted => t.sortedData = <<>>
    /\ t.mounted =>
        /\ n # None
        /\ OnlyRowsOf(t.sortedData, Rows(data))
        /\ t.search = NoText => Len(t.sortedData) = Len(Rows(data))

\* What this cache offers is of the namespace of the page, as long as buttons of the
\* table observe the services.
OffersOwn(c) ==
    /\ ~carried /\ Monitors(table) # {}
    /\ ~IsFetching(c, ServicesKey) /\ ~IsError(c, ServicesKey)
    => DataOf(c, ServicesKey) = None \/ DataOf(c, ServicesKey) \subseteq ServicesIn[selected]

CarriedTells ==
    IsFetching(cache, ServicesKey) /\ ~carried =>
        EntryOf(cache, ServicesKey).fetch.closure = selected

Page ==
    /\ selected \in Namespaces \cup {None}
    /\ GoodTable(table, TableData, selected)
    /\ dialog # None => dialog \in Monitors(table)
    /\ CarriedTells
    /\ OffersOwn(cache)

LEMMA GoodDataTells ==
    ASSUME NEW c, Good(c), NEW n \in Namespaces
    PROVE  RowsTell(Rows(DataOf(c, CurrentKey(c, n))), n, Versions(DataOf(c, InspectorsKey(n))))
<1> DEFINE v == Versions(DataOf(c, InspectorsKey(n)))
<1>1. GoodDeployments(EntryOf(c, <<"deployments", n, v>>), n, v)
  BY DEF Good
<1>2. CurrentKey(c, n) = <<"deployments", n, v>>
  BY DEF CurrentKey, DeploymentsKey
<1> HIDE DEF v
<1>3. RowsTell(<<>>, n, v)
  BY DEF RowsTell
<1>4. RowsTell(Rows(DataOf(c, CurrentKey(c, n))), n, v)
  BY <1>1, <1>2, <1>3 DEF GoodDeployments, DataOf, Rows
<1> QED BY <1>4 DEF v

LEMMA ShownRowsTell ==
    ASSUME NEW t, NEW data, NEW n, NEW v, GoodTable(t, data, n), RowsTell(Rows(data), n, v),
           NEW k \in DOMAIN t.sortedData
    PROVE  t.mounted /\ RowTells(t.sortedData[k], n, v)
<1> DEFINE shown == t.sortedData
           all == Rows(data)
           row == shown[k]
<1>1. shown \in Seq(RowData) /\ all \in Seq(RowData)
  BY DEF GoodTable, TableSort, RowsTell
<1>2. t.mounted
  BY DEF GoodTable
<1>3. Times(row, shown) <= Times(row, all) /\ Times(row, shown) \in Nat /\ Times(row, all) \in Nat
  BY <1>1, <1>2, TimesType DEF GoodTable, OnlyRowsOf
<1>4. Times(row, shown) # 0
  <2>1. IsFiniteSet({i \in DOMAIN shown : shown[i] = row})
    BY <1>1, TimesType
  <2>2. {i \in DOMAIN shown : shown[i] = row} # {}
    OBVIOUS
  <2> QED BY <2>1, <2>2, FS_EmptySet DEF Times
<1>5. Times(row, all) # 0
  BY <1>3, <1>4
<1>6. {i \in DOMAIN all : all[i] = row} # {}
  BY <1>5, FS_EmptySet DEF Times
<1> QED BY <1>2, <1>6 DEF RowsTell

LEMMA MonitorsTell ==
    ASSUME NEW t, NEW data, NEW n, NEW v, GoodTable(t, data, n), RowsTell(Rows(data), n, v),
           NEW m \in Monitors(t)
    PROVE  t.mounted /\ m[1] = n /\ m[2] \in Deployments /\ m = <<m[1], m[2]>>
<1>1. PICK k \in DOMAIN t.sortedData : m = <<t.sortedData[k].namespace, t.sortedData[k].name>>
  BY DEF Monitors
<1>2. t.mounted /\ RowTells(t.sortedData[k], n, v)
  BY ShownRowsTell
<1> QED BY <1>1, <1>2 DEF RowTells

LEMMA NoMonitors ==
    ASSUME NEW t, NEW data, NEW n, GoodTable(t, data, n), ~t.mounted
    PROVE  Monitors(t) = {}
BY DEF GoodTable, Monitors

LEMMA CollectedGood ==
    ASSUME NEW c, Good(c), NEW kept
    PROVE  Good(Collected(c, kept))
<1>1. \A j : EntryOf(Collected(c, kept), j) \in {EntryOf(c, j), Blank}
  BY EntryOfCollected
<1>2. Blank.data = None /\ Blank.fetch = None
  BY DEF Blank
<1>3. GoodInspectors(Blank) /\ GoodServices(Blank) /\ \A n, v : GoodDeployments(Blank, n, v)
  BY <1>2 DEF GoodInspectors, GoodServices, GoodDeployments
<1> QED BY <1>1, <1>3 DEF Good

\* Whatever is displayed, from good entries: the page is good again.
LEMMA DisplayGood ==
    ASSUME Good(cache), Page, NEW c, Good(c), OffersOwn(c),
           NEW n \in Namespaces \cup {None}, NEW t, NEW d,
           GoodTable(t, DataOf(c, CurrentKey(c, n)), n),
           Display(c, n, t, d)
    PROVE  Good(cache') /\ Page'
<1> DEFINE new == Monitors(t) \ Monitors(table)
           c1 == AskServices(c, new)
           m == CHOOSE m_1 \in new : TRUE
           idle == DOMAIN c1 \ InUse(c, n, t)
           late == {k \in idle : IsFetching(c1, k)}
<1>1. /\ selected' = n /\ table' = t
      /\ dialog' = IF d \in Monitors(t) THEN d ELSE None
      /\ carried' = IF IsFetching(c1, ServicesKey) THEN c1[ServicesKey].fetch.closure # n ELSE carried
      /\ \E kept \in SUBSET (idle \ late) : cache' = Collected(c1, kept \cup InUse(c, n, t))
  BY DEF Display
<1>2. PICK kept : cache' = Collected(c1, kept \cup InUse(c, n, t))
  BY <1>1
<1>3. ASSUME NEW x \in Monitors(t)
      PROVE  t.mounted /\ n \in Namespaces /\ x[1] = n
  <2>1. t.mounted
    BY NoMonitors
  <2>2. n \in Namespaces
    BY <2>1 DEF GoodTable
  <2> QED BY <2>1, <2>2, GoodDataTells, MonitorsTell
<1>4. ASSUME NEW x \in Monitors(table)
      PROVE  selected \in Namespaces /\ x[1] = selected
  <2>1. table.mounted
    BY NoMonitors DEF Page
  <2>2. selected \in Namespaces
    BY <2>1 DEF Page, GoodTable
  <2> QED BY <2>2, GoodDataTells, MonitorsTell DEF Page, TableData
<1>5. new # {} => m \in Monitors(t) /\ m[1] = n /\ n \in Namespaces
  BY <1>3
<1> DEFINE for == m[1]
           fetched == new # {}
<1>6. c1 = FetchIf(fetched, c, ServicesKey, for)
  BY DEF AskServices
<1> HIDE DEF new, m, idle, late, c1
<1>7. /\ Good(c1)
      /\ \A j : j # ServicesKey => EntryOf(c1, j) = EntryOf(c, j)
      /\ \A j : DataOf(c1, j) = DataOf(c, j)
      /\ new # {} => IsFetching(c1, ServicesKey)
      /\ IsFetching(c1, ServicesKey) \/ EntryOf(c1, ServicesKey) = EntryOf(c, ServicesKey)
  <2>1. Good(c1)
    BY <1>5, <1>6, FetchServicesGood
  <2>2. fetched => FetchOf(for) # None
    BY <1>5, FetchIsSome
  <2> HIDE DEF for, fetched
  <2>3. /\ \A j : j # ServicesKey => EntryOf(c1, j) = EntryOf(c, j)
        /\ \A j : DataOf(c1, j) = DataOf(c, j)
        /\ \/ EntryOf(c1, ServicesKey) = EntryOf(c, ServicesKey)
           \/ fetched /\ EntryOf(c1, ServicesKey).fetch = FetchOf(for)
        /\ fetched => \/ EntryOf(c, ServicesKey).fetch # None
                      \/ EntryOf(c1, ServicesKey).fetch = FetchOf(for)
    BY <1>6, FetchEffect
  <2>4. /\ fetched => IsFetching(c1, ServicesKey)
        /\ IsFetching(c1, ServicesKey) \/ EntryOf(c1, ServicesKey) = EntryOf(c, ServicesKey)
    BY <2>2, <2>3 DEF IsFetching
  <2> QED BY <2>1, <2>3, <2>4 DEF fetched
<1>8. Good(cache')
  BY <1>2, <1>7, CollectedGood
<1>9. \A j : j \in InUse(c, n, t) \/ IsFetching(c1, j) => EntryOf(cache', j) = EntryOf(c1, j)
  BY <1>2, EntryOfCollected
<1>10. \A j : EntryOf(cache', j) \in {EntryOf(c1, j), Blank}
  BY <1>2, EntryOfCollected
<1>11. n # None => DataOf(cache', CurrentKey(cache', n)) = DataOf(c, CurrentKey(c, n))
  <2> SUFFICES ASSUME n # None
               PROVE  DataOf(cache', CurrentKey(cache', n)) = DataOf(c, CurrentKey(c, n))
    OBVIOUS
  <2>1. InspectorsKey(n) \in InUse(c, n, t) /\ CurrentKey(c, n) \in InUse(c, n, t)
    BY DEF InUse
  <2>2. /\ DataOf(cache', InspectorsKey(n)) = DataOf(c, InspectorsKey(n))
        /\ DataOf(cache', CurrentKey(c, n)) = DataOf(c, CurrentKey(c, n))
    BY <1>7, <1>9, <2>1 DEF DataOf
  <2> QED BY <2>2 DEF CurrentKey
<1>12. GoodTable(t, DataOf(cache', CurrentKey(cache', n)), n)
  BY <1>11 DEF GoodTable
<1>13. CarriedTells'
  <2>1. CASE IsFetching(c1, ServicesKey)
    <3>1. EntryOf(cache', ServicesKey) = EntryOf(c1, ServicesKey)
      BY <1>9, <2>1
    <3>2. EntryOf(c1, ServicesKey) = c1[ServicesKey]
      BY <2>1 DEF IsFetching, EntryOf, Blank
    <3>3. carried' = (c1[ServicesKey].fetch.closure # n)
      BY <1>1, <2>1
    <3>4. ~carried' => c1[ServicesKey].fetch.closure = n
      BY <3>3, Zenon
    <3> QED BY <1>1, <3>1, <3>2, <3>4 DEF CarriedTells
  <2>2. CASE ~IsFetching(c1, ServicesKey)
    <3>1. ~IsFetching(cache', ServicesKey)
      BY <1>10, <2>2 DEF IsFetching, Blank
    <3> QED BY <3>1 DEF CarriedTells
  <2> QED BY <2>1, <2>2
<1>14. OffersOwn(cache)'
  <2> SUFFICES ASSUME ~carried', Monitors(t) # {},
                      ~IsFetching(cache', ServicesKey), ~IsError(cache', ServicesKey)
               PROVE  \/ DataOf(cache', ServicesKey) = None
                      \/ DataOf(cache', ServicesKey) \subseteq ServicesIn[n]
    BY <1>1 DEF OffersOwn
  <2>1. PICK x \in Monitors(t) : TRUE
    OBVIOUS
  <2>2. n # None
    BY <1>3, <2>1, SettingsAssumption
  <2>3. ServicesKey \in InUse(c, n, t)
    BY <2>2 DEF InUse
  <2>4. EntryOf(cache', ServicesKey) = EntryOf(c1, ServicesKey) /\ ~IsFetching(c1, ServicesKey)
    BY <1>9, <2>3 DEF IsFetching
  <2>5. new = {} /\ EntryOf(c1, ServicesKey) = EntryOf(c, ServicesKey)
    BY <1>7, <2>4
  <2>6. x \in Monitors(table)
    BY <2>1, <2>5 DEF new
  <2>7. n = selected
    BY <1>3, <1>4, <2>1, <2>6
  <2>8. ~carried
    <3>1. carried' = carried
      BY <1>1, <2>4
    <3> QED BY <3>1, Zenon
  <2>9. ~IsFetching(c, ServicesKey) /\ ~IsError(c, ServicesKey)
    BY <2>4, <2>5 DEF IsFetching, IsError
  <2>10. DataOf(cache', ServicesKey) = DataOf(c, ServicesKey)
    BY <2>4, <2>5 DEF DataOf
  <2> QED BY <2>6, <2>7, <2>8, <2>9, <2>10 DEF OffersOwn
<1>15. Page'
  BY <1>1, <1>12, <1>13, <1>14 DEF Page, TableData
<1> QED BY <1>8, <1>15

LEMMA UnmountedGood ==
    ASSUME NEW data, NEW n
    PROVE  GoodTable(Unmounted, data, n) /\ ~Unmounted.mounted
<1>1. Unmounted \in TableSort
  BY TextAssumption DEF Unmounted, TableSort
<1> QED BY <1>1 DEF GoodTable, Unmounted

\* New rows are shown under the head as it is.
LEMMA ShownDataGood ==
    ASSUME NEW t \in TableSort, NEW data, Rows(data) \in Seq(RowData), NEW n, n # None, t.mounted
    PROVE  /\ GoodTable(NewData(t, data), data, n)
           /\ NewData(t, data).sortBy = t.sortBy /\ NewData(t, data).search = t.search
           /\ NewData(t, data).reversed = t.reversed
<1> DEFINE u == NewData(t, data)
<1>1. /\ u.sortedData = Rows(data) /\ u.mounted = t.mounted /\ u.search = t.search
      /\ u.sortBy = t.sortBy /\ u.reversed = t.reversed
      /\ u \in TableSort
  BY DEF NewData, TableSort
<1>2. OnlyRowsOf(Rows(data), Rows(data))
  <2>1. \A row : Times(row, Rows(data)) \in Nat
    BY TimesType
  <2> QED BY <2>1 DEF OnlyRowsOf
<1> HIDE DEF u
<1>3. GoodTable(u, data, n)
  BY <1>1, <1>2 DEF GoodTable
<1> QED BY <1>1, <1>3 DEF u

LEMMA MountedGood ==
    ASSUME NEW data, Rows(data) \in Seq(RowData), NEW n, n # None
    PROVE  GoodTable(Mounted(data), data, n)
<1> DEFINE u == Mounted(data)
<1>1. u.sortedData = Rows(data) /\ u.mounted /\ u \in TableSort
  BY TextAssumption DEF Mounted, Unmounted, TableSort
<1>2. OnlyRowsOf(Rows(data), Rows(data))
  <2>1. \A row : Times(row, Rows(data)) \in Nat
    BY TimesType
  <2> QED BY <2>1 DEF OnlyRowsOf
<1> HIDE DEF u
<1>3. GoodTable(u, data, n)
  BY <1>1, <1>2 DEF GoodTable
<1> QED BY <1>3 DEF u

HeadKept ==
    table.mounted /\ table'.mounted =>
        <<table'.sortBy, table'.reversed, table'.search>>
            = <<table.sortBy, table.reversed, table.search>>

\* Every render keeps the page good, and the head of its table.
LEMMA CommitGood ==
    ASSUME Good(cache), Page, NEW c, Good(c), OffersOwn(c),
           NEW n \in Namespaces \cup {None}, NEW d, CommitWith(c, n, d)
    PROVE  Good(cache') /\ Page' /\ HeadKept
<1>1. CASE n = None
  <2>1. Display(c, n, Unmounted, None)
    BY <1>1 DEF CommitWith
  <2>2. table' = Unmounted
    BY <2>1 DEF Display
  <2> QED BY <2>1, <2>2, UnmountedGood, DisplayGood DEF HeadKept
<1>2. CASE n # None
  <2> DEFINE c1 == Observe(c, n)
             data == DataOf(c1, CurrentKey(c1, n))
             t == IF View(c1, n) # "table" THEN Unmounted
                  ELSE IF ~table.mounted THEN Mounted(data)
                  ELSE IF data = TableData THEN table ELSE NewData(table, data)
  <2>1. n \in Namespaces /\ Display(c1, n, t, d)
    BY <1>2 DEF CommitWith
  <2>2. /\ Good(c1)
        /\ \A j : DataOf(c1, j) = DataOf(c, j)
        /\ EntryOf(c1, ServicesKey) = EntryOf(c, ServicesKey)
    BY <2>1, ObserveGood
  <2>3. OffersOwn(c1)
    BY <2>2 DEF OffersOwn, IsFetching, IsError, DataOf
  <2> HIDE DEF c1
  <2>4. Rows(data) \in Seq(RowData)
    BY <2>1, <2>2, GoodDataTells DEF RowsTell
  <2>5. table \in TableSort
    BY DEF Page, GoodTable
  <2> HIDE DEF data
  <2>6. GoodTable(t, data, n) /\ (table.mounted /\ t.mounted =>
            <<t.sortBy, t.reversed, t.search>> = <<table.sortBy, table.reversed, table.search>>)
    <3>1. CASE View(c1, n) # "table"
      <4>1. t = Unmounted
        BY <3>1
      <4> QED BY <4>1, UnmountedGood
    <3>2. CASE View(c1, n) = "table" /\ ~table.mounted
      <4>1. t = Mounted(data)
        BY <3>2
      <4> QED BY <1>2, <2>4, <3>2, <4>1, MountedGood
    <3>3. CASE View(c1, n) = "table" /\ table.mounted /\ data = TableData
      <4>1. t = table
        BY <3>3
      <4> QED BY <1>2, <3>3, <4>1 DEF Page, GoodTable
    <3>4. CASE View(c1, n) = "table" /\ table.mounted /\ data # TableData
      <4>1. t = NewData(table, data)
        BY <3>4
      <4> QED BY <1>2, <2>4, <2>5, <3>4, <4>1, ShownDataGood
    <3> QED BY <3>1, <3>2, <3>3, <3>4
  <2>7. table' = t
    BY <2>1 DEF Display
  <2> HIDE DEF t
  <2>8. GoodTable(t, DataOf(c1, CurrentKey(c1, n)), n)
    BY <2>6 DEF data
  <2>9. Good(cache') /\ Page'
    BY <2>1, <2>2, <2>3, <2>8, DisplayGood
  <2> QED BY <2>6, <2>7, <2>9 DEF HeadKept
<1> QED BY <1>1, <1>2

LEMMA NoRows ==
    ASSUME NEW rows \in Seq(RowData), OnlyRowsOf(rows, <<>>)
    PROVE  rows = <<>>
<1> SUFFICES ASSUME rows # <<>>
             PROVE  FALSE
  OBVIOUS
<1>1. 1 \in DOMAIN rows
  OBVIOUS
<1> DEFINE row == rows[1]
           here == {i \in DOMAIN rows : rows[i] = row}
<1>2. Cardinality(here) # 0 /\ Cardinality(here) \in Nat
  <2>1. here # {} /\ IsFiniteSet(here)
    BY <1>1, TimesType
  <2> HIDE DEF here
  <2> QED BY <2>1, FS_EmptySet, FS_CardinalityType
<1>3. Times(row, <<>>) = 0
  <2>1. {i \in DOMAIN <<>> : <<>>[i] = row} = {}
    OBVIOUS
  <2> QED BY <2>1, FS_EmptySet DEF Times
<1>4. Cardinality(here) <= 0
  BY <1>1, <1>3 DEF OnlyRowsOf, Times
<1> QED BY <1>2, <1>4

\* Sorting, by the column of a head, ...
LEMMA SetSortingGood ==
    ASSUME NEW t, NEW data, NEW n, GoodTable(t, data, n), t.mounted,
           Rows(data) \in Seq(RowData), NEW field \in Columns
    PROVE  GoodTable(SetSorting(t, data, field), data, n) /\ InOrder(SetSorting(t, data, field))
<1> DEFINE reversed == field = t.sortBy /\ ~t.reversed
           rows == IF Throws(data) THEN t.sortedData ELSE SortData(data, field, reversed, t.search)
           u == SetSorting(t, data, field)
<1>1. t \in TableSort /\ t.sortedData \in Seq(RowData) /\ t.search \in Queries
  BY DEF GoodTable, TableSort
<1>2. reversed \in BOOLEAN
  OBVIOUS
<1>3. u = [t EXCEPT !.reversed = reversed, !.sortBy = field, !.sortedData = rows]
  BY <1>1 DEF SetSorting, TableSort
<1> HIDE DEF reversed, u
<1>4. /\ rows \in Seq(RowData) /\ OnlyRowsOf(rows, Rows(data))
      /\ t.search = NoText => Len(rows) = Len(Rows(data))
      /\ field # None => Along(rows, field, reversed)
  <2>1. CASE Throws(data)
    <3>1. Rows(data) = <<>> /\ rows = t.sortedData
      BY <2>1 DEF Throws, Rows
    <3> HIDE DEF rows
    <3>2. rows = <<>>
      BY <1>1, <3>1, NoRows DEF GoodTable
    <3>3. OnlyRowsOf(rows, Rows(data)) /\ Len(rows) = Len(Rows(data)) /\ rows \in Seq(RowData)
      BY <3>1, <3>2 DEF OnlyRowsOf
    <3>4. \A f, r : Along(rows, f, r)
      BY <3>2 DEF Along
    <3> QED BY <3>3, <3>4
  <2>2. CASE ~Throws(data)
    <3>1. Rows(data) = data /\ data # <<>> /\ rows = SortData(data, field, reversed, t.search)
      BY <2>2 DEF Throws, Rows
    <3> HIDE DEF rows
    <3>2. field # None => Along(rows, field, reversed)
      BY <1>1, <1>2, <3>1, SortedDataRows
    <3>3. rows \in Seq(RowData) /\ OnlyRowsOf(rows, data) /\ (t.search = NoText => Len(rows) = Len(data))
      BY <1>1, <1>2, <3>1, SortedDataRows
    <3> QED BY <3>1, <3>2, <3>3
  <2> QED BY <2>1, <2>2
<1> HIDE DEF rows
<1>5. /\ u \in TableSort /\ u.mounted = t.mounted /\ u.search = t.search
      /\ u.sortBy = field /\ u.reversed = reversed /\ u.sortedData = rows
  BY <1>1, <1>2, <1>3, <1>4 DEF TableSort
<1>6. GoodTable(u, data, n)
  BY <1>4, <1>5 DEF GoodTable
<1>7. InOrder(u)
  BY <1>4, <1>5 DEF InOrder, Along
<1> QED BY <1>6, <1>7 DEF u

\* ... and searching show rows of the data, in the order of the head.
LEMMA SearchGood ==
    ASSUME NEW t, NEW data, NEW n, GoodTable(t, data, n), t.mounted,
           Rows(data) \in Seq(RowData), NEW value \in Queries
    PROVE  /\ GoodTable(HandleSearchChange(t, data, value), data, n)
           /\ InOrder(HandleSearchChange(t, data, value))
<1> DEFINE rows == IF Throws(data) THEN t.sortedData
                   ELSE SortData(data, t.sortBy, t.reversed, value)
           u == HandleSearchChange(t, data, value)
<1>1. /\ t \in TableSort /\ t.sortedData \in Seq(RowData)
      /\ t.sortBy \in Columns \cup {None} /\ t.reversed \in BOOLEAN
  BY DEF GoodTable, TableSort
<1>2. u = [t EXCEPT !.search = value, !.sortedData = rows]
  BY <1>1 DEF HandleSearchChange, TableSort
<1> HIDE DEF u
<1>3. /\ rows \in Seq(RowData) /\ OnlyRowsOf(rows, Rows(data))
      /\ value = NoText => Len(rows) = Len(Rows(data))
      /\ t.sortBy # None => Along(rows, t.sortBy, t.reversed)
  <2>1. CASE Throws(data)
    <3>1. Rows(data) = <<>> /\ rows = t.sortedData
      BY <2>1 DEF Throws, Rows
    <3> HIDE DEF rows
    <3>2. rows = <<>>
      BY <1>1, <3>1, NoRows DEF GoodTable
    <3>3. OnlyRowsOf(rows, Rows(data)) /\ Len(rows) = Len(Rows(data)) /\ rows \in Seq(RowData)
      BY <3>1, <3>2 DEF OnlyRowsOf
    <3>4. \A f, r : Along(rows, f, r)
      BY <3>2 DEF Along
    <3> QED BY <3>3, <3>4
  <2>2. CASE ~Throws(data)
    <3>1. Rows(data) = data /\ data # <<>> /\ rows = SortData(data, t.sortBy, t.reversed, value)
      BY <2>2 DEF Throws, Rows
    <3> HIDE DEF rows
    <3>2. t.sortBy # None => Along(rows, t.sortBy, t.reversed)
      BY <1>1, <3>1, SortedDataRows
    <3>3. rows \in Seq(RowData) /\ OnlyRowsOf(rows, data) /\ (value = NoText => Len(rows) = Len(data))
      BY <1>1, <3>1, SortedDataRows
    <3> QED BY <3>1, <3>2, <3>3
  <2> QED BY <2>1, <2>2
<1> HIDE DEF rows
<1>4. /\ u \in TableSort /\ u.mounted = t.mounted /\ u.search = value
      /\ u.sortBy = t.sortBy /\ u.reversed = t.reversed /\ u.sortedData = rows
  BY <1>1, <1>2, <1>3 DEF TableSort
<1>5. GoodTable(u, data, n)
  BY <1>3, <1>4 DEF GoodTable
<1>6. InOrder(u)
  BY <1>3, <1>4 DEF InOrder, Along
<1> QED BY <1>5, <1>6 DEF u

-----------------------------------------------------------------------------
(* The inductive invariant, and what keeps it. *)

Answers == {None, "ok", "refused"}

Creations ==
    [op : {"create"}, namespace : Namespaces, name : Names, reply : Answers,
     deployment : Deployments, service : Services \cup {NoText}]
Deletions ==
    [op : {"delete"}, namespace : Namespaces, name : Text, reply : Answers,
     deployment : {None}, service : {None}]

ClusterType == inspectors \in [Namespaces -> SUBSET Inspector] /\ ReadyType
RequestType ==
    /\ call \in {None} \cup Creations \cup Deletions
    /\ confirm \in {None} \cup [namespace : Namespaces, name : Text]

SettingsInv == ClusterType /\ RequestType /\ Good(cache) /\ Page

\* A render from the cache c keeps the page.
Renders(c) == Good(c) /\ OffersOwn(c)

HeadTells ==
    table.mounted /\ table'.mounted
        /\ <<table'.sortBy, table'.reversed, table'.search>>
             # <<table.sortBy, table.reversed, table.search>>
        => InOrder(table')

LEMMA RenderGood ==
    ASSUME SettingsInv, NEW c, Renders(c), NEW n \in Namespaces \cup {None},
           Commit(c, n), UNCHANGED <<cluster, confirm>>, call' \in {None, call}
    PROVE  SettingsInv' /\ HeadTells
<1>1. CommitWith(c, n, dialog)
  BY DEF Commit
<1>2. Good(cache') /\ Page' /\ HeadKept
  BY <1>1, CommitGood DEF SettingsInv, Renders
<1>3. ClusterType' /\ RequestType'
  BY DEF SettingsInv, ClusterType, ReadyType, RequestType, cluster
<1> QED BY <1>2, <1>3 DEF SettingsInv, HeadTells, HeadKept

\* Steps that render nothing: what the page reads of the cache stays.
LEMMA QuietGood ==
    ASSUME Page, UNCHANGED <<selected, table, carried>>,
           dialog' \in {None, dialog} \cup Monitors(table),
           \A j : DataOf(cache', j) = DataOf(cache, j),
           EntryOf(cache', ServicesKey) = EntryOf(cache, ServicesKey)
    PROVE  Page' /\ HeadTells
<1>1. TableData' = TableData
  BY DEF TableData, CurrentKey
<1>2. CarriedTells' /\ OffersOwn(cache)'
  BY DEF Page, CarriedTells, OffersOwn, IsFetching, IsError, DataOf
<1>3. dialog' # None => dialog' \in Monitors(table')
  BY DEF Page
<1> QED BY <1>1, <1>2, <1>3 DEF Page, HeadTells

LEMMA CacheRenders ==
    ASSUME SettingsInv
    PROVE  Renders(cache)
BY DEF SettingsInv, Page, Renders

LEMMA SameServicesRender ==
    ASSUME SettingsInv, NEW c, Good(c),
           \/ EntryOf(c, ServicesKey) = EntryOf(cache, ServicesKey)
           \/ IsFetching(c, ServicesKey)
           \/ IsError(c, ServicesKey)
    PROVE  Renders(c)
BY DEF SettingsInv, Page, Renders, OffersOwn, IsFetching, IsError, DataOf

\* An entry that nobody on the page reads.
LEMMA ForeignGood ==
    ASSUME NEW c, Good(c), NEW c1, NEW n, NEW v, n \notin Namespaces,
           \A j : j # <<"deployments", n, v>> => EntryOf(c1, j) = EntryOf(c, j)
    PROVE  Good(c1)
BY KeysDiffer DEF Good

-----------------------------------------------------------------------------
(* The fetches keep it. *)

LEMMA AnswersGood ==
    ASSUME SettingsInv, NEW n \in Namespaces, AnswerInspectors(n) \/ RefuseInspectors(n)
    PROVE  SettingsInv' /\ HeadTells
<1>1. PICK value \in Lists : /\ cache' = Reply(cache, InspectorsKey(n), value)
                             /\ IsFetching(cache, InspectorsKey(n))
  BY DEF SettingsInv, ClusterType, AnswerInspectors, RefuseInspectors, Unanswered, Lists
<1>2. UNCHANGED <<inspectors, ready, selected, table, carried, dialog, confirm, call>>
  BY DEF AnswerInspectors, RefuseInspectors, cluster
<1>3. /\ Good(cache')
      /\ \A j : DataOf(cache', j) = DataOf(cache, j)
      /\ EntryOf(cache', ServicesKey) = EntryOf(cache, ServicesKey)
  BY <1>1, ReplyGood DEF SettingsInv
<1>4. Page' /\ HeadTells
  BY <1>2, <1>3, QuietGood DEF SettingsInv
<1>5. ClusterType' /\ RequestType'
  BY <1>2 DEF SettingsInv, ClusterType, ReadyType, RequestType
<1> QED BY <1>3, <1>4, <1>5 DEF SettingsInv

LEMMA ReceiveInspectorsGood ==
    ASSUME SettingsInv, NEW n \in Namespaces, ReceiveInspectors(n)
    PROVE  SettingsInv' /\ HeadTells
<1> DEFINE data == cache[InspectorsKey(n)].fetch.reply
           c == Resolve(cache, InspectorsKey(n), data)
<1>1. data \in Lists \cup {None}
  <2>1. IsFetching(cache, InspectorsKey(n)) /\ GoodInspectors(EntryOf(cache, InspectorsKey(n)))
    BY DEF SettingsInv, Good, ReceiveInspectors
  <2> QED BY <2>1 DEF IsFetching, EntryOf, Blank, GoodInspectors
<1>2. Commit(c, selected) /\ UNCHANGED <<cluster, confirm, call>>
  BY DEF ReceiveInspectors
<1>3. EntryOf(c, ServicesKey) = EntryOf(cache, ServicesKey)
  BY ResolveEffect, KeysDiffer
<1>4. Good(c)
  BY <1>1, ResolveInspectorsGood DEF SettingsInv
<1> HIDE DEF c
<1>5. Renders(c)
  BY <1>3, <1>4, SameServicesRender
<1>6. selected \in Namespaces \cup {None}
  BY DEF SettingsInv, Page
<1> QED BY <1>2, <1>5, <1>6, RenderGood

LEMMA ReceiveDeploymentsGood ==
    ASSUME SettingsInv, NEW key, ReceiveDeployments(key)
    PROVE  SettingsInv' /\ HeadTells
<1> DEFINE c == WithRows(key, EntryOf(cache, key).fetch.closure)
<1>1. key[1] = "deployments" /\ IsFetching(cache, key)
  BY DEF ReceiveDeployments
<1>2. cache[key] = EntryOf(cache, key)
  BY <1>1 DEF IsFetching, EntryOf, Blank
<1>3. Commit(c, selected) /\ UNCHANGED <<cluster, confirm, call>>
  BY <1>2 DEF ReceiveDeployments
<1>4. Good(c)
  BY <1>1, AnyRowsGood DEF SettingsInv, ClusterType
<1>5. EntryOf(c, ServicesKey) = EntryOf(cache, ServicesKey)
  <2>1. key # ServicesKey
    BY <1>1 DEF ServicesKey
  <2> QED BY <2>1, EntryOfPut DEF WithRows, Resolve, Reject
<1> HIDE DEF c
<1>6. Renders(c)
  BY <1>4, <1>5, SameServicesRender
<1>7. selected \in Namespaces \cup {None}
  BY DEF SettingsInv, Page
<1> QED BY <1>3, <1>6, <1>7, RenderGood

LEMMA ReceiveOthersGood ==
    ASSUME SettingsInv, ReceiveNamespaces \/ ReceiveServices
    PROVE  SettingsInv' /\ HeadTells
<1>1. selected \in Namespaces \cup {None}
  BY DEF SettingsInv, Page
<1>2. CASE ReceiveNamespaces
  <2> DEFINE c == Resolve(cache, NamespacesKey, Namespaces)
  <2>1. Commit(c, selected) /\ UNCHANGED <<cluster, confirm, call>>
    BY <1>2 DEF ReceiveNamespaces
  <2>2. Good(c) /\ EntryOf(c, ServicesKey) = EntryOf(cache, ServicesKey)
    BY ResolveNamespacesGood, ResolveEffect, KeysDiffer DEF SettingsInv
  <2> HIDE DEF c
  <2>3. Renders(c)
    BY <2>2, SameServicesRender
  <2> QED BY <1>1, <2>1, <2>3, RenderGood
<1>3. CASE ReceiveServices
  <2> DEFINE n == EntryOf(cache, ServicesKey).fetch.closure
             c == Resolve(cache, ServicesKey, ServicesIn[n])
  <2>1. IsFetching(cache, ServicesKey)
    BY <1>3 DEF ReceiveServices
  <2>2. cache[ServicesKey] = EntryOf(cache, ServicesKey)
    BY <2>1 DEF IsFetching, EntryOf, Blank
  <2>3. Commit(c, selected) /\ UNCHANGED <<cluster, confirm, call>>
    BY <1>3, <2>2 DEF ReceiveServices
  <2>4. n \in Namespaces
    BY <2>1 DEF SettingsInv, Good, GoodServices, IsFetching
  <2>5. ServicesIn[n] \in SUBSET Services
    BY <2>4, SettingsAssumption DEF Services
  <2>6. Good(c)
    BY <2>5, ResolveServicesGood DEF SettingsInv
  <2>7. ~carried => n = selected
    BY <2>1 DEF SettingsInv, Page, CarriedTells
  <2>8. DataOf(c, ServicesKey) = ServicesIn[n]
    BY ResolveEffect DEF DataOf
  <2> HIDE DEF c, n
  <2>9. Renders(c)
    BY <2>6, <2>7, <2>8 DEF Renders, OffersOwn
  <2> QED BY <1>1, <2>3, <2>9, RenderGood
<1> QED BY <1>2, <1>3

LEMMA RejectRenders ==
    ASSUME SettingsInv, NEW key
    PROVE  Renders(Reject(cache, key))
<1> DEFINE new == [data |-> DataOf(cache, key), failed |-> TRUE, fetch |-> None]
           c == Reject(cache, key)
<1>1. Good(c)
  BY RejectGood DEF SettingsInv
<1>2. \A j : EntryOf(c, j) = IF j = key THEN new ELSE EntryOf(cache, j)
  BY EntryOfPut DEF Reject
<1>3. new.failed
  OBVIOUS
<1> HIDE DEF c, new
<1>4. EntryOf(c, ServicesKey) = EntryOf(cache, ServicesKey) \/ IsError(c, ServicesKey)
  BY <1>2, <1>3 DEF IsError
<1>5. Renders(c)
  BY <1>1, <1>4, SameServicesRender
<1> QED BY <1>5 DEF c

LEMMA FailuresGood ==
    ASSUME SettingsInv, RefetchNamespaces \/ \E key : FetchFails(key)
    PROVE  SettingsInv' /\ HeadTells
<1>1. PICK key : Commit(Reject(cache, key), selected) /\ UNCHANGED <<cluster, confirm, call>>
  BY DEF RefetchNamespaces, FetchFails
<1>2. selected \in Namespaces \cup {None}
  BY DEF SettingsInv, Page
<1> QED BY <1>1, <1>2, RejectRenders, RenderGood

LEMMA RefetchDeploymentsGood ==
    ASSUME SettingsInv, RefetchDeployments
    PROVE  SettingsInv' /\ HeadTells
<1> DEFINE seen == Closure(cache, selected)
           v == Versions(seen.items)
           key == <<"deployments", selected, v>>
           c == WithRows(key, seen)
<1>1. key = CurrentKey(cache, selected)
  BY DEF CurrentKey, DeploymentsKey, Closure
<1>2. /\ Enabled(cache, selected)
      /\ Commit(c, selected) \/ Commit(Reject(cache, key), selected)
      /\ UNCHANGED <<cluster, confirm, call>>
  BY <1>1 DEF RefetchDeployments
<1>3. selected \in Namespaces \cup {None}
  BY DEF SettingsInv, Page
<1>4. seen.namespace = selected /\ seen.items = DataOf(cache, InspectorsKey(selected))
  BY DEF Closure
<1>5. \A j : j # key => EntryOf(c, j) = EntryOf(cache, j)
  BY EntryOfPut DEF WithRows, Resolve, Reject
<1>6. Good(c)
  <2>1. CASE selected \in Namespaces
    <3>1. seen.items \in Lists \ {None}
      BY <1>2, <1>4, <2>1 DEF SettingsInv, Good, GoodInspectors, Enabled, IsSuccess, DataOf
    <3> HIDE DEF seen
    <3> QED BY <1>4, <2>1, <3>1, WithRowsGood DEF SettingsInv, ClusterType
  <2>2. CASE selected \notin Namespaces
    <3> HIDE DEF c, v
    <3> QED BY <1>5, <2>2, ForeignGood DEF SettingsInv
  <2> QED BY <2>1, <2>2
<1>7. key # ServicesKey
  BY KeysDiffer
<1> HIDE DEF c, key
<1>8. Renders(c)
  BY <1>5, <1>6, <1>7, SameServicesRender
<1> QED BY <1>2, <1>3, <1>8, RejectRenders, RenderGood

LEMMA FocusGood ==
    ASSUME SettingsInv, Focus
    PROVE  SettingsInv' /\ HeadTells
<1> DEFINE open == selected # None
           observed == Monitors(table) # {}
           again == selected # None /\ IsError(cache, NamespacesKey)
           wanted == Enabled(cache, selected) /\ IsError(cache, CurrentKey(cache, selected))
           c1 == FetchIf(open, cache, InspectorsKey(selected), selected)
           c2 == FetchIf(observed, c1, ServicesKey, selected)
           c3 == FetchIf(again, c2, NamespacesKey, None)
           c4 == FetchIf(wanted, c3, CurrentKey(cache, selected), Closure(cache, selected))
<1>1. Commit(c4, selected) /\ UNCHANGED <<cluster, confirm, call>>
  BY DEF Focus
<1>2. selected \in Namespaces \cup {None} /\ Good(cache)
  BY DEF SettingsInv, Page
<1>3. open => selected \in Namespaces
  BY <1>2
<1>4. observed => selected \in Namespaces
  <2>1. observed => table.mounted
    BY NoMonitors DEF SettingsInv, Page
  <2> QED BY <1>2, <2>1 DEF SettingsInv, Page, GoodTable
<1>5. wanted => Enabled(cache, selected)
  OBVIOUS
<1> HIDE DEF observed, again, wanted
<1>6. Good(c1) /\ EntryOf(c1, ServicesKey) = EntryOf(cache, ServicesKey)
  <2>1. CASE open
    BY <1>2, <1>3, <2>1, FetchInspectorsGood, FetchEffect, KeysDiffer
  <2>2. CASE ~open
    BY <1>2, <2>2 DEF FetchIf
  <2> QED BY <2>1, <2>2
<1> HIDE DEF c1, open
<1>7. Good(c2)
  BY <1>4, <1>6, FetchServicesGood
<1>8. EntryOf(c2, ServicesKey) = EntryOf(c1, ServicesKey) \/ IsFetching(c2, ServicesKey)
  <2>1. \/ EntryOf(c2, ServicesKey) = EntryOf(c1, ServicesKey)
        \/ observed /\ EntryOf(c2, ServicesKey).fetch = FetchOf(selected)
    BY FetchEffect
  <2>2. observed => FetchOf(selected) # None
    BY <1>4, FetchIsSome
  <2> HIDE DEF c2
  <2> QED BY <2>1, <2>2 DEF IsFetching
<1> HIDE DEF c2
<1>9. Good(c3) /\ EntryOf(c3, ServicesKey) = EntryOf(c2, ServicesKey)
  BY <1>7, FetchNamespacesGood, FetchEffect, KeysDiffer
<1> HIDE DEF c3
<1> DEFINE v == Versions(DataOf(cache, InspectorsKey(selected)))
           key == <<"deployments", selected, v>>
<1>10. CurrentKey(cache, selected) = key /\ key # ServicesKey
  BY KeysDiffer DEF CurrentKey, DeploymentsKey
<1>11. \A j : j # key => EntryOf(c4, j) = EntryOf(c3, j)
  BY <1>10, FetchEffect
<1>12. Good(c4)
  <2>1. CASE selected \in Namespaces
    BY <1>2, <1>5, <1>9, <2>1, FetchDeploymentsGood
  <2>2. CASE selected \notin Namespaces
    <3> HIDE DEF c4, v
    <3> QED BY <1>9, <1>11, <2>2, ForeignGood
  <2> QED BY <2>1, <2>2
<1> HIDE DEF c4, key
<1>13. EntryOf(c4, ServicesKey) = EntryOf(cache, ServicesKey) \/ IsFetching(c4, ServicesKey)
  BY <1>6, <1>8, <1>9, <1>10, <1>11 DEF IsFetching
<1>14. Renders(c4)
  BY <1>12, <1>13, SameServicesRender
<1> QED BY <1>1, <1>2, <1>14, RenderGood

-----------------------------------------------------------------------------
(* The user keeps it. *)

LEMMA NavigationGood ==
    ASSUME SettingsInv,
           OpenSettings \/ LeaveSettings \/ \E n \in Namespaces : SelectNamespace(n)
    PROVE  SettingsInv' /\ HeadTells
<1>1. PICK n \in Namespaces \cup {None} :
        Commit(cache, n) /\ UNCHANGED <<cluster, confirm, call>>
  BY SettingsAssumption DEF OpenSettings, LeaveSettings, SelectNamespace
<1> QED BY <1>1, CacheRenders, RenderGood

LEMMA TableGood ==
    ASSUME SettingsInv,
           \/ \E field \in Columns : Sort(field)
           \/ \E value \in Queries : Search(value)
    PROVE  SettingsInv' /\ HeadTells
<1>1. /\ table.mounted
      /\ UNCHANGED <<cluster, confirm, call>>
      /\ \/ \E field \in Columns :
                Display(cache, selected, SetSorting(table, TableData, field), dialog)
         \/ \E value \in Queries :
                Display(cache, selected, HandleSearchChange(table, TableData, value), dialog)
  BY DEF Sort, Search
<1>2. /\ selected \in Namespaces /\ selected \in Namespaces \cup {None}
      /\ GoodTable(table, TableData, selected)
  BY <1>1 DEF SettingsInv, Page, GoodTable
<1>3. Rows(TableData) \in Seq(RowData)
  BY <1>2, GoodDataTells DEF SettingsInv, TableData, RowsTell
<1>4. PICK t : /\ Display(cache, selected, t, dialog)
               /\ GoodTable(t, TableData, selected) /\ InOrder(t)
  <2>1. CASE \E field \in Columns :
                Display(cache, selected, SetSorting(table, TableData, field), dialog)
    BY <1>1, <1>2, <1>3, <2>1, SetSortingGood
  <2>2. CASE \E value \in Queries :
                Display(cache, selected, HandleSearchChange(table, TableData, value), dialog)
    BY <1>1, <1>2, <1>3, <2>2, SearchGood
  <2> QED BY <1>1, <2>1, <2>2
<1>5. GoodTable(t, DataOf(cache, CurrentKey(cache, selected)), selected)
  BY <1>4 DEF TableData
<1>6. Good(cache') /\ Page'
  BY <1>2, <1>4, <1>5, DisplayGood DEF SettingsInv, Page
<1>7. table' = t
  BY <1>4 DEF Display
<1>8. ClusterType' /\ RequestType'
  BY <1>1 DEF SettingsInv, ClusterType, ReadyType, RequestType, cluster
<1> QED BY <1>4, <1>6, <1>7, <1>8 DEF SettingsInv, HeadTells

\* An open dialogue is of the namespace that is selected.
LEMMA DialogTells ==
    ASSUME SettingsInv, dialog # None
    PROVE  /\ selected \in Namespaces /\ dialog[1] = selected
           /\ dialog[2] \in Deployments /\ dialog = <<dialog[1], dialog[2]>>
           /\ Monitors(table) # {}
<1>1. dialog \in Monitors(table) /\ GoodTable(table, TableData, selected)
  BY DEF SettingsInv, Page
<1>2. table.mounted
  BY <1>1, NoMonitors
<1>3. selected \in Namespaces
  BY <1>1, <1>2 DEF SettingsInv, Page, GoodTable
<1> QED BY <1>1, <1>3, GoodDataTells, MonitorsTell DEF SettingsInv, TableData

LEMMA RowsShown ==
    ASSUME SettingsInv, NEW k \in DOMAIN table.sortedData
    PROVE  /\ table.mounted /\ selected \in Namespaces
           /\ RowTells(table.sortedData[k], selected,
                       Versions(DataOf(cache, InspectorsKey(selected))))
<1>1. GoodTable(table, TableData, selected)
  BY DEF SettingsInv, Page
<1>2. table.mounted
  BY <1>1 DEF GoodTable
<1>3. selected \in Namespaces
  BY <1>1, <1>2 DEF SettingsInv, Page, GoodTable
<1> QED BY <1>1, <1>2, <1>3, GoodDataTells, ShownRowsTell DEF SettingsInv, TableData

LEMMA DialogueGood ==
    ASSUME SettingsInv, (\E m \in Monitors(table) : OpenMonitor(m)) \/ CloseMonitor
    PROVE  SettingsInv' /\ HeadTells
<1>1. /\ UNCHANGED <<inspectors, ready, selected, cache, table, carried, confirm, call>>
      /\ dialog' \in {None} \cup Monitors(table)
  BY DEF OpenMonitor, CloseMonitor, cluster, page
<1>2. Page' /\ HeadTells
  BY <1>1, QuietGood DEF SettingsInv
<1>3. Good(cache')
  BY <1>1 DEF SettingsInv
<1>4. ClusterType' /\ RequestType'
  BY <1>1 DEF SettingsInv, ClusterType, ReadyType, RequestType
<1> QED BY <1>2, <1>3, <1>4 DEF SettingsInv

\* Steps of requests and of the cluster: nothing of the page changes.
LEMMA ElsewhereGood ==
    ASSUME SettingsInv, UNCHANGED <<page, dialog>>, ClusterType', RequestType'
    PROVE  SettingsInv' /\ HeadTells
<1>1. UNCHANGED <<selected, cache, table, carried, dialog>>
  BY DEF page
<1>2. Page' /\ HeadTells
  BY <1>1, QuietGood DEF SettingsInv
<1>3. Good(cache')
  BY <1>1 DEF SettingsInv
<1> QED BY <1>2, <1>3 DEF SettingsInv

LEMMA FormsGood ==
    ASSUME SettingsInv,
           \/ \E name \in Names, endpoint \in Services \cup {NoText} : Submit(name, endpoint)
           \/ \E k \in DOMAIN table.sortedData : OpenConfirm(table.sortedData[k])
           \/ CancelConfirm \/ Confirm
    PROVE  SettingsInv' /\ HeadTells
<1>1. ClusterType /\ RequestType
  BY DEF SettingsInv
<1>2. CASE \E name \in Names, endpoint \in Services \cup {NoText} : Submit(name, endpoint)
  <2>1. PICK name \in Names, endpoint \in Services \cup {NoText} : Submit(name, endpoint)
    BY <1>2
  <2>2. dialog # None /\ UNCHANGED <<inspectors, ready, page, dialog, confirm>>
    BY <2>1 DEF Submit, cluster
  <2>3. dialog[1] \in Namespaces /\ dialog[2] \in Deployments
    BY <2>2, DialogTells
  <2>4. call' \in Creations
    BY <2>1, <2>3 DEF Submit, Creations, Answers
  <2>5. ClusterType' /\ RequestType'
    BY <1>1, <2>2, <2>4 DEF ClusterType, ReadyType, RequestType
  <2> QED BY <2>2, <2>5, ElsewhereGood
<1>3. CASE \E k \in DOMAIN table.sortedData : OpenConfirm(table.sortedData[k])
  <2>1. PICK k \in DOMAIN table.sortedData : OpenConfirm(table.sortedData[k])
    BY <1>3
  <2> DEFINE row == table.sortedData[k]
  <2>2. row.namespace \in Namespaces /\ row \in RowData
    BY RowsShown DEF RowTells
  <2>3. row.inspectorName \in Text
    BY <2>2 DEF RowData, Fields
  <2> HIDE DEF row
  <2>4. /\ confirm' \in [namespace : Namespaces, name : Text]
        /\ UNCHANGED <<inspectors, ready, page, dialog, call>>
    BY <2>1, <2>2, <2>3 DEF OpenConfirm, cluster, row
  <2>5. ClusterType' /\ RequestType'
    BY <1>1, <2>4 DEF ClusterType, ReadyType, RequestType
  <2> QED BY <2>4, <2>5, ElsewhereGood
<1>4. CASE CancelConfirm
  <2>1. confirm' = None /\ UNCHANGED <<inspectors, ready, page, dialog, call>>
    BY <1>4 DEF CancelConfirm, cluster
  <2>2. ClusterType' /\ RequestType'
    BY <1>1, <2>1 DEF ClusterType, ReadyType, RequestType
  <2> QED BY <2>1, <2>2, ElsewhereGood
<1>5. CASE Confirm
  <2>1. confirm \in [namespace : Namespaces, name : Text]
    BY <1>1, <1>5 DEF RequestType, Confirm
  <2>2. /\ confirm' = None /\ call' \in Deletions
        /\ UNCHANGED <<inspectors, ready, page, dialog>>
    BY <1>5, <2>1 DEF Confirm, Deletions, Answers, cluster
  <2>3. ClusterType' /\ RequestType'
    BY <1>1, <2>2 DEF ClusterType, ReadyType, RequestType
  <2> QED BY <2>2, <2>3, ElsewhereGood
<1> QED BY <1>2, <1>3, <1>4, <1>5

-----------------------------------------------------------------------------
(* The requests and the cluster keep it. *)

LEMMA AcceptedGood ==
    ASSUME SettingsInv, CreateAccepted \/ DeleteAccepted \/ CallRefused
    PROVE  SettingsInv' /\ HeadTells
<1>1. ClusterType /\ RequestType
  BY DEF SettingsInv
<1>2. CASE CreateAccepted
  <2>1. call \in Creations
    BY <1>1, <1>2 DEF RequestType, Creations, Deletions, CreateAccepted
  <2>2. Created \in Inspector
    BY <2>1 DEF Created, Creations, Inspector
  <2>3. inspectors' \in [Namespaces -> SUBSET Inspector] /\ UNCHANGED <<ready, page, dialog, confirm>>
    BY <1>1, <1>2, <2>2 DEF CreateAccepted, ClusterType
  <2>4. call' \in Creations
    BY <1>2, <2>1 DEF CreateAccepted, Creations, Answers
  <2>5. ClusterType' /\ RequestType'
    BY <1>1, <2>3, <2>4 DEF ClusterType, ReadyType, RequestType
  <2> QED BY <2>3, <2>5, ElsewhereGood
<1>3. CASE DeleteAccepted
  <2>1. call \in Deletions
    BY <1>1, <1>3 DEF RequestType, Creations, Deletions, DeleteAccepted
  <2>2. \A i \in Inspector : [i EXCEPT !.deleting = TRUE] \in Inspector
    BY DEF Inspector
  <2>3. inspectors' \in [Namespaces -> SUBSET Inspector] /\ UNCHANGED <<ready, page, dialog, confirm>>
    <3> DEFINE n == call.namespace
               told == {IF i.name = call.name THEN [i EXCEPT !.deleting = TRUE] ELSE i :
                            i \in inspectors[n]}
    <3>1. n \in Namespaces /\ inspectors[n] \subseteq Inspector
      BY <1>1, <2>1 DEF Deletions, ClusterType
    <3>2. told \subseteq Inspector
      BY <2>2, <3>1
    <3>3. inspectors' = [inspectors EXCEPT ![n] = told] /\ UNCHANGED <<ready, page, dialog, confirm>>
      BY <1>3 DEF DeleteAccepted
    <3> HIDE DEF n, told
    <3> QED BY <1>1, <3>1, <3>2, <3>3 DEF ClusterType
  <2>4. call' \in Deletions
    BY <1>3, <2>1 DEF DeleteAccepted, Deletions, Answers
  <2>5. ClusterType' /\ RequestType'
    BY <1>1, <2>3, <2>4 DEF ClusterType, ReadyType, RequestType
  <2> QED BY <2>3, <2>5, ElsewhereGood
<1>4. CASE CallRefused
  <2>1. UNCHANGED <<inspectors, ready, page, dialog, confirm>>
    BY <1>4 DEF CallRefused, cluster
  <2>2. call' \in Creations \cup Deletions
    BY <1>1, <1>4 DEF CallRefused, RequestType, Creations, Deletions, Answers
  <2>3. ClusterType' /\ RequestType'
    BY <1>1, <2>1, <2>2 DEF ClusterType, ReadyType, RequestType
  <2> QED BY <2>1, <2>3, ElsewhereGood
<1> QED BY <1>2, <1>3, <1>4

LEMMA InvalidatedRenders ==
    ASSUME SettingsInv
    PROVE  Renders(Invalidated)
<1>1. selected \in Namespaces \cup {None} /\ Good(cache)
  BY DEF SettingsInv, Page
<1>2. CASE selected \in Namespaces
  <2> DEFINE open == selected # None
             c == FetchIf(open, cache, InspectorsKey(selected), selected)
  <2>1. Good(c) /\ EntryOf(c, ServicesKey) = EntryOf(cache, ServicesKey)
    <3> HIDE DEF open
    <3> QED BY <1>1, <1>2, FetchInspectorsGood, FetchEffect, KeysDiffer
  <2>2. c = Invalidated
    BY DEF Invalidated
  <2> HIDE DEF c
  <2> QED BY <2>1, <2>2, SameServicesRender
<1>3. CASE selected = None
  <2>1. Invalidated = cache
    BY <1>3 DEF Invalidated, FetchIf
  <2> QED BY <2>1, CacheRenders
<1> QED BY <1>1, <1>2, <1>3

LEMMA AnsweredGood ==
    ASSUME SettingsInv, CreateAnswered \/ DeleteAnswered \/ CallFails
    PROVE  SettingsInv' /\ HeadTells
<1>1. ClusterType /\ RequestType /\ selected \in Namespaces \cup {None}
  BY DEF SettingsInv, Page
<1>2. call' = None /\ UNCHANGED <<inspectors, ready, cluster, confirm>>
  BY DEF CreateAnswered, DeleteAnswered, CallFails, cluster
<1>3. ClusterType' /\ RequestType'
  BY <1>1, <1>2 DEF ClusterType, ReadyType, RequestType
<1>4. CASE UNCHANGED <<page, dialog>>
  BY <1>3, <1>4, ElsewhereGood
<1>5. CASE Commit(Invalidated, selected)
  BY <1>1, <1>2, <1>5, InvalidatedRenders, RenderGood
<1>6. CASE CommitWith(Invalidated, selected, None)
  <2>1. Good(cache') /\ Page' /\ HeadKept
    BY <1>1, <1>6, InvalidatedRenders, CommitGood DEF SettingsInv, Renders
  <2> QED BY <1>3, <2>1 DEF SettingsInv, HeadTells, HeadKept
<1> QED BY <1>4, <1>5, <1>6 DEF CreateAnswered, DeleteAnswered, CallFails

LEMMA ClusterGood ==
    ASSUME SettingsInv, Kubectl \/ Operator \/ Replicas
    PROVE  SettingsInv' /\ HeadTells
<1>1. ClusterType /\ RequestType
  BY DEF SettingsInv
<1>2. UNCHANGED <<page, dialog, confirm, call>>
  BY DEF Kubectl, Operator, Replicas, OthersCreate, OperatorUpdates, ReplicasChange
<1>3. ClusterType'
  <2>1. CASE Kubectl
    <3>0. PICK n \in Namespaces, name \in Names, s \in Services : \E k \in DOMAIN DeployedIn[n] :
            OthersCreate(n, [name |-> name, deployment |-> DeployedIn[n][k], service |-> s,
                             status |-> NoText, deleting |-> FALSE])
      BY <2>1 DEF Kubectl
    <3>1. PICK k \in DOMAIN DeployedIn[n] :
            OthersCreate(n, [name |-> name, deployment |-> DeployedIn[n][k], service |-> s,
                             status |-> NoText, deleting |-> FALSE])
      BY <3>0
    <3> DEFINE i == [name |-> name, deployment |-> DeployedIn[n][k], service |-> s,
                     status |-> NoText, deleting |-> FALSE]
    <3>2. i \in Inspector
      BY DEF Inspector, Deployments
    <3>3. inspectors' = [inspectors EXCEPT ![n] = @ \cup {i}] /\ ready' = ready
      BY <3>1 DEF OthersCreate
    <3> HIDE DEF i
    <3> QED BY <1>1, <3>2, <3>3 DEF ClusterType, ReadyType
  <2>2. CASE Operator
    <3>0. PICK n \in Namespaces : \E i \in inspectors[n] : OperatorUpdates(n, i)
      BY <2>2 DEF Operator
    <3>1. PICK i \in inspectors[n] : OperatorUpdates(n, i)
      BY <3>0
    <3>2. i \in Inspector
      BY <1>1 DEF ClusterType
    <3>3. [i EXCEPT !.status = Running] \in Inspector
      BY <3>2 DEF Inspector
    <3>4. /\ \/ inspectors' = [inspectors EXCEPT ![n] = @ \ {i}]
             \/ inspectors' = [inspectors EXCEPT ![n] = (@ \ {i}) \cup {[i EXCEPT !.status = Running]}]
          /\ ready' = ready
      BY <3>1 DEF OperatorUpdates
    <3> QED BY <1>1, <3>3, <3>4 DEF ClusterType, ReadyType
  <2>3. CASE Replicas
    <3>0. PICK n \in Namespaces : \E k \in DOMAIN DeployedIn[n] : ReplicasChange(n, DeployedIn[n][k])
      BY <2>3 DEF Replicas
    <3>1. PICK k \in DOMAIN DeployedIn[n], r \in Ready :
            ready' = [ready EXCEPT ![n][DeployedIn[n][k]] = r] /\ inspectors' = inspectors
      BY <3>0 DEF ReplicasChange
    <3> QED BY <1>1, <3>1 DEF ClusterType, ReadyType
  <2> QED BY <2>1, <2>2, <2>3
<1>4. RequestType'
  BY <1>1, <1>2 DEF RequestType
<1> QED BY <1>2, <1>3, <1>4, ElsewhereGood

-----------------------------------------------------------------------------
LEMMA InitGood ==
    ASSUME Init
    PROVE  SettingsInv
<1>1. ClusterType /\ RequestType
  BY DEF Init, ClusterType, ReadyType, RequestType
<1>2. \A j : EntryOf(cache, j) = Blank
  BY DEF Init, EntryOf
<1>3. Good(cache)
  BY <1>2 DEF Good, GoodInspectors, GoodDeployments, GoodServices, Blank
<1>4. GoodTable(table, TableData, selected) /\ Monitors(table) = {}
  BY UnmountedGood, NoMonitors DEF Init
<1>5. ~IsFetching(cache, ServicesKey)
  BY <1>2 DEF IsFetching, Blank
<1>6. Page
  BY <1>4, <1>5 DEF Init, Page, CarriedTells, OffersOwn
<1> QED BY <1>1, <1>3, <1>6 DEF SettingsInv

LEMMA StepGood ==
    ASSUME SettingsInv, [Next]_vars
    PROVE  SettingsInv' /\ (HeadTells \/ UNCHANGED vars)
<1>1. CASE Fetches
  BY <1>1, AnswersGood, ReceiveInspectorsGood, ReceiveDeploymentsGood, ReceiveOthersGood,
     FailuresGood, RefetchDeploymentsGood DEF Fetches
<1>2. CASE User
  BY <1>2, FocusGood, NavigationGood, TableGood, DialogueGood, FormsGood DEF User
<1>3. CASE Calls
  BY <1>3, AcceptedGood, AnsweredGood DEF Calls
<1>4. CASE Kubectl \/ Operator \/ Replicas
  BY <1>4, ClusterGood
<1>5. CASE UNCHANGED vars
  <2>1. ClusterType' /\ RequestType' /\ UNCHANGED <<page, dialog>>
    BY <1>5 DEF SettingsInv, ClusterType, ReadyType, RequestType, vars, cluster
  <2> QED BY <1>5, <2>1, ElsewhereGood
<1> QED BY <1>1, <1>2, <1>3, <1>4, <1>5 DEF Next

\* The handlers and the renders keep what the cache, the table and the dialogues tell
\* of each other.
THEOREM SettingsInvariant == Spec => []SettingsInv
<1>1. Init => SettingsInv
  BY InitGood
<1>2. SettingsInv /\ [Next]_vars => SettingsInv'
  BY StepGood
<1> QED BY <1>1, <1>2, PTL DEF Spec

-----------------------------------------------------------------------------
(* The user's own creation. *)

\* The list has an inspector of the deployment.
Has(items, d) == \E i \in items : i.deployment = d

\* Nobody has told the user of the last creation while a fetch of the inspectors of
\* its namespace was in flight.
Clean == own # None /\ own.told /\ ~own.raced

\* Every answer that is on its way has it, and so has the list that the page of its
\* namespace has, unless a fetch is in flight or has failed.
OwnEntry(e, n, d) ==
    /\ e.fetch # None => e.fetch.reply \in {None, NotAList} \/ Has(e.fetch.reply, d)
    /\ selected = n /\ e.fetch = None /\ ~e.failed =>
            e.data \in {None, NotAList} \/ Has(e.data, d)

Owned ==
    [namespace : Namespaces, name : Names, deployment : Deployments,
     told : BOOLEAN, raced : BOOLEAN]

OwnExists ==
    own # None =>
        \E i \in inspectors[own.namespace] : i.name = own.name /\ i.deployment = own.deployment

OwnInv ==
    /\ own \in {None} \cup Owned
    /\ OwnExists
    /\ Clean => OwnEntry(EntryOf(cache, InspectorsKey(own.namespace)), own.namespace, own.deployment)

\* What a display does to the entry of the inspectors of some namespace.
LEMMA DisplayEffect ==
    ASSUME NEW c, NEW n, NEW t, NEW d, Display(c, n, t, d), NEW m \in Namespaces
    PROVE  LET e == EntryOf(cache', InspectorsKey(m)) IN
           /\ e.fetch # None => e = EntryOf(c, InspectorsKey(m))
           /\ n = m => e = EntryOf(c, InspectorsKey(m))
<1> DEFINE new == Monitors(t) \ Monitors(table)
           key == InspectorsKey(m)
           c1 == AskServices(c, new)
           fetched == new # {}
           for == (CHOOSE x \in new : TRUE)[1]
<1>1. PICK kept : cache' = Collected(c1, kept \cup InUse(c, n, t))
  BY DEF Display
<1>2. c1 = FetchIf(fetched, c, ServicesKey, for)
  BY DEF AskServices
<1> HIDE DEF c1, new, fetched, for
<1>3. EntryOf(c1, key) = EntryOf(c, key)
  BY <1>2, FetchEffect, KeysDiffer
<1>4. EntryOf(cache', key) =
        IF key \in kept \cup InUse(c, n, t) \/ IsFetching(c1, key) THEN EntryOf(c1, key) ELSE Blank
  BY <1>1, EntryOfCollected
<1>5. n = m => key \in InUse(c, n, t)
  BY SettingsAssumption DEF InUse
<1> HIDE DEF key
<1>6. EntryOf(cache', key).fetch # None => EntryOf(cache', key) = EntryOf(c, key)
  BY <1>3, <1>4 DEF Blank
<1>7. n = m => EntryOf(cache', key) = EntryOf(c, key)
  BY <1>3, <1>4, <1>5
<1> QED BY <1>6, <1>7 DEF key

\* A render does the same, or fetches it: always, when the namespace is a new one.
LEMMA CommitEffect ==
    ASSUME NEW c, NEW n, NEW d, CommitWith(c, n, d), NEW m \in Namespaces
    PROVE  LET e == EntryOf(cache', InspectorsKey(m)) IN
           /\ e.fetch # None => e.fetch \in {EntryOf(c, InspectorsKey(m)).fetch, FetchOf(m)}
           /\ n = m /\ e.fetch = None => n = selected /\ e = EntryOf(c, InspectorsKey(m))
<1> DEFINE key == InspectorsKey(m)
           e == EntryOf(cache', key)
<1>1. CASE n = None
  <2>1. Display(c, n, Unmounted, None)
    BY <1>1 DEF CommitWith
  <2>2. n # m
    BY <1>1, SettingsAssumption
  <2> QED BY <2>1, <2>2, DisplayEffect
<1>2. CASE n # None
  <2> DEFINE first == selected = None
             other == n # selected
             c0 == FetchIf(first, c, NamespacesKey, None)
             c1 == FetchIf(other, c0, InspectorsKey(n), n)
             wanted == Enabled(c1, n) /\
                        (CurrentKey(c1, n) # CurrentKey(cache, selected) \/ ~Enabled(cache, selected))
             c2 == FetchIf(wanted, c1, CurrentKey(c1, n), Closure(c1, n))
  <2>1. c2 = Observe(c, n)
    BY DEF Observe
  <2>2. PICK t : Display(c2, n, t, d)
    BY <1>2, <2>1 DEF CommitWith
  <2> HIDE DEF first
  <2>3. EntryOf(c0, key) = EntryOf(c, key)
    BY FetchEffect, KeysDiffer
  <2> HIDE DEF c0
  <2>4. /\ EntryOf(c1, key) = EntryOf(c0, key) \/ (n = m /\ EntryOf(c1, key).fetch = FetchOf(m))
        /\ n = m /\ n # selected => EntryOf(c1, key).fetch # None
    <3>1. CASE n # m
      BY <3>1, FetchEffect, KeysDiffer
    <3>2. CASE n = m
      <4>0. c1 = FetchIf(other, c0, key, m)
        BY <3>2
      <4> HIDE DEF other, c1, key
      <4>1. \/ EntryOf(c1, key) = EntryOf(c0, key)
            \/ EntryOf(c1, key).fetch = FetchOf(m)
        BY <4>0, FetchEffect
      <4>2. FetchOf(m) # None
        BY FetchIsSome
      <4>3. other => c1 = Fetch(c0, key, m)
        BY <4>0 DEF FetchIf
      <4>4. other => EntryOf(c1, key).fetch # None
        BY <4>2, <4>3, FetchStarts DEF IsFetching
      <4> QED BY <3>2, <4>1, <4>4 DEF other
    <3> QED BY <3>1, <3>2
  <2> HIDE DEF c1, wanted
  <2>5. EntryOf(c2, key) = EntryOf(c1, key)
    <3>1. CurrentKey(c1, n) # key
      BY KeysDiffer DEF CurrentKey, DeploymentsKey
    <3> QED BY <3>1, FetchEffect
  <2> HIDE DEF c2
  <2>6. /\ e.fetch # None => e = EntryOf(c2, key)
        /\ n = m => e = EntryOf(c2, key)
    BY <2>2, DisplayEffect
  <2> HIDE DEF e
  <2>7. e.fetch # None => e.fetch \in {EntryOf(c, key).fetch, FetchOf(m)}
    BY <2>3, <2>4, <2>5, <2>6
  <2>8. n = m /\ e.fetch = None => n = selected /\ e = EntryOf(c, key)
    <3>1. FetchOf(m) # None
      BY FetchIsSome
    <3> HIDE DEF key
    <3> QED BY <2>3, <2>4, <2>5, <2>6, <3>1
  <2> QED BY <2>7, <2>8 DEF e, key
<1> QED BY <1>1, <1>2

LEMMA CommitOwn ==
    ASSUME NEW c, NEW n, NEW r, CommitWith(c, n, r), NEW m \in Namespaces, NEW d,
           OwnEntry(EntryOf(c, InspectorsKey(m)), m, d)
    PROVE  OwnEntry(EntryOf(cache, InspectorsKey(m)), m, d)'
<1> DEFINE old == EntryOf(c, InspectorsKey(m))
           e == EntryOf(cache', InspectorsKey(m))
<1>1. /\ e.fetch # None => e.fetch \in {old.fetch, FetchOf(m)}
      /\ n = m /\ e.fetch = None => n = selected /\ e = old
  BY CommitEffect
<1>2. selected' = n
  BY DEF CommitWith, Display
<1>3. FetchOf(m).reply = None
  BY DEF FetchOf
<1> HIDE DEF old, e
<1>4. e.fetch # None => e.fetch.reply \in {None, NotAList} \/ Has(e.fetch.reply, d)
  BY <1>1, <1>3 DEF OwnEntry, old
<1>5. ASSUME selected' = m, e.fetch = None, ~e.failed
      PROVE  e.data \in {None, NotAList} \/ Has(e.data, d)
  BY <1>1, <1>2, <1>5 DEF OwnEntry, old
<1> QED BY <1>4, <1>5 DEF OwnEntry, e

\* What a cache that is rendered has of the inspectors of a namespace: what is there
\* now, a new fetch, the result of the last one, or its failure.
Follows(e, m) ==
    LET old == EntryOf(cache, InspectorsKey(m)) IN
    \/ e = old
    \/ e.fetch = FetchOf(m)
    \/ e.fetch = None /\ old.fetch # None /\ old.fetch.reply # None /\ e.data = old.fetch.reply
    \/ e.fetch = None /\ e.failed

LEMMA RenderOwn ==
    ASSUME OwnInv, NEW c, NEW n, NEW r, CommitWith(c, n, r), UNCHANGED <<inspectors, own>>,
           \A m \in Namespaces : Follows(EntryOf(c, InspectorsKey(m)), m)
    PROVE  OwnInv'
<1>1. own' \in {None} \cup Owned /\ OwnExists'
  BY DEF OwnInv, OwnExists
<1>2. ASSUME Clean
      PROVE  OwnEntry(EntryOf(cache, InspectorsKey(own.namespace)), own.namespace, own.deployment)'
  <2>1. PICK m \in Namespaces, d \in Deployments : m = own.namespace /\ d = own.deployment
    BY <1>2 DEF OwnInv, Clean, Owned
  <2> DEFINE old == EntryOf(cache, InspectorsKey(m))
             e == EntryOf(c, InspectorsKey(m))
  <2>2. OwnEntry(old, m, d)
    BY <1>2, <2>1 DEF OwnInv
  <2>3. Follows(e, m)
    BY <2>1
  <2>4. FetchOf(m) # None /\ FetchOf(m).reply = None
    BY <2>1, FetchIsSome DEF FetchOf
  <2>5. \/ e = old
        \/ e.fetch = FetchOf(m)
        \/ e.fetch = None /\ old.fetch # None /\ old.fetch.reply # None /\ e.data = old.fetch.reply
        \/ e.fetch = None /\ e.failed
    BY <2>3 DEF Follows
  <2> HIDE DEF old, e
  <2>6. OwnEntry(e, m, d)
    <3>1. CASE e = old
      BY <2>2, <3>1
    <3>2. CASE e.fetch = FetchOf(m)
      BY <2>4, <3>2 DEF OwnEntry
    <3>3. CASE e.fetch = None /\ old.fetch # None /\ old.fetch.reply # None /\ e.data = old.fetch.reply
      BY <2>2, <3>3 DEF OwnEntry
    <3>4. CASE e.fetch = None /\ e.failed
      BY <3>4 DEF OwnEntry
    <3> QED BY <2>5, <3>1, <3>2, <3>3, <3>4
  <2>7. own'.namespace = m /\ own'.deployment = d
    BY <2>1
  <2>8. OwnEntry(EntryOf(cache, InspectorsKey(m)), m, d)'
    BY <2>1, <2>6, CommitOwn DEF e
  <2> QED BY <2>7, <2>8
<1>3. Clean' => Clean
  BY DEF Clean
<1> QED BY <1>1, <1>2, <1>3 DEF OwnInv

\* A fetch of the inspectors of a namespace, where it is one.
LEMMA FetchFollows ==
    ASSUME NEW condition, NEW n, NEW m \in Namespaces
    PROVE  Follows(EntryOf(FetchIf(condition, cache, InspectorsKey(n), n), InspectorsKey(m)), m)
<1> DEFINE c == FetchIf(condition, cache, InspectorsKey(n), n)
<1>1. CASE n = m
  <2>1. \/ EntryOf(c, InspectorsKey(n)) = EntryOf(cache, InspectorsKey(n))
        \/ EntryOf(c, InspectorsKey(n)).fetch = FetchOf(n)
    BY FetchEffect
  <2> HIDE DEF c
  <2>2. Follows(EntryOf(c, InspectorsKey(m)), m)
    BY <1>1, <2>1 DEF Follows
  <2> QED BY <2>2 DEF c
<1>2. CASE n # m
  <2>1. EntryOf(c, InspectorsKey(m)) = EntryOf(cache, InspectorsKey(m))
    BY <1>2, FetchEffect, KeysDiffer
  <2> QED BY <2>1 DEF Follows
<1> QED BY <1>1, <1>2

\* A fetch in flight with its answer.
FetchWith(closure, value) == [closure |-> closure, reply |-> value]

LEMMA ReplyEffect ==
    ASSUME NEW c, NEW key, NEW value
    PROVE  LET e == EntryOf(Reply(c, key, value), key) IN
           /\ \A j : j # key => EntryOf(Reply(c, key, value), j) = EntryOf(c, j)
           /\ e.fetch = FetchWith(EntryOf(c, key).fetch.closure, value)
<1> DEFINE old == EntryOf(c, key)
           new == [data |-> old.data, failed |-> old.failed,
                   fetch |-> [closure |-> old.fetch.closure, reply |-> value]]
<1>1. Reply(c, key, value) = Put(c, key, new)
  BY DEF Reply
<1>2. new.fetch = FetchWith(old.fetch.closure, value)
  BY DEF FetchWith
<1> HIDE DEF new
<1> QED BY <1>1, <1>2, EntryOfPut

LEMMA AnswersOwn ==
    ASSUME SettingsInv, OwnInv, NEW n \in Namespaces, AnswerInspectors(n) \/ RefuseInspectors(n)
    PROVE  OwnInv'
<1>1. PICK value \in Lists : /\ cache' = Reply(cache, InspectorsKey(n), value)
                             /\ value = NotAList \/ value = inspectors[n]
  BY DEF SettingsInv, ClusterType, AnswerInspectors, RefuseInspectors, Lists
<1>2. UNCHANGED <<inspectors, selected, own>> /\ IsFetching(cache, InspectorsKey(n))
  BY DEF AnswerInspectors, RefuseInspectors, Unanswered, cluster
<1>3. OwnExists' /\ own' \in {None} \cup Owned
  BY <1>2 DEF OwnInv, OwnExists
<1>4. ASSUME Clean
      PROVE  OwnEntry(EntryOf(cache, InspectorsKey(own.namespace)), own.namespace, own.deployment)'
  <2>1. PICK m \in Namespaces, d \in Deployments : m = own.namespace /\ d = own.deployment
    BY <1>4 DEF OwnInv, Clean, Owned
  <2> DEFINE old == EntryOf(cache, InspectorsKey(m))
             fetch == FetchWith(old.fetch.closure, value)
  <2>2. OwnEntry(old, m, d)
    BY <1>4, <2>1 DEF OwnInv
  <2>3. /\ n = m => EntryOf(cache', InspectorsKey(m)).fetch = fetch
        /\ n # m => EntryOf(cache', InspectorsKey(m)) = EntryOf(cache, InspectorsKey(m))
    <3> DEFINE key == InspectorsKey(n)
    <3>0. cache' = Reply(cache, key, value)
      BY <1>1
    <3> HIDE DEF key
    <3>1. /\ \A j : j # key => EntryOf(cache', j) = EntryOf(cache, j)
          /\ EntryOf(cache', key).fetch = FetchWith(EntryOf(cache, key).fetch.closure, value)
      BY <3>0, ReplyEffect
    <3>2. n # m => InspectorsKey(m) # key
      BY KeysDiffer DEF key
    <3> QED BY <3>1, <3>2 DEF key
  <2>4. n = m => fetch # None
    <3>1. n = m => old.fetch.closure \in Namespaces
      BY <1>2 DEF SettingsInv, Good, GoodInspectors, IsFetching
    <3>2. value \in {None, NotAList} \cup SUBSET Inspector
      BY DEF Lists
    <3> HIDE DEF old
    <3> QED BY <3>1, <3>2, NoneAssumption DEF FetchWith
  <2>5. n = m => value = NotAList \/ Has(value, d)
    BY <1>1, <1>4, <2>1 DEF OwnInv, OwnExists, Clean, Has
  <2>6. fetch.reply = value
    BY DEF FetchWith
  <2> DEFINE e == EntryOf(cache', InspectorsKey(m))
  <2> HIDE DEF old, fetch
  <2>7. selected' = m => selected = m
    BY <1>2
  <2>8. /\ e.fetch # None => e.fetch.reply \in {None, NotAList} \/ Has(e.fetch.reply, d)
        /\ selected' = m /\ e.fetch = None /\ ~e.failed =>
                e.data \in {None, NotAList} \/ Has(e.data, d)
    <3>1. CASE n = m
      BY <2>3, <2>4, <2>5, <2>6, <3>1
    <3>2. CASE n # m
      BY <2>2, <2>3, <2>7, <3>2 DEF OwnEntry, old
    <3> QED BY <3>1, <3>2
  <2>9. OwnEntry(EntryOf(cache, InspectorsKey(m)), m, d)'
    BY <2>8 DEF OwnEntry
  <2> QED BY <1>2, <2>1, <2>9
<1> QED BY <1>2, <1>3, <1>4 DEF OwnInv, Clean

\* The entries of the inspectors that any of the caches which fetches leave follow.
LEMMA OthersFollow ==
    ASSUME NEW c, NEW key, \A m : key # InspectorsKey(m),
           \A j : j # key => EntryOf(c, j) = EntryOf(cache, j)
    PROVE  \A m \in Namespaces : Follows(EntryOf(c, InspectorsKey(m)), m)
BY DEF Follows

LEMMA RejectFollows ==
    ASSUME NEW key, NEW m \in Namespaces
    PROVE  Follows(EntryOf(Reject(cache, key), InspectorsKey(m)), m)
<1> DEFINE new == [data |-> DataOf(cache, key), failed |-> TRUE, fetch |-> None]
           e == EntryOf(Reject(cache, key), InspectorsKey(m))
<1>1. e = new \/ e = EntryOf(cache, InspectorsKey(m))
  BY EntryOfPut DEF Reject
<1>2. new.failed /\ new.fetch = None
  OBVIOUS
<1> HIDE DEF new, e
<1>3. Follows(e, m)
  BY <1>1, <1>2 DEF Follows
<1> QED BY <1>3 DEF e

LEMMA FetchesOwn ==
    ASSUME SettingsInv, OwnInv, Fetches
    PROVE  OwnInv'
<1>1. CASE \E n \in Namespaces : AnswerInspectors(n) \/ RefuseInspectors(n)
  BY <1>1, AnswersOwn
<1>2. CASE \E n \in Namespaces : ReceiveInspectors(n)
  <2>1. PICK n \in Namespaces : ReceiveInspectors(n)
    BY <1>2
  <2> DEFINE old == EntryOf(cache, InspectorsKey(n))
             c == Resolve(cache, InspectorsKey(n), old.fetch.reply)
  <2>2. old = cache[InspectorsKey(n)] /\ old.fetch # None
    BY <2>1 DEF ReceiveInspectors, IsFetching, EntryOf, Blank
  <2>3. old.fetch.reply # None /\ CommitWith(c, selected, dialog) /\ UNCHANGED <<inspectors, own>>
    BY <2>1, <2>2 DEF ReceiveInspectors, Commit, cluster
  <2>4. /\ \A j : j # InspectorsKey(n) => EntryOf(c, j) = EntryOf(cache, j)
        /\ EntryOf(c, InspectorsKey(n)).data = old.fetch.reply
        /\ EntryOf(c, InspectorsKey(n)).fetch = None
    BY ResolveEffect
  <2> HIDE DEF c
  <2>5. \A m \in Namespaces : Follows(EntryOf(c, InspectorsKey(m)), m)
    BY <2>2, <2>3, <2>4, KeysDiffer DEF Follows
  <2> QED BY <2>3, <2>5, RenderOwn
<1>3. CASE \E key \in DOMAIN cache : ReceiveDeployments(key)
  <2>1. PICK key : ReceiveDeployments(key)
    BY <1>3
  <2> DEFINE c == WithRows(key, cache[key].fetch.closure)
  <2>2. CommitWith(c, selected, dialog) /\ UNCHANGED <<inspectors, own>>
    BY <2>1 DEF ReceiveDeployments, Commit, cluster
  <2>3. \A j : j # key => EntryOf(c, j) = EntryOf(cache, j)
    BY EntryOfPut DEF WithRows, Resolve, Reject
  <2>4. \A m : key # InspectorsKey(m)
    BY <2>1 DEF ReceiveDeployments, InspectorsKey
  <2> HIDE DEF c
  <2>5. \A m \in Namespaces : Follows(EntryOf(c, InspectorsKey(m)), m)
    BY <2>3, <2>4, OthersFollow
  <2> QED BY <2>2, <2>5, RenderOwn
<1>4. CASE ReceiveNamespaces \/ ReceiveServices
  <2>1. PICK key \in {NamespacesKey, ServicesKey} :
            \E data : CommitWith(Resolve(cache, key, data), selected, dialog)
    BY <1>4 DEF ReceiveNamespaces, ReceiveServices, Commit
  <2>2. PICK data : CommitWith(Resolve(cache, key, data), selected, dialog)
    BY <2>1
  <2>3. UNCHANGED <<inspectors, own>>
    BY <1>4 DEF ReceiveNamespaces, ReceiveServices, cluster
  <2> DEFINE c == Resolve(cache, key, data)
  <2>4. CommitWith(c, selected, dialog)
    BY <2>2
  <2>5. \A j : j # key => EntryOf(c, j) = EntryOf(cache, j)
    BY ResolveEffect
  <2>6. \A m : key # InspectorsKey(m)
    BY KeysDiffer
  <2> HIDE DEF c
  <2>7. \A m \in Namespaces : Follows(EntryOf(c, InspectorsKey(m)), m)
    BY <2>5, <2>6, OthersFollow
  <2> QED BY <2>3, <2>4, <2>7, RenderOwn
<1>5. CASE RefetchNamespaces \/ \E key : FetchFails(key)
  <2>1. PICK key : CommitWith(Reject(cache, key), selected, dialog) /\ UNCHANGED <<inspectors, own>>
    BY <1>5 DEF RefetchNamespaces, FetchFails, Commit, cluster
  <2> QED BY <2>1, RejectFollows, RenderOwn
<1>6. CASE RefetchDeployments
  <2> DEFINE key == CurrentKey(cache, selected)
             c == WithRows(key, Closure(cache, selected))
  <2>1. /\ CommitWith(c, selected, dialog) \/ CommitWith(Reject(cache, key), selected, dialog)
        /\ UNCHANGED <<inspectors, own>>
    BY <1>6 DEF RefetchDeployments, Commit, cluster
  <2>2. \A j : j # key => EntryOf(c, j) = EntryOf(cache, j)
    BY EntryOfPut DEF WithRows, Resolve, Reject
  <2>3. \A m : key # InspectorsKey(m)
    BY KeysDiffer DEF CurrentKey, DeploymentsKey
  <2> HIDE DEF c, key
  <2>4. \A m \in Namespaces : Follows(EntryOf(c, InspectorsKey(m)), m)
    BY <2>2, <2>3, OthersFollow
  <2> QED BY <2>1, <2>4, RejectFollows, RenderOwn
<1> QED BY <1>1, <1>2, <1>3, <1>4, <1>5, <1>6 DEF Fetches

\* Steps that leave the cache and the creation as they are.
LEMMA StillOwn ==
    ASSUME OwnInv, UNCHANGED <<cache, selected, own>>, OwnExists'
    PROVE  OwnInv'
BY DEF OwnInv, OwnEntry, Clean

LEMMA UserOwn ==
    ASSUME SettingsInv, OwnInv, User
    PROVE  OwnInv'
<1>1. CASE Focus
  <2> DEFINE open == selected # None
             observed == Monitors(table) # {}
             again == selected # None /\ IsError(cache, NamespacesKey)
             wanted == Enabled(cache, selected) /\ IsError(cache, CurrentKey(cache, selected))
             c1 == FetchIf(open, cache, InspectorsKey(selected), selected)
             c2 == FetchIf(observed, c1, ServicesKey, selected)
             c3 == FetchIf(again, c2, NamespacesKey, None)
             c4 == FetchIf(wanted, c3, CurrentKey(cache, selected), Closure(cache, selected))
  <2>1. CommitWith(c4, selected, dialog) /\ UNCHANGED <<inspectors, own>>
    BY <1>1 DEF Focus, Commit, cluster
  <2> HIDE DEF open, observed, again, wanted
  <2>2. \A m \in Namespaces : Follows(EntryOf(c1, InspectorsKey(m)), m)
    BY FetchFollows
  <2> HIDE DEF c1
  <2>3. \A m : EntryOf(c2, InspectorsKey(m)) = EntryOf(c1, InspectorsKey(m))
    BY FetchEffect, KeysDiffer
  <2> HIDE DEF c2
  <2>4. \A m : EntryOf(c3, InspectorsKey(m)) = EntryOf(c2, InspectorsKey(m))
    BY FetchEffect, KeysDiffer
  <2> HIDE DEF c3
  <2>5. \A m : CurrentKey(cache, selected) # InspectorsKey(m)
    BY KeysDiffer DEF CurrentKey, DeploymentsKey
  <2>6. \A m : EntryOf(c4, InspectorsKey(m)) = EntryOf(c3, InspectorsKey(m))
    BY <2>5, FetchEffect
  <2> HIDE DEF c4
  <2>7. \A m \in Namespaces : Follows(EntryOf(c4, InspectorsKey(m)), m)
    BY <2>2, <2>3, <2>4, <2>6
  <2> QED BY <2>1, <2>7, RenderOwn
<1>2. CASE OpenSettings \/ LeaveSettings \/ \E n \in Namespaces : SelectNamespace(n)
  <2>1. PICK n : CommitWith(cache, n, dialog) /\ UNCHANGED <<inspectors, own>>
    BY <1>2 DEF OpenSettings, LeaveSettings, SelectNamespace, Commit, cluster
  <2>2. \A m \in Namespaces : Follows(EntryOf(cache, InspectorsKey(m)), m)
    BY DEF Follows
  <2> QED BY <2>1, <2>2, RenderOwn
<1>3. CASE (\E field \in Columns : Sort(field)) \/ \E value \in Queries : Search(value)
  <2>1. PICK t : Display(cache, selected, t, dialog) /\ UNCHANGED <<inspectors, own>>
    BY <1>3 DEF Sort, Search, cluster
  <2>2. selected' = selected /\ OwnExists' /\ own' \in {None} \cup Owned
    BY <2>1 DEF Display, OwnInv, OwnExists
  <2>3. ASSUME Clean
        PROVE  OwnEntry(EntryOf(cache, InspectorsKey(own.namespace)), own.namespace, own.deployment)'
    <3>1. PICK m \in Namespaces, d \in Deployments : m = own.namespace /\ d = own.deployment
      BY <2>3 DEF OwnInv, Clean, Owned
    <3> DEFINE e == EntryOf(cache', InspectorsKey(m))
    <3>2. OwnEntry(EntryOf(cache, InspectorsKey(m)), m, d)
      BY <2>3, <3>1 DEF OwnInv
    <3>3. /\ e.fetch # None => e = EntryOf(cache, InspectorsKey(m))
          /\ selected = m => e = EntryOf(cache, InspectorsKey(m))
      BY <2>1, DisplayEffect
    <3> HIDE DEF e
    <3>4. /\ e.fetch # None => e.fetch.reply \in {None, NotAList} \/ Has(e.fetch.reply, d)
          /\ selected' = m /\ e.fetch = None /\ ~e.failed =>
                  e.data \in {None, NotAList} \/ Has(e.data, d)
      BY <2>2, <3>2, <3>3 DEF OwnEntry
    <3>5. OwnEntry(EntryOf(cache, InspectorsKey(m)), m, d)'
      BY <3>4 DEF OwnEntry, e
    <3> QED BY <2>1, <3>1, <3>5
  <2> QED BY <2>1, <2>2, <2>3 DEF OwnInv, Clean
<1>4. CASE UNCHANGED <<inspectors, cache, selected, own>>
  BY <1>4, StillOwn DEF OwnInv, OwnExists
<1> QED BY <1>1, <1>2, <1>3, <1>4 DEF User, OpenMonitor, CloseMonitor, Submit, OpenConfirm,
                                     CancelConfirm, Confirm, cluster, page

\* Without a fetch of the inspectors in flight, the invalidation starts one where the
\* page shows them.
LEMMA InvalidatedEntry ==
    ASSUME NEW m \in Namespaces, SettingsInv
    PROVE  LET e == EntryOf(Invalidated, InspectorsKey(m))
               old == EntryOf(cache, InspectorsKey(m))
           IN  /\ Follows(e, m)
               /\ old.fetch = None => e = old \/ e.fetch = FetchOf(m)
               /\ selected = m => e.fetch # None
<1> DEFINE open == selected # None
           c == FetchIf(open, cache, InspectorsKey(selected), selected)
           e == EntryOf(c, InspectorsKey(m))
           old == EntryOf(cache, InspectorsKey(m))
<1>1. Invalidated = c
  BY DEF Invalidated
<1>2. Follows(e, m)
  <2> HIDE DEF open
  <2> QED BY FetchFollows
<1>3. e = old \/ (selected = m /\ e.fetch = FetchOf(m))
  <2>1. CASE selected = m
    <3> HIDE DEF open
    <3> QED BY <2>1, FetchEffect
  <2>2. CASE selected # m
    <3> HIDE DEF open
    <3> QED BY <2>2, FetchEffect, KeysDiffer
  <2> QED BY <2>1, <2>2
<1>4. selected = m => e.fetch # None
  <2>1. selected = m => c = Fetch(cache, InspectorsKey(m), m)
    BY SettingsAssumption DEF FetchIf
  <2>2. FetchOf(m) # None
    BY FetchIsSome
  <2> HIDE DEF c
  <2> QED BY <2>1, <2>2, FetchStarts DEF IsFetching
<1> HIDE DEF c
<1> QED BY <1>1, <1>2, <1>3, <1>4

\* The answer to the creation: the list that is fetched from now on has the inspector.
LEMMA CreatedOwn ==
    ASSUME SettingsInv, OwnInv, NEW r, CommitWith(Invalidated, selected, r),
           own' = Told, UNCHANGED inspectors
    PROVE  OwnInv'
<1>1. own' \in {None} \cup Owned /\ OwnExists'
  <2>1. CASE own = None
    BY <2>1 DEF OwnExists, Told
  <2>2. CASE own # None
    <3>1. own \in Owned
      BY <2>2 DEF OwnInv
    <3> DEFINE raced == IsFetching(cache, InspectorsKey(own.namespace))
    <3>2. raced \in BOOLEAN
      BY DEF IsFetching
    <3>3. own' = [own EXCEPT !.told = TRUE, !.raced = raced]
      BY <2>2 DEF Told
    <3> HIDE DEF raced
    <3>4. own' \in Owned
      BY <3>1, <3>2, <3>3 DEF Owned
    <3>5. own'.namespace = own.namespace /\ own'.name = own.name /\ own'.deployment = own.deployment
      BY <3>1, <3>3 DEF Owned
    <3> QED BY <2>2, <3>4, <3>5 DEF OwnInv, OwnExists
  <2> QED BY <2>1, <2>2
<1>2. ASSUME Clean'
      PROVE  OwnEntry(EntryOf(cache, InspectorsKey(own.namespace)), own.namespace, own.deployment)'
  <2>1. own # None /\ own \in Owned
    BY <1>2 DEF OwnInv, Clean, Told
  <2>2. PICK m \in Namespaces, d \in Deployments : m = own.namespace /\ d = own.deployment
    BY <2>1 DEF Owned
  <2> DEFINE old == EntryOf(cache, InspectorsKey(m))
             e == EntryOf(Invalidated, InspectorsKey(m))
  <2>3. own'.namespace = m /\ own'.deployment = d /\ own'.raced = IsFetching(cache, InspectorsKey(m))
    BY <2>1, <2>2 DEF Told, Owned
  <2>4. old.fetch = None
    BY <1>2, <2>3 DEF Clean, IsFetching
  <2>5. /\ e = old \/ e.fetch = FetchOf(m)
        /\ selected = m => e.fetch # None
    BY <2>4, InvalidatedEntry
  <2>6. FetchOf(m).reply = None
    BY DEF FetchOf
  <2> HIDE DEF old, e
  <2>7. OwnEntry(e, m, d)
    BY <2>4, <2>5, <2>6 DEF OwnEntry
  <2>8. OwnEntry(EntryOf(cache, InspectorsKey(m)), m, d)'
    BY <2>7, CommitOwn DEF e
  <2> QED BY <2>3, <2>8
<1> QED BY <1>1, <1>2 DEF OwnInv

LEMMA CallsOwn ==
    ASSUME SettingsInv, OwnInv, Calls
    PROVE  OwnInv'
<1>1. ClusterType /\ RequestType
  BY DEF SettingsInv
<1>2. CASE CreateAccepted
  <2>1. call \in Creations
    BY <1>1, <1>2 DEF RequestType, Creations, Deletions, CreateAccepted
  <2>2. /\ own' = [namespace |-> call.namespace, name |-> call.name,
                   deployment |-> call.deployment, told |-> FALSE, raced |-> FALSE]
        /\ inspectors' = [inspectors EXCEPT ![call.namespace] = @ \cup {Created}]
    BY <1>2 DEF CreateAccepted
  <2>3. own' \in Owned /\ ~Clean'
    BY <2>1, <2>2 DEF Owned, Creations, Clean
  <2>4. Created \in inspectors'[own'.namespace]
    BY <1>1, <2>1, <2>2 DEF ClusterType, Creations
  <2>5. Created.name = own'.name /\ Created.deployment = own'.deployment
    BY <2>2 DEF Created
  <2>6. OwnExists'
    BY <2>4, <2>5 DEF OwnExists
  <2> QED BY <2>3, <2>6 DEF OwnInv
<1>3. CASE DeleteAccepted
  <2>1. UNCHANGED <<cache, selected, own>>
    BY <1>3 DEF DeleteAccepted, page
  <2>2. OwnExists'
    <3> SUFFICES ASSUME own # None
                 PROVE  \E i \in inspectors'[own.namespace] :
                            i.name = own.name /\ i.deployment = own.deployment
      BY <2>1 DEF OwnExists
    <3>1. PICK i \in inspectors[own.namespace] : i.name = own.name /\ i.deployment = own.deployment
      BY DEF OwnInv, OwnExists
    <3>2. own.namespace \in Namespaces /\ i \in Inspector
      BY <1>1 DEF OwnInv, Owned, ClusterType
    <3> DEFINE n == call.namespace
               told(x) == IF x.name = call.name THEN [x EXCEPT !.deleting = TRUE] ELSE x
    <3>3. inspectors' = [inspectors EXCEPT ![n] = {told(x) : x \in inspectors[n]}]
      BY <1>3 DEF DeleteAccepted
    <3>4. told(i).name = i.name /\ told(i).deployment = i.deployment
      BY <3>2 DEF Inspector
    <3> HIDE DEF told, n
    <3>5. i \in inspectors'[own.namespace] \/ told(i) \in inspectors'[own.namespace]
      BY <1>1, <3>1, <3>2, <3>3 DEF ClusterType
    <3> QED BY <3>1, <3>4, <3>5
  <2> QED BY <2>1, <2>2, StillOwn
<1>4. CASE CreateAnswered /\ call.reply = "ok"
  <2>1. own' = Told /\ UNCHANGED inspectors /\ \E r : CommitWith(Invalidated, selected, r)
    BY <1>4 DEF CreateAnswered, Commit, cluster
  <2>2. PICK r : CommitWith(Invalidated, selected, r)
    BY <2>1
  <2> QED BY <2>1, <2>2, CreatedOwn
<1>5. CASE DeleteAnswered
  <2>1. CommitWith(Invalidated, selected, dialog) /\ UNCHANGED <<inspectors, own>>
    BY <1>5 DEF DeleteAnswered, Commit, cluster
  <2>2. \A m \in Namespaces : Follows(EntryOf(Invalidated, InspectorsKey(m)), m)
    BY InvalidatedEntry
  <2> QED BY <2>1, <2>2, RenderOwn
<1>6. CASE UNCHANGED <<inspectors, cache, selected, own>>
  BY <1>6, StillOwn DEF OwnInv, OwnExists
<1> QED BY <1>2, <1>3, <1>4, <1>5, <1>6 DEF Calls, CallRefused, CreateAnswered, CallFails,
                                          cluster, page

LEMMA ClusterOwn ==
    ASSUME SettingsInv, OwnInv, Kubectl \/ Operator \/ Replicas
    PROVE  OwnInv'
<1>1. ClusterType
  BY DEF SettingsInv
<1>2. CASE Kubectl
  <2>1. PICK n, i : OthersCreate(n, i)
    BY <1>2 DEF Kubectl
  <2>2. inspectors' = [inspectors EXCEPT ![n] = @ \cup {i}] /\ UNCHANGED <<cache, selected, own>>
    BY <2>1 DEF OthersCreate, page
  <2>3. \A m \in Namespaces : inspectors[m] \subseteq inspectors'[m]
    BY <1>1, <2>2 DEF ClusterType
  <2>4. OwnExists'
    BY <2>2, <2>3 DEF OwnInv, OwnExists, Owned
  <2> QED BY <2>2, <2>4, StillOwn
<1>3. CASE Operator
  <2>1. PICK n \in Namespaces : \E i \in inspectors[n] : OperatorUpdates(n, i)
    BY <1>3 DEF Operator
  <2>2. PICK i \in inspectors[n] : OperatorUpdates(n, i)
    BY <2>1
  <2>3. UNCHANGED <<cache, selected>>
    BY <2>2 DEF OperatorUpdates, page
  <2>4. CASE own' = None
    BY <2>4 DEF OwnInv, OwnExists, Clean
  <2>5. CASE own' # None
    <3>1. own' = own /\ ~(i.deleting /\ own.namespace = n /\ own.name = i.name)
      BY <2>2, <2>5 DEF OperatorUpdates
    <3>2. PICK o \in inspectors[own.namespace] : o.name = own.name /\ o.deployment = own.deployment
      BY <2>5, <3>1 DEF OwnInv, OwnExists
    <3>3. own.namespace \in Namespaces /\ o \in Inspector
      BY <1>1, <2>5, <3>1, <3>2 DEF OwnInv, Owned, ClusterType
    <3> DEFINE running == [i EXCEPT !.status = Running]
    <3>4. o = i => running.name = own.name /\ running.deployment = own.deployment
      BY <3>2, <3>3 DEF Inspector
    <3>5. CASE i.deleting
      <4>1. inspectors' = [inspectors EXCEPT ![n] = @ \ {i}]
        BY <2>2, <3>5 DEF OperatorUpdates
      <4>2. o \in inspectors'[own.namespace]
        BY <1>1, <3>1, <3>2, <3>3, <3>5, <4>1 DEF ClusterType
      <4> QED BY <2>3, <3>1, <3>2, <4>2, StillOwn DEF OwnExists
    <3>6. CASE ~i.deleting
      <4>1. inspectors' = [inspectors EXCEPT ![n] = (@ \ {i}) \cup {running}]
        BY <2>2, <3>6 DEF OperatorUpdates
      <4> HIDE DEF running
      <4>2. o \in inspectors'[own.namespace] \/ (o = i /\ running \in inspectors'[own.namespace])
        BY <1>1, <3>2, <3>3, <4>1 DEF ClusterType
      <4>3. \E x \in inspectors'[own.namespace] : x.name = own.name /\ x.deployment = own.deployment
        BY <3>2, <3>4, <4>2
      <4> QED BY <2>3, <3>1, <4>3, StillOwn DEF OwnExists
    <3> QED BY <3>5, <3>6
  <2> QED BY <2>4, <2>5
<1>4. CASE Replicas
  <2>1. UNCHANGED <<inspectors, cache, selected, own>>
    BY <1>4 DEF Replicas, ReplicasChange, page
  <2> QED BY <2>1, StillOwn DEF OwnInv, OwnExists
<1> QED BY <1>2, <1>3, <1>4

\* What this user has created stays with the fetches, until the operator removes it.
THEOREM OwnInvariant == Spec => [](SettingsInv /\ OwnInv)
<1>1. Init => SettingsInv /\ OwnInv
  BY InitGood DEF Init, OwnInv, OwnExists, Clean
<1>2. SettingsInv /\ OwnInv /\ [Next]_vars => (SettingsInv /\ OwnInv)'
  <2> SUFFICES ASSUME SettingsInv, OwnInv, [Next]_vars
               PROVE  SettingsInv' /\ OwnInv'
    OBVIOUS
  <2>1. CASE UNCHANGED vars
    <3>1. UNCHANGED <<inspectors, cache, selected, own>>
      BY <2>1 DEF vars, cluster, page
    <3>2. OwnExists'
      BY <3>1 DEF OwnInv, OwnExists
    <3>3. OwnInv'
      BY <3>1, <3>2, StillOwn
    <3> QED BY <3>3, StepGood
  <2>2. CASE Next
    <3>1. OwnInv'
      BY <2>2, FetchesOwn, UserOwn, CallsOwn, ClusterOwn DEF Next
    <3> QED BY <3>1, StepGood
  <2> QED BY <2>1, <2>2
<1> QED BY <1>1, <1>2, PTL DEF Spec

-----------------------------------------------------------------------------
(* What the page promises. *)

\* Every variable that the answers of the API server, the user and the timing of the
\* fetches reach has its type.
THEOREM TypesHold == Spec => []TypeOK
<1>1. ASSUME SettingsInv
      PROVE  TypeOK
  <2>1. /\ inspectors \in [Namespaces -> SUBSET Inspector]
        /\ ready \in [Namespaces -> [Deployments -> Ready]]
    BY <1>1 DEF SettingsInv, ClusterType, ReadyType
  <2>2. selected \in Namespaces \cup {None} /\ table \in TableSort
    BY <1>1 DEF SettingsInv, Page, GoodTable
  <2>3. dialog \in (Namespaces \X Deployments) \cup {None}
    BY <1>1, DialogTells
  <2>4. ASSUME NEW n \in Namespaces
        PROVE  DataOf(cache, InspectorsKey(n)) \in {None, NotAList} \cup SUBSET Inspector
    BY <1>1 DEF SettingsInv, Good, GoodInspectors, DataOf, Lists
  <2>5. DataOf(cache, ServicesKey) \in {None} \cup SUBSET Services
    BY <1>1 DEF SettingsInv, Good, GoodServices, DataOf
  <2> QED BY <2>1, <2>2, <2>3, <2>4, <2>5 DEF TypeOK
<1> QED BY <1>1, SettingsInvariant, PTL

\* Rows of another namespace, whose answer comes after the user has left it, never
\* get on the page: the key of the deployments has the namespace.
THEOREM RowsAreOfNamespace == Spec => []RowsOfNamespace
<1>1. SettingsInv => RowsOfNamespace
  BY RowsShown DEF RowsOfNamespace, RowTells
<1> QED BY <1>1, SettingsInvariant, PTL

\* The rows on the page tell exactly the inspectors that the page has, although the
\* two are fetched one after the other: the key of the deployments has the versions
\* of the inspectors.
THEOREM RowsAgree == Spec => []RowsTellInspectors
<1>1. ASSUME SettingsInv
      PROVE  RowsTellInspectors
  <2> SUFFICES ASSUME NEW k \in DOMAIN table.sortedData
               PROVE  LET row == table.sortedData[k]
                          items == DataOf(cache, InspectorsKey(selected))
                          i == Find(items, row.name)
                      IN  /\ items \notin {None, NotAList}
                          /\ row.monitored = IF i = None THEN FALSEText ELSE TRUEText
                          /\ i # None => row.inspectorName = i.name
                          /\ i # None /\ i.status # NoText => row.status = i.status
    BY DEF RowsTellInspectors
  <2> DEFINE items == DataOf(cache, InspectorsKey(selected))
  <2>1. RowTells(table.sortedData[k], selected, Versions(items))
    BY <1>1, RowsShown
  <2>2. items \notin {None, NotAList} /\ Versions(items) = items
    BY <2>1 DEF RowTells, Versions
  <2> HIDE DEF items
  <2> QED BY <2>1, <2>2 DEF RowTells, items
<1> QED BY <1>1, SettingsInvariant, PTL

\* Whatever was sorted, searched, fetched or left in between, the table shows rows of
\* the data that the page has now, and all of them without a search text.
THEOREM ShownRowsAreCurrent == Spec => []ShownIsCurrent
<1>1. SettingsInv => ShownIsCurrent
  BY DEF SettingsInv, Page, GoodTable, ShownIsCurrent
<1> QED BY <1>1, SettingsInvariant, PTL

\* The endpoints that an open dialogue offers are services of its namespace, unless
\* its fetch was started for another one, is in flight, or has failed.
THEOREM ServicesOfferedAreOwn == Spec => []OwnServicesOffered
<1>1. ASSUME SettingsInv
      PROVE  OwnServicesOffered
  <2> SUFFICES ASSUME dialog # None, ~carried,
                      ~IsFetching(cache, ServicesKey), ~IsError(cache, ServicesKey)
               PROVE  Offered \subseteq ServicesIn[dialog[1]]
    BY DEF OwnServicesOffered
  <2>1. dialog[1] = selected /\ Monitors(table) # {}
    BY <1>1, DialogTells
  <2>2. DataOf(cache, ServicesKey) = None \/ DataOf(cache, ServicesKey) \subseteq ServicesIn[selected]
    BY <1>1, <2>1 DEF SettingsInv, Page, OffersOwn
  <2> QED BY <2>1, <2>2 DEF Offered
<1> QED BY <1>1, SettingsInvariant, PTL

\* A click on a head or a change of the search text leaves the rows in the order that
\* the head then shows.
THEOREM HeadTellsRows == Spec => HeadTellsOrder
<1>1. SettingsInv /\ [Next]_vars => [HeadTells]_vars
  BY StepGood
<1> QED BY <1>1, SettingsInvariant, PTL DEF Spec, HeadTellsOrder, HeadTells

\* The deployment for which this user has created an inspector is shown as monitored
\* once the page is quiet, unless the answer to the creation came while a fetch of
\* the inspectors was in flight.
THEOREM CreationIsShown == Spec => []OwnCreationShown
<1>1. ASSUME SettingsInv, OwnInv
      PROVE  OwnCreationShown
  <2> DEFINE quiet == \A key \in DOMAIN cache \ {ServicesKey} :
                        ~IsFetching(cache, key) /\ ~IsError(cache, key)
  <2> SUFFICES ASSUME own # None, own.told, ~own.raced, selected = own.namespace, quiet,
                      NEW k \in DOMAIN table.sortedData,
                      table.sortedData[k].name = own.deployment
               PROVE  table.sortedData[k].monitored = TRUEText
    BY DEF OwnCreationShown
  <2> DEFINE key == InspectorsKey(selected)
             e == EntryOf(cache, key)
             items == DataOf(cache, key)
  <2>1. selected \in Namespaces /\ RowTells(table.sortedData[k], selected, Versions(items))
    BY <1>1, RowsShown
  <2>2. items \notin {None, NotAList} /\ Versions(items) = items
    BY <2>1 DEF RowTells, Versions
  <2>3. key \in DOMAIN cache
    BY <2>2 DEF DataOf, EntryOf, Blank
  <2>4. key # ServicesKey
    BY KeysDiffer
  <2>5. e.fetch = None /\ ~e.failed /\ e.data = items
    BY <2>3, <2>4 DEF IsFetching, IsError, DataOf
  <2>6. OwnEntry(e, selected, own.deployment)
    BY <1>1 DEF OwnInv, Clean
  <2> HIDE DEF e, key
  <2>7. Has(items, own.deployment)
    BY <2>2, <2>5, <2>6 DEF OwnEntry
  <2>8. items \in SUBSET Inspector
    BY <1>1, <2>1, <2>2 DEF SettingsInv, Good, GoodInspectors, Lists, DataOf, key
  <2>9. Find(items, own.deployment) # None
    BY <2>7, <2>8, FindFinds DEF Has
  <2> HIDE DEF items
  <2> QED BY <2>1, <2>2, <2>9 DEF RowTells
<1> QED BY <1>1, OwnInvariant, PTL
=============================================================================
