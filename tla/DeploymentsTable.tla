-------------------------- MODULE DeploymentsTable --------------------------
(***************************************************************************)
(* The table of deployments: ui/src/components/deployments.tsx.            *)
(*                                                                         *)
(* What the component keeps is one record: the search text, the column and *)
(* the direction that its head shows, and sortedData, the rows that are    *)
(* shown.  "data" is its property, the rows that the page has, or None     *)
(* while its query has none.  An operator here is what a handler or the    *)
(* effect makes of the record.                                             *)
(* A text is told by its place in the order of localeCompare and by the    *)
(* search texts it contains; layout is left out.                           *)
(***************************************************************************)
EXTENDS Naturals, Sequences, FiniteSets, QueryClient

CONSTANTS
    Text,      \* what a field of a row can be
    Place,     \* [Text -> Nat]: the order of localeCompare
    Queries,   \* what a user searches for, trimmed and in lower case
    Contains,  \* [Queries -> SUBSET Text]: the texts that contain it
    NoText     \* the empty search text

ASSUME TextAssumption ==
    /\ Place \in [Text -> Nat]
    /\ Contains \in [Queries -> SUBSET Text]
    /\ NoText \in Queries /\ Contains[NoText] = Text

\* The fields of a row that matter; "created" changes like "ready", "modelName"
\* is like "serviceRef", and "id" tells what "name" and "namespace" tell.
Fields == {"name", "ready", "serviceRef", "status", "monitored", "inspectorName", "namespace"}
RowData == [Fields -> Text]

\* The columns whose head sorts.
Columns == {"name", "ready", "serviceRef", "status", "monitored"}

-----------------------------------------------------------------------------
(* filterData, sortData. *)

\* filterData reads the keys of the first row: without rows it throws.
Throws(data) == data = None \/ data = <<>>

\* The rows at some positions of the data, in an order of these positions (a set
\* of pairs): each row has the rank that the number of those up to it says.
Arranged(data, positions, order) ==
    LET rank == [j \in positions |-> Cardinality({i \in positions : <<i, j>> \in order})]
    IN  [k \in 1..Cardinality(positions) |-> data[CHOOSE j \in positions : rank[j] = k]]

FilterData(data, search) ==
    LET keys == DOMAIN data[1]
        found == {i \in DOMAIN data : \E key \in keys : data[i][key] \in Contains[search]}
    IN  Arranged(data, found, {p \in found \X found : p[1] <= p[2]})

\* The order of the rows by a column: the sort is stable.
ByColumn(data, field, reversed) ==
    {p \in (DOMAIN data) \X (DOMAIN data) :
        LET a == Place[data[p[1]][field]]
            b == Place[data[p[2]][field]]
        IN  IF a = b THEN p[1] <= p[2] ELSE IF reversed THEN b < a ELSE a < b}

\* The rows of data in the order of a column.
Sorted(data, field, reversed) ==
    Arranged(data, DOMAIN data, ByColumn(data, field, reversed))

SortData(data, field, reversed, search) ==
    FilterData(IF field = None THEN data ELSE Sorted(data, field, reversed), search)

-----------------------------------------------------------------------------
(* TableSort. *)

Rows(data) == IF data = None THEN <<>> ELSE data

\* The table when it is not on the page, and when it is new there.
Unmounted == [mounted |-> FALSE, search |-> NoText, sortBy |-> None, reversed |-> FALSE,
              sortedData |-> <<>>]
Mounted(data) == [Unmounted EXCEPT !.mounted = TRUE, !.sortedData = Rows(data)]

\* Seeded defect: the effect runs once.
NewDataOnce(t, data) == IF t.sortedData = <<>> THEN Mounted(data) ELSE t

\* The effect: new data is shown as it came.
NewData(t, data) == [t EXCEPT !.sortedData = Rows(data)]

\* Seeded defect: the rows are sorted by the state, which the handler sees only
\* after the next render.
SetSortingLate(t, data, field) ==
    [t EXCEPT !.reversed = field = t.sortBy /\ ~t.reversed, !.sortBy = field,
              !.sortedData = IF Throws(data) THEN @ ELSE SortData(data, field, t.reversed, t.search)]

\* The handlers set the head first: when sortData throws, the rows stay.
SetSorting(t, data, field) ==
    LET reversed == field = t.sortBy /\ ~t.reversed IN
    [t EXCEPT !.reversed = reversed, !.sortBy = field,
              !.sortedData = IF Throws(data) THEN @ ELSE SortData(data, field, reversed, t.search)]

HandleSearchChange(t, data, value) ==
    [t EXCEPT !.search = value,
              !.sortedData = IF Throws(data) THEN @
                             ELSE SortData(data, t.sortBy, t.reversed, value)]

TableSort ==
    [mounted : BOOLEAN, search : Queries, sortBy : Columns \cup {None}, reversed : BOOLEAN,
     sortedData : Seq(RowData)]

-----------------------------------------------------------------------------
(* What the table promises. *)

\* How often a row is among some rows.
Times(row, rows) == Cardinality({i \in DOMAIN rows : rows[i] = row})

\* The rows shown are rows of the data, none more often than it is there.
OnlyRowsOf(rows, data) ==
    \A i \in DOMAIN rows : Times(rows[i], rows) <= Times(rows[i], data)

\* The rows are in the order of the column that its head shows.
InOrder(t) ==
    t.sortBy # None =>
        \A i, j \in DOMAIN t.sortedData :
            LET a == Place[t.sortedData[i][t.sortBy]]
                b == Place[t.sortedData[j][t.sortBy]]
            IN  i < j => IF t.reversed THEN a >= b ELSE a <= b
=============================================================================
