---------------------------- MODULE QueryClient ----------------------------
(***************************************************************************)
(* The query cache of react-query 3.39 as ui/src uses it: the queries of   *)
(* useQuery with the default options (an answer is stale at once, a page   *)
(* that mounts or a window that gets the focus fetches again) and          *)
(* invalidateQueries.                                                      *)
(*                                                                         *)
(* A cache is a function from the keys it has to entries: the last data,   *)
(* whether the last fetch failed, and the fetch in flight.  A fetch runs   *)
(* the function of the render that started it: "closure" is what that      *)
(* function sees of its component.  While a fetch is in flight nobody      *)
(* starts another one for its key, whatever closure it has.                *)
(* A fetch that fails is one that failed at each of its four attempts.     *)
(***************************************************************************)

CONSTANT None

\* A fetch in flight, and what it was answered, once it was.
FetchOf(closure) == [closure |-> closure, reply |-> None]

Blank == [data |-> None, failed |-> FALSE, fetch |-> None]

EntryOf(cache, key) == IF key \in DOMAIN cache THEN cache[key] ELSE Blank
DataOf(cache, key) == EntryOf(cache, key).data
IsFetching(cache, key) == EntryOf(cache, key).fetch # None
IsError(cache, key) == EntryOf(cache, key).failed
IsSuccess(cache, key) == DataOf(cache, key) # None /\ ~IsError(cache, key)
IsLoading(cache, key) == DataOf(cache, key) = None /\ IsFetching(cache, key)

Put(cache, key, entry) ==
    [k \in DOMAIN cache \cup {key} |-> IF k = key THEN entry ELSE cache[k]]

\* Fetch a key, unless it is being fetched.  Without data the error is forgotten.
Fetch(cache, key, closure) ==
    LET entry == EntryOf(cache, key) IN
    IF entry.fetch # None THEN cache
    ELSE Put(cache, key, [data |-> entry.data, failed |-> entry.failed /\ entry.data # None,
                          fetch |-> FetchOf(closure)])

FetchIf(condition, cache, key, closure) ==
    IF condition THEN Fetch(cache, key, closure) ELSE cache

\* The fetch of a key has its result, or has failed.
Resolve(cache, key, data) ==
    Put(cache, key, [data |-> data, failed |-> FALSE, fetch |-> None])
Reject(cache, key) ==
    Put(cache, key, [data |-> DataOf(cache, key), failed |-> TRUE, fetch |-> None])

\* The server has answered the fetch of a key; the answer is on its way.
Reply(cache, key, value) ==
    LET entry == EntryOf(cache, key) IN
    Put(cache, key, [data |-> entry.data, failed |-> entry.failed,
                     fetch |-> [closure |-> entry.fetch.closure, reply |-> value]])

\* The cache without what is neither observed, in flight, nor among the keys
\* that are kept a while longer.
Collected(cache, kept) ==
    [k \in {key \in DOMAIN cache : key \in kept \/ IsFetching(cache, key)} |-> cache[k]]
=============================================================================
