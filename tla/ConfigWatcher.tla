---------------------------- MODULE ConfigWatcher ----------------------------
(***************************************************************************)
(* gazer/config.py: how a Gazer process learns the scrape points of its    *)
(* node.  The module reads config/config.yaml when it is imported, then    *)
(* asks inotify for IN_CLOSE_WRITE of that file, and a thread of its own   *)
(* reads the file again on each notice.  Every other thread of the process *)
(* looks at the object it leaves in config_watcher.config.                 *)
(*                                                                         *)
(* The file is a mounted ConfigMap: an update swaps a link to a new file   *)
(* under the same name, and the watch stays with the old file, which       *)
(* nobody writes.  Outside a cluster the file is written in place.         *)
(* Not covered: a file that is cut between two entries (a torn file does   *)
(* not parse), NODE_NAME and the text of the entries.                      *)
(***************************************************************************)
CONSTANTS
    Addrs,    \* addresses of pods and services
    Series,   \* what a scrape point is called: namespace, service and name
    Files,    \* contents of config.yaml, a subset of Config
    None      \* no entry; the Python None; a file that does not parse

\* local: the entry's node is the node that this process runs on.
Point == [series : Series, isService : BOOLEAN, local : BOOLEAN]
Config == [Addrs -> Point \cup {None}]

ASSUME ConfigAssumption ==
    /\ Files \subseteq Config
    /\ None \notin Point
    /\ None \notin Config

VARIABLES
    mounted,   \* whether the file is a mounted ConfigMap; it is one in the chart
    file,      \* what a reader of config.yaml finds
    watching,  \* whether the watch is on the file that has the name
    notice,    \* whether an IN_CLOSE_WRITE is in the queue
    config,    \* config_watcher.config
    watcher    \* "boot" until the watch is set, then "wait", and "filter"
               \*   between the two assignments of read_config

watcherVars == <<mounted, file, watching, notice, config, watcher>>

\* The entries that this node is responsible for.
Own(c) ==
    [a \in Addrs |-> IF c[a] # None /\ (c[a].isService \/ c[a].local) THEN c[a] ELSE None]

\* read_config as a whole, as it runs before there are other threads.
ReadAll == IF file = None THEN None ELSE Own(file)

WatcherInit ==
    /\ mounted \in BOOLEAN
    /\ file \in Files \cup {None}
    /\ watching = FALSE
    /\ notice = FALSE
    /\ config = ReadAll
    /\ watcher = "boot"

-----------------------------------------------------------------------------
(* The process. *)

Up == watcher # "boot"

\* The process starts over: everything it knows is what the file says now.
Boot ==
    /\ config' = ReadAll
    /\ watching' = FALSE
    /\ notice' = FALSE
    /\ watcher' = "boot"
    /\ UNCHANGED <<mounted, file>>

AddWatch ==
    /\ watcher = "boot"
    /\ watching' = TRUE
    /\ watcher' = "wait"
    /\ UNCHANGED <<mounted, file, notice, config>>

\* The thread takes the notice and stores the file as it is ...
ReadConfig ==
    /\ watcher = "wait"
    /\ notice
    /\ notice' = FALSE
    /\ config' = file
    /\ watcher' = IF file = None THEN "wait" ELSE "filter"
    /\ UNCHANGED <<mounted, file, watching>>

\* Seeded defect: the queue of notices is emptied after the read.
FilterAndFlush ==
    /\ watcher = "filter"
    /\ config' = Own(config)
    /\ notice' = FALSE
    /\ watcher' = "wait"
    /\ UNCHANGED <<mounted, file, watching>>

\* ... and then the part of it that is this node's.
FilterConfig ==
    /\ watcher = "filter"
    /\ config' = Own(config)
    /\ watcher' = "wait"
    /\ UNCHANGED <<mounted, file, watching, notice>>

-----------------------------------------------------------------------------
(* Whoever writes the file. *)

\* The ConfigMap's volume gets a new content: the operator's, or the empty one
\* of the chart.
Swap ==
    /\ mounted
    /\ file' \in (Files \cup {None}) \ {file}
    /\ watching' = FALSE
    /\ UNCHANGED <<mounted, notice, config, watcher>>

\* Opened for writing the file is empty; closed it is whole, and is noticed.
Truncate ==
    /\ ~mounted
    /\ file' = None
    /\ UNCHANGED <<mounted, watching, notice, config, watcher>>

CloseWrite ==
    /\ ~mounted
    /\ file = None
    /\ file' \in Files
    /\ notice' = (notice \/ watching)
    /\ UNCHANGED <<mounted, watching, config, watcher>>

Writer == Swap \/ Truncate \/ CloseWrite
WatcherThread == AddWatch \/ ReadConfig \/ FilterConfig

WatcherNext == Boot \/ WatcherThread \/ Writer

WatcherSpec ==
    WatcherInit /\ [][WatcherNext]_watcherVars /\ WF_watcherVars(WatcherThread)

-----------------------------------------------------------------------------
(* Properties. *)

WatcherTypeOK ==
    /\ mounted \in BOOLEAN
    /\ file \in Files \cup {None}
    /\ watching \in BOOLEAN
    /\ notice \in BOOLEAN
    /\ config \in Config \cup {None}
    /\ watcher \in {"boot", "wait", "filter"}

\* A file written in place is known to the process once the notices are read,
\* unless it was written between the first read and the watch.
NoticedIsKnown ==
    \A f \in Files :
        ~mounted /\ notice /\ file = f ~> file # f \/ config = Own(f) \/ ~Up

\* Between two notices only this node's points are known: others are there only
\* from the one assignment of read_config to the other.
OwnPointsOnly ==
    watcher # "filter" /\ config # None => config = Own(config)

\* The file is known, or a notice of it waits or is being read.
Caught ==
    \/ notice
    \/ file \in {None, config}
    \/ watcher = "wait" /\ config = Own(file)

\* A file written in place is never lost again, once the process has noticed or
\* read it: whenever it is written, once more while the thread reads or between
\* the two assignments, there is a notice to come or it is known.
NoticesKept ==
    [][~mounted /\ Up /\ Up' /\ (Caught \/ CloseWrite) => Caught']_watcherVars

\* "Gazer should react to config updates in realtime" (documentation/thesis/
\* chapters/appendix/requirements-evaluation.tex:17, FR10): an update reaches
\* the process without a new start.
ReactsToUpdates ==
    \A f \in Files : file = f ~> file # f \/ config = Own(f)
=============================================================================
