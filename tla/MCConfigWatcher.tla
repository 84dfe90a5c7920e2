--------------------------- MODULE MCConfigWatcher ---------------------------
(* Small instances of ConfigWatcher for TLC. *)
EXTENDS ConfigWatcher

CONSTANTS a1, a2, a3, s1, s2, s3

Entry(s, service, here) == [series |-> s, isService |-> service, local |-> here]

\* A service, and two pods that come, go and change their node: an address that
\* a pod of this node had may next be that of another node's.
Contents ==
    {[a \in Addrs |->
        IF a = a1 THEN Entry(s1, TRUE, FALSE)
        ELSE IF a = a2 THEN first ELSE second] :
            first \in {None, Entry(s2, FALSE, TRUE), Entry(s2, FALSE, FALSE)},
            second \in {None, Entry(s3, FALSE, TRUE)}}

-----------------------------------------------------------------------------
(* In a cluster, without the race of the start: the file is mounted, and it *)
(* is updated only while the watch that the process has set is at work.     *)

MountedInit == WatcherInit /\ mounted

MountedNext == Boot \/ WatcherThread \/ (Up /\ Writer)

\* Its behaviours are some of those of WatcherSpec.
MountedSpec ==
    MountedInit /\ [][MountedNext]_watcherVars /\ WF_watcherVars(WatcherThread)
=============================================================================
