------------------------ MODULE MonitoringLifecycle ------------------------
(***************************************************************************)
(* What the operator promises, without its calls, caches and ConfigMaps:   *)
(* the life of a monitored deployment.  A declared Inspector is guarded    *)
(* (by its finalizer) before its service is listed for Sherlock; a deleted *)
(* one is unlisted before it is released.  In between, a listing may       *)
(* outlive the request that made it: an Inspector that is being deleted    *)
(* may still be listed by a reconcile that started earlier, and is         *)
(* unlisted again.                                                         *)
(***************************************************************************)
CONSTANT Inspectors

VARIABLES
    phase,  \* [Inspectors -> Phases]
    listed  \* the Inspectors that Sherlock scores

vars == <<phase, listed>>

Phases == {"absent", "declared", "guarded", "finalizing"}

Init ==
    /\ phase = [i \in Inspectors |-> "absent"]
    /\ listed = {}

Move(i, from, to) ==
    /\ phase[i] = from
    /\ phase' = [phase EXCEPT ![i] = to]
    /\ UNCHANGED listed

Declare(i) == Move(i, "absent", "declared")
Withdraw(i) == Move(i, "declared", "absent")
Guard(i) == Move(i, "declared", "guarded")
Retire(i) == Move(i, "guarded", "finalizing")
Release(i) == i \notin listed /\ Move(i, "finalizing", "absent")

List(i) ==
    /\ phase[i] \in {"guarded", "finalizing"}
    /\ listed' = listed \cup {i}
    /\ UNCHANGED phase

Unlist(i) ==
    /\ phase[i] = "finalizing"
    /\ listed' = listed \ {i}
    /\ UNCHANGED phase

Next ==
    \E i \in Inspectors :
        \/ Declare(i) \/ Withdraw(i) \/ Guard(i) \/ Retire(i) \/ Release(i)
        \/ List(i) \/ Unlist(i)

Spec == Init /\ [][Next]_vars

\* A declared Inspector is guarded or withdrawn, a guarded one is listed or
\* retired, and a retired one is unlisted and released.
Progress(i) ==
    /\ WF_vars(Guard(i))
    /\ WF_vars(phase[i] = "guarded" /\ List(i))
    /\ WF_vars(Unlist(i))
    /\ WF_vars(Release(i))

FairSpec == Spec /\ \A i \in Inspectors : Progress(i)
=============================================================================
