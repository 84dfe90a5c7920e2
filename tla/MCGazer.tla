------------------------------- MODULE MCGazer -------------------------------
(***************************************************************************)
(* A small instance of Gazer for TLC.  The threads of gazer.py share       *)
(* nothing but the config, which none of them writes: what one of them     *)
(* does is the same whether or not the others run, so a behaviour of the   *)
(* instance runs the watcher and one other thread.                         *)
(***************************************************************************)
EXTENDS Gazer, TLC

CONSTANTS a1, a2, a3, s1, s2, s3, p1, p2

VARIABLE focus  \* the thread that runs

Entry(s, service, here) == [series |-> s, isService |-> service, local |-> here]
Content(x, y, z) == [a \in Addrs |-> IF a = a1 THEN x ELSE IF a = a2 THEN y ELSE z]

Service == Entry(s1, TRUE, FALSE)
Pod(s) == Entry(s, FALSE, TRUE)
Elsewhere(s) == Entry(s, FALSE, FALSE)

\* A service with a pod here and another that is new, elsewhere or not there; in
\* the last content the addresses of the service and of a pod have changed hands.
Contents ==
    {Content(Service, Pod(s2), Pod(s3)), Content(Service, Elsewhere(s2), Pod(s3)),
     Content(Pod(s2), Service, None)}

\* Two ports of one address, and a level that is not always told.
TwoPorts == {<<a1, p1, 2>>, <<a1, p2, 2>>, <<a2, p1, 3>>}

Alone(thread, steps) == focus = thread /\ steps
FocusInit == Init /\ focus \in {"requests", "kube", "backlog"}

FocusNext ==
    /\ \/ WatcherSteps
       \/ Restart
       \/ Alone("requests", RequestThread)
       \/ Alone("kube", KubeThread)
       \/ Alone("kube", KubeAnswers)
       \/ Alone("backlog", BacklogThread)
       \/ \E r \in Rows : Alone("backlog", KernelSample(r))
    /\ UNCHANGED focus

FocusVars == <<vars, focus>>

\* FairSpec of Gazer, one thread at a time.
FocusSpec ==
    /\ FocusInit /\ [][FocusNext]_FocusVars
    /\ WF_vars(WatcherSteps /\ WatcherThread)
    /\ WF_vars(Alone("requests", RequestThread))
    /\ WF_vars(Alone("kube", KubeThread))
    /\ WF_vars(Alone("kube", KubeAnswers))
    /\ WF_vars(Alone("backlog", BacklogThread))
=============================================================================
