----------------------- MODULE MCInspectorController -----------------------
(* Small instances of InspectorController for TLC. *)
EXTENDS InspectorController, TLC

CONSTANTS o1, o2, i1, i2, d1, d2, s1, s2, m1, m2, n1, n2, p1, p2, v1, v2

Target(d, s, m) == [deployment |-> d, service |-> s, model |-> m]

\* One Inspector per name, and deployments whose labels are their own.
OwnNames == [i \in Inspectors |-> IF i = i1 THEN n1 ELSE n2]
OwnPods == [d \in Deployments |-> {d}]

\* One target for each Inspector, or a choice that shares a model.
OneTarget ==
    [i \in Inspectors |-> IF i = i1 THEN {Target(d1, s1, m1)} ELSE {Target(d2, s2, m2)}]
ModelChoice ==
    [i \in Inspectors |->
        IF i = i1 THEN {Target(d1, s1, m1), Target(d1, s1, m2)} ELSE {Target(d2, s2, m1)}]

FirstPodRuns == [d \in Deployments |-> IF d = d1 THEN {p1} ELSE {}]
PendingPods == [d \in Deployments |-> IF d = d1 THEN {p1, NoIP} ELSE {NoIP}]
NoPods == [d \in Deployments |-> {}]
OwnClusterIP == [s \in Services |-> IF s = s1 THEN v1 ELSE v2]

\* The operators run the same program.
OperatorsAlike == Permutations(Operators)
=============================================================================
