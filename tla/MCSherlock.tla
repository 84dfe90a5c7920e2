----------------------------- MODULE MCSherlock -----------------------------
(* Small instances of Sherlock for TLC. *)
EXTENDS Sherlock

CONSTANTS s1, s2, m1, m2, n1, n2

\* A service comes and goes; another changes its model and its namespace, and
\* one of the models is not in the bucket.
FileContents ==
    {[s \in Services |-> IF s = s1 THEN first ELSE second] :
        first \in {None, [model |-> m1, namespace |-> n1]},
        second \in {[model |-> m1, namespace |-> n1], [model |-> m2, namespace |-> n2]}}
=============================================================================
