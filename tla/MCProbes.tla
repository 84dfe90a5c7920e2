------------------------------ MODULE MCProbes ------------------------------
(***************************************************************************)
(* Small instances of SockState and of SynBacklog for TLC.  bpf.c loads    *)
(* both probes, which have no map in common: a behaviour of the instance   *)
(* runs one of them, the other stays as it begins.                         *)
(***************************************************************************)
EXTENDS SockState, SynBacklog, TLC

CONSTANTS k1, k2, k3, l1, l2, l3, c1, c2, c3, a1, a2, t1, t2

VARIABLE probe

\* Addresses are alike, and so are the connections to come.
Alike == Permutations(Socks) \cup Permutations(Lives)

ProbesInit == Init /\ BacklogInit /\ probe \in {"sock_state", "syn_backlog"}

ProbesNext ==
    /\ \/ probe = "sock_state" /\ Next /\ UNCHANGED backlogVars
       \/ probe = "syn_backlog" /\ BacklogNext /\ UNCHANGED vars
    /\ UNCHANGED probe

ProbesSpec == ProbesInit /\ [][ProbesNext]_<<vars, backlogVars, probe>>

-----------------------------------------------------------------------------
\* Every variable of both probes has its type: a key that is stored is an id, and
\* what is counted is a row of the histogram.
ProbesTypeOK == TypeOK /\ BacklogTypeOK
=============================================================================
