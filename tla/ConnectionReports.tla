-------------------------- MODULE ConnectionReports --------------------------
(*************************************************************************)
(* What the socket state probe promises, without addresses of sockets,   *)
(* states of TCP and BPF maps: while the probe is loaded and less than   *)
(* MaxEntries connections are open, an IPv4 connection that begins is    *)
(* followed, and a followed one is reported at the moment it closes,     *)
(* once and as itself.  An IPv6 connection is never reported.  Others,   *)
(* begun before the probe came or when there was no room for them, may   *)
(* be.                                                                   *)
(*************************************************************************)
EXTENDS Naturals, FiniteSets

CONSTANTS
    Lives,       \* connections
    Ids,         \* tasks, each as it was seen in a connection of some family
    MaxEntries,  \* how many connections the probe can follow
    Absent

VARIABLES
    present,  \* whether the probe is loaded
    phase,    \* [Lives -> Phases]
    reports   \* [Lives -> Seq(reports)]

vars == <<present, phase, reports>>

Phases == {"unborn", "followed", "open", "silent", "closed"}

\* A report of one connection has its span.  Its task is the connection's own or
\* the one that closes it, or that of an IPv6 connection, which is not forgotten.
Report(l) ==
    [since : {l}, who : {Absent} \cup {id \in Ids : id.life = l \/ id.family = "v6"}]

Crowded == Cardinality({l \in Lives : phase[l] \in {"followed", "open", "silent"}}) >= MaxEntries

Init ==
    /\ present = FALSE
    /\ phase = [l \in Lives |-> "unborn"]
    /\ reports = [l \in Lives |-> <<>>]

Enter(l, to) ==
    /\ phase[l] = "unborn"
    /\ phase' = [phase EXCEPT ![l] = to]
    /\ UNCHANGED <<present, reports>>

Follow(l) == present /\ Enter(l, "followed")
Miss(l) == (~present \/ Crowded) /\ Enter(l, "open")
Ignore(l) == Enter(l, "silent")

Leave(l, from) ==
    /\ phase[l] \in from
    /\ phase' = [phase EXCEPT ![l] = "closed"]
    /\ UNCHANGED present

CloseReported(l) ==
    /\ present
    /\ Leave(l, {"followed", "open"})
    /\ \E r \in Report(l) : reports' = [reports EXCEPT ![l] = <<r>>]

CloseUnreported(l) == Leave(l, {"open", "silent"}) /\ UNCHANGED reports

Load == ~present /\ present' = TRUE /\ UNCHANGED <<phase, reports>>

\* The probe goes, and with it what it knows of the connections it followed.
Unload ==
    /\ present
    /\ present' = FALSE
    /\ phase' = [l \in Lives |-> IF phase[l] = "followed" THEN "open" ELSE phase[l]]
    /\ UNCHANGED reports

Next ==
    \/ \E l \in Lives : Follow(l) \/ Miss(l) \/ Ignore(l) \/ CloseReported(l) \/ CloseUnreported(l)
    \/ Load \/ Unload

Spec == Init /\ [][Next]_vars
=============================================================================
