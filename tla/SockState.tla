------------------------------ MODULE SockState ------------------------------
(***************************************************************************)
(* Gazer's first kernel probe, gazer/sock_state.c: the handler of the      *)
(* tracepoint sock:inet_sock_set_state, which reports each TCP connection  *)
(* once, when it closes.  The handler knows a connection by the address of *)
(* its struct sock, which the kernel uses again for later connections, and *)
(* remembers in two bounded BPF maps when the connection was born and      *)
(* which task opened or closed it.                                         *)
(*                                                                         *)
(* The kernel serialises the transitions of one socket and the maps are    *)
(* atomic per key, so one run of the handler is one step.  A connection    *)
(* that begins, at whatever address, is a new life.                        *)
(* Not covered: what the kernel counts (bytes, times), sockets that are    *)
(* not TCP, the PID and address filters, which gazer.py leaves empty.      *)
(***************************************************************************)
EXTENDS Naturals, Sequences, FiniteSets

CONSTANTS
    Socks,       \* addresses of struct sock
    Lives,       \* the connections there may be, one after the other
    Tasks,       \* processes, by pid and name
    Families,    \* the address families in use: "v4", "v6"
    MaxEntries,  \* capacity of a map (10240 for a BPF_HASH)
    Absent

ASSUME ConstantsAssumption ==
    /\ IsFiniteSet(Socks) /\ IsFiniteSet(Lives)
    /\ Absent \notin Lives
    /\ Absent \notin [life : Lives, family : {"v4", "v6"}, task : Tasks]
    /\ Families \subseteq {"v4", "v6"}
    /\ MaxEntries \in Nat

VARIABLES
    sock,      \* [Socks -> what the kernel knows of the socket there]
    unborn,    \* the lives that have not begun
    attached,  \* whether the probe is loaded
    birth,     \* BPF map: the time stamp of a socket, as the life it was taken in
    whoami,    \* BPF map: the task of a socket
    events     \* [Lives -> Seq(Event)]: what was submitted to ipv4_events

vars == <<sock, unborn, attached, birth, whoami, events>>
maps == <<birth, whoami, events>>

States == {"ESTABLISHED", "SYN_SENT", "SYN_RECV", "FIN_WAIT1", "FIN_WAIT2",
           "CLOSE", "CLOSE_WAIT", "LAST_ACK", "LISTEN", "CLOSING"}

\* The states numbered below TCP_FIN_WAIT1.
Early == {"ESTABLISHED", "SYN_SENT", "SYN_RECV"}

\* traced: the probe has been there for every transition of this life, and has
\* found room for its births.
Sock == [state : States, life : Lives \cup {Absent}, family : {"v4", "v6"},
         traced : BOOLEAN]

\* The task, with the life it was seen in (and that life's family).
Id == [life : Lives, family : {"v4", "v6"}, task : Tasks]

\* since: the life whose birth the reported span starts at.  who: the cached
\* task, or Absent when the handler names the task that happens to run.
Event == [since : Lives, who : Id \cup {Absent}]

Init ==
    /\ sock = [s \in Socks |->
                [state |-> "CLOSE", life |-> Absent, family |-> "v4", traced |-> FALSE]]
    /\ unborn = Lives
    /\ attached = FALSE
    /\ birth = [s \in Socks |-> Absent]
    /\ whoami = [s \in Socks |-> Absent]
    /\ events = [l \in Lives |-> <<>>]

-----------------------------------------------------------------------------
(* The handler. *)

\* A new key finds no room in a full map.
Room(map, s) ==
    map[s] # Absent \/ Cardinality({t \in Socks : map[t] # Absent}) < MaxEntries

\* update() of a map.
Put(map, s, value) == IF Room(map, s) THEN [map EXCEPT ![s] = value] ELSE map
Drop(map, s) == [map EXCEPT ![s] = Absent]

\* The time stamp of every early state ...
Stamped(s, to, life) == IF to \in Early THEN Put(birth, s, life) ELSE birth

\* Seeded defect: the map gets an entry without all its fields.
NamedByTask(s, to, id) ==
    IF to \in {"SYN_SENT", "LAST_ACK"} THEN Put(whoami, s, [life |-> id.life, task |-> id.task])
    ELSE whoami

\* ... and the task, where the handler runs on its behalf.
Named(s, to, id) ==
    IF to \in {"SYN_SENT", "LAST_ACK"} THEN Put(whoami, s, id) ELSE whoami

Submit(l, event) == events' = [events EXCEPT ![l] = Append(@, event)]

\* Seeded defects: the birth stays in the map, and the task does.
CloseKeepsBirth(s, k) ==
    /\ birth[s] # Absent
    /\ birth' = birth
    /\ IF k.family = "v4"
       THEN Submit(k.life, [since |-> birth[s], who |-> whoami[s]]) /\ whoami' = Drop(whoami, s)
       ELSE UNCHANGED <<whoami, events>>

CloseKeepsTask(s, k) ==
    /\ birth[s] # Absent
    /\ birth' = Drop(birth, s)
    /\ UNCHANGED whoami
    /\ IF k.family = "v4"
       THEN Submit(k.life, [since |-> birth[s], who |-> whoami[s]])
       ELSE UNCHANGED events

\* A socket with a known birth closes: its event is submitted and its task
\* forgotten, both for IPv4 alone.
CloseKnown(s, k) ==
    /\ birth[s] # Absent
    /\ birth' = Drop(birth, s)
    /\ IF k.family = "v4"
       THEN Submit(k.life, [since |-> birth[s], who |-> whoami[s]]) /\ whoami' = Drop(whoami, s)
       ELSE UNCHANGED <<whoami, events>>

\* Seeded defect: a socket whose birth was missed leaves its task.
CloseMissedKeepsTask(s) ==
    /\ birth[s] = Absent
    /\ UNCHANGED maps

\* A socket whose birth the probe has missed.
CloseMissed(s) ==
    /\ birth[s] = Absent
    /\ whoami' = Drop(whoami, s)
    /\ UNCHANGED <<birth, events>>

\* Seeded defect: only the first state of a client is stamped.
TraceClientsOnly(s, k, to, t) ==
    \/ /\ to # "CLOSE"
       /\ birth' = IF to = "SYN_SENT" THEN Put(birth, s, k.life) ELSE birth
       /\ whoami' = Named(s, to, [life |-> k.life, family |-> k.family, task |-> t])
       /\ UNCHANGED events
    \/ to = "CLOSE" /\ (CloseKnown(s, k) \/ CloseMissed(s))

\* Socket s, known to the kernel as k, gets its next state while task t runs.
Trace(s, k, to, t) ==
    \/ /\ to # "CLOSE"
       /\ birth' = Stamped(s, to, k.life)
       /\ whoami' = Named(s, to, [life |-> k.life, family |-> k.family, task |-> t])
       /\ UNCHANGED events
    \/ to = "CLOSE" /\ (CloseKnown(s, k) \/ CloseMissed(s))

-----------------------------------------------------------------------------
(* The kernel's TCP, as far as the handler sees it. *)

\* A transition, and the probe's handler if the probe is there.
SetState(s, k, to) ==
    /\ sock' = [sock EXCEPT ![s] =
            [k EXCEPT !.state = to,
                      !.traced = @ /\ attached /\ (to \in Early => Room(birth, s))]]
    /\ UNCHANGED attached
    /\ IF attached THEN \E t \in Tasks : Trace(s, k, to, t) ELSE UNCHANGED maps

\* A connection begins: connect(), or a listener's child for a SYN.
Begin(s) ==
    /\ sock[s].state = "CLOSE"
    /\ \E l \in unborn, f \in Families, to \in {"SYN_SENT", "SYN_RECV"} :
        /\ unborn' = unborn \ {l}
        /\ SetState(s, [state |-> "CLOSE", life |-> l, family |-> f, traced |-> TRUE], to)

\* A socket that listens is no connection, but its states are traced too.
Listen(s) ==
    /\ sock[s].state = "CLOSE"
    /\ \E f \in Families :
        SetState(s, [state |-> "CLOSE", life |-> Absent, family |-> f, traced |-> TRUE], "LISTEN")
    /\ UNCHANGED unborn

\* Where a connection may go next.  A socket may be closed twice.
After(state) ==
    CASE state = "SYN_SENT"    -> {"ESTABLISHED", "SYN_RECV", "CLOSE"}
      [] state = "SYN_RECV"    -> {"ESTABLISHED", "FIN_WAIT1", "CLOSE"}
      [] state = "ESTABLISHED" -> {"FIN_WAIT1", "CLOSE_WAIT", "CLOSE"}
      [] state = "FIN_WAIT1"   -> {"FIN_WAIT2", "CLOSING", "CLOSE"}
      [] state = "CLOSE_WAIT"  -> {"LAST_ACK", "CLOSE"}
      [] OTHER                 -> {"CLOSE"}

Step(s) ==
    /\ sock[s].life # Absent \/ sock[s].state = "LISTEN"
    /\ \E to \in After(sock[s].state) : SetState(s, sock[s], to)
    /\ UNCHANGED unborn

\* Gazer starts: the program is loaded with empty maps, among sockets that are
\* already connected; and stops.
Attach ==
    /\ ~attached
    /\ attached' = TRUE
    /\ UNCHANGED <<sock, unborn, maps>>

Detach ==
    /\ attached
    /\ attached' = FALSE
    /\ birth' = [s \in Socks |-> Absent]
    /\ whoami' = [s \in Socks |-> Absent]
    /\ sock' = [s \in Socks |-> [sock[s] EXCEPT !.traced = FALSE]]
    /\ UNCHANGED <<unborn, events>>

Next ==
    \/ \E s \in Socks : Begin(s) \/ Listen(s) \/ Step(s)
    \/ Attach \/ Detach

Spec == Init /\ [][Next]_vars

-----------------------------------------------------------------------------
(* Properties. *)

TypeOK ==
    /\ sock \in [Socks -> Sock]
    /\ unborn \subseteq Lives
    /\ attached \in BOOLEAN
    /\ birth \in [Socks -> Lives \cup {Absent}]
    /\ whoami \in [Socks -> Id \cup {Absent}]
    /\ events \in [Lives -> Seq(Event)]

Open(s) == sock[s].state # "CLOSE"

\* A time stamp belongs to the connection that is open at its address, never to
\* an earlier one: also when a map is full, when the probe came late, and when
\* a socket is closed twice.
BirthOfThisLife ==
    \A s \in Socks : birth[s] # Absent => Open(s) /\ birth[s] = sock[s].life

\* So a connection is reported at most once, with a span that is its own.
ReportedOnce ==
    \A l \in Lives :
        /\ Len(events[l]) <= 1
        /\ \A k \in DOMAIN events[l] : events[l][k].since = l

\* The task that an event names is one of its own connection, unless the address
\* was used before by an IPv6 connection, whose task the handler never forgets.
WrongTaskOnlyAfterIPv6 ==
    \A l \in Lives : \A k \in DOMAIN events[l] :
        LET who == events[l][k].who IN
        who # Absent => who.life = l \/ who.family = "v6"

\* The map of tasks holds open connections and what IPv6 left there: nothing
\* else fills it.
OnlyIPv6Leaks ==
    \A s \in Socks : whoami[s] # Absent =>
        \/ Open(s) /\ whoami[s].life = sock[s].life
        \/ whoami[s].family = "v6"

\* An IPv4 connection that the probe has seen from its first state on, with room
\* in the map of births, is reported when it closes, whoever closes it and
\* however.
EveryTracedIsReported ==
    \A s \in Socks :
        /\ sock[s].traced /\ ~Open(s)
        /\ sock[s].family = "v4"
        /\ sock[s].life # Absent
        => events[sock[s].life] # <<>>

-----------------------------------------------------------------------------
(* The promise that the probe implements. *)

\* The sockets of an open connection: one, or none when it has closed.
Carriers(l) == {s \in Socks : Open(s) /\ sock[s].life = l}

PhaseOf(l) ==
    IF l \in unborn THEN "unborn"
    ELSE IF Carriers(l) = {} THEN "closed"
    ELSE IF \E s \in Carriers(l) : sock[s].family = "v6" THEN "silent"
    ELSE IF \E s \in Carriers(l) : sock[s].traced THEN "followed"
    ELSE "open"

Reports == INSTANCE ConnectionReports
               WITH Ids <- Id, present <- attached,
                    phase <- [l \in Lives |-> PhaseOf(l)], reports <- events

\* However addresses of sockets are used again, whichever states TCP goes through
\* and whatever the two maps have no room for, each connection gets what
\* ConnectionReports promises: the report at its close, not earlier, not twice
\* and not another's, if it was not IPv6 and there was room for it.
ImplementsReports == Reports!Spec
=============================================================================
