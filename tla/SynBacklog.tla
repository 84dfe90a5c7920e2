----------------------------- MODULE SynBacklog -----------------------------
(***************************************************************************)
(* Gazer's second kernel probe, gazer/syn_backlog.c: a kprobe and a        *)
(* kretprobe on tcp_v4_syn_recv_sock, which makes the socket of a new      *)
(* connection to a listener.  On entry the listener is put in a map under  *)
(* the current thread's id; on return the map tells whose accept queue to  *)
(* sample, and the sample is counted for the new socket's address.         *)
(*                                                                         *)
(* The function runs in a soft interrupt: the current thread is whichever  *)
(* one the CPU was running, and on an idle CPU its id is 0, the same on    *)
(* every CPU.  A CPU does not nest two calls.  The kernel may skip the     *)
(* probe of an entry, and the call is then one that nothing was put for.   *)
(* Not covered: a return that is not probed, of a call that began before   *)
(* both probes were loaded.                                                *)
(***************************************************************************)
EXTENDS Naturals, FiniteSets

CONSTANTS
    Cpus,
    Listeners,   \* listening sockets; the new sockets have their address and port
    Threads,     \* thread ids other than 0
    Idle,        \* thread id 0
    MaxBacklog,  \* sk_max_ack_backlog, and so the longest queue is one more
    MaxSamples,  \* bound on a counter of the histogram
    NoListener

VARIABLES
    call,      \* [Cpus -> the call that runs there, or NoListener]
    currsock,  \* BPF map: [thread id -> Listeners \cup {NoListener}]
    queued,    \* [Listeners -> Nat]: sk_ack_backlog
    samples    \* BPF map syn_backlog: [Row -> Nat]

backlogVars == <<call, currsock, queued, samples>>

Tids == Threads \cup {Idle}
Call == [tid : Tids, listener : Listeners, probed : BOOLEAN]

ASSUME BacklogAssumption ==
    /\ NoListener \notin Listeners \cup Call
    /\ Idle \notin Threads
    /\ MaxBacklog \in Nat /\ MaxSamples \in Nat

\* bpf_log2l: 1 for 0 and 1, 2 for 2 and 3, 3 for 4 to 7, and so on.
Slot(n) == IF n = 0 THEN 1 ELSE CHOOSE k \in 1 .. n : 2^(k - 1) <= n /\ n < 2^k

\* A row of the histogram.  Without a new socket the address reads as 0.
Row == [address : Listeners \cup {NoListener},
        slot : {Slot(n) : n \in 0 .. MaxBacklog + 1}]

BacklogInit ==
    /\ call = [c \in Cpus |-> NoListener]
    /\ currsock = [t \in Tids |-> NoListener]
    /\ queued = [l \in Listeners |-> 0]
    /\ samples = [r \in Row |-> 0]

\* Seeded defect: the listener is kept under the process.
EnterByProcess(c, t, l) ==
    LET process == IF t = Idle THEN Idle ELSE CHOOSE main \in Threads : TRUE IN
    /\ call[c] = NoListener
    /\ t # Idle => \A d \in Cpus : call[d] # NoListener => call[d].tid # t
    /\ \E probed \in BOOLEAN :
        /\ call' = [call EXCEPT ![c] = [tid |-> t, listener |-> l, probed |-> probed]]
        /\ currsock' = IF probed THEN [currsock EXCEPT ![process] = l] ELSE currsock
    /\ UNCHANGED <<queued, samples>>

\* The calls that run elsewhere have other threads, unless those are idle.  An
\* entry that is not probed leaves the map as it is.
Enter(c, t, l) ==
    /\ call[c] = NoListener
    /\ t # Idle => \A d \in Cpus : call[d] # NoListener => call[d].tid # t
    /\ \E probed \in BOOLEAN :
        /\ call' = [call EXCEPT ![c] = [tid |-> t, listener |-> l, probed |-> probed]]
        /\ currsock' = IF probed THEN [currsock EXCEPT ![t] = l] ELSE currsock
    /\ UNCHANGED <<queued, samples>>

Count(r) ==
    /\ samples[r] < MaxSamples
    /\ samples' = [samples EXCEPT ![r] = @ + 1]

\* The function makes a socket, or none when the queue is full.
Address(l) == IF queued[l] > MaxBacklog THEN NoListener ELSE l

\* Seeded defect: the listener stays in the map.
ReturnKeepsStash(c) ==
    LET stashed == currsock[call[c].tid]
    IN
    /\ call[c] # NoListener
    /\ call' = [call EXCEPT ![c] = NoListener]
    /\ UNCHANGED <<currsock, queued>>
    /\ IF stashed = NoListener THEN UNCHANGED samples
       ELSE Count([address |-> Address(call[c].listener), slot |-> Slot(queued[stashed])])

Return(c) ==
    LET stashed == currsock[call[c].tid]
    IN
    /\ call[c] # NoListener
    /\ call' = [call EXCEPT ![c] = NoListener]
    /\ currsock' = [currsock EXCEPT ![call[c].tid] = NoListener]
    /\ UNCHANGED queued
    /\ IF stashed = NoListener THEN UNCHANGED samples
       ELSE Count([address |-> Address(call[c].listener), slot |-> Slot(queued[stashed])])

\* The kernel queues a new socket; the application accepts one.
Queue(l) ==
    /\ queued[l] <= MaxBacklog
    /\ queued' = [queued EXCEPT ![l] = @ + 1]
    /\ UNCHANGED <<call, currsock, samples>>

Accept(l) ==
    /\ queued[l] > 0
    /\ queued' = [queued EXCEPT ![l] = @ - 1]
    /\ UNCHANGED <<call, currsock, samples>>

BacklogNext ==
    \/ \E c \in Cpus : Return(c) \/ \E t \in Tids, l \in Listeners : Enter(c, t, l)
    \/ \E l \in Listeners : Queue(l) \/ Accept(l)

BacklogSpec == BacklogInit /\ [][BacklogNext]_backlogVars

-----------------------------------------------------------------------------
(* Properties. *)

BacklogTypeOK ==
    /\ call \in [Cpus -> Call \cup {NoListener}]
    /\ currsock \in [Tids -> Listeners \cup {NoListener}]
    /\ queued \in [Listeners -> 0 .. MaxBacklog + 1]
    /\ samples \in [Row -> 0 .. MaxSamples]

Running(c) == call[c] # NoListener

\* What is in the map for a call.
Stashed(c) == IF call[c].probed THEN call[c].listener ELSE NoListener

\* A call that interrupted a thread finds on return the listener it was entered
\* with, or nothing if its entry was missed, whatever the other CPUs and the idle
\* ones do in between.
ThreadsFindTheirOwn ==
    \A c \in Cpus :
        Running(c) /\ call[c].tid # Idle => currsock[call[c].tid] = Stashed(c)

\* The map is bounded by the calls that run: nothing is left in it.
NothingIsLeft ==
    \A t \in Tids : currsock[t] # NoListener => \E c \in Cpus : Running(c) /\ call[c].tid = t

\* So each return to a thread adds one to the histogram, in the row of the listener
\* it was called for and of the length of that listener's queue, or nothing if its
\* entry was missed.
OwnRow(c) ==
    [address |-> Address(call[c].listener), slot |-> Slot(queued[call[c].listener])]

OwnSampleStep ==
    \A c \in Cpus : Return(c) /\ call[c].tid # Idle =>
        samples' = IF call[c].probed THEN [samples EXCEPT ![OwnRow(c)] = @ + 1] ELSE samples

OwnQueueSampled == [][OwnSampleStep]_backlogVars
=============================================================================
