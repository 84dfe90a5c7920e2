---------------------------- MODULE ProbesProofs ----------------------------
(***************************************************************************)
(* Proofs about SynBacklog, for any CPUs, threads, listeners and bounds,   *)
(* and about the two probes together.                                      *)
(*                                                                         *)
(* That a call finds its own listener rests on one fact about the kernel,  *)
(* which Enter states and OneCallPerThread keeps: no two calls interrupt   *)
(* one thread, unless the CPUs are idle.                                   *)
(***************************************************************************)
EXTENDS MCProbes, SockStateProofs

-----------------------------------------------------------------------------
(* The SYN backlog probe. *)

\* Calls that run at a time have threads of their own, unless they are idle.
OneCallPerThread ==
    \A c, d \in Cpus :
        c # d /\ Running(c) /\ Running(d) /\ call[c].tid # Idle => call[d].tid # call[c].tid

BacklogInv == BacklogTypeOK /\ OneCallPerThread /\ ThreadsFindTheirOwn /\ NothingIsLeft

\* A queue is at most one longer than its bound, and its length has a row.
LEMMA RowType ==
    ASSUME BacklogTypeOK, NEW l \in Listeners, NEW m \in Listeners
    PROVE  [address |-> Address(l), slot |-> Slot(queued[m])] \in Row
BY BacklogAssumption DEF BacklogTypeOK, Row, Address

\* A counter stays below its bound.
LEMMA CountType ==
    ASSUME BacklogTypeOK, NEW r \in Row, Count(r)
    PROVE  samples' \in [Row -> 0 .. MaxSamples]
BY BacklogAssumption DEF BacklogTypeOK, Count

LEMMA InitInv == BacklogInit => BacklogInv
BY BacklogAssumption DEF BacklogInit, BacklogInv, BacklogTypeOK, OneCallPerThread,
    ThreadsFindTheirOwn, NothingIsLeft, Running

LEMMA EnterInv ==
    ASSUME BacklogInv, NEW c \in Cpus, NEW t \in Tids, NEW l \in Listeners, Enter(c, t, l)
    PROVE  BacklogInv'
<1>0. PICK probed \in BOOLEAN :
        /\ call' = [call EXCEPT ![c] = [tid |-> t, listener |-> l, probed |-> probed]]
        /\ currsock' = IF probed THEN [currsock EXCEPT ![t] = l] ELSE currsock
    BY DEF Enter
<1> DEFINE new == [tid |-> t, listener |-> l, probed |-> probed]
<1>1. /\ new \in Call /\ new # NoListener
      /\ new.tid = t /\ new.listener = l /\ new.probed = probed
    BY BacklogAssumption DEF Call
<1>2. /\ \A d \in Cpus : call'[d] = IF d = c THEN new ELSE call[d]
      /\ \A u \in Tids : currsock'[u] = IF u = t /\ probed THEN l ELSE currsock[u]
      /\ call[c] = NoListener
      /\ t # Idle => \A d \in Cpus : call[d] # NoListener => call[d].tid # t
    BY <1>0 DEF BacklogInv, BacklogTypeOK, Enter
<1> HIDE DEF new
<1>3. BacklogTypeOK'
    BY <1>0, <1>1 DEF BacklogInv, BacklogTypeOK, Enter, new
<1>4. \A d \in Cpus : call[d] # NoListener => call[d].tid \in Tids
    BY DEF BacklogInv, BacklogTypeOK, Call
<1>5. OneCallPerThread'
    BY <1>1, <1>2 DEF BacklogInv, OneCallPerThread, Running
<1>6. t # Idle => currsock[t] = NoListener
    BY <1>2 DEF BacklogInv, NothingIsLeft, Running
<1>7. ThreadsFindTheirOwn'
    BY <1>1, <1>2, <1>4, <1>6 DEF BacklogInv, ThreadsFindTheirOwn, Stashed, Running
<1>8. NothingIsLeft'
    BY <1>1, <1>2 DEF BacklogInv, NothingIsLeft, Running
<1>. QED  BY <1>3, <1>5, <1>7, <1>8 DEF BacklogInv

LEMMA ReturnInv ==
    ASSUME BacklogInv, NEW c \in Cpus, Return(c)
    PROVE  BacklogInv'
<1> DEFINE t == call[c].tid
<1>1. t \in Tids /\ call[c].listener \in Listeners /\ call[c] # NoListener
    BY DEF BacklogInv, BacklogTypeOK, Return, Call
<1>2. /\ \A d \in Cpus : call'[d] = IF d = c THEN NoListener ELSE call[d]
      /\ \A u \in Tids : currsock'[u] = IF u = t THEN NoListener ELSE currsock[u]
    BY <1>1 DEF BacklogInv, BacklogTypeOK, Return
<1>3. samples' \in [Row -> 0 .. MaxSamples]
    <2>1. CASE currsock[t] = NoListener
        BY <2>1 DEF BacklogInv, BacklogTypeOK, Return
    <2>2. CASE currsock[t] # NoListener
        <3>1. currsock[t] \in Listeners
            BY <1>1, <2>2 DEF BacklogInv, BacklogTypeOK
        <3>2. Count([address |-> Address(call[c].listener), slot |-> Slot(queued[currsock[t]])])
            BY <2>2 DEF Return
        <3>. QED  BY <1>1, <3>1, <3>2, RowType, CountType DEF BacklogInv
    <2>. QED  BY <2>1, <2>2
<1>4. BacklogTypeOK'
    BY <1>1, <1>3 DEF BacklogInv, BacklogTypeOK, Return
<1>5. \A d \in Cpus : call[d] # NoListener => call[d].tid \in Tids
    BY DEF BacklogInv, BacklogTypeOK, Call
<1> HIDE DEF t
<1>6. OneCallPerThread'
    BY <1>2 DEF BacklogInv, OneCallPerThread, Running
<1>7. ThreadsFindTheirOwn'
    BY <1>1, <1>2, <1>5 DEF BacklogInv, OneCallPerThread, ThreadsFindTheirOwn, Stashed, Running, t
<1>8. NothingIsLeft'
    BY <1>2 DEF BacklogInv, NothingIsLeft, Running, t
<1>. QED  BY <1>4, <1>6, <1>7, <1>8 DEF BacklogInv

\* The kernel's and the application's steps only change the length of a queue.
LEMMA QueuesInv ==
    ASSUME BacklogInv, NEW l \in Listeners, Queue(l) \/ Accept(l)
    PROVE  BacklogInv'
<1>1. UNCHANGED <<call, currsock, samples>>
    BY DEF Queue, Accept
<1>2. queued' \in [Listeners -> 0 .. MaxBacklog + 1]
    <2>1. queued[l] \in 0 .. MaxBacklog + 1
        BY DEF BacklogInv, BacklogTypeOK
    <2>2. CASE Queue(l)
        BY <2>1, <2>2, BacklogAssumption DEF Queue, BacklogInv, BacklogTypeOK
    <2>3. CASE Accept(l)
        BY <2>1, <2>3, BacklogAssumption DEF Accept, BacklogInv, BacklogTypeOK
    <2>. QED  BY <2>2, <2>3
<1>. QED  BY <1>1, <1>2 DEF BacklogInv, BacklogTypeOK, OneCallPerThread, ThreadsFindTheirOwn,
        Stashed, NothingIsLeft, Running

LEMMA Invariant == BacklogSpec => []BacklogInv
<1>1. BacklogInv /\ [BacklogNext]_backlogVars => BacklogInv'
    <2> SUFFICES ASSUME BacklogInv, [BacklogNext]_backlogVars
                 PROVE  BacklogInv'
        OBVIOUS
    <2>1. CASE \E c \in Cpus : Return(c)
        BY <2>1, ReturnInv
    <2>2. CASE \E c \in Cpus : \E t \in Tids, l \in Listeners : Enter(c, t, l)
        BY <2>2, EnterInv
    <2>3. CASE \E l \in Listeners : Queue(l) \/ Accept(l)
        BY <2>3, QueuesInv
    <2>4. CASE UNCHANGED backlogVars
        BY <2>4 DEF backlogVars, BacklogInv, BacklogTypeOK, OneCallPerThread,
            ThreadsFindTheirOwn, Stashed, NothingIsLeft, Running
    <2>. QED  BY <2>1, <2>2, <2>3, <2>4 DEF BacklogNext
<1>. QED  BY InitInv, <1>1, PTL DEF BacklogSpec

\* The probe's maps keep their types: each entry of currsock is a listener, and
\* the histogram's rows are of listeners or of address 0.
THEOREM BacklogTypeCorrect == BacklogSpec => []BacklogTypeOK
<1>1. BacklogInv => BacklogTypeOK
    BY DEF BacklogInv
<1>. QED  BY <1>1, Invariant, PTL

\* A call that interrupted a thread finds the listener it was entered with when it
\* returns (syn_backlog.c), or nothing if the entry was missed, whatever other CPUs do.
THEOREM OwnListenerFound == BacklogSpec => []ThreadsFindTheirOwn
<1>1. BacklogInv => ThreadsFindTheirOwn
    BY DEF BacklogInv
<1>. QED  BY <1>1, Invariant, PTL

\* The map holds nothing of calls that have returned.
THEOREM MapIsEmptied == BacklogSpec => []NothingIsLeft
<1>1. BacklogInv => NothingIsLeft
    BY DEF BacklogInv
<1>. QED  BY <1>1, Invariant, PTL

\* A return to a thread is counted once, for the listener the call was made for and
\* the length of its own queue (syn_backlog.c), whatever other CPUs stash meanwhile;
\* a call whose entry was missed is not counted.
THEOREM SamplesAreOwn == BacklogSpec => OwnQueueSampled
<1>1. BacklogInv => OwnSampleStep
    <2> SUFFICES ASSUME BacklogInv, NEW c \in Cpus, Return(c), call[c].tid # Idle
                 PROVE  samples' = IF call[c].probed THEN [samples EXCEPT ![OwnRow(c)] = @ + 1]
                                   ELSE samples
        BY DEF OwnSampleStep
    <2>1. call[c] # NoListener /\ call[c].listener \in Listeners
        BY DEF Return, BacklogInv, BacklogTypeOK, Call
    <2>2. currsock[call[c].tid] = Stashed(c)
        BY <2>1 DEF BacklogInv, ThreadsFindTheirOwn, Running
    <2>3. call[c].listener # NoListener
        BY <2>1, BacklogAssumption
    <2>4. CASE call[c].probed
        BY <2>2, <2>3, <2>4 DEF Return, Count, OwnRow, Stashed
    <2>5. CASE ~call[c].probed
        BY <2>2, <2>5 DEF Return, Stashed
    <2>. QED  BY <2>4, <2>5
<1>. QED  BY <1>1, Invariant, PTL DEF OwnQueueSampled

-----------------------------------------------------------------------------
(* The probes together: what is proved of each holds of MCProbes. *)

\* A step of the instance is a step of one probe, while the other is as it was.
LEMMA StepsOfEach ==
    ASSUME [ProbesNext]_<<vars, backlogVars, probe>>
    PROVE  [Next]_vars /\ [BacklogNext]_backlogVars
BY DEF ProbesNext

\* Each probe behaves in the instance as it does on its own.
THEOREM ProbesBehave == ProbesSpec => Spec /\ BacklogSpec
<1>1. ProbesInit => Init /\ BacklogInit
    BY DEF ProbesInit
<1>. QED  BY <1>1, StepsOfEach, PTL DEF ProbesSpec, Spec, BacklogSpec

\* The maps of both probes keep their types in the run's own specification.
THEOREM ProbesTypesHold == ProbesSpec => []ProbesTypeOK
<1>1. Spec => []TypeOK
    BY InductiveInvariant, PTL
<1>. QED  BY <1>1, ProbesBehave, BacklogTypeCorrect, PTL DEF ProbesTypeOK
=============================================================================
