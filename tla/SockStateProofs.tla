--------------------------- MODULE SockStateProofs ---------------------------
(***************************************************************************)
(* What is proved of SockState for every number of sockets and lives and   *)
(* every capacity of the maps: its safety properties, and that it          *)
(* implements ConnectionReports.                                           *)
(***************************************************************************)
EXTENDS SockState, SequenceTheorems, FiniteSetTheorems, TLAPS

-----------------------------------------------------------------------------
(* The inductive invariant. *)

\* A life that has begun belongs to one socket.
OneSocketEach ==
    \A s \in Socks : sock[s].life # Absent =>
        /\ sock[s].life \notin unborn
        /\ \A t \in Socks : sock[t].life = sock[s].life => t = s

\* Without the probe its maps are empty.
EmptyWithoutProbe ==
    ~attached => \A s \in Socks : birth[s] = Absent /\ whoami[s] = Absent

\* A life is reported no earlier than it ends.
OpenUnreported ==
    /\ \A l \in unborn : events[l] = <<>>
    /\ \A s \in Socks : Open(s) /\ sock[s].life # Absent => events[sock[s].life] = <<>>

\* The task of this life has this life's family.
FamilyOfThisLife ==
    \A s \in Socks :
        whoami[s] # Absent /\ whoami[s].life = sock[s].life
            => whoami[s].family = sock[s].family

\* A task in the map was seen in a life that has begun.
TasksHaveBegun ==
    \A s \in Socks : whoami[s] # Absent => whoami[s].life \notin unborn

IInv ==
    /\ TasksHaveBegun
    /\ OneSocketEach
    /\ EmptyWithoutProbe
    /\ OpenUnreported
    /\ FamilyOfThisLife
    /\ BirthOfThisLife
    /\ OnlyIPv6Leaks
    /\ ReportedOnce
    /\ WrongTaskOnlyAfterIPv6

\* A transition leads to a state of the kernel's TCP; a listener can only close.
LEMMA AfterIsState ==
    ASSUME NEW state \in States
    PROVE  /\ After(state) \subseteq States
           /\ state \in {"CLOSE", "LISTEN"} => After(state) = {"CLOSE"}
BY DEF After, States

-----------------------------------------------------------------------------
(* One transition of one socket. *)

\* What Begin, Listen and Step have in common: k is what the kernel has made of
\* the socket, a new life or a listener in a closed one, or the socket as it is.
Transition(s, k, to) ==
    /\ SetState(s, k, to)
    /\ unborn' \subseteq unborn
    /\ k.life \notin unborn'
    /\ \A l \in unborn : l # k.life => l \in unborn'
    /\ k.life = Absent => to \in {"LISTEN", "CLOSE"}
    /\ \/ /\ sock[s].state = "CLOSE" /\ to # "CLOSE" /\ k.life \in unborn \cup {Absent}
          /\ k.life # Absent => to \in Early /\ k.traced
       \/ k = sock[s] /\ (k.state = "CLOSE" => to = "CLOSE")

\* What a transition leaves in the maps and submits, when the probe is there.
LEMMA TraceEffect ==
    ASSUME TypeOK, NEW s \in Socks, NEW k \in Sock, NEW to \in States, NEW t \in Tasks,
           k.life = Absent => to \in {"LISTEN", "CLOSE"},
           Trace(s, k, to, t)
    PROVE  /\ birth' \in [Socks -> Lives \cup {Absent}]
           /\ whoami' \in [Socks -> Id \cup {Absent}]
           /\ \A u \in Socks \ {s} : birth'[u] = birth[u] /\ whoami'[u] = whoami[u]
           /\ to # "CLOSE" => /\ birth'[s] \in {birth[s], k.life}
                              /\ \/ whoami'[s] = whoami[s]
                                 \/ /\ whoami'[s] \in Id
                                    /\ whoami'[s].life = k.life
                                    /\ whoami'[s].family = k.family
                              /\ UNCHANGED events
           /\ to = "CLOSE" => /\ birth'[s] = Absent
                              /\ whoami'[s] = IF birth[s] # Absent /\ k.family = "v6"
                                              THEN whoami[s] ELSE Absent
                              /\ \/ UNCHANGED events
                                 \/ /\ birth[s] # Absent
                                    /\ k.family = "v4"
                                    /\ Submit(k.life, [since |-> birth[s], who |-> whoami[s]])
<1>1. /\ birth \in [Socks -> Lives \cup {Absent}]
      /\ whoami \in [Socks -> Id \cup {Absent}]
  BY DEF TypeOK
<1>2. k.life \in Lives \cup {Absent} /\ k.family \in {"v4", "v6"}
  BY DEF Sock
<1>3. CASE to # "CLOSE"
  <2>. DEFINE id == [life |-> k.life, family |-> k.family, task |-> t]
  <2>1. birth' = Stamped(s, to, k.life) /\ whoami' = Named(s, to, id) /\ UNCHANGED events
    BY <1>3 DEF Trace
  <2>2. /\ birth' \in [Socks -> Lives \cup {Absent}]
        /\ \A u \in Socks \ {s} : birth'[u] = birth[u]
        /\ birth'[s] \in {birth[s], k.life}
    <3>1. to \in Early => k.life \in Lives
      BY <1>2 DEF Early
    <3>. QED BY <2>1, <1>1, <3>1 DEF Stamped, Put
  <2>3. CASE to \in {"SYN_SENT", "LAST_ACK"}
    <3>1. id \in Id
      BY <1>2, <2>3 DEF Id
    <3>2. /\ whoami' \in [Socks -> Id \cup {Absent}]
          /\ \A u \in Socks \ {s} : whoami'[u] = whoami[u]
          /\ whoami'[s] \in {whoami[s], id}
      <4>1. whoami' = Put(whoami, s, id)
        BY <2>1, <2>3 DEF Named
      <4>. HIDE DEF id
      <4>. QED BY <4>1, <3>1, <1>1 DEF Put
    <3>. QED BY <1>3, <2>1, <2>2, <3>1, <3>2
  <2>4. CASE to \notin {"SYN_SENT", "LAST_ACK"}
    BY <1>1, <1>3, <2>1, <2>2, <2>4 DEF Named
  <2>. QED BY <2>3, <2>4
<1>4. CASE to = "CLOSE"
  <2>1. CASE CloseKnown(s, k)
    BY <1>1, <1>2, <1>4, <2>1 DEF CloseKnown, Drop
  <2>2. CASE CloseMissed(s)
    BY <1>1, <1>2, <1>4, <2>2 DEF CloseMissed, Drop
  <2>. QED BY <1>4, <2>1, <2>2 DEF Trace
<1>. QED BY <1>3, <1>4

\* A transition keeps the types of the sockets, the maps and the events.
LEMMA TransitionType ==
    ASSUME TypeOK, NEW s \in Socks, NEW k \in Sock, NEW to \in States, Transition(s, k, to)
    PROVE  TypeOK'
<1>. USE DEF Transition
<1>1. sock' \in [Socks -> Sock]
  <2>1. \A traced \in BOOLEAN : [k EXCEPT !.state = to, !.traced = traced] \in Sock
    BY DEF Sock
  <2>2. (k.traced /\ attached /\ (to \in Early => Room(birth, s))) \in BOOLEAN
    OBVIOUS
  <2>. QED BY <2>1, <2>2 DEF SetState, TypeOK
<1>2. attached' \in BOOLEAN /\ unborn' \subseteq Lives
  BY DEF SetState, TypeOK
<1>3. CASE ~attached
  BY <1>1, <1>2, <1>3 DEF SetState, TypeOK, maps
<1>4. CASE attached
  <2>1. PICK t \in Tasks : Trace(s, k, to, t)
    BY <1>4 DEF SetState
  <2>2. /\ birth' \in [Socks -> Lives \cup {Absent}]
        /\ whoami' \in [Socks -> Id \cup {Absent}]
    BY <2>1, TraceEffect
  <2>3. \/ UNCHANGED events
        \/ birth[s] # Absent /\ Submit(k.life, [since |-> birth[s], who |-> whoami[s]])
    BY <2>1, TraceEffect
  <2>4. events' \in [Lives -> Seq(Event)]
    <3>1. birth[s] # Absent => [since |-> birth[s], who |-> whoami[s]] \in Event
      BY DEF TypeOK, Event
    <3>2. \A q \in Seq(Event), e \in Event : Append(q, e) \in Seq(Event)
      OBVIOUS
    <3>3. ASSUME NEW e \in Event, Submit(k.life, e)
          PROVE  events' \in [Lives -> Seq(Event)]
      BY <3>2, <3>3 DEF Submit, TypeOK
    <3>. QED BY <2>3, <3>1, <3>3 DEF TypeOK
  <2>. QED BY <1>1, <1>2, <2>2, <2>4 DEF TypeOK
<1>. QED BY <1>3, <1>4

\* A transition of one socket keeps the inductive invariant: it touches nothing
\* but its own keys and the report of its own life.
LEMMA TransitionInvariant ==
    ASSUME TypeOK, IInv, NEW s \in Socks, NEW k \in Sock, NEW to \in States,
           Transition(s, k, to)
    PROVE  IInv'
<1>. USE DEF Transition
<1>1. /\ sock'[s].state = to /\ sock'[s].life = k.life /\ sock'[s].family = k.family
      /\ \A u \in Socks \ {s} : sock'[u] = sock[u]
      /\ attached' = attached
  BY DEF SetState, TypeOK, Sock
<1>2. k.life \in Lives \cup {Absent} /\ k.family \in {"v4", "v6"}
  BY DEF Sock
<1>3. \A u \in Socks \ {s} : k.life # Absent => sock[u].life # k.life
  BY DEF IInv, OneSocketEach
<1>4. /\ birth[s] # Absent => birth[s] = k.life /\ sock[s].state # "CLOSE" /\ k = sock[s]
      /\ to # "CLOSE" /\ k.life # Absent => events[k.life] = <<>>
      /\ sock[s].state # "CLOSE" /\ k.life # Absent => k = sock[s] /\ events[k.life] = <<>>
  BY DEF IInv, BirthOfThisLife, OpenUnreported, Open
<1>5. OneSocketEach'
  BY <1>1, <1>3 DEF IInv, OneSocketEach
<1>6. CASE ~attached
  <2>1. UNCHANGED maps /\ \A u \in Socks : birth[u] = Absent /\ whoami[u] = Absent
    BY <1>6 DEF SetState, IInv, EmptyWithoutProbe
  <2>2. UNCHANGED <<birth, whoami, events>>
    BY <2>1 DEF maps
  <2>3. OpenUnreported'
    BY <1>1, <1>4, <2>2 DEF IInv, OpenUnreported, Open
  <2>. QED
    BY <1>5, <2>1, <2>2, <2>3
    DEF IInv, EmptyWithoutProbe, FamilyOfThisLife, TasksHaveBegun, BirthOfThisLife, OnlyIPv6Leaks,
        ReportedOnce, WrongTaskOnlyAfterIPv6
<1>7. CASE attached
  <2>1. PICK t \in Tasks : Trace(s, k, to, t)
    BY <1>7 DEF SetState
  <2>2. /\ \A u \in Socks \ {s} : birth'[u] = birth[u] /\ whoami'[u] = whoami[u]
        /\ to # "CLOSE" => /\ birth'[s] \in {birth[s], k.life}
                           /\ \/ whoami'[s] = whoami[s]
                              \/ /\ whoami'[s].life = k.life
                                 /\ whoami'[s].family = k.family
                           /\ UNCHANGED events
        /\ to = "CLOSE" => /\ birth'[s] = Absent
                           /\ whoami'[s] = IF birth[s] # Absent /\ k.family = "v6"
                                           THEN whoami[s] ELSE Absent
                           /\ \/ UNCHANGED events
                              \/ /\ birth[s] # Absent
                                 /\ k.family = "v4"
                                 /\ Submit(k.life, [since |-> birth[s], who |-> whoami[s]])
    BY <2>1, TraceEffect
  <2>3. EmptyWithoutProbe'
    BY <1>1, <1>7 DEF EmptyWithoutProbe
  <2>4. BirthOfThisLife'
    BY <1>1, <1>4, <2>2 DEF IInv, BirthOfThisLife, Open
  <2>5. /\ FamilyOfThisLife'
        /\ OnlyIPv6Leaks'
        /\ TasksHaveBegun'
    <3>1. whoami[s] # Absent => whoami[s].life \in Lives \ unborn
      BY DEF IInv, TasksHaveBegun, TypeOK, Id
    <3>2. whoami[s] # Absent => \/ k = sock[s] /\ (whoami[s].life = k.life => whoami[s].family = k.family)
                                \/ whoami[s].life # k.life
      BY <3>1, ConstantsAssumption DEF IInv, FamilyOfThisLife
    <3>3. FamilyOfThisLife'
      BY <1>1, <2>2, <3>2 DEF IInv, FamilyOfThisLife
    <3>4. whoami[s] # Absent => \/ k = sock[s] /\ sock[s].state # "CLOSE" /\ whoami[s].life = k.life
                                \/ whoami[s].family = "v6"
      BY <1>4 DEF IInv, OnlyIPv6Leaks, Open
    <3>5. to = "CLOSE" /\ whoami'[s] # Absent => whoami[s].family = "v6"
      BY <1>4, <2>2, <3>2, <3>4
    <3>6. OnlyIPv6Leaks'
      BY <1>1, <2>2, <3>4, <3>5 DEF IInv, OnlyIPv6Leaks, Open
    <3>7. TasksHaveBegun'
      BY <2>2, <3>1 DEF IInv, TasksHaveBegun
    <3>. QED BY <3>3, <3>6, <3>7
  <2>6. CASE UNCHANGED events
    <3>1. OpenUnreported'
      BY <1>1, <1>4, <2>6 DEF IInv, OpenUnreported, Open
    <3>2. ReportedOnce' /\ WrongTaskOnlyAfterIPv6'
      BY <2>6 DEF IInv, ReportedOnce, WrongTaskOnlyAfterIPv6
    <3>. QED BY <1>5, <2>3, <2>4, <2>5, <3>1, <3>2 DEF IInv
  <2>7. CASE ~UNCHANGED events
    <3>. DEFINE e == [since |-> birth[s], who |-> whoami[s]]
    <3>1. /\ to = "CLOSE" /\ birth[s] # Absent /\ birth[s] = k.life /\ k = sock[s]
          /\ k.family = "v4" /\ sock[s].state # "CLOSE" /\ Submit(k.life, e)
      BY <1>4, <2>2, <2>7
    <3>2. k.life \in Lives /\ events[k.life] = <<>>
      BY <1>2, <1>4, <3>1
    <3>3. /\ \A l \in Lives \ {k.life} : events'[l] = events[l]
          /\ events'[k.life] = <<e>>
      BY <3>1, <3>2 DEF Submit, TypeOK
    <3>4. OpenUnreported'
      <4>1. \A l \in unborn' : l \in Lives /\ l # k.life
        BY DEF TypeOK
      <4>2. \A u \in Socks : sock'[u].state # "CLOSE" /\ sock'[u].life # Absent =>
                u # s /\ sock'[u] = sock[u] /\ sock[u].life \in Lives \ {k.life}
        BY <1>1, <1>3, <3>1, <3>2 DEF TypeOK, Sock
      <4>. QED BY <3>3, <4>1, <4>2 DEF IInv, OpenUnreported, Open
    <3>5. ReportedOnce'
      <4>1. /\ Len(events'[k.life]) <= 1
            /\ \A j \in DOMAIN events'[k.life] : events'[k.life][j].since = k.life
        BY <3>1, <3>3
      <4>2. \A l \in Lives \ {k.life} :
                /\ Len(events'[l]) <= 1
                /\ \A j \in DOMAIN events'[l] : events'[l][j].since = l
        BY <3>3 DEF IInv, ReportedOnce
      <4>. QED BY <4>1, <4>2 DEF ReportedOnce
    <3>6. whoami[s] # Absent => whoami[s].life = k.life \/ whoami[s].family = "v6"
      BY <3>1 DEF IInv, OnlyIPv6Leaks
    <3>7. WrongTaskOnlyAfterIPv6'
      BY <3>3, <3>6 DEF IInv, WrongTaskOnlyAfterIPv6
    <3>. QED BY <1>5, <2>3, <2>4, <2>5, <3>4, <3>5, <3>7 DEF IInv
  <2>. QED BY <2>6, <2>7
<1>. QED BY <1>6, <1>7

-----------------------------------------------------------------------------
(* What is traced is reported. *)

\* A connection that is traced and open has its birth in the map.
TracedHasBirth ==
    \A s \in Socks :
        sock[s].traced /\ Open(s) /\ sock[s].life # Absent => birth[s] # Absent

TracedInv == TracedHasBirth /\ EveryTracedIsReported

\* A report that was submitted stays.
LEMMA ReportsStay ==
    ASSUME TypeOK, NEW s \in Socks, NEW k \in Sock, NEW to \in States, NEW t \in Tasks,
           Trace(s, k, to, t), NEW l \in Lives, events[l] # <<>>
    PROVE  events'[l] # <<>>
<1>1. events[l] \in Seq(Event)
  BY DEF TypeOK
<1>2. \/ UNCHANGED events
      \/ \E e : birth[s] # Absent /\ Submit(k.life, e)
  BY DEF Trace, CloseKnown, CloseMissed
<1>3. CASE UNCHANGED events
  BY <1>3
<1>4. ASSUME NEW e, Submit(k.life, e) PROVE events'[l] # <<>>
  <2>1. events'[l] = IF l = k.life THEN Append(events[l], e) ELSE events[l]
    BY <1>4 DEF Submit, TypeOK
  <2>2. Append(events[l], e) # <<>>
    BY <1>1, AppendProperties
  <2>. QED BY <2>1, <2>2
<1>. QED BY <1>2, <1>3, <1>4

\* A transition keeps both: an early one is stamped when there is room, and a closing
\* one that finds the stamp submits the report.
LEMMA TransitionTraced ==
    ASSUME TypeOK, IInv, TracedInv, NEW s \in Socks, NEW k \in Sock, NEW to \in States,
           Transition(s, k, to)
    PROVE  TracedInv'
<1>. USE DEF Transition
<1>1. /\ sock'[s].state = to /\ sock'[s].life = k.life /\ sock'[s].family = k.family
      /\ sock'[s].traced => k.traced /\ attached /\ (to \in Early => Room(birth, s))
      /\ \A u \in Socks \ {s} : sock'[u] = sock[u]
  BY DEF SetState, TypeOK, Sock
<1>2. /\ birth \in [Socks -> Lives \cup {Absent}]
      /\ k.life \in Lives \cup {Absent} /\ k.family \in {"v4", "v6"}
      /\ \A u \in Socks : sock[u].life \in Lives \cup {Absent}
  BY DEF TypeOK, Sock
<1>3. CASE ~attached
  <2>1. UNCHANGED <<birth, events>> /\ ~sock'[s].traced
    BY <1>1, <1>3 DEF SetState, maps
  <2>. QED BY <1>1, <2>1 DEF TracedInv, TracedHasBirth, EveryTracedIsReported, Open
<1>4. CASE attached
  <2>1. PICK t \in Tasks : Trace(s, k, to, t)
    BY <1>4 DEF SetState
  <2>2. \A u \in Socks \ {s} : birth'[u] = birth[u]
    BY <2>1, TraceEffect
  <2>3. \A l \in Lives : events[l] # <<>> => events'[l] # <<>>
    BY <2>1, ReportsStay
  <2>4. CASE to # "CLOSE"
    <3>1. sock'[s].traced /\ k.life # Absent => birth'[s] # Absent
      <4>1. CASE to \in Early
        BY <1>1, <1>2, <2>1, <2>4, <4>1 DEF Trace, Stamped, Put
      <4>2. CASE to \notin Early
        <5>1. birth' = birth
          BY <2>1, <2>4, <4>2 DEF Trace, Stamped
        <5>2. k.life # Absent => k = sock[s] /\ sock[s].state # "CLOSE"
          BY <2>4, <4>2
        <5>. QED BY <1>1, <5>1, <5>2 DEF TracedInv, TracedHasBirth, Open
      <4>. QED BY <4>1, <4>2
    <3>2. TracedHasBirth'
      BY <1>1, <2>2, <3>1 DEF TracedInv, TracedHasBirth, Open
    <3>3. EveryTracedIsReported'
      BY <1>1, <1>2, <2>3, <2>4 DEF TracedInv, EveryTracedIsReported, Open
    <3>. QED BY <3>2, <3>3 DEF TracedInv
  <2>5. CASE to = "CLOSE"
    <3>1. k = sock[s]
      BY <2>5
    <3>2. TracedHasBirth'
      BY <1>1, <2>2, <2>5 DEF TracedInv, TracedHasBirth, Open
    <3>3. ASSUME sock'[s].traced, k.family = "v4", k.life # Absent
          PROVE  events'[k.life] # <<>>
      <4>1. CASE sock[s].state = "CLOSE"
        BY <1>1, <1>2, <2>3, <3>1, <3>3, <4>1 DEF TracedInv, EveryTracedIsReported, Open
      <4>2. CASE sock[s].state # "CLOSE"
        <5>1. birth[s] # Absent
          BY <1>1, <3>1, <3>3, <4>2 DEF TracedInv, TracedHasBirth, Open
        <5>2. PICK e : Submit(k.life, e)
          BY <2>1, <2>5, <3>3, <5>1 DEF Trace, CloseKnown, CloseMissed
        <5>3. events[k.life] = <<>>
          BY <1>2, <3>1, <3>3, <4>2 DEF IInv, OpenUnreported, Open
        <5>4. events'[k.life] = <<e>>
          BY <1>2, <3>3, <5>2, <5>3 DEF Submit, TypeOK
        <5>. QED BY <5>4
      <4>. QED BY <4>1, <4>2
    <3>4. EveryTracedIsReported'
      BY <1>1, <1>2, <2>3, <3>3 DEF TracedInv, EveryTracedIsReported, Open
    <3>. QED BY <3>2, <3>4 DEF TracedInv
  <2>. QED BY <2>4, <2>5
<1>. QED BY <1>3, <1>4

-----------------------------------------------------------------------------
(* The steps of the kernel are transitions. *)

\* Whatever the kernel does to a socket is one transition of it.
LEMMA KernelStepIsTransition ==
    ASSUME TypeOK, IInv, NEW s \in Socks, Begin(s) \/ Listen(s) \/ Step(s)
    PROVE  \E k \in Sock, to \in States : Transition(s, k, to)
<1>1. CASE Begin(s)
  <2>1. PICK l \in unborn, f \in Families, to \in {"SYN_SENT", "SYN_RECV"} :
            /\ unborn' = unborn \ {l}
            /\ SetState(s, [state |-> "CLOSE", life |-> l, family |-> f, traced |-> TRUE], to)
    BY <1>1 DEF Begin
  <2>. DEFINE k == [state |-> "CLOSE", life |-> l, family |-> f, traced |-> TRUE]
  <2>2. k \in Sock /\ to \in States /\ k.life = l /\ l # Absent
    BY ConstantsAssumption DEF TypeOK, Sock, States
  <2>3. Transition(s, k, to)
    BY <1>1, <2>1, <2>2 DEF Transition, Begin, Early
  <2>. QED BY <2>2, <2>3
<1>2. CASE Listen(s)
  <2>1. PICK f \in Families :
            SetState(s, [state |-> "CLOSE", life |-> Absent, family |-> f, traced |-> TRUE], "LISTEN")
    BY <1>2 DEF Listen
  <2>. DEFINE k == [state |-> "CLOSE", life |-> Absent, family |-> f, traced |-> TRUE]
  <2>2. k \in Sock /\ "LISTEN" \in States /\ k.life = Absent /\ Absent \notin unborn
    BY ConstantsAssumption DEF TypeOK, Sock, States
  <2>3. Transition(s, k, "LISTEN")
    BY <1>2, <2>1, <2>2 DEF Transition, Listen
  <2>. QED BY <2>2, <2>3
<1>3. CASE Step(s)
  <2>1. PICK to \in After(sock[s].state) : SetState(s, sock[s], to)
    BY <1>3 DEF Step
  <2>2. sock[s] \in Sock /\ sock[s].state \in States
    BY DEF TypeOK, Sock
  <2>3. to \in States /\ (sock[s].state \in {"CLOSE", "LISTEN"} => to = "CLOSE")
    BY <2>1, <2>2, AfterIsState
  <2>4. sock[s].life \notin unborn
    BY ConstantsAssumption DEF IInv, OneSocketEach, TypeOK
  <2>5. Transition(s, sock[s], to)
    BY <1>3, <2>1, <2>3, <2>4 DEF Transition, Step
  <2>. QED BY <2>2, <2>3, <2>5
<1>. QED BY <1>1, <1>2, <1>3

\* The inductive invariant holds before the probe is loaded.
LEMMA Initially ==
    ASSUME Init PROVE TypeOK /\ IInv
<1>1. TypeOK
  <2>1. [state |-> "CLOSE", life |-> Absent, family |-> "v4", traced |-> FALSE] \in Sock
    BY DEF Sock, States
  <2>2. <<>> \in Seq(Event)
    OBVIOUS
  <2>. QED BY <2>1, <2>2 DEF Init, TypeOK
<1>2. IInv
  BY ConstantsAssumption
  DEF Init, IInv, OneSocketEach, EmptyWithoutProbe, OpenUnreported, FamilyOfThisLife, TasksHaveBegun,
      BirthOfThisLife, OnlyIPv6Leaks, ReportedOnce, WrongTaskOnlyAfterIPv6, Open
<1>. QED BY <1>1, <1>2

\* Every step keeps it: of the kernel, of the probe's loading and unloading.
LEMMA Inductive ==
    ASSUME TypeOK, IInv, [Next]_vars
    PROVE  TypeOK' /\ IInv'
<1>1. ASSUME NEW s \in Socks, Begin(s) \/ Listen(s) \/ Step(s)
      PROVE  TypeOK' /\ IInv'
  BY <1>1, KernelStepIsTransition, TransitionType, TransitionInvariant
<1>2. CASE Attach
  BY <1>2
  DEF Attach, maps, TypeOK, IInv, OneSocketEach, EmptyWithoutProbe, OpenUnreported,
      FamilyOfThisLife, TasksHaveBegun, BirthOfThisLife, OnlyIPv6Leaks, ReportedOnce,
      WrongTaskOnlyAfterIPv6, Open
<1>3. CASE Detach
  <2>1. TypeOK'
    BY <1>3 DEF Detach, TypeOK, Sock
  <2>2. \A s \in Socks : /\ sock'[s].state = sock[s].state
                         /\ sock'[s].life = sock[s].life
                         /\ sock'[s].family = sock[s].family
    BY <1>3 DEF Detach, TypeOK, Sock
  <2>3. /\ \A s \in Socks : birth'[s] = Absent /\ whoami'[s] = Absent
        /\ UNCHANGED <<unborn, events>>
    BY <1>3 DEF Detach
  <2>4. OneSocketEach' /\ OpenUnreported'
    BY <2>2, <2>3 DEF IInv, OneSocketEach, OpenUnreported, Open
  <2>5. /\ EmptyWithoutProbe' /\ FamilyOfThisLife' /\ TasksHaveBegun'
        /\ BirthOfThisLife' /\ OnlyIPv6Leaks'
    BY <2>3
    DEF EmptyWithoutProbe, FamilyOfThisLife, TasksHaveBegun, BirthOfThisLife, OnlyIPv6Leaks
  <2>6. ReportedOnce' /\ WrongTaskOnlyAfterIPv6'
    BY <2>3 DEF IInv, ReportedOnce, WrongTaskOnlyAfterIPv6
  <2>. QED BY <2>1, <2>4, <2>5, <2>6 DEF IInv
<1>4. CASE UNCHANGED vars
  BY <1>4
  DEF vars, TypeOK, IInv, OneSocketEach, EmptyWithoutProbe, OpenUnreported,
      FamilyOfThisLife, TasksHaveBegun, BirthOfThisLife, OnlyIPv6Leaks, ReportedOnce,
      WrongTaskOnlyAfterIPv6, Open
<1>. QED BY <1>1, <1>2, <1>3, <1>4 DEF Next

LEMMA InitiallyTraced ==
    ASSUME Init PROVE TracedInv
BY DEF Init, TracedInv, TracedHasBirth, EveryTracedIsReported, Open

LEMMA InductiveTraced ==
    ASSUME TypeOK, IInv, TracedInv, [Next]_vars
    PROVE  TracedInv'
<1>1. ASSUME NEW s \in Socks, Begin(s) \/ Listen(s) \/ Step(s)
      PROVE  TracedInv'
  BY <1>1, KernelStepIsTransition, TransitionTraced
<1>2. CASE Attach
  BY <1>2 DEF Attach, maps, TracedInv, TracedHasBirth, EveryTracedIsReported, Open
<1>3. CASE Detach
  <2>1. \A s \in Socks : ~sock'[s].traced
    BY <1>3 DEF Detach, TypeOK, Sock
  <2>. QED BY <2>1 DEF TracedInv, TracedHasBirth, EveryTracedIsReported
<1>4. CASE UNCHANGED vars
  BY <1>4 DEF vars, TracedInv, TracedHasBirth, EveryTracedIsReported, Open
<1>. QED BY <1>1, <1>2, <1>3, <1>4 DEF Next

-----------------------------------------------------------------------------
(* The theorems. *)

\* The maps and the events of sock_state.c always have the shapes the handler
\* expects, and each of the facts above holds of them.
THEOREM InductiveInvariant == Spec => [](TypeOK /\ IInv)
<1>. QED BY Initially, Inductive, PTL DEF Spec

\* Whatever the kernel does with the addresses of its sockets, and however small
\* the map of births is, the handler never measures from the birth of an earlier
\* connection at the same address (sock_state.c, lines 29-41 and 63).
THEOREM SpansAreOwn == Spec => []BirthOfThisLife
<1>. QED BY InductiveInvariant, PTL DEF IInv

\* A connection is reported once at most, with its own span, also when its
\* socket is closed twice or the probe comes late (sock_state.c, lines 55-63).
THEOREM AtMostOneReport == Spec => []ReportedOnce
<1>. QED BY InductiveInvariant, PTL DEF IInv

\* An event names a task of its own connection or of an IPv6 connection before
\* it, never of an earlier IPv4 connection (sock_state.c, lines 58-70 and 105).
THEOREM TasksAreOwnButForIPv6 == Spec => []WrongTaskOnlyAfterIPv6
<1>. QED BY InductiveInvariant, PTL DEF IInv

\* Nothing but closed IPv6 connections stays in the map of tasks
\* (sock_state.c, lines 59, 102 and 106).
THEOREM TaskLeaksAreIPv6 == Spec => []OnlyIPv6Leaks
<1>. QED BY InductiveInvariant, PTL DEF IInv

\* An IPv4 connection whose every transition the probe has seen, with room for its
\* births, is reported when it closes (sock_state.c, lines 29-41 and 55-105).
THEOREM TracedAreReported == Spec => []EveryTracedIsReported
<1>1. Init => TypeOK /\ IInv /\ TracedInv
  BY Initially, InitiallyTraced
<1>2. TypeOK /\ IInv /\ TracedInv /\ [Next]_vars => (TypeOK /\ IInv /\ TracedInv)'
  BY Inductive, InductiveTraced
<1>3. TracedInv => EveryTracedIsReported
  BY DEF TracedInv
<1>. QED BY <1>1, <1>2, <1>3, PTL DEF Spec

-----------------------------------------------------------------------------
(* The probe implements ConnectionReports. *)

ProbeInv == TypeOK /\ IInv /\ TracedInv

ReportsStep == [Reports!Next]_Reports!vars

\* The phase of a connection that has begun is told by the socket that carries it.
LEMMA PhaseOfCarrier ==
    ASSUME TypeOK, IInv, NEW s \in Socks, sock[s].life # Absent
    PROVE  PhaseOf(sock[s].life) =
               IF ~Open(s) THEN "closed"
               ELSE IF sock[s].family = "v6" THEN "silent"
               ELSE IF sock[s].traced THEN "followed"
               ELSE "open"
<1>1. sock[s].life \notin unborn
  BY DEF IInv, OneSocketEach
<1>2. Carriers(sock[s].life) = IF Open(s) THEN {s} ELSE {}
  BY DEF IInv, OneSocketEach, Carriers
<1>. QED BY <1>1, <1>2 DEF PhaseOf

\* A socket that finds no room leaves the map to the births of as many others, each
\* of a connection of its own that is open.
LEMMA FullIsCrowded ==
    ASSUME TypeOK, IInv, NEW s \in Socks, ~Open(s), ~Room(birth, s)
    PROVE  Reports!Crowded
<1>. DEFINE Born == {t \in Socks : birth[t] # Absent}
            Begun == {l \in Lives : PhaseOf(l) \in {"followed", "open", "silent"}}
            f == [t \in Born |-> birth[t]]
<1>1. \A t \in Born : /\ birth[t] \in Lives /\ birth[t] = sock[t].life /\ Open(t)
                     /\ sock[t].life # Absent
  BY DEF TypeOK, IInv, BirthOfThisLife
<1>2. ASSUME NEW t \in Born PROVE birth[t] \in Begun
  BY <1>1, PhaseOfCarrier
<1>3. \A t, u \in Born : birth[t] = birth[u] => t = u
  BY <1>1 DEF IInv, OneSocketEach
<1>4. f \in Injection(Born, Begun)
  BY <1>2, <1>3 DEF Injection, IsInjective
<1>5. IsFiniteSet(Born) /\ IsFiniteSet(Begun)
  BY ConstantsAssumption, FS_Subset
<1>6. /\ Cardinality(Born) \in Nat /\ Cardinality(Begun) \in Nat
      /\ Cardinality(Born) <= Cardinality(Begun)
  <2>. HIDE DEF Born, Begun, f
  <2>. QED BY <1>4, <1>5, FS_Injection, FS_CardinalityType
<1>7. ~(Cardinality(Born) < MaxEntries)
  BY DEF Room
<1>8. Cardinality(Begun) >= MaxEntries
  <2>. HIDE DEF Born, Begun
  <2>. QED BY <1>6, <1>7, ConstantsAssumption
<1>. DEFINE InPhases == {l \in Lives : [m \in Lives |-> PhaseOf(m)][l] \in {"followed", "open", "silent"}}
<1>9. InPhases = Begun
  OBVIOUS
<1>10. Reports!Crowded <=> Cardinality(InPhases) >= MaxEntries
  BY Zenon DEF Reports!Crowded, Reports!Cardinality, Cardinality
<1>. HIDE DEF Begun, InPhases
<1>. QED BY <1>8, <1>9, <1>10

\* One connection has another phase, the others are as they were.
LEMMA PhaseGoes ==
    ASSUME NEW r \in Lives, NEW x,
           \A l \in Lives : PhaseOf(l)' = IF l = r THEN x ELSE PhaseOf(l)
    PROVE  [l \in Lives |-> PhaseOf(l)]' = [[l \in Lives |-> PhaseOf(l)] EXCEPT ![r] = x]
OBVIOUS

LEMMA PhasesStay ==
    ASSUME \A l \in Lives : PhaseOf(l)' = PhaseOf(l), UNCHANGED <<attached, events>>
    PROVE  ReportsStep
<1>1. [l \in Lives |-> PhaseOf(l)]' = [l \in Lives |-> PhaseOf(l)]
  OBVIOUS
<1>. QED BY <1>1 DEF ReportsStep, Reports!vars

\* A transition of one socket gives its own connection the phase that fits it.
LEMMA TransitionPhases ==
    ASSUME TypeOK, IInv, NEW s \in Socks, NEW k \in Sock, NEW to \in States,
           Transition(s, k, to)
    PROVE  /\ \A l \in Lives \ {k.life} : PhaseOf(l)' = PhaseOf(l)
           /\ k.life # Absent => PhaseOf(k.life)' =
                  IF to = "CLOSE" THEN "closed"
                  ELSE IF k.family = "v6" THEN "silent"
                  ELSE IF sock'[s].traced THEN "followed"
                  ELSE "open"
<1>. USE DEF Transition
<1>1. /\ sock'[s].state = to /\ sock'[s].life = k.life /\ sock'[s].family = k.family
      /\ \A u \in Socks \ {s} : sock'[u] = sock[u]
  BY DEF SetState, TypeOK, Sock
<1>2. \A u \in Socks \ {s} : k.life # Absent => sock[u].life # k.life
  BY ConstantsAssumption DEF IInv, OneSocketEach
<1>3. ASSUME NEW l \in Lives \ {k.life} PROVE PhaseOf(l)' = PhaseOf(l)
  <2>1. (l \in unborn)' <=> l \in unborn
    OBVIOUS
  <2>2. s \notin Carriers(l) /\ s \notin Carriers(l)'
    BY <1>1 DEF Carriers, Open
  <2>3. Carriers(l)' = Carriers(l) /\ \A u \in Carriers(l) : sock'[u] = sock[u]
    BY <1>1, <2>2 DEF Carriers, Open
  <2>. QED BY <2>1, <2>3 DEF PhaseOf
<1>4. ASSUME k.life # Absent
      PROVE  PhaseOf(k.life)' =
                  IF to = "CLOSE" THEN "closed"
                  ELSE IF k.family = "v6" THEN "silent"
                  ELSE IF sock'[s].traced THEN "followed"
                  ELSE "open"
  <2>1. Carriers(k.life)' = IF to = "CLOSE" THEN {} ELSE {s}
    BY <1>1, <1>2, <1>4 DEF Carriers, Open
  <2>. QED BY <1>1, <2>1 DEF PhaseOf
<1>. QED BY <1>3, <1>4

\* What a transition of a connection that has begun, or begins, is to ConnectionReports.
LEMMA TransitionReported ==
    ASSUME ProbeInv, NEW s \in Socks, NEW k \in Sock, NEW to \in States,
           Transition(s, k, to)
    PROVE  ReportsStep
<1>. USE DEF Transition
<1>0. TypeOK /\ IInv /\ TracedInv
  BY DEF ProbeInv
<1>1. /\ attached' = attached
      /\ sock'[s].traced <=> k.traced /\ attached /\ (to \in Early => Room(birth, s))
      /\ k.life \in Lives \cup {Absent} /\ k.family \in {"v4", "v6"}
  BY <1>0 DEF SetState, TypeOK, Sock
<1>2. /\ birth[s] # Absent => attached /\ Open(s) /\ birth[s] = sock[s].life
      /\ sock[s].traced /\ Open(s) /\ sock[s].life # Absent => birth[s] # Absent
  BY <1>0 DEF IInv, EmptyWithoutProbe, BirthOfThisLife, TracedInv, TracedHasBirth
<1>3. to # "CLOSE" \/ birth[s] = Absent \/ k.family = "v6" => UNCHANGED events
  BY <1>2 DEF SetState, maps, Trace, CloseKnown, CloseMissed
<1>4. \A l \in Lives \ {k.life} : PhaseOf(l)' = PhaseOf(l)
  BY <1>0, TransitionPhases
<1>5. k.life # Absent => PhaseOf(k.life)' =
          IF to = "CLOSE" THEN "closed"
          ELSE IF k.family = "v6" THEN "silent"
          ELSE IF sock'[s].traced THEN "followed"
          ELSE "open"
  BY <1>0, TransitionPhases
<1>6. k = sock[s] /\ k.life # Absent => PhaseOf(k.life) =
          IF ~Open(s) THEN "closed"
          ELSE IF k.family = "v6" THEN "silent"
          ELSE IF k.traced THEN "followed"
          ELSE "open"
  BY <1>0, PhaseOfCarrier
<1>7. CASE k.life = Absent
  <2>1. UNCHANGED events
    BY <1>2, <1>3, <1>7
  <2>2. \A l \in Lives : PhaseOf(l)' = PhaseOf(l)
    BY <1>4, <1>7, ConstantsAssumption
  <2>. QED BY <1>1, <2>1, <2>2, PhasesStay
<1>8. CASE k.life \in unborn
  <2>1. k.life \in Lives /\ k.life # Absent /\ PhaseOf(k.life) = "unborn"
    BY <1>0, <1>8, ConstantsAssumption DEF TypeOK, PhaseOf
  <2>2. sock[s].state = "CLOSE" /\ to # "CLOSE" /\ to \in Early /\ k.traced
    BY <1>0, <1>8, <2>1 DEF IInv, OneSocketEach
  <2>3. UNCHANGED <<attached, events>>
    BY <1>1, <1>3, <2>2
  <2>4. [l \in Lives |-> PhaseOf(l)]' = [[l \in Lives |-> PhaseOf(l)] EXCEPT ![k.life] = PhaseOf(k.life)']
    BY <1>4, <2>1, PhaseGoes
  <2>5. ASSUME k.family = "v6" PROVE Reports!Ignore(k.life)
    BY <1>5, <2>1, <2>2, <2>3, <2>4, <2>5 DEF Reports!Ignore, Reports!Enter
  <2>6. ASSUME k.family = "v4", attached, Room(birth, s) PROVE Reports!Follow(k.life)
    BY <1>1, <1>5, <2>1, <2>2, <2>3, <2>4, <2>6 DEF Reports!Follow, Reports!Enter
  <2>7. ASSUME k.family = "v4", ~attached \/ ~Room(birth, s) PROVE Reports!Miss(k.life)
    <3>1. ~attached \/ Reports!Crowded
      BY <1>0, <2>2, <2>7, FullIsCrowded DEF Open
    <3>2. PhaseOf(k.life)' = "open"
      BY <1>1, <1>5, <2>1, <2>2, <2>7
    <3>. QED BY <2>1, <2>3, <2>4, <3>1, <3>2 DEF Reports!Miss, Reports!Enter
  <2>. QED BY <1>1, <2>1, <2>5, <2>6, <2>7 DEF ReportsStep, Reports!Next
<1>9. CASE k = sock[s] /\ k.life \in Lives
  <2>0. k.life # Absent
    BY <1>9, ConstantsAssumption
  <2>1. CASE ~Open(s)
    <3>1. to = "CLOSE" /\ PhaseOf(k.life)' = PhaseOf(k.life)
      <4>1. k.life \notin unborn
        BY <1>0, <1>9, <2>0 DEF IInv, OneSocketEach
      <4>2. to = "CLOSE"
        BY <1>9, <2>0, <2>1, <4>1 DEF Open
      <4>. QED BY <1>5, <1>6, <1>9, <2>0, <2>1, <4>2
    <3>2. \A l \in Lives : PhaseOf(l)' = PhaseOf(l)
      BY <1>4, <3>1
    <3>3. UNCHANGED events
      BY <1>2, <1>3, <2>1
    <3>. QED BY <1>1, <3>2, <3>3, PhasesStay
  <2>2. CASE Open(s) /\ to # "CLOSE"
    <3>1. k.traced => sock'[s].traced
      BY <1>1, <1>2, <1>9, <2>0, <2>2 DEF Room
    <3>2. PhaseOf(k.life)' = PhaseOf(k.life)
      BY <1>1, <1>5, <1>6, <1>9, <2>0, <2>2, <3>1
    <3>3. \A l \in Lives : PhaseOf(l)' = PhaseOf(l)
      BY <1>4, <3>2
    <3>. QED BY <1>1, <1>3, <2>2, <3>3, PhasesStay
  <2>3. CASE Open(s) /\ to = "CLOSE"
    <3>1. [l \in Lives |-> PhaseOf(l)]' = [[l \in Lives |-> PhaseOf(l)] EXCEPT ![k.life] = "closed"]
      BY <1>4, <1>5, <1>9, <2>0, <2>3, PhaseGoes
    <3>2. CASE birth[s] # Absent /\ k.family = "v4"
      <4>. DEFINE e == [since |-> birth[s], who |-> whoami[s]]
      <4>1. Submit(k.life, e)
        BY <1>2, <2>3, <3>2 DEF SetState, Trace, CloseKnown, CloseMissed
      <4>2. events[k.life] = <<>>
        BY <1>0, <1>9, <2>0, <2>3 DEF IInv, OpenUnreported
      <4>3. events' = [events EXCEPT ![k.life] = <<e>>]
        BY <4>1, <4>2 DEF Submit
      <4>4. e \in Reports!Report(k.life)
        <5>1. birth[s] = k.life
          BY <1>2, <1>9, <3>2
        <5>2. whoami[s] \in {Absent} \cup {id \in Id : id.life = k.life \/ id.family = "v6"}
          BY <1>0, <1>9 DEF IInv, OnlyIPv6Leaks, TypeOK
        <5>. QED BY <5>1, <5>2 DEF Reports!Report
      <4>5. PhaseOf(k.life) \in {"followed", "open"} /\ attached
        BY <1>2, <1>6, <1>9, <2>0, <2>3, <3>2
      <4>6. Reports!CloseReported(k.life)
        <5>. HIDE DEF e
        <5>. QED BY <1>1, <1>9, <3>1, <4>3, <4>4, <4>5 DEF Reports!CloseReported, Reports!Leave
      <4>. QED BY <1>9, <4>6 DEF ReportsStep, Reports!Next
    <3>3. CASE birth[s] = Absent \/ k.family = "v6"
      <4>1. UNCHANGED events
        BY <1>3, <3>3
      <4>2. PhaseOf(k.life) \in {"open", "silent"}
        BY <1>1, <1>2, <1>6, <1>9, <2>0, <2>3, <3>3
      <4>3. Reports!CloseUnreported(k.life)
        BY <1>1, <1>9, <3>1, <4>1, <4>2 DEF Reports!CloseUnreported, Reports!Leave
      <4>. QED BY <1>9, <4>3 DEF ReportsStep, Reports!Next
    <3>. QED BY <1>1, <3>2, <3>3
  <2>. QED BY <2>1, <2>2, <2>3
<1>. QED BY <1>1, <1>7, <1>8, <1>9

\* So does every step: the kernel's, and the probe's coming and going.
LEMMA NextReported ==
    ASSUME ProbeInv, [Next]_vars
    PROVE  ReportsStep
<1>0. TypeOK /\ IInv
  BY DEF ProbeInv
<1>1. ASSUME NEW s \in Socks, Begin(s) \/ Listen(s) \/ Step(s) PROVE ReportsStep
  BY <1>0, <1>1, KernelStepIsTransition, TransitionReported
<1>2. ASSUME UNCHANGED <<sock, unborn>> PROVE \A l \in Lives : PhaseOf(l)' = PhaseOf(l)
  BY <1>2 DEF PhaseOf, Carriers, Open
<1>3. CASE Attach
  <2>1. \A l \in Lives : PhaseOf(l)' = PhaseOf(l)
    BY <1>2, <1>3 DEF Attach
  <2>2. [l \in Lives |-> PhaseOf(l)]' = [l \in Lives |-> PhaseOf(l)]
    BY <2>1
  <2>3. Reports!Load
    BY <1>3, <2>2 DEF Attach, maps, Reports!Load
  <2>. QED BY <2>3 DEF ReportsStep, Reports!Next
<1>4. CASE Detach
  <2>1. \A s \in Socks : /\ sock'[s].state = sock[s].state
                         /\ sock'[s].life = sock[s].life
                         /\ sock'[s].family = sock[s].family
                         /\ ~sock'[s].traced
    BY <1>0, <1>4 DEF Detach, TypeOK, Sock
  <2>2. ASSUME NEW l \in Lives
        PROVE  PhaseOf(l)' = IF PhaseOf(l) = "followed" THEN "open" ELSE PhaseOf(l)
    <3>1. Carriers(l)' = Carriers(l) /\ Carriers(l) \subseteq Socks
      BY <2>1 DEF Carriers, Open
    <3>2. unborn' = unborn
      BY <1>4 DEF Detach
    <3>. QED BY <2>1, <3>1, <3>2 DEF PhaseOf
  <2>3. [l \in Lives |-> PhaseOf(l)]' =
            [l \in Lives |-> IF [m \in Lives |-> PhaseOf(m)][l] = "followed" THEN "open"
                             ELSE [m \in Lives |-> PhaseOf(m)][l]]
    BY <2>2
  <2>4. Reports!Unload
    BY <1>4, <2>3 DEF Detach, Reports!Unload
  <2>. QED BY <2>4 DEF ReportsStep, Reports!Next
<1>5. CASE UNCHANGED vars
  BY <1>2, <1>5, PhasesStay DEF vars
<1>. QED BY <1>1, <1>3, <1>4, <1>5 DEF Next

\* Every behaviour of the kernel and of the handler in sock_state.c is one that
\* ConnectionReports allows: with room and with the probe loaded each IPv4 connection
\* is reported as itself, once, at the transition to TCP_CLOSE.
THEOREM ReportsImplemented == Spec => ImplementsReports
<1>1. Init => ProbeInv
  BY Initially, InitiallyTraced DEF ProbeInv
<1>2. ProbeInv /\ [Next]_vars => ProbeInv'
  BY Inductive, InductiveTraced DEF ProbeInv
<1>3. Init => Reports!Init
  <2>1. Init => \A l \in Lives : PhaseOf(l) = "unborn"
    BY DEF Init, PhaseOf
  <2>. QED BY <2>1 DEF Init, Reports!Init
<1>4. ProbeInv /\ [Next]_vars => ReportsStep
  BY NextReported
<1>. QED BY <1>1, <1>2, <1>3, <1>4, PTL DEF Spec, ImplementsReports, Reports!Spec, ReportsStep
=============================================================================
