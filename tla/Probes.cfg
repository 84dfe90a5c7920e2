CONSTANTS
    k1 = k1  k2 = k2  k3 = k3  l1 = l1  l2 = l2  l3 = l3
    Socks = {k1, k2, k3}
    Lives = {l1, l2, l3}
    Tasks = {"app"}
    Families = {"v4", "v6"}
    MaxEntries = 2
    Absent = Absent
    c1 = c1  c2 = c2  c3 = c3  a1 = a1  a2 = a2  t1 = t1  t2 = t2
    Cpus = {c1, c2, c3}
    Listeners = {a1, a2}
    Threads = {t1, t2}
    Idle = Idle
    MaxBacklog = 0
    MaxSamples = 1
    NoListener = NoListener
SYMMETRY Alike
SPECIFICATION ProbesSpec
INVARIANTS ProbesTypeOK BirthOfThisLife OnlyIPv6Leaks EveryTracedIsReported
INVARIANTS ThreadsFindTheirOwn NothingIsLeft
PROPERTIES ImplementsReports
