CONSTANTS
    o1 = o1  o2 = o2
    i1 = i1  i2 = i2  d1 = d1  d2 = d2  s1 = s1  s2 = s2
    m1 = m1  m2 = m2  n1 = n1  n2 = n2  p1 = p1  p2 = p2  v1 = v1  v2 = v2
    NoIP = NoIP
    Absent = Absent
    Operators = {o1}
    Inspectors = {i1, i2}
    Names = {n1, n2}
    NameOf <- OwnNames
    Deployments = {d1, d2}
    Services = {s1, s2}
    Models = {m1, m2}
    Selects <- OwnPods
    PodIPs = {p1}
    ServiceIPs = {v1, v2}
    SpecOptions <- ModelChoice
    PodsAtStart <- FirstPodRuns
    ClusterIPAtStart <- OwnClusterIP
    LeaderElection = TRUE
    Disturbances = {"crash", "pods", "delete"}
SPECIFICATION Spec
INVARIANTS TypeOK NothingForgotten SherlockOwned SherlockServesRunning
PROPERTIES MonitoringStays RecordedPointsRemoved ImplementsLifecycle
