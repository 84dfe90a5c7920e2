CONSTANTS
    s1 = s1  s2 = s2  m1 = m1  m2 = m2  n1 = n1  n2 = n2
    Services = {s1, s2}
    Namespaces = {n1, n2}
    Models = {m1, m2}
    Files <- FileContents
    Bucket = {m1}
    SharedVolume = TRUE
    MaxRestarts = 1
    None = None
SPECIFICATION FairSpec
INVARIANT TypeOK
PROPERTIES OnlyNamedAreScored EveryListedIsTried ScoresSettle
