CONSTANTS
    a1 = a1  a2 = a2  a3 = a3  s1 = s1  s2 = s2  s3 = s3
    Addrs = {a1, a2, a3}
    Series = {s1, s2, s3}
    Files <- Contents
    None = None
SPECIFICATION MountedSpec
PROPERTY ReactsToUpdates
