CONSTANTS
    a1 = a1  a2 = a2  a3 = a3  s1 = s1  s2 = s2  s3 = s3  p1 = p1  p2 = p2
    Addrs = {a1, a2, a3}
    Series = {s1, s2, s3}
    Files <- Contents
    None = None
    Ports = {p1, p2}
    Slots = {1, 2, 3}
    Rows <- TwoPorts
    MaxSamples = 1
SPECIFICATION FocusSpec
PROPERTY PollsPeriodically
