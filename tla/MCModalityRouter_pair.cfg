SPECIFICATION Spec
CONSTANTS
    p1 = p1
    p2 = p2
    m1 = m1
    m2 = m2
    m3 = m3
    None = None
    Capable <- MCCapable
    Requests = {r1}
    MaxKeys = 2
INVARIANT FailoverSendsListedPair
