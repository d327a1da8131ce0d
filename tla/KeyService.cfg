SPECIFICATION FairSpec
CONSTANTS
    Workers = {w1, w2}
    Requests = {r1, r2}
    Keys = {k1, k2}
    CacheTTL = 2
    None = None
INVARIANT OnlyCommittedKeys
PROPERTIES KeepsKeyStore DeletedKeysAreForgotten
