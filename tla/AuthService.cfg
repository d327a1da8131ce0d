SPECIFICATION FairSpec
CONSTANTS
    Requests = {r1, r2, r3}
    MaxFailed = 2
    LockoutTTL = 2
    SecondTicks = 2
    Lifetime = 6
INVARIANTS OverrunBounded RevocationHolds UsesBounded
PROPERTY LockEnds
