SPECIFICATION BucketSpec
CONSTANTS
    Calls = {c1, c2, c3}
    Capacity = 4
    Cost = 2
    KeyTTL = 6
    MaxDelay = 2
    MaxTime = 12
SYMMETRY Symmetry
INVARIANTS Balance RateBound DebtBound
