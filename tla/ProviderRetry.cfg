SPECIFICATION FairSpec
CONSTANTS
    Workers = {w1}
    Calls = {c1, c2, c3}
    Threshold = 2
    RecoveryTimeout = 2
    MaxRetries = 1
    FailureBound = 5
    NoWorker = NoWorker
INVARIANT OpenIffThreshold
PROPERTIES OverrunShrinks ImplementsContract CallsAreAnswered CircuitRecovers
