SPECIFICATION FairSpec
CONSTANTS
    Callers = {c1, c2}
    Threshold = 2
    RecoveryTimeout = 2
    LockTTL = 1
    MaxRetries = 1
INVARIANTS OpenHasLastFailure RefusalExpires
PROPERTIES AdmitsAgain PhasesEnd
