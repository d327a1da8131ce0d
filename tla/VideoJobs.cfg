SPECIFICATION FairSpec
CONSTANTS
    MaxTries = 2
    MaxRetries = 1
    MaxPolls = 2
CHECK_DEADLOCK FALSE
INVARIANTS ReturnedMeansStored PredictionsBounded UrlIsReal
PROPERTY JobsEnd
