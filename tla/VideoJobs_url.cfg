SPECIFICATION Spec
CONSTANTS
    MaxTries = 1
    MaxRetries = 0
    MaxPolls = 3
INVARIANT CompletedHasVideo
