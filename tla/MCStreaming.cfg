SPECIFICATION FairSpec
CONSTANTS
    None = None
    Capable <- MCCapable
    Wishes <- MCWishes
    Streams = {s1}
    MaxLines = 4
INVARIANTS FinishMeansWhole
PROPERTIES KeepsPromise StreamsEnd
