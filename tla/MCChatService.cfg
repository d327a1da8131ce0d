SPECIFICATION Spec
CONSTANTS
    Requests = {r1, r2}
    Conversations = {v1, v2}
    Targets = {t1, t2}
    Settings = {s1}
    None = None
    MaxTurns = 3
SYMMETRY Symmetry
INVARIANTS TurnsAreWhole UsageMatches NamedIsWhoAnswers
