SPECIFICATION ConvFairSpec
CONSTANTS
    None = None
    Missing = Missing
    Capable <- MCCapable
    Wishes <- MCWishes
    Requests = {r1}
    MaxKeys = 2
INVARIANTS TypeInv TriedInOrder PreferenceKept NamedModelAsked StepsAskListedModel MediaReachesProvider StepsAnsweredOnce TriesBounded
PROPERTY ConversionsAreAnswered
