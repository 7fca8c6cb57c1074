SPECIFICATION Spec
CONSTANTS
    Engines <- AllEngines
INVARIANTS
    PredecessorsTurnFirst
    FoundHasThread
    FanOutDissipates
    ContextFieldSound
    MemoryIsEarned
    RelayIsBounded
PROPERTIES
    SuccessStrengthens
    ThreadRewarded
    ImplementsLearning
