SPECIFICATION SpecP
CONSTANTS
    Inputs <- AllQueries
INVARIANTS
    ThreadsReconstruct
    ExhaustionObservable
    FieldIsBounded
    ContextBounded
    EvidenceGrounded
    AnswerableIfSupported

    
