SPECIFICATION Spec
CONSTANTS
    Engines <- Crowded
INVARIANTS
    TraceFieldsBounded
