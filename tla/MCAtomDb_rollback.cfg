SPECIFICATION Spec
CONSTANTS
    Proc = {p1, p2}
    Bytes = {"a", "b"}
    Bonds = {}
    Cells <- NoCells
    MaxFrames = 4
    Failures = {"write", "rollback"}
    Rank <- MCRank
INVARIANTS
    AcknowledgedSurvives
