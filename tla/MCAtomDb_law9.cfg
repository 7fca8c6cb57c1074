SPECIFICATION Spec
CONSTANTS
    Proc = {p1}
    Bytes = {}
    Bonds = {}
    Cells <- AtomAndRoot
    MaxFrames = 4
    Failures = {"crash"}
    Rank <- MCRank
INVARIANTS
    WriterKnowsOnlyDurable
