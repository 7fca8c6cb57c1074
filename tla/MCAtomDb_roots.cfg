SPECIFICATION Spec
CONSTANTS
    Proc = {p1, p2}
    Bytes = {}
    Bonds <- MCBonds
    Cells <- RootCells
    MaxFrames = 11
    Failures = {}
    Rank <- MCRank
SYMMETRY Symmetry
INVARIANTS
    IndexClosed
    RootChains
    SnapshotIsCurrent
    SnapshotsAgree
