SPECIFICATION FairSpec
CONSTANTS
    Proc = {p1, p2}
    Bytes = {}
    Bonds = {}
    Cells <- OneAtom
    MaxFrames = 3
    Failures = {"write", "sync", "rollback", "repair"}
    Rank <- MCRank
PROPERTIES
    CallsReturn
