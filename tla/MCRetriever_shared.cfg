SPECIFICATION SpecR
CONSTANTS
    Proc = {p1, p2}
    Nobody = nobody
    Atoms <- OneAtom
    Documents <- OneDocument
    MaxCommits = 4
    SeenMayFail = FALSE
SYMMETRY Symmetry
INVARIANTS
    RetrieverInv
    IndexIsCurrent
    ReinforcementsCounted
    HistoryIsTheCounter
