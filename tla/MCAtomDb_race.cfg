SPECIFICATION Spec
CONSTANTS
    Proc = {p1, p2}
    Bytes = {"a"}
    Bonds = {}
    Cells <- AtomThenRoot
    MaxFrames = 4
    Failures = {"magic", "write", "crash", "power"}
    Rank <- MCRank
SYMMETRY Symmetry
INVARIANTS
    TypeOK
    IInv
    ScansBalance
    ViewsAreCommitted
    AtomsReadBack
    WriterAtFrontier
    SingleWriter
    SequencesContiguous
    AcknowledgedSurvives
PROPERTIES
    ImplementsLog
    RefreshHonest
