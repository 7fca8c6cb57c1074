SPECIFICATION Spec
CONSTANTS
    Documents <- AllDocuments
    max_bytes = 9
    overlap_bytes = 3
INVARIANTS
    WindowsBounded
    OverlapBounded
    SplitsKeepBytes
    SentencesKept
