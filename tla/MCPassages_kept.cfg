SPECIFICATION Spec
CONSTANTS
    Documents <- MixedDocuments
    max_bytes = 9
    overlap_bytes = 3
INVARIANTS
    EverySentenceKept
