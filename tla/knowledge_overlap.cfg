SPECIFICATION Spec
CONSTANTS
    a1 = a1
    a2 = a2
    Admins = {a1, a2}
    RowIds = {1, 2}
    Docs <- SomeDocs
    Pieces <- SomePieces
    VectorBatch = 1
    KeywordBatch = 2
    MaxOperations = 3
    MaxFailures = 1
SYMMETRY AdminSymmetry
INVARIANTS TypeOK ChunksAreWhole VectorIdMeansIndexed SettledIsComplete RowsAreInHistory
CHECK_DEADLOCK FALSE
