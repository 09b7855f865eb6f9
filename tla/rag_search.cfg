SPECIFICATION SearchSpec
CONSTANTS
    a1 = a1
    s1 = s1
    s2 = s2
    q1 = q1
    Admins = {a1}
    RowIds = {1, 2}
    Docs <- TwoKidDocs
    Pieces <- TwoKidPieces
    VectorBatch = 10
    KeywordBatch = 50
    MaxOperations = 2
    MaxFailures = 1
    Searches = {s1}
    Queries = {q1}
    TopK = 3
    MaxOutages = 2
INVARIANTS SearchTypeOK SearchSurvivesIndexes PassagesAreKnowledge
PROPERTIES CacheBecomesFresh
