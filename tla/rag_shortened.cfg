SPECIFICATION SearchSpec
CONSTANTS
    a1 = a1
    s1 = s1
    s2 = s2
    q1 = q1
    Admins = {a1}
    RowIds = {1}
    Docs <- ShortenedDocs
    Pieces <- LongPieces
    VectorBatch = 10
    KeywordBatch = 50
    MaxOperations = 2
    MaxFailures = 0
    Searches = {s1}
    Queries = {q1}
    TopK = 3
    MaxOutages = 0
INVARIANTS OldTextNotFound
