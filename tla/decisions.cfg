SPECIFICATION Spec
CONSTANTS
    MaxTerms = 3
    Found <- SomeFound
    Strays = {9}
    TopK = 3
    MaxDocuments = 5
    MaxRanking = 3
    VectorScores = {900}
    KeywordScores = {1000}
    RerankScores = {0, 100, 700, 9000}
    Messages <- SomeMessages
    MaxChunkRunes = 4
    OverlapRunes = 2
    Texts <- SomeTexts
    MaxRunes = 9
INVARIANTS SensitiveIsHandedOff HitEqualsMiss DirectReplyIsClear PhrasesWhole
PROPERTIES HandoffIsMonotone RankingSelects CutEnds
CHECK_DEADLOCK FALSE
