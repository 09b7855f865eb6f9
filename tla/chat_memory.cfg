SPECIFICATION Spec
CONSTANTS
    k1 = k1
    k2 = k2
    k3 = k3
    Calls = {k1, k2, k3}
    Requests <- PlainRequests
    ModelReplies <- GoodReplies
    RuleSnapshots <- NoOperators
    QueueSize = 3
    MemoryMax = 4
    UniqueMessageId = FALSE
    MaxFailures = 0
    MaxStops = 0
SYMMETRY CallSymmetry
INVARIANTS MemoryIsTranscript MemoryCoherent
