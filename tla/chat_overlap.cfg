SPECIFICATION Spec
CONSTANTS
    k1 = k1
    k2 = k2
    k3 = k3
    Calls = {k1, k2}
    Requests <- RetriedRequests
    ModelReplies <- ModelReply
    RuleSnapshots <- NoOperators
    QueueSize = 1
    MemoryMax = 2
    UniqueMessageId = TRUE
    MaxFailures = 2
    MaxStops = 1
INVARIANTS NoOrphanRows TraceOncePerCall AnsweredOnce
PROPERTIES CallsEnd
