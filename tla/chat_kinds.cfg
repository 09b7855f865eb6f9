SPECIFICATION Spec
CONSTANTS
    k1 = k1
    k2 = k2
    k3 = k3
    Calls = {k1}
    Requests <- KindRequests
    ModelReplies <- ModelReply
    RuleSnapshots <- Operators
    QueueSize = 1
    MemoryMax = 2
    UniqueMessageId = FALSE
    MaxFailures = 1
    MaxStops = 1
INVARIANTS TypeOK ReplyIsRecorded HardRulesBeforeAI SensitiveHandedOff NoPromiseLeaks
