SPECIFICATION FairSpec
CONSTANTS
    Task = {1}
    Replica = {"a", "b"}
    Reconciler = {"a"}
    Event = {1, 2}
    NoMessage = NoMessage
    MaxRetries = 1
    HandlerTimeout = 2
    PendingGrace = 0
    ProcessingTimeout = 2
    BatchSize = 1
    Poison = {}
    Faults = {"crash", "db", "ambiguous", "redis", "publish", "channel", "llm", "stall"}
    MaxFaults = 1
PROPERTY EveryTaskCompletes
