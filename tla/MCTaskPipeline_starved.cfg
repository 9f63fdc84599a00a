SPECIFICATION FairSpec
CONSTANTS
    Task = {1, 2}
    Replica = {"a"}
    Reconciler = {"a"}
    Event = {1, 2}
    NoMessage = NoMessage
    MaxRetries = 0
    HandlerTimeout = 2
    PendingGrace = 0
    ProcessingTimeout = 2
    BatchSize = 1
    Poison = {1}
    Faults = {"publish"}
    MaxFaults = 1
PROPERTY EveryTaskCompletes
