SPECIFICATION Spec
CONSTANTS
    Task = {1}
    Replica = {"a", "b"}
    Reconciler = {"a"}
    Event = {1, 2}
    NoMessage = NoMessage
    MaxRetries = 3
    HandlerTimeout = 2
    PendingGrace = 1
    ProcessingTimeout = 2
    BatchSize = 1
    Poison = {1}
    Faults = {"publish"}
    MaxFaults = 1
INVARIANTS
    RetryRuns
    EventUnderway
