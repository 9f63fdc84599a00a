SPECIFICATION Spec
CONSTANTS
    Task = {1}
    Replica = {"a", "b"}
    Reconciler = {"a", "b"}
    Event = {1, 2}
    NoMessage = NoMessage
    MaxRetries = 1
    HandlerTimeout = 2
    PendingGrace = 0
    ProcessingTimeout = 2
    BatchSize = 1
    Poison = {}
    Faults = {"crash"}
    MaxFaults = 1
INVARIANT SingleOwner
