SPECIFICATION FairSpec
CONSTANTS
    Request = {"r1", "r2"}
    Sweeper = "sweeper"
    Publisher = {"r1", "r2", "sweeper"}
    Nobody = "nobody"
    MaxAttempts = 3
    MaxFailures = 3
    Environments <- MCEnvironments
INVARIANTS
    TypeOK
    HandlerHasBackends
    NoPublishUnderClose
    SweepsCanRun
    ShortGraceByZeroInterval
PROPERTIES
    ShutdownCompletes
    ExitsAfterFailure
    ConsumerRecovers
CHECK_DEADLOCK FALSE
