SPECIFICATION Spec
CONSTANTS
    Limit = 2
    Window = 3
    MaxBurst = 2
    MaxCount = 9
    MaxOutages = 1
INVARIANTS
    TypeOK
    AdmittedBounded
    SilenceReadmits
