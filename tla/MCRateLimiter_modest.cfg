SPECIFICATION Spec
CONSTANTS
    Limit = 3
    Window = 3
    MaxBurst = 2
    MaxCount = 9
    MaxOutages = 0
INVARIANT ModestClientServed
