SPECIFICATION Spec
CONSTANTS
    rate_ = 2
    capacity_ = 2
    MsPerSecond = 4
    TicksPerMs = 3
    Horizon = 18
INVARIANTS
    TypeOK
    AdmissionBound
    AtLeastHalfTheRate
