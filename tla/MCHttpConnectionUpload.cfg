SPECIFICATION Spec
CONSTANTS
    Kinds = {"get", "upload"}
    MaxRequests = 2
INVARIANTS
    WellFormedNeverRefused
CHECK_DEADLOCK FALSE
