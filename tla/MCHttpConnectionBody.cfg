SPECIFICATION Spec
CONSTANTS
    Kinds = {"get", "post", "emptyPost"}
    MaxRequests = 2
INVARIANTS
    BodyIsOwn
CHECK_DEADLOCK FALSE
