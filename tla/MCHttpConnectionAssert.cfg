SPECIFICATION Spec
CONSTANTS
    Kinds = {"get", "badVersion"}
    MaxRequests = 2
INVARIANTS
    MethodUnsetAtRequestLine
CHECK_DEADLOCK FALSE
