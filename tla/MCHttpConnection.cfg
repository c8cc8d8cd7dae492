SPECIFICATION FairSpec
CONSTANTS
    Kinds = {"get", "getBody", "post", "lowerPost", "emptyPost", "upload", "cutUpload",
             "shortUpload", "noLength", "badLength", "negativeLength", "badHeader",
             "badMethod", "badVersion"}
    MaxRequests = 3
INVARIANTS
    TypeOK
    RepliesInOrder
    ClosedMeansClosed
    InStep
    OwnHeaders
    CountedBodyIsOwn
    
    AssertsOnlyWhenShut
PROPERTIES
    EveryRequestAnswered
CHECK_DEADLOCK FALSE
