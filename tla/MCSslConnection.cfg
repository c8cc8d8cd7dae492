SPECIFICATION FairSpec
CONSTANT MaxRequests = 2
PROPERTY HandshakeEnds
CHECK_DEADLOCK FALSE
