SPECIFICATION Spec
CONSTANTS
    Method <- MCMethod
    Path <- MCPath
    Pattern <- MCPattern
    Param = ":"
    Handler <- MCHandler
    NoHandler = "nothing"
    Thread = {t1, t2}
    Name = {n1, n2}
    Origin = {"site", "other"}
    Configs <- TableConfigs
INVARIANTS ParametersGiven
CHECK_DEADLOCK FALSE
