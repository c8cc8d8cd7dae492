SPECIFICATION Spec
CONSTANTS
    Method <- MCMethod
    Path <- MCPath
    Pattern <- MCPattern
    Param = ":"
    Handler <- MCHandler
    NoHandler = "nothing"
    Thread = {t1, t2}
    Name = {n1, n2}
    Origin = {"site", "other"}
    Configs <- MCConfigs
SYMMETRY Symmetry
INVARIANTS TypeOK RoutedAsDeclared AnswersReadable PreflightKept ConflictMeansTaken OwnId OneRowPerThread
CHECK_DEADLOCK FALSE
