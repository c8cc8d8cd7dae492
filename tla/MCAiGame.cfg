SPECIFICATION Spec
CONSTANTS
    Thread = {t1, t2}
    BOARD_SIZE = 3
    LineLength = 3
    MaxOverlaps = 2
SYMMETRY Symmetry
INVARIANTS TypeOK WinNeedsFork FaultNeedsOverlap
PROPERTIES PlaysGomoku
CHECK_DEADLOCK FALSE
