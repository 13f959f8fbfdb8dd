SPECIFICATION Spec
CONSTANTS
    MaxAnalyses = 3
    Starts <- TwoStarts
    MaxFaults = 1
    MaxReloads = 1
INVARIANTS ToldOnce ActiveIsPolled ListIsCurrent
PROPERTIES ShownMovesForward ToldWhenItEndsInOrder
CHECK_DEADLOCK FALSE
