\* One process at a time that may crash; the database answers.
SPECIFICATION Spec
CONSTANTS
    MaxAnalyses = 2
    Instances = {i1}
    Requests = {r1, r2}
    NoInstance = NoInstance
    Overlap = FALSE
    Faults <- CrashOnly
    MaxFaults = 2
INVARIANTS ActiveIsDriven
PROPERTIES DoneStaysDone ImplementsBoard EveryAnalysisSettles EveryRequestEnds
