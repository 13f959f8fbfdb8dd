SPECIFICATION Spec
CONSTANTS
    Pages = {p1, p2}
    Handlers = {h1, h2}
    Notes = {n1}
    WideNote = wide
    NoNote = blank
    NoPage = nowhere
    MaxClicks = 2
    Faults <- AllFaults
INVARIANTS PendingHasItsRequest
PROPERTIES SerialWorkflow ConflictMeansStale SuccessShowsTheRow EveryClickEnds
CHECK_DEADLOCK FALSE
