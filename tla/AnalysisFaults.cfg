\* One process at a time, every kind of fault.
SPECIFICATION Safe
CONSTANTS
    MaxAnalyses = 3
    Instances = {i1}
    Requests = {r1, r2}
    NoInstance = NoInstance
    Overlap = FALSE
    Faults <- AllFaults
    MaxFaults = 2
SYMMETRY Symmetry
INVARIANTS AtMostOneActive OneAtATime
