\* One meter: every combination of the signals and of up to two events.
SPECIFICATION ClassifySpec
CONSTANTS
    Surges <- SomeSurges
    Drops <- SomeDrops
    Voltages <- SomeVoltages
    PowerFactors <- SomePowerFactors
    Overcurrents <- SomeOvercurrents
    EventLists <- SomeEventLists
INVARIANTS CountedOnce VerdictByTable FalsePositivesLast
CHECK_DEADLOCK FALSE
