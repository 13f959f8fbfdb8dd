\* As Pipeline.cfg: what METHODOLOGY.md says of the rules together.
SPECIFICATION ClassifySpec
CONSTANTS
    Surges <- SomeSurges
    Drops <- SomeDrops
    Voltages <- SomeVoltages
    PowerFactors <- SomePowerFactors
    Overcurrents <- SomeOvercurrents
    EventLists <- SomeEventLists
INVARIANT EverySignalClassified
CHECK_DEADLOCK FALSE
