SPECIFICATION Spec
CONSTANTS
    Meters <- TwoMeters
    Entries <- FirstMeter
    Spans <- ShortAndFull
    FullSpan = 14
    MaxSpan = 31
    Start = 14
    Step = 2
    Findings <- NoneOldOrRecent
    MaxAnalyses = 1
    MaxTurns = 2
INVARIANTS OneStory NewsIsShown ProfilesAnswered
PROPERTIES PageSettles
CHECK_DEADLOCK FALSE
