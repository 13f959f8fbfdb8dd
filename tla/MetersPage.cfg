SPECIFICATION Spec
CONSTANTS
    Codes <- TwoCodes
    Found <- OneCode
    Seeded <- BothCodes
    PageSize = 1
    Slots <- OneSlot
    MaxRows = 3
    MaxClicks = 3
    MaxSurprises = 1
INVARIANTS ListMatchesQuery NothingToldIsMissing
PROPERTIES DraftKept SearchSettles
CHECK_DEADLOCK FALSE
