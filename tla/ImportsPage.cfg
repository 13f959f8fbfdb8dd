SPECIFICATION Spec
CONSTANTS
  Cards <- TwoCards
  Good <- GoodFile
  Bad <- BadFile
  Refused <- RefusedFile
  Limit = 1
  MaxUploads = 2
  MaxTurns = 2
INVARIANTS AnsweredIsShown OutcomeIsOfTheFile
PROPERTIES UploadsEnd
CHECK_DEADLOCK FALSE
