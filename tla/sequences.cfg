SPECIFICATION LoadSpec
CONSTANTS
  NUMBER_OF_TIMBRES = 2
  SEQ_ACTION_SIZE = 7
  Period = 4
  Bars = {2, 4}
  MaxTick = 2
  ClearWhileRunning = FALSE
  ChangeWhilePending = FALSE
  MaxNotes = 3
  MaxEdits = 2
  MaxWork = 3
  StrayLists = FALSE
CHECK_DEADLOCK FALSE
INVARIANTS TypeOK ListsHoldWhatWasRecorded NeverTrips
PROPERTIES HeardOnce SoundListsSurvive
