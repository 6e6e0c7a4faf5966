SPECIFICATION Spec
CONSTANTS
  NUMBER_OF_TIMBRES = 2
  SEQ_ACTION_SIZE = 7
  Period = 4
  Bars = {2, 4}
  MaxTick = 2
  ClearWhileRunning = TRUE
  ChangeWhilePending = FALSE
  MaxNotes = 3
  MaxEdits = 1
  MaxWork = 4
CHECK_DEADLOCK FALSE
PROPERTY OthersSurviveClear
