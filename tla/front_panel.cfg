SPECIFICATION PanelSpec
CONSTANTS
  Faults = {"crash", "open", "write", "unlink", "rename"}
  MaxEdits = 3
  MaxFaults = 5
CHECK_DEADLOCK FALSE
INVARIANTS TypeOK NeverTorn BusHasOneMaster
PROPERTIES NeverBackwards LoadsWhatIsThere CleanSaveCommits OneGesturePerPress ShowsWhatWasAsked
