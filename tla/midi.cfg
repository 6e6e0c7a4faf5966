SPECIFICATION MidiSpec
CONSTANTS
  Size = 7
  Message = 3
  DumpSize = 3
  TxDepth = 2
  Profiles = {{"controller"}, {"dump"}, {"cc", "dump"}, {"controller", "thru"}, {"cc", "dump", "thru"}}
  MaxBytes = 15
  ThruWeight = 4
CHECK_DEADLOCK FALSE
INVARIANTS TypeOK WireInOrder WireComplete NeverStranded DeliversWhatWasSent Resyncs
PROPERTY DumpEnds
