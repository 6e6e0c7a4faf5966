SPECIFICATION Spec
CONSTANTS
  kNoteStackSize = 2
  Keys = {60, 64, 67}
  kEventSchedulerSize = 3
  Directions = {"PLAYED", "UP_DOWN", "CHORD"}
  Octaves = 1
  Division = 2
  Durations = {1, 3}
  IdleTicks = 2
  MaxEdits = 1
INVARIANTS TypeOK LinksSound EveryNoteEndsOnce
PROPERTIES ImplementsHeldKeys PlaysHeldKeys Silence
