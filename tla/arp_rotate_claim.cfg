SPECIFICATION Spec
CONSTANTS
  kNoteStackSize = 4
  Keys = {60, 62, 64, 67}
  kEventSchedulerSize = 2
  Directions = {"ROTATE_UP"}
  Octaves = 1
  Division = 1
  Durations = {1}
  IdleTicks = 96
  MaxEdits = 0
PROPERTY PlaysHeldKeys
