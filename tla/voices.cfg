SPECIFICATION Spec
CONSTANTS
  Keys = {1, 2, 3}
  NumberOfVoices = 2
  MonoStackSize = 2
  Modes = {"POLY", "MONO", "UNISON"}
  Glides_ = {"OFF", "OVERLAP", "ALWAYS"}
  Windows = {}
INVARIANTS TypeOK NoteNeverHangs MonoSounds
PROPERTIES NoNeedlessSteal FallsSilent
