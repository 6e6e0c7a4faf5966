SPECIFICATION Spec
CONSTANTS
  Keys = {1, 2, 3}
  NumberOfVoices = 2
  MonoStackSize = 2
  Modes = {"MONO"}
  Glides_ = {"OFF", "OVERLAP", "ALWAYS"}
  Windows = {"stack outlives"}
INVARIANT NoteNeverHangs
