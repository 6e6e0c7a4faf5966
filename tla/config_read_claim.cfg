SPECIFICATION Spec
CONSTANTS
  Faults = {"crash", "read"}
  MaxEdits = 3
  MaxFaults = 2
PROPERTY CanonicalKept
