SPECIFICATION Spec
CONSTANTS
  Size = 8
  Burst = 3
  MaxItem = 24
  Urgent = "consumer"
  Ops = {"reserve", "remove"}
CHECK_DEADLOCK FALSE
INVARIANT ReservationHonoured
