\* Three mishaps, without the ports.
SPECIFICATION Spec
CONSTANTS
  Confirm = 1
  Watch = 2
  Retry = 2
  Fails = 2
  Absent = 1
  Mishaps = {"lost", "press", "restart"}
  Upsets = 3
INVARIANT
  OursIsWatched
PROPERTIES
  WiringLeavesItOff
  OnLeavesWanted
