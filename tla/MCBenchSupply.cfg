\* One mishap of any kind.
SPECIFICATION Spec
CONSTANTS
  Confirm = 1
  Watch = 1
  Retry = 1
  Fails = 1
  Absent = 1
  Mishaps = {"lost", "junk", "press", "restart", "held"}
  Upsets = 1
INVARIANT
  OursIsWatched
PROPERTIES
  WiringLeavesItOff
  OnLeavesWanted
