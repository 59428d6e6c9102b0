CONSTANTS
  Fresh = 2
  HoldSeen = 3
  UiHold = 3
  Floor = 2
  Confirm = 2
  Timeout = 1
  Served <- TwoPages
SPECIFICATION Spec
PROPERTIES
  ResumeRestsOnAHold
