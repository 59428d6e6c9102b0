CONSTANTS
  motor = motor
  servos = servos
  none = none
  NoRole = none
  Roles = {motor}
  Gap = 1
  Silence = 2
  MaxWire = 1
  Reasons <- Stalling
  Mishaps <- None
SPECIFICATION Spec
PROPERTY NothingBeforeAStop
