CONSTANTS
  motor = motor
  servos = servos
  none = none
  NoRole = none
  Roles = {motor, servos}
  Gap = 1
  Silence = 1
  MaxWire = 1
  Reasons <- Findings
  Mishaps <- All
SYMMETRY RoleSymmetry
SPECIFICATION Spec
PROPERTIES
  DrivesOnlyWhenWanted
  RequestStandsUntilDown
  OutageDisarms
  NothingBeforeAStopButAStall
INVARIANT RolesAgree
