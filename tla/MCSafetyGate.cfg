SPECIFICATION Spec
CONSTANTS
  Roles <- MCRoles
  ArmAll = ArmAll
  Absent = Absent
  Ports <- MCPorts
  motor = motor
  kst = kst
  hitec = hitec
  MinGap = 2
  MaxGap = 4
  GoodRun = 2
  Silence = 5
  MaxPass = 2
INVARIANTS
  ArmStandsOnTrust
  LatchRemembers
  DownInTime
  HoldsExclude
PROPERTIES
  ImplementsConsent
