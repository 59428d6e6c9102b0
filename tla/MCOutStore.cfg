CONSTANTS
  off = off
  one = one
  none = none
  Sectors = 2
  PerSector = 2
  Settle = 1
  GapWait = 1
  MaxSeq = 5
  Pages = {1, 2}
  Wirings = {off, one}
  Off = off
  Default = 1
  Before <- Left
  Nothing = none
SPECIFICATION FairSpec
INVARIANTS
  AttachedIsKept
PROPERTIES
  ImplementsKept
  SaveLands
