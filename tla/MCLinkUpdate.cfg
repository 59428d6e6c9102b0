CONSTANTS
  Images = {"a", "b"}
  NBlocks = 3
  PerSector = 2
  Lost = 1
  BusyTries = 1
  Restarts = 1
  BlockTries = 1
SPECIFICATION FairSpec
INVARIANTS
  StartableIsWhole
  SomethingStarts
PROPERTIES
  UpdatedIsTrueUnlessRestarted
  CheckIsTrue
  RunEnds
  SweepEnds
