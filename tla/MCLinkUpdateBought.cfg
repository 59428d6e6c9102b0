CONSTANTS
  Images = {"a", "b"}
  NBlocks = 2
  PerSector = 2
  Lost = 1
  BusyTries = 1
  Restarts = 1
  BlockTries = 1
SPECIFICATION Spec
PROPERTIES
  UpdatedIsTrue
