CONSTANTS
  QLen = 2
SPECIFICATION Spec
INVARIANTS
  HandedOverIsWhole
PROPERTIES
  UndoneInThePump
