CONSTANTS
  M = 8
  QLen = 2
SPECIFICATION Spec
PROPERTIES
  ToldBeforeDispatch
  DropsForALoss
  NoStopSwallowedUnlessAstray
