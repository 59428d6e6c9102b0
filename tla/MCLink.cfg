CONSTANTS
  a = a
  b = b
  c = c
  d = d
  e = e
  RetryFrom = 1
  RetryLast = 2
  Timeout = 4
  Keep = 4
  Delay = 1
  SeqMax = 3
  MaxOut = 3
  MaxBack = 2
  Ids = {a, b, c, d, e}
  Ops <- Writing
SPECIFICATION FairSpec
INVARIANTS
  AtMostOnce
  OutcomeIsTrue
PROPERTIES
  ExchangeEnds
  LinkReturns
