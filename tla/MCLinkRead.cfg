CONSTANTS
  a = a
  b = b
  c = c
  d = d
  e = e
  RetryFrom = 1
  RetryLast = 2
  Timeout = 3
  Keep = 3
  Delay = 1
  SeqMax = 2
  MaxOut = 2
  MaxBack = 3
  Ids = {a, b, c}
  Ops <- Reading
SPECIFICATION Spec
INVARIANTS
  ReadIsOneState

