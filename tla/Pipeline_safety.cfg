SPECIFICATION Spec
CONSTANTS
  a1 = a1
  a2 = a2
  w1 = w1
  w2 = w2
  c1 = c1
  c2 = c2
  NoObject = NoObject
  NoConn = NoConn
  Null = Null
  Word = 6
  Addr = {a1, a2}
  Workers = {w1, w2}
  Conns = {c1, c2}
  Limits <- MCLimits
  InitialSize = 1
  InitialMax = 2
  MaxResizes = 1
  MaxThrows = 1
  MaxFailed = 1
CHECK_DEADLOCK FALSE
SYMMETRY Interchangeable
INVARIANTS
  TypeOK
  Filtered
  OwnAnswerUntilTorn
  Settled
PROPERTY
  UsesEachPool
