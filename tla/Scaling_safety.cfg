SPECIFICATION Spec
CONSTANTS
  a1 = a1
  a2 = a2
  a3 = a3
  a4 = a4
  t1 = t1
  t2 = t2
  NoObject = NoObject
  NoSnapshot = NoSnapshot
  Addr = {a1, a2, a3, a4}
  Threads = {t1, t2}
  Limits <- ValidLimits
  StartLimits <- AnyLimits
  Loads <- MCLoads
  Null = Null
  Word = 6
  InitialSize = 2
  InitialMax = 4
  MaxLost = 1
  MaxFailed = 1
SYMMETRY Interchangeable
INVARIANTS
  WithinLimits
  PoolUseTypeOK
  Ledger
  ExclusiveUntilTorn
  RoomForEveryThread
PROPERTIES
  OnlyOperatorsRaise
  ImplementsPoolUse
