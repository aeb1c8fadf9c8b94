SPECIFICATION Spec
CONSTANTS
  w1 = w1
  w2 = w2
  c1 = c1
  c2 = c2
  Nobody = Nobody
  NoPacket = NoPacket
  Garbage = Garbage
  Workers = {w1, w2}
  Conns = {c1, c2}
  CountMod = 8
  MaxUpdates = 1
CHECK_DEADLOCK FALSE
INVARIANT
  ProcessingResumes
