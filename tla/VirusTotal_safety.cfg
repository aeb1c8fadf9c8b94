SPECIFICATION Spec
CONSTANTS
  w1 = w1
  w2 = w2
  k1 = k1
  k2 = k2
  Workers = {w1, w2}
  Keys = {k1, k2}
  Hosts <- MCHosts
  Settings <- MCSettings
  StartSettings <- MCStartSettings
  Quota = 1
  MaxReloads = 1
CHECK_DEADLOCK FALSE
INVARIANTS
  TypeOK
  ReplyDecides
  UnaskedOnlyIfOffOrKeyless
  AskedAsConfigured
