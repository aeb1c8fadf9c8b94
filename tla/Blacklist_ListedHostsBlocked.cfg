SPECIFICATION Spec
CONSTANTS
  w1 = w1
  w2 = w2
  h1 = h1
  h2 = h2
  NoHost = NoHost
  NoFlag = NoFlag
  Workers = {w1, w2}
  Hosts = {h1, h2}
  Configs <- MCConfigs
  MaxReloads = 1
INVARIANT
  ListedHostsBlocked
