SPECIFICATION FairSpec
CONSTANTS
  t1 = t1
  t2 = t2
  u1 = u1
  p = p
  q = q
  c1 = c1
  c2 = c2
  NoConfig = NoConfig
  NoAddr = NoAddr
  NoPath = NoPath
  Configs <- ReloadConfigs
  TcpAddrs = {t1, t2}
  UnixAddrs = {u1}
  Paths = {p, q}
  Conns = {c1}
  MaxBuilds = 3
  MaxTally = 0
INVARIANTS
  EarsMatchConfig
  SerialReloadsAreFresh
PROPERTIES
  ShutdownCompletes
  HupHandled
  SendersGetThrough
