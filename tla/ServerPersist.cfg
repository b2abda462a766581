SPECIFICATION Spec
CONSTANTS
  t1 = t1
  t2 = t2
  u1 = u1
  p = p
  q = q
  c1 = c1
  c2 = c2
  NoConfig = NoConfig
  NoAddr = NoAddr
  NoPath = NoPath
  Configs <- PersistConfigs
  TcpAddrs = {t1, t2}
  UnixAddrs = {u1}
  Paths = {p, q}
  Conns = {c1, c2}
  MaxBuilds = 2
  MaxTally = 2
SYMMETRY ConnSymmetry
INVARIANTS
  TypeOK
  OneTally
PROPERTIES
  CountsAreKept
  ImplementsContract
