SPECIFICATION Spec
CONSTANTS
  n1 = n1
  p1 = p1
  p2 = p2
  a1 = a1
  h1 = h1
  h2 = h2
  Paths = {p1, p2}
  Agents = {a1}
  Ips = {i1}
  Asns = {n1}
  NoAgent = NoAgent
  NoIp = NoIp
  NoAsn = NoAsn
  AsnOf <- OneAsn
  Headers = {h1, h2}
  NoHeader = NoHeader
  Ids = {r1, r2}
  Conns = {c1, c2}
  Closed = Closed
  Clients <- SomeClients
  Services <- PreflightServices
  Gates <- OnlyPreflight
SYMMETRY Symmetric
INVARIANTS
  UnwantedAsnsAreSpam
