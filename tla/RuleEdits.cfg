SPECIFICATION EditsSpec
CONSTANTS
  n1 = n1
  Paths = {p1, p2}
  Agents = {a1, a2}
  Ips = {i1}
  Asns = {n1}
  NoAgent = NoAgent
  NoIp = NoIp
  NoAsn = NoAsn
  AsnOf <- OneAsn
  Headers = {h1}
  NoHeader = NoHeader
INVARIANTS
  PoisonIsFinal
PROPERTIES
  RulesPullOneWay
