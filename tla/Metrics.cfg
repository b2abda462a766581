SPECIFICATION ScrapeSpec
CONSTANTS
  Hosts <- MCHosts
  Agents = {a1}
  NoAgent = NoAgent
  Asns = {n1}
  NoAsn = NoAsn
  Types = {html}
  Accepts <- MCAccepts
  MaxRequests = 2
INVARIANTS
  EveryRequestClassified
  FileIsWhole
  SessionMapsAgree
  AsnsMatchReasons
  ScrapeReadsBack
