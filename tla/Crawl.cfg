SPECIFICATION Spec
CONSTANTS
  bot = bot
  mask = mask
  friend = friend
  Paths <- MCEntryPaths
  Tokens <- MCTokens
  EntryPaths <- MCEntryPaths
  Agents = {bot, mask, friend}
  Unwanted = {bot}
  Trusted = {friend}
  Ips = {}
  Asns = {}
  Headers = {}
  AsnOf <- NoAsns
  NoAgent = NoAgent
  NoIp = NoIp
  NoAsn = NoAsn
  NoHeader = NoHeader
  NoPage = NoPage
  TrustedPath <- MCTrustedPath
  Configs <- MCConfigs
  MaxPath = 11
INVARIANTS
  ReferencesLeadToSpam
  PagesBehindLinksAreLeaves
  ResourcesKeepTheirType
