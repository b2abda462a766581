SPECIFICATION Spec
CONSTANTS
  a = a
  b = b
  comma = comma
  stop = stop
  Words = {a, b, comma, stop}
  Null = Null
  Jump = Jump
  JoinBefore = {comma, stop}
  Endings = {stop}
  Texts <- SmallTexts
  WordCounts = {0, 2}
  ParaCounts = {2}
INVARIANTS
  MapIsTrigrams
  QuotesCorpus
  NeverStarved
  SkipCanEnd
