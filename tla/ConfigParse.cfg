SPECIFICATION Spec
CONSTANTS
  Addresses = {"unix:a", "[::]:1"}
  HeaderNames = {"a"}
  Levels = {"a"}
  FirstChar <- MCFirstChar
  Refused = Refused
  Unset = Unset
  Panicked = Panicked
  MaxU16 = 65535
  MaxU32 = 100000
  MaxUsize = 100
  Sections = {"server", "classifier", "garbage", "logging", "metrics"}
  Blocks <- MCBlocks
  LinesOf <- MCLines
  NestedOf <- MCNested
  MaxNodes = 4
CHECK_DEADLOCK FALSE
INVARIANTS
  NumbersAsWritten
  ParserDoesNotPanic
PROPERTIES
  EditsAreLocal
  RefusalIsFinal
