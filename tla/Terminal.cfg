SPECIFICATION Spec
CHECK_DEADLOCK FALSE
CONSTANTS
  HoursPerDay = 2
  MinutesPerHour = 3
  SecondsPerMinute = 2
  NanosPerSecond = 3
  FirstYear = 1596
  LastYear = 2405
  Watched = {1600, 1700, 1899, 1900, 1904, 1969, 1970, 1972, 1999, 2000, 2001, 2100, 2399, 2400}
  MaxLength = 9
  MaxOdd = 2
INVARIANTS
  StampIsCalendar
  CaretsUnderSpan
  ShowsTheLinesAround
