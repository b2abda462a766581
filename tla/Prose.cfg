SPECIFICATION Spec
CONSTANTS
  Chars = {"space", "a", "A", "Eacute", ".", ",", "(", "rdquo"}
  MaxLength = 5
  MaxEmpty = 1
CHECK_DEADLOCK FALSE
INVARIANTS
  NothingLost
  OnlySentenceCapitalsAreLost
  InternedWordsAreWords
  WellSet
  OrderlyTextComesBack
  ParagraphEndsWithSentence
