SPECIFICATION Spec
CONSTANTS
  Texts <- MCTexts
  Chars <- MCChars
  Utf8 <- MCUtf8
  Septets <- MCSeptets
  Ucs2 <- MCUcs2
  Upto <- MCUpto
  Limit <- MCLimit
  Header <- MCHeader
  Cont = "-"
  MaxChars = 4
  CsmsMod = 2
  CharMod = 4
  MaxCounter = 3
  MaxSeptets = 5
  MaxOctets = 8
INVARIANT TypeOK
INVARIANT CutsInside
INVARIANT PartsFit
INVARIANT Fewest
PROPERTY Implements
PROPERTY Ends
CHECK_DEADLOCK FALSE
