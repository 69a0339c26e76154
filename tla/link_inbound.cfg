SPECIFICATION FairLinkSpec
CONSTANTS
  n1 = n1
  n2 = n2
  bad = bad
  short = short
  long = long
  c1 = c1
  Numbers = {n1, n2}
  BadNumbers = {}
  Texts = {short, long}
  Length <- MCLength
  SplitsOf <- MCSplitsOf
  Codes = {}
  Refs = {0, 1}
  ByteMax = 3
  NoValue = NoValue
  MaxFragments = 2
  HasPin = TRUE
  HasPowerPin = TRUE
  Lines <- Line
  Api = {"connect", "disconnect"}
  Patient = TRUE
  Inbound <- MCTwo
  Slots = 2
  MaxCalls = 1
  StartsOff = TRUE
  Locked = TRUE
  BusySim = FALSE
  MaxLate = 0
INVARIANT NoDuplicates
PROPERTY HandledEventually PinOnce ComesUp CallEndNoticed
