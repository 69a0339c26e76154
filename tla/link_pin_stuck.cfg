SPECIFICATION FairLinkSpec
CONSTANTS
  n1 = n1
  n2 = n2
  bad = bad
  short = short
  long = long
  c1 = c1
  Numbers = {n1, n2}
  BadNumbers = {}
  Texts = {short, long}
  Length <- MCLength
  SplitsOf <- MCSplitsOf
  Codes = {}
  Refs = {0, 1}
  ByteMax = 3
  NoValue = NoValue
  MaxFragments = 2
  HasPin = TRUE
  HasPowerPin = FALSE
  Lines <- Line
  Api = {}
  Patient = TRUE
  Inbound <- NoInbound
  Slots = 1
  MaxCalls = 0
  StartsOff = FALSE
  Locked = TRUE
  BusySim = TRUE
  MaxLate = 0
PROPERTY ComesUp
