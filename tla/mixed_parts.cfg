SPECIFICATION Spec
CONSTANTS
  n1 = n1
  n2 = n2
  bad = bad
  short = short
  long = long
  c1 = c1
  c2 = c2
  Numbers = {n1, n2}
  BadNumbers = {}
  Texts = {short, long}
  Length <- MCLength
  SplitsOf <- MCSplitsOf
  Codes = {}
  Refs = {0, 1}
  ByteMax = 1
  NoValue = NoValue
  MaxFragments = 1
  HasPin = FALSE
  HasPowerPin = FALSE
  Lines <- SendLines
  Api = {"send_sms"}
  Patient = FALSE
INVARIANT ContinuesMessage
