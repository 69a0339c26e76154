SPECIFICATION Spec
CONSTANTS
  n1 = n1
  n2 = n2
  bad = bad
  short = short
  long = long
  c1 = c1
  c2 = c2
  Numbers = {n1, n2}
  BadNumbers = {}
  Texts = {short, long}
  Length <- MCLength
  SplitsOf <- MCSplitsOf
  Codes = {c1}
  Refs = {0, 1}
  ByteMax = 2
  NoValue = NoValue
  MaxFragments = 2
  HasPin = FALSE
  HasPowerPin = FALSE
  Lines <- ReadLines
  Api = {"send_ussd", "send_at", "set_debug", "restart"}
  Patient = TRUE
INVARIANT TypeOK PduMode
PROPERTY FromSender
