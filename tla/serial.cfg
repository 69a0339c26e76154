SPECIFICATION Spec
CHECK_DEADLOCK FALSE
CONSTANTS
  READ_BUFFER_LENGTH = 2
  Plain = {}
  Word = 12
  Gap = 2
  rx_timeout = 2
  idle_timeout = 3
  modem_init_timeout = 5
  power_blink = 1
  MaxClock = 26
  MaxLine = 3
INVARIANT TypeOK NotLate PinReleased
PROPERTY LinesWhole NotEarly ImplementsChannel
