SPECIFICATION Spec
CHECK_DEADLOCK FALSE
CONSTANTS
  Center <- MCCenter
  Requests <- MCRequests
  Followed <- MCFollowed
  Messages <- MCMessages
  Garbage = {0, 127}
INVARIANT SentAsWritten TempbufFits TextReceived HeaderReceived FailureEmpties
