SPECIFICATION Spec
CHECK_DEADLOCK FALSE
CONSTANTS
  Center <- MCCenter
  Requests <- MCRequests
  Followed <- MCFollowed
  Messages <- OnlyRef16
  Garbage = {0, 127}
INVARIANT PartsReadBack
