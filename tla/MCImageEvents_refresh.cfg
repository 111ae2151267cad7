\* Image events, streams that end and are restored, subscriptions that fail.
CONSTANTS
  UpdateImage = TRUE
  MaxVer = 4
  MaxGen = 3
  MaxStream = 2
  Err = err
  Other = other
  Bad = bad
SPECIFICATION FairSpec
INVARIANTS TypeOK OwnChannel Attended
PROPERTIES ReportSpec EventsArrive StreamRestored ErrorsEndProcess
CHECK_DEADLOCK FALSE
