\* An image pulled before the subscription.
CONSTANTS
  UpdateImage = TRUE
  MaxVer = 2
  MaxGen = 2
  MaxStream = 2
  Err = err
  Other = other
  Bad = bad
SPECIFICATION FairSpec
PROPERTIES ImageSeen
CHECK_DEADLOCK FALSE
