\* An event podman cannot decode.
CONSTANTS
  UpdateImage = TRUE
  MaxVer = 2
  MaxGen = 2
  MaxStream = 2
  Err = err
  Other = other
  Bad = bad
SPECIFICATION Spec
INVARIANTS NoPanic
CHECK_DEADLOCK FALSE
