\* A refresh that fails, and those after it.
CONSTANTS
  Containers = {c1}
  Readers = {r1}
  MaxVer = 2
  None = none
  Free = free
  Updater = updater
  Ports = 8
  MappingLists <- NoMappings
  MappingsOf <- Unmapped
SPECIFICATION FairSpec
PROPERTIES ErrorClears
CHECK_DEADLOCK FALSE
