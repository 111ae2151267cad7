\* Two calls at a time against refreshes of a container whose size changes.
CONSTANTS
  Containers = {c1}
  Readers = {r1, r2}
  MaxVer = 2
  None = none
  Free = free
  Updater = updater
  Ports = 8
  MappingLists <- Mappings
  MappingsOf <- AnyMappings
SPECIFICATION FairSpec
INVARIANTS TypeOK FreshSizes MonotoneSizes PortsRight
PROPERTIES CallReturns SizesArrive
CHECK_DEADLOCK FALSE
