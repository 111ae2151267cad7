\* A lookup during a write of the map.
CONSTANTS
  Containers = {c1}
  Readers = {r1}
  MaxVer = 3
  None = none
  Free = free
  Updater = updater
  Ports = 8
  MappingLists <- NoMappings
  MappingsOf <- Unmapped
SYMMETRY Sym
SPECIFICATION Spec
INVARIANTS NoFatal
CHECK_DEADLOCK FALSE
