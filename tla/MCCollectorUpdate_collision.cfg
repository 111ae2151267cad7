\* Two podman labels with one sanitised name, a single scrape: a panic.
CONSTANTS
  Scrapes = {s1}
  Requests <- Plain
  Objects = {"web", "db"}
  ReportLists <- AllLists
  Groups <- ContainerGroups
  StatsGroup = 3
  FullDesc <- ContainerFull
  ShortDesc <- ContainerShort
  PodmanLabels <- CollidingObjects
  Lower <- LowerNames
  Sanitize <- SanitizedNames
  Reserved = {"__name__"}
  StoreLabels = TRUE
  Whitelist <- NoWhitelist
  EnhanceAll = FALSE
  MaxRequests = 1
SYMMETRY Sym
SPECIFICATION Spec
INVARIANTS NoPanic
