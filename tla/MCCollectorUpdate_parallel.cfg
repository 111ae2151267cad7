\* Labels converted, two scrapes in parallel: a panic.
CONSTANTS
  Scrapes = {s1, s2}
  Requests <- Plain
  Objects = {"web", "db"}
  ReportLists <- AllLists
  Groups <- ContainerGroups
  StatsGroup = 3
  FullDesc <- ContainerFull
  ShortDesc <- ContainerShort
  PodmanLabels <- LabelledObjects
  Lower <- LowerNames
  Sanitize <- SanitizedNames
  Reserved = {"__name__"}
  StoreLabels = TRUE
  Whitelist <- NoWhitelist
  EnhanceAll = TRUE
  MaxRequests = 40
SYMMETRY Sym
SPECIFICATION Spec
INVARIANTS NoPanic
