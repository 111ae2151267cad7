\* Two scrapes in parallel; the one whitelisted label is on every container, so all
\* have one label list.
CONSTANTS
  Scrapes = {s1, s2}
  Requests <- Both
  Objects = {"web", "db"}
  ReportLists <- OneOrTwo
  Groups <- ContainerGroups
  StatsGroup = 3
  FullDesc <- ContainerFull
  ShortDesc <- ContainerShort
  PodmanLabels <- SharedLabelObjects
  Lower <- LowerNames
  Sanitize <- SanitizedNames
  Reserved = {"__name__"}
  StoreLabels = FALSE
  Whitelist <- AppOnly
  EnhanceAll = FALSE
  MaxRequests = 1
SYMMETRY Sym
SPECIFICATION Spec
INVARIANTS TypeOK NoPanic OwnLabels ScrapeWhole
