\* Refreshes against changes of podman's disk usage.
CONSTANTS
  MaxVer = 6
  Err = err
  DfReports <- SmallReports
SPECIFICATION FairSpec
INVARIANTS TypeOK NeverZero SummaryRight
PROPERTIES ReportSpec UsageArrives
