\* From the command line to scrapes against refreshes of the caches.
CONSTANTS
  Requests = {r1, r2}
  Objects = {web}
  Registered = {"container", "pod", "image", "volume", "network", "disk_usage"}
  CommandLines <- Lines
  Answers <- PodmanAnswers
  ImagesOf <- PodmanImages
  MaxVer = 1
  Err = err
  web = web
  vol = vol
  net = net
  pod = pod
SPECIFICATION FairSpec
INVARIANTS TypeOK ResponseWhole NoDuplicates SourcesReady
PROPERTIES StartEnds Answered ImagesArrive ReportsForward ScrapeSpec
CHECK_DEADLOCK FALSE
