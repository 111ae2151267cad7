\* All collectors: what the container collector calls a success.
CONSTANTS
  Requests = {r1}
  Objects = {web}
  Registered = {"container", "pod", "image", "volume", "network", "system", "disk_usage"}
  CommandLines <- Lines
  Answers <- PodmanAnswers
  ImagesOf <- PodmanImages
  MaxVer = 2
  Err = err
  web = web
  vol = vol
  net = net
  pod = pod
SPECIFICATION Spec
INVARIANTS SuccessHonest
CHECK_DEADLOCK FALSE
