---------------------------- MODULE DiskSummary ----------------------------
(***************************************************************************)
(* The sums of pdcs/disk_usage.go: what summarizeDiskUsage makes of the    *)
(* report of podman's SystemDf, which has an entry for each tag of an      *)
(* image, one for each container and one for each volume.                  *)
(***************************************************************************)
EXTENDS DiskUsage, Sequences, SequencesExt

CONSTANT DfReports  \* [version of the disk usage -> what podman may report of it]

\* What podman says of an image it computes once and repeats for each of its tags;
\* a volume is reclaimable as a whole or not at all.
DfReport ==
  {r \in [imagesSize : Int,
          images : Seq([id : STRING, containers : Nat, unique : Nat]),
          containers : Seq([status : STRING, rw : Nat]),
          volumes : Seq([size : Nat, reclaimable : Nat])] :
     /\ \A i, j \in DOMAIN r.images : r.images[i].id = r.images[j].id => r.images[i] = r.images[j]
     /\ \A i \in DOMAIN r.volumes : r.volumes[i].reclaimable \in {0, r.volumes[i].size}}

ASSUME DfReportsAssumption == DfReports \in [1..MaxVer -> SUBSET DfReport]

Total(numbers) == FoldLeft(LAMBDA sum, n : sum + n, 0, numbers)

\* mutant: the image is counted for each of its tags
imageReclaimableTags(images, imagesSize) ==
  imagesSize - Total([i \in DOMAIN images |->
                        IF images[i].containers > 0 THEN images[i].unique ELSE 0])

\* The loop over the images: the first entry of an image counts, if a container
\* uses it.
NothingVisited == [visited |-> {}, used |-> 0]
Visit(acc, image) ==
  IF image.id \in acc.visited THEN acc
  ELSE [visited |-> acc.visited \cup {image.id},
        used |-> acc.used + (IF image.containers > 0 THEN image.unique ELSE 0)]

\* the images that no container uses
imageReclaimable(images, imagesSize) ==
  imagesSize - FoldLeft(Visit, NothingVisited, images).used

summarizeDiskUsage(report) ==
  LET ofContainers(keep(_)) ==
        Total([i \in DOMAIN report.containers |->
                 IF keep(report.containers[i]) THEN report.containers[i].rw ELSE 0])
      ofVolumes(size(_)) ==
        Total([i \in DOMAIN report.volumes |-> size(report.volumes[i])])
  IN  [imagesSize |-> report.imagesSize,
       imagesReclaimable |-> imageReclaimable(report.images, report.imagesSize),
       containersSize |-> ofContainers(LAMBDA c : TRUE),
       containersReclaimable |-> ofContainers(LAMBDA c : c.status # "running"),
       volumesSize |-> ofVolumes(LAMBDA v : v.size),
       volumesReclaimable |-> ofVolumes(LAMBDA v : v.reclaimable)]

-----------------------------------------------------------------------------
\* What summarizeDiskUsage should make of a report, in terms of the images and
\* containers there are.
UsedImages(images) == {images[i].id : i \in {k \in DOMAIN images : images[k].containers > 0}}
UniqueSize(images, id) == (CHOOSE i \in Range(images) : i.id = id).unique
Right(report) ==
  LET s == summarizeDiskUsage(report)
      rw == [k \in DOMAIN report.containers |-> report.containers[k].rw]
      running == {k \in DOMAIN report.containers : report.containers[k].status = "running"}
  IN  /\ s.imagesSize - s.imagesReclaimable
           = SumFunction([id \in UsedImages(report.images) |-> UniqueSize(report.images, id)])
      /\ s.containersReclaimable = SumFunctionOnSet(rw, DOMAIN rw \ running)
      /\ s.containersSize - s.containersReclaimable = SumFunctionOnSet(rw, running)
      /\ s.volumesReclaimable <= s.volumesSize
WellSummed == {v \in 1..MaxVer : \A report \in DfReports[v] : Right(report)}

\* The sums a scrape is shown are those of podman's report: the part of an image
\* that only it has is not reclaimable while a container uses it, under whichever
\* of its tags the container was made (pdcs/disk_usage.go:61-104,
\* pdcs/disk_usage_test.go:13-41).
SummaryRight == DiskUsageSummary \in 1..MaxVer => DiskUsageSummary \in WellSummed
=============================================================================
