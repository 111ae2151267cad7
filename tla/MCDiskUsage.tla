--------------------------- MODULE MCDiskUsage ---------------------------
(* Instances of DiskUsage and of the sums of DiskSummary: all lists of up to *)
(* four tags of two images, used or not, and of up to two containers and     *)
(* two volumes.                                                              *)
EXTENDS DiskSummary

Report0 == [imagesSize |-> 8, images |-> << >>, containers |-> << >>, volumes |-> << >>]
ImageIDs == {"i1", "i2"}
ImageReports(n) ==
  {[Report0 EXCEPT !.images =
      [i \in DOMAIN tags |->
         [id |-> tags[i], containers |-> used[tags[i]], unique |-> unique[tags[i]]]]] :
     tags \in [1..n -> ImageIDs], used \in [ImageIDs -> 0..1], unique \in [ImageIDs -> 1..2]}
OtherReports ==
  {[Report0 EXCEPT !.containers = list] :
     list \in SeqOf([status : {"running", "exited"}, rw : 1..2], 2)}
  \cup {[Report0 EXCEPT !.volumes = list] :
     list \in SeqOf({[size |-> 3, reclaimable |-> 0], [size |-> 2, reclaimable |-> 2]}, 2)}

\* version v has v - 1 tags of images, the last has containers or volumes instead
SmallReports == [v \in 1..MaxVer |-> IF v < MaxVer THEN ImageReports(v - 1) ELSE OtherReports]
=============================================================================
