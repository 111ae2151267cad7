---------------------------- MODULE DiskUsage ----------------------------
(***************************************************************************)
(* The cached disk usage report of pdcs/disk_usage.go: updateDiskUsage, run *)
(* by StartDiskUsageTicker before the exporter serves and then at each      *)
(* tick, and the calls of DiskUsageSummary that scrapes make.               *)
(*                                                                          *)
(* The refresh asks podman without the lock and takes the lock to store     *)
(* what it found: the summary, or the error in its place.  A call is over   *)
(* within the lock: it returns the report of one state and changes nothing. *)
(***************************************************************************)
EXTENDS Integers

CONSTANTS
  MaxVer,  \* bound: versions of podman's disk usage
  Err      \* updateErr # nil, or a df that failed

ASSUME DiskAssumption == MaxVer \in Nat \ {0} /\ Err \notin 0..MaxVer

VARIABLES
  ver,      \* version of podman's disk usage
  rep,      \* diskUsageRep: the version it shows, 0 before the first, or Err
  newest,   \* ghost: newest version diskUsageRep has shown
  upc,      \* where the refresh is
  found,    \* what podman answered it
  tick,     \* ticker.C holds a tick
  start     \* where exporter.Start is: in the first "refresh", before it gets to
            \* "listen", or it lets the server "serve"

vars == <<ver, rep, newest, upc, found, tick, start>>

Init ==
  /\ ver = 1 /\ rep = 0 /\ newest = 0
  /\ upc = "list" /\ found = 0 /\ tick = FALSE /\ start = "refresh"

\* Images are pulled, containers write, volumes are created.
Change ==
  /\ ver < MaxVer
  /\ ver' = ver + 1
  /\ UNCHANGED <<rep, newest, upc, found, tick, start>>

\* SystemDf answers
List ==
  /\ upc = "list"
  /\ found' = ver /\ upc' = "store"
  /\ UNCHANGED <<ver, rep, newest, tick, start>>

ListFails ==
  /\ upc = "list"
  /\ found' = Err /\ upc' = "store"
  /\ UNCHANGED <<ver, rep, newest, tick, start>>

\* mutants: the error is not set, only the summary cleared; it is not cleared;
\* a listing that failed leaves the report as it was
StoreCleared ==
  /\ upc = "store"
  /\ rep' = (IF found = Err THEN 0 ELSE found)
  /\ newest' = (IF found = Err THEN newest ELSE found)
  /\ upc' = "wait"
  /\ UNCHANGED <<ver, found, tick, start>>
StoreSticky ==
  /\ upc = "store"
  /\ rep' = (IF rep = Err THEN Err ELSE found)
  /\ newest' = (IF found = Err THEN newest ELSE found)
  /\ upc' = "wait"
  /\ UNCHANGED <<ver, found, tick, start>>

StoreKept ==
  /\ upc = "store"
  /\ rep' = (IF found = Err THEN rep ELSE found)
  /\ newest' = (IF found = Err THEN newest ELSE found)
  /\ upc' = "wait"
  /\ UNCHANGED <<ver, found, tick, start>>

\* ... and the report is replaced, by the summary or by the error
Store ==
  /\ upc = "store"
  /\ rep' = found
  /\ newest' = (IF found = Err THEN newest ELSE found)
  /\ upc' = "wait"
  /\ UNCHANGED <<ver, found, tick, start>>

\* The first updateDiskUsage has returned to StartDiskUsageTicker, whatever it
\* stored: the ticker is made and its goroutine started.
StartTicker ==
  /\ start = "refresh" /\ upc = "wait"
  /\ start' = "listen"
  /\ UNCHANGED <<ver, rep, newest, upc, found, tick>>

\* Start goes on and serves.
Serve ==
  /\ start = "listen"
  /\ start' = "serve"
  /\ UNCHANGED <<ver, rep, newest, upc, found, tick>>

\* The ticker drops a tick when the last one is not taken yet.
Tick ==
  /\ start # "refresh" /\ ~tick
  /\ tick' = TRUE
  /\ UNCHANGED <<ver, rep, newest, upc, found, start>>

TakeTick ==
  /\ upc = "wait" /\ tick
  /\ tick' = FALSE /\ upc' = "list"
  /\ UNCHANGED <<ver, rep, newest, found, start>>

\* what a scrape is returned
DiskUsageSummary == rep

Next ==
  \/ Change \/ List \/ ListFails \/ Store \/ StartTicker \/ Serve \/ Tick \/ TakeTick

Spec == Init /\ [][Next]_vars

\* podman answers, and not always with an error; scrapes need not come.
FairSpec ==
  /\ Spec
  /\ WF_vars(List \/ ListFails) /\ SF_vars(List)
  /\ WF_vars(Store) /\ WF_vars(StartTicker) /\ WF_vars(Tick) /\ WF_vars(TakeTick)

-----------------------------------------------------------------------------
(* Properties                                                                *)

\* Every variable holds a value of its kind; what a refresh found and has not
\* stored yet is not older than what the report has shown
\* (pdcs/disk_usage.go:44-59).
TypeOK ==
  /\ ver \in 1..MaxVer /\ rep \in 0..MaxVer \cup {Err} /\ newest \in 0..ver
  /\ upc \in {"list", "store", "wait"} /\ found \in 0..MaxVer \cup {Err}
  /\ tick \in BOOLEAN /\ start \in {"refresh", "listen", "serve"}
  /\ upc = "store" => found = Err \/ (found \in 1..ver /\ newest <= found)
  /\ rep # Err => rep = newest

\* diskUsageRep is a cached report: podman's disk usage of one moment, never of
\* an earlier one than it has shown, or an error (pdcs/disk_usage.go:33-59).
Report == INSTANCE ReportCache WITH ver <- ver, rep <- rep, newest <- newest
ReportSpec == Report!Spec

\* No scrape is given the report of before the first refresh, the zero DiskUsage
\* that would read as an empty disk, also when podman's first answer is an error:
\* Start does not get past StartDiskUsageTicker before updateDiskUsage has
\* returned, and every way through updateDiskUsage replaces the report
\* (pdcs/disk_usage.go:44-59, 111; exporter/exporter.go:104, 118).
NeverZero == start = "serve" => DiskUsageSummary # 0

\* A version of podman's disk usage gets into the report, it or a newer one,
\* although ticks may be dropped and refreshes may fail.
UsageArrives == \A v \in 1..MaxVer : ver = v ~> DiskUsageSummary # Err /\ DiskUsageSummary >= v
=============================================================================
