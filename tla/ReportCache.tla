--------------------------- MODULE ReportCache ---------------------------
(***************************************************************************)
(* What a cached report of podman promises its readers: pdcs.Images() and  *)
(* pdcs.DiskUsageSummary() return what podman had at one moment, and never *)
(* go back to an older moment, or they return an error; before the first   *)
(* refresh they return nothing.  The state of podman is represented by its *)
(* version.                                                                *)
(***************************************************************************)
EXTENDS Integers

CONSTANTS
  MaxVer,  \* bound: versions of podman's state
  Err      \* the report is an error; not a version

VARIABLES
  ver,    \* version of podman's state
  rep,    \* the report: the version it shows, 0 before the first, or Err
  newest  \* newest version a report has shown

Init == ver \in 1..MaxVer /\ rep = 0 /\ newest = 0

\* podman's state changes.
Change ==
  /\ ver < MaxVer
  /\ ver' = ver + 1
  /\ UNCHANGED <<rep, newest>>

\* A refresh stores what it found; it looked some time ago, but not before an
\* earlier refresh did.
Store == \E v \in 1..ver : v >= newest /\ rep' = v /\ newest' = v

\* A refresh finds out nothing.
StoreErr == rep' = Err /\ UNCHANGED newest

Refresh == (Store \/ StoreErr) /\ UNCHANGED ver

Next == Change \/ Refresh

Spec == Init /\ [][Next]_<<ver, rep, newest>>
=============================================================================
