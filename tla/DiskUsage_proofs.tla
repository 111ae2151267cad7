------------------------- MODULE DiskUsage_proofs -------------------------
(***************************************************************************)
(* DiskUsage is type correct, never shows a report before the first, and   *)
(* implements ReportCache.  TypeOK is inductive as it stands, and with it  *)
(* Refreshed, of which NeverZero is a consequence.                         *)
(***************************************************************************)
EXTENDS DiskUsage, TLAPS

\* The initial state is type correct.
LEMMA TypeInit == Init => TypeOK
<1> SUFFICES ASSUME Init PROVE TypeOK
  OBVIOUS
<1>1. MaxVer \in Nat /\ MaxVer > 0
  BY DiskAssumption DEF DiskAssumption
<1>2. ver \in 1..MaxVer /\ rep \in 0..MaxVer /\ newest \in 0..ver /\ found \in 0..MaxVer
  BY <1>1 DEF Init
<1>3. tick \in BOOLEAN /\ start \in {"refresh", "listen", "serve"}
  BY DEF Init
<1> QED
  BY <1>2, <1>3 DEF Init, TypeOK

\* A refresh that has ended has left a report or an error, and nothing takes it
\* away; until the first has, there is no ticker and Start has not gone on.
Refreshed ==
  /\ upc = "wait" \/ start # "refresh" => rep # 0
  /\ tick => start # "refresh"

\* NeverZero follows from where Start is.
LEMMA RefreshedNotZero == Refreshed => NeverZero
  BY DEF Refreshed, NeverZero, DiskUsageSummary

LEMMA FirstInv == Init => TypeOK /\ Refreshed
  BY TypeInit DEF Init, Refreshed

\* Every step keeps TypeOK and Refreshed, and is a step of ReportCache or leaves
\* its variables alone.
LEMMA Steps ==
  TypeOK /\ Refreshed /\ [Next]_vars =>
    TypeOK' /\ Refreshed' /\ [Report!Next]_<<ver, rep, newest>>
<1> SUFFICES ASSUME TypeOK, Refreshed, [Next]_vars
             PROVE  TypeOK' /\ Refreshed' /\ [Report!Next]_<<ver, rep, newest>>
  OBVIOUS
<1> USE DiskAssumption DEF DiskAssumption, TypeOK, Refreshed
<1>1. CASE Change
  BY <1>1 DEF Change, Report!Next, Report!Change
<1>2. CASE List
  BY <1>2 DEF List
<1>3. CASE ListFails
  BY <1>3 DEF ListFails
<1>4. CASE Store
  <2>1. TypeOK' /\ Refreshed'
    BY <1>4 DEF Store
  <2>2. CASE found = Err
    BY <1>4, <2>2 DEF Store, Report!Next, Report!Refresh, Report!StoreErr
  <2>3. CASE found # Err
    <3>1. found \in 1..ver /\ found >= newest /\ rep' = found /\ newest' = found /\ ver' = ver
      BY <1>4, <2>3 DEF Store
    <3>2. Report!Refresh
      BY <3>1 DEF Report!Refresh, Report!Store
    <3> QED
      BY <2>1, <3>2 DEF Report!Next
  <2> QED
    BY <2>1, <2>2, <2>3
<1>5. CASE StartTicker
  BY <1>5 DEF StartTicker
<1>6. CASE Serve
  BY <1>6 DEF Serve
<1>7. CASE Tick
  BY <1>7 DEF Tick
<1>8. CASE TakeTick
  BY <1>8 DEF TakeTick
<1>9. CASE UNCHANGED vars
  BY <1>9 DEF vars
<1> QED
  BY <1>1, <1>2, <1>3, <1>4, <1>5, <1>6, <1>7, <1>8, <1>9 DEF Next

\* The disk usage cache is type correct, and what a refresh found and has not
\* stored yet is not older than the report (pdcs/disk_usage.go:44-59).
THEOREM DiskTypeCorrect == Spec => []TypeOK
<1>1. Init => TypeOK /\ Refreshed
  BY FirstInv
<1>2. TypeOK /\ Refreshed /\ [Next]_vars => TypeOK' /\ Refreshed'
  BY Steps
<1> QED
  BY <1>1, <1>2, PTL DEF Spec

\* No scrape is given the zero report of before the first refresh: the server is
\* up only after updateDiskUsage has returned, and every way through it stores a
\* report or an error (pdcs/disk_usage.go:44-59, 111; exporter/exporter.go:104, 118).
THEOREM NoZeroReport == Spec => []NeverZero
<1>1. Init => TypeOK /\ Refreshed
  BY FirstInv
<1>2. TypeOK /\ Refreshed /\ [Next]_vars => TypeOK' /\ Refreshed'
  BY Steps
<1> QED
  BY <1>1, <1>2, RefreshedNotZero, PTL DEF Spec

\* The disk usage cache implements the cached report: one moment's usage, never
\* an earlier one's than shown before, or an error (pdcs/disk_usage.go:33-59).
THEOREM DiskImplementsReport == Spec => ReportSpec
<1>1. Init => TypeOK /\ Refreshed
  BY FirstInv
<1>2. TypeOK /\ Refreshed /\ [Next]_vars =>
        TypeOK' /\ Refreshed' /\ [Report!Next]_<<ver, rep, newest>>
  BY Steps
<1>3. Init => Report!Init
  BY DiskAssumption DEF DiskAssumption, Init, Report!Init
<1> QED
  BY <1>1, <1>2, <1>3, PTL DEF Spec, ReportSpec, Report!Spec
=============================================================================
