---------------------- MODULE CollectorUpdate_proofs ----------------------
(***************************************************************************)
(* Proofs about CollectorUpdate.  For any number of scrapes, objects and   *)
(* fields, no panic occurs and every series carries its own label names    *)
(* when no two labels of an object collide and either all objects have one *)
(* and the same label list, or one request is served at a time; without    *)
(* any condition a scrape sends all it owes or, if it fails, nothing.      *)
(***************************************************************************)
EXTENDS CollectorUpdate, FiniteSetTheorems, TLAPS

\* no descriptor Update can build is refused by prometheus.NewDesc
NoCollision ==
  /\ ValidDesc(ShortDesc)
  /\ \A o \in Objects : \A i \in ObjectLabels(o) : ValidDesc(i.labels)

\* all objects have one label list, in one order
OneLabelList ==
  \A o, p \in Objects : \A i \in ObjectLabels(o), j \in ObjectLabels(p) : i.labels = j.labels

OneAtATime == MaxRequests = 1 /\ Requests = {"plain"}

Safe == NoCollision /\ (OneLabelList \/ OneAtATime)

-----------------------------------------------------------------------------
(* The inductive invariant, about the locals r of one Update and the shared   *)
(* descriptors d                                                             *)

\* the labels and values an Update works with are those of its object
OwnInfo(r) == r.pc \in {"write", "emit"} => r.info \in ObjectLabels(r.reports[r.next])

\* the first n fields of the current group hold the descriptors r stored
Wanted(r, f) == IF Full(f) THEN r.info.labels ELSE ShortDesc
Stored(r, d, n) ==
  \A i \in 1..n : LET f == Groups[r.group].write[i] IN d[f] = Wanted(r, f)
OwnDescs(r, d) ==
  /\ r.pc = "write" => Stored(r, d, r.pos - 1)
  /\ r.pc = "emit" => Stored(r, d, Len(Groups[r.group].write))

OwnOut(r) == \A m \in r.out : m.labels = m.values

RInv(r, d) == OwnInfo(r) /\ OwnDescs(r, d) /\ OwnOut(r)

OneActive == OneAtATime => \A s, t \in Scrapes : Active(s) /\ Active(t) => s = t

IInv ==
  /\ TypeOK /\ NoPanic /\ OneActive
  /\ \A s \in Scrapes : RInv(scrape[s], desc)

-----------------------------------------------------------------------------
(* Lemmas about the data                                                     *)

\* the label names computed for an object are its label values' names, in order
LEMMA ObjectLabelsType ==
  ASSUME NEW o \in Objects, NEW i \in ObjectLabels(o)
  PROVE  /\ i \in InfoSet
         /\ i.labels = i.values
         /\ Len(i.labels) > 0
<1>1. PICK q \in Orders(Selected(o)) :
        i = [labels |-> FullDesc \o [k \in DOMAIN q |-> Sanitize[q[k]]],
             values |-> FullDesc \o [k \in DOMAIN q |-> Sanitize[q[k]]]]
  BY DEF ObjectLabels
<1> DEFINE n == Cardinality(Selected(o))
           extra == [k \in DOMAIN q |-> Sanitize[q[k]]]
<1>2. IsFiniteSet(Selected(o)) /\ Selected(o) \subseteq PodmanLabels[o]
  BY FS_Subset, LabelsAssumption DEF Selected, LabelsAssumption
<1>3. n \in Nat
  BY <1>2, FS_CardinalityType
<1>4. q \in [1..n -> Selected(o)]
  BY DEF Orders
<1>5. \A k \in DOMAIN q : Sanitize[q[k]] \in STRING
  BY <1>2, <1>4, LabelsAssumption DEF LabelsAssumption
<1>6. extra \in Seq(STRING)
  BY <1>3, <1>4, <1>5
<1> HIDE DEF extra
<1>7. FullDesc \o extra \in Seq(STRING) /\ Len(FullDesc \o extra) > 0
  BY <1>6, LabelsAssumption DEF LabelsAssumption
<1> QED
  BY <1>1, <1>7 DEF extra, InfoSet

\* a field of a group is a field; each field a group reads is one it stores
LEMMA GroupFields ==
  ASSUME NEW g \in 1..Len(Groups), NEW p \in 1..Len(Groups[g].write)
  PROVE  /\ Groups[g].write[p] \in Fields
         /\ p \in 1..Len(Groups[g].emit)
         /\ Groups[g].emit[p] \in Fields
         /\ \E j \in 1..Len(Groups[g].write) : Groups[g].emit[p] = Groups[g].write[j]
<1>1. Len(Groups[g].write) = Len(Groups[g].emit) /\ Rng(Groups[g].write) = Rng(Groups[g].emit)
  BY GroupsAssumption DEF GroupsAssumption
<1>2. Groups[g].write[p] \in Rng(Groups[g].write) /\ Groups[g].emit[p] \in Rng(Groups[g].emit)
  BY <1>1 DEF Rng
<1>3. Rng(Groups[g].write) \subseteq Fields /\ Rng(Groups[g].emit) \subseteq Fields
  BY DEF Fields
<1>4. \E j \in 1..Len(Groups[g].write) : Groups[g].emit[p] = Groups[g].write[j]
  BY <1>1, <1>2 DEF Rng
<1> QED
  BY <1>1, <1>2, <1>3, <1>4

\* Each group stores at least one field and emits as many as it stores.
LEMMA GroupSize ==
  ASSUME NEW g \in 1..Len(Groups)
  PROVE  /\ Len(Groups) \in Nat \ {0}
         /\ Groups[g] \in [write : Seq(STRING), emit : Seq(STRING)]
         /\ Len(Groups[g].write) \in Nat \ {0}
         /\ Len(Groups[g].emit) = Len(Groups[g].write)
<1> DEFINE R == [write : Seq(STRING), emit : Seq(STRING)]
<1>1. Groups \in Seq(R) /\ Len(Groups) > 0
  BY GroupsAssumption DEF GroupsAssumption
<1>2. Groups[g] \in R
  <2> HIDE DEF R
  <2> QED BY <1>1
<1>3. Len(Groups) \in Nat
  <2> HIDE DEF R
  <2> QED BY <1>1
<1>4. Groups[g].write \in Seq(STRING) /\ Len(Groups[g].write) > 0
      /\ Len(Groups[g].emit) = Len(Groups[g].write)
  BY <1>2, GroupsAssumption DEF GroupsAssumption
<1>5. Len(Groups[g].write) \in Nat
  BY <1>4
<1> QED
  BY <1>1, <1>2, <1>3, <1>4, <1>5

\* Descriptors and label values are sequences of label names.
LEMMA DescType ==
  ASSUME TypeOK, NEW s \in Scrapes, NEW f
  PROVE  DescOf(s, f) \in Seq(STRING) /\ ValuesOf(s, f) \in Seq(STRING)
<1>1. scrape[s].info \in InfoSet
  BY DEF TypeOK, ScrapeSet
<1>2. ShortDesc \in Seq(STRING)
  BY LabelsAssumption DEF LabelsAssumption
<1> QED
  BY <1>1, <1>2 DEF DescOf, ValuesOf, InfoSet

-----------------------------------------------------------------------------
(* Type correctness                                                          *)

\* The initial state is type correct.
LEMMA TypeInit == Init => TypeOK
<1> SUFFICES ASSUME Init PROVE TypeOK
  OBVIOUS
<1>1. IdleScrape \in ScrapeSet
  BY GroupsAssumption DEF GroupsAssumption, IdleScrape, ScrapeSet, NoInfo, InfoSet, Kinds, Lists
<1>2. 1 \in 1..Len(Groups) /\ 1 \in 1..Len(Groups[1].write)
  BY GroupsAssumption, GroupSize DEF GroupsAssumption
<1>3. scrape \in [Scrapes -> ScrapeSet]
  BY <1>1 DEF Init
<1>4. desc \in [Fields -> Seq(STRING)]
  BY DEF Init, NoDesc
<1>5. \A s \in Scrapes : /\ scrape[s].reports = << >> /\ scrape[s].next = 1
                         /\ scrape[s].pos = 1 /\ scrape[s].group = 1
                         /\ scrape[s].pc = "idle"
  BY DEF Init, IdleScrape
<1>6. \A s \in Scrapes : scrape[s].pos \in 1..Len(Groups[scrape[s].group].write)
  BY <1>2, <1>5
<1>7. \A s \in Scrapes : scrape[s].next \in 1..(Len(scrape[s].reports) + 1)
  BY <1>5
<1>8. crashed \in BOOLEAN
  BY DEF Init
<1> QED
  BY <1>3, <1>4, <1>5, <1>6, <1>7, <1>8 DEF TypeOK

\* a scrape with one of its locals changed
LEMMA SetField ==
  ASSUME NEW r \in ScrapeSet
  PROVE  /\ \A v \in {"idle", "list", "stats", "next", "write", "emit"} :
              [r EXCEPT !.pc = v] \in ScrapeSet
         /\ \A v \in Kinds : [r EXCEPT !.kind = v] \in ScrapeSet
         /\ \A v \in Lists : [r EXCEPT !.reports = v] \in ScrapeSet
         /\ \A v \in SUBSET Objects : [r EXCEPT !.stats = v] \in ScrapeSet
         /\ \A v \in Nat \ {0} : [r EXCEPT !.next = v] \in ScrapeSet
         /\ \A v \in InfoSet : [r EXCEPT !.info = v] \in ScrapeSet
         /\ \A v \in 1..Len(Groups) : [r EXCEPT !.group = v] \in ScrapeSet
         /\ \A v \in Nat \ {0} : [r EXCEPT !.pos = v] \in ScrapeSet
         /\ \A v \in SUBSET SeriesSet : [r EXCEPT !.out = v] \in ScrapeSet
         /\ \A v \in {"none", "refused", "failed", "ok"} :
              [r EXCEPT !.result = v] \in ScrapeSet
  BY DEF ScrapeSet

\* what TypeOK says of one scrape
Cursors(r) ==
  /\ r \in ScrapeSet
  /\ r.next \in 1..(Len(r.reports) + 1)
  /\ r.pos \in 1..Len(Groups[r.group].write)
  /\ r.pc \in {"write", "emit"} => r.next <= Len(r.reports)

\* TypeOK, with the cursors of each scrape apart.
LEMMA CursorsType ==
  TypeOK <=> /\ desc \in [Fields -> Seq(STRING)]
             /\ crashed \in BOOLEAN
             /\ scrape \in [Scrapes -> ScrapeSet]
             /\ \A s \in Scrapes : Cursors(scrape[s])
  BY DEF TypeOK, Cursors

\* What Cursors says of a scrape, in the types the provers need.
LEMMA CursorsInt ==
  ASSUME NEW r, Cursors(r)
  PROVE  /\ Len(r.reports) \in Nat /\ r.reports \in Seq(Objects)
         /\ r.next \in Nat \ {0} /\ r.pos \in Nat \ {0} /\ r.group \in 1..Len(Groups)
         /\ r.pc \in {"write", "emit"} => r.reports[r.next] \in Objects
<1>1. r.reports \in Lists /\ r.next \in Nat \ {0}
      /\ r.pos \in Nat \ {0} /\ r.group \in 1..Len(Groups)
  BY DEF Cursors, ScrapeSet
<1>2. r.reports \in Seq(Objects)
  <2>1. << >> \in Seq(Objects) /\ ReportLists \subseteq Seq(Objects)
    BY RequestsAssumption DEF RequestsAssumption
  <2> QED BY <1>1, <2>1 DEF Lists
<1>3. Len(r.reports) \in Nat
  BY <1>2
<1> QED
  BY <1>1, <1>2, <1>3 DEF Cursors

\* After a group a scrape is at its next group or its next object.
LEMMA TypeAfterGroup ==
  ASSUME NEW s \in Scrapes, Cursors(scrape[s]), scrape[s].pc \in {"write", "emit"}
  PROVE  LET r == scrape[s]
             q == AfterGroup(s)
         IN  /\ Cursors(q) /\ q.info = r.info /\ q.out = r.out
             /\ \/ q.pc = "next"
                \/ (q.pc = "write" /\ q.pos = 1 /\ q.next = r.next /\ q.reports = r.reports)
<1> DEFINE r == scrape[s]
           q == AfterGroup(s)
<1>1. Cursors(r) /\ r \in ScrapeSet /\ r.next <= Len(r.reports)
  BY DEF Cursors
<1>2. CASE NoMoreGroups(s)
  <2>1. q = [r EXCEPT !.pc = "next", !.next = @ + 1]
    BY <1>2 DEF AfterGroup
  <2> HIDE DEF r, q
  <2>2. q \in ScrapeSet
    <3>1. r.next + 1 \in Nat \ {0}
      BY <1>1, CursorsInt
    <3>2. [[r EXCEPT !.pc = "next"] EXCEPT !.next = r.next + 1] \in ScrapeSet
      BY <1>1, <3>1, SetField
    <3>3. q = [[r EXCEPT !.pc = "next"] EXCEPT !.next = r.next + 1]
      BY <1>1, <2>1 DEF ScrapeSet
    <3> QED BY <3>2, <3>3
  <2>3. /\ q.pc = "next" /\ q.next = r.next + 1 /\ q.reports = r.reports
        /\ q.pos = r.pos /\ q.group = r.group /\ q.info = r.info /\ q.out = r.out
    BY <1>1, <2>1 DEF ScrapeSet
  <2> QED
    BY <1>1, <2>2, <2>3, CursorsInt DEF Cursors, r, q
<1>3. CASE ~NoMoreGroups(s)
  <2>1. q = [r EXCEPT !.pc = "write", !.group = @ + 1, !.pos = 1]
    BY <1>3 DEF AfterGroup
  <2>2. r.group + 1 \in 1..Len(Groups)
    BY <1>1, <1>3, CursorsInt, GroupSize DEF NoMoreGroups
  <2>3. 1 \in 1..Len(Groups[r.group + 1].write)
    BY <2>2, GroupSize
  <2> HIDE DEF r, q
  <2>4. q \in ScrapeSet
    <3>0. [[r EXCEPT !.pc = "write"] EXCEPT !.group = r.group + 1] \in ScrapeSet
      BY <1>1, <2>2, SetField
    <3>1. \A v \in Nat \ {0} :
            [[[r EXCEPT !.pc = "write"] EXCEPT !.group = r.group + 1] EXCEPT !.pos = v] \in ScrapeSet
      BY <3>0, SetField
    <3>2. q = [[[r EXCEPT !.pc = "write"] EXCEPT !.group = r.group + 1] EXCEPT !.pos = 1]
      BY <1>1, <2>1 DEF ScrapeSet
    <3>3. 1 \in Nat \ {0}
      OBVIOUS
    <3> QED BY <3>1, <3>2, <3>3, Zenon
  <2>5. /\ q.pc = "write" /\ q.next = r.next /\ q.reports = r.reports
        /\ q.pos = 1 /\ q.group = r.group + 1 /\ q.info = r.info /\ q.out = r.out
    BY <1>1, <2>1 DEF ScrapeSet
  <2> QED
    BY <1>1, <2>3, <2>4, <2>5 DEF Cursors, r, q
<1> QED
  BY <1>2, <1>3

\* the locals WriteDesc and EmitMetric leave behind
LEMMA TypeAfterWrite ==
  ASSUME NEW s \in Scrapes, Cursors(scrape[s]), scrape[s].pc = "write"
  PROVE  LET r == scrape[s]
             q == AfterWrite(s)
         IN  /\ Cursors(q) /\ q.info = r.info /\ q.out = r.out
             /\ (q.pc = "next" \/ (q.next = r.next /\ q.reports = r.reports))
             /\ \/ q.pc = "next"
                \/ (q.pc = "write" /\ q.pos = 1)
                \/ (q.pc = "write" /\ q.pos = r.pos + 1 /\ q.group = r.group)
                \/ (q.pc = "emit" /\ r.pos = Len(Groups[r.group].write) /\ q.group = r.group)
<1> DEFINE r == scrape[s]
           q == AfterWrite(s)
<1>1. r \in ScrapeSet /\ r.pos \in 1..Len(Groups[r.group].write) /\ r.group \in 1..Len(Groups)
      /\ Len(Groups[r.group].write) \in Nat \ {0} /\ r.next <= Len(r.reports)
  BY CursorsInt, GroupSize DEF Cursors
<1>2. CASE r.pos < Len(Groups[r.group].write)
  <2>1. q = [r EXCEPT !.pos = r.pos + 1]
    BY <1>2 DEF AfterWrite
  <2>2. r.pos + 1 \in 1..Len(Groups[r.group].write) /\ r.pos + 1 \in Nat \ {0}
    BY <1>1, <1>2
  <2>3. q \in ScrapeSet
    BY <1>1, <2>1, <2>2, SetField
  <2>4. /\ q.pc = r.pc /\ q.next = r.next /\ q.reports = r.reports
        /\ q.pos = r.pos + 1 /\ q.group = r.group /\ q.info = r.info /\ q.out = r.out
    BY <1>1, <2>1 DEF ScrapeSet
  <2> HIDE DEF q
  <2> QED
    BY <1>1, <2>2, <2>3, <2>4 DEF Cursors, q
<1>3. CASE ~(r.pos < Len(Groups[r.group].write)) /\ Emitted(s, r.group)
  <2>1. q = [r EXCEPT !.pc = "emit", !.pos = 1]
    BY <1>3 DEF AfterWrite
  <2>2. [r EXCEPT !.pc = "emit"] \in ScrapeSet
    BY <1>1, SetField
  <2>3. \A v \in Nat \ {0} : [[r EXCEPT !.pc = "emit"] EXCEPT !.pos = v] \in ScrapeSet
    BY <2>2, SetField
  <2>4. q \in ScrapeSet
    <3>1. 1 \in Nat \ {0}
      OBVIOUS
    <3>2. q = [[r EXCEPT !.pc = "emit"] EXCEPT !.pos = 1]
      BY <2>1
    <3> QED BY <2>3, <3>1, <3>2, Zenon
  <2>5. /\ q.pc = "emit" /\ q.next = r.next /\ q.reports = r.reports
        /\ q.pos = 1 /\ q.group = r.group /\ q.info = r.info /\ q.out = r.out
    BY <1>1, <2>1 DEF ScrapeSet
  <2>6. r.pos = Len(Groups[r.group].write)
    BY <1>1, <1>3
  <2> HIDE DEF q
  <2> QED
    BY <1>1, <2>4, <2>5, <2>6 DEF Cursors, q
<1>4. CASE ~(r.pos < Len(Groups[r.group].write)) /\ ~Emitted(s, r.group)
  <2>1. q = AfterGroup(s)
    BY <1>4 DEF AfterWrite
  <2> DEFINE p == AfterGroup(s)
  <2>2. /\ Cursors(p) /\ p.info = r.info /\ p.out = r.out
        /\ \/ p.pc = "next"
           \/ (p.pc = "write" /\ p.pos = 1 /\ p.next = r.next /\ p.reports = r.reports)
    BY TypeAfterGroup
  <2> HIDE DEF q, p
  <2>3. p = q
    BY <2>1 DEF p
  <2> QED
    BY <2>2, <2>3 DEF q
<1> QED
  BY <1>2, <1>3, <1>4

\* The locals EmitMetric leaves behind are in range.
LEMMA TypeAfterEmit ==
  ASSUME NEW s \in Scrapes, Cursors(scrape[s]), scrape[s].pc = "emit"
  PROVE  LET r == scrape[s]
             q == AfterEmit(s)
         IN  /\ Cursors(q) /\ q.info = r.info /\ q.out = r.out
             /\ (q.pc = "next" \/ (q.next = r.next /\ q.reports = r.reports))
             /\ \/ q.pc = "next"
                \/ (q.pc = "write" /\ q.pos = 1)
                \/ (q.pc = "emit" /\ q.group = r.group)
<1> DEFINE r == scrape[s]
           q == AfterEmit(s)
<1>1. /\ r \in ScrapeSet /\ r.pos \in 1..Len(Groups[r.group].write)
      /\ r.group \in 1..Len(Groups)
      /\ Len(Groups[r.group].write) \in Nat \ {0} /\ r.next <= Len(r.reports)
      /\ Len(Groups[r.group].emit) = Len(Groups[r.group].write)
  BY CursorsInt, GroupSize DEF Cursors
<1>2. CASE r.pos < Len(Groups[r.group].emit)
  <2>1. q = [r EXCEPT !.pos = r.pos + 1]
    BY <1>2 DEF AfterEmit
  <2>2. r.pos + 1 \in 1..Len(Groups[r.group].write) /\ r.pos + 1 \in Nat \ {0}
    BY <1>1, <1>2
  <2>3. q \in ScrapeSet
    BY <1>1, <2>1, <2>2, SetField
  <2>4. /\ q.pc = r.pc /\ q.next = r.next /\ q.reports = r.reports
        /\ q.pos = r.pos + 1 /\ q.group = r.group /\ q.info = r.info /\ q.out = r.out
    BY <1>1, <2>1 DEF ScrapeSet
  <2> HIDE DEF q
  <2> QED
    BY <1>1, <2>2, <2>3, <2>4 DEF Cursors, q
<1>3. CASE ~(r.pos < Len(Groups[r.group].emit))
  <2>1. q = AfterGroup(s)
    BY <1>3 DEF AfterEmit
  <2> DEFINE p == AfterGroup(s)
  <2>2. /\ Cursors(p) /\ p.info = r.info /\ p.out = r.out
        /\ \/ p.pc = "next"
           \/ (p.pc = "write" /\ p.pos = 1 /\ p.next = r.next /\ p.reports = r.reports)
    BY TypeAfterGroup
  <2> HIDE DEF q, p
  <2>3. p = q
    BY <2>1 DEF p
  <2> QED
    BY <2>2, <2>3 DEF q
<1> QED
  BY <1>2, <1>3

\* Every step changes the locals of one scrape at most.
LEMMA TypeOneScrape ==
  ASSUME TypeOK, NEW s \in Scrapes, NEW q, Cursors(q),
         scrape' = [scrape EXCEPT ![s] = q],
         desc' \in [Fields -> Seq(STRING)], crashed' \in BOOLEAN
  PROVE  TypeOK'
<1>1. scrape' \in [Scrapes -> ScrapeSet]
  BY DEF TypeOK, Cursors
<1>2. \A t \in Scrapes : scrape'[t] = IF t = s THEN q ELSE scrape[t]
  BY DEF TypeOK
<1>3. \A t \in Scrapes : Cursors(scrape'[t])
  BY <1>2, CursorsType
<1> QED
  BY <1>1, <1>3 DEF TypeOK, Cursors

\* A scrape that has not begun has its cursors in range.
LEMMA IdleCursors == Cursors(IdleScrape)
<1>1. IdleScrape \in ScrapeSet
  BY GroupsAssumption DEF GroupsAssumption, IdleScrape, ScrapeSet, NoInfo, InfoSet, Kinds, Lists
<1>2. 1 \in 1..Len(Groups) /\ 1 \in 1..Len(Groups[1].write)
  BY GroupsAssumption, GroupSize DEF GroupsAssumption
<1> QED
  BY <1>1, <1>2 DEF Cursors, IdleScrape

\* Every step keeps the state type correct.
LEMMA TypeNext == TypeOK /\ [Next]_vars => TypeOK'
<1> SUFFICES ASSUME TypeOK, [Next]_vars PROVE TypeOK'
  OBVIOUS
<1>0. \A s \in Scrapes : Cursors(scrape[s]) /\ scrape[s] \in ScrapeSet
  BY CursorsType DEF Cursors
<1>1. ASSUME NEW s \in Scrapes, NEW k \in Requests, Admit(s, k) PROVE TypeOK'
  <2> DEFINE a == [IdleScrape EXCEPT !.pc = "list"]
             q == [IdleScrape EXCEPT !.pc = "list", !.kind = k]
  <2>1. IdleScrape \in ScrapeSet
    BY IdleCursors DEF Cursors
  <2>2. a \in ScrapeSet
    BY <2>1, SetField
  <2>3. [a EXCEPT !.kind = k] \in ScrapeSet
    BY <2>2, SetField DEF Kinds
  <2>4. q = [a EXCEPT !.kind = k]
    OBVIOUS
  <2>5. q.pc = "list" /\ q.next = 1 /\ q.pos = 1 /\ q.group = 1 /\ q.reports = << >>
    BY DEF IdleScrape
  <2>6. Cursors(q)
    BY <2>3, <2>4, <2>5, IdleCursors DEF Cursors, IdleScrape
  <2> HIDE DEF q
  <2> QED
    BY <1>1, <2>6, TypeOneScrape DEF Admit, TypeOK, q
<1>2. ASSUME NEW s \in Scrapes, NEW k \in Requests, Refuse(s, k) PROVE TypeOK'
  <2> DEFINE a == [IdleScrape EXCEPT !.kind = k]
             q == [IdleScrape EXCEPT !.kind = k, !.result = "refused"]
  <2>1. IdleScrape \in ScrapeSet
    BY IdleCursors DEF Cursors
  <2>2. a \in ScrapeSet
    BY <2>1, SetField DEF Kinds
  <2>3. [a EXCEPT !.result = "refused"] \in ScrapeSet
    BY <2>2, SetField
  <2>4. q = [a EXCEPT !.result = "refused"]
    OBVIOUS
  <2>5. q.pc = "idle" /\ q.next = 1 /\ q.pos = 1 /\ q.group = 1 /\ q.reports = << >>
    BY DEF IdleScrape
  <2>6. Cursors(q)
    BY <2>3, <2>4, <2>5, IdleCursors DEF Cursors, IdleScrape
  <2> HIDE DEF q
  <2> QED
    BY <1>2, <2>6, TypeOneScrape DEF Refuse, TypeOK, q
<1>3. ASSUME NEW s \in Scrapes, List(s) PROVE TypeOK'
  <2> DEFINE r == scrape[s]
             c == IF StatsGroup = 0 THEN "next" ELSE "stats"
  <2>1. PICK l \in ReportLists :
          scrape' = [scrape EXCEPT ![s] = [r EXCEPT !.reports = l, !.next = 1, !.pc = c]]
    BY <1>3 DEF List
  <2> DEFINE q == [r EXCEPT !.reports = l, !.next = 1, !.pc = c]
  <2>2. r \in ScrapeSet /\ l \in Lists /\ l \in Seq(Objects)
    BY <1>0, RequestsAssumption DEF Lists, RequestsAssumption
  <2>3. [r EXCEPT !.reports = l] \in ScrapeSet
    BY <2>2, SetField
  <2>4. \A v \in Nat \ {0} : [[r EXCEPT !.reports = l] EXCEPT !.next = v] \in ScrapeSet
    BY <2>3, SetField
  <2>5. [[r EXCEPT !.reports = l] EXCEPT !.next = 1] \in ScrapeSet
    <3>1. 1 \in Nat \ {0}
      OBVIOUS
    <3> QED BY <2>4, <3>1, Zenon
  <2>6. [[[r EXCEPT !.reports = l] EXCEPT !.next = 1] EXCEPT !.pc = c] \in ScrapeSet
    BY <2>5, SetField
  <2>7. q = [[[r EXCEPT !.reports = l] EXCEPT !.next = 1] EXCEPT !.pc = c]
    OBVIOUS
  <2>8. q.pc = c /\ q.next = 1 /\ q.pos = r.pos /\ q.group = r.group /\ q.reports = l
    BY <2>2 DEF ScrapeSet
  <2>9. Cursors(q)
    BY <1>0, <2>2, <2>6, <2>7, <2>8 DEF Cursors
  <2> HIDE DEF q
  <2> QED
    BY <1>3, <2>1, <2>9, TypeOneScrape DEF List, TypeOK, q
<1>4. ASSUME NEW s \in Scrapes, Stats(s) PROVE TypeOK'
  <2> DEFINE r == scrape[s]
  <2>1. PICK w \in SUBSET Objects :
          scrape' = [scrape EXCEPT ![s] = [r EXCEPT !.stats = w, !.pc = "next"]]
    BY <1>4 DEF Stats
  <2> DEFINE q == [r EXCEPT !.stats = w, !.pc = "next"]
  <2>2. r \in ScrapeSet
    BY <1>0
  <2>3. [r EXCEPT !.stats = w] \in ScrapeSet
    BY <2>2, SetField
  <2>4. [[r EXCEPT !.stats = w] EXCEPT !.pc = "next"] \in ScrapeSet
    BY <2>3, SetField
  <2>5. q = [[r EXCEPT !.stats = w] EXCEPT !.pc = "next"]
    OBVIOUS
  <2>6. q.pc = "next" /\ q.next = r.next /\ q.pos = r.pos /\ q.group = r.group
        /\ q.reports = r.reports
    BY <2>2 DEF ScrapeSet
  <2>7. Cursors(q)
    BY <1>0, <2>4, <2>5, <2>6 DEF Cursors
  <2> HIDE DEF q
  <2> QED
    BY <1>4, <2>1, <2>7, TypeOneScrape DEF Stats, TypeOK, q
<1>5. ASSUME NEW s \in Scrapes, NEW v \in {"failed", "ok"},
             scrape' = [scrape EXCEPT ![s] = [scrape[s] EXCEPT !.pc = "idle", !.result = v]],
             desc' = desc, crashed' = crashed
      PROVE  TypeOK'
  <2> DEFINE r == scrape[s]
             q == [r EXCEPT !.pc = "idle", !.result = v]
  <2>1. r \in ScrapeSet
    BY <1>0
  <2>2. [r EXCEPT !.pc = "idle"] \in ScrapeSet
    BY <2>1, SetField
  <2>3. [[r EXCEPT !.pc = "idle"] EXCEPT !.result = v] \in ScrapeSet
    BY <2>2, SetField
  <2>4. q = [[r EXCEPT !.pc = "idle"] EXCEPT !.result = v]
    OBVIOUS
  <2>5. q.pc = "idle" /\ q.next = r.next /\ q.pos = r.pos /\ q.group = r.group
        /\ q.reports = r.reports
    BY <2>1 DEF ScrapeSet
  <2>6. Cursors(q)
    BY <1>0, <2>3, <2>4, <2>5 DEF Cursors
  <2> HIDE DEF q
  <2> QED
    BY <1>5, <2>6, TypeOneScrape DEF TypeOK, q
<1>6. ASSUME NEW s \in Scrapes, NextObject(s) PROVE TypeOK'
  <2> DEFINE r == scrape[s]
  <2>1. PICK i \in ObjectLabels(Object(s)) :
          scrape' = [scrape EXCEPT ![s] =
                       [r EXCEPT !.info = i, !.group = 1, !.pos = 1, !.pc = "write"]]
    BY <1>6 DEF NextObject
  <2> DEFINE a == [r EXCEPT !.info = i]
             b == [a EXCEPT !.group = 1]
             c == [b EXCEPT !.pos = 1]
             q == [r EXCEPT !.info = i, !.group = 1, !.pos = 1, !.pc = "write"]
  <2>2. /\ r \in ScrapeSet /\ Cursors(r)
        /\ r.next \in 1..Len(r.reports)
        /\ Object(s) \in Objects
    BY <1>0, <1>6, CursorsInt DEF NextObject, Object
  <2>3. i \in InfoSet /\ 1 \in 1..Len(Groups) /\ 1 \in 1..Len(Groups[1].write)
    BY <2>2, ObjectLabelsType, GroupsAssumption, GroupSize DEF GroupsAssumption
  <2>4. a \in ScrapeSet
    BY <2>2, <2>3, SetField
  <2>5. b \in ScrapeSet
    BY <2>3, <2>4, SetField, Zenon
  <2>6. c \in ScrapeSet
    <3>1. 1 \in Nat \ {0}
      OBVIOUS
    <3> QED BY <2>5, <3>1, SetField, Zenon
  <2>7. [c EXCEPT !.pc = "write"] \in ScrapeSet
    BY <2>6, SetField
  <2>8. q = [c EXCEPT !.pc = "write"]
    OBVIOUS
  <2>9. q.pc = "write" /\ q.next = r.next /\ q.pos = 1 /\ q.group = 1
        /\ q.reports = r.reports
    BY <2>2 DEF ScrapeSet
  <2>10. Cursors(q)
    BY <2>2, <2>3, <2>7, <2>8, <2>9 DEF Cursors
  <2> HIDE DEF q
  <2> QED
    BY <1>6, <2>1, <2>10, TypeOneScrape DEF NextObject, TypeOK, q
<1>7. ASSUME NEW s \in Scrapes, WriteDesc(s) PROVE TypeOK'
  <2> DEFINE f == Groups[scrape[s].group].write[scrape[s].pos]
  <2>1. Cursors(AfterWrite(s))
    BY <1>0, <1>7, TypeAfterWrite DEF WriteDesc
  <2>2. f \in Fields /\ DescOf(s, f) \in Seq(STRING)
    BY <1>0, CursorsInt, GroupFields, DescType DEF Cursors
  <2>3. desc' = [desc EXCEPT ![f] = DescOf(s, f)]
    BY <1>7 DEF WriteDesc
  <2>4. desc' \in [Fields -> Seq(STRING)]
    BY <2>2, <2>3 DEF TypeOK
  <2> QED
    BY <1>7, <2>1, <2>4, TypeOneScrape DEF WriteDesc, TypeOK
<1>8. ASSUME NEW s \in Scrapes, EmitMetric(s) PROVE TypeOK'
  <2> DEFINE f == Groups[scrape[s].group].emit[scrape[s].pos]
             d == AfterEmit(s)
             q == [d EXCEPT !.out = d.out \cup {Series(s, f)}]
  <2>1. Cursors(d) /\ d \in ScrapeSet
    BY <1>0, <1>8, TypeAfterEmit DEF EmitMetric, Cursors
  <2>2. f \in Fields /\ ValuesOf(s, f) \in Seq(STRING) /\ desc[f] \in Seq(STRING)
    BY <1>0, CursorsInt, GroupFields, DescType DEF Cursors, TypeOK
  <2>3. Object(s) \in Objects
    BY <1>0, <1>8, CursorsInt DEF EmitMetric, Object
  <2>4. Series(s, f) \in SeriesSet
    BY <2>2, <2>3 DEF Series, SeriesSet
  <2> HIDE DEF d
  <2>5. d.out \cup {Series(s, f)} \in SUBSET SeriesSet
    BY <2>1, <2>4 DEF ScrapeSet
  <2>6. q \in ScrapeSet
    BY <2>1, <2>5, SetField
  <2>7. q.pc = d.pc /\ q.next = d.next /\ q.pos = d.pos /\ q.group = d.group
        /\ q.reports = d.reports
    BY <2>1 DEF ScrapeSet
  <2>8. Cursors(q)
    BY <2>1, <2>6, <2>7 DEF Cursors
  <2>9. crashed' \in BOOLEAN /\ desc' = desc
    BY <1>8 DEF EmitMetric, Panics
  <2>10. CASE crashed'
    BY <1>8, <2>9, <2>10 DEF EmitMetric, TypeOK
  <2>11. CASE ~crashed'
    <3>1. scrape' = [scrape EXCEPT ![s] = q]
      BY <1>8, <2>11 DEF EmitMetric, d
    <3> HIDE DEF q
    <3> QED
      BY <2>8, <2>9, <3>1, TypeOneScrape DEF TypeOK
  <2> QED
    BY <2>9, <2>10, <2>11
<1>9. CASE UNCHANGED vars
  BY <1>9 DEF vars, TypeOK
<1> QED
  BY <1>1, <1>2, <1>3, <1>4, <1>5, <1>6, <1>7, <1>8, <1>9 DEF Next, Fail, Return

\* Every variable of every reachable state has its type, and the cursors of
\* each Update stay inside the lists they walk (collector/container.go:140-161).
THEOREM TypeCorrect == Spec => []TypeOK
<1>1. Init => TypeOK
  BY TypeInit
<1>2. TypeOK /\ [Next]_vars => TypeOK'
  BY TypeNext
<1> QED
  BY <1>1, <1>2, PTL DEF Spec

-----------------------------------------------------------------------------
(* No panic, and every series with its own label names                       *)

\* a step that stores no descriptor keeps what RInv says of the other scrapes
LEMMA RInvOneScrape ==
  ASSUME IInv, NEW s \in Scrapes, NEW q, RInv(q, desc),
         scrape' = [scrape EXCEPT ![s] = q], desc' = desc
  PROVE  \A t \in Scrapes : RInv(scrape'[t], desc')
<1>1. \A t \in Scrapes : scrape'[t] = IF t = s THEN q ELSE scrape[t]
  BY DEF IInv, TypeOK
<1> QED
  BY <1>1 DEF IInv

\* only a scrape that is active, or admitted now, is active after a step
LEMMA OneActiveKept ==
  ASSUME IInv, NEW s \in Scrapes, NEW q, Active(s) \/ q.pc = "idle",
         scrape' = [scrape EXCEPT ![s] = q]
  PROVE  OneActive'
<1>1. \A t \in Scrapes : scrape'[t] = IF t = s THEN q ELSE scrape[t]
  BY DEF IInv, TypeOK
<1>2. \A t \in Scrapes : scrape'[t].pc # "idle" => Active(t)
  BY <1>1 DEF Active
<1> QED
  BY <1>2 DEF IInv, OneActive, Active

\* with one plain request at a time, a request is admitted when none is active
LEMMA NoneInFlight ==
  ASSUME IInv, OneAtATime, NEW k \in Requests, Admissible(k), NEW t \in Scrapes
  PROVE  ~Active(t)
<1>1. IsFiniteSet(InFlight)
  BY FS_Subset, RequestsAssumption DEF RequestsAssumption, InFlight
<1>2. Cardinality(InFlight) \in Nat
  BY <1>1, FS_CardinalityType
<1>3. Cardinality(InFlight) < 1
  BY DEF OneAtATime, Admissible
<1>4. InFlight = {}
  BY <1>1, <1>2, <1>3, FS_EmptySet
<1>5. scrape[t].kind = "plain"
  BY DEF IInv, TypeOK, ScrapeSet, Kinds, OneAtATime
<1> QED
  BY <1>4, <1>5 DEF InFlight

\* The initial state satisfies the inductive invariant.
LEMMA SafeInit == Init => IInv
<1> SUFFICES ASSUME Init PROVE IInv
  OBVIOUS
<1>1. TypeOK
  BY TypeInit
<1>2. \A s \in Scrapes : scrape[s] = IdleScrape
  BY DEF Init
<1>3. IdleScrape.pc = "idle" /\ IdleScrape.out = {}
  BY DEF IdleScrape
<1>4. RInv(IdleScrape, desc)
  BY <1>3 DEF RInv, OwnInfo, OwnDescs, OwnOut
<1>5. \A s \in Scrapes : ~Active(s)
  BY <1>2, <1>3 DEF Active
<1> QED
  BY <1>1, <1>2, <1>4, <1>5 DEF Init, IInv, NoPanic, OneActive

\* a descriptor stored by one scrape is the one every other scrape wants
LEMMA StoredByAll ==
  ASSUME Safe, IInv, NEW s \in Scrapes, NEW u \in Scrapes, u # s, NEW f,
         scrape[s].pc \in {"write", "emit"}, scrape[u].pc \in {"write", "emit"}
  PROVE  Wanted(scrape[u], f) = DescOf(s, f)
<1>1. Active(s) /\ Active(u)
  BY DEF Active
<1>2. OneLabelList
  BY <1>1 DEF Safe, IInv, OneActive
<1>3. \A t \in {s, u} : /\ scrape[t].reports[scrape[t].next] \in Objects
                        /\ scrape[t].info \in ObjectLabels(scrape[t].reports[scrape[t].next])
  BY CursorsType, CursorsInt DEF IInv, RInv, OwnInfo
<1>4. scrape[s].info.labels = scrape[u].info.labels
  BY <1>2, <1>3 DEF OneLabelList
<1> QED
  BY <1>4 DEF Wanted, DescOf

\* Storing a descriptor keeps the inductive invariant.
LEMMA SafeWrite ==
  ASSUME Safe, IInv, TypeOK', NEW s \in Scrapes, WriteDesc(s)
  PROVE  IInv'
<1> DEFINE r == scrape[s]
           q == AfterWrite(s)
           f == Groups[r.group].write[r.pos]
<1>1. /\ r.pc = "write" /\ ~crashed /\ crashed' = crashed
      /\ desc' = [desc EXCEPT ![f] = DescOf(s, f)]
      /\ scrape' = [scrape EXCEPT ![s] = q]
  BY DEF WriteDesc
<1>2. Cursors(r) /\ RInv(r, desc)
  BY CursorsType DEF IInv
<1>3. /\ q.info = r.info /\ q.out = r.out /\ Cursors(q)
      /\ (q.pc = "next" \/ (q.next = r.next /\ q.reports = r.reports))
      /\ \/ q.pc = "next"
         \/ (q.pc = "write" /\ q.pos = 1)
         \/ (q.pc = "write" /\ q.pos = r.pos + 1 /\ q.group = r.group)
         \/ (q.pc = "emit" /\ r.pos = Len(Groups[r.group].write) /\ q.group = r.group)
  BY <1>1, <1>2, TypeAfterWrite
<1>4. f \in Fields
  BY <1>2, CursorsInt, GroupFields DEF Cursors
<1>5. \A g \in Fields : desc'[g] = IF g = f THEN DescOf(s, f) ELSE desc[g]
  BY <1>1, <1>4 DEF IInv, TypeOK
<1>6. \A t \in Scrapes : scrape'[t] = IF t = s THEN q ELSE scrape[t]
  BY <1>1 DEF IInv, TypeOK
<1>7. \A t \in Scrapes : \A i \in 1..Len(Groups[scrape[t].group].write) :
        Groups[scrape[t].group].write[i] \in Fields
  BY CursorsType, CursorsInt, GroupFields DEF IInv
<1>8. RInv(q, desc')
  <2>1. OwnOut(q) /\ OwnInfo(q)
    BY <1>1, <1>2, <1>3 DEF RInv, OwnOut, OwnInfo
  <2>2. \A g : Wanted(q, g) = Wanted(r, g) /\ DescOf(s, g) = Wanted(r, g)
    BY <1>3 DEF Wanted, DescOf
  <2>3. Stored(r, desc', r.pos)
    <3> SUFFICES ASSUME NEW i \in 1..r.pos
                 PROVE  desc'[Groups[r.group].write[i]] = Wanted(r, Groups[r.group].write[i])
      BY DEF Stored
    <3>1. i \in 1..Len(Groups[r.group].write)
      BY <1>2, CursorsInt, GroupSize DEF Cursors
    <3>2. Groups[r.group].write[i] \in Fields
      BY <1>7, <3>1
    <3>3. CASE i = r.pos
      BY <1>5, <2>2, <3>2, <3>3 DEF f
    <3>4. CASE i # r.pos
      <4>1. i \in 1..(r.pos - 1)
        BY <1>2, <3>4, CursorsInt
      <4>2. desc[Groups[r.group].write[i]] = Wanted(r, Groups[r.group].write[i])
        BY <1>1, <1>2, <4>1 DEF RInv, OwnDescs, Stored
      <4> QED
        BY <1>5, <2>2, <3>2, <4>2
    <3> QED
      BY <3>3, <3>4
  <2>4. CASE q.pc = "next"
    BY <2>1, <2>4 DEF RInv, OwnDescs
  <2>5. CASE q.pc = "write" /\ q.pos = 1
    BY <2>1, <2>5 DEF RInv, OwnDescs, Stored
  <2>6. CASE q.pc = "write" /\ q.pos = r.pos + 1 /\ q.group = r.group
    <3>1. q.pos - 1 = r.pos
      BY <1>2, <2>6, CursorsInt
    <3> QED
      BY <2>1, <2>2, <2>3, <2>6, <3>1 DEF RInv, OwnDescs, Stored
  <2>7. CASE q.pc = "emit" /\ r.pos = Len(Groups[r.group].write) /\ q.group = r.group
    BY <2>1, <2>2, <2>3, <2>7 DEF RInv, OwnDescs, Stored
  <2> QED
    BY <1>3, <2>4, <2>5, <2>6, <2>7
<1>9. ASSUME NEW u \in Scrapes, u # s PROVE RInv(scrape[u], desc')
  <2> DEFINE v == scrape[u]
  <2>1. RInv(v, desc) /\ Cursors(v)
    BY CursorsType DEF IInv
  <2>2. CASE v.pc \notin {"write", "emit"}
    BY <2>1, <2>2 DEF RInv, OwnDescs, OwnInfo
  <2>3. CASE v.pc \in {"write", "emit"}
    <3>1. Wanted(v, f) = DescOf(s, f)
      BY <1>1, <1>9, <2>3, StoredByAll
    <3>2. ASSUME NEW n \in Nat, n <= Len(Groups[v.group].write), Stored(v, desc, n)
          PROVE  Stored(v, desc', n)
      <4> SUFFICES ASSUME NEW i \in 1..n
                   PROVE  desc'[Groups[v.group].write[i]] = Wanted(v, Groups[v.group].write[i])
        BY DEF Stored
      <4>1. Groups[v.group].write[i] \in Fields
        <5>1. i \in 1..Len(Groups[v.group].write)
          BY <2>1, <3>2, CursorsInt, GroupSize
        <5> QED
          BY <1>7, <5>1
      <4> QED
        BY <1>5, <3>1, <3>2, <4>1 DEF Stored
    <3>3. v.pos - 1 \in Nat /\ v.pos - 1 <= Len(Groups[v.group].write)
          /\ Len(Groups[v.group].write) \in Nat
      BY <2>1, CursorsInt, GroupSize DEF Cursors
    <3>4. OwnDescs(v, desc')
      BY <2>1, <3>2, <3>3 DEF RInv, OwnDescs
    <3> QED
      BY <2>1, <3>4 DEF RInv
  <2> QED
    BY <2>2, <2>3
<1>10. \A t \in Scrapes : RInv(scrape'[t], desc')
  BY <1>6, <1>8, <1>9
<1>11. OneActive'
  BY <1>1, OneActiveKept DEF Active
<1> QED
  BY <1>1, <1>10, <1>11 DEF IInv, NoPanic

\* Emitting a metric keeps the inductive invariant.
LEMMA SafeEmit ==
  ASSUME Safe, IInv, TypeOK', NEW s \in Scrapes, EmitMetric(s)
  PROVE  IInv'
<1> DEFINE r == scrape[s]
           f == Groups[r.group].emit[r.pos]
           d == AfterEmit(s)
           q == [d EXCEPT !.out = d.out \cup {Series(s, f)}]
<1>1. r.pc = "emit" /\ ~crashed /\ desc' = desc
  BY DEF EmitMetric
<1>2. Cursors(r) /\ RInv(r, desc)
  BY CursorsType DEF IInv
<1>3. /\ d.info = r.info /\ d.out = r.out /\ Cursors(d)
      /\ (d.pc = "next" \/ (d.next = r.next /\ d.reports = r.reports))
      /\ \/ d.pc = "next"
         \/ (d.pc = "write" /\ d.pos = 1)
         \/ (d.pc = "emit" /\ d.group = r.group)
  BY <1>1, <1>2, TypeAfterEmit
<1>4. PICK j \in 1..Len(Groups[r.group].write) : f = Groups[r.group].write[j]
  BY <1>2, CursorsInt, GroupFields DEF Cursors
<1>5. desc[f] = Wanted(r, f)
  BY <1>1, <1>2, <1>4 DEF RInv, OwnDescs, Stored
<1>6. r.info \in ObjectLabels(Object(s)) /\ Object(s) \in Objects
  BY <1>1, <1>2, CursorsInt DEF RInv, OwnInfo, Object
<1>7. r.info.labels = r.info.values /\ Len(r.info.labels) > 0 /\ ValidDesc(r.info.labels)
  BY <1>6, ObjectLabelsType DEF Safe, NoCollision
<1>8. Len(ShortDesc) > 0 /\ ValidDesc(ShortDesc)
  BY LabelsAssumption DEF LabelsAssumption, Safe, NoCollision
<1>9. desc[f] = ValuesOf(s, f) /\ Len(desc[f]) > 0 /\ ValidDesc(desc[f])
  BY <1>5, <1>7, <1>8 DEF Wanted, ValuesOf
<1>10. Panics(desc[f], ValuesOf(s, f)) = FALSE
  BY <1>9 DEF Panics, NoDesc
<1>11. crashed' = FALSE
  BY <1>10, Zenon DEF EmitMetric
<1>12. scrape' = [scrape EXCEPT ![s] = q]
  BY <1>11 DEF EmitMetric
<1>13. Series(s, f).labels = Series(s, f).values
  BY <1>9 DEF Series
<1> HIDE DEF d, f
<1>14. /\ q.pc = d.pc /\ q.next = d.next /\ q.pos = d.pos /\ q.group = d.group
       /\ q.reports = d.reports /\ q.info = d.info /\ q.out = d.out \cup {Series(s, f)}
  BY <1>3 DEF Cursors, ScrapeSet
<1> HIDE DEF q
<1>15. OwnOut(q) /\ OwnInfo(q)
  BY <1>1, <1>2, <1>3, <1>13, <1>14 DEF RInv, OwnOut, OwnInfo
<1>16. OwnDescs(q, desc)
  <2>1. CASE d.pc = "next"
    BY <1>14, <2>1 DEF OwnDescs
  <2>2. CASE d.pc = "write" /\ d.pos = 1
    BY <1>14, <2>2 DEF OwnDescs, Stored
  <2>3. CASE d.pc = "emit" /\ d.group = r.group
    BY <1>1, <1>2, <1>3, <1>14, <2>3 DEF RInv, OwnDescs, Stored, Wanted
  <2> QED
    BY <1>3, <2>1, <2>2, <2>3
<1>17. \A t \in Scrapes : RInv(scrape'[t], desc')
  BY <1>1, <1>12, <1>15, <1>16, RInvOneScrape DEF RInv
<1>18. OneActive'
  BY <1>1, <1>12, OneActiveKept DEF Active
<1> QED
  BY <1>11, <1>17, <1>18 DEF IInv, NoPanic

\* a step that leaves the descriptors alone, and the scrape outside its groups
LEMMA SafeOther ==
  ASSUME IInv, TypeOK', NEW s \in Scrapes, NEW q,
         scrape' = [scrape EXCEPT ![s] = q], desc' = desc, crashed' = crashed,
         q.pc \notin {"write", "emit"}, OwnOut(q), Active(s) \/ q.pc = "idle"
  PROVE  IInv'
<1>1. RInv(q, desc)
  BY DEF RInv, OwnInfo, OwnDescs
<1>2. \A t \in Scrapes : RInv(scrape'[t], desc')
  BY <1>1, RInvOneScrape
<1>3. OneActive'
  BY OneActiveKept
<1> QED
  BY <1>2, <1>3 DEF IInv, NoPanic

\* Every step keeps the inductive invariant.
LEMMA SafeNext == Safe /\ IInv /\ [Next]_vars => IInv'
<1> SUFFICES ASSUME Safe, IInv, [Next]_vars PROVE IInv'
  OBVIOUS
<1>0. TypeOK' /\ TypeOK
  BY TypeNext DEF IInv
<1>1. \A s \in Scrapes : scrape[s] \in ScrapeSet /\ OwnOut(scrape[s])
  BY <1>0 DEF TypeOK, IInv, RInv
<1>2. ASSUME NEW s \in Scrapes, NEW k \in Requests, Admit(s, k) PROVE IInv'
  <2> DEFINE q == [IdleScrape EXCEPT !.pc = "list", !.kind = k]
  <2>1. q.pc = "list" /\ q.out = {}
    BY DEF IdleScrape
  <2>2. scrape' = [scrape EXCEPT ![s] = q] /\ desc' = desc /\ crashed' = crashed
        /\ Admissible(k)
    BY <1>2 DEF Admit
  <2> HIDE DEF q
  <2>3. RInv(q, desc)
    BY <2>1 DEF RInv, OwnInfo, OwnDescs, OwnOut
  <2>4. \A t \in Scrapes : RInv(scrape'[t], desc')
    BY <2>2, <2>3, RInvOneScrape
  <2>5. OneActive'
    <3> SUFFICES ASSUME OneAtATime, NEW t \in Scrapes, NEW u \in Scrapes,
                        Active(t)', Active(u)'
                 PROVE  t = u
      BY DEF OneActive
    <3>1. \A x \in Scrapes : x # s => scrape'[x] = scrape[x]
      BY <1>0, <2>2 DEF TypeOK
    <3>2. \A x \in Scrapes : ~Active(x)
      BY <2>2, NoneInFlight
    <3> QED
      BY <3>1, <3>2 DEF Active
  <2> QED
    BY <1>0, <2>2, <2>4, <2>5 DEF IInv, NoPanic
<1>3. ASSUME NEW s \in Scrapes, NEW k \in Requests, Refuse(s, k) PROVE IInv'
  <2> DEFINE q == [IdleScrape EXCEPT !.kind = k, !.result = "refused"]
  <2>1. q.pc = "idle" /\ q.out = {}
    BY DEF IdleScrape
  <2>2. scrape' = [scrape EXCEPT ![s] = q] /\ desc' = desc /\ crashed' = crashed
    BY <1>3 DEF Refuse
  <2> HIDE DEF q
  <2> QED
    BY <1>0, <2>1, <2>2, SafeOther DEF OwnOut
<1>4. ASSUME NEW s \in Scrapes, List(s) PROVE IInv'
  <2> DEFINE c == IF StatsGroup = 0 THEN "next" ELSE "stats"
  <2>1. PICK l \in ReportLists :
          scrape' = [scrape EXCEPT ![s] = [scrape[s] EXCEPT !.reports = l, !.next = 1, !.pc = c]]
    BY <1>4 DEF List
  <2> DEFINE q == [scrape[s] EXCEPT !.reports = l, !.next = 1, !.pc = c]
  <2>2. q.pc = c /\ q.out = scrape[s].out
    BY <1>1 DEF ScrapeSet
  <2>3. Active(s) /\ desc' = desc /\ crashed' = crashed
    BY <1>4 DEF List, Active
  <2>4. scrape' = [scrape EXCEPT ![s] = q]
    BY <2>1
  <2> HIDE DEF q
  <2> QED
    BY <1>0, <1>1, <2>2, <2>3, <2>4, SafeOther DEF OwnOut
<1>5. ASSUME NEW s \in Scrapes, Stats(s) PROVE IInv'
  <2>1. PICK w \in SUBSET Objects :
          scrape' = [scrape EXCEPT ![s] = [scrape[s] EXCEPT !.stats = w, !.pc = "next"]]
    BY <1>5 DEF Stats
  <2> DEFINE q == [scrape[s] EXCEPT !.stats = w, !.pc = "next"]
  <2>2. q.pc = "next" /\ q.out = scrape[s].out
    BY <1>1 DEF ScrapeSet
  <2>3. Active(s) /\ desc' = desc /\ crashed' = crashed
    BY <1>5 DEF Stats, Active
  <2> HIDE DEF q
  <2> QED
    BY <1>0, <1>1, <2>1, <2>2, <2>3, SafeOther DEF OwnOut, q
<1>6. ASSUME NEW s \in Scrapes, NEW v \in {"failed", "ok"},
             scrape' = [scrape EXCEPT ![s] = [scrape[s] EXCEPT !.pc = "idle", !.result = v]],
             desc' = desc, crashed' = crashed
      PROVE  IInv'
  <2> DEFINE q == [scrape[s] EXCEPT !.pc = "idle", !.result = v]
  <2>1. q.pc = "idle" /\ q.out = scrape[s].out
    BY <1>1 DEF ScrapeSet
  <2> HIDE DEF q
  <2> QED
    BY <1>0, <1>1, <1>6, <2>1, SafeOther DEF OwnOut, q
<1>7. ASSUME NEW s \in Scrapes, NextObject(s) PROVE IInv'
  <2>1. PICK i \in ObjectLabels(Object(s)) :
          scrape' = [scrape EXCEPT ![s] =
                       [scrape[s] EXCEPT !.info = i, !.group = 1, !.pos = 1, !.pc = "write"]]
    BY <1>7 DEF NextObject
  <2> DEFINE q == [scrape[s] EXCEPT !.info = i, !.group = 1, !.pos = 1, !.pc = "write"]
  <2>2. /\ q.pc = "write" /\ q.out = scrape[s].out /\ q.info = i /\ q.pos = 1
        /\ q.reports = scrape[s].reports /\ q.next = scrape[s].next
    BY <1>1 DEF ScrapeSet
  <2>3. Active(s) /\ desc' = desc /\ crashed' = crashed
    BY <1>7 DEF NextObject, Active
  <2> HIDE DEF q
  <2>4. RInv(q, desc)
    BY <1>1, <2>2 DEF RInv, OwnInfo, OwnDescs, OwnOut, Stored, Object
  <2>5. scrape' = [scrape EXCEPT ![s] = q]
    BY <2>1 DEF q
  <2>6. \A t \in Scrapes : RInv(scrape'[t], desc')
    BY <2>3, <2>4, <2>5, RInvOneScrape
  <2>7. OneActive'
    BY <2>3, <2>5, OneActiveKept
  <2> QED
    BY <1>0, <2>3, <2>6, <2>7 DEF IInv, NoPanic
<1>8. ASSUME NEW s \in Scrapes, WriteDesc(s) PROVE IInv'
  BY <1>0, <1>8, SafeWrite
<1>9. ASSUME NEW s \in Scrapes, EmitMetric(s) PROVE IInv'
  BY <1>0, <1>9, SafeEmit
<1>10. CASE UNCHANGED vars
  BY <1>0, <1>10 DEF vars, IInv, NoPanic, OneActive, Active
<1> QED
  BY <1>2, <1>3, <1>4, <1>5, <1>6, <1>7, <1>8, <1>9, <1>10 DEF Next, Fail, Return

\* When no two labels collide and either all objects have one label list or one
\* request is served at a time, no scrape ends the process in
\* mustNewConstMetric (collector/collector.go:153).
THEOREM PanicFree == Safe /\ Spec => []NoPanic
<1>1. Init => IInv
  BY SafeInit
<1>2. Safe /\ IInv /\ [Next]_vars => IInv'
  BY SafeNext
<1>3. IInv => NoPanic
  BY DEF IInv
<1> QED
  <2>1. CASE Safe
    <3>1. IInv /\ [Next]_vars => IInv'
      BY <1>2, <2>1
    <3> QED
      BY <1>1, <1>3, <3>1, PTL DEF Spec
  <2> QED
    BY <2>1

\* Under the same conditions every series carries the label names its own
\* values were computed with, however scrapes interleave.
THEOREM SeriesOwnLabels == Safe /\ Spec => []OwnLabels
<1>1. Init => IInv
  BY SafeInit
<1>2. Safe /\ IInv /\ [Next]_vars => IInv'
  BY SafeNext
<1>3. IInv => OwnLabels
  BY DEF IInv, RInv, OwnOut, OwnLabels
<1> QED
  <2>1. CASE Safe
    <3>1. IInv /\ [Next]_vars => IInv'
      BY <1>2, <2>1
    <3> QED
      BY <1>1, <1>3, <3>1, PTL DEF Spec
  <2> QED
    BY <2>1

-----------------------------------------------------------------------------
(* Whole scrapes, under any interleaving and whatever labels collide: what    *)
(* Update has sent at each point of its loop                                 *)

\* group g has field f for object o
OfGroup(r, g, o, f) == f \in Rng(Groups[g].emit) /\ (g = StatsGroup => o \in r.stats)

\* Sent for an earlier object, or for the current one in an earlier group ...
SentBefore(r, o, f) ==
  \/ \E i \in 1..(r.next - 1) : o = r.reports[i] /\ \E g \in 1..Len(Groups) : OfGroup(r, g, o, f)
  \/ /\ r.pc \in {"write", "emit"} /\ o = r.reports[r.next]
     /\ \E g \in 1..(r.group - 1) : OfGroup(r, g, o, f)

\* ... or in the current group.
SentNow(r, o, f) ==
  /\ r.pc = "emit" /\ o = r.reports[r.next]
  /\ \E i \in 1..(r.pos - 1) : f = Groups[r.group].emit[i]

Sent(r, o, f) == SentBefore(r, o, f) \/ SentNow(r, o, f)

IsOut(r, o, f) == \E m \in r.out : m.object = o /\ m.field = f
IsOwed(r, o, f) == o \in Rng(r.reports) /\ \E g \in 1..Len(Groups) : OfGroup(r, g, o, f)

RWhole(r) ==
  /\ r.pc \in {"list", "stats"} => r.out = {} /\ r.next = 1
  /\ r.pc \in {"next", "write", "emit"} =>
       \A o \in Objects, f \in Fields : IsOut(r, o, f) <=> Sent(r, o, f)
  /\ r.pc = "emit" => (r.group = StatsGroup => r.reports[r.next] \in r.stats)
  /\ r.pc # "idle" => r.result = "none"
  /\ r.result = "ok" => \A o \in Objects, f \in Fields : IsOut(r, o, f) <=> IsOwed(r, o, f)
  /\ r.result = "failed" => r.out = {}

WholeInv == TypeOK /\ \A s \in Scrapes : RWhole(scrape[s])

\* After a group the locals are at the next group, or at the next object.
LEMMA AfterGroupFields ==
  ASSUME NEW s \in Scrapes, scrape[s] \in ScrapeSet
  PROVE  LET r == scrape[s]
             q == AfterGroup(s)
         IN  /\ q.reports = r.reports /\ q.stats = r.stats /\ q.out = r.out
             /\ q.result = r.result
             /\ \/ r.group = Len(Groups) /\ q.pc = "next" /\ q.next = r.next + 1
                \/ /\ r.group # Len(Groups) /\ q.pc = "write" /\ q.next = r.next
                   /\ q.group = r.group + 1
<1> DEFINE r == scrape[s]
           q == AfterGroup(s)
<1>1. CASE NoMoreGroups(s)
  <2>1. q = [r EXCEPT !.pc = "next", !.next = @ + 1]
    BY <1>1 DEF AfterGroup
  <2>2. r.group = Len(Groups)
    BY <1>1 DEF NoMoreGroups
  <2> HIDE DEF r, q
  <2>3. /\ q.reports = r.reports /\ q.stats = r.stats /\ q.out = r.out
        /\ q.result = r.result /\ q.pc = "next" /\ q.next = r.next + 1
    BY <2>1 DEF ScrapeSet, r
  <2> QED
    BY <2>2, <2>3 DEF r, q
<1>2. CASE ~NoMoreGroups(s)
  <2>1. q = [r EXCEPT !.pc = "write", !.group = @ + 1, !.pos = 1]
    BY <1>2 DEF AfterGroup
  <2>2. r.group # Len(Groups)
    BY <1>2 DEF NoMoreGroups
  <2> HIDE DEF r, q
  <2>3. /\ q.reports = r.reports /\ q.stats = r.stats /\ q.out = r.out
        /\ q.result = r.result /\ q.pc = "write" /\ q.next = r.next /\ q.group = r.group + 1
    BY <2>1 DEF ScrapeSet, r
  <2> QED
    BY <2>2, <2>3 DEF r, q
<1> QED
  BY <1>1, <1>2

\* After a write the locals are in the same group, before or at its first read,
\* unless the group is one the object has no series of.
LEMMA AfterWriteFields ==
  ASSUME NEW s \in Scrapes, scrape[s] \in ScrapeSet, scrape[s].pc = "write"
  PROVE  LET r == scrape[s]
             q == AfterWrite(s)
         IN  \/ /\ q.reports = r.reports /\ q.stats = r.stats /\ q.out = r.out
                /\ q.result = r.result /\ q.next = r.next /\ q.group = r.group
                /\ q.pc = "write" \/ (q.pc = "emit" /\ q.pos = 1 /\ Emitted(s, r.group))
             \/ q = AfterGroup(s) /\ ~Emitted(s, r.group)
<1> DEFINE r == scrape[s]
           q == AfterWrite(s)
<1>1. CASE r.pos < Len(Groups[r.group].write)
  <2>1. q = [r EXCEPT !.pos = @ + 1]
    BY <1>1 DEF AfterWrite
  <2> HIDE DEF r, q
  <2>2. /\ q.reports = r.reports /\ q.stats = r.stats /\ q.out = r.out
        /\ q.result = r.result /\ q.next = r.next /\ q.group = r.group /\ q.pc = r.pc
    BY <2>1 DEF ScrapeSet, r
  <2> QED
    BY <2>2 DEF r, q
<1>2. CASE ~(r.pos < Len(Groups[r.group].write)) /\ Emitted(s, r.group)
  <2>1. q = [r EXCEPT !.pc = "emit", !.pos = 1]
    BY <1>2 DEF AfterWrite
  <2> HIDE DEF r, q
  <2>2. /\ q.reports = r.reports /\ q.stats = r.stats /\ q.out = r.out
        /\ q.result = r.result /\ q.next = r.next /\ q.group = r.group
        /\ q.pc = "emit" /\ q.pos = 1
    BY <2>1 DEF ScrapeSet, r
  <2> QED
    BY <1>2, <2>2 DEF r, q
<1>3. CASE ~(r.pos < Len(Groups[r.group].write)) /\ ~Emitted(s, r.group)
  BY <1>3 DEF AfterWrite
<1> QED
  BY <1>1, <1>2, <1>3

\* After a metric is sent the locals are at the next of its group, or behind it.
LEMMA AfterEmitFields ==
  ASSUME NEW s \in Scrapes, scrape[s] \in ScrapeSet, scrape[s].pc = "emit"
  PROVE  LET r == scrape[s]
             q == AfterEmit(s)
         IN  \/ /\ q.reports = r.reports /\ q.stats = r.stats /\ q.out = r.out
                /\ q.result = r.result /\ q.next = r.next /\ q.group = r.group
                /\ q.pc = "emit" /\ q.pos = r.pos + 1
             \/ q = AfterGroup(s) /\ ~(r.pos < Len(Groups[r.group].emit))
<1> DEFINE r == scrape[s]
           q == AfterEmit(s)
<1>1. CASE r.pos < Len(Groups[r.group].emit)
  <2>1. q = [r EXCEPT !.pos = @ + 1]
    BY <1>1 DEF AfterEmit
  <2> HIDE DEF r, q
  <2>2. /\ q.reports = r.reports /\ q.stats = r.stats /\ q.out = r.out
        /\ q.result = r.result /\ q.next = r.next /\ q.group = r.group /\ q.pc = r.pc
        /\ q.pos = r.pos + 1
    BY <2>1 DEF ScrapeSet, r
  <2> QED
    BY <2>2 DEF r, q
<1>2. CASE ~(r.pos < Len(Groups[r.group].emit))
  BY <1>2 DEF AfterEmit
<1> QED
  BY <1>1, <1>2

\* What is sent once the current group of the current object is done: what was
\* sent before it, and all of the group.
LEMMA SentGroup ==
  ASSUME NEW r, NEW q, NEW o, NEW f,
         r.group \in 1..Len(Groups), Len(Groups) \in Nat, r.next \in Nat \ {0},
         r.pc \in {"write", "emit"}, q.reports = r.reports, q.stats = r.stats,
         \/ r.group = Len(Groups) /\ q.pc = "next" /\ q.next = r.next + 1
         \/ /\ r.group # Len(Groups) /\ q.pc = "write" /\ q.next = r.next
            /\ q.group = r.group + 1
  PROVE  Sent(q, o, f) <=>
           \/ SentBefore(r, o, f)
           \/ o = r.reports[r.next] /\ OfGroup(r, r.group, o, f)
<1>1. \A g : OfGroup(q, g, o, f) <=> OfGroup(r, g, o, f)
  BY DEF OfGroup
<1>2. CASE r.group = Len(Groups) /\ q.pc = "next" /\ q.next = r.next + 1
  <2>1. 1..(q.next - 1) = 1..(r.next - 1) \cup {r.next}
    BY <1>2
  <2>2. 1..Len(Groups) = 1..(r.group - 1) \cup {r.group}
    BY <1>2
  <2> QED
    BY <1>1, <1>2, <2>1, <2>2 DEF Sent, SentBefore, SentNow
<1>3. CASE r.group # Len(Groups) /\ q.pc = "write" /\ q.next = r.next /\ q.group = r.group + 1
  <2>1. 1..(q.group - 1) = 1..(r.group - 1) \cup {r.group}
    BY <1>3
  <2> QED
    BY <1>1, <1>3, <2>1 DEF Sent, SentBefore, SentNow
<1> QED
  BY <1>2, <1>3

\* Only the out, and where the loop is, count for RWhole while it runs.
LEMMA WholeOneScrape ==
  ASSUME WholeInv, TypeOK', NEW s \in Scrapes, NEW q,
         scrape' = [scrape EXCEPT ![s] = q], RWhole(q)
  PROVE  WholeInv'
<1>1. \A t \in Scrapes : scrape'[t] = IF t = s THEN q ELSE scrape[t]
  BY DEF WholeInv, TypeOK
<1> QED
  BY <1>1 DEF WholeInv

\* The initial state satisfies the invariant.
LEMMA WholeInit == Init => WholeInv
<1> SUFFICES ASSUME Init PROVE WholeInv
  OBVIOUS
<1>1. RWhole(IdleScrape)
  BY DEF RWhole, IdleScrape
<1>2. \A s \in Scrapes : scrape[s] = IdleScrape
  BY DEF Init
<1> QED
  BY <1>1, <1>2, TypeInit DEF WholeInv

\* Storing a descriptor sends nothing, and passes over a group only if the object
\* has no series of it.
LEMMA WholeWrite ==
  ASSUME WholeInv, TypeOK', NEW s \in Scrapes, WriteDesc(s)
  PROVE  WholeInv'
<1> DEFINE r == scrape[s]
           q == AfterWrite(s)
<1>1. r.pc = "write" /\ scrape' = [scrape EXCEPT ![s] = q]
  BY DEF WriteDesc
<1>2. /\ RWhole(r) /\ r \in ScrapeSet /\ Cursors(r)
      /\ r.group \in 1..Len(Groups) /\ Len(Groups) \in Nat /\ r.next \in Nat \ {0}
  BY CursorsType, CursorsInt, GroupSize DEF WholeInv, Cursors
<1>3. Emitted(s, r.group) <=> (r.group = StatsGroup => r.reports[r.next] \in r.stats)
  BY DEF Emitted, HasStats, Object
<1>4. CASE q = AfterGroup(s) /\ ~Emitted(s, r.group)
  <2>1. /\ q.reports = r.reports /\ q.stats = r.stats /\ q.out = r.out
        /\ q.result = r.result
        /\ \/ r.group = Len(Groups) /\ q.pc = "next" /\ q.next = r.next + 1
           \/ /\ r.group # Len(Groups) /\ q.pc = "write" /\ q.next = r.next
              /\ q.group = r.group + 1
    BY <1>2, <1>4, AfterGroupFields
  <2> HIDE DEF q
  <2>2. ASSUME NEW o \in Objects, NEW f \in Fields
        PROVE  IsOut(q, o, f) <=> Sent(q, o, f)
    <3>1. Sent(q, o, f) <=> \/ SentBefore(r, o, f)
                            \/ o = r.reports[r.next] /\ OfGroup(r, r.group, o, f)
      BY <1>1, <1>2, <2>1, SentGroup
    <3>2. ~(o = r.reports[r.next] /\ OfGroup(r, r.group, o, f))
      BY <1>3, <1>4 DEF OfGroup
    <3>3. Sent(r, o, f) <=> SentBefore(r, o, f)
      BY <1>1 DEF Sent, SentNow
    <3>4. IsOut(q, o, f) <=> IsOut(r, o, f)
      BY <2>1 DEF IsOut
    <3>5. IsOut(r, o, f) <=> Sent(r, o, f)
      BY <1>1, <1>2 DEF RWhole
    <3> QED
      BY <3>1, <3>2, <3>3, <3>4, <3>5
  <2>3. q.pc \in {"next", "write"} /\ q.result = "none"
    BY <1>1, <1>2, <2>1 DEF RWhole
  <2>4. RWhole(q)
    BY <2>2, <2>3 DEF RWhole
  <2> QED
    BY <1>1, <2>4, WholeOneScrape DEF q
<1>5. CASE /\ q.reports = r.reports /\ q.stats = r.stats /\ q.out = r.out
           /\ q.result = r.result /\ q.next = r.next /\ q.group = r.group
           /\ q.pc = "write" \/ (q.pc = "emit" /\ q.pos = 1 /\ Emitted(s, r.group))
  <2> HIDE DEF q
  <2>1. ASSUME NEW o \in Objects, NEW f \in Fields
        PROVE  IsOut(q, o, f) <=> Sent(q, o, f)
    <3>1. IsOut(q, o, f) <=> Sent(r, o, f)
      BY <1>1, <1>2, <1>5 DEF RWhole, IsOut
    <3>2. Sent(r, o, f) <=> SentBefore(r, o, f)
      BY <1>1 DEF Sent, SentNow
    <3>3. SentBefore(q, o, f) <=> SentBefore(r, o, f)
      BY <1>1, <1>5 DEF SentBefore, OfGroup
    <3>4. ~SentNow(q, o, f)
      BY <1>5 DEF SentNow
    <3> QED
      BY <3>1, <3>2, <3>3, <3>4 DEF Sent
  <2>2. q.result = "none"
    BY <1>1, <1>2, <1>5 DEF RWhole
  <2>3. RWhole(q)
    BY <1>3, <1>5, <2>1, <2>2 DEF RWhole
  <2> QED
    BY <1>1, <2>3, WholeOneScrape DEF q
<1> QED
  BY <1>1, <1>2, <1>4, <1>5, AfterWriteFields

\* Emitting sends the one series of the current group that is next.
LEMMA WholeEmit ==
  ASSUME WholeInv, TypeOK', NEW s \in Scrapes, EmitMetric(s)
  PROVE  WholeInv'
<1> DEFINE r == scrape[s]
           e == Groups[r.group].emit[r.pos]
           d == AfterEmit(s)
           m == Series(s, e)
           q == [d EXCEPT !.out = d.out \cup {m}]
<1>1. r.pc = "emit"
  BY DEF EmitMetric
<1>2. /\ RWhole(r) /\ r \in ScrapeSet /\ Cursors(r)
      /\ r.group \in 1..Len(Groups) /\ Len(Groups) \in Nat /\ r.next \in Nat \ {0}
      /\ r.pos \in 1..Len(Groups[r.group].emit) /\ Len(Groups[r.group].emit) \in Nat
  BY CursorsType, CursorsInt, GroupSize DEF WholeInv, Cursors
<1>3. m.object = r.reports[r.next] /\ m.field = e
  BY DEF Series, Object
<1>4. d \in ScrapeSet
  BY <1>1, <1>2, TypeAfterEmit DEF Cursors
<1>5. CASE crashed'
  <2>1. scrape' = scrape
    BY <1>5 DEF EmitMetric
  <2> QED
    BY <2>1 DEF WholeInv
<1>6. CASE ~crashed'
  <2>1. scrape' = [scrape EXCEPT ![s] = q]
    BY <1>6 DEF EmitMetric
  <2> HIDE DEF e, d, m
  <2>2. /\ q.pc = d.pc /\ q.next = d.next /\ q.pos = d.pos /\ q.group = d.group
        /\ q.reports = d.reports /\ q.stats = d.stats /\ q.result = d.result
        /\ q.out = d.out \cup {m}
    BY <1>4 DEF ScrapeSet
  <2> HIDE DEF q
  <2>3. ASSUME NEW o \in Objects, NEW f \in Fields, d.out = r.out
        PROVE  IsOut(q, o, f) <=>
                 \/ SentBefore(r, o, f)
                 \/ /\ o = r.reports[r.next]
                    /\ \E i \in 1..r.pos : f = Groups[r.group].emit[i]
    <3>1. IsOut(q, o, f) <=> IsOut(r, o, f) \/ (m.object = o /\ m.field = f)
      BY <2>2, <2>3 DEF IsOut
    <3>2. IsOut(r, o, f) <=> Sent(r, o, f)
      BY <1>1, <1>2 DEF RWhole
    <3>3. 1..r.pos = 1..(r.pos - 1) \cup {r.pos}
      BY <1>2
    <3> QED
      BY <1>1, <1>3, <3>1, <3>2, <3>3 DEF Sent, SentNow, e
  <2>4. r.result = "none" /\ (r.group = StatsGroup => r.reports[r.next] \in r.stats)
    BY <1>1, <1>2 DEF RWhole
  <2>5. CASE d = AfterGroup(s) /\ ~(r.pos < Len(Groups[r.group].emit))
    <3>1. /\ d.reports = r.reports /\ d.stats = r.stats /\ d.out = r.out
          /\ d.result = r.result
          /\ \/ r.group = Len(Groups) /\ d.pc = "next" /\ d.next = r.next + 1
             \/ /\ r.group # Len(Groups) /\ d.pc = "write" /\ d.next = r.next
                /\ d.group = r.group + 1
      BY <1>2, <2>5, AfterGroupFields
    <3>2. r.pos = Len(Groups[r.group].emit)
      BY <1>2, <2>5
    <3>3. ASSUME NEW o \in Objects, NEW f \in Fields
          PROVE  IsOut(q, o, f) <=> Sent(q, o, f)
      <4>1. Sent(q, o, f) <=> \/ SentBefore(r, o, f)
                              \/ o = r.reports[r.next] /\ OfGroup(r, r.group, o, f)
        BY <1>1, <1>2, <2>2, <3>1, SentGroup
      <4>2. OfGroup(r, r.group, r.reports[r.next], f) <=>
              \E i \in 1..r.pos : f = Groups[r.group].emit[i]
        BY <2>4, <3>2 DEF OfGroup, Rng
      <4> QED
        BY <2>3, <3>1, <4>1, <4>2
    <3>4. q.pc \in {"next", "write"} /\ q.result = "none"
      BY <2>2, <2>4, <3>1
    <3>5. RWhole(q)
      BY <3>3, <3>4 DEF RWhole
    <3> QED
      BY <2>1, <3>5, WholeOneScrape
  <2>6. CASE /\ d.reports = r.reports /\ d.stats = r.stats /\ d.out = r.out
             /\ d.result = r.result /\ d.next = r.next /\ d.group = r.group
             /\ d.pc = "emit" /\ d.pos = r.pos + 1
    <3>1. ASSUME NEW o \in Objects, NEW f \in Fields
          PROVE  IsOut(q, o, f) <=> Sent(q, o, f)
      <4>1. SentBefore(q, o, f) <=> SentBefore(r, o, f)
        BY <1>1, <2>2, <2>6 DEF SentBefore, OfGroup
      <4>2. SentNow(q, o, f) <=> /\ o = r.reports[r.next]
                                 /\ \E i \in 1..r.pos : f = Groups[r.group].emit[i]
        <5>1. q.pos - 1 = r.pos
          BY <1>2, <2>2, <2>6
        <5> QED
          BY <2>2, <2>6, <5>1 DEF SentNow
      <4> QED
        BY <2>3, <2>6, <4>1, <4>2 DEF Sent
    <3>2. RWhole(q)
      BY <2>2, <2>4, <2>6, <3>1 DEF RWhole
    <3> QED
      BY <2>1, <3>2, WholeOneScrape
  <2> QED
    BY <1>1, <1>2, <2>5, <2>6, AfterEmitFields DEF d
<1> QED
  BY <1>5, <1>6

\* Every step keeps the invariant.
LEMMA WholeNext == WholeInv /\ [Next]_vars => WholeInv'
<1> SUFFICES ASSUME WholeInv, [Next]_vars PROVE WholeInv'
  OBVIOUS
<1>0. TypeOK' /\ TypeOK
  BY TypeNext DEF WholeInv
<1>1. \A s \in Scrapes : scrape[s] \in ScrapeSet /\ RWhole(scrape[s]) /\ Cursors(scrape[s])
  BY <1>0, CursorsType DEF TypeOK, WholeInv
<1>2. ASSUME NEW s \in Scrapes, NEW k \in Requests, Admit(s, k) PROVE WholeInv'
  <2> DEFINE q == [IdleScrape EXCEPT !.pc = "list", !.kind = k]
  <2>1. q.pc = "list" /\ q.out = {} /\ q.next = 1 /\ q.result = "none"
    BY DEF IdleScrape
  <2>2. scrape' = [scrape EXCEPT ![s] = q]
    BY <1>2 DEF Admit
  <2> HIDE DEF q
  <2>3. RWhole(q)
    BY <2>1 DEF RWhole
  <2> QED
    BY <1>0, <2>2, <2>3, WholeOneScrape
<1>3. ASSUME NEW s \in Scrapes, NEW k \in Requests, Refuse(s, k) PROVE WholeInv'
  <2> DEFINE q == [IdleScrape EXCEPT !.kind = k, !.result = "refused"]
  <2>1. q.pc = "idle" /\ q.result = "refused"
    BY DEF IdleScrape
  <2>2. scrape' = [scrape EXCEPT ![s] = q]
    BY <1>3 DEF Refuse
  <2> HIDE DEF q
  <2>3. RWhole(q)
    BY <2>1 DEF RWhole
  <2> QED
    BY <1>0, <2>2, <2>3, WholeOneScrape
<1>4. ASSUME NEW s \in Scrapes, List(s) PROVE WholeInv'
  <2> DEFINE r == scrape[s]
             c == IF StatsGroup = 0 THEN "next" ELSE "stats"
  <2>1. PICK l \in ReportLists :
          scrape' = [scrape EXCEPT ![s] = [r EXCEPT !.reports = l, !.next = 1, !.pc = c]]
    BY <1>4 DEF List
  <2> DEFINE q == [r EXCEPT !.reports = l, !.next = 1, !.pc = c]
  <2>2. q.pc = c /\ q.out = r.out /\ q.next = 1 /\ q.result = r.result
    BY <1>1 DEF ScrapeSet
  <2>3. r.pc = "list"
    BY <1>4 DEF List
  <2> HIDE DEF q
  <2>4. q.out = {} /\ q.result = "none" /\ q.pc \in {"next", "stats"}
    BY <1>1, <2>2, <2>3 DEF RWhole
  <2>5. RWhole(q)
    BY <2>2, <2>4 DEF RWhole, IsOut, Sent, SentBefore, SentNow
  <2> QED
    BY <1>0, <2>1, <2>5, WholeOneScrape DEF q
<1>5. ASSUME NEW s \in Scrapes, Stats(s) PROVE WholeInv'
  <2> DEFINE r == scrape[s]
  <2>1. PICK w \in SUBSET Objects :
          scrape' = [scrape EXCEPT ![s] = [r EXCEPT !.stats = w, !.pc = "next"]]
    BY <1>5 DEF Stats
  <2> DEFINE q == [r EXCEPT !.stats = w, !.pc = "next"]
  <2>2. q.pc = "next" /\ q.out = r.out /\ q.next = r.next /\ q.result = r.result
    BY <1>1 DEF ScrapeSet
  <2>3. r.pc = "stats"
    BY <1>5 DEF Stats
  <2> HIDE DEF q
  <2>4. q.out = {} /\ q.next = 1 /\ q.result = "none"
    BY <1>1, <2>2, <2>3 DEF RWhole
  <2>5. RWhole(q)
    BY <2>2, <2>4 DEF RWhole, IsOut, Sent, SentBefore, SentNow
  <2> QED
    BY <1>0, <2>1, <2>5, WholeOneScrape DEF q
<1>6. ASSUME NEW s \in Scrapes, Fail(s) PROVE WholeInv'
  <2> DEFINE r == scrape[s]
             q == [r EXCEPT !.pc = "idle", !.result = "failed"]
  <2>1. r.pc \in {"list", "stats"} /\ scrape' = [scrape EXCEPT ![s] = q]
    BY <1>6 DEF Fail
  <2>2. q.pc = "idle" /\ q.result = "failed" /\ q.out = r.out
    BY <1>1 DEF ScrapeSet
  <2> HIDE DEF q
  <2>3. RWhole(q)
    BY <1>1, <2>1, <2>2 DEF RWhole
  <2> QED
    BY <1>0, <2>1, <2>3, WholeOneScrape
<1>7. ASSUME NEW s \in Scrapes, NextObject(s) PROVE WholeInv'
  <2> DEFINE r == scrape[s]
  <2>1. PICK i \in ObjectLabels(Object(s)) :
          scrape' = [scrape EXCEPT ![s] =
                       [r EXCEPT !.info = i, !.group = 1, !.pos = 1, !.pc = "write"]]
    BY <1>7 DEF NextObject
  <2> DEFINE q == [r EXCEPT !.info = i, !.group = 1, !.pos = 1, !.pc = "write"]
  <2>2. /\ q.pc = "write" /\ q.out = r.out /\ q.next = r.next /\ q.group = 1
        /\ q.result = r.result /\ q.reports = r.reports /\ q.stats = r.stats
    BY <1>1 DEF ScrapeSet
  <2>3. r.pc = "next" /\ r.result = "none"
    BY <1>1, <1>7 DEF NextObject, RWhole
  <2> HIDE DEF q
  <2>4. \A o \in Objects, f \in Fields : IsOut(q, o, f) <=> Sent(q, o, f)
    <3> SUFFICES ASSUME NEW o \in Objects, NEW f \in Fields
                 PROVE  IsOut(q, o, f) <=> Sent(q, o, f)
      OBVIOUS
    <3>1. IsOut(q, o, f) <=> Sent(r, o, f)
      BY <1>1, <2>2, <2>3 DEF RWhole, IsOut
    <3>2. Sent(q, o, f) <=> Sent(r, o, f)
      BY <2>2, <2>3 DEF Sent, SentBefore, SentNow, OfGroup
    <3> QED
      BY <3>1, <3>2
  <2>5. RWhole(q)
    BY <2>2, <2>3, <2>4 DEF RWhole
  <2> QED
    BY <1>0, <2>1, <2>5, WholeOneScrape DEF q
<1>8. ASSUME NEW s \in Scrapes, Return(s) PROVE WholeInv'
  <2> DEFINE r == scrape[s]
             q == [r EXCEPT !.pc = "idle", !.result = "ok"]
  <2>1. r.pc = "next" /\ r.next > Len(r.reports) /\ scrape' = [scrape EXCEPT ![s] = q]
    BY <1>8 DEF Return
  <2>2. /\ q.pc = "idle" /\ q.result = "ok" /\ q.out = r.out
        /\ q.reports = r.reports /\ q.stats = r.stats
    BY <1>1 DEF ScrapeSet
  <2>3. r.next - 1 = Len(r.reports)
    BY <1>1, <2>1, CursorsInt DEF Cursors
  <2> HIDE DEF q
  <2>4. ASSUME NEW o \in Objects, NEW f \in Fields
        PROVE  IsOut(q, o, f) <=> IsOwed(q, o, f)
    <3>1. IsOut(q, o, f) <=> Sent(r, o, f)
      BY <1>1, <2>1, <2>2 DEF RWhole, IsOut
    <3>2. IsOwed(q, o, f) <=> Sent(r, o, f)
      BY <2>1, <2>2, <2>3 DEF IsOwed, Sent, SentBefore, SentNow, OfGroup, Rng
    <3> QED
      BY <3>1, <3>2
  <2>5. RWhole(q)
    BY <2>2, <2>4 DEF RWhole
  <2> QED
    BY <1>0, <2>1, <2>5, WholeOneScrape
<1>9. ASSUME NEW s \in Scrapes, WriteDesc(s) PROVE WholeInv'
  BY <1>0, <1>9, WholeWrite
<1>10. ASSUME NEW s \in Scrapes, EmitMetric(s) PROVE WholeInv'
  BY <1>0, <1>10, WholeEmit
<1>11. CASE UNCHANGED vars
  BY <1>0, <1>11 DEF vars, WholeInv
<1> QED
  BY <1>2, <1>3, <1>4, <1>5, <1>6, <1>7, <1>8, <1>9, <1>10, <1>11 DEF Next

\* An Update that succeeds has sent every series it owes for what podman reported
\* and no other, and one that fails has sent none, however scrapes interleave and
\* whatever labels the objects have (collector/container.go:119-163 and its twins).
THEOREM ScrapesWhole == Spec => []ScrapeWhole
<1>1. Init => WholeInv
  BY WholeInit
<1>2. WholeInv /\ [Next]_vars => WholeInv'
  BY WholeNext
<1>3. WholeInv => ScrapeWhole
  <2> SUFFICES ASSUME WholeInv, NEW s \in Scrapes
               PROVE  /\ scrape[s].result = "ok" =>
                           {<<m.object, m.field>> : m \in scrape[s].out} = Owed(s)
                      /\ scrape[s].result = "failed" => scrape[s].out = {}
    BY DEF ScrapeWhole
  <2> DEFINE r == scrape[s]
             pairs == {<<m.object, m.field>> : m \in r.out}
  <2>1. RWhole(r) /\ r \in ScrapeSet /\ Cursors(r)
    BY CursorsType DEF WholeInv, Cursors
  <2>2. r.reports \in Seq(Objects) /\ Len(r.reports) \in Nat
    BY <2>1, CursorsInt
  <2>3. r.out \subseteq SeriesSet
    BY <2>1 DEF ScrapeSet
  <2>4. \A m \in r.out : m.object \in Objects /\ m.field \in Fields
    BY <2>3 DEF SeriesSet
  <2>5. Rng(r.reports) \subseteq Objects
    BY <2>2 DEF Rng
  <2>6. CASE r.result = "ok"
    <3>1. \A o \in Objects, f \in Fields : IsOut(r, o, f) <=> IsOwed(r, o, f)
      BY <2>1, <2>6 DEF RWhole
    <3>2. \A o \in Objects, f \in Fields : <<o, f>> \in pairs <=> IsOut(r, o, f)
      BY DEF IsOut
    <3>3. \A o \in Objects, f \in Fields : <<o, f>> \in Owed(s) <=> IsOwed(r, o, f)
      BY DEF Owed, IsOwed, OfGroup
    <3>4. pairs \subseteq Objects \X Fields /\ Owed(s) \subseteq Objects \X Fields
      BY <2>4, <2>5 DEF Owed
    <3> HIDE DEF pairs, r
    <3>5. pairs = Owed(s)
      BY <3>1, <3>2, <3>3, <3>4
    <3> QED
      BY <2>6, <3>5 DEF pairs, r
  <2> QED
    BY <2>1, <2>6 DEF RWhole
<1> QED
  BY <1>1, <1>2, <1>3, PTL DEF Spec
=============================================================================
