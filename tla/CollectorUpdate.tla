------------------------- MODULE CollectorUpdate -------------------------
(***************************************************************************)
(* One of the collectors whose metrics carry variable labels (container,   *)
(* pod, image) and the scrapes that run its Update method concurrently.    *)
(*                                                                         *)
(* NewPodmanCollector hands the same collector object to every handler, so *)
(* all scrapes share its typedDesc fields.  For each object podman reports *)
(* Update first stores a group of descriptors in those fields and then     *)
(* builds the metrics of the group from the fields it stored, passing the  *)
(* label values of its own object: two scrapes interleave their stores and *)
(* their reads.  prometheus.MustNewConstMetric panics when a descriptor is *)
(* invalid or does not take the number of values given; the panic is in a  *)
(* goroutine of Collect, which nothing recovers, so it ends the process.   *)
(*                                                                         *)
(* A label value is represented by the label name it belongs to: a series  *)
(* is labelled right when descriptor and values are the same sequence.     *)
(***************************************************************************)
EXTENDS Integers, Sequences, FiniteSets

CONSTANTS
  Scrapes,      \* requests the HTTP server may be serving at a time
  Requests,     \* the kinds of request: "plain", or "filtered" (collect[]=...)
  Objects,      \* the containers, pods or images podman may report
  ReportLists,  \* the lists of objects podman may return
  Groups,       \* the groups of fields, in order: [write, emit] sequences
  StatsGroup,   \* the group emitted only for an object with stats; 0 if none
  FullDesc,     \* label names of the info metric (containerDefaultLabels, ...)
  ShortDesc,    \* label names of the other metrics
  PodmanLabels, \* [Objects -> sets of the label names podman reports]
  Lower,        \* strings.ToLower on the label names podman reports
  Sanitize,     \* sanitizeLabelName on the label names podman reports
  Reserved,     \* the label names NewDesc refuses (prefix "__")
  StoreLabels,  \* --collector.store-labels
  Whitelist,    \* --collector.whitelisted-labels
  EnhanceAll,   \* --collector.enhance-metrics
  MaxRequests   \* --web.max-requests; 0 disables the limit

NoDesc == << >>

Rng(seq) == {seq[i] : i \in 1..Len(seq)}
Info == Groups[1].emit[1]
Fields == UNION {Rng(Groups[g].write) \cup Rng(Groups[g].emit) : g \in 1..Len(Groups)}

ASSUME GroupsAssumption ==
  /\ Groups \in Seq([write : Seq(STRING), emit : Seq(STRING)])
  /\ Len(Groups) > 0
  /\ \A g \in 1..Len(Groups) :
       /\ Len(Groups[g].write) > 0
       /\ Len(Groups[g].write) = Len(Groups[g].emit)
       /\ Rng(Groups[g].write) = Rng(Groups[g].emit)
  /\ StatsGroup \in 0..Len(Groups)
ASSUME LabelsAssumption ==
  /\ FullDesc \in Seq(STRING) /\ Len(FullDesc) > 0
  /\ ShortDesc \in Seq(STRING) /\ Len(ShortDesc) > 0
  /\ PodmanLabels \in [Objects -> SUBSET STRING]
  /\ \A o \in Objects :
       /\ IsFiniteSet(PodmanLabels[o])
       /\ \A l \in PodmanLabels[o] : Lower[l] \in STRING /\ Sanitize[l] \in STRING
ASSUME RequestsAssumption ==
  /\ Requests \subseteq {"plain", "filtered"}
  /\ ReportLists \subseteq Seq(Objects)
  /\ IsFiniteSet(Scrapes)
  /\ MaxRequests \in Nat
  /\ EnhanceAll \in BOOLEAN /\ StoreLabels \in BOOLEAN
  /\ Whitelist \subseteq STRING

VARIABLES
  desc,     \* [field -> the label names of c.<field>.desc], shared
  crashed,  \* a panic has ended the process
  scrape    \* [scrape -> its request and the locals of its Update]

vars == <<desc, crashed, scrape>>

-----------------------------------------------------------------------------
(* Label names and values of an object                                       *)

\* mutant: without the whitelist
SelectedAll(o) ==
  {l \in PodmanLabels[o] : \A i \in 1..Len(FullDesc) : FullDesc[i] # Lower[l]}

\* getExtraLabelsAndValues: the labels of the object that become metric labels
Selected(o) ==
  {l \in PodmanLabels[o] : /\ \A i \in 1..Len(FullDesc) : FullDesc[i] # Lower[l]
                           /\ StoreLabels \/ l \in Whitelist}

\* Go ranges over the label map in an order of its own at every call
Orders(S) ==
  {q \in [1..Cardinality(S) -> S] : \A i, j \in DOMAIN q : q[i] = q[j] => i = j}

\* getContainerDescLabel and its twins: default labels, then the extra ones
ObjectLabels(o) ==
  {[labels |-> FullDesc \o [i \in DOMAIN q |-> Sanitize[q[i]]],
    values |-> FullDesc \o [i \in DOMAIN q |-> Sanitize[q[i]]]] : q \in Orders(Selected(o))}

Full(f) == f = Info \/ EnhanceAll

\* mutant: the short labels on every field
DescOfShort(s, f) == ShortDesc

\* the labels of the descriptor built for field f, and the values it is read with
DescOf(s, f)   == IF Full(f) THEN scrape[s].info.labels ELSE ShortDesc
ValuesOf(s, f) == IF Full(f) THEN scrape[s].info.values ELSE ShortDesc

\* a descriptor without an error: no label twice, none with a reserved name
ValidDesc(d) ==
  /\ \A i, j \in 1..Len(d) : d[i] = d[j] => i = j
  /\ \A i \in 1..Len(d) : d[i] \notin Reserved

\* MustNewConstMetric, on a field that may also never have been set
Panics(d, v) == d = NoDesc \/ Len(d) # Len(v) \/ ~ValidDesc(d)

-----------------------------------------------------------------------------
NoInfo == [labels |-> << >>, values |-> << >>]
IdleScrape ==
  [pc |-> "idle", kind |-> "plain", reports |-> << >>, stats |-> {}, next |-> 1,
   info |-> NoInfo, group |-> 1, pos |-> 1, out |-> {}, result |-> "none"]

Init ==
  /\ desc = [f \in Fields |-> NoDesc]
  /\ crashed = FALSE
  /\ scrape = [s \in Scrapes |-> IdleScrape]

Active(s) == scrape[s].pc # "idle"
InFlight == {s \in Scrapes : Active(s) /\ scrape[s].kind = "plain"}

\* promhttp's semaphore: a handler made for one filtered request has its own
Admissible(k) == k = "filtered" \/ MaxRequests = 0 \/ Cardinality(InFlight) < MaxRequests

\* A request arrives while a slot is free: Gather calls Collect, Collect Update.
Admit(s, k) ==
  /\ ~crashed /\ ~Active(s)
  /\ Admissible(k)
  /\ scrape' = [scrape EXCEPT ![s] = [IdleScrape EXCEPT !.pc = "list", !.kind = k]]
  /\ UNCHANGED <<desc, crashed>>

\* A request arrives while all slots are taken: 503, nothing is collected.
Refuse(s, k) ==
  /\ ~crashed /\ ~Active(s)
  /\ ~Admissible(k)
  /\ scrape' = [scrape EXCEPT ![s] = [IdleScrape EXCEPT !.kind = k, !.result = "refused"]]
  /\ UNCHANGED <<desc, crashed>>

\* pdcs.Containers(), Pods() or Images() answers.
List(s) ==
  /\ ~crashed /\ scrape[s].pc = "list"
  /\ \E r \in ReportLists :
       scrape' = [scrape EXCEPT ![s] =
         [@ EXCEPT !.reports = r, !.next = 1, !.pc = IF StatsGroup = 0 THEN "next" ELSE "stats"]]
  /\ UNCHANGED <<desc, crashed>>

\* pdcs.ContainersStats() answers, later: its containers need not be those listed.
Stats(s) ==
  /\ ~crashed /\ scrape[s].pc = "stats"
  /\ \E w \in SUBSET Objects :
       scrape' = [scrape EXCEPT ![s] = [@ EXCEPT !.stats = w, !.pc = "next"]]
  /\ UNCHANGED <<desc, crashed>>

\* Either call fails: Update returns the error.
Fail(s) ==
  /\ ~crashed /\ scrape[s].pc \in {"list", "stats"}
  /\ scrape' = [scrape EXCEPT ![s] = [@ EXCEPT !.pc = "idle", !.result = "failed"]]
  /\ UNCHANGED <<desc, crashed>>

Object(s) == scrape[s].reports[scrape[s].next]

\* The loop takes the next object and computes its labels.
NextObject(s) ==
  /\ ~crashed /\ scrape[s].pc = "next"
  /\ scrape[s].next <= Len(scrape[s].reports)
  /\ \E info \in ObjectLabels(Object(s)) :
       scrape' = [scrape EXCEPT ![s] =
         [@ EXCEPT !.info = info, !.group = 1, !.pos = 1, !.pc = "write"]]
  /\ UNCHANGED <<desc, crashed>>

\* The loop is over: Update returns nil.
Return(s) ==
  /\ ~crashed /\ scrape[s].pc = "next"
  /\ scrape[s].next > Len(scrape[s].reports)
  /\ scrape' = [scrape EXCEPT ![s] = [@ EXCEPT !.pc = "idle", !.result = "ok"]]
  /\ UNCHANGED <<desc, crashed>>

HasStats(s) == Object(s) \in scrape[s].stats
\* mutant: without cntStat != nil
EmittedAlways(s, g) == TRUE

Emitted(s, g) == g # StatsGroup \/ HasStats(s)
NoMoreGroups(s) == scrape[s].group = Len(Groups)

\* the locals after group g of the current object is done
AfterGroup(s) ==
  IF NoMoreGroups(s)
    THEN [scrape[s] EXCEPT !.pc = "next", !.next = @ + 1]
    ELSE [scrape[s] EXCEPT !.pc = "write", !.group = @ + 1, !.pos = 1]

\* mutant: one field too many
AfterWriteOver(s) ==
  IF scrape[s].pos <= Len(Groups[scrape[s].group].write) THEN [scrape[s] EXCEPT !.pos = @ + 1]
  ELSE IF Emitted(s, scrape[s].group) THEN [scrape[s] EXCEPT !.pc = "emit", !.pos = 1]
  ELSE AfterGroup(s)

\* the locals after a field is stored, and after the metric of field f is sent
AfterWrite(s) ==
  IF scrape[s].pos < Len(Groups[scrape[s].group].write) THEN [scrape[s] EXCEPT !.pos = @ + 1]
  ELSE IF Emitted(s, scrape[s].group) THEN [scrape[s] EXCEPT !.pc = "emit", !.pos = 1]
  ELSE AfterGroup(s)
Series(s, f) ==
  [object |-> Object(s), field |-> f, labels |-> desc[f], values |-> ValuesOf(s, f)]
AfterEmit(s) ==
  IF scrape[s].pos < Len(Groups[scrape[s].group].emit)
    THEN [scrape[s] EXCEPT !.pos = @ + 1] ELSE AfterGroup(s)

\* c.<field>.desc = ..., one field of the current group
WriteDesc(s) ==
  /\ ~crashed /\ scrape[s].pc = "write"
  /\ LET f == Groups[scrape[s].group].write[scrape[s].pos]
     IN  desc' = [desc EXCEPT ![f] = DescOf(s, f)]
  /\ scrape' = [scrape EXCEPT ![s] = AfterWrite(s)]
  /\ UNCHANGED crashed

\* ch <- c.<field>.mustNewConstMetric(...), one field of the current group
EmitMetric(s) ==
  /\ ~crashed /\ scrape[s].pc = "emit"
  /\ LET f == Groups[scrape[s].group].emit[scrape[s].pos]
     IN  /\ crashed' = Panics(desc[f], ValuesOf(s, f))
         /\ scrape' = IF crashed' THEN scrape
                      ELSE [scrape EXCEPT ![s] =
                              [AfterEmit(s) EXCEPT !.out = @ \cup {Series(s, f)}]]
  /\ UNCHANGED desc

Next ==
  \E s \in Scrapes :
    \/ \E k \in Requests : Admit(s, k) \/ Refuse(s, k)
    \/ List(s) \/ Stats(s) \/ Fail(s)
    \/ NextObject(s) \/ Return(s)
    \/ WriteDesc(s) \/ EmitMetric(s)

Spec == Init /\ [][Next]_vars

-----------------------------------------------------------------------------
(* Properties                                                                *)

SeriesSet == [object : Objects, field : Fields, labels : Seq(STRING), values : Seq(STRING)]
InfoSet == [labels : Seq(STRING), values : Seq(STRING)]
Kinds == {"plain"} \cup Requests
Lists == ReportLists \cup {<< >>}
ScrapeSet ==
  [pc : {"idle", "list", "stats", "next", "write", "emit"}, kind : Kinds,
   reports : Lists, stats : SUBSET Objects, next : Nat \ {0}, info : InfoSet,
   group : 1..Len(Groups), pos : Nat \ {0}, out : SUBSET SeriesSet,
   result : {"none", "refused", "failed", "ok"}]

\* Every variable holds a value of its kind; in particular the cursors of each
\* Update (collector/container.go, pod.go, image.go) stay inside its lists.
TypeOK ==
  /\ desc \in [Fields -> Seq(STRING)]
  /\ crashed \in BOOLEAN
  /\ scrape \in [Scrapes -> ScrapeSet]
  /\ \A s \in Scrapes :
       /\ scrape[s].next \in 1..(Len(scrape[s].reports) + 1)
       /\ scrape[s].pos \in 1..Len(Groups[scrape[s].group].write)
       /\ scrape[s].pc \in {"write", "emit"} => scrape[s].next <= Len(scrape[s].reports)

\* No interleaving of scrapes makes mustNewConstMetric panic
\* (collector/collector.go:153), which would end the exporter.
NoPanic == ~crashed

\* Every series a scrape builds carries the label names its own label values
\* were computed with (getContainerDescLabel and its twins): no other scrape's
\* descriptor, no other object's and no other group's was read in between.
OwnLabels == \A s \in Scrapes : \A m \in scrape[s].out : m.labels = m.values

\* What Update owes for the reports it was given: each object listed has every
\* field once, those of the stats group only if stats came for it.
Owed(s) ==
  {p \in Rng(scrape[s].reports) \X Fields :
     \E g \in 1..Len(Groups) : p[2] \in Rng(Groups[g].emit)
                               /\ (g = StatsGroup => p[1] \in scrape[s].stats)}

\* Update succeeds having emitted all it owes and nothing else, and fails
\* before it has emitted anything (the two early returns of Update): a failed
\* collector never leaves a partial set of series behind.
ScrapeWhole ==
  \A s \in Scrapes :
    /\ scrape[s].result = "ok" =>
         {<<m.object, m.field>> : m \in scrape[s].out} = Owed(s)
    /\ scrape[s].result = "failed" => scrape[s].out = {}
=============================================================================
