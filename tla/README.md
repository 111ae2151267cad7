# TLA+ models of prometheus-podman-exporter

These modules model the parts of the exporter in which several goroutines, or
the exporter and podman, can get in each other's way: scrapes that share a
collector's descriptors, caches that are refreshed while scrapes read them, the
event stream that keeps the image report current, and the whole of it from the
command line to the response of a scrape. TLC checks them on small
instances; TLAPS proves the main results for every value of the constants.
Paths below are relative to the repository's root.

## 1. Inventory

The exporter is one Go process. `exporter.Start` (exporter/exporter.go) parses
the options, enables collectors, makes the HTTP handler, starts the refreshing
goroutines and serves. Each scrape is served by a goroutine of its own, which
makes Prometheus' registry gather, which runs `PodmanCollector.Collect`, which
runs `Update` of every enabled collector in a goroutine each. A collector asks
package `pdcs` for reports; `pdcs` asks podman, or returns what it has cached.

| Part | State | Operations | Called by |
|---|---|---|---|
| Handler (exporter/handler.go) | the unfiltered handler, its request semaphore | `newHandler`, `ServeHTTP`, `innerHandler` | `Start`; the HTTP server, per request |
| Collectors (collector/*.go) | states and one object per kind, with descriptors in fields | `SetPodmanCollectorState`, `NewPodmanCollector`, `Collect`, `execute`, `Update` | `Start`; the registry, concurrently |
| Container size cache (pdcs/container.go) | map of sizes, an error, a mutex | `Containers`, `updateContainerSize`, ticker | scrapes; one goroutine |
| Container statistics (pdcs/container.go) | timeout; a context and a channel per call | `ContainersStats`, podman's goroutine | scrapes |
| Image report (pdcs/image.go) | images, an error, a mutex | `Images`, `updateImages` | scrapes; the event streamer |
| Event streamer (pdcs/events.go) | channels, shared options | `StartEventStreamer` and two goroutines per generation | `Start`; podman's events |
| Disk usage report (pdcs/disk_usage.go) | sums, an error, a mutex | `DiskUsageSummary`, `updateDiskUsage`, ticker | scrapes; one goroutine |
| Pods, networks, volumes, system (pdcs) | none | one query each | scrapes |
| Start and options (exporter/exporter.go, cmd/root.go) | enabled collectors | `Start`, `parseOptions` | `main` |

What is hard about it, and what makes each part correct:

* **Collectors.** One object of each kind serves all scrapes, and the container,
  pod and image collectors store the descriptors of the object at hand in its
  fields before they build metrics from them. Correct means: no interleaving
  makes `mustNewConstMetric` panic (a panic in these goroutines ends the
  process), every series has the label names of its own values, and a scrape
  that succeeds has all series it owes while one that fails has none.
* **Handler and collection.** A slot of the request limit is held until the
  response is written. A response waits for all collectors, has all series of
  those that succeed and none of those that fail, says which is which, and gives
  the registry no series twice.
* **Container statistics.** podman's answer races a deadline; it may be late,
  carry an error, or be a closed channel. Every scrape must be answered, and a
  call that got nothing should not pass for a success.
* **Start.** Collectors and the goroutines that refresh their caches are enabled
  in different places and must agree; any options must lead to a server or to
  an end with an error.
* **Size cache.** The map is shared with readers that no longer hold the lock.
  Sizes must be real and never go back, errors must be reported while they last
  and no longer, calls must return, and new sizes must arrive.
* **Image report and events.** Only one refresh may run at a time, or an older
  listing replaces a newer one; streams end and are restored; every change of
  the images should get into the report.
* **Disk usage.** Never empty before its first refresh, never going back, and
  showing podman's usage again after errors.

Every hazard is listed with its line in PROJECT.json.

## 2. Modules

| Module | Models | Runs |
|---|---|---|
| `CollectorUpdate` | container.go, pod.go, image.go, utils.go of collector/ and their shared descriptors | `MCCollectorUpdate_*.cfg` |
| `SizeCache` | pdcs/container.go without the statistics | `MCSizeCache_*.cfg` |
| `PortMappings` (extends `SizeCache`) | `portsToString` of pdcs/utils.go, in 16 bits | `MCSizeCache_refresh.cfg` |
| `ImageEvents` | pdcs/events.go, pdcs/image.go, podman's event stream | `MCImageEvents_*.cfg` |
| `DiskUsage` | the cache of pdcs/disk_usage.go | `MCDiskUsage_*.cfg` |
| `DiskSummary` (extends `DiskUsage`) | the sums of pdcs/disk_usage.go | `MCDiskUsage_*.cfg` |
| `ReportCache` | what a cached report promises | as `ReportSpec` of `ImageEvents` and `DiskUsage`; as the caches of `Exporter` |
| `Collectors` | registration and states of the collectors | with the next ones |
| `Start` (extends `Collectors`) | cmd/root.go, exporter/exporter.go, pdcs/registry.go | with `Exporter` |
| `ContainerStats` | `ContainersStats` against podman's goroutine | with `Gather` |
| `ImageRefs` | `repoTagDecompose`, `dedupImages`, the series of an image | with `Gather` |
| `Gather` (extends `Collectors`, `ImageRefs`; instance of `ContainerStats`) | exporter/handler.go, collector/collector.go, what every collector sends | with `Exporter` |
| `Exporter` (extends `Start`, `Gather`; instances of `ReportCache`) | the process | `MCExporter_*.cfg` |
| `Scrape` | what /metrics promises its clients | as `ScrapeSpec` of `Exporter` |
| `Gather_proofs` | lemmas about what the collectors send | |
| `CollectorUpdate_proofs`, `SizeCache_proofs`, `PortMappings_proofs`, `ImageEvents_proofs`, `DiskUsage_proofs`, `DiskSummary_proofs`, `Exporter_proofs` | the theorems | |

Definitions that stand before another and are commented "mutant" are variants
of it with a plausible bug. No specification uses them; each shows, put in the
place of the definition it varies, that a property notices the bug.

### CollectorUpdate

The state is `desc`, the descriptors in the collector's fields, shared by all
scrapes, `crashed`, and one record per scrape with its request and the locals
of its `Update`: what podman reported (`reports`, `stats`), the loop's cursor
(`next`), the labels of the current object (`info`), and where in the writing
or emitting of which group of fields it is (`group`, `pos`). A group is what
the code stores before it emits: the container collector has three (info,
`updateInfo`, `updateStats`), the pod and image collectors one. `Groups` is a
constant, so one module serves all three collectors.

| Action | Code |
|---|---|
| `Admit`, `Refuse` | `ServeHTTP` and promhttp's semaphore; a filtered request has a handler and a semaphore of its own |
| `List`, `Stats`, `Fail` | the calls of `pdcs.Containers`, `Pods`, `Images` and `ContainersStats`, and their early returns |
| `NextObject`, `Return` | the loop over the reports; `getContainerDescLabel` and its twins |
| `WriteDesc` | one assignment `c.<field>.desc = ...` |
| `EmitMetric` | one `ch <- c.<field>.mustNewConstMetric(...)`, which may panic |

The read and the write of a descriptor pointer are single machine words, so a
race on one yields the old or the new descriptor: interleaving single
assignments covers it. A label value is represented by the name it belongs to;
metric values and UTF-8 validity of label values are left out. The order in
which Go ranges over the label map is chosen freely at each call.

### SizeCache

A size is represented by its version. The refresh holds `lock` from before its
listing to after its last write; `WriteBegin` and `WriteEnd` bound one map
assignment. `Containers()` is `Call`, `List` or `ListFails`, `ReadLock`, `Copy`
(reference and error, unlock, early return), a `Lookup` per container and
`Return`. A lookup while a map assignment is under way either ends the process
(`LookupFatal`, Go's detection of concurrent map access, which is best effort)
or yields the entry before or after the write. For the runs that check what
the returned sizes are worth, this means: in every execution the runtime lets
go on. `floor`, `seen` and `base` are ghosts that remember what a call may rely
on.

### ImageEvents, DiskUsage and ReportCache

`ReportCache` is the abstract cached report: podman's state has a version
`ver`, the report `rep` shows one or is an error, and `newest` never goes back.
`ImageEvents` and `DiskUsage` have the same three variables beside their own,
so the refinement mapping is the identity; `newest` is a ghost in them. In both
the listing and the store are two steps, as they are in the code, which takes
the lock only for the second.

`ImageEvents` has the goroutine of `StartEventStreamer` (`spc`) and, for each
generation, an engine reader (`epc`) and an event reader loop (`rpc`). podman
appends the events logged after the subscription to the stream (`Change`,
`Send`) and may close it (`Close`). A stream may be longer than the channel:
it includes what podman has logged and still holds. An event result podman
cannot decode is `Bad`. The engine options, one variable in the code that all
generations share, are `opts`. `log.Fatal` and a panic are values of `dead`.

`DiskUsage` has the refresh (`List`, `ListFails`, `Store`), its ticker, and in
`start` where `exporter.Start` is: inside the first `updateDiskUsage`, on its way
to the listener (`StartTicker`, when that call has returned, whatever it stored),
or serving (`Serve`). `DiskSummary` says what a version of the
disk usage may be (`DfReports`) and has `summarizeDiskUsage` and
`imageReclaimable` as folds over podman's report; `Visit` is one turn of the loop
over the images, with the map of visited ones. Of podman it assumes what its code
does (vendor/go.podman.io/common/libimage/disk_usage.go): the sizes of an image are
computed once and repeated for each tag, and a volume is reclaimable as a whole or
not at all. The reference (`Right`) knows no order: it sums over the sets of used
images and of running containers.

`PortMappings` likewise says what ports a container of `SizeCache` may have and
has `portsToString` in the width of a port. An entry of the label is a record,
which `Told` reads back.

### Start, Gather and Exporter

`Start` has one action for each call of `exporter.Start` that can end the process
or that scrapes depend on, in their order (`phase`), from the parsing of the
command line to `ListenAndServe`. What ends the process by itself, by a panic,
or in the event streamer is kept in `dead`. A duration is an integer; a telemetry
path is `"apart"`, `"root"` or `"malformed"`, which is what the mux tells apart.

`Gather` has promhttp's semaphore (`slots`, the tokens in it; `TakeSlot`, `GiveSlot`)
and, for each scrape, its `status` and, for each collector, where its goroutine is (`pc`),
what `pdcs` returned to it (`found`), the series it sent (`sent`) and its
success.

| Action | Code |
|---|---|
| `Admit`, `Refuse`, `Close` | `ServeHTTP`, promhttp's semaphore, `Collect` up to its loop |
| `Update` | `execute` and `Update` of the collectors with one call: pod, image, volume, network, system, disk usage |
| `Containers`, `AskStats`, `WaitStats`, `Finished` | `execute` and `Update` of the container collector, with the call of `ContainersStats` in between |
| `Respond` | `wg.Wait()`, and the registry's check for duplicates (of two it drops one and the rest is served) |

An `Update` sends into the channel of its own scrape only, so it is one step
after its last call. What it sends is a function from the send (the position of
the object in podman's list, and the metric) to the series: a series sent twice
is one at two sends. Likewise the entries of the images have the position of
their image and reference, and `dedupImages` keeps those that no equal entry
precedes. `ContainerStats` is one call against podman's
goroutine: the context may be over from the start, before podman looks, or at
any time; the select takes either branch when both are ready.

`Exporter` puts these together. Its caches of images and disk usage are
instances of `ReportCache` with podman at its last version: `ImageEvents` and
`DiskUsage` are shown to implement it, in TLC and by proof, so what their
refreshes can do to a report is what `Store` and `StoreErr` can. Of the size
cache only the sticky error is kept. The streamer may end the process at any
time after its start.

`Scrape` is the abstract specification of /metrics: what is served (nothing, or
a set of collectors and a limit), the status of each request and its answer. The
refinement mapping `Client` takes the service from `phase`, the collectors and
the options, and the answer from the collectors' successes once a response is
done.

## 3. Runs

Passing:

| Run | Shows | Instance |
|---|---|---|
| labels_fixed | no panic, no wrong label and whole scrapes, for two concurrent scrapes, when all objects have one label list | two containers, one whitelisted label that both have; request limit 1 with filtered requests beside it |
| sizes_refresh | reported sizes are real, at least as new as the last whole refresh, and never go back; calls return; sizes arrive; the ports label tells what podman forwards | 2 callers competing with the refresh, one container with 2 sizes; ports of 3 bits |
| images_refresh | the report implements `ReportCache` across restarts; channels are not mixed up and nothing is left in one whose loop has gone; streamed events reach the report, streams are restored, failed subscriptions end the process | 4 versions, 3 generations, 2 results per stream |
| usage_refresh | the disk usage report implements `ReportCache`, is filled before serving, recovers from errors, and has the right sums | 6 versions; all reports with up to 4 tags of 2 images, or up to 2 containers or volumes |
| exporter_scrapes | the exporter implements `Scrape`, its semaphore's tokens being the requests in flight; responses are whole whatever fails and no series is sent twice; scrapes are answered although statistics never come; enabled collectors find their caches refreshed; no scrape is shown an older report than another; Start comes to serve or ends with an error | 6 command lines (all collectors, single flags, limit and none, `--version`, no cache duration, a path the mux refuses); 2 scrapes; every collector but system, of which the pod collector always fails; an image with two references of the same labels, which a second store has too |

Runs in which TLC finds what the code does against its documentation
(PROJECT.json quotes the lines):

| Run | Finds |
|---|---|
| labels_parallel | converted labels and two parallel scrapes: a panic |
| labels_collision | two podman labels with one sanitised name: a panic in a single scrape |
| sizes_fatal | map read during a map write |
| sizes_error | after one failed refresh calls return no containers and no error, for ever |
| images_lost | a change before the subscription never gets into the report |
| images_badevent | a nil dereference on an event with an error |
| exporter_success | the container collector reports success although podman's statistics failed, or never came for a deadline that was over, and the statistics series are missing (those about the containers are sent): `ContainersStats` ignores the report's error and takes a closed channel for a report |

With equal label counts the interleaving of labels_parallel does not panic but
puts a value under another container's label name: `OwnLabels` fails in that
instance too when the objects' labels are replaced by one each. Requests with
`collect[]` have a semaphore each, so the request limit does not hold them:
labels_fixed has them beside a plain request under a limit of one, and the limit
that `ScrapeSpec` states is one of plain requests.

`StartEnds` has the two ways a command line ends Start by a panic. Neither is
refused: exporter/exporter.go:18 has "duration/timeout must be greater than
zero", but `parseOptions` uses it only for what is no duration at all. A zero
cache duration panics in `time.NewTicker`; a zero statistics timeout starts, and
gives each call a context that is over.

**Bounds.** `Scrapes`, `Readers`, `Requests`: two actors are enough for one to
come between two steps of another, and for one to be refused. Two objects in
`CollectorUpdate` give a stale descriptor. In `SizeCache` all entries are
written one by one under the lock and compared container by container, so that
one container and the callers that come before, during and after its write
are the cases there are.
In `Exporter` the versions of a report are those of `ReportCache`, whose order
the runs of the caches check: none, one version and an error are what a scrape
can meet, and enough for `ReportsForward` to fail by going back to none; that it
holds of any versions is proved. The system collector differs from the others only in that its series
do not depend on what it found; it is in exporter_success.
`MaxVer` bounds versions: two refreshes that overlap need two later versions to
store in the wrong order; the fourth gives room around them.
`MaxGen` bounds the generations of event goroutines: two let one outlive its
restart, three let that happen twice. `MaxStream` bounds results not taken:
two let an event wait behind another. The 8 fields of `updateInfo` and
the 15 of `updateStats` are represented by their first and last field: all
fields of a group are written before any is read, and are alike otherwise;
the theorems hold for all fields and for the image collector's other order.
Deadlock checking is off where the process may end or a bounded stream run out.
Symmetry is used for scrapes, readers and containers in safety runs only.

**Fairness.** Goroutines that can run do (weak fairness of each). podman
answers each listing; it may fail any number of times but does not fail every
time (strong fairness of the successful answer, in `SizeCache` and
`DiskUsage`), without which no cache would ever be filled. In `Exporter` a
listing answers or fails, and the context of a statistics call ends in time;
nothing is asked of podman's statistics, which may never come. In `SizeCache`
taking the mutex is strongly fair for each waiter: a Go mutex in starvation
mode is handed to its oldest waiter. Nothing makes podman send events, end a
stream or fail, and nothing makes scrapes come.

## 4. Proofs

`CollectorUpdate_proofs`, for any collector (`Groups`), any objects and labels
and any finite set of scrapes:

* `TypeCorrect`: `Spec => []TypeOK`.
* `PanicFree`, `SeriesOwnLabels`: `Safe /\ Spec => []NoPanic` and
  `=> []OwnLabels`. `Safe` says that no object's selected label names collide
  or are reserved (`NoCollision`), and that either all objects have one label
  list (`OneLabelList`) or one plain request is served at a time
  (`OneAtATime`). The runs labels_parallel and labels_collision
  show that none of this can be dropped.

`NoPanic` and `OwnLabels` are not inductive: a state with a wrong descriptor in
a field that is about to be read satisfies both. The invariant `IInv` adds, for
each scrape between its writes and its reads, that the fields it has written
and not read hold the descriptors it wants. Another scrape's write would break
that; it does not because all scrapes want the same descriptor for a field
(`OneLabelList`), or because there is no other active scrape (`OneActive`,
which the semaphore keeps).

`ScrapesWhole`, `Spec => []ScrapeWhole`, needs no condition. Its invariant
`WholeInv` says for each scrape what it has sent so far, from the cursors of
`Update` alone: for the objects before `next` all series of all groups, for the
object at hand those of the groups before `group` and of the fields before `pos`.

`SizeCache_proofs`, for any containers, versions and callers:
`SizesTypeCorrect`, `SizesFresh`, `SizesMonotone`. The properties speak of what
a call has looked up; what makes them so is an invariant of the map while the
refresh writes it. `Newest(c)` is the newest size of `c` that a lookup may have
yielded: the map's entry or, during its assignment, the one being written
(`WriteOwned`: only the refresh writes). It never goes back, because what the
refresh has listed is not older than the entry it replaces (`Bounded`), so it
bounds all that was looked up or reported (`SeenBounded`); and when a call holds
the lock no assignment is under way, so that the map it takes a reference to has
all of that (`FloorHeld`). The lookups themselves need no lock for this, which
is why the properties hold in the executions that sizes_fatal's race lets go on.

`PortMappings_proofs`: `PortsToldRight`, for any width of a port. The sum of a
port and its range may be one more than the highest port and wrap to zero;
`LastPort` shows that one less is right.

`ImageEvents_proofs`: `EventsTypeCorrect`, `EventsOwnChannel`, and
`EventsImplementReport`, `Spec => ReportSpec`, for any number of generations,
versions and streamed results. The image report is only safe because its
refreshes follow one another, which no lock ensures: `updateImages` takes the
mutex after its listing. The invariant says why they do. `Ordered`: a new
generation starts only when the loop before it has returned, which it does when
its channel is closed, which its engine does last. `Fresh`: a listing that is
not stored yet is not older than the report; as at most one refresh is between
its listing and its store, storing it makes no other listing old. `Ordered`
also gives `OwnChannel`: a subscription is made by the last generation, whose
channel `eventOptions` holds.

`EventsAttended`, `Spec => []Attended`, is the safety under `EventsArrive` and
`ErrorsEndProcess`: no streamed result and no engine's error is in front of a loop
that has gone. An error cannot be, since a loop goes only when its channel is
closed and then its engine is done. For results it takes an invariant, `Waiting`:
a loop leaves an empty channel, and only an open one gets a result.
`ImagesNeedEvents`, `~UpdateImage /\ Spec => []NoPanic`, confines what
images_badevent finds to an exporter with the image collector.

`DiskUsage_proofs`: `DiskTypeCorrect`, `NoZeroReport`, and
`DiskImplementsReport`, `Spec => ReportSpec`. `TypeOK` contains what the last one
needs, that a finding not yet stored is not older than the report, and is inductive.
`NeverZero` is not: `Refreshed` adds that a refresh that has ended has left a report
or an error, in particular the first, before which Start does not go on.

`DiskSummary_proofs`: `SummariesRight`, `Spec => []SummaryRight`, for any reports
podman may make (`DfReport`). The summary is a version of podman's disk usage, so
it remains that the sums of each report are right. They are folds, and what a fold
computes takes an induction over the set it folds. None of the provers can use an
induction rule for an arbitrary property, so the induction is over sets instead:
`SubsetInduction` and `RemovalInduction` say of any set `G` of sets that it has
all finite ones if it has what follows from it, by a least counterexample in a
well-founded order. From the recursion of a fold (`RecursionExists`,
`SumsOfSubsets`) these give that a sum may be taken in any order (`SumElement`),
so that podman's order of entries does not matter, and that `imageReclaimable`
visits one position after the other (`VisitInOrder`). `UsedOnce` has the invariant
of its loop: what it has visited are the IDs up to the position, and what it has
summed are the unique sizes of those that a container uses.

`Exporter_proofs`, for any command lines, collectors, answers of podman and any
finite set of scrapes:

* `ExporterTypeCorrect`. To `TypeOK` the invariant `IInv` adds what the options
  are in each phase, that no request is there before the server listens, and that
  a response is made when its collectors have ended; that the semaphore has a
  token for each request in flight (`SlotsTypeOK`) is inductive with it.
* `CachesRefreshed`: `CachesRegistered /\ Spec => []SourcesReady`. `Sources` says
  what each phase of Start has done in terms of the options alone. The hypothesis
  is that the init functions of the image and disk usage collectors have run,
  which they have in the program; without the image collector the streamer would
  refresh a report for nobody.
* `ExporterImplementsScrape`: `Spec => ScrapeSpec`. `Listen` maps to `Open`, the
  steps of the handler to those of the client, everything else to a stutter.
  `Scrape` counts the requests in flight where the handler counts tokens; by
  `SlotsTypeOK` these are the same, so a token kept or given back twice would show.
* `ResponsesWhole` and `SeriesDistinct`: `Spec => []ResponseWhole` and
  `=> []NoDuplicates`. `Whole` says of each collector that has ended that its
  success fits what it found, that what it sent is what it owes, and that its
  sends are of distinct series; of the others that they have sent nothing.
  `Gather_proofs` has the lemmas: each collector's series for any list without a
  repeated object, and for images, that of the entries with one label set
  `dedupImages` keeps one (there is a first, as positions are well-founded) and
  only one (positions are totally ordered).
* `ScrapesForward`: `Spec => ReportsForward`, what `ReportCache` promises a reader
  of a cache carried to the clients, over scrapes that overlap. `Shown` is the
  invariant: a cache has its newest report or an error, and no scrape has been
  shown a newer one.
* `LimitHeld`, that the semaphore bounds the plain requests under way.

The assumptions of the theorems are the ASSUMEs of the modules, which TLC
evaluates in every run. Those that say something of podman: an answer is an error
or a list that has an object once (`AnswersAssumption`); what podman says of an
image ID it says each time it lists it (`ImagesAssumption`; `dedupImages` compares
digest and parent, which image_size does not carry, so that one ID with two
digests would be a duplicate, of which the registry would drop one); a range of ports ends within the ports
(`PortsAssumption`); the entries of one image in the disk usage report are the same
(`DfReportsAssumption`).

`PanicFree` also stands for the instance in which labels differ between objects
and one request is served at a time, which no run has.

Only model-checked: all liveness (`CallReturns`, `SizesArrive`, `EventsArrive`,
`StreamRestored`, `ErrorsEndProcess`, `UsageArrives`, `StartEnds`, `Answered`,
`ImagesArrive`), since fairness and ENABLED are out of the prover's reach. Every
safety property and refinement of a passing run is proved.

## 5. Not modelled, and why

* Metric values, formatting, durations and logging carry no control. Nor do the
  tables of pdcs/utils.go that turn states and health into numbers, the text of
  versions (pdcs/system.go), and the sums over the networks of a container.
* The labels of a network, which are joined in the order of a Go map
  (pdcs/network.go:48), are a value: that they differ between scrapes is listed
  as a hazard and not checked.
* The answer 400 of the handler: it needs a collector's factory to fail, and none
  can.
* The names in `collect[]`: `innerHandler` uses them for its log only, so a
  filtered request is one with a semaphore of its own.
* Metrics about the exporter itself are promhttp's.
* Shutdown: the exporter has none; it ends with the process.
* Vendored code is modelled only where the exporter depends on it (`Panics`,
  `ValidDesc`, the semaphore, the registry's check, event streams, the
  statistics call).

## 6. Plan

What is left:

1. The refinement between the filtered requests of `CollectorUpdate` and `Scrape`,
   so that the limit can be stated of both kinds of requests.
2. The networks' labels (pdcs/network.go:48) as values, for a property of two
   scrapes that show the same network.
