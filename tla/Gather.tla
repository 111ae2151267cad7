------------------------------- MODULE Gather -------------------------------
(***************************************************************************)
(* One scrape of /metrics: the handler of exporter/handler.go admits it,   *)
(* the registry asks PodmanCollector.Collect, which runs the Update of     *)
(* each collector in a goroutine of its own and waits for all of them; the *)
(* registry drops a series it has already and the response goes out.       *)
(*                                                                         *)
(* An Update sends into the channel of its own scrape, so that the moments *)
(* at which it sends cannot be told apart and what it sends is one step;   *)
(* the descriptors it shares with other scrapes are in CollectorUpdate,    *)
(* and the requests that name collect[], which get a handler of their own  *)
(* with the same collectors.  A series is its metric and the object or the *)
(* labels that identify it; values are left out.                           *)
(***************************************************************************)
EXTENDS Collectors, FiniteSets, ImageRefs

CONSTANTS
  Requests,  \* the scrapes that may be under way
  Objects,   \* the containers podman may have statistics of
  Answers,   \* [collector that asks podman -> what podman may answer]
  ImagesOf   \* [version of podman's images -> what it lists]

ASSUME RequestsAssumption == IsFiniteSet(Requests)

\* podman answers with an error or a report: of a system, or a list that has an
\* object once.
ASSUME AnswersAssumption ==
  \A c \in Registered \ {"image", "disk_usage"} : \A a \in Answers[c] :
    a # <<Err>> => /\ a = <<"report", a[2]>>
                   /\ c # "system" => IsInjective(a[2])

\* podman lists images with their references, an image perhaps from several
\* stores; what it says of an ID it says each time.
ASSUME ImagesAssumption ==
  \A v \in DOMAIN ImagesOf :
    LET images == ImagesOf[v]
    IN  /\ DOMAIN images \subseteq Nat
        /\ \A i \in DOMAIN images : DOMAIN images[i].refs \subseteq Nat
        /\ \A i, j \in DOMAIN images :
             images[i].id = images[j].id =>
               images[i].parent = images[j].parent /\ images[i].digest = images[j].digest

VARIABLES
  slots,      \* promhttp's inFlightSem: how many tokens it holds
  status,     \* [request -> "idle", "refused" (503), "collect" or "done"]
  pc,         \* [request -> [collector -> "off", "run", "stats" or "end"]]
  found,      \* [request -> [collector -> what pdcs returned to it]]
  sent,       \* [request -> [collector -> the series it sent, each at its send]]
  success,    \* [request -> [collector -> its collector_success: "none", "yes", "no"]]
  call, expired, worker, chan  \* ContainerStats

scrapes == <<slots, status, pc, found, sent, success>>
stats == <<call, expired, worker, chan>>

Stats == INSTANCE ContainerStats WITH
  Calls <- Requests, call <- call, expired <- expired, worker <- worker, chan <- chan

Each(v) == [c \in Registered |-> v]
Nothing == << >>  \* found nothing yet

GatherInit ==
  /\ slots = 0
  /\ status = [r \in Requests |-> "idle"]
  /\ pc = [r \in Requests |-> Each("off")]
  /\ found = [r \in Requests |-> Each(Nothing)]
  /\ sent = [r \in Requests |-> Each(<< >>)]
  /\ success = [r \in Requests |-> Each("none")]
  /\ Stats!Init

-----------------------------------------------------------------------------
(* The handler                                                               *)

\* A request takes a slot of the semaphore if there is one free, and gives it back
\* when its response is written; without a limit there is no semaphore.

\* mutants: one too many; a response with a failed collector keeps its slot
SlotFreeOver(max) == max <= 0 \/ slots <= max
GiveSlotUnfailed(r, max) ==
  slots' = IF max > 0 /\ status[r] = "done" /\ "no" \notin Range(success[r])
           THEN slots - 1 ELSE slots

SlotFree(max) == max <= 0 \/ slots < max
TakeSlot(max) == slots' = IF max > 0 THEN slots + 1 ELSE slots
GiveSlot(r, max) == slots' = IF max > 0 /\ status[r] = "done" THEN slots - 1 ELSE slots

\* Collect: wg.Add, and a goroutine for each collector
Admit(r, collectors, max) ==
  /\ status[r] = "idle" /\ SlotFree(max) /\ TakeSlot(max)
  /\ status' = [status EXCEPT ![r] = "collect"]
  /\ pc' = [pc EXCEPT ![r] = [c \in Registered |-> IF c \in collectors THEN "run" ELSE "off"]]
  /\ UNCHANGED <<found, sent, success, stats>>

Refuse(r, max) ==
  /\ status[r] = "idle" /\ ~SlotFree(max)
  /\ status' = [status EXCEPT ![r] = "refused"]
  /\ UNCHANGED <<slots, pc, found, sent, success, stats>>

-----------------------------------------------------------------------------
(* What the Update methods send                                              *)

\* What a collector sends for its list of objects: each send is of the object at
\* a position and of a metric's name.
Metrics(collector, sends, objects) ==
  [s \in sends |-> <<collector, s[2], objects[s[1]]>>]

\* a metric of each name for each object
All(collector, names, objects) == Metrics(collector, (DOMAIN objects) \X names, objects)

PodSeries(pods) == All("pod", {"info", "state", "containers", "created"}, pods)
VolumeSeries(volumes) == All("volume", {"info", "created"}, volumes)
NetworkSeries(networks) == All("network", {"info"}, networks)
SystemSeries == All("system", {"api", "runtime", "conmon", "buildah"}, <<"podman">>)
UsageSeries ==
  All("disk_usage", {"size", "reclaimable"}, <<"images", "containers", "volumes">>)

\* updateInfo for every container, updateStats for one that has statistics; the
\* 9 and 15 metrics are represented by two each
ContainerSeries(containers, running) ==
  Metrics("container",
    {s \in (DOMAIN containers) \X {"info", "rootfs_size", "pids", "block_output"} :
       s[2] \in {"pids", "block_output"} => containers[s[1]] \in running},
    containers)

SeriesOfImages == [v \in DOMAIN ImagesOf |-> ImageSeries(ImagesOf[v])]

\* The Update of a collector that makes one call: what pdcs returned it
SeriesOf(c, report) ==
  CASE c = "pod" -> PodSeries(report)
    [] c = "volume" -> VolumeSeries(report)
    [] c = "network" -> NetworkSeries(report)
    [] c = "system" -> SystemSeries
    [] c = "disk_usage" -> UsageSeries
    [] c = "image" -> IF report = 0 THEN << >> ELSE SeriesOfImages[report]

-----------------------------------------------------------------------------
(* execute                                                                   *)

\* Update returns; collector_success tells whether with an error.
Executed(r, c, what, series, ok) ==
  /\ pc' = [pc EXCEPT ![r][c] = "end"]
  /\ found' = [found EXCEPT ![r][c] = what]
  /\ sent' = [sent EXCEPT ![r][c] = series]
  /\ success' = [success EXCEPT ![r][c] = IF ok THEN "yes" ELSE "no"]
  /\ UNCHANGED <<slots, status>>

\* pdcs.Pods(), Volumes(), Networks() and SystemInfo() ask podman, pdcs.Images()
\* and DiskUsageSummary() return the cached reports irep and urep: an error, a
\* version, or 0 before the first.
Reported(c, irep, urep) ==
  CASE c = "image" -> {IF irep = Err THEN <<Err>> ELSE <<"report", irep>>}
    [] c = "disk_usage" -> {IF urep = Err THEN <<Err>> ELSE <<"report", urep>>}
    [] OTHER -> Answers[c]

Update(r, c, irep, urep) ==
  /\ status[r] = "collect" /\ pc[r][c] = "run" /\ c # "container"
  /\ \E what \in Reported(c, irep, urep) :
       IF what = <<Err>> THEN Executed(r, c, what, << >>, FALSE)
       ELSE Executed(r, c, what, SeriesOf(c, what[2]), TRUE)
  /\ UNCHANGED stats

\* The container collector asks for the list first.  A cached error of the size
\* cache comes out as no containers and no error.
Containers(r, sizeErr) ==
  /\ status[r] = "collect" /\ pc[r]["container"] = "run"
  /\ \E what \in Answers["container"] :
       \/ /\ what = <<Err>>
          /\ Executed(r, "container", <<Err>>, << >>, FALSE)
       \/ /\ what # <<Err>>
          /\ found' = [found EXCEPT ![r]["container"] =
                         IF sizeErr THEN <<"unsized", << >> >> ELSE what]
          /\ pc' = [pc EXCEPT ![r]["container"] = "stats"]
          /\ UNCHANGED <<slots, status, sent, success>>
  /\ UNCHANGED stats

\* Then for the statistics, until podman answers or the deadline passes.
AskStats(r, timeout) ==
  /\ pc[r]["container"] = "stats"
  /\ Stats!Begin(r, timeout) \/ Stats!BeginFails(r)
  /\ UNCHANGED scrapes
WaitStats(r) == Stats!Step(r) /\ UNCHANGED scrapes

\* ContainersStats returns: what podman's statistics are of need not be what it
\* listed before.
Finished(r) ==
  /\ pc[r]["container"] = "stats" /\ Stats!Returned(r)
  /\ LET how == found[r]["container"][1]
         list == found[r]["container"][2]
     IN  \/ /\ call[r] = "error"
            /\ Executed(r, "container", <<Err>>, << >>, FALSE)
         \/ /\ call[r] = "none"
            /\ Executed(r, "container", <<"nostats", list, {}>>, ContainerSeries(list, {}), TRUE)
         \/ /\ call[r] = "stats"
            /\ \E running \in SUBSET Objects :
                 Executed(r, "container", <<how, list, running>>,
                          ContainerSeries(list, running), TRUE)
  /\ call' = [call EXCEPT ![r] = "idle"]
  /\ UNCHANGED <<expired, worker, chan>>

-----------------------------------------------------------------------------
\* mutant: Collect does not wait
AllEndedSome(r) == \E c \in Registered : pc[r][c] = "end"

AllEnded(r) == \A c \in Registered : pc[r][c] \in {"off", "end"}

\* wg.Wait() returns: Collect is over, the registry has what was sent.
Respond(r) ==
  /\ status[r] = "collect" /\ AllEnded(r)
  /\ status' = [status EXCEPT ![r] = "done"]
  /\ UNCHANGED <<slots, pc, found, sent, success, stats>>

\* The response is written and the slot given back; a refused request has none.
Close(r, max) ==
  /\ status[r] \in {"done", "refused"} /\ GiveSlot(r, max)
  /\ status' = [status EXCEPT ![r] = "idle"]
  /\ pc' = [pc EXCEPT ![r] = Each("off")]
  /\ found' = [found EXCEPT ![r] = Each(Nothing)]
  /\ sent' = [sent EXCEPT ![r] = Each(<< >>)]
  /\ success' = [success EXCEPT ![r] = Each("none")]
  /\ UNCHANGED stats

\* the series the registry was given: twice the same is an error, and one is dropped
Series(r) == UNION {Range(sent[r][c]) : c \in Registered}
Duplicates(r) == \E c \in Registered : ~IsInjective(sent[r][c])
=============================================================================
