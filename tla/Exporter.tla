------------------------------ MODULE Exporter ------------------------------
(***************************************************************************)
(* The exporter as a whole: exporter.Start brings up the event streamer,   *)
(* the tickers and the server, and while it serves the scrapes read the    *)
(* caches that those refresh.                                              *)
(*                                                                         *)
(* The image report and the disk usage report are the cached reports that  *)
(* ImageEvents and DiskUsage are shown to implement, here with podman at   *)
(* its last version; of the size cache only the error a scrape can see is  *)
(* kept.  The event streamer may end the process at any time (ImageEvents  *)
(* has the reasons).                                                       *)
(***************************************************************************)
EXTENDS Start, Gather

CONSTANT MaxVer  \* versions of podman's images and of its disk usage

VARIABLES
  irep, inewest,  \* imageRep, and the newest version it has shown
  urep, unewest   \* diskUsageRep likewise

images == <<irep, inewest>>
usage == <<urep, unewest>>
scraping == <<scrapes, stats>>
vars == <<startVars, images, usage, scraping>>

Images == INSTANCE ReportCache WITH ver <- MaxVer, rep <- irep, newest <- inewest
Usage == INSTANCE ReportCache WITH ver <- MaxVer, rep <- urep, newest <- unewest

ASSUME ExporterAssumption ==
  /\ MaxVer \in Nat \ {0} /\ Err \notin 0..MaxVer
  /\ DOMAIN ImagesOf = 1..MaxVer

Init ==
  /\ StartInit /\ GatherInit
  /\ irep = 0 /\ inewest = 0 /\ urep = 0 /\ unewest = 0

-----------------------------------------------------------------------------
(* Start, and the goroutines it leaves running                               *)

Boot ==
  \/ Call /\ UNCHANGED <<images, usage, scraping>>
  \/ /\ StartDiskUsageTicker
     /\ Usage!Store \/ Usage!StoreErr
     /\ UNCHANGED <<images, scraping>>

\* StartEventStreamer refreshes the image report once before it streams events.
FirstImages ==
  /\ dead = "no" /\ streamer = "first"
  /\ Images!Store \/ Images!StoreErr
  /\ streamer' = "events"
  /\ UNCHANGED <<start, sizeErr, ticking, dead, usage, scraping>>

\* mutant: after an error there are no images, and no error
EventImagesUnmarked ==
  /\ dead = "no" /\ streamer = "events"
  /\ Images!Store \/ (irep' = 0 /\ UNCHANGED inewest)
  /\ UNCHANGED <<startVars, usage, scraping>>

\* ... and then at each image event.
EventImages ==
  /\ dead = "no" /\ streamer = "events"
  /\ Images!Store \/ Images!StoreErr
  /\ UNCHANGED <<startVars, usage, scraping>>

\* log.Fatal, or the panic at a result without an event
StreamerEnds ==
  /\ dead = "no" /\ streamer # "off"
  /\ dead' = "streamer"
  /\ UNCHANGED <<start, streamer, sizeErr, ticking, images, usage, scraping>>

UsageTick ==
  /\ dead = "no" /\ "usage" \in ticking
  /\ Usage!Store \/ Usage!StoreErr
  /\ UNCHANGED <<startVars, images, scraping>>

\* A refresh of the size cache fails; its error is there to stay.
SizesFail ==
  /\ dead = "no" /\ "sizes" \in ticking /\ ~sizeErr
  /\ sizeErr' = TRUE
  /\ UNCHANGED <<start, streamer, ticking, dead, images, usage, scraping>>

-----------------------------------------------------------------------------
(* The scrapes                                                               *)

Rest == Serving /\ UNCHANGED <<startVars, images, usage>>

Arrive(r) ==
  \/ Rest /\ Admit(r, collectors, opts.maxRequests)
  \/ Rest /\ Refuse(r, opts.maxRequests)

AskPodman(r) ==
  \/ Rest /\ Containers(r, sizeErr)
  \/ Rest /\ AskStats(r, opts.statsTimeout)
  \/ Rest /\ Finished(r)
  \/ \E c \in Registered : Rest /\ Update(r, c, irep, urep)

\* the goroutine of podman, which may take as long as it likes
StatsStep(r) == Rest /\ WaitStats(r)
Deadline(r) == Rest /\ Stats!Expire(r) /\ UNCHANGED scrapes
TakeStats(r) == Rest /\ Stats!Take(r) /\ UNCHANGED scrapes

Reply(r) == Rest /\ (Respond(r) \/ Close(r, opts.maxRequests))

Next ==
  \/ Boot \/ FirstImages \/ EventImages \/ StreamerEnds \/ UsageTick \/ SizesFail
  \/ \E r \in Requests : Arrive(r) \/ AskPodman(r) \/ StatsStep(r) \/ Reply(r)

Spec == Init /\ [][Next]_vars

\* Goroutines that can run do run, podman answers a listing, and time passes.
\* Nothing is asked of podman's statistics.
Fairness ==
  /\ WF_vars(Boot) /\ WF_vars(FirstImages)
  /\ \A r \in Requests :
       /\ WF_vars(AskPodman(r)) /\ WF_vars(Deadline(r)) /\ WF_vars(TakeStats(r))
       /\ WF_vars(Reply(r))

FairSpec == Spec /\ Fairness

-----------------------------------------------------------------------------
(* Properties                                                                *)

StartTypeOK ==
  /\ phase \in {"flags", "enable", "handler", "registry", "streamer", "sizes", "usage",
                "listen", "serve"}
  /\ state \subseteq Registered /\ collectors \in {{}, state}
  /\ streamer \in {"off", "first", "events", "idle"} /\ sizeErr \in BOOLEAN
  /\ ticking \subseteq {"sizes", "usage"} /\ dead \in {"no", "exit", "panic", "streamer"}

ReportsTypeOK ==
  /\ irep \in 0..MaxVer \cup {Err} /\ inewest \in 0..MaxVer
  /\ urep \in 0..MaxVer \cup {Err} /\ unewest \in 0..MaxVer

StatsTypeOK ==
  /\ call \in [Requests -> {"idle", "wait", "stats", "none", "error"}]
  /\ expired \in [Requests -> BOOLEAN]
  /\ worker \in [Requests -> {"off", "look", "compute", "end"}]
  /\ chan \in [Requests -> {"empty", "stats", "failed"}]

ScrapesTypeOK ==
  /\ status \in [Requests -> {"idle", "refused", "collect", "done"}]
  /\ pc \in [Requests -> [Registered -> {"off", "run", "stats", "end"}]]
  /\ success \in [Requests -> [Registered -> {"none", "yes", "no"}]]
  /\ \A r \in Requests, c \in Registered :
       /\ pc[r][c] # "off" <=> status[r] \in {"collect", "done"} /\ c \in collectors
       /\ success[r][c] # "none" <=> pc[r][c] = "end"
       /\ call[r] # "idle" => pc[r]["container"] = "stats"

\* the requests admitted whose response is not written
InFlight == {r \in Requests : status[r] \in {"collect", "done"}}
SlotsTypeOK == slots = IF opts.maxRequests > 0 THEN Cardinality(InFlight) ELSE 0

\* Every variable holds a value of its kind; a request has a goroutine for each
\* collector of the handler while its response is not written, what a goroutine
\* leaves is there once it has ended (collector/collector.go:98-147), and the
\* semaphore has a token for each request in flight (exporter/handler.go:125).
TypeOK == StartTypeOK /\ ReportsTypeOK /\ StatsTypeOK /\ ScrapesTypeOK /\ SlotsTypeOK

\* What a collector owes for what pdcs returned it: the metrics of its objects,
\* of an image by its references, and nothing for an error.
Product(c, names, list) == {c} \X names \X Range(list)
Owed(c, what) ==
  IF what = <<Err>> THEN {}
  ELSE CASE c = "container" -> Product(c, {"info", "rootfs_size"}, what[2])
                \cup {s \in Product(c, {"pids", "block_output"}, what[2]) : s[3] \in what[3]}
         [] c = "pod" -> Product(c, {"info", "state", "containers", "created"}, what[2])
         [] c = "volume" -> Product(c, {"info", "created"}, what[2])
         [] c = "network" -> Product(c, {"info"}, what[2])
         [] c = "system" -> {c} \X {"api", "runtime", "conmon", "buildah"} \X {"podman"}
         [] c = "disk_usage" ->
              {c} \X {"size", "reclaimable"} \X {"images", "containers", "volumes"}
         [] c = "image" ->
              UNION {UNION {Range(EntrySeries(e)) : e \in Range(Entries(i))} :
                       i \in IF what[2] = 0 THEN {} ELSE Range(ImagesOf[what[2]])}

\* A response has for every collector of the handler its success and all the
\* series it owes for what pdcs returned it, or its failure and none of them,
\* whatever the other collectors meet (collector/collector.go:98-147; the early
\* returns of the Update methods).
ResponseWhole ==
  \A r \in Requests : status[r] = "done" =>
    /\ \A c \in collectors :
         /\ success[r][c] = IF found[r][c] = <<Err>> THEN "no" ELSE "yes"
         /\ Range(sent[r][c]) = Owed(c, found[r][c])
    /\ Series(r) = UNION {Owed(c, found[r][c]) : c \in collectors}

\* The registry is never given a series twice, which it would answer with an
\* error, although an image may have several references that decompose to the
\* same labels (pdcs/image.go:95-115).
NoDuplicates == \A r \in Requests : ~Duplicates(r)

\* Every collector that reads a cache finds it refreshed: Start enables the
\* collectors in one place and their refreshers in two others, each with its own
\* condition (exporter/exporter.go:97, 103, 128-150), and the disk usage report
\* is there before the first scrape.
SourcesReady ==
  Serving =>
    /\ "sizes" \in ticking
    /\ "image" \in collectors <=> streamer \in {"first", "events"}
    /\ "disk_usage" \in collectors <=> "usage" \in ticking /\ urep # 0

\* A scrape is never shown an older image or disk usage report than one another
\* scrape has been shown, whatever errors and refreshes come between and although
\* the scrapes overlap (pdcs/image.go:33-60, pdcs/disk_usage.go:32-59).
ReportsForward ==
  [][\A r, q \in Requests, c \in Registered \cap {"image", "disk_usage"} :
       success[r][c] = "none" /\ success'[r][c] = "yes" /\ success[q][c] = "yes"
         => found'[r][c][2] >= found[q][c][2]]_vars

\* Start gets to the listening server, or the process ends with an error of
\* podman or of the listener; by a panic only for a telemetry path the mux does
\* not take beside "/" or a cache duration NewTicker does not take, and for a
\* statistics timeout of any value it starts (exporter/exporter.go:43-126,
\* pdcs/container.go:232).
Unstartable == opts.path # "apart" \/ opts.cacheDuration <= 0
StartEnds ==
  phase = "enable" ~> Serving \/ dead \in {"exit", "streamer"} \/ (dead = "panic" /\ Unstartable)

\* Every scrape is answered, although podman's statistics may never come
\* (pdcs/container.go:150-171): the deadline ends the wait.
Answered == \A r \in Requests : status[r] = "collect" ~> status[r] # "collect" \/ dead # "no"

\* With the image collector the image report is refreshed, although Start does
\* not wait for the goroutine that does it (exporter/exporter.go:99).
ImagesArrive == Serving /\ "image" \in collectors ~> irep # 0 \/ dead # "no"

\* A scrape of the exporter is a scrape as its clients know it.
Client == INSTANCE Scrape WITH
  Limits <- {c.maxRequests : c \in CommandLines},
  service <- IF phase = "serve" THEN {[collectors |-> collectors, max |-> opts.maxRequests]}
             ELSE {},
  status <- status,
  answer <- [r \in Requests |-> IF status[r] = "done" THEN success[r] ELSE Each("none")]
ScrapeSpec == Client!Spec

\* collector_success is 1 only if the collector got what it asked podman for
\* (collector/collector.go:24: "Whether a collector succeeded.").
SuccessHonest ==
  \A r \in Requests :
    success[r]["container"] = "yes" => found[r]["container"][1] = "report"
=============================================================================
