-------------------------- MODULE Exporter_proofs --------------------------
(***************************************************************************)
(* The exporter as a whole, for any command lines, any collectors, any     *)
(* answers of podman and any finite set of scrapes.                        *)
(***************************************************************************)
EXTENDS Exporter, Gather_proofs, FiniteSetTheorems, TLAPS

-----------------------------------------------------------------------------
(* Type correctness                                                          *)

\* The options are a command line until parseOptions has been through them.
OptionsOK ==
  opts \in IF phase = "flags" THEN CommandLines ELSE {parseOptions(cmd) : cmd \in CommandLines}

\* There is no handler before newHandler.
HandlerLater == phase \in {"flags", "enable", "handler"} => collectors = {}

StartInv == StartTypeOK /\ OptionsOK /\ HandlerLater

\* No scrape comes before the server listens.
NoneBefore == phase # "serve" => \A r \in Requests : status[r] = "idle"

\* A scrape has its response when its collectors have ended.
EndedFirst == \A r \in Requests : status[r] = "done" => AllEnded(r)

ScrapesInv == StatsTypeOK /\ ScrapesTypeOK /\ NoneBefore /\ EndedFirst

IInv == StartInv /\ ReportsTypeOK /\ ScrapesInv

\* What the options are once the flags are parsed.
LEMMA Parsed ==
  ASSUME OptionsOK, phase # "flags"
  PROVE  /\ opts.maxRequests \in {c.maxRequests : c \in CommandLines}
         /\ opts.maxRequests \in Int /\ opts.statsTimeout \in Int
         /\ opts.cacheDuration \in Int
         /\ opts.enable \subseteq Flags \ {"enable-all", "version"}
<1>1. PICK cmd \in CommandLines : opts = parseOptions(cmd)
  BY DEF OptionsOK
<1>2. cmd \in FlagSet
  BY StartAssumption DEF StartAssumption
<1> QED
  BY <1>1, <1>2 DEF parseOptions, FlagSet

LEMMA InitInv == Init => IInv
<1> SUFFICES ASSUME Init PROVE IInv
  OBVIOUS
<1> USE DEF Init
<1>1. StartInv
  BY CollectorsAssumption
     DEF CollectorsAssumption, StartInit, StartInv, StartTypeOK, OptionsOK, HandlerLater
<1>2. ReportsTypeOK
  BY ExporterAssumption DEF ExporterAssumption, ReportsTypeOK
<1>3. StatsTypeOK
  BY DEF GatherInit, Stats!Init, StatsTypeOK
<1>4. ScrapesTypeOK /\ NoneBefore /\ EndedFirst
  BY DEF StartInit, GatherInit, Stats!Init, Each, ScrapesTypeOK, NoneBefore, EndedFirst
<1> QED
  BY <1>1, <1>2, <1>3, <1>4 DEF IInv, ScrapesInv

\* A call of Start.
LEMMA CallStartInv ==
  ASSUME StartInv, Call
  PROVE  StartInv'
<1> USE DEF StartInv, StartTypeOK, OptionsOK, HandlerLater, At, End, start
<1>1. CASE PrintVersion
  BY <1>1 DEF PrintVersion
<1>2. CASE Parse
  BY <1>2 DEF Parse
<1>3. CASE SetEnabledCollectors
  BY <1>3 DEF SetEnabledCollectors, SetStates
<1>4. CASE NewHandler
  BY <1>4 DEF NewHandler
<1>5. CASE PathPanics \/ SetupRegistryFails \/ TickerPanics \/ ListenFails
  BY <1>5 DEF PathPanics, SetupRegistryFails, TickerPanics, ListenFails
<1>6. CASE SetupRegistry \/ NoDiskUsage \/ Listen
  BY <1>6 DEF SetupRegistry, NoDiskUsage, Listen
<1>7. CASE StartEventStreamer
  BY <1>7 DEF StartEventStreamer
<1>8. CASE StartCacheSizeTicker
  BY <1>8 DEF StartCacheSizeTicker
<1> QED
  BY <1>1, <1>2, <1>3, <1>4, <1>5, <1>6, <1>7, <1>8 DEF Call

LEMMA StartInvNext ==
  ASSUME StartInv, [Next]_vars
  PROVE  StartInv'
<1>1. CASE UNCHANGED startVars
  BY <1>1 DEF startVars, start, StartInv, StartTypeOK, OptionsOK, HandlerLater
<1>2. CASE Call
  BY <1>2, CallStartInv
<1>3. CASE StartDiskUsageTicker
  BY <1>3 DEF StartDiskUsageTicker, At, StartInv, StartTypeOK, OptionsOK, HandlerLater
<1>4. CASE FirstImages \/ StreamerEnds \/ SizesFail
  BY <1>4 DEF FirstImages, StreamerEnds, SizesFail, start,
              StartInv, StartTypeOK, OptionsOK, HandlerLater
<1> QED
  BY <1>1, <1>2, <1>3, <1>4
     DEF Next, Boot, EventImages, UsageTick, Arrive, AskPodman, StatsStep, Reply, Rest, vars

\* A step leaves a report alone, or is one of its refreshes.
LEMMA ReportSteps ==
  ASSUME [Next]_vars
  PROVE  /\ UNCHANGED images \/ Images!Store \/ Images!StoreErr
         /\ UNCHANGED usage \/ Usage!Store \/ Usage!StoreErr
<1>1. CASE UNCHANGED <<images, usage>>
  BY <1>1
<1>2. CASE FirstImages \/ EventImages
  BY <1>2 DEF FirstImages, EventImages
<1>3. CASE Boot \/ UsageTick
  BY <1>3 DEF Boot, UsageTick
<1> QED
  BY <1>1, <1>2, <1>3
     DEF Next, StreamerEnds, SizesFail, Arrive, AskPodman, StatsStep, Reply, Rest, vars

LEMMA ReportsNext ==
  ASSUME ReportsTypeOK, [Next]_vars
  PROVE  ReportsTypeOK'
BY ReportSteps, ExporterAssumption
   DEF ReportsTypeOK, images, usage, ExporterAssumption,
       Images!Store, Images!StoreErr, Usage!Store, Usage!StoreErr

-----------------------------------------------------------------------------
(* The scrapes                                                               *)

\* A step that is not of a scrape leaves the scrapes alone; one that is of a
\* scrape leaves Start alone.
ScrapeStep(r) ==
  \/ Admit(r, collectors, opts.maxRequests)
  \/ Refuse(r, opts.maxRequests)
  \/ Containers(r, sizeErr)
  \/ AskStats(r, opts.statsTimeout)
  \/ Finished(r)
  \/ \E c \in Registered : Update(r, c, irep, urep)
  \/ WaitStats(r)
  \/ Respond(r)
  \/ Close(r, opts.maxRequests)

LEMMA ScrapeSteps ==
  ASSUME [Next]_vars
  PROVE  \/ UNCHANGED scraping /\ (phase = "serve" => UNCHANGED start)
         \/ Rest /\ \E r \in Requests : ScrapeStep(r)
<1>1. CASE UNCHANGED vars
  BY <1>1 DEF vars, startVars, start
<1>2. CASE Boot
  <2>1. UNCHANGED scraping
    BY <1>2 DEF Boot
  <2>2. phase = "serve" => FALSE
    BY <1>2 DEF Boot, Call, PrintVersion, Parse, SetEnabledCollectors, NewHandler, PathPanics,
         SetupRegistry, SetupRegistryFails, StartEventStreamer, StartCacheSizeTicker,
         TickerPanics, StartDiskUsageTicker, NoDiskUsage, Listen, ListenFails, At
  <2> QED
    BY <2>1, <2>2
<1>3. CASE FirstImages \/ EventImages \/ StreamerEnds \/ UsageTick \/ SizesFail
  BY <1>3 DEF FirstImages, EventImages, StreamerEnds, UsageTick, SizesFail, startVars, start
<1>4. ASSUME NEW r \in Requests, Arrive(r) \/ AskPodman(r) \/ StatsStep(r) \/ Reply(r)
      PROVE  Rest /\ ScrapeStep(r)
  BY <1>4 DEF Arrive, AskPodman, StatsStep, Reply, ScrapeStep
<1> QED
  BY <1>1, <1>2, <1>3, <1>4 DEF Next


\* podman's statistics and the call of them.
LEMMA StatsNext ==
  ASSUME StatsTypeOK, opts.statsTimeout \in Int, NEW r \in Requests, ScrapeStep(r)
  PROVE  StatsTypeOK'
<1> USE DEF StatsTypeOK
<1>1. CASE UNCHANGED stats
  BY <1>1 DEF stats
<1>2. CASE AskStats(r, opts.statsTimeout)
  <2>1. CASE Stats!Begin(r, opts.statsTimeout)
    <3>1. (opts.statsTimeout <= 0) \in BOOLEAN
      OBVIOUS
    <3> QED
      BY <2>1, <3>1 DEF Stats!Begin
  <2>2. CASE Stats!BeginFails(r)
    BY <2>2 DEF Stats!BeginFails, Stats!Return
  <2> QED
    BY <1>2, <2>1, <2>2 DEF AskStats
<1>3. CASE WaitStats(r)
  <2>1. Stats!Step(r)
    BY <1>3 DEF WaitStats
  <2>2. CASE Stats!Look(r)
    BY <2>2 DEF Stats!Look
  <2>3. CASE Stats!Compute(r)
    BY <2>3 DEF Stats!Compute
  <2>4. CASE Stats!Expire(r)
    BY <2>4 DEF Stats!Expire
  <2>5. CASE Stats!TakeReport(r) \/ Stats!TakeDeadline(r)
    BY <2>5 DEF Stats!TakeReport, Stats!TakeDeadline, Stats!Return
  <2> QED
    BY <2>1, <2>2, <2>3, <2>4, <2>5 DEF Stats!Step, Stats!Take
<1>4. CASE Finished(r)
  BY <1>4 DEF Finished
<1> QED
  BY <1>1, <1>2, <1>3, <1>4
     DEF ScrapeStep, Admit, Refuse, Containers, Update, Respond, Close

\* An Update returns while its scrape collects.
LEMMA ExecutedInv ==
  ASSUME ScrapesTypeOK, EndedFirst, NEW r \in Requests, NEW c \in Registered,
         pc[r][c] \in {"run", "stats"}, UNCHANGED collectors,
         pc' = [pc EXCEPT ![r][c] = "end"],
         NEW ok \in {"yes", "no"}, success' = [success EXCEPT ![r][c] = ok], UNCHANGED status,
         \A q \in Requests : q # r => call'[q] = call[q],
         call'[r] = "idle" \/ (call'[r] = call[r] /\ c # "container")
  PROVE  ScrapesTypeOK' /\ EndedFirst' /\ status[r] = "collect"
<1> USE DEF ScrapesTypeOK
<1>1. status[r] = "collect"
  BY DEF EndedFirst, AllEnded
<1>2. pc' \in [Requests -> [Registered -> {"off", "run", "stats", "end"}]]
  OBVIOUS
<1>3. success' \in [Requests -> [Registered -> {"none", "yes", "no"}]]
  OBVIOUS
<1>4. ASSUME NEW q \in Requests, NEW d \in Registered
      PROVE  /\ pc'[q][d] # "off" <=> status'[q] \in {"collect", "done"} /\ d \in collectors'
             /\ success'[q][d] # "none" <=> pc'[q][d] = "end"
             /\ call'[q] # "idle" => pc'[q]["container"] = "stats"
  BY <1>1
<1>5. EndedFirst'
  BY <1>1 DEF EndedFirst, AllEnded
<1> QED
  BY <1>1, <1>2, <1>3, <1>4, <1>5


LEMMA ScrapesNext ==
  ASSUME StartInv, ScrapesInv, phase = "serve", UNCHANGED startVars,
         NEW r \in Requests, ScrapeStep(r)
  PROVE  ScrapesInv'
<1> USE DEF ScrapesInv, ScrapesTypeOK
<1>1. StatsTypeOK'
  BY StatsNext, Parsed DEF StartInv
<1>2. NoneBefore' /\ UNCHANGED collectors
  BY DEF NoneBefore, startVars, start
<1>3. CASE Admit(r, collectors, opts.maxRequests)
  <2> USE <1>3 DEF Admit, stats
  <2>1. /\ status' \in [Requests -> {"idle", "refused", "collect", "done"}]
        /\ pc' \in [Requests -> [Registered -> {"off", "run", "stats", "end"}]]
    OBVIOUS
  <2>2. ASSUME NEW q \in Requests, NEW c \in Registered
        PROVE  /\ pc'[q][c] # "off" <=> status'[q] \in {"collect", "done"} /\ c \in collectors'
               /\ success'[q][c] # "none" <=> pc'[q][c] = "end"
               /\ call'[q] # "idle" => pc'[q]["container"] = "stats"
    <3>1. CASE q # r
      BY <1>2, <3>1
    <3>2. CASE q = r
      BY <1>2, <3>2, CollectorsAssumption DEF CollectorsAssumption
    <3> QED
      BY <3>1, <3>2
  <2>3. EndedFirst'
    BY DEF EndedFirst, AllEnded
  <2> QED
    BY <1>1, <1>2, <2>1, <2>2, <2>3
<1>4. CASE Refuse(r, opts.maxRequests)
  BY <1>1, <1>2, <1>4 DEF Refuse, stats, EndedFirst, AllEnded
<1>5. CASE Containers(r, sizeErr)
  <2>1. CASE Executed(r, "container", <<Err>>, << >>, FALSE) /\ UNCHANGED stats
    <3>1. "container" \in Registered /\ pc[r]["container"] = "run"
      BY <1>5, CollectorsAssumption DEF CollectorsAssumption, Containers
    <3>2. call'[r] = "idle"
      BY <2>1, <3>1 DEF stats, StatsTypeOK
    <3>3. ScrapesTypeOK' /\ EndedFirst'
      BY <1>2, <2>1, <3>1, <3>2, ExecutedInv DEF stats, Executed
    <3> QED
      BY <1>1, <1>2, <3>3
  <2>2. CASE /\ pc' = [pc EXCEPT ![r]["container"] = "stats"]
             /\ UNCHANGED <<status, success, stats>>
    BY <1>1, <1>2, <1>5, <2>2, CollectorsAssumption
       DEF CollectorsAssumption, Containers, stats, EndedFirst, AllEnded
  <2> QED
    BY <1>5, <2>1, <2>2 DEF Containers
<1>6. CASE AskStats(r, opts.statsTimeout)
  BY <1>1, <1>2, <1>6
     DEF AskStats, Stats!Begin, Stats!BeginFails, Stats!Return, scrapes, EndedFirst, AllEnded,
         StatsTypeOK
<1>7. CASE Finished(r)
  <2>1. "container" \in Registered /\ pc[r]["container"] = "stats"
    BY <1>7, CollectorsAssumption DEF CollectorsAssumption, Finished
  <2>2. call'[r] = "idle" /\ \A q \in Requests : q # r => call'[q] = call[q]
    BY <1>7 DEF Finished, StatsTypeOK
  <2>3. PICK ok \in {"yes", "no"} :
          /\ success' = [success EXCEPT ![r]["container"] = ok]
          /\ pc' = [pc EXCEPT ![r]["container"] = "end"] /\ UNCHANGED status
    BY <1>7 DEF Finished, Executed
  <2>4. ScrapesTypeOK' /\ EndedFirst'
    <3> HIDE DEF ScrapesTypeOK
    <3> QED
      BY <1>2, <2>1, <2>2, <2>3, ExecutedInv DEF ScrapesInv
  <2> QED
    BY <1>1, <1>2, <2>4
<1>8. CASE \E c \in Registered : Update(r, c, irep, urep)
  <2>1. PICK c \in Registered : Update(r, c, irep, urep)
    BY <1>8
  <2>2. PICK ok \in {"yes", "no"} :
          /\ success' = [success EXCEPT ![r][c] = ok]
          /\ pc' = [pc EXCEPT ![r][c] = "end"] /\ UNCHANGED status
    BY <2>1 DEF Update, Executed
  <2>3. pc[r][c] \in {"run", "stats"} /\ UNCHANGED call /\ c # "container"
    BY <2>1 DEF Update, stats
  <2>4. ScrapesTypeOK' /\ EndedFirst'
    <3> HIDE DEF ScrapesTypeOK
    <3> QED
      BY <1>2, <2>2, <2>3, ExecutedInv DEF ScrapesInv
  <2> QED
    BY <1>1, <1>2, <2>4
<1>9. CASE WaitStats(r)
  BY <1>1, <1>2, <1>9
     DEF WaitStats, Stats!Step, Stats!Look, Stats!Compute, Stats!Expire, Stats!Take,
         Stats!TakeReport, Stats!TakeDeadline, Stats!Return, scrapes, EndedFirst, AllEnded,
         StatsTypeOK
<1>10. CASE Respond(r)
  BY <1>1, <1>2, <1>10 DEF Respond, stats, EndedFirst, AllEnded
<1>11. CASE Close(r, opts.maxRequests)
  <2> USE <1>11 DEF Close, stats, Each
  <2>1. /\ status' \in [Requests -> {"idle", "refused", "collect", "done"}]
        /\ pc' \in [Requests -> [Registered -> {"off", "run", "stats", "end"}]]
        /\ success' \in [Requests -> [Registered -> {"none", "yes", "no"}]]
    OBVIOUS
  <2>2. call[r] = "idle"
    BY CollectorsAssumption DEF CollectorsAssumption, EndedFirst, AllEnded
  <2>3. ASSUME NEW q \in Requests, NEW c \in Registered
        PROVE  /\ pc'[q][c] # "off" <=> status'[q] \in {"collect", "done"} /\ c \in collectors'
               /\ success'[q][c] # "none" <=> pc'[q][c] = "end"
               /\ call'[q] # "idle" => pc'[q]["container"] = "stats"
    BY <1>2, <2>2
  <2>4. EndedFirst'
    BY DEF EndedFirst, AllEnded
  <2> QED
    BY <1>1, <1>2, <2>1, <2>3, <2>4
<1> QED
  BY <1>3, <1>4, <1>5, <1>6, <1>7, <1>8, <1>9, <1>10, <1>11 DEF ScrapeStep

LEMMA ScrapesRest ==
  ASSUME ScrapesInv, UNCHANGED scraping, phase = "serve" => UNCHANGED start
  PROVE  ScrapesInv'
<1>1. CASE phase = "serve"
  BY <1>1 DEF scraping, scrapes, stats, start, ScrapesInv, ScrapesTypeOK, StatsTypeOK,
              NoneBefore, EndedFirst, AllEnded
<1>2. CASE phase # "serve"
  BY <1>2 DEF scraping, scrapes, stats, ScrapesInv, ScrapesTypeOK, StatsTypeOK,
              NoneBefore, EndedFirst, AllEnded
<1> QED
  BY <1>1, <1>2

LEMMA IInvNext == IInv /\ [Next]_vars => IInv'
<1> SUFFICES ASSUME IInv, [Next]_vars PROVE IInv'
  OBVIOUS
<1>1. StartInv' /\ ReportsTypeOK'
  BY StartInvNext, ReportsNext DEF IInv
<1>2. CASE UNCHANGED scraping /\ (phase = "serve" => UNCHANGED start)
  BY <1>1, <1>2, ScrapesRest DEF IInv
<1>3. CASE Rest /\ \E r \in Requests : ScrapeStep(r)
  BY <1>1, <1>3, ScrapesNext DEF IInv, Rest, Serving
<1> QED
  BY <1>2, <1>3, ScrapeSteps

LEMMA Inductive == Spec => []IInv
<1> QED
  BY InitInv, IInvNext, PTL DEF Spec

-----------------------------------------------------------------------------
(* The semaphore                                                             *)

\* The requests in flight are finitely many.
LEMMA InFlightFinite == IsFiniteSet(InFlight) /\ Cardinality(InFlight) \in Nat
<1>1. IsFiniteSet(InFlight)
  BY RequestsAssumption, FS_Subset DEF RequestsAssumption, InFlight
<1> QED
  BY <1>1, FS_CardinalityType

\* Before the server listens no request is in flight.
LEMMA NoneInFlight ==
  ASSUME ScrapesInv, phase # "serve"
  PROVE  InFlight = {} /\ Cardinality(InFlight) = 0
<1>1. InFlight = {}
  BY DEF ScrapesInv, NoneBefore, InFlight
<1> QED
  BY <1>1, FS_EmptySet

\* A step of a scrape takes a token for a request that it lets in, and gives it
\* back for one that it lets go.
LEMMA SlotsOfStep ==
  ASSUME IInv, SlotsTypeOK, phase = "serve", UNCHANGED start,
         NEW r \in Requests, ScrapeStep(r)
  PROVE  SlotsTypeOK'
<1>0. status \in [Requests -> {"idle", "refused", "collect", "done"}]
  BY DEF IInv, ScrapesInv, ScrapesTypeOK
<1>1. UNCHANGED opts /\ opts.maxRequests \in Int
  BY Parsed DEF start, IInv, StartInv
<1>2. IsFiniteSet(InFlight) /\ Cardinality(InFlight) \in Nat
  BY InFlightFinite
<1>3. CASE Admit(r, collectors, opts.maxRequests)
  <2>1. r \notin InFlight /\ InFlight' = InFlight \cup {r}
    BY <1>0, <1>3 DEF Admit, InFlight
  <2>2. Cardinality(InFlight') = Cardinality(InFlight) + 1
    BY <1>2, <2>1, FS_AddElement
  <2>3. slots' = IF opts.maxRequests > 0 THEN slots + 1 ELSE slots
    BY <1>3 DEF Admit, TakeSlot
  <2> QED
    BY <1>1, <2>2, <2>3 DEF SlotsTypeOK
<1>4. CASE Close(r, opts.maxRequests) /\ status[r] = "done"
  <2>1. r \in InFlight /\ InFlight' = InFlight \ {r}
    BY <1>0, <1>4 DEF Close, InFlight
  <2>2. Cardinality(InFlight') = Cardinality(InFlight) - 1
    BY <1>2, <2>1, FS_RemoveElement
  <2>3. slots' = IF opts.maxRequests > 0 THEN slots - 1 ELSE slots
    BY <1>4 DEF Close, GiveSlot
  <2> QED
    BY <1>1, <2>2, <2>3 DEF SlotsTypeOK
<1>5. ASSUME UNCHANGED slots, UNCHANGED InFlight PROVE SlotsTypeOK'
  BY <1>1, <1>5 DEF SlotsTypeOK
<1>6. CASE Close(r, opts.maxRequests) /\ status[r] # "done"
  <2>1. UNCHANGED slots
    BY <1>6 DEF Close, GiveSlot
  <2>2. UNCHANGED InFlight
    BY <1>0, <1>6 DEF Close, InFlight
  <2> QED
    BY <1>5, <2>1, <2>2
<1>7. CASE Refuse(r, opts.maxRequests) \/ Respond(r)
  <2>1. UNCHANGED slots /\ UNCHANGED InFlight
    BY <1>0, <1>7 DEF Refuse, Respond, InFlight
  <2> QED
    BY <1>5, <2>1
<1>8. CASE UNCHANGED <<slots, status>>
  BY <1>5, <1>8 DEF InFlight
<1> QED
  BY <1>3, <1>4, <1>6, <1>7, <1>8
     DEF ScrapeStep, Containers, AskStats, Finished, Update, Executed, WaitStats, scrapes

LEMMA SlotsNext ==
  ASSUME IInv, SlotsTypeOK, [Next]_vars
  PROVE  SlotsTypeOK'
<1>1. CASE phase = "serve" /\ UNCHANGED scraping /\ UNCHANGED start
  BY <1>1 DEF scraping, scrapes, start, SlotsTypeOK, InFlight
<1>2. CASE phase # "serve" /\ UNCHANGED scraping
  <2>1. Cardinality(InFlight) = 0
    BY <1>2, NoneInFlight DEF IInv
  <2>2. UNCHANGED slots /\ UNCHANGED InFlight
    BY <1>2 DEF scraping, scrapes, InFlight
  <2> QED
    BY <2>1, <2>2 DEF SlotsTypeOK
<1>3. CASE Rest /\ \E r \in Requests : ScrapeStep(r)
  BY <1>3, SlotsOfStep DEF Rest, Serving, startVars
<1> QED
  BY <1>1, <1>2, <1>3, ScrapeSteps

LEMMA SlotsInit == Init => SlotsTypeOK
<1> SUFFICES ASSUME Init PROVE SlotsTypeOK
  OBVIOUS
<1>1. slots = 0 /\ Cardinality(InFlight) = 0
  BY InitInv, NoneInFlight DEF Init, StartInit, GatherInit, IInv
<1> QED
  BY <1>1 DEF SlotsTypeOK

LEMMA AlwaysSlots == Spec => []SlotsTypeOK
<1> QED
  BY SlotsInit, SlotsNext, Inductive, PTL DEF Spec

\* Every variable holds a value of its kind: no collector's goroutine runs outside
\* its scrape, none is left when the response is made (collector/collector.go:98-147),
\* and a slot is held by the requests in flight and by no other
\* (exporter/handler.go:125).
THEOREM ExporterTypeCorrect == Spec => []TypeOK
<1>1. IInv /\ SlotsTypeOK => TypeOK
  BY DEF IInv, StartInv, ScrapesInv, TypeOK
<1> QED
  BY <1>1, Inductive, AlwaysSlots, PTL

-----------------------------------------------------------------------------
(* The collectors and what refreshes their caches                            *)

\* What Start has done when it comes to a call, in terms of the options.
Enabling ==
  /\ phase \in {"flags", "enable"} => state = {"container"}
  /\ phase \notin {"flags", "enable"} => state = {"container"} \cup (Enabled \cap Registered)
  /\ phase \notin {"flags", "enable", "handler"} => collectors = state

Refreshing ==
  /\ phase \notin {"flags", "enable", "handler", "registry", "streamer"} =>
       streamer \in IF updateImages THEN {"first", "events"} ELSE {"idle"}
  /\ phase \in {"flags", "enable", "handler", "registry", "streamer"} => streamer = "off"
  /\ ticking = CASE phase = "usage" -> {"sizes"}
                 [] phase \in {"listen", "serve"} ->
                      {"sizes"} \cup IF UsageWanted THEN {"usage"} ELSE {}
                 [] OTHER -> {}
  /\ "usage" \in ticking => urep # 0

Sources == Enabling /\ Refreshing

LEMMA CallSources ==
  ASSUME Sources, Call, UNCHANGED urep
  PROVE  Sources'
<1> USE DEF Sources, Enabling, Refreshing, At, End, start
<1>1. CASE PrintVersion
  BY <1>1 DEF PrintVersion, Enabled, getEnabledCollectors, updateImages, UsageWanted
<1>2. CASE Parse
  BY <1>2 DEF Parse
<1>3. CASE SetEnabledCollectors
  BY <1>3 DEF SetEnabledCollectors, SetStates, Enabled, getEnabledCollectors
<1>4. CASE NewHandler
  BY <1>4 DEF NewHandler, Enabled, getEnabledCollectors
<1>5. CASE PathPanics \/ SetupRegistryFails \/ TickerPanics \/ ListenFails
  BY <1>5 DEF PathPanics, SetupRegistryFails, TickerPanics, ListenFails,
              Enabled, getEnabledCollectors, updateImages, UsageWanted
<1>6. CASE SetupRegistry \/ NoDiskUsage \/ Listen
  BY <1>6 DEF SetupRegistry, NoDiskUsage, Listen,
              Enabled, getEnabledCollectors, updateImages, UsageWanted
<1>7. CASE StartEventStreamer
  BY <1>7 DEF StartEventStreamer, Enabled, getEnabledCollectors, updateImages
<1>8. CASE StartCacheSizeTicker
  BY <1>8 DEF StartCacheSizeTicker, Enabled, getEnabledCollectors, updateImages
<1> QED
  BY <1>1, <1>2, <1>3, <1>4, <1>5, <1>6, <1>7, <1>8 DEF Call

\* A refresh of the disk usage report leaves it filled.
LEMMA UsageFilled ==
  ASSUME Usage!Store \/ Usage!StoreErr
  PROVE  urep' # 0
BY ExporterAssumption DEF ExporterAssumption, Usage!Store, Usage!StoreErr

LEMMA SourcesNext ==
  ASSUME Sources, [Next]_vars
  PROVE  Sources'
<1> USE DEF Sources, Enabling, Refreshing
<1>1. CASE UNCHANGED <<startVars, urep>>
  BY <1>1 DEF startVars, start, Enabled, getEnabledCollectors, updateImages, UsageWanted
<1>2. CASE Call /\ UNCHANGED usage
  BY <1>2, CallSources DEF usage
<1>3. CASE StartDiskUsageTicker /\ (Usage!Store \/ Usage!StoreErr)
  BY <1>3, UsageFilled DEF StartDiskUsageTicker, At, Enabled, getEnabledCollectors, updateImages,
                           UsageWanted
<1>4. CASE UsageTick
  BY <1>4, UsageFilled DEF UsageTick, startVars, start, Enabled, getEnabledCollectors,
                           updateImages, UsageWanted
<1>5. CASE FirstImages \/ StreamerEnds \/ SizesFail
  BY <1>5 DEF FirstImages, StreamerEnds, SizesFail, start, usage, Enabled, getEnabledCollectors,
              updateImages, UsageWanted
<1> QED
  BY <1>1, <1>2, <1>3, <1>4, <1>5
     DEF Next, Boot, EventImages, Arrive, AskPodman, StatsStep, Reply, Rest, usage, vars

\* Every collector with a cache has been registered by its init function
\* (collector/image.go, collector/disk_usage.go).
CachesRegistered == {"image", "disk_usage"} \subseteq Registered

\* Whatever the command line, an enabled collector with a cache finds it refreshed
\* and no cache is refreshed for nobody; the first scrape finds the disk usage
\* (exporter/exporter.go:92-105).
THEOREM CachesRefreshed == CachesRegistered /\ Spec => []SourcesReady
<1>1. Init => Sources
  BY DEF Init, StartInit, Sources, Enabling, Refreshing
<1>2. Sources /\ [Next]_vars => Sources'
  BY SourcesNext
<1>3. CachesRegistered /\ IInv /\ Sources => SourcesReady
  <2> SUFFICES ASSUME CachesRegistered, IInv, Sources, Serving PROVE
                 /\ "sizes" \in ticking
                 /\ "image" \in collectors <=> streamer \in {"first", "events"}
                 /\ "disk_usage" \in collectors <=> "usage" \in ticking /\ urep # 0
    BY DEF SourcesReady
  <2>1. opts.enable \subseteq Flags \ {"enable-all", "version"}
    BY Parsed DEF IInv, StartInv, Serving
  <2>2. "image" \in Enabled <=> updateImages
    BY <2>1 DEF Enabled, getEnabledCollectors, updateImages, Flags, AllCollectors
  <2>3. "disk_usage" \in Enabled <=> UsageWanted
    BY <2>1 DEF Enabled, getEnabledCollectors, UsageWanted, Flags, AllCollectors
  <2> QED
    BY <2>2, <2>3 DEF CachesRegistered, Sources, Enabling, Refreshing, Serving
<1> QED
  <2>1. CASE CachesRegistered
    <3>1. IInv /\ Sources => SourcesReady
      BY <1>3, <2>1
    <3> QED
      BY <1>1, <1>2, <3>1, Inductive, PTL DEF Spec
  <2> QED
    BY <2>1

-----------------------------------------------------------------------------
(* The exporter implements Scrape                                            *)

\* what the clients see: the refinement mapping of Client
service ==
  IF phase = "serve" THEN {[collectors |-> collectors, max |-> opts.maxRequests]} ELSE {}
answer == [r \in Requests |-> IF status[r] = "done" THEN success[r] ELSE Each("none")]

\* A step that changes nothing the clients see.
Unseen == UNCHANGED <<service, status, answer>>

LEMMA UnseenStep ==
  ASSUME Unseen
  PROVE  [Client!Next]_<<service, status, answer>>
BY DEF Unseen

\* The limit of requests is the semaphore's.
LEMMA LimitKept ==
  ASSUME IInv, SlotsTypeOK, phase = "serve"
  PROVE  SlotFree(opts.maxRequests) <=> ~Client!Full(opts.maxRequests)
<1>1. Cardinality(InFlight) \in Nat
  BY InFlightFinite
<1>2. opts.maxRequests \in Int
  BY Parsed DEF IInv, StartInv
<1> DEFINE max == opts.maxRequests
           taken == Cardinality(InFlight)
<1>3. SlotFree(max) <=> max <= 0 \/ slots < max
  BY DEF SlotFree
<1>4. slots = IF max > 0 THEN taken ELSE 0
  BY DEF SlotsTypeOK
<1>5. Client!Full(max) <=> max > 0 /\ taken >= max
  BY Zenon DEF Client!Full, InFlight, Client!Cardinality, Cardinality
<1> HIDE DEF max, taken
<1>6. (max <= 0 \/ slots < max) <=> ~(max > 0 /\ taken >= max)
  BY <1>1, <1>2, <1>4 DEF max, taken
<1> QED
  BY <1>3, <1>5, <1>6 DEF max

LEMMA ClientInit == Init => Client!Init
BY DEF Init, StartInit, GatherInit, Client!Init, Client!NoAnswer, Each

\* Steps of Start: the clients see the server listen.
LEMMA CallStep ==
  ASSUME IInv, Call, UNCHANGED scraping
  PROVE  [Client!Next]_<<service, status, answer>>
<1>1. UNCHANGED <<status, answer>>
  BY DEF scraping, scrapes, answer
<1>2. CASE Listen
  <2> DEFINE s == [collectors |-> collectors, max |-> opts.maxRequests]
  <2>1. service = {} /\ service' = {s}
    BY <1>2 DEF Listen, At, service
  <2>2. s \in [collectors : SUBSET Registered, max : {c.maxRequests : c \in CommandLines}]
    BY <1>2, Parsed DEF IInv, StartInv, StartTypeOK, Listen, At
  <2>3. Client!Open
    BY <1>1, <2>1, <2>2 DEF Client!Open, service, answer
  <2> QED
    BY <2>3 DEF Client!Next, service, answer
<1>3. CASE ~Listen
  <2>1. phase # "serve" /\ (phase' # "serve" \/ UNCHANGED phase)
    BY <1>3 DEF Call, PrintVersion, Parse, SetEnabledCollectors, NewHandler, PathPanics,
         SetupRegistry, SetupRegistryFails, StartEventStreamer, StartCacheSizeTicker,
         TickerPanics, NoDiskUsage, ListenFails, At, End, start
  <2> QED
    BY <1>1, <2>1, UnseenStep DEF Unseen, service
<1> QED
  BY <1>2, <1>3

\* Steps of a scrape.
LEMMA ScrapeRefines ==
  ASSUME IInv, SlotsTypeOK, phase = "serve", UNCHANGED start,
         NEW r \in Requests, ScrapeStep(r)
  PROVE  [Client!Next]_<<service, status, answer>>
<1> DEFINE s == [collectors |-> collectors, max |-> opts.maxRequests]
<1> USE DEF IInv, ScrapesInv, ScrapesTypeOK
<1>1. service = {s} /\ service' = {s}
  BY DEF service, start
<1>2. CASE Admit(r, collectors, opts.maxRequests)
  <2>1. answer' = [answer EXCEPT ![r] = Client!NoAnswer]
    BY <1>2 DEF Admit, answer, Client!NoAnswer, Each
  <2>2. ~Client!Full(s.max)
    BY <1>2, LimitKept DEF Admit
  <2>3. Client!Admit(r)
    BY <1>1, <1>2, <2>1, <2>2 DEF Client!Admit, Client!Become, Admit, service, answer
  <2> QED
    BY <2>3 DEF Client!Next, service, answer
<1>3. CASE Refuse(r, opts.maxRequests)
  <2>1. answer' = [answer EXCEPT ![r] = Client!NoAnswer]
    BY <1>3 DEF Refuse, answer, Client!NoAnswer, Each
  <2>2. Client!Full(s.max)
    BY <1>3, LimitKept DEF Refuse
  <2>3. Client!Refuse(r)
    BY <1>1, <1>3, <2>1, <2>2 DEF Client!Refuse, Client!Become, Refuse, service, answer
  <2> QED
    BY <2>3 DEF Client!Next, service, answer
<1>4. CASE Respond(r)
  <2>1. answer' = [answer EXCEPT ![r] = success[r]]
    BY <1>4 DEF Respond, answer
  <2> DEFINE a == [c \in collectors |-> success[r][c]]
  <2>2. a \in [collectors -> {"yes", "no"}]
    BY <1>4 DEF Respond, AllEnded, StartInv, StartTypeOK
  <2>3. success[r] = [c \in Registered |-> IF c \in s.collectors THEN a[c] ELSE "none"]
    BY <1>4 DEF Respond, AllEnded, StartInv, StartTypeOK
  <2>4. answer' = [answer EXCEPT ![r] =
                     [c \in Registered |-> IF c \in s.collectors THEN a[c] ELSE "none"]]
    BY <2>1, <2>3
  <2>5. s \in service /\ a \in [s.collectors -> {"yes", "no"}]
    BY <1>1, <2>2
  <2>6. status[r] = "collect" /\ status' = [status EXCEPT ![r] = "done"]
    BY <1>4 DEF Respond
  <2>7. \E t \in service : \E b \in [t.collectors -> {"yes", "no"}] :
          answer' = [answer EXCEPT ![r] =
                       [c \in Registered |-> IF c \in t.collectors THEN b[c] ELSE "none"]]
    <3> HIDE DEF a, s, service, answer
    <3> QED
      BY <2>4, <2>5
  <2>8. UNCHANGED service
    BY <1>1
  <2>9. Client!Respond(r)
    BY <2>6, <2>7, <2>8, Zenon DEF Client!Respond, service, answer
  <2> QED
    BY <2>9 DEF Client!Next, service, answer
<1>5. CASE Close(r, opts.maxRequests)
  <2>1. answer' = [answer EXCEPT ![r] = Client!NoAnswer]
    BY <1>5 DEF Close, answer, Client!NoAnswer, Each
  <2>2. Client!Close(r)
    BY <1>1, <1>5, <2>1 DEF Client!Close, Client!Become, Close, service, answer
  <2> QED
    BY <2>2 DEF Client!Next, service, answer
<1>6. ASSUME UNCHANGED status,
             \A q \in Requests : status[q] = "done" => success'[q] = success[q]
      PROVE  [Client!Next]_<<service, status, answer>>
  BY <1>1, <1>6, UnseenStep DEF Unseen, answer
<1>7. CASE AskStats(r, opts.statsTimeout) \/ WaitStats(r)
  BY <1>6, <1>7 DEF AskStats, WaitStats, scrapes
<1>8. CASE Containers(r, sizeErr)
  BY <1>6, <1>8 DEF Containers, Executed
<1>9. CASE Finished(r)
  BY <1>6, <1>9, CollectorsAssumption
     DEF CollectorsAssumption, Finished, Executed, EndedFirst, AllEnded
<1>10. CASE \E c \in Registered : Update(r, c, irep, urep)
  BY <1>6, <1>10 DEF Update, Executed
<1> QED
  BY <1>2, <1>3, <1>4, <1>5, <1>7, <1>8, <1>9, <1>10 DEF ScrapeStep

\* The exporter is what its clients take it for: it serves nothing before Start
\* comes to serve, refuses only beyond the limit of requests, and answers at once
\* with the success or the failure of every enabled collector, whatever its
\* caches and its event streamer do (exporter/exporter.go:92-120,
\* exporter/handler.go:29-38, collector/collector.go:98-147).
THEOREM ExporterImplementsScrape == Spec => ScrapeSpec
<1>1. Init => Client!Init
  BY ClientInit
<1>2. IInv /\ SlotsTypeOK /\ [Next]_vars => [Client!Next]_<<service, status, answer>>
  <2> SUFFICES ASSUME IInv, SlotsTypeOK, [Next]_vars PROVE [Client!Next]_<<service, status, answer>>
    OBVIOUS
  <2>1. CASE Call /\ UNCHANGED scraping
    BY <2>1, CallStep
  <2>2. CASE UNCHANGED scraping /\ ~Call
    <3>1. UNCHANGED service
      BY <2>2 DEF Next, Boot, StartDiskUsageTicker, At, FirstImages, EventImages, StreamerEnds,
           UsageTick, SizesFail, Arrive, AskPodman, StatsStep, Reply, Rest, service, start,
           startVars, vars
    <3> QED
      BY <2>2, <3>1, UnseenStep DEF Unseen, answer, scraping, scrapes
  <2>3. CASE Rest /\ \E r \in Requests : ScrapeStep(r)
    BY <2>3, ScrapeRefines DEF Rest, Serving, startVars
  <2> QED
    BY <2>1, <2>2, <2>3, ScrapeSteps
<1> QED
  BY <1>1, <1>2, Inductive, AlwaysSlots, PTL DEF Spec, ScrapeSpec, Client!Spec, service, answer

-----------------------------------------------------------------------------
(* Responses                                                                 *)

LEMMA ErrorIsNoReport ==
  /\ \A x, y : <<x, y>> # <<Err>>
  /\ \A x, y, z : <<x, y, z>> # <<Err>>
OBVIOUS

\* A collector that asks podman for a list sends what it owes for it.
LEMMA ListOwed ==
  ASSUME NEW c \in {"pod", "volume", "network"}, NEW list, IsInjective(list)
  PROVE  /\ Range(SeriesOf(c, list)) = Owed(c, <<"report", list>>)
         /\ IsInjective(SeriesOf(c, list))
<1>1. Owed(c, <<"report", list>>) =
        CASE c = "pod" -> Product(c, {"info", "state", "containers", "created"}, list)
          [] c = "volume" -> Product(c, {"info", "created"}, list)
          [] c = "network" -> Product(c, {"info"}, list)
  BY ErrorIsNoReport DEF Owed
<1>2. CASE c = "pod"
  BY <1>1, <1>2, AllRange, AllInjective DEF SeriesOf, PodSeries, Product
<1>3. CASE c = "volume"
  BY <1>1, <1>3, AllRange, AllInjective DEF SeriesOf, VolumeSeries, Product
<1>4. CASE c = "network"
  <2>1. SeriesOf(c, list) = All(c, {"info"}, list)
    BY <1>4 DEF SeriesOf, NetworkSeries
  <2>2. Owed(c, <<"report", list>>) = {c} \X {"info"} \X Range(list)
    BY <1>1, <1>4 DEF Product
  <2>3. /\ Range(All(c, {"info"}, list)) = {c} \X {"info"} \X Range(list)
        /\ IsInjective(All(c, {"info"}, list))
    BY AllRange, AllInjective, Zenon
  <2> QED
    BY <2>1, <2>2, <2>3
<1> QED
  BY <1>2, <1>3, <1>4

\* So does one whose objects are always the same.
LEMMA FixedOwed ==
  ASSUME NEW c \in {"system", "disk_usage"}, NEW report
  PROVE  /\ Range(SeriesOf(c, report)) = Owed(c, <<"report", report>>)
         /\ IsInjective(SeriesOf(c, report))
<1>1. CASE c = "system"
  <2>1. Range(<<"podman">>) = {"podman"} /\ IsInjective(<<"podman">>)
    BY DEF Range, IsInjective
  <2>2. Owed(c, <<"report", report>>) =
          {c} \X {"api", "runtime", "conmon", "buildah"} \X {"podman"}
    BY <1>1, ErrorIsNoReport DEF Owed
  <2>3. SeriesOf(c, report) = All(c, {"api", "runtime", "conmon", "buildah"}, <<"podman">>)
    BY <1>1 DEF SeriesOf, SystemSeries
  <2>4. /\ Range(All(c, {"api", "runtime", "conmon", "buildah"}, <<"podman">>)) =
             {c} \X {"api", "runtime", "conmon", "buildah"} \X Range(<<"podman">>)
        /\ IsInjective(All(c, {"api", "runtime", "conmon", "buildah"}, <<"podman">>))
    BY <2>1, AllRange, AllInjective, Zenon
  <2> QED
    BY <2>1, <2>2, <2>3, <2>4
<1>2. CASE c = "disk_usage"
  <2> DEFINE list == <<"images", "containers", "volumes">>
  <2>1. Range(list) = {"images", "containers", "volumes"} /\ IsInjective(list)
    BY DEF Range, IsInjective
  <2>2. Owed(c, <<"report", report>>) =
          {c} \X {"size", "reclaimable"} \X {"images", "containers", "volumes"}
    BY <1>2, ErrorIsNoReport DEF Owed
  <2>3. SeriesOf(c, report) = All(c, {"size", "reclaimable"}, list)
    BY <1>2 DEF SeriesOf, UsageSeries
  <2> HIDE DEF list
  <2>4. /\ Range(All(c, {"size", "reclaimable"}, list)) =
             {c} \X {"size", "reclaimable"} \X Range(list)
        /\ IsInjective(All(c, {"size", "reclaimable"}, list))
    BY <2>1, AllRange, AllInjective, Zenon
  <2> QED
    BY <2>1, <2>2, <2>3, <2>4
<1> QED
  BY <1>1, <1>2

\* And the image collector, for any version of podman's images.
LEMMA ImageOwed ==
  ASSUME NEW v \in 0..MaxVer
  PROVE  /\ Range(SeriesOf("image", v)) = Owed("image", <<"report", v>>)
         /\ IsInjective(SeriesOf("image", v))
<1>1. Owed("image", <<"report", v>>) =
        UNION {UNION {Range(EntrySeries(e)) : e \in Range(Entries(i))} :
                 i \in IF v = 0 THEN {} ELSE Range(ImagesOf[v])}
  BY ErrorIsNoReport DEF Owed
<1>2. CASE v = 0
  <2>1. SeriesOf("image", v) = << >>
    BY <1>2 DEF SeriesOf
  <2>2. Range(<< >>) = {} /\ IsInjective(<< >>)
    BY DEF Range, IsInjective
  <2> QED
    BY <1>1, <1>2, <2>1, <2>2
<1>3. CASE v # 0
  <2>1. v \in DOMAIN ImagesOf
    BY <1>3, ExporterAssumption DEF ExporterAssumption
  <2>2. SeriesOf("image", v) = ImageSeries(ImagesOf[v])
    BY <1>3, <2>1 DEF SeriesOf, SeriesOfImages
  <2>3. Listing(ImagesOf[v])
    BY <2>1, ImagesAssumption DEF ImagesAssumption, Listing
  <2> QED
    BY <1>1, <1>3, <2>2, <2>3, ImageRange, ImageInjective
<1> QED
  BY <1>2, <1>3

\* What a collector has left when it has ended: its success, and at distinct sends
\* what it owes.
Left(r, c) ==
  /\ pc[r][c] = "end" =>
       /\ success[r][c] = IF found[r][c] = <<Err>> THEN "no" ELSE "yes"
       /\ IsInjective(sent[r][c]) /\ Range(sent[r][c]) = Owed(c, found[r][c])
  /\ pc[r][c] # "end" => sent[r][c] = << >>

\* The container collector holds its list while it waits for the statistics.
ListHeld(r) == pc[r]["container"] = "stats" => IsInjective(found[r]["container"][2])

Cells(f) == DOMAIN f = Requests /\ \A r \in Requests : DOMAIN f[r] = Registered

Whole ==
  /\ Cells(found) /\ Cells(sent)
  /\ \A r \in Requests : ListHeld(r) /\ \A c \in Registered : Left(r, c)

\* An Update that returns leaves what it owes.
LEMMA ExecutedWhole ==
  ASSUME ScrapesTypeOK, Whole, NEW r \in Requests, NEW c \in Registered,
         NEW what, NEW series, NEW ok \in BOOLEAN, Executed(r, c, what, series, ok),
         ok <=> what # <<Err>>, IsInjective(series), Range(series) = Owed(c, what)
  PROVE  Whole'
<1> USE DEF Executed
<1>1. Cells(found') /\ Cells(sent')
  BY DEF Whole, Cells
<1>2. ASSUME NEW q \in Requests, NEW d \in Registered, q # r \/ d # c
      PROVE  /\ pc'[q][d] = pc[q][d] /\ success'[q][d] = success[q][d]
             /\ found'[q][d] = found[q][d] /\ sent'[q][d] = sent[q][d]
  BY <1>2 DEF Whole, Cells, ScrapesTypeOK
<1>3. /\ pc'[r][c] = "end" /\ success'[r][c] = IF ok THEN "yes" ELSE "no"
      /\ found'[r][c] = what /\ sent'[r][c] = series
  BY DEF Whole, Cells, ScrapesTypeOK
<1> HIDE DEF Executed
<1>4. ASSUME NEW q \in Requests, NEW d \in Registered PROVE Left(q, d)'
  <2>1. CASE q = r /\ d = c
    BY <1>3, <2>1 DEF Left
  <2>2. CASE q # r \/ d # c
    BY <1>2, <2>2 DEF Whole, Left
  <2> QED
    BY <2>1, <2>2
<1>5. ASSUME NEW q \in Requests PROVE ListHeld(q)'
  BY <1>2, <1>3, CollectorsAssumption DEF CollectorsAssumption, Whole, ListHeld
<1> QED
  BY <1>1, <1>4, <1>5 DEF Whole

LEMMA NothingSent ==
  /\ Range(<< >>) = {} /\ IsInjective(<< >>)
  /\ \A c : Owed(c, <<Err>>) = {}
BY DEF Range, IsInjective, Owed

\* The collectors with one call.
LEMMA UpdateWhole ==
  ASSUME IInv, Whole, NEW r \in Requests, NEW c \in Registered, Update(r, c, irep, urep)
  PROVE  Whole'
<1>1. PICK what \in Reported(c, irep, urep) :
        IF what = <<Err>> THEN Executed(r, c, what, << >>, FALSE)
        ELSE Executed(r, c, what, SeriesOf(c, what[2]), TRUE)
  BY DEF Update
<1>2. ScrapesTypeOK
  BY DEF IInv, ScrapesInv
<1>3. CASE what = <<Err>>
  <2>1. Executed(r, c, <<Err>>, << >>, FALSE)
    BY <1>1, <1>3
  <2> QED
    BY <1>2, <2>1, NothingSent, ExecutedWhole
<1>4. CASE what # <<Err>>
  <2>1. /\ Range(SeriesOf(c, what[2])) = Owed(c, what)
        /\ IsInjective(SeriesOf(c, what[2]))
    <3>1. c \in AllCollectors \ {"container"}
      BY CollectorsAssumption DEF CollectorsAssumption, Update
    <3>2. CASE c = "image"
      <4>1. what = <<"report", irep>> /\ irep \in 0..MaxVer
        BY <1>4, <3>2 DEF Reported, IInv, ReportsTypeOK
      <4> QED
        BY <3>2, <4>1, ImageOwed
    <3>3. CASE c = "disk_usage"
      <4>1. what = <<"report", urep>>
        BY <1>4, <3>3 DEF Reported
      <4> QED
        BY <3>3, <4>1, FixedOwed
    <3>4. CASE c \notin {"image", "disk_usage"}
      <4>1. what \in Answers[c]
        BY <3>4 DEF Reported
      <4>2. what = <<"report", what[2]>> /\ (c # "system" => IsInjective(what[2]))
        BY <1>4, <3>4, <4>1, AnswersAssumption DEF AnswersAssumption
      <4>3. CASE c = "system"
        BY <4>2, <4>3, FixedOwed
      <4>4. CASE c \in {"pod", "volume", "network"}
        BY <4>2, <4>4, ListOwed
      <4> QED
        BY <3>1, <3>4, <4>3, <4>4 DEF AllCollectors
    <3> QED
      BY <3>2, <3>3, <3>4
  <2> QED
    BY <1>1, <1>2, <1>4, <2>1, ExecutedWhole
<1> QED
  BY <1>3, <1>4

\* The container collector has its list.
LEMMA ContainersWhole ==
  ASSUME IInv, Whole, NEW r \in Requests, Containers(r, sizeErr)
  PROVE  Whole'
<1>1. ScrapesTypeOK /\ "container" \in Registered
  BY CollectorsAssumption DEF CollectorsAssumption, IInv, ScrapesInv
<1>2. CASE Executed(r, "container", <<Err>>, << >>, FALSE)
  BY <1>1, <1>2, NothingSent, ExecutedWhole
<1>3. ASSUME NEW what \in Answers["container"], what # <<Err>>,
             found' = [found EXCEPT ![r]["container"] =
                         IF sizeErr THEN <<"unsized", << >> >> ELSE what],
             pc' = [pc EXCEPT ![r]["container"] = "stats"], UNCHANGED <<status, sent, success>>
      PROVE  Whole'
  <2>1. Cells(found') /\ Cells(sent')
    BY <1>3 DEF Whole, Cells
  <2>2. /\ found'[r]["container"] = IF sizeErr THEN <<"unsized", << >> >> ELSE what
        /\ pc'[r]["container"] = "stats"
    BY <1>1, <1>3 DEF Whole, Cells, ScrapesTypeOK
  <2>3. ASSUME NEW q \in Requests, NEW d \in Registered, q # r \/ d # "container"
        PROVE  pc'[q][d] = pc[q][d] /\ found'[q][d] = found[q][d]
    BY <1>1, <1>3, <2>3 DEF Whole, Cells, ScrapesTypeOK
  <2>4. pc[r]["container"] = "run"
    BY DEF Containers
  <2>5. ASSUME NEW q \in Requests, NEW d \in Registered PROVE Left(q, d)'
    BY <1>3, <2>2, <2>3, <2>4 DEF Whole, Left
  <2>6. IsInjective(found'[r]["container"][2])
    <3>1. IsInjective(what[2])
      BY <1>1, <1>3, AnswersAssumption DEF AnswersAssumption
    <3> QED
      BY <2>2, <3>1, NothingSent
  <2>7. ASSUME NEW q \in Requests PROVE ListHeld(q)'
    BY <1>1, <2>3, <2>6 DEF Whole, ListHeld
  <2> QED
    BY <2>1, <2>5, <2>7 DEF Whole
<1> QED
  BY <1>2, <1>3 DEF Containers

\* ... and its statistics.
LEMMA StatsOwed ==
  ASSUME NEW how, NEW list, NEW running, IsInjective(list)
  PROVE  /\ Range(ContainerSeries(list, running)) = Owed("container", <<how, list, running>>)
         /\ IsInjective(ContainerSeries(list, running))
<1>1. Owed("container", <<how, list, running>>) =
        {"container"} \X {"info", "rootfs_size"} \X Range(list)
        \cup {s \in {"container"} \X {"pids", "block_output"} \X Range(list) : s[3] \in running}
  BY ErrorIsNoReport DEF Owed, Product
<1> QED
  BY <1>1, ContainerRange, ContainerInjective

LEMMA FinishedWhole ==
  ASSUME IInv, Whole, NEW r \in Requests, Finished(r)
  PROVE  Whole'
<1> DEFINE how == found[r]["container"][1]
           list == found[r]["container"][2]
<1>1. ScrapesTypeOK /\ "container" \in Registered
  BY CollectorsAssumption DEF CollectorsAssumption, IInv, ScrapesInv
<1>2. IsInjective(list)
  BY DEF Finished, Whole, ListHeld
<1>3. CASE Executed(r, "container", <<Err>>, << >>, FALSE)
  BY <1>1, <1>3, NothingSent, ExecutedWhole
<1>4. ASSUME NEW kind, NEW running,
             Executed(r, "container", <<kind, list, running>>, ContainerSeries(list, running), TRUE)
      PROVE  Whole'
  <2> HIDE DEF list
  <2> QED
    BY <1>1, <1>2, <1>4, StatsOwed, ErrorIsNoReport, ExecutedWhole
<1> QED
  BY <1>3, <1>4 DEF Finished

LEMMA WholeInit == Init => Whole
BY CollectorsAssumption
   DEF CollectorsAssumption, Init, GatherInit, Each, Nothing, Whole, Cells, ListHeld, Left

LEMMA WholeNext ==
  ASSUME IInv, Whole, [Next]_vars
  PROVE  Whole'
<1>1. ASSUME UNCHANGED <<pc, found, sent, success>> PROVE Whole'
  BY <1>1 DEF Whole, Cells, ListHeld, Left
<1>2. CASE UNCHANGED scraping
  BY <1>1, <1>2 DEF scraping, scrapes
<1>3. ASSUME NEW r \in Requests, ScrapeStep(r) PROVE Whole'
  <2>1. CASE Admit(r, collectors, opts.maxRequests)
    BY <2>1, CollectorsAssumption
       DEF CollectorsAssumption, Admit, IInv, ScrapesInv, ScrapesTypeOK, Whole, Cells, ListHeld, Left
  <2>2. CASE \/ Refuse(r, opts.maxRequests) \/ AskStats(r, opts.statsTimeout)
             \/ WaitStats(r) \/ Respond(r)
    BY <1>1, <2>2 DEF Refuse, AskStats, WaitStats, Respond, scrapes
  <2>3. CASE Containers(r, sizeErr)
    BY <2>3, ContainersWhole
  <2>4. CASE Finished(r)
    BY <2>4, FinishedWhole
  <2>5. CASE \E c \in Registered : Update(r, c, irep, urep)
    BY <2>5, UpdateWhole
  <2>6. CASE Close(r, opts.maxRequests)
    BY <2>6, CollectorsAssumption
       DEF CollectorsAssumption, Close, Each, Nothing, IInv, ScrapesInv, ScrapesTypeOK,
           Whole, Cells, ListHeld, Left
  <2> QED
    BY <1>3, <2>1, <2>2, <2>3, <2>4, <2>5, <2>6 DEF ScrapeStep
<1> QED
  BY <1>2, <1>3, ScrapeSteps

LEMMA AlwaysWhole == Spec => []Whole
<1> QED
  BY WholeInit, WholeNext, Inductive, PTL DEF Spec

\* Whatever podman answers and whichever collectors fail, a response has the
\* success of every collector of the handler and all the series it owes, or none
\* for a failure (collector/collector.go:98-147; the early returns of the Update
\* methods).
THEOREM ResponsesWhole == Spec => []ResponseWhole
<1>1. IInv /\ Whole => ResponseWhole
  <2> SUFFICES ASSUME IInv, Whole, NEW r \in Requests, status[r] = "done" PROVE
                 /\ \A c \in collectors :
                      /\ success[r][c] = IF found[r][c] = <<Err>> THEN "no" ELSE "yes"
                      /\ Range(sent[r][c]) = Owed(c, found[r][c])
                 /\ Series(r) = UNION {Owed(c, found[r][c]) : c \in collectors}
    BY DEF ResponseWhole
  <2>1. collectors \subseteq Registered
    BY DEF IInv, StartInv, StartTypeOK
  <2>2. ASSUME NEW c \in collectors PROVE pc[r][c] = "end"
    BY <2>1 DEF IInv, ScrapesInv, ScrapesTypeOK, EndedFirst, AllEnded
  <2>3. ASSUME NEW c \in Registered \ collectors PROVE Range(sent[r][c]) = {}
    <3>1. pc[r][c] = "off"
      BY DEF IInv, ScrapesInv, ScrapesTypeOK
    <3> QED
      BY <3>1, NothingSent DEF Whole, Left
  <2>4. ASSUME NEW c \in collectors
        PROVE  /\ success[r][c] = IF found[r][c] = <<Err>> THEN "no" ELSE "yes"
               /\ Range(sent[r][c]) = Owed(c, found[r][c])
    BY <2>1, <2>2 DEF Whole, Left
  <2>5. Series(r) = UNION {Owed(c, found[r][c]) : c \in collectors}
    BY <2>1, <2>3, <2>4 DEF Series
  <2> QED
    BY <2>4, <2>5
<1> QED
  BY <1>1, Inductive, AlwaysWhole, PTL

\* The registry is never given a series twice, however many references of an image
\* decompose to the same labels and however many stores have it
\* (pdcs/image.go:95-115).
THEOREM SeriesDistinct == Spec => []NoDuplicates
<1>1. Whole => NoDuplicates
  BY NothingSent DEF Whole, Left, NoDuplicates, Duplicates
<1> QED
  BY <1>1, AlwaysWhole, PTL

-----------------------------------------------------------------------------
(* What the semaphore is for                                                 *)

\* With a limit, never more plain requests than that are between their admission
\* and the end of their response (exporter/handler.go:125).
THEOREM LimitHeld ==
  Spec => [](phase = "serve" /\ opts.maxRequests > 0 => Cardinality(InFlight) <= opts.maxRequests)
<1> DEFINE Bounded == phase = "serve" /\ opts.maxRequests > 0 => slots <= opts.maxRequests
<1>1. Init => Bounded
  BY DEF Init, StartInit
<1>2. IInv /\ SlotsTypeOK /\ Bounded /\ [Next]_vars => Bounded'
  <2> SUFFICES ASSUME IInv, SlotsTypeOK, Bounded, [Next]_vars, phase' = "serve", opts'.maxRequests > 0
               PROVE  slots' <= opts'.maxRequests
    OBVIOUS
  <2>1. slots \in Nat
    BY InFlightFinite DEF SlotsTypeOK
  <2>2. opts'.maxRequests \in Int
    BY IInvNext, StartAssumption
       DEF StartAssumption, FlagSet, parseOptions, IInv, StartInv, OptionsOK
  <2>3. CASE phase # "serve" /\ UNCHANGED scraping
    <3>1. slots' = 0
      BY <2>3, NoneInFlight DEF IInv, SlotsTypeOK, scraping, scrapes
    <3> QED
      BY <2>2, <3>1
  <2>4. CASE phase = "serve" /\ UNCHANGED scraping /\ UNCHANGED start
    BY <2>4 DEF scraping, scrapes, start
  <2>5. ASSUME NEW r \in Requests, ScrapeStep(r), Rest PROVE slots' <= opts'.maxRequests
    <3>1. UNCHANGED opts /\ phase = "serve"
      BY <2>5 DEF Rest, Serving, startVars, start
    <3>2. CASE Admit(r, collectors, opts.maxRequests)
      BY <2>1, <2>2, <3>1, <3>2 DEF Admit, SlotFree, TakeSlot
    <3>3. CASE Close(r, opts.maxRequests)
      BY <2>1, <2>2, <3>1, <3>3 DEF Close, GiveSlot
    <3>4. CASE UNCHANGED slots
      BY <3>1, <3>4
    <3> QED
      BY <2>5, <3>2, <3>3, <3>4
         DEF ScrapeStep, Refuse, Containers, AskStats, Finished, Update, Executed, WaitStats,
             Respond, scrapes
  <2> QED
    BY <2>3, <2>4, <2>5, ScrapeSteps DEF Rest
<1>3. SlotsTypeOK /\ Bounded =>
        (phase = "serve" /\ opts.maxRequests > 0 => Cardinality(InFlight) <= opts.maxRequests)
  BY DEF SlotsTypeOK
<1> QED
  BY <1>1, <1>2, <1>3, Inductive, AlwaysSlots, PTL DEF Spec

-----------------------------------------------------------------------------
(* The cached reports, from scrape to scrape                                 *)

Cached == Registered \cap {"image", "disk_usage"}
Cache(c) == IF c = "image" THEN irep ELSE urep
NewestOf(c) == IF c = "image" THEN inewest ELSE unewest

\* A cache has its newest report or an error, and no scrape has been shown a newer one.
Shown ==
  \A c \in Cached :
    /\ Cache(c) \in {NewestOf(c), Err}
    /\ \A r \in Requests : success[r][c] = "yes" => found[r][c][2] \in 0..NewestOf(c)

\* What a cached report's collector has after a step of a scrape it had before, or
\* it is what the cache has now.
LEMMA ReadCached ==
  ASSUME IInv, Whole, NEW r \in Requests, ScrapeStep(r),
         NEW q \in Requests, NEW c \in Cached, success'[q][c] = "yes"
  PROVE  \/ success[q][c] = "yes" /\ found'[q][c] = found[q][c]
         \/ Cache(c) # Err /\ found'[q][c] = <<"report", Cache(c)>>
<1>0. ScrapesTypeOK /\ Cells(found) /\ c \in Registered /\ c \in {"image", "disk_usage"}
  BY DEF IInv, ScrapesInv, Whole, Cached
<1>1. CASE UNCHANGED <<found, success>>
  BY <1>1
<1>2. CASE Containers(r, sizeErr) \/ Finished(r)
  <2>1. c # "container"
    BY <1>0
  <2>2. /\ success' = success \/ \E ok \in {"yes", "no"} : success' = [success EXCEPT ![r]["container"] = ok]
        /\ \E what : found' = [found EXCEPT ![r]["container"] = what]
    BY <1>2 DEF Containers, Finished, Executed
  <2> QED
    BY <1>0, <2>1, <2>2 DEF ScrapesTypeOK, Cells
<1>3. ASSUME NEW d \in Registered, Update(r, d, irep, urep)
      PROVE  \/ success[q][c] = "yes" /\ found'[q][c] = found[q][c]
             \/ Cache(c) # Err /\ found'[q][c] = <<"report", Cache(c)>>
  <2>1. PICK what \in Reported(d, irep, urep), ok \in BOOLEAN :
          /\ ok <=> what # <<Err>>
          /\ found' = [found EXCEPT ![r][d] = what]
          /\ success' = [success EXCEPT ![r][d] = IF ok THEN "yes" ELSE "no"]
    BY <1>3 DEF Update, Executed
  <2>2. CASE q # r \/ c # d
    BY <1>0, <2>1, <2>2 DEF ScrapesTypeOK, Cells
  <2>3. CASE q = r /\ c = d
    <3>1. found'[q][c] = what /\ what # <<Err>>
      BY <1>0, <2>1, <2>3 DEF ScrapesTypeOK, Cells
    <3>2. Reported(c, irep, urep) = {IF Cache(c) = Err THEN <<Err>> ELSE <<"report", Cache(c)>>}
      BY <1>0 DEF Reported, Cache
    <3> QED
      BY <2>1, <2>3, <3>1, <3>2
  <2> QED
    BY <2>2, <2>3
<1>4. CASE Close(r, opts.maxRequests)
  BY <1>0, <1>4 DEF Close, Each, ScrapesTypeOK, Cells
<1> QED
  BY <1>1, <1>2, <1>3, <1>4
     DEF ScrapeStep, Admit, Refuse, AskStats, WaitStats, Respond, scrapes

LEMMA ShownInit == Init => Shown
BY DEF Init, GatherInit, Each, Shown, Cached, Cache, NewestOf

\* A refresh only moves a cache forward, and a scrape is shown what the cache has.
LEMMA ShownNext ==
  ASSUME IInv, Whole, Shown, [Next]_vars
  PROVE  Shown'
<1> SUFFICES ASSUME NEW c \in Cached
             PROVE  /\ Cache(c)' \in {NewestOf(c)', Err}
                    /\ \A r \in Requests : success'[r][c] = "yes" => found'[r][c][2] \in 0..NewestOf(c)'
  BY DEF Shown, Cached
<1>1. /\ Cache(c) \in {NewestOf(c), Err}
      /\ \A r \in Requests : success[r][c] = "yes" => found[r][c][2] \in 0..NewestOf(c)
  BY DEF Shown
<1>2. /\ NewestOf(c) \in Nat /\ NewestOf(c)' \in Nat /\ NewestOf(c)' >= NewestOf(c)
      /\ Cache(c)' \in {NewestOf(c)', Err}
  BY <1>1, ReportSteps, ExporterAssumption
     DEF ExporterAssumption, NewestOf, Cache, images, usage, IInv, ReportsTypeOK,
         Images!Store, Images!StoreErr, Usage!Store, Usage!StoreErr
<1>3. CASE UNCHANGED scraping
  BY <1>1, <1>2, <1>3 DEF scraping, scrapes
<1>4. ASSUME NEW r \in Requests, ScrapeStep(r), Rest,
             NEW q \in Requests, success'[q][c] = "yes"
      PROVE  found'[q][c][2] \in 0..NewestOf(c)'
  <2>1. CASE success[q][c] = "yes" /\ found'[q][c] = found[q][c]
    BY <1>1, <1>2, <2>1
  <2>2. CASE Cache(c) # Err /\ found'[q][c] = <<"report", Cache(c)>>
    BY <1>1, <1>2, <2>2
  <2> QED
    BY <1>4, <2>1, <2>2, ReadCached
<1> QED
  BY <1>2, <1>3, <1>4, ScrapeSteps

\* A scrape is never shown an older image or disk usage report than one another
\* scrape has been shown, whatever errors and refreshes come between
\* (pdcs/image.go:33-60, pdcs/disk_usage.go:32-59): what the caches promise their
\* readers, carried to the clients of the exporter.
THEOREM ScrapesForward == Spec => ReportsForward
<1>1. ASSUME IInv, Whole, Shown, [Next]_vars, NEW r \in Requests, NEW q \in Requests, NEW c \in Cached,
             success[r][c] = "none", success'[r][c] = "yes", success[q][c] = "yes"
      PROVE  found'[r][c][2] >= found[q][c][2]
  <2>1. ~UNCHANGED scraping
    BY <1>1 DEF scraping, scrapes
  <2>2. PICK s \in Requests : ScrapeStep(s)
    BY <1>1, <2>1, ScrapeSteps
  <2>3. Cache(c) # Err /\ found'[r][c] = <<"report", Cache(c)>>
    BY <1>1, <2>2, ReadCached
  <2>4. /\ Cache(c) = NewestOf(c) /\ NewestOf(c) \in Nat
        /\ found[q][c][2] \in 0..NewestOf(c)
    BY <1>1, <2>3, ExporterAssumption DEF ExporterAssumption, Shown, NewestOf, IInv, ReportsTypeOK
  <2> QED
    BY <2>3, <2>4
<1>2. IInv /\ Whole /\ Shown /\ [Next]_vars =>
        [\A r, q \in Requests, c \in Registered \cap {"image", "disk_usage"} :
           success[r][c] = "none" /\ success'[r][c] = "yes" /\ success[q][c] = "yes"
             => found'[r][c][2] >= found[q][c][2]]_vars
  BY <1>1 DEF Cached
<1>3. IInv /\ Whole /\ Shown /\ [Next]_vars => Shown'
  BY ShownNext
<1> QED
  BY <1>2, <1>3, ShownInit, AlwaysWhole, Inductive, PTL DEF Spec, ReportsForward
=============================================================================
