------------------------------- MODULE Start -------------------------------
(***************************************************************************)
(* The start of the exporter: cmd/root.go and exporter.Start, from the     *)
(* command line to the listening server, one action for each call of Start *)
(* that can end the process or that scrapes depend on later.               *)
(*                                                                         *)
(* A duration is represented by an integer, a path by whether the default  *)
(* ServeMux takes it beside "/".                                           *)
(***************************************************************************)
EXTENDS Collectors

CONSTANT CommandLines  \* the command lines of the instance

\* The flags: `on' is the set of the boolean ones given.
Flags == {"version", "enable-all", "image", "pod", "volume", "network", "system", "disk-usage"}
FlagSet ==
  [on : SUBSET Flags, cacheDuration : Int, statsTimeout : Int,
   path : {"apart", "root", "malformed"}, maxRequests : Int]

ASSUME StartAssumption == CommandLines \subseteq FlagSet

VARIABLES
  opts,        \* the command line, then what parseOptions made of it
  phase,       \* the call of Start that is next
  state,       \* collectorState: the collectors enabled
  collectors,  \* those of the PodmanCollector the handler was made with
  streamer,    \* StartEventStreamer: "off", "first" listing, "events", "idle" (no images)
  sizeErr,     \* cntSizeCache.cacheError # nil
  ticking,     \* the goroutines of the tickers: {"sizes", "usage"}
  dead         \* the process: "no", "exit" (by itself) or "panic"

start == <<opts, phase, state, collectors>>
startVars == <<start, streamer, sizeErr, ticking, dead>>

StartInit ==
  /\ opts \in CommandLines
  /\ phase = "flags" /\ state = {"container"} /\ collectors = {}
  /\ streamer = "off" /\ sizeErr = FALSE /\ ticking = {} /\ dead = "no"

\* The process goes on from call p; it ends in it.
At(p) == dead = "no" /\ phase = p
End(how) == dead' = how /\ UNCHANGED <<start, streamer, sizeErr, ticking>>

-----------------------------------------------------------------------------
\* --version prints it and exits with status 1.
PrintVersion ==
  /\ At("flags") /\ "version" \in opts.on
  /\ End("exit")

\* No value of a flag is refused.
parseOptions(cmd) ==
  [enableAll |-> "enable-all" \in cmd.on,
   enable |-> cmd.on \ {"enable-all", "version"},
   cacheDuration |-> cmd.cacheDuration, statsTimeout |-> cmd.statsTimeout,
   path |-> cmd.path, maxRequests |-> cmd.maxRequests]

Parse ==
  /\ At("flags") /\ "version" \notin opts.on
  /\ opts' = parseOptions(opts)
  /\ phase' = "enable"
  /\ UNCHANGED <<state, collectors, streamer, sizeErr, ticking, dead>>

getEnabledCollectors ==
  {IF f = "disk-usage" THEN "disk_usage" ELSE f : f \in opts.enable}
Enabled == IF opts.enableAll THEN AllCollectors ELSE {"container"} \cup getEnabledCollectors

\* setEnabledCollectors
SetEnabledCollectors ==
  /\ At("enable")
  /\ state' = SetStates(state, Enabled)
  /\ phase' = "handler"
  /\ UNCHANGED <<opts, collectors, streamer, sizeErr, ticking, dead>>

\* newHandler makes the PodmanCollector of the enabled collectors; the mux
\* takes the telemetry path and "/".
NewHandler ==
  /\ At("handler") /\ opts.path = "apart"
  /\ collectors' = state
  /\ phase' = "registry"
  /\ UNCHANGED <<opts, state, streamer, sizeErr, ticking, dead>>

\* A malformed pattern, or "/" twice: the mux panics.
PathPanics ==
  /\ At("handler") /\ opts.path # "apart"
  /\ End("panic")

\* SetupRegistry finds podman, or log.Fatal
SetupRegistry ==
  /\ At("registry")
  /\ phase' = "streamer"
  /\ UNCHANGED <<opts, state, collectors, streamer, sizeErr, ticking, dead>>
SetupRegistryFails == At("registry") /\ End("exit")

\* mutant: without the enable-all
UpdateImagesFlag == "image" \in opts.enable

updateImages == opts.enableAll \/ "image" \in opts.enable

\* go pdcs.StartEventStreamer(logger, updateImages)
StartEventStreamer ==
  /\ At("streamer")
  /\ streamer' = IF updateImages THEN "first" ELSE "idle"
  /\ phase' = "sizes"
  /\ UNCHANGED <<opts, state, collectors, sizeErr, ticking, dead>>

\* mutant: one second is refused
TickablePositive == opts.cacheDuration > 1

\* time.NewTicker panics otherwise.
Tickable == opts.cacheDuration > 0

\* StartCacheSizeTicker: the first refresh, which may fail, and the ticker
StartCacheSizeTicker ==
  /\ At("sizes") /\ Tickable
  /\ sizeErr' \in BOOLEAN
  /\ ticking' = ticking \cup {"sizes"}
  /\ phase' = "usage"
  /\ UNCHANGED <<opts, state, collectors, streamer, dead>>
TickerPanics == At("sizes") /\ ~Tickable /\ End("panic")

\* mutant: without the enable-all
UsageWantedFlag == "disk-usage" \in opts.enable

UsageWanted == opts.enableAll \/ "disk-usage" \in opts.enable

\* StartDiskUsageTicker: the first refresh, a step of the cached report that
\* Exporter adds, and the ticker; its duration is one the ticker before it took.
StartDiskUsageTicker ==
  /\ At("usage") /\ UsageWanted
  /\ ticking' = ticking \cup {"usage"}
  /\ phase' = "listen"
  /\ UNCHANGED <<opts, state, collectors, streamer, sizeErr, dead>>
NoDiskUsage ==
  /\ At("usage") /\ ~UsageWanted
  /\ phase' = "listen"
  /\ UNCHANGED <<opts, state, collectors, streamer, sizeErr, ticking, dead>>

\* web.ListenAndServe serves, or Start returns its error and run exits.
Listen ==
  /\ At("listen")
  /\ phase' = "serve"
  /\ UNCHANGED <<opts, state, collectors, streamer, sizeErr, ticking, dead>>
ListenFails == At("listen") /\ End("exit")

\* every call but StartDiskUsageTicker
Call ==
  \/ PrintVersion \/ Parse \/ SetEnabledCollectors \/ NewHandler \/ PathPanics
  \/ SetupRegistry \/ SetupRegistryFails \/ StartEventStreamer
  \/ StartCacheSizeTicker \/ TickerPanics \/ NoDiskUsage
  \/ Listen \/ ListenFails

Serving == phase = "serve" /\ dead = "no"
=============================================================================
