--------------------------- MODULE ImageEvents ---------------------------
(***************************************************************************)
(* The event streamer of pdcs/events.go, which refreshes the cached image  *)
(* report of pdcs/image.go when podman reports an image event.             *)
(*                                                                         *)
(* StartEventStreamer lists the images once, then starts one generation of *)
(* goroutines after the other: an engine reader that asks podman to stream *)
(* its events into a channel, and an event reader loop that takes them.    *)
(* When podman closes the channel the loop tells StartEventStreamer, which *)
(* starts the next generation.  An error of the engine ends the process,   *)
(* and so does, by a nil dereference, an event result that carries an      *)
(* error instead of an event.                                              *)
(*                                                                         *)
(* podman streams the events logged after the subscription.  A stream is   *)
(* represented by the results sent or still to be sent into the channel:   *)
(* the version the images had after an image event, Other or Bad.          *)
(***************************************************************************)
EXTENDS Integers, Sequences

CONSTANTS
  UpdateImage,  \* the image collector is enabled
  MaxVer,       \* bound: versions of podman's images
  MaxGen,       \* bound: generations of goroutines
  MaxStream,    \* bound: results of a stream not yet taken
  Err,          \* updateErr # nil, or a listing that failed
  Other,        \* an event of another type
  Bad           \* a ReadResult with Error set and no Event

ASSUME EventsAssumption ==
  /\ UpdateImage \in BOOLEAN
  /\ MaxVer \in Nat \ {0} /\ MaxGen \in Nat \ {0} /\ MaxStream \in Nat \ {0}
  /\ Err \notin 0..MaxVer
  /\ Other \notin 0..MaxVer /\ Bad \notin 0..MaxVer /\ Other # Bad

Gen == 1..MaxGen

VARIABLES
  ver,      \* version of podman's images
  rep,      \* imageRep: the version its images show, 0 before the first, or Err
  newest,   \* ghost: newest version imageRep has shown
  spc,      \* where StartEventStreamer is
  found,    \* what its listing found
  gen,      \* generation it started last
  opts,     \* eventOptions.EventChan: the generation of the channel
  epc,      \* [generation -> where its engine reader is]
  target,   \* [generation -> channel its engine streams into]
  stream,   \* [channel -> results not yet taken]
  closed,   \* [channel -> podman has closed it]
  rpc,      \* [generation -> where its event reader loop is]
  rfound,   \* [generation -> what its listing found]
  dead      \* the process has ended: "no", "fatal" (log.Fatal) or "panic"

report   == <<rep, newest>>
streamer == <<spc, found, gen, opts>>
engine   == <<epc, target, stream, closed>>
loop     == <<rpc, rfound>>
vars == <<ver, report, streamer, engine, loop, dead>>

Init ==
  /\ ver = 1 /\ rep = 0 /\ newest = 0
  /\ spc = (IF UpdateImage THEN "list" ELSE "start")
  /\ found = 0 /\ gen = 0 /\ opts = 0
  /\ epc = [g \in Gen |-> "off"] /\ target = [g \in Gen |-> 0]
  /\ stream = [g \in Gen |-> << >>] /\ closed = [g \in Gen |-> FALSE]
  /\ rpc = [g \in Gen |-> "off"] /\ rfound = [g \in Gen |-> 0]
  /\ dead = "no"

-----------------------------------------------------------------------------
(* updateImages: the listing, and later the store under repLock              *)

Listings == {ver, Err}
Store(v) ==
  /\ rep' = v
  /\ newest' = IF v = Err THEN newest ELSE v

-----------------------------------------------------------------------------
(* podman                                                                    *)

Streaming(g) == epc[g] = "stream" /\ ~closed[target[g]]
Open == {target[g] : g \in {h \in Gen : Streaming(h)}}
Room(c) == Len(stream[c]) < MaxStream

\* The images change, and the event is logged: every open stream will carry it.
Change ==
  /\ dead = "no" /\ ver < MaxVer
  /\ \A c \in Open : Room(c)
  /\ ver' = ver + 1
  /\ stream' = [c \in Gen |-> IF c \in Open THEN Append(stream[c], ver') ELSE stream[c]]
  /\ UNCHANGED <<report, streamer, epc, target, closed, loop, dead>>

\* Another event, or one podman cannot read.
Send(g, e) ==
  /\ dead = "no" /\ Streaming(g) /\ Room(target[g])
  /\ stream' = [stream EXCEPT ![target[g]] = Append(@, e)]
  /\ UNCHANGED <<ver, report, streamer, epc, target, closed, loop, dead>>

\* The stream ends: podman closes the channel.
Close(g) ==
  /\ dead = "no" /\ Streaming(g) /\ g < MaxGen
  /\ closed' = [closed EXCEPT ![target[g]] = TRUE]
  /\ epc' = [epc EXCEPT ![g] = "done"]
  /\ UNCHANGED <<ver, report, streamer, target, stream, loop, dead>>

-----------------------------------------------------------------------------
(* StartEventStreamer                                                        *)

FirstList ==
  /\ dead = "no" /\ spc = "list"
  /\ found' \in Listings
  /\ spc' = "store"
  /\ UNCHANGED <<ver, report, gen, opts, engine, loop, dead>>

FirstStore ==
  /\ dead = "no" /\ spc = "store"
  /\ Store(found)
  /\ spc' = "start"
  /\ UNCHANGED <<ver, found, gen, opts, engine, loop, dead>>

\* mutant: the next generation is started without waiting
StartGenerationEager ==
  /\ dead = "no" /\ spc = "start" /\ gen < MaxGen
  /\ gen' = gen + 1 /\ opts' = gen + 1
  /\ epc' = [epc EXCEPT ![gen + 1] = "begin"]
  /\ rpc' = [rpc EXCEPT ![gen + 1] = "select"]
  /\ UNCHANGED <<ver, report, spc, found, target, stream, closed, rfound, dead>>

\* A new channel, and the two goroutines of the generation.
StartGeneration ==
  /\ dead = "no" /\ spc = "start" /\ gen < MaxGen
  /\ gen' = gen + 1 /\ opts' = gen + 1
  /\ epc' = [epc EXCEPT ![gen + 1] = "begin"]
  /\ rpc' = [rpc EXCEPT ![gen + 1] = "select"]
  /\ spc' = "wait"
  /\ UNCHANGED <<ver, report, found, target, stream, closed, rfound, dead>>

\* <-restartChannel, with the loop that sends
Restart(g) ==
  /\ dead = "no" /\ spc = "wait" /\ rpc[g] = "restart"
  /\ spc' = "start"
  /\ rpc' = [rpc EXCEPT ![g] = "gone"]
  /\ UNCHANGED <<ver, report, found, gen, opts, engine, rfound, dead>>

-----------------------------------------------------------------------------
(* The goroutines of generation g                                            *)

\* Events(ctx, eventOptions) reads the shared options and subscribes.
Subscribe(g) ==
  /\ dead = "no" /\ epc[g] = "begin"
  /\ target' = [target EXCEPT ![g] = opts]
  /\ epc' = [epc EXCEPT ![g] = "stream"]
  /\ UNCHANGED <<ver, report, streamer, stream, closed, loop, dead>>

\* It returns an error, which the engine reader offers on errChannel.
SubscribeFails(g) ==
  /\ dead = "no" /\ epc[g] = "begin"
  /\ epc' = [epc EXCEPT ![g] = "error"]
  /\ UNCHANGED <<ver, report, streamer, target, stream, closed, loop, dead>>

\* mutant: the wrong type
IsImageNot(e) == e = Other

\* event.Event.Type == events.Image
IsImage(e) == e \notin {Other, Bad}

\* The loop takes a result from its channel.  Only with images to update does
\* it look into the event, which a bad result does not have.
Take(g) ==
  /\ dead = "no" /\ rpc[g] = "select" /\ stream[g] # << >>
  /\ stream' = [stream EXCEPT ![g] = Tail(@)]
  /\ IF UpdateImage /\ Head(stream[g]) = Bad
       THEN dead' = "panic" /\ UNCHANGED rpc
       ELSE /\ rpc' = [rpc EXCEPT ![g] =
                         IF UpdateImage /\ IsImage(Head(stream[g])) THEN "list" ELSE "select"]
            /\ UNCHANGED dead
  /\ UNCHANGED <<ver, report, streamer, epc, target, closed, rfound>>

LoopList(g) ==
  /\ dead = "no" /\ rpc[g] = "list"
  /\ \E v \in Listings : rfound' = [rfound EXCEPT ![g] = v]
  /\ rpc' = [rpc EXCEPT ![g] = "store"]
  /\ UNCHANGED <<ver, report, streamer, engine, dead>>

LoopStore(g) ==
  /\ dead = "no" /\ rpc[g] = "store"
  /\ Store(rfound[g])
  /\ rpc' = [rpc EXCEPT ![g] = "select"]
  /\ UNCHANGED <<ver, streamer, engine, rfound, dead>>

\* mutant: what the channel still holds is left in it
TakeClosedEarly(g) ==
  /\ dead = "no" /\ rpc[g] = "select" /\ closed[g]
  /\ rpc' = [rpc EXCEPT ![g] = "restart"]
  /\ UNCHANGED <<ver, report, streamer, engine, rfound, dead>>

\* mutant: the loop ends and tells nobody
TakeClosedQuietly(g) ==
  /\ dead = "no" /\ rpc[g] = "select" /\ stream[g] = << >> /\ closed[g]
  /\ rpc' = [rpc EXCEPT ![g] = "gone"]
  /\ UNCHANGED <<ver, report, streamer, engine, rfound, dead>>

\* The channel is closed and empty.
TakeClosed(g) ==
  /\ dead = "no" /\ rpc[g] = "select" /\ stream[g] = << >> /\ closed[g]
  /\ rpc' = [rpc EXCEPT ![g] = "restart"]
  /\ UNCHANGED <<ver, report, streamer, engine, rfound, dead>>

\* mutant: the error is logged
TakeErrorLogged(g) ==
  /\ dead = "no" /\ rpc[g] = "select"
  /\ \E h \in Gen : epc[h] = "error" /\ epc' = [epc EXCEPT ![h] = "done"]
  /\ UNCHANGED <<ver, report, streamer, target, stream, closed, loop, dead>>

\* An engine reader's error arrives: log.Fatal.
TakeError(g) ==
  /\ dead = "no" /\ rpc[g] = "select"
  /\ \E h \in Gen : epc[h] = "error"
  /\ dead' = "fatal"
  /\ UNCHANGED <<ver, report, streamer, engine, loop>>

-----------------------------------------------------------------------------
Engine(g) == Subscribe(g) \/ SubscribeFails(g)
Loop(g) == Take(g) \/ LoopList(g) \/ LoopStore(g) \/ TakeClosed(g) \/ TakeError(g)
Streamer == FirstList \/ FirstStore \/ StartGeneration \/ \E g \in Gen : Restart(g)

Next ==
  \/ Change \/ Streamer
  \/ \E g \in Gen :
       \/ \E e \in {Other, Bad} : Send(g, e)
       \/ Close(g) \/ Engine(g) \/ Loop(g)

Spec == Init /\ [][Next]_vars

\* Goroutines that can run do run, and podman answers; nothing makes it send
\* events or end a stream.
Fairness ==
  /\ WF_vars(Streamer)
  /\ \A g \in Gen : WF_vars(Engine(g)) /\ WF_vars(Loop(g))

FairSpec == Spec /\ Fairness

-----------------------------------------------------------------------------
(* Properties                                                                *)

Active == {"select", "list", "store", "restart"}
Results == 1..MaxVer \cup {Other, Bad}

\* Every variable holds a value of its kind; StartEventStreamer waits for a
\* restart exactly while the event reader loop of the last generation has not
\* given it one, and no earlier loop is left (pdcs/events.go:41-67).
TypeOK ==
  /\ ver \in 1..MaxVer /\ rep \in 0..MaxVer \cup {Err} /\ newest \in 0..MaxVer
  /\ spc \in {"list", "store", "start", "wait"}
  /\ found \in 0..MaxVer \cup {Err} /\ gen \in 0..MaxGen /\ opts = gen
  /\ epc \in [Gen -> {"off", "begin", "stream", "error", "done"}]
  /\ target \in [Gen -> 0..MaxGen] /\ closed \in [Gen -> BOOLEAN]
  /\ stream \in [Gen -> Seq(Results)]
  /\ \A c \in Gen : Len(stream[c]) <= MaxStream
  /\ rpc \in [Gen -> Active \cup {"off", "gone"}]
  /\ rfound \in [Gen -> 0..MaxVer \cup {Err}]
  /\ dead \in {"no", "fatal", "panic"}
  /\ \A g \in Gen : rpc[g] \in Active <=> spc = "wait" /\ g = gen

\* podman streams into the channel of the generation that asked it to, and the
\* loop of that generation reads it, although all generations share one
\* eventOptions (pdcs/events.go:14, 26-35): no channel is left without a reader
\* and none is closed twice.
OwnChannel == \A g \in Gen : epc[g] \in {"stream", "done"} => target[g] = g

\* What podman has streamed into a channel and the error an engine reader offers
\* are in front of the loop of their generation, which still receives: a restart
\* leaves neither behind (pdcs/events.go:36-37, 44-52).
Attended ==
  \A g \in Gen : epc[g] = "error" \/ stream[g] # << >> => rpc[g] \in {"select", "list", "store"}

\* The image report is a cached report: it shows the images of one moment, never
\* of an earlier moment than it has shown, or an error (pdcs/image.go:33-60).
\* A listing is stored after it was made, so this rests on one refresh at a time.
Report == INSTANCE ReportCache WITH ver <- ver, rep <- rep, newest <- newest
ReportSpec == Report!Spec

\* With images to update, an image event podman has streamed ends up in the
\* report, it or a later state of the images, unless podman's listing fails or
\* the process ends.
EventsArrive ==
  \A v \in 1..MaxVer :
    (\E c \in Gen, i \in 1..MaxStream : i <= Len(stream[c]) /\ stream[c][i] = v)
      ~> newest >= v \/ rep = Err \/ dead # "no"

\* When podman closes a stream the exporter subscribes again
\* (pdcs/events.go:47-52, 67), unless the process ends.
StreamRestored ==
  \A g \in Gen : closed[g] ~> (g + 1 \in Gen /\ epc[g + 1] \notin {"off", "begin"}) \/ dead # "no"

\* A subscription that fails ends the process (pdcs/events.go:59-62): it does not
\* go on with no events and nobody told.
ErrorsEndProcess == (\E g \in Gen : epc[g] = "error") ~> dead # "no"

\* No event result ends the process by a nil dereference (pdcs/events.go:55):
\* podman goes on after one it cannot decode
\* (vendor/go.podman.io/podman/v6/libpod/events/journal_linux.go:212).
NoPanic == dead # "panic"

\* A change of the images gets into the report while the streamer runs
\* (pdcs/events_test.go:28-39 pulls an image as soon as the streamer is started
\* and expects to see it), unless podman's listing fails or the process ends.
ImageSeen == \A v \in 1..MaxVer : ver = v ~> newest >= v \/ rep = Err \/ dead # "no"
=============================================================================
