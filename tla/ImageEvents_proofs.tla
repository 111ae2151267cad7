------------------------ MODULE ImageEvents_proofs ------------------------
(***************************************************************************)
(* ImageEvents is type correct, each generation streams into its own       *)
(* channel, and the image report implements ReportCache.                   *)
(*                                                                         *)
(* The last two need to know that generations follow one another: an       *)
(* earlier generation's loop is gone, so its channel is closed, so its     *)
(* engine is done.  Hence a subscription is made by the last generation,   *)
(* whose channel eventOptions holds, and of all refreshes at most one is   *)
(* between its listing and its store.                                      *)
(***************************************************************************)
EXTENDS ImageEvents, TLAPS

\* Generations follow one another.
Ordered ==
  /\ spc \in {"list", "store"} => gen = 0
  /\ spc = "wait" => gen \in Gen
  /\ \A g \in Gen :
       /\ g > gen => rpc[g] = "off" /\ epc[g] = "off"
       /\ g < gen => rpc[g] = "gone"
       /\ g = gen /\ spc # "wait" => rpc[g] = "gone"
       /\ rpc[g] \in {"restart", "gone"} => closed[g]
       /\ closed[g] => epc[g] = "done"

\* A listing not yet stored is not older than the report.
Current(v) == v = Err \/ (v \in 1..ver /\ newest <= v)
Fresh ==
  /\ newest <= ver
  /\ spc = "store" => Current(found)
  /\ \A g \in Gen : rpc[g] = "store" => Current(rfound[g])

IInv == TypeOK /\ OwnChannel /\ Ordered /\ Fresh

\* The bounds are positive, and an error is no version.
LEMMA Bounds ==
  /\ MaxVer \in Nat /\ MaxVer > 0 /\ MaxGen \in Nat /\ MaxGen > 0 /\ MaxStream \in Nat /\ MaxStream > 0
  /\ Err \notin 0..MaxVer
  BY EventsAssumption DEF EventsAssumption

\* The initial state satisfies the inductive invariant.
LEMMA InvInit == Init => IInv
<1> SUFFICES ASSUME Init PROVE IInv
  OBVIOUS
<1>1. ver \in 1..MaxVer /\ rep \in 0..MaxVer /\ newest \in 0..MaxVer /\ found \in 0..MaxVer
      /\ gen \in 0..MaxGen
  BY Bounds DEF Init
<1>2. /\ target \in [Gen -> 0..MaxGen] /\ closed \in [Gen -> BOOLEAN]
      /\ rfound \in [Gen -> 0..MaxVer \cup {Err}]
      /\ epc \in [Gen -> {"off", "begin", "stream", "error", "done"}]
      /\ rpc \in [Gen -> Active \cup {"off", "gone"}]
  BY Bounds DEF Init, Gen
<1>3. stream \in [Gen -> Seq(Results)] /\ \A c \in Gen : Len(stream[c]) <= MaxStream
  BY Bounds DEF Init
<1>4. /\ spc \in {"list", "start"} /\ dead = "no" /\ opts = gen
      /\ \A g \in Gen : rpc[g] = "off" /\ epc[g] = "off" /\ ~closed[g] /\ g > gen
  BY DEF Init, Gen
<1>5. TypeOK
  BY <1>1, <1>2, <1>3, <1>4 DEF TypeOK, Active
<1>6. Ordered /\ OwnChannel
  BY <1>1, <1>4 DEF Ordered, OwnChannel, Init, Gen
<1>7. Fresh
  BY <1>4 DEF Fresh, Init
<1> QED
  BY <1>5, <1>6, <1>7 DEF IInv

\* A change of the images keeps the invariant and is a step of ReportCache.
LEMMA StepChange == IInv /\ Change => IInv' /\ Report!Change
<1> SUFFICES ASSUME IInv, Change PROVE IInv' /\ Report!Change
  OBVIOUS
<1> USE DEF IInv
<1>1. ver' = ver + 1 /\ ver' \in 1..MaxVer /\ rep' = rep /\ newest' = newest
  BY Bounds DEF Change, TypeOK, report
<1>2. stream' \in [Gen -> Seq(Results)] /\ \A c \in Gen : Len(stream'[c]) <= MaxStream
  <2>1. ver' \in Results
    BY <1>1 DEF Results
  <2> SUFFICES ASSUME NEW c \in Gen
               PROVE  stream'[c] \in Seq(Results) /\ Len(stream'[c]) <= MaxStream
    BY DEF Change
  <2>2. stream[c] \in Seq(Results) /\ Len(stream[c]) <= MaxStream
    BY DEF TypeOK
  <2>3. CASE c \in Open
    <3>1. stream'[c] = Append(stream[c], ver')
      BY <2>3 DEF Change
    <3>2. Len(stream[c]) < MaxStream
      BY <2>3 DEF Change, Room
    <3> QED
      BY <2>1, <2>2, <3>1, <3>2, Bounds
  <2>4. CASE c \notin Open
    BY <2>2, <2>4 DEF Change
  <2> QED
    BY <2>3, <2>4
<1>3. UNCHANGED <<streamer, epc, target, closed, loop, dead>>
  BY DEF Change
<1>4. TypeOK'
  BY <1>1, <1>2, <1>3 DEF TypeOK, streamer, loop
<1>5. Ordered' /\ OwnChannel'
  BY <1>3 DEF Ordered, OwnChannel, streamer, loop
<1>6. Fresh'
  BY <1>1, <1>3 DEF Fresh, Current, TypeOK, streamer, loop
<1> QED
  BY <1>1, <1>4, <1>5, <1>6 DEF Change, Report!Change

\* What podman and the engine readers do leaves the report and the loops alone.
LEMMA StepSend ==
  ASSUME IInv, NEW g \in Gen, NEW e \in {Other, Bad}, Send(g, e)
  PROVE  IInv'
<1> USE DEF IInv
<1>1. epc[g] = "stream" /\ target[g] = g /\ Len(stream[g]) < MaxStream
  BY DEF Send, Streaming, Room, OwnChannel
<1>2. stream' = [stream EXCEPT ![g] = Append(@, e)]
  BY <1>1 DEF Send
<1>3. Append(stream[g], e) \in Seq(Results) /\ Len(Append(stream[g], e)) <= MaxStream
  BY <1>1, Bounds DEF TypeOK, Results
<1>4. stream' \in [Gen -> Seq(Results)] /\ \A c \in Gen : Len(stream'[c]) <= MaxStream
  BY <1>2, <1>3 DEF TypeOK
<1>5. UNCHANGED <<ver, report, streamer, epc, target, closed, loop, dead>>
  BY DEF Send
<1> QED
  BY <1>4, <1>5 DEF TypeOK, Ordered, OwnChannel, Fresh, Current, report, streamer, loop

\* Podman closing a stream keeps the invariant.
LEMMA StepClose ==
  ASSUME IInv, NEW g \in Gen, Close(g)
  PROVE  IInv'
<1> USE DEF IInv
<1>1. epc[g] = "stream" /\ target[g] = g
  BY DEF Close, Streaming, OwnChannel
<1>2. closed' = [closed EXCEPT ![g] = TRUE] /\ epc' = [epc EXCEPT ![g] = "done"]
  BY <1>1 DEF Close
<1>3. UNCHANGED <<ver, report, streamer, target, stream, loop, dead>>
  BY DEF Close
<1>4. TypeOK'
  BY <1>2, <1>3 DEF TypeOK, report, streamer, loop
<1>5. Ordered' /\ OwnChannel'
  BY <1>1, <1>2, <1>3 DEF Ordered, OwnChannel, TypeOK, streamer, loop
<1>6. Fresh'
  BY <1>3 DEF Fresh, Current, report, streamer, loop
<1> QED
  BY <1>4, <1>5, <1>6

\* An engine reader keeps the invariant and leaves the report alone.
LEMMA StepEngine ==
  ASSUME IInv, NEW g \in Gen, Engine(g)
  PROVE  IInv'
<1> USE DEF IInv
<1>1. epc[g] = "begin" /\ UNCHANGED <<ver, report, streamer, stream, closed, loop, dead>>
  BY DEF Engine, Subscribe, SubscribeFails
<1>2. ~closed[g] /\ rpc[g] # "gone"
  BY <1>1 DEF Ordered
<1>3. g = gen
  BY <1>1, <1>2, Bounds DEF Ordered, TypeOK, Gen
<1>4. CASE Subscribe(g)
  <2>1. target' = [target EXCEPT ![g] = g] /\ epc' = [epc EXCEPT ![g] = "stream"]
    BY <1>3, <1>4 DEF Subscribe, TypeOK
  <2>2. TypeOK'
    BY <1>1, <1>3, <2>1 DEF TypeOK, report, streamer, loop
  <2>3. Ordered' /\ OwnChannel'
    BY <1>1, <1>2, <1>3, <2>1 DEF Ordered, OwnChannel, TypeOK, streamer, loop
  <2> QED
    BY <1>1, <2>2, <2>3 DEF Fresh, Current, report, streamer, loop
<1>5. CASE SubscribeFails(g)
  <2>1. target' = target /\ epc' = [epc EXCEPT ![g] = "error"]
    BY <1>5 DEF SubscribeFails
  <2>2. TypeOK'
    BY <1>1, <2>1 DEF TypeOK, report, streamer, loop
  <2>3. Ordered' /\ OwnChannel'
    BY <1>1, <1>2, <1>3, <2>1 DEF Ordered, OwnChannel, TypeOK, streamer, loop
  <2> QED
    BY <1>1, <2>2, <2>3 DEF Fresh, Current, report, streamer, loop
<1> QED
  BY <1>4, <1>5 DEF Engine

\* A listing found now is not older than the report.
LEMMA ListingCurrent ==
  ASSUME IInv, NEW v \in Listings
  PROVE  Current(v) /\ v \in 0..MaxVer \cup {Err}
  BY Bounds DEF IInv, TypeOK, Fresh, Listings, Current

\* Storing a current listing is a step of ReportCache.
LEMMA StoreReport ==
  ASSUME IInv, NEW v \in 0..MaxVer \cup {Err}, Current(v), Store(v), ver' = ver
  PROVE  /\ Report!Next
         /\ rep' \in 0..MaxVer \cup {Err} /\ newest' \in 0..MaxVer /\ newest' <= ver
<1>1. CASE v = Err
  BY <1>1 DEF Store, Report!Next, Report!Refresh, Report!StoreErr, IInv, TypeOK, Fresh
<1>2. CASE v # Err
  <2>1. v \in 1..ver /\ v >= newest /\ rep' = v /\ newest' = v
    BY <1>2, Bounds DEF Current, Store, IInv, TypeOK
  <2>2. Report!Refresh
    BY <2>1 DEF Report!Refresh, Report!Store
  <2> QED
    BY <2>1, <2>2, Bounds DEF Report!Next, IInv, TypeOK
<1> QED
  BY <1>1, <1>2

\* The streamer keeps the invariant, and its stores are steps of ReportCache.
LEMMA StepStreamer == IInv /\ Streamer => IInv' /\ (Report!Next \/ UNCHANGED <<ver, rep, newest>>)
<1> SUFFICES ASSUME IInv, Streamer
             PROVE  IInv' /\ (Report!Next \/ UNCHANGED <<ver, rep, newest>>)
  OBVIOUS
<1> USE DEF IInv
<1>1. CASE FirstList
  <2>1. found' \in Listings /\ spc = "list" /\ spc' = "store"
        /\ UNCHANGED <<ver, rep, newest, gen, opts, engine, loop, dead>>
    BY <1>1 DEF FirstList, report
  <2>2. Current(found') /\ found' \in 0..MaxVer \cup {Err}
    BY <2>1, ListingCurrent
  <2>3. TypeOK'
    BY <2>1, <2>2 DEF TypeOK, engine, loop
  <2>4. Ordered' /\ OwnChannel'
    BY <2>1 DEF Ordered, OwnChannel, engine, loop
  <2>5. Fresh'
    BY <2>1, <2>2 DEF Fresh, Current, loop
  <2> QED
    BY <2>1, <2>3, <2>4, <2>5
<1>2. CASE FirstStore
  <2>1. Store(found) /\ spc = "store" /\ spc' = "start"
        /\ UNCHANGED <<ver, found, gen, opts, engine, loop, dead>>
    BY <1>2 DEF FirstStore
  <2>2. Current(found) /\ found \in 0..MaxVer \cup {Err}
    BY <2>1 DEF Fresh, TypeOK
  <2>3. /\ Report!Next
        /\ rep' \in 0..MaxVer \cup {Err} /\ newest' \in 0..MaxVer /\ newest' <= ver
    BY <2>1, <2>2, StoreReport
  <2>4. TypeOK'
    BY <2>1, <2>3 DEF TypeOK, engine, loop
  <2>5. Ordered' /\ OwnChannel'
    BY <2>1, Bounds DEF Ordered, OwnChannel, engine, loop, Gen
  <2>6. \A g \in Gen : rpc'[g] # "store"
    BY <2>1 DEF TypeOK, Active, loop
  <2>7. Fresh'
    BY <2>1, <2>3, <2>6 DEF Fresh
  <2> QED
    BY <2>3, <2>4, <2>5, <2>7
<1>3. CASE StartGeneration
  <2>1. /\ spc = "start" /\ spc' = "wait" /\ gen < MaxGen /\ gen' = gen + 1 /\ opts' = gen + 1
        /\ epc' = [epc EXCEPT ![gen + 1] = "begin"] /\ rpc' = [rpc EXCEPT ![gen + 1] = "select"]
        /\ UNCHANGED <<ver, rep, newest, found, target, stream, closed, rfound, dead>>
    BY <1>3 DEF StartGeneration, report
  <2>2. gen \in Nat /\ gen + 1 \in Gen /\ gen + 1 \in 0..MaxGen
    BY <2>1, Bounds DEF TypeOK, Gen
  <2>3. \A g \in Gen : g \in Nat /\ (g # gen + 1 => rpc[g] \in {"off", "gone"})
    BY <2>1, <2>2, Bounds DEF TypeOK, Gen
  <2>4. ~closed[gen + 1]
    BY <2>2 DEF Ordered
  <2>5. TypeOK'
    <3>1. \A g \in Gen : rpc'[g] \in Active <=> spc' = "wait" /\ g = gen'
      BY <2>1, <2>2, <2>3 DEF Active, TypeOK
    <3>2. /\ epc' \in [Gen -> {"off", "begin", "stream", "error", "done"}]
          /\ rpc' \in [Gen -> Active \cup {"off", "gone"}]
      BY <2>1 DEF TypeOK, Active
    <3> QED
      BY <2>1, <2>2, <3>1, <3>2 DEF TypeOK
  <2>6. Ordered'
    <3> SUFFICES ASSUME NEW g \in Gen
                 PROVE  /\ g > gen' => rpc'[g] = "off" /\ epc'[g] = "off"
                        /\ g < gen' => rpc'[g] = "gone"
                        /\ rpc'[g] \in {"restart", "gone"} => closed'[g]
                        /\ closed'[g] => epc'[g] = "done"
      BY <2>1, <2>2 DEF Ordered
    <3>1. CASE g = gen + 1
      BY <2>1, <2>2, <2>4, <3>1 DEF TypeOK
    <3>2. CASE g # gen + 1
      <4>1. rpc'[g] = rpc[g] /\ epc'[g] = epc[g] /\ closed'[g] = closed[g]
        BY <2>1, <3>2 DEF TypeOK
      <4>2. /\ g > gen => rpc[g] = "off" /\ epc[g] = "off"
            /\ g < gen => rpc[g] = "gone"
            /\ g = gen => rpc[g] = "gone"
            /\ rpc[g] \in {"restart", "gone"} => closed[g]
            /\ closed[g] => epc[g] = "done"
        BY <2>1 DEF Ordered
      <4> QED
        BY <2>1, <2>2, <2>3, <3>2, <4>1, <4>2
    <3> QED
      BY <3>1, <3>2
  <2>7. OwnChannel'
    BY <2>1, <2>2 DEF OwnChannel, TypeOK
  <2>8. Fresh'
    BY <2>1, <2>2 DEF Fresh, Current, TypeOK
  <2> QED
    BY <2>1, <2>5, <2>6, <2>7, <2>8
<1>4. ASSUME NEW g \in Gen, Restart(g) PROVE IInv' /\ UNCHANGED <<ver, rep, newest>>
  <2>1. /\ spc = "wait" /\ rpc[g] = "restart" /\ spc' = "start" /\ rpc' = [rpc EXCEPT ![g] = "gone"]
        /\ UNCHANGED <<ver, rep, newest, found, gen, opts, engine, rfound, dead>>
    BY <1>4 DEF Restart, report
  <2>2. g = gen
    BY <2>1 DEF TypeOK, Active
  <2>3. TypeOK'
    BY <2>1, <2>2 DEF TypeOK, engine, Active
  <2>4. Ordered' /\ OwnChannel'
    BY <2>1, <2>2, Bounds DEF Ordered, OwnChannel, TypeOK, engine, Gen
  <2>5. Fresh'
    BY <2>1 DEF Fresh, Current, TypeOK
  <2> QED
    BY <2>1, <2>3, <2>4, <2>5
<1> QED
  BY <1>1, <1>2, <1>3, <1>4 DEF Streamer

\* A loop that is active stays so until it is told off.
LEMMA StepLoop ==
  ASSUME IInv, NEW g \in Gen, Loop(g)
  PROVE  IInv' /\ (Report!Next \/ UNCHANGED <<ver, rep, newest>>)
<1> USE DEF IInv
<1>0. /\ rpc[g] \in Active => spc = "wait" /\ g = gen
      /\ \A h \in Gen : h # g /\ rpc[g] \in Active => rpc[h] \notin Active
  BY DEF TypeOK
<1>1. CASE Take(g)
  <2>1. /\ rpc[g] = "select" /\ stream[g] # << >> /\ stream' = [stream EXCEPT ![g] = Tail(@)]
        /\ UNCHANGED <<ver, rep, newest, streamer, epc, target, closed, rfound>>
    BY <1>1 DEF Take, report
  <2>2. /\ rpc' = rpc \/ rpc' = [rpc EXCEPT ![g] = "list"] \/ rpc' = [rpc EXCEPT ![g] = "select"]
        /\ dead' \in {dead, "panic"}
    BY <1>1 DEF Take
  <2>3. stream' \in [Gen -> Seq(Results)] /\ \A c \in Gen : Len(stream'[c]) <= MaxStream
    <3>1. Tail(stream[g]) \in Seq(Results) /\ Len(Tail(stream[g])) <= MaxStream
      BY <2>1, Bounds DEF TypeOK
    <3> QED
      BY <2>1, <3>1 DEF TypeOK
  <2>4. TypeOK'
    BY <1>0, <2>1, <2>2, <2>3 DEF TypeOK, streamer, Active
  <2>5. Ordered' /\ OwnChannel'
    BY <1>0, <2>1, <2>2 DEF Ordered, OwnChannel, TypeOK, streamer, Active
  <2>6. Fresh'
    BY <2>1, <2>2 DEF Fresh, Current, TypeOK, streamer
  <2> QED
    BY <2>1, <2>4, <2>5, <2>6
<1>2. CASE LoopList(g)
  <2>1. PICK v \in Listings : rfound' = [rfound EXCEPT ![g] = v]
    BY <1>2 DEF LoopList
  <2>2. /\ rpc[g] = "list" /\ rpc' = [rpc EXCEPT ![g] = "store"]
        /\ UNCHANGED <<ver, rep, newest, streamer, engine, dead>>
    BY <1>2 DEF LoopList, report
  <2>3. Current(v) /\ v \in 0..MaxVer \cup {Err}
    BY ListingCurrent
  <2>4. TypeOK'
    BY <1>0, <2>1, <2>2, <2>3 DEF TypeOK, streamer, engine, Active
  <2>5. Ordered' /\ OwnChannel'
    BY <1>0, <2>2 DEF Ordered, OwnChannel, TypeOK, streamer, engine, Active
  <2>6. Fresh'
    BY <2>1, <2>2, <2>3 DEF Fresh, Current, TypeOK, streamer
  <2> QED
    BY <2>2, <2>4, <2>5, <2>6
<1>3. CASE LoopStore(g)
  <2>1. /\ rpc[g] = "store" /\ Store(rfound[g]) /\ rpc' = [rpc EXCEPT ![g] = "select"]
        /\ UNCHANGED <<ver, streamer, engine, rfound, dead>>
    BY <1>3 DEF LoopStore
  <2>2. Current(rfound[g]) /\ rfound[g] \in 0..MaxVer \cup {Err}
    BY <2>1 DEF Fresh, TypeOK
  <2>3. /\ Report!Next
        /\ rep' \in 0..MaxVer \cup {Err} /\ newest' \in 0..MaxVer /\ newest' <= ver
    BY <2>1, <2>2, StoreReport
  <2>4. TypeOK'
    BY <1>0, <2>1, <2>3 DEF TypeOK, streamer, engine, Active
  <2>5. Ordered' /\ OwnChannel'
    BY <1>0, <2>1 DEF Ordered, OwnChannel, TypeOK, streamer, engine, Active
  <2>6. spc' = "wait" /\ \A h \in Gen : rpc'[h] # "store"
    BY <1>0, <2>1 DEF TypeOK, streamer, Active
  <2>7. Fresh'
    BY <2>1, <2>3, <2>6 DEF Fresh
  <2> QED
    BY <2>3, <2>4, <2>5, <2>7
<1>4. CASE TakeClosed(g)
  <2>1. /\ rpc[g] = "select" /\ closed[g] /\ rpc' = [rpc EXCEPT ![g] = "restart"]
        /\ UNCHANGED <<ver, rep, newest, streamer, engine, rfound, dead>>
    BY <1>4 DEF TakeClosed, report
  <2>2. TypeOK'
    BY <1>0, <2>1 DEF TypeOK, streamer, engine, Active
  <2>3. Ordered' /\ OwnChannel'
    BY <1>0, <2>1 DEF Ordered, OwnChannel, TypeOK, streamer, engine, Active
  <2>4. Fresh'
    BY <2>1 DEF Fresh, Current, TypeOK, streamer
  <2> QED
    BY <2>1, <2>2, <2>3, <2>4
<1>5. CASE TakeError(g)
  <2>1. dead' = "fatal" /\ UNCHANGED <<ver, rep, newest, streamer, engine, loop>>
    BY <1>5 DEF TakeError, report
  <2> QED
    BY <2>1 DEF TypeOK, Ordered, OwnChannel, Fresh, Current, streamer, engine, loop
<1> QED
  BY <1>1, <1>2, <1>3, <1>4, <1>5 DEF Loop

\* Every step keeps the invariant and is a step of ReportCache or stutters.
LEMMA Steps == IInv /\ [Next]_vars => IInv' /\ [Report!Next]_<<ver, rep, newest>>
<1> SUFFICES ASSUME IInv, [Next]_vars PROVE IInv' /\ [Report!Next]_<<ver, rep, newest>>
  OBVIOUS
<1>1. CASE Change
  BY <1>1, StepChange DEF Report!Next
<1>2. CASE Streamer
  BY <1>2, StepStreamer
<1>3. ASSUME NEW g \in Gen, NEW e \in {Other, Bad}, Send(g, e)
      PROVE  IInv' /\ UNCHANGED <<ver, rep, newest>>
  BY <1>3, StepSend DEF Send, report
<1>4. ASSUME NEW g \in Gen, Close(g) PROVE IInv' /\ UNCHANGED <<ver, rep, newest>>
  BY <1>4, StepClose DEF Close, report
<1>5. ASSUME NEW g \in Gen, Engine(g) PROVE IInv' /\ UNCHANGED <<ver, rep, newest>>
  BY <1>5, StepEngine DEF Engine, Subscribe, SubscribeFails, report
<1>6. ASSUME NEW g \in Gen, Loop(g)
      PROVE  IInv' /\ (Report!Next \/ UNCHANGED <<ver, rep, newest>>)
  BY <1>6, StepLoop
<1>7. CASE UNCHANGED vars
  BY <1>7 DEF vars, report, streamer, engine, loop, IInv, TypeOK, OwnChannel, Ordered, Fresh, Current
<1> QED
  BY <1>1, <1>2, <1>3, <1>4, <1>5, <1>6, <1>7 DEF Next

\* The event streamer is type correct, and waits for a restart exactly while
\* the last generation's loop, the only one left, has not given it one
\* (pdcs/events.go:41-67).
THEOREM EventsTypeCorrect == Spec => []TypeOK
<1>1. Init => IInv
  BY InvInit
<1>2. IInv /\ [Next]_vars => IInv'
  BY Steps
<1>3. IInv => TypeOK
  BY DEF IInv
<1> QED
  BY <1>1, <1>2, <1>3, PTL DEF Spec

\* podman streams into the channel of the generation that asked it to, however
\* many generations share eventOptions (pdcs/events.go:26-35).
THEOREM EventsOwnChannel == Spec => []OwnChannel
<1>1. Init => IInv
  BY InvInit
<1>2. IInv /\ [Next]_vars => IInv'
  BY Steps
<1>3. IInv => OwnChannel
  BY DEF IInv
<1> QED
  BY <1>1, <1>2, <1>3, PTL DEF Spec

\* The image report is a cached report: one moment's images, never an earlier
\* one's than shown before, or an error (pdcs/image.go:33-60), across any number
\* of restarts of the event stream.
THEOREM EventsImplementReport == Spec => ReportSpec
<1>1. Init => IInv /\ Report!Init
  BY InvInit, Bounds DEF Init, Report!Init
<1>2. IInv /\ [Next]_vars => IInv' /\ [Report!Next]_<<ver, rep, newest>>
  BY Steps
<1> QED
  BY <1>1, <1>2, PTL DEF Spec, ReportSpec, Report!Spec

\* The half of Attended that is an invariant of its own; the other follows from IInv.
Receiving == {"select", "list", "store"}
Waiting == \A g \in Gen : stream[g] # << >> => rpc[g] \in Receiving

\* A subscription that is open or has failed belongs to a loop that receives.
LEMMA Attending ==
  ASSUME IInv, NEW g \in Gen, epc[g] \in {"stream", "error"}
  PROVE  rpc[g] \in Receiving
<1>1. ~(g > gen) /\ ~closed[g]
  BY DEF IInv, Ordered
<1>2. rpc[g] \notin {"restart", "gone"}
  BY <1>1 DEF IInv, Ordered
<1>3. g = gen
  BY <1>1, <1>2, Bounds DEF IInv, Ordered, TypeOK, Gen
<1>4. spc = "wait"
  BY <1>2, <1>3 DEF IInv, Ordered
<1>5. rpc[g] \in Active
  BY <1>3, <1>4 DEF IInv, TypeOK
<1> QED
  BY <1>2, <1>5 DEF Active, Receiving

\* No step leaves a result in a channel without a loop that receives from it.
LEMMA StepWaiting == IInv /\ Waiting /\ [Next]_vars => Waiting'
<1> SUFFICES ASSUME IInv, Waiting, [Next]_vars, NEW g \in Gen, stream'[g] # << >>
             PROVE  rpc'[g] \in Receiving
  BY DEF Waiting
<1>0. stream[g] # << >> => rpc[g] \in Receiving
  BY DEF Waiting
<1>1. CASE Change
  <2>1. rpc' = rpc /\ (stream[g] = << >> => g \in Open)
    BY <1>1 DEF Change, loop
  <2>2. g \in Open => epc[g] = "stream"
    BY DEF Open, Streaming, IInv, OwnChannel
  <2> QED
    BY <1>0, <2>1, <2>2, Attending
<1>2. ASSUME NEW h \in Gen, NEW e \in {Other, Bad}, Send(h, e) PROVE rpc'[g] \in Receiving
  <2>1. epc[h] = "stream" /\ target[h] = h /\ rpc' = rpc
    BY <1>2 DEF Send, Streaming, loop, IInv, OwnChannel
  <2>2. g # h => stream'[g] = stream[g]
    BY <1>2, <2>1 DEF Send, IInv, TypeOK
  <2> QED
    BY <1>0, <2>1, <2>2, Attending
<1>3. CASE stream' = stream /\ rpc' = rpc
  BY <1>0, <1>3
<1>4. ASSUME NEW h \in Gen, Close(h) \/ Engine(h) PROVE stream' = stream /\ rpc' = rpc
  BY <1>4 DEF Close, Engine, Subscribe, SubscribeFails, loop
<1>5. CASE Streamer
  <2>1. CASE FirstList \/ FirstStore
    BY <1>3, <2>1 DEF FirstList, FirstStore, engine, loop
  <2>2. CASE StartGeneration
    BY <1>0, <2>2 DEF StartGeneration, IInv, TypeOK, Receiving
  <2>3. ASSUME NEW h \in Gen, Restart(h) PROVE rpc'[g] \in Receiving
    BY <1>0, <2>3 DEF Restart, engine, IInv, TypeOK, Receiving
  <2> QED
    BY <1>5, <2>1, <2>2, <2>3 DEF Streamer
<1>6. ASSUME NEW h \in Gen, Loop(h) PROVE rpc'[g] \in Receiving
  <2>1. CASE Take(h)
    <3>1. rpc[h] = "select" /\ (rpc' = rpc \/ \E p \in Receiving : rpc' = [rpc EXCEPT ![h] = p])
      BY <2>1 DEF Take, Receiving
    <3>2. g # h => stream'[g] = stream[g]
      BY <2>1 DEF Take, IInv, TypeOK
    <3> QED
      BY <1>0, <3>1, <3>2 DEF IInv, TypeOK, Receiving
  <2>2. CASE LoopList(h) \/ LoopStore(h)
    BY <1>0, <2>2 DEF LoopList, LoopStore, engine, IInv, TypeOK, Receiving
  <2>3. CASE TakeClosed(h)
    BY <1>0, <2>3 DEF TakeClosed, engine, IInv, TypeOK, Receiving
  <2>4. CASE TakeError(h)
    BY <1>3, <2>4 DEF TakeError, engine, loop
  <2> QED
    BY <1>6, <2>1, <2>2, <2>3, <2>4 DEF Loop
<1>7. CASE UNCHANGED vars
  BY <1>3, <1>7 DEF vars, engine, loop
<1> QED
  BY <1>1, <1>2, <1>3, <1>4, <1>5, <1>6, <1>7 DEF Next

\* What podman has streamed and the error an engine reader offers are in front of
\* the loop of their generation, which still receives, across any number of
\* restarts (pdcs/events.go:36-37, 44-52): the safety that EventsArrive and
\* ErrorsEndProcess rest on.
THEOREM EventsAttended == Spec => []Attended
<1>1. Init => IInv /\ Waiting
  BY InvInit DEF Init, Waiting
<1>2. IInv /\ Waiting /\ [Next]_vars => IInv' /\ Waiting'
  BY Steps, StepWaiting
<1>3. IInv /\ Waiting => Attended
  BY Attending DEF Waiting, Attended, Receiving
<1> QED
  BY <1>1, <1>2, <1>3, PTL DEF Spec

\* Without the image collector no event result, bad or not, ends the process: the
\* loop looks into an event only for images (pdcs/events.go:55).
THEOREM ImagesNeedEvents == ~UpdateImage /\ Spec => []NoPanic
<1>1. Init => NoPanic
  BY DEF Init, NoPanic
<1>2. ~UpdateImage /\ NoPanic /\ [Next]_vars => NoPanic'
  BY DEF NoPanic, Next, vars, Change, Send, Close, Streamer, FirstList, FirstStore,
         StartGeneration, Restart, Engine, Subscribe, SubscribeFails, Loop, Take, LoopList,
         LoopStore, TakeClosed, TakeError
<1> QED
  <2>1. CASE ~UpdateImage
    <3>1. NoPanic /\ [Next]_vars => NoPanic'
      BY <1>2, <2>1
    <3> QED
      BY <1>1, <3>1, PTL DEF Spec
  <2> QED
    BY <2>1
=============================================================================
