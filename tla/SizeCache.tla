---------------------------- MODULE SizeCache ----------------------------
(***************************************************************************)
(* The container size cache of pdcs/container.go: updateContainerSize, run *)
(* once by StartCacheSizeTicker before the exporter serves and then at     *)
(* each tick, and the calls of Containers that scrapes make meanwhile.     *)
(*                                                                         *)
(* The refresh holds cacheLock while it lists the containers and writes    *)
(* its entries one by one into the map.  A call takes cacheLock only to    *)
(* copy the reference to that map: its lookups run without the lock.  A    *)
(* lookup during a write of the map is a data race: the Go runtime may end *)
(* the process (concurrent map read and map write), or the lookup yields   *)
(* the entry as it was before or after the write.                          *)
(*                                                                         *)
(* The size of a container is represented by its version: 1 when the       *)
(* container is created, one more at every change; 0 is no entry, for      *)
(* which a scrape reports size zero.                                       *)
(***************************************************************************)
EXTENDS Integers, FiniteSets

CONSTANTS
  Containers,  \* the containers podman may know during the run
  Readers,     \* scrapes calling Containers()
  MaxVer,      \* bound: sizes a container may have had
  None,        \* no key being written
  Free,        \* cacheLock is not held
  Updater      \* the goroutine of StartCacheSizeTicker (at first, Start itself)

ASSUME SizeAssumption ==
  /\ MaxVer \in Nat \ {0}
  /\ None \notin Containers
  /\ Free # Updater /\ Free \notin Readers /\ Updater \notin Readers

VARIABLES
  ver,       \* [container -> version of its size; 0 when it does not exist]
  removed,   \* containers removed; an ID is not used twice
  lock,      \* holder of cacheLock
  cache,     \* [container -> version of the size in the map; 0 when none]
  cacheErr,  \* cacheError # nil
  writing,   \* the key a map assignment is under way for
  upc,       \* where the updater is
  snap,      \* [container -> version listed and still to be written; 0 when none]
  tick,      \* ticker.C holds a tick
  serving,   \* the first refresh is over: scrapes may come
  rpc,       \* [reader -> where its call is]
  listed,    \* [reader -> containers podman listed for the call]
  todo,      \* [reader -> containers still to be looked up]
  got,       \* [reader -> [container -> version reported; 0 when none]]
  result,    \* [reader -> outcome of its last call]
  crashed,   \* the runtime has ended the process
  floor,     \* ghost, [reader -> the map when the call held the lock]
  seen,      \* ghost, [container -> newest version a finished call returned]
  base       \* ghost, [reader -> seen when the call began]

podman  == <<ver, removed>>
updater == <<upc, snap, tick, serving>>
reader  == <<rpc, listed, todo, got, result, floor, seen, base>>
vars == <<podman, lock, cache, cacheErr, writing, updater, reader, crashed>>

Nothing == [c \in Containers |-> 0]
Live == {c \in Containers : ver[c] > 0 /\ c \notin removed}

Init ==
  /\ ver \in [Containers -> {0, 1}] /\ removed = {}
  /\ lock = Free /\ cache = Nothing /\ cacheErr = FALSE /\ writing = None
  /\ upc = "lock" /\ snap = Nothing /\ tick = FALSE /\ serving = FALSE
  /\ rpc = [r \in Readers |-> "idle"]
  /\ listed = [r \in Readers |-> {}] /\ todo = [r \in Readers |-> {}]
  /\ got = [r \in Readers |-> Nothing]
  /\ result = [r \in Readers |-> "none"]
  /\ crashed = FALSE
  /\ floor = [r \in Readers |-> Nothing]
  /\ seen = Nothing
  /\ base = [r \in Readers |-> Nothing]

-----------------------------------------------------------------------------
(* podman                                                                    *)

\* A container is created, or writes to its layers.
Grow(c) ==
  /\ ~crashed /\ c \notin removed /\ ver[c] < MaxVer
  /\ ver' = [ver EXCEPT ![c] = @ + 1]
  /\ UNCHANGED <<removed, lock, cache, cacheErr, writing, updater, reader, crashed>>

Delete(c) ==
  /\ ~crashed /\ c \in Live
  /\ removed' = removed \cup {c}
  /\ UNCHANGED <<ver, lock, cache, cacheErr, writing, updater, reader, crashed>>

-----------------------------------------------------------------------------
(* The refresh                                                               *)

\* The ticker drops a tick when the last one is not taken yet.
Tick ==
  /\ ~crashed /\ serving /\ ~tick
  /\ tick' = TRUE
  /\ UNCHANGED <<podman, lock, cache, cacheErr, writing, upc, snap, serving, reader, crashed>>

TakeTick ==
  /\ ~crashed /\ upc = "wait" /\ tick
  /\ tick' = FALSE /\ upc' = "lock"
  /\ UNCHANGED <<podman, lock, cache, cacheErr, writing, snap, serving, reader, crashed>>

UpdateLock ==
  /\ ~crashed /\ upc = "lock" /\ lock = Free
  /\ lock' = Updater /\ upc' = "list"
  /\ UNCHANGED <<podman, cache, cacheErr, writing, snap, tick, serving, reader, crashed>>

\* ContainerList with sizes answers
UpdateList ==
  /\ ~crashed /\ upc = "list"
  /\ snap' = [c \in Containers |-> IF c \in Live THEN ver[c] ELSE 0]
  /\ upc' = "write"
  /\ UNCHANGED <<podman, lock, cache, cacheErr, writing, tick, serving, reader, crashed>>

\* mutant: the lock is not given back
UpdateListFailsLocked ==
  /\ ~crashed /\ upc = "list"
  /\ cacheErr' = TRUE
  /\ upc' = "wait" /\ serving' = TRUE
  /\ UNCHANGED <<podman, lock, cache, writing, snap, tick, reader, crashed>>

\* it fails: the error is kept and the refresh is over
UpdateListFails ==
  /\ ~crashed /\ upc = "list"
  /\ cacheErr' = TRUE
  /\ lock' = Free /\ upc' = "wait" /\ serving' = TRUE
  /\ UNCHANGED <<podman, cache, writing, snap, tick, reader, crashed>>

\* cntSizeCache.cache[cntID] = cntSz, from the moment the map is being written
WriteBegin(c) ==
  /\ ~crashed /\ upc = "write" /\ writing = None /\ snap[c] > 0
  /\ writing' = c
  /\ UNCHANGED <<podman, lock, cache, cacheErr, updater, reader, crashed>>

\* mutant: the entry is written to a copy of the map
WriteEndCopy ==
  /\ ~crashed /\ writing # None
  /\ snap' = [snap EXCEPT ![writing] = 0]
  /\ writing' = None
  /\ UNCHANGED <<podman, lock, cache, cacheErr, upc, tick, serving, reader, crashed>>

\* ... to the moment the entry is there
WriteEnd ==
  /\ ~crashed /\ writing # None
  /\ cache' = [cache EXCEPT ![writing] = snap[writing]]
  /\ snap' = [snap EXCEPT ![writing] = 0]
  /\ writing' = None
  /\ UNCHANGED <<podman, lock, cacheErr, upc, tick, serving, reader, crashed>>

\* All listed containers are written; the error of an earlier refresh stays.
UpdateDone ==
  /\ ~crashed /\ upc = "write" /\ writing = None /\ snap = Nothing
  /\ lock' = Free /\ upc' = "wait" /\ serving' = TRUE
  /\ UNCHANGED <<podman, cache, cacheErr, writing, snap, tick, reader, crashed>>

-----------------------------------------------------------------------------
(* Containers()                                                              *)

\* The locals of a call end with it.
Forget(r) ==
  /\ listed' = [listed EXCEPT ![r] = {}]
  /\ got' = [got EXCEPT ![r] = Nothing]
  /\ floor' = [floor EXCEPT ![r] = Nothing]
  /\ base' = [base EXCEPT ![r] = Nothing]

Call(r) ==
  /\ ~crashed /\ serving /\ rpc[r] = "idle"
  /\ rpc' = [rpc EXCEPT ![r] = "list"]
  /\ result' = [result EXCEPT ![r] = "none"]
  /\ base' = [base EXCEPT ![r] = seen]
  /\ UNCHANGED <<podman, lock, cache, cacheErr, writing, updater, listed, todo, got,
                 floor, seen, crashed>>

List(r) ==
  /\ ~crashed /\ rpc[r] = "list"
  /\ listed' = [listed EXCEPT ![r] = Live]
  /\ rpc' = [rpc EXCEPT ![r] = "lock"]
  /\ UNCHANGED <<podman, lock, cache, cacheErr, writing, updater, todo, got, result,
                 floor, seen, base, crashed>>

ListFails(r) ==
  /\ ~crashed /\ rpc[r] = "list"
  /\ rpc' = [rpc EXCEPT ![r] = "idle"]
  /\ result' = [result EXCEPT ![r] = "error"]
  /\ Forget(r)
  /\ UNCHANGED <<podman, lock, cache, cacheErr, writing, updater, todo, seen, crashed>>

\* mutant: the call does not wait for the refresh
LockableAlways == TRUE

\* cacheLock.Lock() returns
Lockable == lock = Free

ReadLock(r) ==
  /\ ~crashed /\ rpc[r] = "lock" /\ Lockable
  /\ lock' = r
  /\ rpc' = [rpc EXCEPT ![r] = "copy"]
  /\ UNCHANGED <<podman, cache, cacheErr, writing, updater, listed, todo, got, result,
                 floor, seen, base, crashed>>

\* The map reference and the error are copied and the lock is given back; with
\* an error the call returns (nil, err), where err is nil: no error, no container.
Copy(r) ==
  /\ ~crashed /\ rpc[r] = "copy"
  /\ lock' = Free
  /\ IF cacheErr
       THEN /\ rpc' = [rpc EXCEPT ![r] = "idle"]
            /\ result' = [result EXCEPT ![r] = "empty"]
            /\ Forget(r)
            /\ UNCHANGED todo
       ELSE /\ rpc' = [rpc EXCEPT ![r] = "read"]
            /\ todo' = [todo EXCEPT ![r] = listed[r]]
            /\ floor' = [floor EXCEPT ![r] = cache]
            /\ UNCHANGED <<result, listed, got, base>>
  /\ UNCHANGED <<podman, cache, cacheErr, writing, updater, seen, crashed>>

\* mutant: the map is looked up with the full ID, not with getID's
LookupMiss(r, c) ==
  /\ ~crashed /\ rpc[r] = "read" /\ c \in todo[r]
  /\ got' = [got EXCEPT ![r][c] = 0]
  /\ todo' = [todo EXCEPT ![r] = @ \ {c}]
  /\ UNCHANGED <<podman, lock, cache, cacheErr, writing, updater, rpc, listed, result,
                 floor, seen, base, crashed>>

\* cacheSizeInfo[cntID], without the lock
Lookup(r, c) ==
  /\ ~crashed /\ rpc[r] = "read" /\ c \in todo[r]
  /\ \E v \in {cache[c]} \cup (IF writing = c THEN {snap[c]} ELSE {}) :
       got' = [got EXCEPT ![r][c] = v]
  /\ todo' = [todo EXCEPT ![r] = @ \ {c}]
  /\ UNCHANGED <<podman, lock, cache, cacheErr, writing, updater, rpc, listed, result,
                 floor, seen, base, crashed>>

\* fatal error: concurrent map read and map write
LookupFatal(r) ==
  /\ ~crashed /\ rpc[r] = "read" /\ todo[r] # {} /\ writing # None
  /\ crashed' = TRUE
  /\ UNCHANGED <<podman, lock, cache, cacheErr, writing, updater, reader>>

Return(r) ==
  /\ ~crashed /\ rpc[r] = "read" /\ todo[r] = {}
  /\ rpc' = [rpc EXCEPT ![r] = "idle"]
  /\ result' = [result EXCEPT ![r] = "ok"]
  /\ seen' = [c \in Containers |-> IF got[r][c] > seen[c] THEN got[r][c] ELSE seen[c]]
  /\ Forget(r)
  /\ UNCHANGED <<podman, lock, cache, cacheErr, writing, updater, todo, crashed>>

-----------------------------------------------------------------------------
Refresh ==
  \/ TakeTick \/ UpdateLock \/ UpdateList \/ UpdateListFails
  \/ (\E c \in Containers : WriteBegin(c)) \/ WriteEnd \/ UpdateDone

Answer(r) == List(r) \/ ListFails(r)
Read(r) == (\E c \in Containers : Lookup(r, c)) \/ LookupFatal(r) \/ Return(r)

Next ==
  \/ \E c \in Containers : Grow(c) \/ Delete(c)
  \/ Tick \/ Refresh
  \/ \E r \in Readers : Call(r) \/ Answer(r) \/ ReadLock(r) \/ Copy(r) \/ Read(r)

Spec == Init /\ [][Next]_vars

\* podman answers, though listings may fail; it does not fail every time.  A
\* sync.Mutex in starvation mode is handed to its oldest waiter.
Fairness ==
  /\ WF_vars(Tick) /\ WF_vars(Refresh)
  /\ SF_vars(UpdateLock) /\ SF_vars(UpdateList)
  /\ \A r \in Readers :
       /\ WF_vars(Answer(r)) /\ SF_vars(ReadLock(r))
       /\ WF_vars(Copy(r)) /\ WF_vars(Read(r))

FairSpec == Spec /\ Fairness

-----------------------------------------------------------------------------
(* Properties                                                                *)

Versions == [Containers -> 0..MaxVer]

\* Every variable holds a value of its kind, and cacheLock is held by who is
\* between its Lock and its Unlock and by nobody else (pdcs/container.go:87-92,
\* 251-252).
TypeOK ==
  /\ ver \in Versions /\ cache \in Versions /\ snap \in Versions /\ seen \in Versions
  /\ removed \subseteq Containers
  /\ lock \in {Free, Updater} \cup Readers
  /\ cacheErr \in BOOLEAN /\ tick \in BOOLEAN /\ serving \in BOOLEAN /\ crashed \in BOOLEAN
  /\ writing \in Containers \cup {None}
  /\ upc \in {"wait", "lock", "list", "write"}
  /\ rpc \in [Readers -> {"idle", "list", "lock", "copy", "read"}]
  /\ listed \in [Readers -> SUBSET Containers] /\ todo \in [Readers -> SUBSET Containers]
  /\ got \in [Readers -> Versions] /\ floor \in [Readers -> Versions]
  /\ base \in [Readers -> Versions]
  /\ result \in [Readers -> {"none", "error", "empty", "ok"}]
  /\ lock = Updater <=> upc \in {"list", "write"}
  /\ \A r \in Readers : lock = r <=> rpc[r] = "copy"

\* A size a call has looked up is one the container has had, at least as new as
\* the last refresh that was over when the call held the lock, although the
\* lookup itself races with the next refresh (pdcs/container.go:104-110).
FreshSizes ==
  \A r \in Readers : rpc[r] = "read" =>
    \A c \in listed[r] \ todo[r] : floor[r][c] <= got[r][c] /\ got[r][c] <= ver[c]

\* Sizes do not go back: a call finds for each container it lists a size at
\* least as new as any that a call finished before it began has reported, even
\* one that saw a refresh half done.
MonotoneSizes ==
  \A r \in Readers : rpc[r] = "read" =>
    \A c \in listed[r] \ todo[r] : base[r][c] <= got[r][c]

\* The runtime never finds the map read while it is written: Containers returns
\* (pdcs/container.go:75).
NoFatal == ~crashed

\* A cached error does not stay: podman answers again, and Containers() returns
\* containers again (--collector.cache-duration "... refresh the caches",
\* cmd/root.go:123).
ErrorClears == cacheErr ~> ~cacheErr \/ crashed

\* Every call of Containers() returns, with its list, with nothing or with an
\* error, whatever the refresh does meanwhile.
CallReturns == \A r \in Readers : rpc[r] # "idle" ~> rpc[r] = "idle" \/ crashed

\* A size a container has had while it lives gets into the cache, it or a newer
\* one, although ticks may be dropped and listings may fail in between.
SizesArrive ==
  \A c \in Containers, v \in 1..MaxVer :
    c \in Live /\ ver[c] = v ~> cache[c] >= v \/ c \in removed \/ crashed
=============================================================================
