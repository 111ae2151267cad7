-------------------------- MODULE SizeCache_proofs --------------------------
(***************************************************************************)
(* SizeCache is type correct, a call of Containers() returns sizes no      *)
(* older than the last whole refresh, and sizes do not go back, for any    *)
(* containers and callers, as long as the runtime lets the process go on.  *)
(*                                                                         *)
(* Both rest on what a lookup may yield: the entry in the map or, during   *)
(* its assignment, the one being written, which is `Newest'.  It never     *)
(* goes back, so it bounds all that was ever looked up; and when a call    *)
(* has the lock no assignment is under way, so the map itself has it.      *)
(***************************************************************************)
EXTENDS SizeCache, TLAPS

\* the newest size of c that a lookup may have yielded
Newest(c) == IF writing = c THEN snap[c] ELSE cache[c]

\* An assignment to the map is under way only while the refresh writes, for a
\* container that has been listed.
WriteOwned == writing # None => upc = "write" /\ snap[writing] > 0

\* A listed size is one the container has, and not older than its entry.
Bounded ==
  \A c \in Containers :
    /\ cache[c] <= ver[c] /\ snap[c] <= ver[c]
    /\ snap[c] > 0 => cache[c] <= snap[c]

\* Nothing a call has seen is newer than what a lookup may yield.
SeenBounded ==
  \A c \in Containers :
    /\ seen[c] <= Newest(c)
    /\ \A r \in Readers : got[r][c] <= Newest(c) /\ base[r][c] <= Newest(c)

\* The map a call has a reference to is not older than when the call held the
\* lock, and had then all that earlier calls have reported.
FloorHeld ==
  \A r \in Readers : rpc[r] = "read" =>
    \A c \in Containers :
      /\ base[r][c] <= floor[r][c] /\ floor[r][c] <= cache[c]
      /\ c \in listed[r] \ todo[r] => floor[r][c] <= got[r][c]

IInv == TypeOK /\ WriteOwned /\ Bounded /\ SeenBounded /\ FloorHeld

\* The bound is positive, and who may hold cacheLock is told apart.
LEMMA Parties ==
  /\ MaxVer \in Nat /\ MaxVer > 0 /\ None \notin Containers
  /\ Free # Updater /\ Free \notin Readers /\ Updater \notin Readers
  BY SizeAssumption DEF SizeAssumption

\* No container has a size yet.
LEMMA NothingType == Nothing \in Versions /\ \A c \in Containers : Nothing[c] = 0
  BY Parties DEF Nothing, Versions

-----------------------------------------------------------------------------
(* Type correctness                                                          *)

\* The initial state is type correct.
LEMMA TypeInit == Init => TypeOK
<1> SUFFICES ASSUME Init PROVE TypeOK
  OBVIOUS
<1>1. ver \in Versions
  BY Parties DEF Init, Versions
<1>2. \A r \in Readers : lock # r /\ rpc[r] # "copy"
  BY Parties DEF Init
<1>3. rpc \in [Readers -> {"idle", "list", "lock", "copy", "read"}]
  BY DEF Init
<1> QED
  BY <1>1, <1>2, <1>3, Parties, NothingType DEF Init, TypeOK

\* podman's own steps and those of the refresh keep TypeOK.
LEMMA TypeRefresh ==
  ASSUME TypeOK,
         \/ \E c \in Containers : Grow(c) \/ Delete(c)
         \/ Tick \/ Refresh
  PROVE  TypeOK'
<1> USE Parties DEF podman, updater, reader
<1>1. ASSUME NEW c \in Containers, Grow(c) PROVE TypeOK'
  <2>1. ver' \in Versions
    BY <1>1 DEF Grow, TypeOK, Versions
  <2> QED
    BY <1>1, <2>1 DEF Grow, TypeOK
<1>2. ASSUME NEW c \in Containers, Delete(c) PROVE TypeOK'
  BY <1>2 DEF Delete, TypeOK
<1>3. CASE Tick
  BY <1>3 DEF Tick, TypeOK
<1>4. CASE TakeTick
  BY <1>4 DEF TakeTick, TypeOK
<1>5. CASE UpdateLock
  BY <1>5 DEF UpdateLock, TypeOK
<1>6. CASE UpdateList
  <2>1. snap' \in Versions
    BY <1>6 DEF UpdateList, TypeOK, Versions
  <2> QED
    BY <1>6, <2>1 DEF UpdateList, TypeOK
<1>7. CASE UpdateListFails
  BY <1>7 DEF UpdateListFails, TypeOK
<1>8. ASSUME NEW c \in Containers, WriteBegin(c) PROVE TypeOK'
  BY <1>8 DEF WriteBegin, TypeOK
<1>9. CASE WriteEnd
  <2>1. snap' \in Versions /\ cache' \in Versions
    BY <1>9 DEF WriteEnd, TypeOK, Versions
  <2> QED
    BY <1>9, <2>1 DEF WriteEnd, TypeOK
<1>10. CASE UpdateDone
  BY <1>10 DEF UpdateDone, TypeOK
<1> QED
  BY <1>1, <1>2, <1>3, <1>4, <1>5, <1>6, <1>7, <1>8, <1>9, <1>10 DEF Refresh

\* The locals of a call, forgotten, are of their types.
LEMMA TypeForget ==
  ASSUME TypeOK, NEW r \in Readers, Forget(r)
  PROVE  /\ listed' \in [Readers -> SUBSET Containers]
         /\ got' \in [Readers -> Versions]
         /\ floor' \in [Readers -> Versions]
         /\ base' \in [Readers -> Versions]
  BY NothingType DEF Forget, TypeOK

\* The steps of a call keep TypeOK.
LEMMA TypeCall ==
  ASSUME TypeOK, NEW r \in Readers,
         Call(r) \/ Answer(r) \/ ReadLock(r) \/ Copy(r) \/ Read(r)
  PROVE  TypeOK'
<1> USE Parties DEF podman, updater, reader
<1>1. CASE Call(r)
  BY <1>1 DEF Call, TypeOK
<1>2. CASE List(r)
  <2>1. Live \subseteq Containers
    BY DEF Live
  <2> QED
    BY <1>2, <2>1 DEF List, TypeOK
<1>3. CASE ListFails(r)
  BY <1>3, TypeForget DEF ListFails, TypeOK
<1>4. CASE ReadLock(r)
  BY <1>4 DEF ReadLock, Lockable, TypeOK
<1>5. CASE Copy(r)
  <2>1. CASE cacheErr
    BY <1>5, <2>1, TypeForget DEF Copy, TypeOK
  <2>2. CASE ~cacheErr
    BY <1>5, <2>2 DEF Copy, TypeOK
  <2> QED
    BY <2>1, <2>2
<1>6. ASSUME NEW c \in Containers, Lookup(r, c) PROVE TypeOK'
  <2>1. PICK v \in {cache[c]} \cup (IF writing = c THEN {snap[c]} ELSE {}) :
          got' = [got EXCEPT ![r][c] = v]
    BY <1>6 DEF Lookup
  <2>2. v \in 0..MaxVer
    BY <2>1 DEF TypeOK, Versions
  <2>3. [got[r] EXCEPT ![c] = v] \in Versions
    BY <2>2 DEF TypeOK, Versions
  <2>4. got' \in [Readers -> Versions]
    BY <2>1, <2>3 DEF TypeOK
  <2> QED
    BY <1>6, <2>4 DEF Lookup, TypeOK
<1>7. CASE LookupFatal(r)
  BY <1>7 DEF LookupFatal, TypeOK
<1>8. CASE Return(r)
  <2>1. seen' \in Versions
    BY <1>8 DEF Return, TypeOK, Versions
  <2> QED
    BY <1>8, <2>1, TypeForget DEF Return, TypeOK
<1> QED
  BY <1>1, <1>2, <1>3, <1>4, <1>5, <1>6, <1>7, <1>8 DEF Answer, Read

\* Every step keeps TypeOK.
LEMMA TypeNext == TypeOK /\ [Next]_vars => TypeOK'
<1> SUFFICES ASSUME TypeOK, [Next]_vars PROVE TypeOK'
  OBVIOUS
<1>1. CASE UNCHANGED vars
  BY <1>1 DEF vars, podman, updater, reader, TypeOK
<1> QED
  BY <1>1, TypeRefresh, TypeCall DEF Next

\* Every variable of every reachable state has its type, and cacheLock is held
\* by who is between its Lock and its Unlock and by nobody else: it excludes,
\* although it is held over a call to podman (pdcs/container.go:250-276).
THEOREM SizesTypeCorrect == Spec => []TypeOK
<1>1. Init => TypeOK
  BY TypeInit
<1>2. TypeOK /\ [Next]_vars => TypeOK'
  BY TypeNext
<1> QED
  BY <1>1, <1>2, PTL DEF Spec

-----------------------------------------------------------------------------
(* Fresh sizes that do not go back                                           *)

\* Versions are integers.
LEMMA VersionInts ==
  ASSUME TypeOK, NEW c \in Containers
  PROVE  /\ ver[c] \in Nat /\ cache[c] \in Nat /\ snap[c] \in Nat /\ seen[c] \in Nat
         /\ Newest(c) \in Nat
         /\ \A r \in Readers : got[r][c] \in Nat /\ floor[r][c] \in Nat /\ base[r][c] \in Nat
<1> USE Parties DEF Versions
<1>1. ver[c] \in Nat /\ cache[c] \in Nat /\ snap[c] \in Nat /\ seen[c] \in Nat
  BY DEF TypeOK
<1>2. ASSUME NEW r \in Readers
      PROVE  got[r][c] \in Nat /\ floor[r][c] \in Nat /\ base[r][c] \in Nat
  <2>1. got[r] \in Versions /\ floor[r] \in Versions /\ base[r] \in Versions
    BY DEF TypeOK
  <2> QED
    BY <2>1
<1> QED
  BY <1>1, <1>2 DEF Newest

\* What a lookup may yield is a size the container has had, and not older than
\* the map's.
LEMMA NewestBounds ==
  ASSUME TypeOK, WriteOwned, Bounded, NEW c \in Containers
  PROVE  cache[c] <= Newest(c) /\ Newest(c) <= ver[c]
<1>1. writing = c => snap[c] > 0
  BY Parties DEF WriteOwned
<1> QED
  BY <1>1, VersionInts DEF Bounded, Newest

\* The initial state satisfies the inductive invariant.
LEMMA InvInit == Init => IInv
<1> SUFFICES ASSUME Init PROVE IInv
  OBVIOUS
<1>1. \A c \in Containers : ver[c] \in Nat /\ cache[c] = 0 /\ snap[c] = 0 /\ seen[c] = 0
                            /\ Newest(c) = 0
  BY NothingType, Parties DEF Init, Newest
<1>2. \A c \in Containers, r \in Readers : got[r][c] = 0 /\ base[r][c] = 0
  BY NothingType DEF Init
<1>3. Bounded
  BY <1>1 DEF Bounded
<1>4. SeenBounded
  BY <1>1, <1>2 DEF SeenBounded
<1>5. WriteOwned /\ FloorHeld
  BY DEF Init, WriteOwned, FloorHeld
<1> QED
  BY <1>3, <1>4, <1>5, TypeInit DEF IInv

\* podman's steps keep the invariant: sizes only grow.
LEMMA InvPodman ==
  ASSUME IInv, TypeOK', NEW c \in Containers, Grow(c) \/ Delete(c)
  PROVE  IInv'
<1> USE DEF IInv, podman, updater, reader
<1>1. /\ UNCHANGED <<cache, snap, writing, upc, seen, got, base, rpc, floor, listed, todo>>
      /\ \A d \in Containers : ver'[d] \in Nat /\ ver[d] <= ver'[d]
  <2>1. CASE Grow(c)
    BY <2>1, VersionInts DEF Grow, TypeOK
  <2>2. CASE Delete(c)
    BY <2>2, VersionInts DEF Delete, TypeOK
  <2> QED
    BY <2>1, <2>2
<1>2. Bounded'
  BY <1>1, VersionInts DEF Bounded
<1>3. WriteOwned' /\ SeenBounded' /\ FloorHeld'
  BY <1>1 DEF WriteOwned, SeenBounded, FloorHeld, Newest
<1> QED
  BY <1>2, <1>3

\* a step of the refresh that neither lists nor writes
LEMMA InvIdle ==
  ASSUME IInv, TypeOK', UNCHANGED <<ver, cache, snap, writing, reader>>,
         writing = None \/ upc' = upc
  PROVE  IInv'
<1> USE DEF IInv, reader
<1>1. WriteOwned'
  BY DEF WriteOwned
<1>2. Bounded' /\ SeenBounded' /\ FloorHeld'
  BY DEF Bounded, SeenBounded, FloorHeld, Newest
<1> QED
  BY <1>1, <1>2

\* The steps of the refresh keep the invariant.
LEMMA InvRefresh ==
  ASSUME IInv, TypeOK', Tick \/ Refresh
  PROVE  IInv'
<1> USE DEF podman, updater, reader
<1>0. TypeOK /\ WriteOwned /\ Bounded /\ SeenBounded /\ FloorHeld
  BY DEF IInv
<1>1. CASE Tick
  BY <1>1, InvIdle DEF Tick
<1>2. CASE TakeTick
  <2>1. writing = None
    BY <1>0, <1>2 DEF TakeTick, WriteOwned
  <2> QED
    BY <1>2, <2>1, InvIdle DEF TakeTick
<1>3. CASE UpdateLock
  <2>1. writing = None
    BY <1>0, <1>3 DEF UpdateLock, WriteOwned
  <2> QED
    BY <1>3, <2>1, InvIdle DEF UpdateLock
<1>4. CASE UpdateListFails
  <2>1. writing = None
    BY <1>0, <1>4 DEF UpdateListFails, WriteOwned
  <2> QED
    BY <1>4, <2>1, InvIdle DEF UpdateListFails
<1>5. CASE UpdateDone
  BY <1>5, InvIdle DEF UpdateDone
<1>6. CASE UpdateList
  <2>1. writing = None
    BY <1>0, <1>6 DEF UpdateList, WriteOwned
  <2>2. UNCHANGED <<ver, cache, writing, reader>>
    BY <1>6 DEF UpdateList
  <2>3. \A c \in Containers : snap'[c] = ver[c] \/ snap'[c] = 0
    BY <1>6 DEF UpdateList
  <2>4. Bounded'
    BY <1>0, <2>2, <2>3, VersionInts DEF Bounded
  <2>5. WriteOwned' /\ SeenBounded' /\ FloorHeld'
    BY <1>0, <2>1, <2>2, Parties DEF WriteOwned, SeenBounded, FloorHeld, Newest
  <2> QED
    BY <2>4, <2>5 DEF IInv
<1>7. ASSUME NEW c \in Containers, WriteBegin(c) PROVE IInv'
  <2>1. /\ UNCHANGED <<ver, cache, snap, upc, reader>> /\ upc = "write"
        /\ writing = None /\ writing' = c /\ snap[c] > 0
    BY <1>7 DEF WriteBegin
  <2>2. WriteOwned' /\ Bounded' /\ FloorHeld'
    BY <1>0, <2>1 DEF WriteOwned, Bounded, FloorHeld
  <2>3. \A d \in Containers : Newest(d) <= Newest(d)'
    BY <1>0, <2>1, VersionInts, Parties DEF Bounded, Newest
  <2>4. SeenBounded'
    <3>1. \A d \in Containers : Newest(d) \in Nat /\ Newest(d)' \in Nat
      BY <1>0, <2>1, VersionInts, Parties DEF Newest
    <3> QED
      BY <1>0, <2>1, <2>3, <3>1, VersionInts DEF SeenBounded
  <2> QED
    BY <2>2, <2>4 DEF IInv
<1>8. CASE WriteEnd
  <2>1. /\ UNCHANGED <<ver, upc, reader>> /\ writing \in Containers /\ writing' = None
        /\ \A d \in Containers : cache'[d] = (IF d = writing THEN snap[d] ELSE cache[d])
                                 /\ snap'[d] = (IF d = writing THEN 0 ELSE snap[d])
    BY <1>0, <1>8 DEF WriteEnd, TypeOK, Versions
  <2>2. snap[writing] > 0
    BY <1>0, <2>1, Parties DEF WriteOwned
  <2>3. \A d \in Containers : cache[d] <= cache'[d] /\ Newest(d)' = Newest(d)
    BY <1>0, <2>1, <2>2, VersionInts, Parties DEF Bounded, Newest
  <2>4. WriteOwned' /\ Bounded'
    BY <1>0, <2>1, VersionInts DEF WriteOwned, Bounded
  <2>5. SeenBounded'
    BY <1>0, <2>1, <2>3 DEF SeenBounded
  <2>6. FloorHeld'
    <3>1. \A d \in Containers : cache'[d] \in Nat
      BY <1>0, <2>1, VersionInts
    <3> QED
      BY <1>0, <2>1, <2>3, <3>1, VersionInts DEF FloorHeld
  <2> QED
    BY <2>4, <2>5, <2>6 DEF IInv
<1> QED
  BY <1>1, <1>2, <1>3, <1>4, <1>5, <1>6, <1>7, <1>8 DEF Refresh

\* what a step of a call has to keep when the cache does not move
LEMMA InvReader ==
  ASSUME IInv, TypeOK', UNCHANGED <<ver, cache, snap, writing, upc>>, SeenBounded', FloorHeld'
  PROVE  IInv'
  BY DEF IInv, WriteOwned, Bounded

\* A call that ends forgets what it has seen, and the other calls keep theirs.
LEMMA InvForget ==
  ASSUME IInv, TypeOK', NEW r \in Readers, Forget(r), rpc' = [rpc EXCEPT ![r] = "idle"],
         UNCHANGED <<ver, cache, snap, writing, upc, todo>>,
         \A c \in Containers : seen'[c] = seen[c] \/ seen'[c] = got[r][c]
  PROVE  IInv'
<1>0. TypeOK /\ SeenBounded /\ FloorHeld
  BY DEF IInv
<1>1. \A t \in Readers :
        IF t = r THEN got'[t] = Nothing /\ base'[t] = Nothing
        ELSE /\ got'[t] = got[t] /\ base'[t] = base[t] /\ floor'[t] = floor[t]
             /\ listed'[t] = listed[t] /\ rpc'[t] = rpc[t]
  BY <1>0 DEF Forget, TypeOK
<1>2. SeenBounded'
  BY <1>0, <1>1, NothingType, VersionInts DEF SeenBounded, Newest
<1>3. rpc'[r] = "idle"
  BY <1>0 DEF TypeOK
<1>4. FloorHeld'
  BY <1>0, <1>1, <1>3 DEF FloorHeld
<1> QED
  BY <1>2, <1>4, InvReader

\* The steps of a call keep the invariant.
LEMMA InvCall ==
  ASSUME IInv, TypeOK', NEW r \in Readers,
         Call(r) \/ Answer(r) \/ ReadLock(r) \/ Copy(r) \/ Read(r)
  PROVE  IInv'
<1> USE DEF podman, updater, reader
<1>0. TypeOK /\ WriteOwned /\ Bounded /\ SeenBounded /\ FloorHeld
  BY DEF IInv
<1>1. CASE Call(r)
  <2>1. /\ UNCHANGED <<ver, cache, snap, writing, upc, got, seen, floor, listed, todo>>
        /\ \A t \in Readers : IF t = r THEN base'[t] = seen /\ rpc'[t] = "list"
                              ELSE base'[t] = base[t] /\ rpc'[t] = rpc[t]
    BY <1>0, <1>1 DEF Call, TypeOK
  <2>2. SeenBounded' /\ FloorHeld'
    BY <1>0, <2>1 DEF SeenBounded, FloorHeld, Newest
  <2> QED
    BY <2>1, <2>2, InvReader
<1>2. CASE List(r)
  <2>1. /\ UNCHANGED <<ver, cache, snap, writing, upc, got, seen, floor, base, todo>>
        /\ \A t \in Readers : IF t = r THEN rpc'[t] = "lock"
                              ELSE rpc'[t] = rpc[t] /\ listed'[t] = listed[t]
    BY <1>0, <1>2 DEF List, TypeOK
  <2>2. SeenBounded' /\ FloorHeld'
    BY <1>0, <2>1 DEF SeenBounded, FloorHeld, Newest
  <2> QED
    BY <2>1, <2>2, InvReader
<1>3. CASE ListFails(r)
  BY <1>3, InvForget DEF ListFails
<1>4. CASE ReadLock(r)
  <2>1. /\ UNCHANGED <<ver, cache, snap, writing, upc, got, seen, floor, base, todo, listed>>
        /\ \A t \in Readers : IF t = r THEN rpc'[t] = "copy" ELSE rpc'[t] = rpc[t]
    BY <1>0, <1>4 DEF ReadLock, TypeOK
  <2>2. SeenBounded' /\ FloorHeld'
    BY <1>0, <2>1 DEF SeenBounded, FloorHeld, Newest
  <2> QED
    BY <2>1, <2>2, InvReader
<1>5. CASE Copy(r)
  <2>1. CASE cacheErr
    BY <1>5, <2>1, InvForget DEF Copy
  <2>2. CASE ~cacheErr
    <3>1. /\ UNCHANGED <<ver, cache, snap, writing, upc, got, seen, base, listed>>
          /\ \A t \in Readers :
               IF t = r THEN rpc'[t] = "read" /\ todo'[t] = listed[t] /\ floor'[t] = cache
               ELSE rpc'[t] = rpc[t] /\ todo'[t] = todo[t] /\ floor'[t] = floor[t]
      BY <1>0, <1>5, <2>2 DEF Copy, TypeOK
    <3>2. writing = None
      BY <1>0, <1>5, Parties DEF Copy, TypeOK, WriteOwned
    <3>3. SeenBounded'
      BY <1>0, <3>1 DEF SeenBounded, Newest
    <3>4. \A c \in Containers : base[r][c] <= cache[c] /\ cache[c] <= cache[c]
      BY <1>0, <3>2, Parties, VersionInts DEF SeenBounded, Newest
    <3>5. FloorHeld'
      BY <1>0, <3>1, <3>4 DEF FloorHeld
    <3> QED
      BY <3>1, <3>3, <3>5, InvReader
  <2> QED
    BY <2>1, <2>2
<1>6. ASSUME NEW c \in Containers, Lookup(r, c) PROVE IInv'
  <2>1. PICK v \in {cache[c]} \cup (IF writing = c THEN {snap[c]} ELSE {}) :
          got' = [got EXCEPT ![r][c] = v]
    BY <1>6 DEF Lookup
  <2>2. /\ UNCHANGED <<ver, cache, snap, writing, upc, seen, floor, base, listed, rpc>>
        /\ todo'[r] = todo[r] \ {c}
        /\ \A t \in Readers : t # r => todo'[t] = todo[t]
    BY <1>0, <1>6 DEF Lookup, TypeOK
  <2>3. /\ \A d \in Containers : got'[r][d] = IF d = c THEN v ELSE got[r][d]
        /\ \A t \in Readers : t # r => got'[t] = got[t]
    <3>1. got[r] \in Versions
      BY <1>0 DEF TypeOK
    <3> QED
      BY <1>0, <2>1, <3>1 DEF TypeOK, Versions
  <2>4. cache[c] <= v /\ v <= Newest(c) /\ v \in Nat
    <3>1. writing = c => snap[c] > 0
      BY <1>0, Parties DEF WriteOwned
    <3> QED
      BY <1>0, <2>1, <3>1, VersionInts DEF Bounded, Newest
  <2>5. SeenBounded'
    BY <1>0, <2>2, <2>3, <2>4 DEF SeenBounded, Newest
  <2>6. rpc[r] = "read" => floor[r][c] <= v
    BY <1>0, <2>4, VersionInts DEF FloorHeld
  <2>7. FloorHeld'
    BY <1>0, <2>2, <2>3, <2>6 DEF FloorHeld
  <2> QED
    BY <2>2, <2>5, <2>7, InvReader
<1>7. CASE LookupFatal(r)
  <2>1. UNCHANGED <<podman, cache, writing, updater, reader>>
    BY <1>7 DEF LookupFatal
  <2>2. SeenBounded' /\ FloorHeld'
    BY <1>0, <2>1 DEF SeenBounded, FloorHeld, Newest
  <2> QED
    BY <2>1, <2>2, InvReader
<1>8. CASE Return(r)
  BY <1>8, InvForget DEF Return
<1> QED
  BY <1>1, <1>2, <1>3, <1>4, <1>5, <1>6, <1>7, <1>8 DEF Answer, Read

\* Every step keeps the inductive invariant.
LEMMA InvNext == IInv /\ [Next]_vars => IInv'
<1> SUFFICES ASSUME IInv, [Next]_vars PROVE IInv'
  OBVIOUS
<1>1. TypeOK'
  BY TypeNext DEF IInv
<1>2. CASE UNCHANGED vars
  <2>1. WriteOwned' /\ Bounded'
    BY <1>2 DEF vars, podman, updater, reader, IInv, WriteOwned, Bounded
  <2>2. SeenBounded' /\ FloorHeld'
    BY <1>2 DEF vars, podman, updater, reader, IInv, SeenBounded, FloorHeld, Newest
  <2> QED
    BY <1>1, <2>1, <2>2 DEF IInv
<1> QED
  BY <1>1, <1>2, InvPodman, InvRefresh, InvCall DEF Next

\* What a call has looked up is a size the container has had, not older than the
\* last refresh that was over when the call held the lock, although the lookup
\* races with the next refresh (pdcs/container.go:104-110).
THEOREM SizesFresh == Spec => []FreshSizes
<1>1. Init => IInv
  BY InvInit
<1>2. IInv /\ [Next]_vars => IInv'
  BY InvNext
<1>3. IInv => FreshSizes
  <2> SUFFICES ASSUME IInv, NEW r \in Readers, rpc[r] = "read",
                      NEW c \in listed[r] \ todo[r]
               PROVE  floor[r][c] <= got[r][c] /\ got[r][c] <= ver[c]
    BY DEF FreshSizes
  <2>1. c \in Containers
    BY DEF IInv, TypeOK
  <2>2. floor[r][c] <= got[r][c] /\ got[r][c] <= Newest(c) /\ Newest(c) <= ver[c]
    BY <2>1, NewestBounds DEF IInv, FloorHeld, SeenBounded
  <2> QED
    BY <2>1, <2>2, VersionInts DEF IInv
<1> QED
  BY <1>1, <1>2, <1>3, PTL DEF Spec

\* Reported sizes do not go back from a call to one that begins after it ended,
\* even when the first saw an entry of a refresh that was not over.
THEOREM SizesMonotone == Spec => []MonotoneSizes
<1>1. Init => IInv
  BY InvInit
<1>2. IInv /\ [Next]_vars => IInv'
  BY InvNext
<1>3. IInv => MonotoneSizes
  <2> SUFFICES ASSUME IInv, NEW r \in Readers, rpc[r] = "read",
                      NEW c \in listed[r] \ todo[r]
               PROVE  base[r][c] <= got[r][c]
    BY DEF MonotoneSizes
  <2>1. c \in Containers
    BY DEF IInv, TypeOK
  <2>2. base[r][c] <= floor[r][c] /\ floor[r][c] <= got[r][c]
    BY <2>1 DEF IInv, FloorHeld
  <2> QED
    BY <2>1, <2>2, VersionInts DEF IInv
<1> QED
  BY <1>1, <1>2, <1>3, PTL DEF Spec
=============================================================================
