----------------------- MODULE ServiceLifecycleProofs -----------------------
(***************************************************************************)
(* Start and shutdown for every number of processes, builds and attempts   *)
(* at the lock: whoever is between lock() and the end of main() holds the  *)
(* lock, and only such a process has a cache open or owns the bus name.    *)
(***************************************************************************)
EXTENDS ServiceLifecycle, TLAPS

(* Where a process is inside the lock, and where it has all caches open. *)
Serving == {"read_versions", "clear", "register", "run", "destroy"} \union Writing
Inside == Serving \union {"open", "close"}
Places == Inside \union {"off", "lock", "exited", "crashed"}

CacheType ==
    cache \in [CacheNames -> [owner : Processes \union {Nobody},
                              versions : SUBSET (Nat \ {0})]]

Types ==
    /\ pc \in [Processes -> Places]
    /\ CacheType
    /\ name \in Processes \union {Nobody}
    /\ lock \in Processes \union {Nobody, Child}

(* The lock is held from lock() until the locals of main() are gone. *)
LockHeld == \A p \in Processes : pc[p] \in Inside => lock = p

(* A cache is open in a process that is inside. *)
OwnersInside ==
    \A p \in Processes, c \in CacheNames : cache[c].owner = p => pc[p] \in Inside

(* A process that serves or prepares to has all of them open. *)
AllOpen ==
    \A p \in Processes, c \in CacheNames : pc[p] \in Serving => cache[c].owner = p

(* The name is taken last and released first. *)
NameOwner == \A p \in Processes : name = p => pc[p] \in {"run", "crashed"}

IInv == Types /\ LockHeld /\ OwnersInside /\ AllOpen /\ NameOwner

(* Unless the cache version file was left wrong: it names the version of   *)
(* all entries when it is not empty; a process that has wiped the caches,  *)
(* or had no need to, finds only its own version in them, and once it has  *)
(* written the files, a version file that is its own or empty.             *)
Prepared == {"write_version", "write_cache", "register", "run", "destroy"}
Announced == {"register", "run", "destroy"}
Honest ==
    /\ \A p \in Processes : ~unwinding(p)
    /\ cache_version_file # 0 =>
          \A c \in CacheNames : cache[c].versions \subseteq {cache_version_file}
    /\ \A p \in Processes : pc[p] \in Prepared =>
          \A c \in CacheNames : cache[c].versions \subseteq {version(p)}
    /\ \A p \in Processes : pc[p] \in Announced =>
          cache_version_file \in {0, version(p)}
FilesHonest == forgotten = "no" => Honest

(* A process that runs is of some build. *)
BuildsKnown ==
    /\ pc \in [Processes -> Places]
    /\ build \in [Processes -> Builds \union {0}]
    /\ \A p \in Processes : Live(p) => build[p] \in Builds
-----------------------------------------------------------------------------
(* No process, no open cache. *)
LEMMA InitIInv == Init => IInv
  BY NobodyAssumption
  DEF Init, IInv, Types, LockHeld, OwnersInside, AllOpen, NameOwner, Places, Inside,
      Serving, Writing, CacheType

(* Steps that only move a process within what it has: the caches, the lock *)
(* and the name keep their owners.                                         *)
LEMMA MovePreserves ==
    ASSUME IInv, NEW p \in Processes, NEW step \in Places,
           pc' = [pc EXCEPT ![p] = step],
           pc[p] \in Inside, step \in Inside,
           step \in Serving => pc[p] \in Serving \/ opened(p) = CacheNames,
           pc[p] # "run",
           lock' = lock, name' = name, Types',
           \A c \in CacheNames : cache'[c].owner = cache[c].owner
    PROVE  IInv'
<1> USE DEF IInv
<1>1. LockHeld'
  BY DEF LockHeld, Types
<1>2. OwnersInside'
  BY DEF OwnersInside, Types
<1>3. AllOpen'
  BY DEF AllOpen, Types, opened
<1>4. NameOwner'
  <2>1. name # p
    <3>1. pc[p] # "crashed"
      BY DEF Inside, Serving, Writing
    <3>2. QED
      BY <3>1 DEF NameOwner
  <2>2. QED
    BY <2>1 DEF NameOwner, Types
<1>5. QED
  BY <1>1, <1>2, <1>3, <1>4

(* Steps of a process that stays where it is and keeps its caches. *)
LEMMA StayPreserves ==
    ASSUME IInv, pc' = pc, lock' = lock, name' = name, Types',
           \A c \in CacheNames : cache'[c].owner = cache[c].owner
    PROVE  IInv'
  BY DEF IInv, LockHeld, OwnersInside, AllOpen, NameOwner

(* A change of the owner of a cache keeps the types. *)
LEMMA OwnerOnly ==
    ASSUME IInv, NEW c, NEW q \in Processes \union {Nobody},
           cache' = [cache EXCEPT ![c].owner = q]
    PROVE  /\ CacheType'
           /\ \A d \in CacheNames : cache'[d].owner \in {cache[d].owner, q}
           /\ \A d \in CacheNames : d # c => cache'[d].owner = cache[d].owner
  BY DEF IInv, Types, CacheType
-----------------------------------------------------------------------------
(* The lock: no other process is inside when it is free. *)
LEMMA LockSteps ==
    ASSUME IInv, NEW p \in Processes, Start(p) \/ try_lock(p)
    PROVE  IInv'
<1> USE NobodyAssumption DEF IInv, Types, CacheType, Goto, End
<1>1. CASE Start(p)
  BY <1>1 DEF Start, LockHeld, OwnersInside, AllOpen, NameOwner, Places, Inside,
              Serving, Writing
<1>2. CASE try_lock(p)
  <2> USE <1>2 DEF try_lock
  <2>1. CASE lock = Nobody
    <3>1. \A q \in Processes : pc[q] \notin Inside
      BY <2>1 DEF LockHeld
    <3>2. PICK step \in {"open", "close"} : lock' = p /\ pc' = [pc EXCEPT ![p] = step]
      BY <2>1
    <3>3. cache' = cache /\ name' = name
      OBVIOUS
    <3>4. step \in Inside /\ step \in Places /\ step \notin Serving
      BY <3>2 DEF Places, Inside, Serving, Writing
    <3>5. Types'
      BY <3>2, <3>3, <3>4
    <3>6. LockHeld' /\ OwnersInside'
      BY <3>1, <3>2, <3>3, <3>4 DEF LockHeld, OwnersInside
    <3>7. AllOpen'
      BY <3>2, <3>3, <3>4 DEF AllOpen
    <3>8. NameOwner'
      <4>1. name # p
        BY DEF NameOwner
      <4>2. QED
        BY <3>2, <3>3, <4>1 DEF NameOwner
    <3>9. QED
      BY <3>5, <3>6, <3>7, <3>8
  <2>2. CASE lock # Nobody
    BY <2>2 DEF LockHeld, OwnersInside, AllOpen, NameOwner, Places, Inside, Serving,
                Writing
  <2>3. QED
    BY <2>1, <2>2
<1>3. QED
  BY <1>1, <1>2

(* Thumbnailer() opens the caches: it finds none that is another process's. *)
LEMMA OpenStep ==
    ASSUME IInv, NEW p \in Processes, open_caches(p)
    PROVE  IInv'
<1> DEFINE next == Caches[Cardinality(opened(p)) + 1]
<1> USE DEF IInv
<1>1. /\ pc[p] = "open" /\ pc[p] \in Inside /\ pc[p] \notin Serving
      /\ lock' = lock /\ name' = name
  BY DEF open_caches, Inside, Serving, Writing
<1>2. {"close", "read_versions"} \subseteq Inside \cap Places
      /\ "close" \notin Serving
  BY DEF Places, Inside, Serving, Writing
<1>3. CASE cache[next].owner = Nobody /\ cache' = [cache EXCEPT ![next].owner = p] /\ pc' = pc
  <2> HIDE DEF next
  <2>1. Types'
    BY <1>1, <1>3, OwnerOnly DEF Types
  <2>2. \A q \in Processes : q # p => pc[q] \notin Inside
    BY <1>1 DEF LockHeld
  <2>3. LockHeld' /\ NameOwner'
    BY <1>1, <1>3 DEF LockHeld, NameOwner
  <2>4. \A d \in CacheNames : cache'[d].owner \in {cache[d].owner, p}
    BY <1>3, OwnerOnly
  <2>5. OwnersInside'
    BY <1>1, <1>3, <2>4 DEF OwnersInside
  <2>6. AllOpen'
    <3>1. \A q \in Processes : pc[q] \notin Serving
      BY <1>1, <2>2 DEF Inside
    <3>2. QED
      BY <1>3, <3>1 DEF AllOpen
  <2>7. QED
    BY <2>1, <2>3, <2>5, <2>6
<1>4. CASE cache' = [cache EXCEPT ![next].versions = {}] /\ pc' = [pc EXCEPT ![p] = "close"]
  <2> HIDE DEF next
  <2>1. CacheType' /\ \A d \in CacheNames : cache'[d].owner = cache[d].owner
    BY <1>4 DEF Types, CacheType
  <2>2. Types'
    BY <1>1, <1>2, <1>4, <2>1 DEF Types
  <2>3. QED
    BY <1>1, <1>2, <1>4, <2>1, <2>2, MovePreserves
<1>5. CASE opened(p) = CacheNames /\ cache' = cache /\ pc' = [pc EXCEPT ![p] = "read_versions"]
  <2>1. Types'
    BY <1>1, <1>2, <1>5 DEF Types, CacheType
  <2>2. QED
    BY <1>1, <1>2, <1>5, <2>1, MovePreserves
<1>6. CASE cache' = cache /\ pc' = [pc EXCEPT ![p] = "close"]
  <2>1. Types'
    BY <1>1, <1>2, <1>6 DEF Types, CacheType
  <2>2. QED
    BY <1>1, <1>2, <1>6, <2>1, MovePreserves
<1>7. QED
  BY <1>3, <1>4, <1>5, <1>6 DEF open_caches, Goto

(* The upgrade of the caches: wiping them and writing the version files.   *)
LEMMA UpgradeSteps ==
    ASSUME IInv, NEW p \in Processes,
           read_versions(p) \/ clear(p) \/ write_version(p) \/ write_cache_version(p)
    PROVE  IInv'
<1> USE DEF IInv
<1>1. /\ pc[p] \in Serving /\ pc[p] \in Inside /\ pc[p] # "run"
      /\ lock' = lock /\ name' = name
  BY DEF read_versions, clear, write_version, write_cache_version, Inside, Serving, Writing
<1>2. Writing \union {"clear", "register", "close"} \subseteq Inside \cap Places
  BY DEF Places, Inside, Serving, Writing
<1>3. \/ cache' = cache
      \/ \E c : cache' = [cache EXCEPT ![c].versions = {}]
  BY DEF read_versions, clear, write_version, write_cache_version
<1>4. CacheType' /\ \A c \in CacheNames : cache'[c].owner = cache[c].owner
  <2>1. CASE cache' = cache
    BY <2>1 DEF Types, CacheType
  <2>2. ASSUME NEW c, cache' = [cache EXCEPT ![c].versions = {}]
        PROVE  CacheType' /\ \A d \in CacheNames : cache'[d].owner = cache[d].owner
    BY <2>2 DEF Types, CacheType
  <2>3. QED
    BY <1>3, <2>1, <2>2
<1>5. \/ pc' = pc
      \/ \E step \in Writing \union {"clear", "register", "close"} :
           pc' = [pc EXCEPT ![p] = step]
  BY DEF read_versions, clear, write_version, write_cache_version, Goto, Writing,
         after_reading, leave_versions, after_versions, after_first
<1>6. Types'
  BY <1>1, <1>2, <1>4, <1>5 DEF Types
<1>7. CASE pc' = pc
  BY <1>1, <1>4, <1>6, <1>7, StayPreserves
<1>8. ASSUME NEW step \in Writing \union {"clear", "register", "close"},
             pc' = [pc EXCEPT ![p] = step]
      PROVE  IInv'
  BY <1>1, <1>2, <1>4, <1>6, <1>8, MovePreserves
<1>9. QED
  BY <1>5, <1>7, <1>8
-----------------------------------------------------------------------------
(* No step moves a process without a build into the program. *)
LEMMA InitBuildsKnown == Init => BuildsKnown
  BY DEF Init, BuildsKnown, Places, Inside, Serving, Writing, Live

LEMMA NextBuildsKnown == BuildsKnown /\ [Next]_vars => BuildsKnown'
<1> SUFFICES ASSUME BuildsKnown, [Next]_vars PROVE BuildsKnown'
  OBVIOUS
<1> USE DEF BuildsKnown, Live
<1>1. CASE UNCHANGED vars
  BY <1>1 DEF vars
<1>2. CASE NameLost \/ ChildEnds
  BY <1>2 DEF NameLost, ChildEnds
<1>3. ASSUME NEW p \in Processes, Start(p)
      PROVE  BuildsKnown'
  BY <1>3 DEF Start, Goto, Places, Inside, Serving, Writing
<1>4. ASSUME NEW p \in Processes, NEW how \in {"exited", "crashed"}, End(p, how)
      PROVE  BuildsKnown'
  BY <1>4 DEF End, Goto, Places
<1>5. ASSUME NEW p \in Processes, Live(p), build' = build,
             pc' = pc \/ \E step \in Inside : pc' = [pc EXCEPT ![p] = step]
      PROVE  BuildsKnown'
  BY <1>5 DEF Places, Inside, Serving, Writing
<1>6. ASSUME NEW p \in Processes, try_lock(p) \/ close_caches(p) \/ Crash(p)
      PROVE  BuildsKnown'
  <2>1. Live(p)
    BY <1>6 DEF try_lock, close_caches, Crash
  <2>2. \/ End(p, "exited") \/ End(p, "crashed")
        \/ build' = build /\ pc' = pc
        \/ build' = build /\ \E step \in {"open", "close"} : pc' = [pc EXCEPT ![p] = step]
    BY <1>6 DEF try_lock, close_caches, Crash, Goto
  <2>3. {"open", "close"} \subseteq Inside
    BY DEF Inside
  <2>4. QED
    BY <1>4, <1>5, <2>1, <2>2, <2>3
<1>7. ASSUME NEW p \in Processes,
             \/ open_caches(p) \/ read_versions(p) \/ clear(p) \/ write_version(p)
             \/ write_cache_version(p) \/ register(p) \/ destroy(p) \/ store(p)
             \/ unregister(p)
      PROVE  BuildsKnown'
  <2>1. Live(p) /\ build' = build
    BY <1>7 DEF open_caches, read_versions, clear, write_version, write_cache_version,
                register, destroy, store, unregister
  <2>2. pc' = pc \/ \E step \in Inside : pc' = [pc EXCEPT ![p] = step]
    BY <1>7 DEF open_caches, read_versions, clear, write_version, write_cache_version,
                register, destroy, store, unregister, Goto, after_reading,
                leave_versions, after_versions, after_first, Inside, Serving, Writing
  <2>3. QED
    BY <1>5, <2>1, <2>2
<1>8. QED
  BY <1>1, <1>2, <1>3, <1>6, <1>7 DEF Next, Starting

-----------------------------------------------------------------------------
(* The name is taken by a process that is ready, and released before it    *)
(* gives anything up.                                                      *)
LEMMA NameSteps ==
    ASSUME IInv, NEW p \in Processes, register(p) \/ unregister(p)
    PROVE  IInv'
<1> USE NobodyAssumption DEF IInv
<1>1. /\ pc[p] \in Serving /\ pc[p] # "crashed"
      /\ lock' = lock /\ cache' = cache
  BY DEF register, unregister, Serving, Writing
<1>2. PICK step \in {"run", "destroy"} : pc' = [pc EXCEPT ![p] = step]
  BY DEF register, unregister, Goto
<1>3. step \in Serving /\ step \in Inside /\ step \in Places
  BY <1>2 DEF Places, Inside, Serving
<1>4. name' \in Processes \union {Nobody}
  BY DEF register, unregister, end_exec, Types
<1>5. Types' /\ LockHeld' /\ OwnersInside' /\ AllOpen'
  BY <1>1, <1>2, <1>3, <1>4 DEF Types, CacheType, LockHeld, OwnersInside, AllOpen, Inside
<1>6. NameOwner'
  <2>1. CASE name' = Nobody
    BY <2>1 DEF NameOwner
  <2>2. CASE name' = p /\ pc' = [pc EXCEPT ![p] = "run"]
    BY <2>2 DEF NameOwner, Types
  <2>3. CASE register(p) /\ name' = name /\ pc' = [pc EXCEPT ![p] = "destroy"]
    <3>1. name' = name /\ pc' = [pc EXCEPT ![p] = "destroy"] /\ pc[p] = "register"
      BY <2>3 DEF register
    <3>2. name # p
      BY <3>1 DEF NameOwner
    <3>3. QED
      BY <3>1, <3>2 DEF NameOwner, Types
  <2>4. QED
    BY <2>1, <2>2, <2>3 DEF register, unregister, end_exec, Goto
<1>7. QED
  BY <1>5, <1>6

(* What is stored changes no owner. *)
LEMMA StoreSteps ==
    ASSUME IInv, BuildsKnown, NEW p \in Processes, store(p) \/ destroy(p)
    PROVE  IInv'
<1> USE DEF IInv
<1>1. version(p) \in Nat \ {0}
  BY LifecycleAssumption DEF BuildsKnown, Live, store, destroy, version
<1>2. PICK c \in CacheNames :
        cache' = [cache EXCEPT ![c].versions = @ \union {version(p)}]
  BY DEF store, destroy, CacheNames
<1>3. CacheType' /\ \A d \in CacheNames : cache'[d].owner = cache[d].owner
  BY <1>1, <1>2 DEF Types, CacheType
<1>4. lock' = lock /\ name' = name
  BY DEF store, destroy
<1>5. CASE store(p)
  <2>1. pc' = pc
    BY <1>5 DEF store
  <2>2. QED
    BY <1>3, <1>4, <2>1, StayPreserves DEF Types
<1>6. CASE destroy(p)
  <2>1. pc[p] = "destroy" /\ pc' = [pc EXCEPT ![p] = "close"]
    BY <1>6 DEF destroy, Goto
  <2>2. /\ "destroy" \in Inside
        /\ "close" \in Inside /\ "close" \in Places /\ "close" \notin Serving
    BY DEF Places, Inside, Serving, Writing
  <2>3. Types'
    BY <1>3, <1>4, <2>1, <2>2 DEF Types
  <2>4. QED
    BY <1>3, <1>4, <2>1, <2>2, <2>3, MovePreserves
<1>7. QED
  BY <1>5, <1>6

(* The end: the caches are given up one by one, and then the lock. *)
LEMMA CloseStep ==
    ASSUME IInv, NEW p \in Processes, close_caches(p)
    PROVE  IInv'
<1> DEFINE last == Caches[Cardinality(opened(p))]
<1> USE NobodyAssumption DEF IInv
<1>1. /\ pc[p] = "close" /\ pc[p] \in Inside /\ pc[p] \notin Serving
      /\ "exited" \in Places /\ "exited" \notin Inside /\ "exited" \notin Serving
  BY DEF close_caches, Places, Inside, Serving, Writing
<1>2. lock = p /\ name # p
  BY <1>1 DEF LockHeld, NameOwner
<1>3. \A q \in Processes : q # p => pc[q] \notin Inside
  BY <1>2 DEF LockHeld
<1>4. \A q \in Processes : pc[q] \notin Serving
  BY <1>1, <1>3 DEF Inside
<1>5. CASE opened(p) # {}
  <2>1. /\ cache' = [cache EXCEPT ![last].owner = Nobody]
        /\ lock' = lock /\ pc' = pc /\ name' = name
    BY <1>5 DEF close_caches, lock_while_closing
  <2> HIDE DEF last
  <2>2. CacheType' /\ \A d \in CacheNames : cache'[d].owner \in {cache[d].owner, Nobody}
    BY <2>1, OwnerOnly
  <2>3. Types' /\ LockHeld' /\ NameOwner'
    BY <2>1, <2>2 DEF Types, LockHeld, NameOwner
  <2>4. OwnersInside'
    BY <2>1, <2>2 DEF OwnersInside
  <2>5. AllOpen'
    BY <1>4, <2>1 DEF AllOpen
  <2>6. QED
    BY <2>3, <2>4, <2>5
<1>6. CASE opened(p) = {}
  <2>1. /\ lock' = Nobody /\ name' = name /\ cache' = cache
        /\ pc' = [pc EXCEPT ![p] = "exited"]
    BY <1>2, <1>6 DEF close_caches, End, Goto
  <2>2. \A c \in CacheNames : cache[c].owner # p
    BY <1>6 DEF opened
  <2>3. Types'
    BY <1>1, <2>1 DEF Types, CacheType
  <2>4. LockHeld' /\ OwnersInside' /\ AllOpen'
    BY <1>1, <1>3, <1>4, <2>1, <2>2 DEF Types, LockHeld, OwnersInside, AllOpen
  <2>5. NameOwner'
    BY <1>2, <2>1 DEF Types, NameOwner
  <2>6. QED
    BY <2>3, <2>4, <2>5
<1>7. QED
  BY <1>5, <1>6

(* A crash: the lock is free, or a child that nobody waits for has it. *)
LEMMA CrashSteps ==
    ASSUME IInv, NEW p \in Processes, Crash(p)
    PROVE  IInv'
<1> USE NobodyAssumption DEF IInv
<1>1. /\ pc' = [pc EXCEPT ![p] = "crashed"] /\ name' = name
      /\ lock' \in IF lock = p THEN {Nobody, Child} ELSE {lock}
  BY DEF Crash, End, Goto, lock_after_crash
<1>2. /\ "crashed" \in Places /\ "crashed" \notin Inside /\ "crashed" \notin Serving
  BY DEF Places, Inside, Serving, Writing
<1>3. CacheType'
  BY DEF Crash, Types, CacheType
<1>4. \A c \in CacheNames :
        cache'[c].owner = IF cache[c].owner = p THEN Nobody ELSE cache[c].owner
  BY DEF Crash, Types, CacheType
<1>5. Types'
  BY <1>1, <1>2, <1>3 DEF Types
<1>6. LockHeld'
  BY <1>1, <1>2 DEF Types, LockHeld
<1>7. OwnersInside'
  BY <1>1, <1>2, <1>4 DEF Types, OwnersInside
<1>8. AllOpen'
  BY <1>1, <1>2, <1>4 DEF Types, AllOpen
<1>9. NameOwner'
  BY <1>1 DEF Types, NameOwner
<1>10. QED
  BY <1>5, <1>6, <1>7, <1>8, <1>9

LEMMA NextIInv == IInv /\ BuildsKnown /\ [Next]_vars => IInv'
<1> SUFFICES ASSUME IInv, BuildsKnown, [Next]_vars PROVE IInv'
  OBVIOUS
<1>1. CASE UNCHANGED vars
  BY <1>1 DEF vars, IInv, Types, CacheType, LockHeld, OwnersInside, AllOpen, NameOwner
<1>2. CASE NameLost \/ ChildEnds
  BY <1>2, NobodyAssumption
  DEF NameLost, ChildEnds, IInv, Types, CacheType, LockHeld, OwnersInside, AllOpen, NameOwner
<1>3. QED
  BY <1>1, <1>2, LockSteps, OpenStep, UpgradeSteps, NameSteps, StoreSteps, CloseStep,
     CrashSteps
  DEF Next, Starting

(* A process inside finds nothing of others in its way; who has the name   *)
(* has everything.                                                         *)
LEMMA IInvImplies == IInv => NameMeansReady /\ CachesUncontended
<1> SUFFICES ASSUME IInv PROVE NameMeansReady /\ CachesUncontended
  OBVIOUS
<1> USE DEF IInv
<1>1. NameMeansReady
  <2> SUFFICES ASSUME NEW p \in Processes, name = p, pc[p] # "crashed"
               PROVE  pc[p] = "run" /\ lock = p /\ opened(p) = CacheNames
    BY DEF NameMeansReady
  <2>1. pc[p] = "run"
    BY DEF NameOwner
  <2>2. pc[p] \in Serving /\ pc[p] \in Inside
    BY <2>1 DEF Serving, Inside
  <2>3. QED
    BY <2>1, <2>2 DEF LockHeld, AllOpen, opened
<1>2. CachesUncontended
  <2> SUFFICES ASSUME NEW p \in Processes, pc[p] = "open", NEW c \in CacheNames
               PROVE  cache[c].owner \in {p, Nobody}
    BY DEF CachesUncontended
  <2>1. lock = p
    BY DEF LockHeld, Inside
  <2>2. cache[c].owner \in Processes \union {Nobody}
    BY DEF Types, CacheType
  <2>3. QED
    BY <2>1, <2>2 DEF OwnersInside, LockHeld
<1>3. QED
  BY <1>1, <1>2
-----------------------------------------------------------------------------
(* What is left of TypeOK: the attempts and the files. *)
FilesAndTries ==
    /\ tries \in [Processes -> 1..LockTries]
    /\ version_file \in Nat /\ cache_version_file \in Nat
    /\ forgotten \in {"no", "yes"}

LEMMA InitFilesAndTries == Init => FilesAndTries
  BY LifecycleAssumption DEF Init, FilesAndTries

LEMMA NextFilesAndTries == FilesAndTries /\ BuildsKnown /\ [Next]_vars => FilesAndTries'
<1> SUFFICES ASSUME FilesAndTries, BuildsKnown, [Next]_vars PROVE FilesAndTries'
  OBVIOUS
<1> USE LifecycleAssumption DEF FilesAndTries, disk
<1>1. CASE UNCHANGED vars
  BY <1>1 DEF vars
<1>2. CASE NameLost \/ ChildEnds
  BY <1>2 DEF NameLost, ChildEnds
<1>3. ASSUME NEW p \in Processes,
             \/ Start(p) \/ open_caches(p) \/ read_versions(p) \/ register(p)
             \/ store(p) \/ unregister(p) \/ destroy(p)
      PROVE  FilesAndTries'
  BY <1>3 DEF Start, open_caches, read_versions, register, store, unregister, destroy
<1>4. ASSUME NEW p \in Processes, try_lock(p)
      PROVE  FilesAndTries'
  BY <1>4 DEF try_lock, sleep, End
<1>5. ASSUME NEW p \in Processes, close_caches(p) \/ Crash(p)
      PROVE  FilesAndTries'
  BY <1>5 DEF close_caches, Crash, End
<1>6. ASSUME NEW p \in Processes, clear(p)
      PROVE  FilesAndTries'
  BY <1>6 DEF clear
<1>7. ASSUME NEW p \in Processes, write_version(p) \/ write_cache_version(p)
      PROVE  FilesAndTries'
  <2>1. build[p] \in Nat /\ version(p) \in Nat
    BY <1>7 DEF BuildsKnown, Live, write_version, write_cache_version, version
  <2>2. forgotten' \in {forgotten, "yes"} /\ tries' = tries
    BY <1>7 DEF write_version, write_cache_version, leave_versions
  <2>3. /\ version_file' \in {version_file, build[p], 0}
        /\ cache_version_file' \in {cache_version_file, version(p), 0}
    BY <1>7 DEF write_version, write_cache_version
  <2>4. QED
    BY <2>1, <2>2, <2>3
<1>8. QED
  BY <1>1, <1>2, <1>3, <1>4, <1>5, <1>6, <1>7 DEF Next, Starting

-----------------------------------------------------------------------------
(* Steps that write no version file and store nothing, of a process that   *)
(* is afterwards where it may find any entries.                            *)
LEMMA HonestElsewhere ==
    ASSUME IInv, FilesHonest, NEW p \in Processes, NEW step,
           step \notin Prepared \union {"unwind_version", "unwind_cache"},
           pc' = [pc EXCEPT ![p] = step], UNCHANGED disk,
           \A q \in Processes : q # p => build'[q] = build[q],
           \A c \in CacheNames : cache'[c].versions \subseteq cache[c].versions
    PROVE  FilesHonest'
<1> SUFFICES ASSUME forgotten' = "no" PROVE Honest'
  BY DEF FilesHonest
<1>1. Honest /\ pc \in [Processes -> Places] /\ cache_version_file' = cache_version_file
  BY DEF FilesHonest, disk, IInv, Types
<1>2. Announced \subseteq Prepared
  BY DEF Announced, Prepared
<1>3. \A q \in Processes : pc'[q] \in Prepared => q # p /\ pc'[q] = pc[q]
  BY <1>1
<1>4. \A q \in Processes : q # p => version(q)' = version(q)
  BY DEF version
<1>5. \A q \in Processes : ~unwinding(q)'
  BY <1>1 DEF Honest, unwinding
<1>6. \A c \in CacheNames : cache_version_file' # 0 =>
         cache'[c].versions \subseteq {cache_version_file'}
  BY <1>1 DEF Honest
<1>7. \A q \in Processes : pc'[q] \in Prepared =>
         \A c \in CacheNames : cache'[c].versions \subseteq {version(q)'}
  BY <1>1, <1>3, <1>4 DEF Honest
<1>8. \A q \in Processes : pc'[q] \in Announced => cache_version_file' \in {0, version(q)'}
  BY <1>1, <1>2, <1>3, <1>4 DEF Honest
<1>9. QED
  BY <1>5, <1>6, <1>7, <1>8 DEF Honest

(* Steps of the process inside the lock: nobody else is prepared, so only  *)
(* its own claims matter.                                                  *)
LEMMA HonestInside ==
    ASSUME IInv, NEW p \in Processes, pc[p] \in Inside, build' = build,
           \A q \in Processes \ {p} : pc'[q] = pc[q],
           ~unwinding(p)',
           cache_version_file' # 0 =>
              \A c \in CacheNames : cache'[c].versions \subseteq {cache_version_file'},
           pc'[p] \in Prepared => \A c \in CacheNames : cache'[c].versions \subseteq {version(p)},
           pc'[p] \in Announced => cache_version_file' \in {0, version(p)}
    PROVE  Honest'
<1>1. \A q \in Processes \ {p} : pc[q] \notin Inside
  BY DEF IInv, LockHeld
<1>2. Prepared \union {"unwind_version", "unwind_cache"} \subseteq Inside
        /\ Announced \subseteq Prepared
  BY DEF Prepared, Announced, Inside, Serving, Writing
<1>3. \A q \in Processes \ {p} : pc'[q] \notin Prepared \union {"unwind_version", "unwind_cache"}
  BY <1>1, <1>2
<1>4. \A q \in Processes : ~unwinding(q)'
  BY <1>3 DEF unwinding
<1>5. version(p)' = version(p)
  BY DEF version
<1>6. QED
  BY <1>2, <1>3, <1>4, <1>5 DEF Honest

(* Requests and ~Thumbnailer() store entries of one's own version. *)
LEMMA HonestStore ==
    ASSUME IInv, FilesHonest, NEW p \in Processes, store(p) \/ destroy(p)
    PROVE  FilesHonest'
<1> SUFFICES ASSUME forgotten' = "no" PROVE Honest'
  BY DEF FilesHonest
<1>1. /\ Honest /\ pc \in [Processes -> Places] /\ CacheType /\ build' = build
      /\ cache_version_file' = cache_version_file /\ pc[p] \in {"run", "destroy"}
  BY DEF FilesHonest, disk, IInv, Types, store, destroy
<1>2. PICK c \in CacheNames :
        cache' = [cache EXCEPT ![c].versions = @ \union {version(p)}]
  BY DEF store, destroy, CacheNames
<1>3. \A d \in CacheNames : cache'[d].versions \subseteq cache[d].versions \union {version(p)}
  BY <1>1, <1>2 DEF CacheType
<1>4. /\ \A d \in CacheNames : cache[d].versions \subseteq {version(p)}
      /\ cache_version_file \in {0, version(p)}
  BY <1>1 DEF Honest, Prepared, Announced
<1>5. \A d \in CacheNames : cache'[d].versions \subseteq {version(p)}
  BY <1>3, <1>4
<1>6. /\ pc'[p] \in {"run", "close"} /\ pc[p] \in Inside
      /\ \A q \in Processes \ {p} : pc'[q] = pc[q]
  BY <1>1 DEF store, destroy, Goto, Inside, Serving
<1>7. QED
  BY <1>1, <1>4, <1>5, <1>6, HonestInside DEF unwinding

(* What read_versions() decides rests on the version file. *)
LEMMA HonestUpgrade ==
    ASSUME IInv, BuildsKnown, FilesHonest, NEW p \in Processes, read_versions(p) \/ clear(p)
    PROVE  FilesHonest'
<1> SUFFICES ASSUME forgotten' = "no" PROVE Honest'
  BY DEF FilesHonest
<1>1. /\ pc[p] \in {"read_versions", "clear"} /\ build' = build
      /\ cache_version_file' = cache_version_file /\ forgotten = "no"
      /\ pc \in [Processes -> Places] /\ CacheType
  BY DEF read_versions, clear, disk, IInv, Types
<1>2. Honest /\ pc[p] \in Inside
  BY <1>1 DEF FilesHonest, Inside, Serving
<1>3. version(p) # 0
  BY <1>1, LifecycleAssumption DEF BuildsKnown, Live, version
<1>4. CASE read_versions(p)
  <2>1. /\ cache' = cache /\ pc' = [pc EXCEPT ![p] = after_reading(p)]
        /\ after_reading(p) \in {"clear", "write_version"}
        /\ after_reading(p) = "write_version" => cache_version_file = version(p)
    BY <1>4 DEF read_versions, Goto, after_reading
  <2>2. /\ pc'[p] = after_reading(p)
        /\ \A q \in Processes \ {p} : pc'[q] = pc[q]
    BY <1>1, <2>1
  <2>3. QED
    BY <1>1, <1>2, <1>3, <2>1, <2>2, HonestInside DEF Honest, unwinding, Prepared, Announced
<1>5. CASE clear(p)
  <2>1. \/ pc' = pc /\ \E c : cache' = [cache EXCEPT ![c].versions = {}]
        \/ /\ cache' = cache /\ pc' = [pc EXCEPT ![p] = "write_version"]
           /\ \A i \in 1..3 : cache[Caches[i]].versions \subseteq {version(p)}
    BY <1>5 DEF clear, Goto
  <2>2. pc[p] = "clear"
    BY <1>5 DEF clear
  <2>3. CASE pc' = pc /\ \E c : cache' = [cache EXCEPT ![c].versions = {}]
    <3>1. \A d \in CacheNames : cache'[d].versions \subseteq cache[d].versions
      BY <1>1, <2>3 DEF CacheType
    <3>2. ~unwinding(p)' /\ pc'[p] \notin Prepared /\ pc'[p] \notin Announced
      BY <2>2, <2>3 DEF unwinding, Prepared, Announced
    <3>3. cache_version_file' # 0 =>
             \A d \in CacheNames : cache'[d].versions \subseteq {cache_version_file'}
      BY <1>1, <1>2, <3>1 DEF Honest
    <3>4. QED
      BY <1>1, <1>2, <2>3, <3>2, <3>3, HonestInside
  <2>4. CASE /\ cache' = cache /\ pc' = [pc EXCEPT ![p] = "write_version"]
             /\ \A i \in 1..3 : cache[Caches[i]].versions \subseteq {version(p)}
    <3>1. \A c \in CacheNames : cache[c].versions \subseteq {version(p)}
      <4>1. \A c \in CacheNames : \E i \in 1..3 : c = Caches[i]
        <5>1. Caches[1] = "images" /\ Caches[2] = "thumbnails" /\ Caches[3] = "failures"
          BY DEF Caches
        <5>2. 1 \in 1..3 /\ 2 \in 1..3 /\ 3 \in 1..3
          OBVIOUS
        <5>3. QED
          BY <5>1, <5>2 DEF CacheNames
      <4>2. QED
        BY <2>4, <4>1
    <3>2. pc'[p] = "write_version" /\ \A q \in Processes \ {p} : pc'[q] = pc[q]
      BY <1>1, <2>4
    <3>3. QED
      BY <1>1, <1>2, <2>4, <3>1, <3>2, HonestInside DEF Honest, unwinding, Announced
  <2>5. QED
    BY <2>1, <2>3, <2>4
<1>6. QED
  BY <1>4, <1>5

(* ~Version() announces the version of a process that has wiped what was   *)
(* not its own; where it cannot, that is recorded.                         *)
LEMMA HonestWrites ==
    ASSUME IInv, FilesHonest, NEW p \in Processes, write_version(p) \/ write_cache_version(p)
    PROVE  FilesHonest'
<1> SUFFICES ASSUME forgotten' = "no" PROVE Honest'
  BY DEF FilesHonest
<1>1. /\ pc[p] \in Writing /\ build' = build /\ cache' = cache
      /\ pc \in [Processes -> Places] /\ forgotten = "no"
      /\ cache_version_file' \in {cache_version_file, 0, version(p)}
  BY DEF write_version, write_cache_version, leave_versions, Writing, IInv, Types
<1>2. Honest /\ pc[p] \in Inside /\ ~unwinding(p)
  BY <1>1 DEF FilesHonest, Honest, Inside, Serving
<1>3. pc[p] \in Prepared
  BY <1>1, <1>2 DEF Prepared, Writing, unwinding
<1>4. \A c \in CacheNames : cache'[c].versions \subseteq {version(p)}
  BY <1>1, <1>2, <1>3 DEF Honest
<1>5. /\ pc'[p] \in {"write_version", "write_cache", "register"}
      /\ pc'[p] = "register" => cache_version_file' \in {0, version(p)}
      /\ \A q \in Processes \ {p} : pc'[q] = pc[q]
  <2>1. CASE pc' = pc
    BY <1>1, <1>2, <2>1 DEF Writing, unwinding
  <2>2. CASE leave_versions(p) /\ cache_version_file' = cache_version_file
    <3>1. pc' = [pc EXCEPT ![p] = "register"] /\ cache_version_file \in {0, version(p)}
      BY <1>2, <2>2 DEF leave_versions, Goto, after_versions
    <3>2. QED
      BY <1>1, <2>2, <3>1
  <2>3. CASE pc' = [pc EXCEPT ![p] = "write_cache"]
    BY <1>1, <2>3
  <2>4. QED
    BY <1>2, <2>1, <2>2, <2>3 DEF write_version, write_cache_version, Goto, after_first
<1>6. cache_version_file' # 0 =>
         \A c \in CacheNames : cache'[c].versions \subseteq {cache_version_file'}
  BY <1>1, <1>2, <1>4 DEF Honest
<1>7. QED
  BY <1>1, <1>2, <1>4, <1>5, <1>6, HonestInside DEF unwinding, Announced

LEMMA NextFilesHonest == IInv /\ BuildsKnown /\ FilesHonest /\ [Next]_vars => FilesHonest'
<1> SUFFICES ASSUME IInv, BuildsKnown, FilesHonest, [Next]_vars PROVE FilesHonest'
  OBVIOUS
<1>1. CASE UNCHANGED <<pc, build, cache, disk>>
  BY <1>1 DEF FilesHonest, Honest, disk, unwinding, version
<1>2. ASSUME NEW p \in Processes, register(p) \/ unregister(p) PROVE FilesHonest'
  <2> SUFFICES ASSUME forgotten' = "no" PROVE Honest'
    BY DEF FilesHonest
  <2>1. /\ Honest /\ pc[p] \in Announced /\ pc[p] \in Prepared /\ pc[p] \in Inside
        /\ build' = build /\ cache' = cache /\ cache_version_file' = cache_version_file
    BY <1>2 DEF register, unregister, disk, FilesHonest, Announced, Prepared, Inside, Serving
  <2>2. pc'[p] \in {"run", "destroy"} /\ \A q \in Processes \ {p} : pc'[q] = pc[q]
    BY <1>2 DEF register, unregister, Goto, IInv, Types
  <2>3. QED
    BY <2>1, <2>2, HonestInside DEF Honest, unwinding
<1>3. ASSUME NEW p \in Processes, open_caches(p) PROVE FilesHonest'
  <2>1. \A c \in CacheNames : cache'[c].versions \subseteq cache[c].versions
    <3>1. \/ cache' = cache
          \/ \E c : cache' = [cache EXCEPT ![c].owner = p]
          \/ \E c : cache' = [cache EXCEPT ![c].versions = {}]
      BY <1>3 DEF open_caches
    <3>2. QED
      BY <3>1 DEF IInv, Types, CacheType
  <2>2. /\ pc \in [Processes -> Places] /\ pc[p] = "open" /\ build' = build /\ UNCHANGED disk
        /\ \/ pc' = pc
           \/ pc' = [pc EXCEPT ![p] = "read_versions"] \/ pc' = [pc EXCEPT ![p] = "close"]
    BY <1>3 DEF open_caches, Goto, IInv, Types
  <2>3. \E step \in {"open", "read_versions", "close"} : pc' = [pc EXCEPT ![p] = step]
    BY <2>2
  <2>4. QED
    BY <2>1, <2>2, <2>3, HonestElsewhere DEF Prepared
<1>4. ASSUME NEW p \in Processes, Start(p) \/ try_lock(p) PROVE FilesHonest'
  <2>1. /\ pc \in [Processes -> Places] /\ build \in [Processes -> Builds \union {0}]
        /\ cache' = cache /\ UNCHANGED disk
        /\ \A q \in Processes : q # p => build'[q] = build[q]
    BY <1>4 DEF Start, try_lock, End, IInv, Types, BuildsKnown
  <2>2. \E step \in {"lock", "open", "close", "exited"} : pc' = [pc EXCEPT ![p] = step]
    BY <1>4, <2>1 DEF Start, try_lock, End, Goto
  <2>3. QED
    BY <2>1, <2>2, HonestElsewhere DEF Prepared
<1>5. ASSUME NEW p \in Processes, close_caches(p) \/ Crash(p) PROVE FilesHonest'
  <2>1. /\ pc \in [Processes -> Places] /\ build \in [Processes -> Builds \union {0}]
        /\ UNCHANGED disk /\ \A q \in Processes : q # p => build'[q] = build[q]
    BY <1>5 DEF close_caches, Crash, End, IInv, Types, BuildsKnown
  <2>2. \E step \in {"close", "exited", "crashed"} : pc' = [pc EXCEPT ![p] = step]
    BY <1>5, <2>1 DEF close_caches, Crash, End, Goto
  <2>3. \A c \in CacheNames : cache'[c].versions = cache[c].versions
    <3>1. CASE Crash(p)
      BY <3>1 DEF Crash, IInv, Types, CacheType
    <3>2. CASE close_caches(p)
      <4>1. cache' = cache \/ \E c : cache' = [cache EXCEPT ![c].owner = Nobody]
        BY <3>2 DEF close_caches
      <4>2. QED
        BY <4>1 DEF IInv, Types, CacheType
    <3>3. QED
      BY <1>5, <3>1, <3>2
  <2>4. QED
    BY <2>1, <2>2, <2>3, HonestElsewhere DEF Prepared
<1>6. QED
  BY <1>1, <1>2, <1>3, <1>4, <1>5, HonestStore, HonestUpgrade, HonestWrites
  DEF Next, Starting, NameLost, ChildEnds, vars, disk

(* The invariants of the lock hold in every state. *)
LEMMA SpecIInv == Spec => [](IInv /\ BuildsKnown /\ FilesAndTries)
<1>1. Init => IInv /\ BuildsKnown /\ FilesAndTries
  BY InitIInv, InitBuildsKnown, InitFilesAndTries
<1>2. (IInv /\ BuildsKnown /\ FilesAndTries) /\ [Next]_vars
        => (IInv /\ BuildsKnown /\ FilesAndTries)'
  BY NextIInv, NextBuildsKnown, NextFilesAndTries
<1>3. QED
  BY <1>1, <1>2, PTL DEF Spec

(* Every process of main() is at one of its steps, with the attempts that  *)
(* it has left; the lock and the bus name have at most one owner each.     *)
THEOREM LifecycleTypes == Spec => []TypeOK
<1>1. IInv /\ BuildsKnown /\ FilesAndTries => TypeOK
  BY DEF IInv, Types, CacheType, BuildsKnown, FilesAndTries, TypeOK, Places, Inside, Serving
<1>2. QED
  BY <1>1, SpecIInv, PTL

(* main() registers the name when everything is ready and releases it as   *)
(* soon as it decides to shut down: whoever owns the bus name holds the    *)
(* lock and all caches, for every number of processes, builds and tries.   *)
THEOREM NameIsReady == Spec => []NameMeansReady
  BY SpecIInv, IInvImplies, PTL

(* The lock file does what main() takes it for: a process that opens its   *)
(* caches finds none that another process has open.                        *)
THEOREM NobodyContends == Spec => []CachesUncontended
  BY SpecIInv, IInvImplies, PTL

(* No service serves entries of another cache version, whatever crashed in *)
(* between, unless a wipe threw or a version file could not be opened:     *)
(* NoForeignEntries for any number of processes, builds and versions.      *)
THEOREM OnlyOwnEntries == Spec => []NoForeignEntries
<1>1. Init => FilesHonest
  BY DEF Init, FilesHonest, Honest, unwinding, Prepared, Announced
<1>2. FilesHonest => NoForeignEntries
  BY DEF FilesHonest, Honest, Prepared, NoForeignEntries
<1>3. QED
  BY <1>1, <1>2, SpecIInv, NextFilesHonest, PTL DEF Spec
=============================================================================
