-------------------------- MODULE ServiceLifecycle --------------------------
(***************************************************************************)
(* Start and shutdown of thumbnailer-service (src/service/main.cpp): the   *)
(* lock file (src/file_lock.cpp), the three caches that Thumbnailer() and  *)
(* ~Thumbnailer() open and close, the upgrade of the caches by             *)
(* apply_upgrade_actions() and Version (src/version.cpp), and the bus name.*)
(* Processes of different builds start, fail, crash and end next to each   *)
(* other; the caches and the version files outlive them.                   *)
(*                                                                         *)
(* The kernel closes the caches of a process that crashes, and frees its   *)
(* lock unless a vs-thumb that it started still has a copy of it; the bus  *)
(* daemon notices the crash later.                                         *)
(***************************************************************************)
EXTENDS Naturals, Sequences, FiniteSets

CONSTANTS
    Processes,      \* processes; each one is started once
    Builds,         \* release numbers, from 1
    cache_version,  \* cache_version[b]: THUMBNAILER_CACHE_VERSION of build b
    LockTries,      \* bound: 10000 ms in steps of sleep_interval
    MaxIdle         \* values of THUMBNAILER_MAX_IDLE; 0: it is not set

ASSUME LifecycleAssumption ==
    /\ LockTries \in Nat \ {0}
    /\ MaxIdle \subseteq Nat /\ MaxIdle # {}
    /\ Builds \subseteq Nat \ {0}
    /\ cache_version \in [Builds -> Nat \ {0}]

VARIABLES
    pc,         \* where each process is in main()
    build,      \* the build of each process, 0 while it does not run
    tries,      \* attempts at the lock that are left
    lock,       \* who holds thumbnailer-service.lock: a process or a Child
    name,       \* who owns the bus name
    cache,      \* cache[c]: who has it open, and the versions of its entries
    version_file, cache_version_file,   \* their contents; 0: missing or empty
    forgotten   \* history: the cache version file was left wrong, because
                \* a wipe threw or the file could not be opened
vars == <<pc, build, tries, lock, name, cache, version_file,
          cache_version_file, forgotten>>
disk == <<version_file, cache_version_file, forgotten>>

(* The caches in the order in which they are opened and cleared. *)
Caches == <<"images", "thumbnails", "failures">>
CacheNames == {"images", "thumbnails", "failures"}
Nobody == "nobody"
Child == "child"    \* a vs-thumb whose service is gone
ASSUME NobodyAssumption == Nobody \notin Processes /\ Child \notin Processes
opened(p) == {c \in CacheNames : cache[c].owner = p}
version(p) == cache_version[build[p]]
Live(p) == pc[p] \notin {"off", "exited", "crashed"}

Init ==
    /\ pc = [p \in Processes |-> "off"]
    /\ build = [p \in Processes |-> 0]
    /\ tries = [p \in Processes |-> LockTries]
    /\ lock = Nobody /\ name = Nobody
    /\ cache = [c \in CacheNames |-> [owner |-> Nobody, versions |-> {}]]
    /\ version_file = 0 /\ cache_version_file = 0 /\ forgotten = "no"

Goto(p, step) == pc' = [pc EXCEPT ![p] = step]

(* The process p is over, by its own doing or not. *)
End(p, how) ==
    /\ Goto(p, how)
    /\ build' = [build EXCEPT ![p] = 0]
    /\ tries' = [tries EXCEPT ![p] = LockTries]
-----------------------------------------------------------------------------
(* The bus activates the service, or a user starts it.  AdvisoryFileLock() *)
(* throws when the file cannot be opened.                                  *)
Start(p) ==
    /\ pc[p] = "off"
    /\ \/ /\ Goto(p, "lock")
          /\ \E b \in Builds : build' = [build EXCEPT ![p] = b]
       \/ Goto(p, "exited") /\ UNCHANGED build
    /\ UNCHANGED <<tries, lock, name, cache, disk>>

(* Mutant: the time that was slept is not counted. *)
sleep_Uncounted(p) == tries[p]

(* sleep_for(sleep_interval) *)
sleep(p) == tries[p] - 1

(* InactivityHandler() is made before the caches are opened and throws     *)
(* unless its time-out is long enough.                                     *)
inactivity_time_ok(value) == value = 0 \/ value >= 1000

(* AdvisoryFileLock::lock(): one turn of the loop.  When the time is over, *)
(* main() throws.                                                          *)
try_lock(p) ==
    /\ pc[p] = "lock"
    /\ \/ /\ lock = Nobody /\ lock' = p
          /\ \E value \in MaxIdle :
               Goto(p, IF inactivity_time_ok(value) THEN "open" ELSE "close")
          /\ UNCHANGED <<build, tries>>
       \/ /\ lock # Nobody /\ sleep(p) > 0
          /\ tries' = [tries EXCEPT ![p] = sleep(p)]
          /\ UNCHANGED <<pc, build, lock>>
       \/ /\ lock # Nobody /\ sleep(p) = 0
          /\ End(p, "exited")
          /\ UNCHANGED lock
    /\ UNCHANGED <<name, cache, disk>>

(* Thumbnailer(): the settings are read and the caches opened one after    *)
(* the other; one of another size is resized.  leveldb refuses a cache     *)
(* that is open already.  A corrupt one is wiped, but the constructor of   *)
(* CacheHelper throws all the same (module CacheHelper).  An invalid       *)
(* setting, a failure to open, or an unreadable backoff throws, too.       *)
open_caches(p) ==
    LET next == Caches[Cardinality(opened(p)) + 1]
    IN  /\ pc[p] = "open"
        /\ \/ /\ opened(p) # CacheNames /\ cache[next].owner = Nobody
              /\ cache' = [cache EXCEPT ![next].owner = p]
              /\ UNCHANGED pc
           \/ /\ opened(p) # CacheNames /\ cache[next].owner = Nobody
              /\ cache' = [cache EXCEPT ![next].versions = {}]
              /\ Goto(p, "close")
           \/ opened(p) = CacheNames /\ Goto(p, "read_versions") /\ UNCHANGED cache
           \/ Goto(p, "close") /\ UNCHANGED cache
        /\ UNCHANGED <<build, tries, lock, name, disk>>
-----------------------------------------------------------------------------
(* Mutant: the new versions are written, but nothing is wiped. *)
after_reading_NoWipe(p) == "write_version"

(* apply_upgrade_actions(): Version() reads the files.  A missing or empty *)
(* one counts as 0.                                                        *)
after_reading(p) ==
    IF cache_version_file # version(p) THEN "clear" ELSE "write_version"

read_versions(p) ==
    /\ pc[p] = "read_versions"
    /\ Goto(p, after_reading(p))
    /\ UNCHANGED <<build, tries, lock, name, cache, disk>>

(* clear(all): one cache after the other.  When one throws, the destructor *)
(* of Version runs all the same.                                           *)
clear(p) ==
    LET foreign == {i \in 1..3 : cache[Caches[i]].versions \ {version(p)} # {}}
    IN  /\ pc[p] = "clear"
        /\ \/ /\ foreign # {}
              /\ LET first == CHOOSE i \in foreign : \A j \in foreign : i <= j
                 IN  cache' = [cache EXCEPT ![Caches[first]].versions = {}]
              /\ UNCHANGED <<pc, forgotten>>
           \/ foreign = {} /\ Goto(p, "write_version") /\ UNCHANGED <<cache, forgotten>>
           \/ /\ foreign # {}
              /\ Goto(p, "unwind_version") /\ forgotten' = "yes"
              /\ UNCHANGED cache
        /\ UNCHANGED <<build, tries, lock, name, version_file, cache_version_file>>

(* ~Version(): each file that has to change is truncated and then written. *)
(* If the first cannot be opened, the second is not tried; a write that    *)
(* fails leaves an empty file.  Afterwards construction goes on, or the    *)
(* exception that is under way does.                                       *)
Writing == {"write_version", "unwind_version", "write_cache", "unwind_cache"}
unwinding(p) == pc[p] \in {"unwind_version", "unwind_cache"}
after_versions(p) == IF unwinding(p) THEN "close" ELSE "register"
after_first(p) == IF unwinding(p) THEN "unwind_cache" ELSE "write_cache"

leave_versions(p) ==
    /\ Goto(p, after_versions(p))
    /\ forgotten' = IF cache_version_file \in {0, version(p)} THEN forgotten ELSE "yes"

write_version(p) ==
    /\ pc[p] \in {"write_version", "unwind_version"}
    /\ \/ /\ version_file \in {0, build[p]}     \* up to date, or not written
          /\ Goto(p, after_first(p))
          /\ UNCHANGED <<version_file, forgotten>>
       \/ /\ version_file # build[p]            \* truncated, then written
          /\ version_file' \in IF version_file = 0 THEN {build[p]} ELSE {0}
          /\ UNCHANGED <<pc, forgotten>>
       \/ /\ version_file # build[p]            \* cannot be opened
          /\ leave_versions(p)
          /\ UNCHANGED version_file
    /\ UNCHANGED <<build, tries, lock, name, cache, cache_version_file>>

write_cache_version(p) ==
    /\ pc[p] \in {"write_cache", "unwind_cache"}
    /\ \/ /\ cache_version_file # version(p)     \* truncated, then written
          /\ cache_version_file' \in
                IF cache_version_file = 0 THEN {version(p)} ELSE {0}
          /\ UNCHANGED <<pc, forgotten>>
       \/ leave_versions(p) /\ UNCHANGED cache_version_file
    /\ UNCHANGED <<build, tries, lock, name, cache, version_file>>
-----------------------------------------------------------------------------
(* DBusInterface() may throw, and registerService() fails when the name is *)
(* taken or the bus does not answer.                                       *)
register(p) ==
    /\ pc[p] = "register"
    /\ \/ name = Nobody /\ name' = p /\ Goto(p, "run")
       \/ Goto(p, "destroy") /\ UNCHANGED name
    /\ UNCHANGED <<build, tries, lock, cache, disk>>

(* Requests store entries in the caches. *)
store(p) ==
    /\ pc[p] = "run"
    /\ \E c \in CacheNames :
         cache' = [cache EXCEPT ![c].versions = @ \union {version(p)}]
    /\ UNCHANGED <<pc, build, tries, lock, name, disk>>

(* Mutant: the bus name is kept until the process is gone. *)
end_exec_KeepName(p) == name

(* app.exec() returns: the name is released first. *)
end_exec(p) == Nobody

unregister(p) ==
    /\ pc[p] = "run"
    /\ name' = end_exec(p)
    /\ Goto(p, "destroy")
    /\ UNCHANGED <<build, tries, lock, cache, disk>>

(* ~Thumbnailer() stores the backoff. *)
destroy(p) ==
    /\ pc[p] = "destroy"
    /\ cache' = [cache EXCEPT !["failures"].versions = @ \union {version(p)}]
    /\ Goto(p, "close")
    /\ UNCHANGED <<build, tries, lock, name, disk>>

(* Mutant: the lock is released before the caches are closed. *)
lock_while_closing_Early(p) == Nobody

(* The locals of main() and the members of Thumbnailer are destroyed in    *)
(* reverse order: the lock is last.                                        *)
lock_while_closing(p) == lock

close_caches(p) ==
    /\ pc[p] = "close"
    /\ IF opened(p) # {}
       THEN /\ cache' = [cache EXCEPT ![Caches[Cardinality(opened(p))]].owner = Nobody]
            /\ lock' = lock_while_closing(p)
            /\ UNCHANGED <<pc, build, tries, name>>
       ELSE /\ lock' = IF lock = p THEN Nobody ELSE lock
            /\ name' = IF name = p THEN Nobody ELSE name
            /\ End(p, "exited") /\ UNCHANGED cache
    /\ UNCHANGED disk

(* The lock file is opened without O_CLOEXEC, so that a vs-thumb inherits  *)
(* it with the lock.  A service that ends by itself has killed its         *)
(* children; one that crashes leaves them behind.                          *)
lock_after_crash(p) ==
    IF lock # p THEN {lock}
    ELSE IF pc[p] \in {"run", "destroy"} THEN {Nobody, Child} ELSE {Nobody}

Crash(p) ==
    /\ Live(p)
    /\ End(p, "crashed")
    /\ lock' \in lock_after_crash(p)
    /\ cache' = [c \in CacheNames |->
                   IF cache[c].owner = p THEN [cache[c] EXCEPT !.owner = Nobody]
                   ELSE cache[c]]
    /\ UNCHANGED <<name, disk>>

(* The vs-thumb that was left behind ends. *)
ChildEnds ==
    /\ lock = Child
    /\ lock' = Nobody
    /\ UNCHANGED <<pc, build, tries, name, cache, disk>>

(* The bus daemon sees that the connection of the owner is closed. *)
NameLost ==
    /\ name # Nobody /\ pc[name] = "crashed"
    /\ name' = Nobody
    /\ UNCHANGED <<pc, build, tries, lock, cache, disk>>

Starting(p) ==
    \/ try_lock(p) \/ open_caches(p) \/ read_versions(p) \/ clear(p)
    \/ write_version(p) \/ write_cache_version(p) \/ register(p)
    \/ destroy(p) \/ close_caches(p)

Next ==
    \/ \E p \in Processes :
          Start(p) \/ Starting(p) \/ store(p) \/ unregister(p) \/ Crash(p)
    \/ NameLost \/ ChildEnds

Spec == Init /\ [][Next]_vars

(* Code that runs goes on; nothing is said of when a service is asked to   *)
(* end, of when a process is started, or whether a child that was left     *)
(* behind ever ends.                                                       *)
FairSpec == Spec /\ \A p \in Processes : WF_vars(Starting(p))
-----------------------------------------------------------------------------
TypeOK ==
    /\ pc \in [Processes -> {"off", "lock", "open", "read_versions", "clear",
                             "register", "run", "destroy", "close", "exited",
                             "crashed"} \union Writing]
    /\ build \in [Processes -> Builds \union {0}]
    /\ tries \in [Processes -> 1..LockTries]
    /\ lock \in Processes \union {Nobody, Child}
    /\ name \in Processes \union {Nobody}
    /\ cache \in [CacheNames -> [owner : Processes \union {Nobody},
                                 versions : SUBSET (Nat \ {0})]]
    /\ version_file \in Nat /\ cache_version_file \in Nat
    /\ forgotten \in {"no", "yes"}

(* "Release the bus name as soon as we decide to shut down, otherwise DBus *)
(* may still send us requests that we are no longer able to process": who  *)
(* owns the name holds the lock and all caches, unless it has just crashed.*)
NameMeansReady ==
    \A p \in Processes : name = p /\ pc[p] # "crashed" =>
       pc[p] = "run" /\ lock = p /\ opened(p) = CacheNames

(* "That's to avoid a shutdown race where a new service instance starts up *)
(* while a previous instance is still shutting down, but the leveldb lock  *)
(* has not been released yet": a process that opens its caches never finds *)
(* one that another process has open.                                      *)
CachesUncontended ==
    \A p \in Processes : pc[p] = "open" =>
       \A c \in CacheNames : cache[c].owner \in {p, Nobody}

(* "Whenever the version changes, we wipe all three caches": no service    *)
(* serves entries that were made with another cache version, whatever      *)
(* crashed in between, except after a wipe that threw or a version file    *)
(* that could not be opened: what is then recorded misleads a later start. *)
NoForeignEntries ==
    \A p \in Processes : pc[p] = "run" /\ forgotten = "no" =>
       \A c \in CacheNames : cache[c].versions \subseteq {version(p)}

(* Every process that is started gets to serve or ends by itself, also     *)
(* when another one, or a child that a crash left behind, holds the lock   *)
(* for ever, and one that ends gets to its end: again and again no process *)
(* is on its way up or down.                                               *)
EveryStartSettles ==
    []<>(\A p \in Processes : pc[p] \in {"off", "run", "exited", "crashed"})
=============================================================================
