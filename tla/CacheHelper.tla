----------------------------- MODULE CacheHelper -----------------------------
(***************************************************************************)
(* CacheHelper (include/internal/cachehelper.h): calls of a cache that are *)
(* tried again after the cache was found corrupt, wiped and reopened.  The *)
(* threads of the pool share the object without a lock.                    *)
(*                                                                         *)
(* The cache object (core::PersistentStringCache) is external: it has the  *)
(* files open until it is destroyed, can be opened only when nobody has    *)
(* them open, and answers, reports corruption (code 666) or fails.  To use *)
(* a null pointer or a destroyed object is a crash.                        *)
(***************************************************************************)
EXTENDS Naturals, FiniteSets

CONSTANTS Threads, MaxObjects   \* bound: cache objects ever made
ASSUME ObjectsAssumption == MaxObjects \in Nat \ {0}

VARIABLES
    c,         \* c_: the current cache object, 0 when null
    alive,     \* the cache objects that were not destroyed
    made,      \* how many were made
    holder,    \* the object that has the files open, 0 if none
    files,     \* "good", "corrupt" or "removed"
    helper,    \* the CacheHelper itself: "none", "opening", "open", "failed"
    thread,    \* thread[t]: what it does
    shared,    \* history: a recovery ran next to another call
    broken     \* history: "crash", or a recovery that failed left c_ null
vars == <<c, alive, made, holder, files, helper, thread, shared, broken>>
store == <<c, alive, made, holder, files>>

Objects == 1..MaxObjects
Idle == [pc |-> "idle", op |-> "none", object |-> 0, error |-> "none"]
Operations == {"retried", "plain"}   \* get, put, invalidate, compact; others

Init ==
    /\ c = 0 /\ alive = {} /\ made = 0 /\ holder = 0
    /\ files \in {"good", "corrupt", "removed"}
    /\ helper = "none" /\ thread = [t \in Threads |-> Idle]
    /\ shared = "no" /\ broken = "no"

Works == broken # "crash"
Set(t, pc) == thread' = [thread EXCEPT ![t].pc = pc]
Fail(t, pc, error) == thread' = [thread EXCEPT ![t].pc = pc, ![t].error = error]
Return(t) ==
    /\ thread' = [thread EXCEPT ![t] = Idle]
    /\ helper' = IF thread[t].op = "construct" THEN "open" ELSE helper
Throw(t) ==
    /\ thread' = [thread EXCEPT ![t] = Idle]
    /\ helper' = IF thread[t].op = "construct" THEN "failed" ELSE helper
Recovering == {t \in Threads : thread[t].pc \in {"reset", "remove", "init"}}
Alone(t) == \A u \in Threads \ {t} : thread[u].pc = "idle"

(* CacheT::open() *)
CanOpen == holder = 0 /\ files # "corrupt" /\ made < MaxObjects
Opened ==
    /\ c' = made + 1 /\ made' = made + 1 /\ holder' = made + 1
    /\ alive' = (alive \ {c}) \union {made + 1}   \* c_ held another object
    /\ files' = "good"

(* A cache breaks on the disk. *)
Corrupt ==
    /\ Works /\ files = "good" /\ files' = "corrupt"
    /\ UNCHANGED <<c, alive, made, holder, helper, thread, shared, broken>>
-----------------------------------------------------------------------------
(* The constructor: call(init_cache). *)
construct(t) ==
    /\ helper = "none" /\ helper' = "opening"
    /\ thread' = [thread EXCEPT ![t] = [Idle EXCEPT !.pc = "try", !.op = "construct"]]
    /\ UNCHANGED <<store, shared, broken>>

(* A thread calls one of the methods. *)
call(t) ==
    /\ Works /\ helper = "open" /\ thread[t].pc = "idle"
    /\ \E op \in Operations :
         thread' = [thread EXCEPT ![t] = [Idle EXCEPT !.pc = "try", !.op = op]]
    /\ UNCHANGED <<store, helper, shared, broken>>

(* After the first failure call() recovers, after the second it rethrows;  *)
(* the plain methods do not catch.                                         *)
recovers(t) == thread[t].pc \in {"try", "trying"} /\ thread[t].op # "plain"
failed(t, error) ==
    IF recovers(t) THEN Fail(t, "recover", error) /\ UNCHANGED helper
    ELSE Throw(t)

(* func() of the constructor: init_cache(), with open() of a cache whose   *)
(* size changed and resize() in the same step.                             *)
func_open(t) ==
    /\ Works
    /\ thread[t].op = "construct" /\ thread[t].pc \in {"try", "retry"}
    /\ \/ CanOpen /\ Opened /\ Return(t)
       \/ files = "corrupt" /\ failed(t, "666") /\ UNCHANGED store
       \/ failed(t, "other") /\ UNCHANGED store
    /\ UNCHANGED <<shared, broken>>

(* func() of a method reads c_ and enters the object. *)
func_enter(t) ==
    /\ Works
    /\ thread[t].op \in Operations /\ thread[t].pc \in {"try", "retry"}
    /\ IF c = 0 THEN broken' = "crash" /\ UNCHANGED thread
       ELSE /\ thread' = [thread EXCEPT
                 ![t].pc = IF @ = "try" THEN "trying" ELSE "retrying", ![t].object = c]
            /\ UNCHANGED broken
    /\ shared' = IF Recovering # {} THEN "yes" ELSE shared
    /\ UNCHANGED <<store, helper>>

(* The method of the object ends. *)
func_leave(t) ==
    /\ Works
    /\ thread[t].pc \in {"trying", "retrying"}
    /\ IF thread[t].object \notin alive
       THEN broken' = "crash" /\ UNCHANGED <<thread, helper>>
       ELSE /\ \/ Return(t)
               \/ files = "corrupt" /\ failed(t, "666")
               \/ failed(t, "other")
            /\ UNCHANGED broken
    /\ UNCHANGED <<store, shared>>
-----------------------------------------------------------------------------
(* Mutant: every error wipes the cache. *)
is_corruption_Any(error) == TRUE

(* recover() only goes on with a system_error of code 666. *)
is_corruption(error) == error = "666"

recover(t) ==
    /\ Works
    /\ thread[t].pc = "recover"
    /\ IF is_corruption(thread[t].error) THEN Set(t, "reset") /\ UNCHANGED helper
       ELSE Throw(t)
    /\ shared' = IF is_corruption(thread[t].error) /\ ~Alone(t) THEN "yes" ELSE shared
    /\ UNCHANGED <<store, broken>>

(* Mutant: the cache is removed while it is open. *)
reset_Not(t) ==
    /\ Works
    /\ thread[t].pc = "reset"
    /\ Set(t, "remove")
    /\ UNCHANGED <<store, helper, shared, broken>>

(* c_.reset(): two threads that do it at once may destroy the object twice.*)
reset(t) ==
    /\ Works
    /\ thread[t].pc = "reset"
    /\ \/ /\ c' = 0 /\ alive' = alive \ {c}
          /\ holder' = IF holder = c THEN 0 ELSE holder
          /\ Set(t, "remove") /\ UNCHANGED broken
       \/ /\ \E u \in Threads \ {t} : thread[u].pc = "reset"
          /\ broken' = "crash" /\ UNCHANGED <<c, alive, holder, thread>>
    /\ UNCHANGED <<made, files, helper, shared>>

remove_all(t) ==
    /\ Works
    /\ thread[t].pc = "remove"
    /\ files' = "removed"
    /\ Set(t, "init")
    /\ UNCHANGED <<c, alive, made, holder, helper, shared, broken>>

(* Mutant: the cache is not opened again. *)
init_cache_Not(t) ==
    /\ Set(t, "retry")
    /\ UNCHANGED <<store, helper, broken>>

(* init_cache() of recover(): when it fails, c_ stays null. *)
init_cache(t) ==
    \/ CanOpen /\ Opened /\ Set(t, "retry") /\ UNCHANGED <<helper, broken>>
    \/ /\ Throw(t) /\ UNCHANGED store
       /\ broken' = IF c = 0 THEN "null" ELSE broken

reinit(t) ==
    /\ Works
    /\ thread[t].pc = "init"
    /\ init_cache(t)
    /\ UNCHANGED shared

Step(t) ==
    func_open(t) \/ func_enter(t) \/ func_leave(t) \/ recover(t) \/ reset(t)
       \/ remove_all(t) \/ reinit(t)

Next ==
    \/ Corrupt
    \/ \E t \in Threads : construct(t) \/ call(t) \/ Step(t)

Spec == Init /\ [][Next]_vars
-----------------------------------------------------------------------------
(* Between calls the helper has a cache that is open and has its files,    *)
(* whatever errors and corruption there were before, unless threads shared *)
(* a recovery or one failed.                                               *)
UsableBetweenCalls ==
    helper = "open" /\ shared = "no" /\ broken = "no"
       /\ (\A t \in Threads : thread[t].pc = "idle")
       => c \in alive /\ holder = c /\ files # "removed"

(* Only a corrupt cache is wiped; every other error leaves its entries     *)
(* alone.  With a recovery that is shared, the second thread wipes what    *)
(* the first one has just made.                                            *)
WipedOnlyWhenCorrupt ==
    [][files = "good" /\ files' = "removed" => shared = "yes"]_vars

(* The process dies in the cache only after a recovery was shared by two   *)
(* threads, or failed and left a null pointer for the calls that follow.   *)
CrashNeedsSharing ==
    [][broken' = "crash" /\ broken # "crash" => shared' = "yes" \/ broken = "null"]_vars
=============================================================================
