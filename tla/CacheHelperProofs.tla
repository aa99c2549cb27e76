-------------------------- MODULE CacheHelperProofs --------------------------
(***************************************************************************)
(* CacheHelper for every number of threads and of cache objects: as long   *)
(* as no recovery was shared, a thread that recovers is alone but for      *)
(* calls that have not yet read c_, so what it found corrupt is still so   *)
(* when it removes it, and c_ is null only for itself.                     *)
(***************************************************************************)
EXTENDS CacheHelper, TLAPS

Types ==
    /\ c \in Nat /\ made \in Nat /\ holder \in Nat
    /\ alive \subseteq Nat \ {0}
    /\ files \in {"good", "corrupt", "removed"}
    /\ helper \in {"none", "opening", "open", "failed"}
    /\ thread \in [Threads -> [pc : {"idle", "try", "trying", "retry", "retrying",
                                     "recover", "reset", "remove", "init"},
                               op : {"none", "construct"} \union Operations,
                               object : Nat, error : {"none", "666", "other"}]]
    /\ shared \in {"no", "yes"} /\ broken \in {"no", "null", "crash"}

(* The constructor runs before and without every other call; the plain     *)
(* methods neither recover nor try again.                                  *)
Roles ==
    \A t \in Threads : thread[t].pc # "idle" =>
       IF thread[t].op = "construct"
       THEN helper = "opening" /\ Alone(t) /\ thread[t].pc \notin {"trying", "retrying"}
       ELSE helper = "open" /\ thread[t].op \in Operations

(* Who recovers has company only of calls that have not read c_ yet. *)
RecoversAlone ==
    \A t \in Recovering, u \in Threads :
       u # t => thread[u].pc \in {"idle", "try"}

(* The cache that was found corrupt is still corrupt until it is removed. *)
FilesFollow ==
    \A t \in Threads :
       /\ thread[t].pc = "recover" /\ thread[t].error = "666" => files = "corrupt"
       /\ thread[t].pc \in {"reset", "remove"} => files = "corrupt"
       /\ thread[t].pc = "init" => files = "removed"

(* A call is in the current object. *)
InCurrent ==
    \A t \in Threads :
       thread[t].pc \in {"trying", "retrying"} => thread[t].object = c

Open == c \in alive /\ holder = c /\ files # "removed"
Closed == c = 0 /\ holder = 0

(* Where c_ is an open cache and where it is null. *)
PointerFollows ==
    /\ helper = "none" => Closed
    /\ \A t \in Threads :
         /\ thread[t].pc \in {"remove", "init"} => Closed
         /\ thread[t].op = "construct" /\ thread[t].pc \in {"try", "recover", "reset"} => Closed
         /\ thread[t].pc = "retry" => Open
    /\ helper = "open" /\ (\A t \in Threads : thread[t].pc \notin {"remove", "init"}) => Open

(* After a failed recovery, by a method, c_ is null and nobody has got     *)
(* further than to be about to read it; by the constructor, nobody calls.  *)
NullPointer ==
    /\ c = 0 /\ helper \notin {"none", "opening"}
    /\ \A t \in Threads : thread[t].pc \in {"idle", "try"}

Solo ==
    /\ RecoversAlone /\ FilesFollow /\ InCurrent
    /\ broken = "no" => PointerFollows
    /\ broken = "null" => NullPointer

IInv == Types /\ Roles /\ (Works /\ shared = "no" => Solo)
-----------------------------------------------------------------------------
(* No thread, no cache. *)
LEMMA InitIInv == Init => IInv
  BY DEF Init, IInv, Types, Roles, Solo, RecoversAlone, FilesFollow, InCurrent,
         PointerFollows, NullPointer, Closed, Idle, Works, Recovering, Operations

(* Types and roles, for all steps. *)
LEMMA TypesAndRoles == IInv /\ [Next]_vars => Types' /\ Roles'
<1> SUFFICES ASSUME IInv, [Next]_vars PROVE Types' /\ Roles'
  OBVIOUS
<1> USE DEF IInv, Types, Idle, Operations, Alone, Roles
<1>1. CASE Corrupt \/ UNCHANGED vars
  BY <1>1 DEF Corrupt, vars
<1>2. ASSUME NEW t \in Threads, construct(t) PROVE Types' /\ Roles'
  BY <1>2 DEF construct, store
<1>3. ASSUME NEW t \in Threads, call(t) PROVE Types' /\ Roles'
  <2>1. PICK op \in Operations :
           thread' = [thread EXCEPT ![t] = [Idle EXCEPT !.pc = "try", !.op = op]]
    BY <1>3 DEF call
  <2>2. /\ thread[t].pc = "idle" /\ helper = "open"
        /\ UNCHANGED <<store, helper, shared, broken>>
    BY <1>3 DEF call
  <2>3. Types'
    BY <2>1, <2>2 DEF store
  <2>4. Roles'
    BY <2>1, <2>2
  <2>5. QED
    BY <2>3, <2>4
<1>4. ASSUME NEW t \in Threads, func_open(t) PROVE Types' /\ Roles'
  BY <1>4 DEF func_open, store, CanOpen, Opened, Return, Throw, failed, recovers, Fail
<1>5. ASSUME NEW t \in Threads, func_enter(t) PROVE Types' /\ Roles'
  BY <1>5 DEF func_enter, store
<1>6. ASSUME NEW t \in Threads, func_leave(t) PROVE Types' /\ Roles'
  BY <1>6 DEF func_leave, store, Return, Throw, failed, recovers, Fail
<1>7. ASSUME NEW t \in Threads, recover(t) PROVE Types' /\ Roles'
  BY <1>7 DEF recover, store, Throw, Set
<1>8. ASSUME NEW t \in Threads, reset(t) PROVE Types' /\ Roles'
  BY <1>8 DEF reset, Set
<1>9. ASSUME NEW t \in Threads, remove_all(t) PROVE Types' /\ Roles'
  BY <1>9 DEF remove_all, Set
<1>10. ASSUME NEW t \in Threads, reinit(t) PROVE Types' /\ Roles'
  BY <1>10 DEF reinit, init_cache, store, CanOpen, Opened, Throw, Set
<1>11. QED
  BY <1>1, <1>2, <1>3, <1>4, <1>5, <1>6, <1>7, <1>8, <1>9, <1>10 DEF Next, Step

(* What a step keeps of Solo. *)
LEMMA CallSteps ==
    ASSUME IInv, (Types /\ Roles)', NEW t \in Threads, (Works /\ shared = "no")',
           construct(t) \/ call(t)
    PROVE  Solo'
<1> USE DEF IInv, Types, Idle, Operations, Alone, Roles, Solo, RecoversAlone, FilesFollow,
        InCurrent, PointerFollows, NullPointer, Open, Closed, Works, Recovering, store
<1>1. CASE construct(t)
  BY <1>1 DEF construct
<1>2. CASE call(t)
  BY <1>2 DEF call
<1>3. QED
  BY <1>1, <1>2

LEMMA FuncSteps ==
    ASSUME IInv, (Types /\ Roles)', NEW t \in Threads, (Works /\ shared = "no")',
           func_open(t) \/ func_enter(t) \/ func_leave(t)
    PROVE  Solo'
<1> USE DEF IInv, Types, Idle, Operations, Alone, Roles, Solo, RecoversAlone, FilesFollow,
        InCurrent, PointerFollows, NullPointer, Open, Closed, Works, Recovering, store
<1>1. CASE func_open(t)
  <2>1. /\ \A u \in Threads : u # t => thread[u].pc = "idle" /\ thread'[u] = thread[u]
        /\ shared' = shared /\ broken' = broken /\ helper = "opening"
        /\ thread[t].op = "construct" /\ thread[t].pc \in {"try", "retry"}
    BY <1>1 DEF func_open, Return, Throw, failed, recovers, Fail
  <2>2. CASE CanOpen /\ Opened /\ Return(t)
    <3>1. thread'[t].pc = "idle" /\ helper' = "open" /\ Open'
      BY <2>1, <2>2 DEF Opened, Return
    <3>2. \A u \in Threads : thread'[u].pc = "idle"
      BY <2>1, <3>1
    <3>3. broken # "null"
      BY <1>1, <2>1, <2>2 DEF CanOpen
    <3>4. QED
      BY <3>1, <3>2, <3>3, <2>1
  <2>3. CASE UNCHANGED store /\ thread[t].pc = "try" /\ helper' = helper
               /\ \E error \in {"666", "other"} :
                     /\ error = "666" => files = "corrupt"
                     /\ Fail(t, "recover", error)
    BY <2>1, <2>3 DEF Fail
  <2>4. CASE UNCHANGED store /\ Throw(t)
    BY <2>1, <2>4 DEF Throw
  <2>5. QED
    BY <1>1, <2>1, <2>2, <2>3, <2>4 DEF func_open, failed, recovers
<1>2. CASE func_enter(t)
  BY <1>2 DEF func_enter
<1>3. CASE func_leave(t)
  <2>1. /\ \A u \in Threads : u # t => thread'[u] = thread[u]
        /\ UNCHANGED store /\ shared' = shared /\ broken' = broken /\ helper' = helper
        /\ thread[t].pc \in {"trying", "retrying"} /\ thread[t].op \in Operations
    BY <1>3 DEF func_leave, Return, Throw, failed, recovers, Fail
  <2>2. CASE thread'[t].pc = "idle"
    BY <2>1, <2>2
  <2>3. CASE /\ thread'[t].pc = "recover" /\ thread'[t].op = thread[t].op
             /\ thread'[t].error = "666" => files = "corrupt"
    BY <2>1, <2>3
  <2>4. QED
    BY <1>3, <2>2, <2>3 DEF func_leave, Return, Throw, failed, recovers, Fail
<1>4. QED
  BY <1>1, <1>2, <1>3

LEMMA RecoverySteps ==
    ASSUME IInv, (Types /\ Roles)', NEW t \in Threads, (Works /\ shared = "no")',
           recover(t) \/ reset(t) \/ remove_all(t) \/ reinit(t)
    PROVE  Solo'
<1> USE DEF IInv, Types, Idle, Operations, Alone, Roles, Solo, RecoversAlone, FilesFollow,
        InCurrent, PointerFollows, NullPointer, Open, Closed, Works, Recovering, store
<1>1. CASE recover(t)
  BY <1>1 DEF recover, is_corruption, Throw, Set
<1>2. CASE reset(t)
  BY <1>2 DEF reset, Set
<1>3. CASE remove_all(t)
  BY <1>3 DEF remove_all, Set
<1>4. CASE reinit(t)
  BY <1>4 DEF reinit, init_cache, CanOpen, Opened, Throw, Set
<1>5. QED
  BY <1>1, <1>2, <1>3, <1>4
-----------------------------------------------------------------------------
(* Every step keeps the invariant: a crash and a shared recovery end what  *)
(* Solo promises.                                                          *)
LEMMA NextIInv == IInv /\ [Next]_vars => IInv'
<1> SUFFICES ASSUME IInv, [Next]_vars PROVE IInv'
  OBVIOUS
<1>1. (Types /\ Roles)'
  BY TypesAndRoles
<1>2. SUFFICES ASSUME (Works /\ shared = "no")' PROVE Solo'
  BY <1>1 DEF IInv
<1>3. CASE Corrupt \/ UNCHANGED vars
  BY <1>2, <1>3 DEF Corrupt, vars, IInv, Solo, RecoversAlone, FilesFollow, InCurrent,
     PointerFollows, NullPointer, Open, Closed, Works, Recovering
<1>4. CASE \E t \in Threads : construct(t) \/ call(t)
  BY <1>1, <1>2, <1>4, CallSteps
<1>5. CASE \E t \in Threads : func_open(t) \/ func_enter(t) \/ func_leave(t)
  BY <1>1, <1>2, <1>5, FuncSteps
<1>6. CASE \E t \in Threads : recover(t) \/ reset(t) \/ remove_all(t) \/ reinit(t)
  BY <1>1, <1>2, <1>6, RecoverySteps
<1>7. QED
  BY <1>3, <1>4, <1>5, <1>6 DEF Next, Step

LEMMA SpecIInv == Spec => []IInv
  BY InitIInv, NextIInv, PTL DEF Spec

(* For every number of threads, the methods of CacheHelper leave an open   *)
(* cache behind, whatever errors and corruption they met, unless a         *)
(* recovery was shared or failed.                                          *)
THEOREM CacheUsable == Spec => []UsableBetweenCalls
<1>1. IInv => UsableBetweenCalls
  BY DEF IInv, UsableBetweenCalls, Solo, PointerFollows, Open, Works, Types
<1>2. QED
  BY <1>1, SpecIInv, PTL

(* recover() removes a cache that was found corrupt and still is.  What    *)
(* two threads recover at once is the exception.                           *)
THEOREM OnlyCorruptIsWiped == Spec => WipedOnlyWhenCorrupt
<1> DEFINE Wiped == files = "good" /\ files' = "removed" => shared = "yes"
<1>1. IInv /\ [Next]_vars => Wiped
  <2> SUFFICES ASSUME IInv, [Next]_vars, files = "good", files' = "removed"
               PROVE  shared = "yes"
    OBVIOUS
  <2>1. PICK t \in Threads : remove_all(t)
    <3>1. ASSUME Corrupt \/ UNCHANGED vars PROVE FALSE
      BY <3>1 DEF Corrupt, vars
    <3>2. ASSUME NEW u \in Threads, construct(u) \/ call(u) \/ func_enter(u)
                    \/ func_leave(u) \/ recover(u) \/ reset(u)
          PROVE  FALSE
      BY <3>2 DEF construct, call, func_enter, func_leave, recover, reset, store
    <3>3. ASSUME NEW u \in Threads, func_open(u) \/ reinit(u) PROVE FALSE
      BY <3>3 DEF func_open, reinit, init_cache, Opened, store
    <3>4. QED
      BY <3>1, <3>2, <3>3 DEF Next, Step
  <2>2. QED
    BY <2>1 DEF remove_all, IInv, Solo, FilesFollow, Types
<1>2. QED
  BY <1>1, SpecIInv, PTL DEF Spec, WipedOnlyWhenCorrupt

(* A null or destroyed cache object is used only after a recovery was      *)
(* shared, or failed.                                                      *)
THEOREM CrashExplained == Spec => CrashNeedsSharing
<1> DEFINE Explained ==
       broken' = "crash" /\ broken # "crash" => shared' = "yes" \/ broken = "null"
<1>1. IInv /\ [Next]_vars => Explained
  <2> SUFFICES ASSUME IInv, [Next]_vars, broken' = "crash", broken = "no"
               PROVE  shared' = "yes"
    BY DEF IInv, Types
  <2> USE DEF IInv, Types, Solo, Works
  <2>1. ASSUME NEW t \in Threads, func_enter(t) PROVE shared' = "yes"
    <3>1. thread[t].pc \in {"try", "retry"} /\ thread[t].op \in Operations /\ c = 0
      BY <2>1 DEF func_enter
    <3>2. helper = "open"
      BY <3>1 DEF Roles, Operations
    <3>3. shared = "no" /\ Recovering = {} => Open
      BY <3>2 DEF PointerFollows, Recovering
    <3>4. QED
      BY <2>1, <3>1, <3>3 DEF func_enter, Open
  <2>2. ASSUME NEW t \in Threads, func_leave(t) PROVE shared' = "yes"
    <3>1. thread[t].pc \in {"trying", "retrying"} /\ thread[t].object \notin alive
      BY <2>2 DEF func_leave
    <3>2. shared = "no" => Recovering = {} /\ thread[t].object = c
      BY <3>1 DEF RecoversAlone, InCurrent, Recovering
    <3>3. shared = "no" => Open
      BY <3>1, <3>2 DEF PointerFollows, Recovering, Roles
    <3>4. QED
      BY <2>2, <3>1, <3>2, <3>3 DEF func_leave, Open
  <2>3. ASSUME NEW t \in Threads, reset(t) PROVE shared' = "yes"
    BY <2>3 DEF reset, RecoversAlone, Recovering
  <2>4. ASSUME NEW t \in Threads, construct(t) \/ call(t) \/ func_open(t) \/ recover(t)
                  \/ remove_all(t) \/ reinit(t)
        PROVE  FALSE
    BY <2>4 DEF construct, call, func_open, recover, remove_all, reinit, init_cache
  <2>5. ASSUME Corrupt \/ UNCHANGED vars PROVE FALSE
    BY <2>5 DEF Corrupt, vars
  <2>6. QED
    BY <2>1, <2>2, <2>3, <2>4, <2>5 DEF Next, Step
<1>2. QED
  BY <1>1, SpecIInv, PTL DEF Spec, CrashNeedsSharing
=============================================================================
