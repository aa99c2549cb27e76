----------------------------- MODULE RateLimiter -----------------------------
(***************************************************************************)
(* RateLimiter (include/ratelimiter.h, src/ratelimiter.cpp): at most       *)
(* Concurrency jobs run at a time, the others wait in list_.  There is no  *)
(* locking: every operation is one step of the event loop thread.          *)
(*                                                                         *)
(* The operators schedule, schedule_now, cancel and done are the class;    *)
(* modules that use a limiter instantiate them.  The actions below them    *)
(* add the callers, of whom the header demands one done() for every job    *)
(* that was started.                                                       *)
(***************************************************************************)
EXTENDS Integers, Sequences, FiniteSets, Functions

CONSTANTS Jobs,         \* identities of the entries of list_
          Concurrency   \* concurrency_

ASSUME ConcurrencyAssumption == Concurrency \in Nat \ {0}

VARIABLES running,   \* running_
          list,      \* list_, as the sequence of its entries
          cleared,   \* entries of list_ whose function was set to nullptr
          active     \* jobs that were called and whose done() is owed

limiterVars == <<running, list, cleared>>
vars == <<running, list, cleared, active>>

Init ==
    /\ running = 0
    /\ list = <<>>
    /\ cleared = {}
    /\ active = {}
-----------------------------------------------------------------------------
(* The class. *)

(* ++running_; job().  The job itself is the caller's business. *)
schedule_now ==
    /\ running' = running + 1
    /\ UNCHANGED <<list, cleared>>

enqueue(j) ==
    /\ list' = Append(list, j)
    /\ UNCHANGED <<running, cleared>>

(* schedule() calls the job at once iff this holds. *)
HasRoom == running < Concurrency

schedule(j) == IF HasRoom THEN schedule_now ELSE enqueue(j)

(* The value returned by the cancel function: weak_p.lock() succeeds while *)
(* list_ holds the entry, whether or not it was cleared before.            *)
IsQueued(j) == j \in Range(list)

cancel(j) ==
    /\ cleared' = IF IsQueued(j) THEN cleared \cup {j} ELSE cleared
    /\ UNCHANGED <<running, list>>

(* The position at which the loop in done() stops: it takes entries from   *)
(* the back of list_ and drops the cleared ones.                           *)
NextIndex ==
    {k \in 1..Len(list) : /\ list[k] \notin cleared
                          /\ \A m \in (k+1)..Len(list) : list[m] \in cleared}

(* Mutant: the first entry found is called, cleared or not. *)
NextJob_CallsCleared == {list[Len(list)] : k \in NextIndex}

(* The job, if any, that done() calls. *)
NextJob == {list[k] : k \in NextIndex}

(* Mutant: one entry is taken, and the place given up if it was cleared. *)
done_TakesOneEntry ==
    /\ running > 0
    /\ LET n == Len(list) IN
       \/ /\ n > 0
          /\ list' = SubSeq(list, 1, n - 1)
          /\ cleared' = cleared \ {list[n]}
          /\ running' = IF list[n] \in cleared THEN running - 1 ELSE running
       \/ /\ n = 0
          /\ running' = running - 1
          /\ UNCHANGED <<list, cleared>>

(* Mutant: the place of the job that was called is not counted. *)
done_Uncounted ==
    /\ running > 0
    /\ \/ \E k \in NextIndex :
             /\ list' = SubSeq(list, 1, k - 1)
             /\ cleared' = cleared \cap Range(list')
             /\ running' = running - 1
       \/ /\ NextIndex = {}
          /\ list' = <<>>
          /\ cleared' = {}
          /\ running' = running - 1

done ==
    /\ running > 0
    /\ \/ \E k \in NextIndex :
             /\ list' = SubSeq(list, 1, k - 1)
             /\ cleared' = cleared \cap Range(list')
             /\ running' = running - 1 + 1
       \/ /\ NextIndex = {}
          /\ list' = <<>>
          /\ cleared' = {}
          /\ running' = running - 1
-----------------------------------------------------------------------------
(* The callers. *)

Live == Range(list) \ cleared

(* A new entry: schedule() makes one for each call. *)
Fresh(j) == j \notin active /\ ~IsQueued(j)

Schedule(j) ==
    /\ Fresh(j)
    /\ schedule(j)
    /\ active' = IF HasRoom THEN active \cup {j} ELSE active

(* RequestImpl::waitForFinished: the cancel function clears the entry, and *)
(* schedule_now() calls the job although the limit is reached.  The        *)
(* cleared entry stays in list_ while the job runs.                        *)
RunNow(j) ==
    /\ j \in Live
    /\ cleared' = cleared \cup {j}
    /\ running' = running + 1
    /\ active' = active \cup {j}
    /\ UNCHANGED list

Cancel(j) ==
    /\ IsQueued(j)
    /\ cancel(j)
    /\ UNCHANGED active

Done(j) ==
    /\ j \in active
    /\ done
    /\ active' = (active \ {j}) \cup NextJob

(* The service schedules, cancels and completes.  The client library also  *)
(* forces jobs past the limit (RequestImpl::waitForFinished).              *)
QueuedNext == \E j \in Jobs : Schedule(j) \/ Cancel(j) \/ Done(j)
Next == QueuedNext \/ \E j \in Jobs : RunNow(j)

QueuedSpec == Init /\ [][QueuedNext]_vars
Spec == Init /\ [][Next]_vars
-----------------------------------------------------------------------------
TypeOK ==
    /\ running \in Nat
    /\ list \in Seq(Jobs)
    /\ cleared \subseteq Range(list)
    /\ active \subseteq Jobs

(* running_ counts exactly the jobs that were called and still owe their   *)
(* done(): the counter can neither leak a place nor hand one out twice.    *)
Balanced == running = Cardinality(active)

(* done() never strands a job: while a job that nobody cancelled waits in  *)
(* list_, all places are taken.  Cleared entries do not count.             *)
NoIdlePlace == running < Concurrency => Live = {}

(* A job is in one place only: no job runs while its entry waits to be     *)
(* called, and no job has two entries in list_.                            *)
OneEntryPerJob ==
    /\ Live \cap active = {}
    /\ \A k, m \in 1..Len(list) : list[k] = list[m] => k = m

(* As long as no job is forced by schedule_now() from outside, the         *)
(* concurrency limit holds.                                                *)
LimitRespected == running <= Concurrency

(* The queue implements the contract of the header. *)
Contract == INSTANCE LimiterContract WITH waiting <- Live
ImplementsContract == Contract!ContractSpec
=============================================================================
