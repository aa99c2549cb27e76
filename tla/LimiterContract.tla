--------------------------- MODULE LimiterContract ---------------------------
(***************************************************************************)
(* What the comments of include/ratelimiter.h promise to the callers of a  *)
(* RateLimiter, without its queue: a job runs at once while there is room, *)
(* waits otherwise, may be cancelled while it waits, and a job that        *)
(* completes hands its place to a waiting job if there is one.  Which of   *)
(* the waiting jobs is started is left open.                               *)
(***************************************************************************)
EXTENDS Integers, FiniteSets

CONSTANTS Jobs, Concurrency

VARIABLES active,    \* jobs that were started and have not completed
          waiting    \* jobs that wait for a place

contractVars == <<active, waiting>>

ContractInit ==
    /\ active = {}
    /\ waiting = {}

Start(j) ==
    /\ j \notin (active \cup waiting)
    /\ Cardinality(active) < Concurrency
    /\ active' = active \cup {j}
    /\ UNCHANGED waiting

Queue(j) ==
    /\ j \notin (active \cup waiting)
    /\ Cardinality(active) >= Concurrency
    /\ waiting' = waiting \cup {j}
    /\ UNCHANGED active

(* The caller insists that a waiting job runs now: no limit applies. *)
Insist(j) ==
    /\ j \in waiting
    /\ active' = active \cup {j}
    /\ waiting' = waiting \ {j}

Withdraw(j) ==
    /\ j \in waiting
    /\ waiting' = waiting \ {j}
    /\ UNCHANGED active

(* A place is given up only when nobody waits for it. *)
Complete(j) ==
    /\ j \in active
    /\ \/ \E w \in waiting :
             /\ active' = (active \ {j}) \cup {w}
             /\ waiting' = waiting \ {w}
       \/ /\ waiting = {}
          /\ active' = active \ {j}
          /\ UNCHANGED waiting

ContractNext ==
    \E j \in Jobs :
       Start(j) \/ Queue(j) \/ Insist(j) \/ Withdraw(j) \/ Complete(j)

ContractSpec == ContractInit /\ [][ContractNext]_contractVars
=============================================================================
