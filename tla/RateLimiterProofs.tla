-------------------------- MODULE RateLimiterProofs --------------------------
(***************************************************************************)
(* Proofs about RateLimiter for every set of jobs and every limit.         *)
(***************************************************************************)
EXTENDS RateLimiter, SequenceTheorems, FiniteSetTheorems, TLAPS

(***************************************************************************)
(* What Append does to the entries of list_.                               *)
(***************************************************************************)
LEMMA RangeAppend ==
  ASSUME NEW S, NEW s \in Seq(S), NEW e \in S
  PROVE  Range(Append(s, e)) = Range(s) \cup {e}
<1>1. /\ Append(s, e) \in Seq(S)
      /\ Len(Append(s, e)) = Len(s) + 1
      /\ \A i \in 1..Len(s) : Append(s, e)[i] = s[i]
      /\ Append(s, e)[Len(s) + 1] = e
  BY AppendProperties
<1>2. Range(Append(s, e)) = {Append(s, e)[i] : i \in 1..(Len(s) + 1)}
  BY <1>1, RangeEquality
<1>3. Range(s) = {s[i] : i \in 1..Len(s)} /\ Len(s) \in Nat
  BY RangeEquality, LenProperties
<1> QED
  BY <1>1, <1>2, <1>3

(***************************************************************************)
(* What is left of list_ when the loop of done() stops at entry k.         *)
(***************************************************************************)
LEMMA PrefixProperties ==
  ASSUME NEW S, NEW s \in Seq(S), NEW k \in 1..Len(s)
  PROVE  /\ SubSeq(s, 1, k-1) \in Seq(S)
         /\ Len(SubSeq(s, 1, k-1)) = k-1
         /\ \A i \in 1..(k-1) : SubSeq(s, 1, k-1)[i] = s[i]
         /\ Range(SubSeq(s, 1, k-1)) = {s[i] : i \in 1..(k-1)}
         /\ Range(SubSeq(s, 1, k-1)) \subseteq Range(s)
<1> DEFINE p == SubSeq(s, 1, k-1)
<1>0. Len(s) \in Nat /\ k \in Int /\ \A i \in 1..Len(s) : s[i] \in S
  BY LenProperties
<1>1. \A i \in 1..(k-1) : s[i] \in S
  BY <1>0
<1>2. /\ p \in Seq(S)
      /\ Len(p) = k-1
      /\ \A i \in 1..(k-1) : p[i] = s[i]
  BY <1>0, <1>1, SubSeqProperties
<1>3. Range(p) = {p[i] : i \in 1..(k-1)}
  BY <1>2, RangeEquality
<1>4. Range(s) = {s[i] : i \in 1..Len(s)}
  BY RangeEquality
<1>5. {p[i] : i \in 1..(k-1)} = {s[i] : i \in 1..(k-1)}
  BY <1>2
<1>6. {s[i] : i \in 1..(k-1)} \subseteq {s[i] : i \in 1..Len(s)}
  BY <1>0
<1> QED
  BY <1>2, <1>3, <1>4, <1>5, <1>6

LEMMA RangeEmpty == Range(<<>>) = {}
BY DEF Range

(***************************************************************************)
(* The loop of done() misses nothing: if it reaches the front of list_     *)
(* without finding a job, every entry was cleared.                         *)
(***************************************************************************)
LEMMA NoIndexNoLive ==
  ASSUME list \in Seq(Jobs), NextIndex = {}
  PROVE  Live = {}
<1>1. SUFFICES ASSUME Live # {} PROVE FALSE
  OBVIOUS
<1>2. Len(list) \in Nat /\ Range(list) = {list[i] : i \in 1..Len(list)}
  BY LenProperties, RangeEquality
<1> DEFINE L == {i \in 1..Len(list) : list[i] \notin cleared}
           D == {Len(list) - i : i \in L}
<1>3. L # {}
  BY <1>1, <1>2 DEF Live
<1>4. D \subseteq Nat /\ D # {}
  BY <1>2, <1>3
<1>5. PICK d \in D : \A e \in D : ~ (<<e, d>> \in OpToRel(<, Nat))
  <2> HIDE DEF D
  <2> QED  BY <1>4, WFMin, NatLessThanWellFounded
<1>6. \A e \in D : ~ (e < d)
  BY <1>4, <1>5 DEF OpToRel
<1>7. PICK k \in L : d = Len(list) - k
  BY <1>5
<1>8. \A m \in (k+1)..Len(list) : list[m] \in cleared
  <2> SUFFICES ASSUME NEW m \in (k+1)..Len(list), list[m] \notin cleared
               PROVE  FALSE
    OBVIOUS
  <2>1. m \in L
    BY <1>2, <1>7
  <2>2. Len(list) - m \in D
    BY <2>1
  <2>3. Len(list) - m < d
    BY <1>2, <1>7
  <2> QED  BY <1>6, <2>2, <2>3
<1>9. k \in NextIndex
  BY <1>7, <1>8 DEF NextIndex
<1> QED  BY <1>9
-----------------------------------------------------------------------------
(***************************************************************************)
(* The inductive invariant.  Balanced is about a cardinality, which means  *)
(* nothing for an infinite set; NoIdlePlace and the uniqueness of entries  *)
(* support each other through done().                                      *)
(***************************************************************************)
IInv ==
    /\ TypeOK
    /\ IsFiniteSet(active)
    /\ Balanced
    /\ NoIdlePlace
    /\ OneEntryPerJob

LEMMA InitIInv == Init => IInv
BY ConcurrencyAssumption, FS_EmptySet, RangeEmpty
   DEF Init, IInv, TypeOK, Balanced, NoIdlePlace, OneEntryPerJob, Live

LEMMA StartIInv ==
  ASSUME IInv, NEW j \in Jobs, Fresh(j), schedule_now,
         active' = active \cup {j}
  PROVE  IInv'
<1> USE DEF IInv, TypeOK, schedule_now
<1>1. /\ IsFiniteSet(active')
      /\ Cardinality(active') = Cardinality(active) + 1
  BY FS_AddElement DEF Fresh
<1>2. TypeOK' /\ Balanced'
  BY <1>1 DEF Balanced
<1>3. NoIdlePlace'
  BY ConcurrencyAssumption DEF NoIdlePlace, Live
<1>4. OneEntryPerJob'
  BY DEF OneEntryPerJob, Fresh, IsQueued, Live
<1> QED  BY <1>1, <1>2, <1>3, <1>4

LEMMA EnqueueIInv ==
  ASSUME IInv, NEW j \in Jobs, Fresh(j), ~HasRoom, enqueue(j),
         active' = active
  PROVE  IInv'
<1> USE DEF IInv, TypeOK, enqueue
<1>1. Range(list') = Range(list) \cup {j}
  BY RangeAppend
<1>2. /\ list' \in Seq(Jobs)
      /\ Len(list') = Len(list) + 1
      /\ \A i \in 1..Len(list) : list'[i] = list[i]
      /\ list'[Len(list) + 1] = j
  BY AppendProperties
<1>3. TypeOK' /\ Balanced' /\ IsFiniteSet(active')
  BY <1>1, <1>2 DEF Balanced
<1>4. NoIdlePlace'
  BY ConcurrencyAssumption DEF NoIdlePlace, HasRoom
<1>5. OneEntryPerJob'
  <2>1. \A i \in 1..Len(list) : list[i] # j
    BY LenProperties, RangeEquality DEF Fresh, IsQueued
  <2>2. Len(list) \in Nat
    BY LenProperties
  <2>3. Live' \cap active' = {}
    BY <1>1 DEF OneEntryPerJob, Fresh, Live
  <2> QED  BY <1>2, <2>1, <2>2, <2>3 DEF OneEntryPerJob
<1> QED  BY <1>3, <1>4, <1>5

LEMMA RunNowIInv ==
  ASSUME IInv, NEW j \in Jobs, RunNow(j)
  PROVE  IInv'
<1> USE DEF IInv, TypeOK, RunNow
<1>1. j \notin active
  BY DEF OneEntryPerJob
<1>2. /\ IsFiniteSet(active')
      /\ Cardinality(active') = Cardinality(active) + 1
  BY <1>1, FS_AddElement
<1>3. Live' = Live \ {j}
  BY DEF Live
<1>4. TypeOK' /\ Balanced'
  BY <1>2 DEF Balanced, Live
<1>5. NoIdlePlace'
  BY <1>3, ConcurrencyAssumption DEF NoIdlePlace
<1>6. OneEntryPerJob'
  BY <1>3 DEF OneEntryPerJob
<1> QED  BY <1>2, <1>4, <1>5, <1>6

LEMMA CancelIInv ==
  ASSUME IInv, NEW j \in Jobs, Cancel(j)
  PROVE  IInv'
BY DEF IInv, TypeOK, Cancel, cancel, IsQueued, Balanced, NoIdlePlace,
       OneEntryPerJob, Live

LEMMA DoneIInv ==
  ASSUME IInv, NEW j \in Jobs, Done(j)
  PROVE  IInv'
<1> USE DEF IInv, TypeOK
<1>1. /\ IsFiniteSet(active \ {j})
      /\ Cardinality(active \ {j}) = running - 1
  BY FS_RemoveElement DEF Done, Balanced
<1>2. /\ Len(list) \in Nat
      /\ Range(list) = {list[i] : i \in 1..Len(list)}
      /\ \A i \in 1..Len(list) : list[i] \in Jobs
  BY LenProperties, RangeEquality
<1>3. CASE \E k \in NextIndex :
             /\ list' = SubSeq(list, 1, k - 1)
             /\ cleared' = cleared \cap Range(list')
             /\ running' = running - 1 + 1
  <2>1. PICK k \in NextIndex :
             /\ list' = SubSeq(list, 1, k - 1)
             /\ cleared' = cleared \cap Range(list')
             /\ running' = running - 1 + 1
    BY <1>3
  <2>2. k \in 1..Len(list) /\ list[k] \notin cleared
    BY DEF NextIndex
  <2>3. NextIndex = {k}
    BY <1>2, <2>2 DEF NextIndex
  <2>4. NextJob = {list[k]} /\ list[k] \in Jobs
    BY <1>2, <2>2, <2>3 DEF NextJob
  <2>5. list[k] \in Range(list) /\ list[k] \notin active
    BY <1>2, <2>2 DEF OneEntryPerJob, Live
  <2>6. active' = (active \ {j}) \cup {list[k]}
    BY <2>4 DEF Done
  <2>7. IsFiniteSet(active') /\ Cardinality(active') = running
    <3>1. list[k] \notin active \ {j}
      BY <2>5
    <3>2. /\ IsFiniteSet((active \ {j}) \cup {list[k]})
          /\ Cardinality((active \ {j}) \cup {list[k]}) = Cardinality(active \ {j}) + 1
      BY <1>1, <3>1, FS_AddElement
    <3> QED  BY <1>1, <2>6, <3>2
  <2>8. /\ list' \in Seq(Jobs)
        /\ Len(list') = k - 1
        /\ \A i \in 1..(k-1) : list'[i] = list[i]
        /\ Range(list') = {list[i] : i \in 1..(k-1)}
        /\ Range(list') \subseteq Range(list)
    BY <2>1, <2>2, PrefixProperties
  <2>9. running' = running
    BY <2>1
  <2>10. TypeOK' /\ Balanced'
    BY <2>1, <2>4, <2>6, <2>7, <2>8, <2>9 DEF Balanced
  <2>11. NoIdlePlace'
    BY <2>2, <2>5, <2>9 DEF NoIdlePlace, Live
  <2>12. \A i \in 1..(k-1) : list[i] # list[k]
    BY <1>2, <2>2 DEF OneEntryPerJob
  <2>13. Live' \cap active' = {}
    <3>1. list[k] \notin Range(list')
      BY <2>8, <2>12
    <3>2. Live' \subseteq Live
      BY <2>1, <2>8 DEF Live
    <3>3. Live \cap active = {} /\ Live' \subseteq Range(list')
      BY DEF OneEntryPerJob, Live
    <3> QED  BY <2>6, <3>1, <3>2, <3>3
  <2>14. OneEntryPerJob'
    BY <1>2, <2>2, <2>8, <2>13 DEF OneEntryPerJob
  <2> QED  BY <2>7, <2>10, <2>11, <2>14
<1>4. CASE /\ NextIndex = {}
           /\ list' = <<>>
           /\ cleared' = {}
           /\ running' = running - 1
  <2>1. active' = active \ {j}
    BY <1>4 DEF Done, NextJob
  <2>2. running > 0
    BY DEF Done, done
  <2> QED
    BY <1>1, <1>4, <2>1, <2>2, RangeEmpty
       DEF Balanced, NoIdlePlace, Live, OneEntryPerJob
<1> QED  BY <1>3, <1>4 DEF Done, done

LEMMA NextIInv ==
  ASSUME IInv, [Next]_vars
  PROVE  IInv'
<1>1. ASSUME NEW j \in Jobs, Schedule(j) PROVE IInv'
  BY <1>1, StartIInv, EnqueueIInv DEF Schedule, schedule
<1>2. ASSUME NEW j \in Jobs, RunNow(j) PROVE IInv'
  BY <1>2, RunNowIInv
<1>3. ASSUME NEW j \in Jobs, Cancel(j) PROVE IInv'
  BY <1>3, CancelIInv
<1>4. ASSUME NEW j \in Jobs, Done(j) PROVE IInv'
  BY <1>4, DoneIInv
<1>5. CASE UNCHANGED vars
  BY <1>5 DEF IInv, TypeOK, Balanced, NoIdlePlace, OneEntryPerJob, Live, vars
<1> QED
  BY <1>1, <1>2, <1>3, <1>4, <1>5 DEF Next, QueuedNext

(***************************************************************************)
(* The inductive invariant holds in every behaviour, forced jobs included. *)
(***************************************************************************)
THEOREM Invariance == Spec => []IInv
<1>1. Init => IInv
  BY InitIInv
<1>2. IInv /\ [Next]_vars => IInv'
  BY NextIInv
<1> QED  BY <1>1, <1>2, PTL DEF Spec

(***************************************************************************)
(* The variables of the limiter keep their types: running_ never drops     *)
(* below zero (the assertion in done()) and only entries of list_ are      *)
(* marked as cleared.                                                      *)
(***************************************************************************)
THEOREM TypeCorrect == Spec => []TypeOK
<1>1. IInv => TypeOK
  BY DEF IInv
<1> QED  BY <1>1, Invariance, PTL

(***************************************************************************)
(* For every number of jobs and every limit, running_ is the number of     *)
(* jobs that owe a done() (RateLimiter::schedule_now, RateLimiter::done).  *)
(***************************************************************************)
THEOREM CounterIsBalanced == Spec => []Balanced
<1>1. IInv => Balanced
  BY DEF IInv
<1> QED  BY <1>1, Invariance, PTL

(***************************************************************************)
(* RateLimiter::done() leaves no live job waiting beside a free place.     *)
(***************************************************************************)
THEOREM NoJobIsStranded == Spec => []NoIdlePlace
<1>1. IInv => NoIdlePlace
  BY DEF IInv
<1> QED  BY <1>1, Invariance, PTL

(***************************************************************************)
(* Without calls of schedule_now() from outside, running_ never exceeds    *)
(* concurrency_: RateLimiter::done() starts a job only in the place of the *)
(* one that completed.                                                     *)
(***************************************************************************)
THEOREM LimitHolds == QueuedSpec => []LimitRespected
<1> DEFINE LInv == IInv /\ LimitRespected
<1>1. Init => LInv
  BY InitIInv, ConcurrencyAssumption DEF Init, LimitRespected
<1>2. LInv /\ [QueuedNext]_vars => LInv'
  <2> SUFFICES ASSUME LInv, [QueuedNext]_vars PROVE LInv'
    OBVIOUS
  <2>1. IInv'
    BY NextIInv DEF Next
  <2>2. running' <= Concurrency
    <3>1. running \in Nat /\ running <= Concurrency
      BY DEF IInv, TypeOK, LimitRespected
    <3>2. CASE UNCHANGED vars
      BY <3>1, <3>2 DEF vars
    <3>3. ASSUME NEW j \in Jobs, Schedule(j) PROVE running' <= Concurrency
      BY <3>1, <3>3, ConcurrencyAssumption
         DEF Schedule, schedule, schedule_now, enqueue, HasRoom
    <3>4. ASSUME NEW j \in Jobs, Cancel(j) PROVE running' <= Concurrency
      BY <3>1, <3>4 DEF Cancel, cancel
    <3>5. ASSUME NEW j \in Jobs, Done(j) PROVE running' <= Concurrency
      BY <3>1, <3>5, ConcurrencyAssumption DEF Done, done
    <3> QED  BY <3>2, <3>3, <3>4, <3>5 DEF QueuedNext
  <2> QED  BY <2>1, <2>2 DEF LimitRespected
<1>3. LInv => LimitRespected
  OBVIOUS
<1> QED  BY <1>1, <1>2, <1>3, PTL DEF QueuedSpec
-----------------------------------------------------------------------------
(***************************************************************************)
(* A step of done() is a step of the contract: the entry that it takes     *)
(* from list_ is the only job that stops waiting, although cleared entries *)
(* are dropped with it.                                                    *)
(***************************************************************************)
LEMMA DoneImplements ==
  ASSUME IInv, NEW j \in Jobs, Done(j)
  PROVE  Contract!Complete(j)
<1> USE DEF IInv, TypeOK
<1>1. /\ Len(list) \in Nat
      /\ Range(list) = {list[i] : i \in 1..Len(list)}
  BY LenProperties, RangeEquality
<1>2. ASSUME NEW k \in NextIndex,
             list' = SubSeq(list, 1, k - 1),
             cleared' = cleared \cap Range(list')
      PROVE  Contract!Complete(j)
  <2>1. /\ k \in 1..Len(list)
        /\ list[k] \notin cleared
        /\ \A m \in (k+1)..Len(list) : list[m] \in cleared
    BY DEF NextIndex
  <2>2. NextJob = {list[k]}
    BY <1>1, <2>1 DEF NextJob, NextIndex
  <2>3. Range(list') = {list[i] : i \in 1..(k-1)}
    BY <1>2, <2>1, PrefixProperties
  <2>4. \A i \in 1..(k-1) : list[i] # list[k]
    BY <1>1, <2>1 DEF OneEntryPerJob
  <2>5. Live' = Range(list') \ cleared
    BY <1>2 DEF Live
  <2>6. Live' = Live \ {list[k]}
    BY <1>1, <2>1, <2>3, <2>4, <2>5 DEF Live
  <2>7. list[k] \in Live
    BY <1>1, <2>1 DEF Live
  <2>8. j \in active /\ active' = (active \ {j}) \cup {list[k]}
    BY <2>2 DEF Done
  <2> QED  BY <2>6, <2>7, <2>8 DEF Contract!Complete
<1>3. ASSUME NextIndex = {}, list' = <<>>, cleared' = {}
      PROVE  Contract!Complete(j)
  <2>1. Live = {}
    BY <1>3, NoIndexNoLive
  <2>2. Live' = {}
    BY <1>3, RangeEmpty DEF Live
  <2>3. j \in active /\ active' = active \ {j}
    BY <1>3 DEF Done, NextJob
  <2> QED  BY <2>1, <2>2, <2>3 DEF Contract!Complete
<1> QED  BY <1>2, <1>3 DEF Done, done

(***************************************************************************)
(* RateLimiter implements the contract of ratelimiter.h: a place is given  *)
(* up only when no live job waits, and cancelled jobs never run.           *)
(***************************************************************************)
THEOREM Refinement == Spec => ImplementsContract
<1>1. Init => Contract!ContractInit
  BY RangeEmpty DEF Init, Contract!ContractInit, Live
<1>2. IInv /\ [Next]_vars => [Contract!ContractNext]_(Contract!contractVars)
  <2> SUFFICES ASSUME IInv, [Next]_vars
               PROVE  Contract!ContractNext \/ UNCHANGED <<active, Live>>
    BY DEF Contract!contractVars
  <2>0. Live \cap active = {} /\ running = Cardinality(active) /\ list \in Seq(Jobs)
    BY DEF IInv, TypeOK, OneEntryPerJob, Balanced, Live
  <2>6. Contract!Cardinality(active) = Cardinality(active)
    BY Zenon DEF Contract!Cardinality, Cardinality
  <2>1. CASE UNCHANGED vars
    BY <2>1 DEF vars, Live
  <2>2. ASSUME NEW j \in Jobs, Schedule(j) PROVE Contract!ContractNext
    <3>1. j \notin (active \cup Live)
      BY <2>2 DEF Schedule, Fresh, IsQueued, Live
    <3>2. CASE HasRoom
      BY <2>0, <2>2, <2>6, <3>1, <3>2
         DEF Schedule, schedule, schedule_now, HasRoom, Live,
             Contract!Start, Contract!ContractNext
    <3>3. CASE ~HasRoom
      <4>1. Range(list') = Range(list) \cup {j} /\ cleared' = cleared /\ active' = active
        BY <2>0, <2>2, <3>3, RangeAppend DEF Schedule, schedule, enqueue
      <4>2. j \notin cleared
        BY <2>2 DEF IInv, TypeOK, Schedule, Fresh, IsQueued
      <4>3. Live' = Live \cup {j}
        BY <4>1, <4>2 DEF Live
      <4>4. Cardinality(active) >= Concurrency
        BY <2>0, <3>3, ConcurrencyAssumption DEF HasRoom, IInv, TypeOK
      <4> QED
        BY <2>6, <3>1, <4>1, <4>3, <4>4 DEF Contract!Queue, Contract!ContractNext
    <3> QED  BY <3>2, <3>3
  <2>3. ASSUME NEW j \in Jobs, RunNow(j) PROVE Contract!ContractNext
    BY <2>3 DEF RunNow, Live, Contract!Insist, Contract!ContractNext
  <2>4. ASSUME NEW j \in Jobs, Cancel(j)
        PROVE  Contract!ContractNext \/ UNCHANGED <<active, Live>>
    <3>1. /\ j \in Range(list) /\ list' = list /\ active' = active
          /\ cleared' = cleared \cup {j}
      BY <2>4 DEF Cancel, cancel, IsQueued
    <3>2. Live' = Live \ {j}
      BY <3>1 DEF Live
    <3>3. CASE j \in Live
      BY <3>1, <3>2, <3>3 DEF Contract!Withdraw, Contract!ContractNext
    <3>4. CASE j \notin Live
      BY <3>1, <3>2, <3>4
    <3> QED  BY <3>3, <3>4
  <2>5. ASSUME NEW j \in Jobs, Done(j) PROVE Contract!ContractNext
    BY <2>5, DoneImplements DEF Contract!ContractNext
  <2> QED
    BY <2>1, <2>2, <2>3, <2>4, <2>5 DEF Next, QueuedNext
<1> QED
  BY <1>1, <1>2, Invariance, PTL DEF Spec, ImplementsContract, Contract!ContractSpec
=============================================================================
