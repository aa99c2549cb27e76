------------------------ MODULE ImageResponsesProofs ------------------------
(***************************************************************************)
(* The client library and the QML plugin for every set of requests, every  *)
(* choice of those that belong to a response and every max_backlog: what   *)
(* the library keeps of its requests and what the limiter and the bus know *)
(* of them agree, and the library uses its limiter as ratelimiter.h        *)
(* demands.                                                                *)
(***************************************************************************)
EXTENDS ImageResponses, TLAPS, FiniteSetTheorems, SequenceTheorems

(* No request has two entries in list_, and none was never made. *)
Entries ==
    /\ \A i, j \in 1..Len(list) : list[i] = list[j] => i = j
    /\ Range(list) \subseteq live \union gone

(* A request that was sent has left the queue, except while the thread     *)
(* waits for the one that it took out of its turn; a request that was      *)
(* cancelled in the queue is never sent.                                   *)
Sent ==
    /\ watcher \intersect Range(list) \subseteq {blocked}
    /\ watcher \intersect cancelledWhileWaiting = {}

(* The queued signal of an invalid request is its only one. *)
SignalsDue == \A r \in signals : r \in finished /\ emitted[r] = 0

Places == IsFiniteSet(watcher) /\ IsFiniteSet(pumps) /\ OneDonePerCall

ClientInv ==
    /\ TypeOK /\ Places /\ Entries /\ Sent /\ SignalsDue
    /\ CompletionsExpected /\ WatcherToWaitOn /\ JobsAreAlive /\ FinishedOnce

(* A response and its request. *)
Wraps(r) ==
    /\ r \in live <=> response[r] = "open"
    /\ r \in gone => response[r] = "deleted"
    /\ notified[r] <= 1
    /\ response[r] = "none" => notified[r] = 0 /\ r \notin errorString
    /\ response[r] = "open" => /\ notified[r] = emitted[r]
                               /\ r \in errorString <=> (emitted[r] = 1 /\ r \notin valid)
    /\ response[r] = "invalid" => r \in errorString

IInv == ClientInv /\ ResponsesOK /\ \A r \in Wrapped : Wraps(r)
-----------------------------------------------------------------------------
(* What the limiter calls its live entries. *)
LEMMA QueueFacts ==
    /\ L!Live = Range(list) \ cleared /\ L!Live' = Range(list') \ cleared'
    /\ \A r : L!IsQueued(r) <=> r \in Range(list)
  BY DEF L!Live, L!IsQueued, L!Range, Range

(* The search of done() from the back finds an entry if there is one. *)
LEMMA LastOutside ==
    ASSUME NEW S, NEW s \in Seq(S), NEW C, NEW n \in 1..Len(s), s[n] \notin C
    PROVE  \E k \in 1..Len(s) : s[k] \notin C /\ \A m \in (k + 1)..Len(s) : s[m] \in C
<1> DEFINE D == {Len(s) - i : i \in {x \in 1..Len(s) : s[x] \notin C}}
<1>1. Len(s) \in Nat
  BY LenProperties
<1>2. D \subseteq Nat /\ D # {}
  BY <1>1
<1>3. PICK d \in D : \A e \in D : ~ (<<e, d>> \in OpToRel(<, Nat))
  <2> HIDE DEF D
  <2>1. QED
    BY <1>2, WFMin, NatLessThanWellFounded
<1>4. \A e \in D : ~ (e < d)
  BY <1>2, <1>3 DEF OpToRel
<1>5. PICK k \in 1..Len(s) : s[k] \notin C /\ d = Len(s) - k
  BY <1>3
<1>6. ASSUME NEW m \in (k + 1)..Len(s), s[m] \notin C PROVE FALSE
  <2>1. m \in 1..Len(s) /\ Len(s) - m < d
    BY <1>1, <1>5
  <2>2. Len(s) - m \in D
    BY <1>6, <2>1
  <2>3. QED
    BY <1>4, <2>1, <2>2
<1>7. QED
  BY <1>5, <1>6

(* done() takes the last live entry, if there is one, and starts it. *)
LEMMA DoneEffect ==
    ASSUME ClientInv, L!done
    PROVE  /\ list' \in Seq(Requests) /\ cleared' \subseteq Range(list')
           /\ \A i, j \in 1..Len(list') : list'[i] = list'[j] => i = j
           /\ Range(list') \subseteq Range(list)
           /\ L!NextJob \subseteq L!Live /\ L!Live' = L!Live \ L!NextJob
           /\ L!NextJob \intersect Range(list') = {}
           /\ running > 0 /\ running' \in Nat
           /\ \/ L!NextJob = {} /\ running' = running - 1
              \/ \E f \in Requests : L!NextJob = {f} /\ running' = running
<1>1. /\ list \in Seq(Requests) /\ Len(list) \in Nat /\ running \in Nat /\ running > 0
      /\ \A i, j \in 1..Len(list) : list[i] = list[j] => i = j
      /\ \A i \in 1..Len(list) : list[i] \in Requests
      /\ cleared \subseteq Range(list) /\ Range(list) = {list[i] : i \in 1..Len(list)}
  BY LenProperties, RangeEquality, ElementOfSeq DEF ClientInv, TypeOK, Entries, L!done
<1>2. ASSUME L!NextIndex = {}, list' = <<>>, cleared' = {}, running' = running - 1
      PROVE  /\ list' \in Seq(Requests) /\ cleared' \subseteq Range(list')
             /\ \A i, j \in 1..Len(list') : list'[i] = list'[j] => i = j
             /\ Range(list') = {}
             /\ L!NextJob = {} /\ L!Live = {} /\ L!Live' = {}
             /\ running' \in Nat
  <2>1. list' \in Seq(Requests) /\ Len(list') = 0 /\ Range(list') = {} /\ 1..Len(list') = {}
    BY <1>2 DEF Range
  <2>2. L!NextJob = {}
    BY <1>2 DEF L!NextJob
  <2>3. L!Live = {}
    <3>1. SUFFICES ASSUME NEW n \in 1..Len(list), list[n] \notin cleared PROVE FALSE
      BY <1>1, QueueFacts
    <3>2. \E k \in 1..Len(list) : /\ list[k] \notin cleared
                                  /\ \A m \in (k + 1)..Len(list) : list[m] \in cleared
      BY <1>1, <3>1, LastOutside
    <3>3. QED
      BY <1>2, <3>2 DEF L!NextIndex
  <2>4. L!Live' = {}
    BY <2>1, QueueFacts
  <2>5. running' \in Nat
    BY <1>1, <1>2
  <2>6. QED
    BY <1>2, <2>1, <2>2, <2>3, <2>4, <2>5
<1>3. ASSUME NEW k \in L!NextIndex, list' = SubSeq(list, 1, k - 1),
             cleared' = cleared \intersect Range(list'), running' = running - 1 + 1
      PROVE  /\ list' \in Seq(Requests) /\ cleared' \subseteq Range(list')
             /\ \A i, j \in 1..Len(list') : list'[i] = list'[j] => i = j
             /\ Range(list') \subseteq Range(list)
             /\ L!NextJob \subseteq L!Live /\ L!Live' = L!Live \ L!NextJob
             /\ L!NextJob \intersect Range(list') = {}
             /\ running' = running
             /\ \E f \in Requests : L!NextJob = {f}
  <2>1. /\ k \in 1..Len(list) /\ list[k] \notin cleared /\ list[k] \in Requests
        /\ \A m \in (k + 1)..Len(list) : list[m] \in cleared
    BY <1>1 DEF L!NextIndex
  <2>2. \A m \in L!NextIndex : m = k
    <3>1. SUFFICES ASSUME NEW m \in L!NextIndex PROVE m = k
      OBVIOUS
    <3>2. /\ m \in 1..Len(list) /\ list[m] \notin cleared
          /\ \A x \in (m + 1)..Len(list) : list[x] \in cleared
      BY DEF L!NextIndex
    <3>3. ~(m < k) \/ k \in (m + 1)..Len(list)
      BY <1>1, <2>1, <3>2
    <3>4. ~(k < m) \/ m \in (k + 1)..Len(list)
      BY <1>1, <2>1, <3>2
    <3>5. QED
      BY <2>1, <3>2, <3>3, <3>4
  <2>3. L!NextJob = {list[k]}
    <3>1. \A x : x \in L!NextJob <=> x = list[k]
      BY <2>2 DEF L!NextJob
    <3>2. QED
      BY <3>1, Zenon
  <2>4. /\ list' \in Seq(Requests) /\ Len(list') = k - 1
        /\ \A i \in 1..(k - 1) : list'[i] = list[i] /\ i \in 1..Len(list) /\ i # k
    <3>1. \A i \in 1..(k - 1) : i \in 1..Len(list) /\ list[i] \in Requests /\ i # k
      BY <1>1, <2>1
    <3>2. QED
      BY <1>1, <1>3, <2>1, <3>1
  <2>5. Range(list') = {list'[i] : i \in 1..(k - 1)}
    BY <2>4, RangeEquality
  <2>6. \A i, j \in 1..Len(list') : list'[i] = list'[j] => i = j
    BY <1>1, <2>4
  <2>7. Range(list') \subseteq Range(list) /\ list[k] \in Range(list) /\ list[k] \notin Range(list')
    BY <1>1, <2>1, <2>4, <2>5
  <2>8. \A x \in Range(list) : x \in Range(list') \/ x = list[k] \/ x \in cleared
    <3>1. SUFFICES ASSUME NEW i \in 1..Len(list)
                   PROVE  list[i] \in Range(list') \/ list[i] = list[k] \/ list[i] \in cleared
      BY <1>1
    <3>2. CASE i < k
      <4>1. i \in 1..(k - 1)
        BY <2>1, <3>2
      <4>2. QED
        BY <2>4, <2>5, <4>1
    <3>3. CASE i = k
      BY <3>3
    <3>4. CASE i > k
      <4>1. i \in (k + 1)..Len(list)
        BY <1>1, <2>1, <3>4
      <4>2. QED
        BY <2>1, <4>1
    <3>5. QED
      BY <2>1, <3>2, <3>3, <3>4
  <2>9. L!Live' = L!Live \ {list[k]} /\ list[k] \in L!Live
    BY <1>3, <2>1, <2>7, <2>8, QueueFacts
  <2>10. running' = running
    BY <1>1, <1>3
  <2>11. QED
    BY <1>3, <2>1, <2>3, <2>4, <2>6, <2>7, <2>9, <2>10
<1>4. CASE \E k \in L!NextIndex : /\ list' = SubSeq(list, 1, k - 1)
                                 /\ cleared' = cleared \intersect Range(list')
                                 /\ running' = running - 1 + 1
  <2>1. PICK k \in L!NextIndex : /\ list' = SubSeq(list, 1, k - 1)
                                 /\ cleared' = cleared \intersect Range(list')
                                 /\ running' = running - 1 + 1
    BY <1>4
  <2>2. QED
    BY <1>1, <1>3, <2>1
<1>5. CASE L!NextIndex = {} /\ list' = <<>> /\ cleared' = {} /\ running' = running - 1
  BY <1>1, <1>2, <1>5
<1>6. QED
  BY <1>4, <1>5 DEF L!done, L!Range, Range

(* A new entry at the end of list_. *)
LEMMA EnqueueEffect ==
    ASSUME ClientInv, NEW r \in Requests, r \notin Range(list), list' = Append(list, r)
    PROVE  /\ list' \in Seq(Requests) /\ Range(list') = Range(list) \union {r}
           /\ \A i, j \in 1..Len(list') : list'[i] = list'[j] => i = j
<1>1. /\ list \in Seq(Requests) /\ Len(list) \in Nat
      /\ \A i, j \in 1..Len(list) : list[i] = list[j] => i = j
      /\ Range(list) = {list[i] : i \in 1..Len(list)}
  BY LenProperties, RangeEquality DEF ClientInv, TypeOK, Entries
<1>2. /\ list' \in Seq(Requests) /\ Len(list') = Len(list) + 1
      /\ \A i \in 1..Len(list) : list'[i] = list[i] /\ list[i] # r
      /\ list'[Len(list) + 1] = r
  BY <1>1, AppendProperties
<1>3. Range(list') = {list'[i] : i \in 1..(Len(list) + 1)}
  <2>1. list' \in Seq(Requests) /\ Len(list') = Len(list) + 1
    BY <1>2
  <2>2. DOMAIN list' = 1..(Len(list) + 1)
    BY <2>1
  <2>3. QED
    BY <2>2 DEF Range
<1>4. \A i \in 1..(Len(list) + 1) : i \in 1..Len(list) \/ i = Len(list) + 1
  BY <1>1
<1>5. \A i \in 1..Len(list) : i \in 1..(Len(list) + 1)
  BY <1>1
<1>6. Range(list') = Range(list) \union {r}
  <2>1. \A x \in Range(list') : x \in Range(list) \union {r}
    BY <1>1, <1>2, <1>3, <1>4
  <2>2. \A x \in Range(list) : x \in Range(list')
    BY <1>1, <1>2, <1>3, <1>5
  <2>3. Len(list) + 1 \in 1..(Len(list) + 1)
    BY <1>1
  <2>4. r \in Range(list')
    BY <1>2, <1>3, <2>3
  <2>5. QED
    BY <2>1, <2>2, <2>4
<1>7. ASSUME NEW i \in 1..(Len(list) + 1), NEW j \in 1..(Len(list) + 1), list'[i] = list'[j]
      PROVE  i = j
  BY <1>1, <1>2, <1>4, <1>7
<1>8. QED
  BY <1>2, <1>6, <1>7
-----------------------------------------------------------------------------
LEMMA InitClient == Init => ClientInv
<1> SUFFICES ASSUME Init PROVE ClientInv
  OBVIOUS
<1>1. Range(list) = {} /\ list \in Seq(Requests) /\ 1..Len(list) = {}
  BY DEF Init, Range
<1>2. L!Live = {}
  BY <1>1, QueueFacts
<1>3. TypeOK /\ Entries /\ Sent /\ SignalsDue
  BY <1>1 DEF Init, TypeOK, Entries, Sent, SignalsDue
<1>4. Places
  BY FS_EmptySet DEF Init, Places, OneDonePerCall
<1>5. CompletionsExpected /\ WatcherToWaitOn /\ JobsAreAlive /\ FinishedOnce
  BY <1>2 DEF Init, CompletionsExpected, WatcherToWaitOn, JobsAreAlive, FinishedOnce
<1>6. QED
  BY <1>3, <1>4, <1>5 DEF ClientInv

(* A new request: sent at once, or queued. *)
LEMMA CreateStep == ASSUME ClientInv, NEW r \in Requests, createRequest(r) PROVE ClientInv'
<1>1. /\ TypeOK /\ Places /\ Entries /\ Sent /\ SignalsDue
      /\ CompletionsExpected /\ WatcherToWaitOn /\ JobsAreAlive /\ FinishedOnce
  BY DEF ClientInv
<1>2. /\ r \notin live /\ r \notin gone /\ r \notin Range(list) /\ r \notin cleared
      /\ r \notin watcher /\ r \notin pumps /\ r \notin L!Live /\ blocked = None
      /\ live' = live \union {r}
      /\ UNCHANGED <<gone, finished, valid, cancelled, cancelledWhileWaiting, fakes, signals,
                     pumps, emitted, blocked>>
  BY <1>1, QueueFacts DEF createRequest, Unborn, TypeOK, Entries
<1>3. CASE L!HasRoom
  <2>1. /\ running' = running + 1 /\ UNCHANGED <<list, cleared>> /\ watcher' = watcher \union {r}
        /\ L!Live' = L!Live
    BY <1>3, QueueFacts DEF createRequest, L!schedule, L!schedule_now
  <2>2. TypeOK' /\ Entries' /\ SignalsDue'
    BY <1>1, <1>2, <2>1 DEF TypeOK, Entries, SignalsDue
  <2>3. Sent' /\ CompletionsExpected' /\ WatcherToWaitOn' /\ JobsAreAlive'
    BY <1>1, <1>2, <2>1
       DEF TypeOK, Sent, CompletionsExpected, WatcherToWaitOn, JobsAreAlive
  <2>4. FinishedOnce'
    BY <1>1, <1>2, <2>1 DEF TypeOK, FinishedOnce
  <2>5. Places'
    <3>1. /\ IsFiniteSet(watcher') /\ Cardinality(watcher') = Cardinality(watcher) + 1
          /\ Cardinality(watcher) \in Nat /\ Cardinality(pumps) \in Nat
      BY <1>1, <1>2, <2>1, FS_AddElement, FS_CardinalityType DEF Places
    <3>2. QED
      BY <1>1, <1>2, <2>1, <3>1 DEF Places, OneDonePerCall
  <2>6. QED
    BY <2>2, <2>3, <2>4, <2>5 DEF ClientInv
<1>4. CASE ~L!HasRoom
  <2>1. list' = Append(list, r) /\ UNCHANGED <<running, cleared, watcher>>
    BY <1>4 DEF createRequest, L!schedule, L!enqueue
  <2>2. /\ list' \in Seq(Requests) /\ Range(list') = Range(list) \union {r}
        /\ \A i, j \in 1..Len(list') : list'[i] = list'[j] => i = j
    BY <1>2, <2>1, EnqueueEffect
  <2>3. L!Live' = L!Live \union {r}
    BY <1>2, <2>1, <2>2, QueueFacts
  <2>4. TypeOK' /\ Entries' /\ SignalsDue'
    BY <1>1, <1>2, <2>1, <2>2 DEF TypeOK, Entries, SignalsDue
  <2>5. Sent' /\ CompletionsExpected' /\ WatcherToWaitOn' /\ JobsAreAlive'
    BY <1>1, <1>2, <2>1, <2>2, <2>3
       DEF TypeOK, Sent, CompletionsExpected, WatcherToWaitOn, JobsAreAlive
  <2>6. FinishedOnce' /\ Places'
    BY <1>1, <1>2, <2>1 DEF TypeOK, FinishedOnce, Places, OneDonePerCall
  <2>7. QED
    BY <2>4, <2>5, <2>6 DEF ClientInv
<1>5. QED
  BY <1>3, <1>4

LEMMA InvalidStep ==
    ASSUME ClientInv, NEW r \in Requests, createInvalidRequest(r) PROVE ClientInv'
<1>1. /\ TypeOK /\ Places /\ Entries /\ Sent /\ SignalsDue
      /\ CompletionsExpected /\ WatcherToWaitOn /\ JobsAreAlive /\ FinishedOnce
  BY DEF ClientInv
<1>2. /\ r \notin live /\ r \notin gone /\ r \notin Range(list) /\ r \notin finished
      /\ r \notin watcher /\ r \notin fakes /\ r \notin L!Live /\ L!Live' = L!Live
      /\ live' = live \union {r} /\ finished' = finished \union {r}
      /\ signals' = signals \union {r}
      /\ UNCHANGED <<running, list, cleared, gone, valid, cancelled, cancelledWhileWaiting,
                     watcher, fakes, pumps, emitted, blocked>>
  BY <1>1, QueueFacts DEF createInvalidRequest, Unborn, TypeOK, Entries
<1>3. emitted[r] = 0
  BY <1>1, <1>2 DEF TypeOK, FinishedOnce
<1>4. TypeOK' /\ Entries' /\ SignalsDue' /\ Places'
  BY <1>1, <1>2, <1>3 DEF TypeOK, Entries, SignalsDue, Places, OneDonePerCall
<1>5. Sent' /\ CompletionsExpected' /\ WatcherToWaitOn' /\ JobsAreAlive'
  BY <1>1, <1>2 DEF TypeOK, Sent, CompletionsExpected, WatcherToWaitOn, JobsAreAlive
<1>6. FinishedOnce'
  BY <1>1, <1>2, <1>3 DEF TypeOK, FinishedOnce
<1>7. QED
  BY <1>4, <1>5, <1>6 DEF ClientInv

LEMMA CancelStep == ASSUME ClientInv, NEW r \in Requests, cancel(r) PROVE ClientInv'
<1>1. /\ TypeOK /\ Places /\ Entries /\ Sent /\ SignalsDue
      /\ CompletionsExpected /\ WatcherToWaitOn /\ JobsAreAlive /\ FinishedOnce
      /\ None \notin Requests
  BY NoneAssumption DEF ClientInv
<1>2. /\ r \in live /\ r \notin finished /\ r \notin cancelled /\ blocked = None
      /\ cancelled' = cancelled \union {r}
      /\ UNCHANGED <<running, list, live, gone, finished, valid, watcher, signals, pumps,
                     emitted, blocked>>
  BY DEF cancel, L!cancel
<1>3. CASE /\ r \in Range(list) /\ cleared' = cleared \union {r}
           /\ cancelledWhileWaiting' = cancelledWhileWaiting \union {r}
           /\ fakes' = fakes \union {r}
  <2>1. r \notin watcher /\ L!Live' = L!Live \ {r}
    BY <1>1, <1>2, <1>3, QueueFacts DEF Sent
  <2>2. TypeOK' /\ Entries' /\ SignalsDue' /\ Places'
    BY <1>1, <1>2, <1>3 DEF TypeOK, Entries, SignalsDue, Places, OneDonePerCall
  <2>3. Sent' /\ CompletionsExpected' /\ WatcherToWaitOn' /\ JobsAreAlive'
    BY <1>1, <1>2, <1>3, <2>1
       DEF TypeOK, Sent, CompletionsExpected, WatcherToWaitOn, JobsAreAlive
  <2>4. FinishedOnce'
    BY <1>1, <1>2 DEF FinishedOnce
  <2>5. QED
    BY <2>2, <2>3, <2>4 DEF ClientInv
<1>4. CASE /\ r \notin Range(list) /\ UNCHANGED <<cleared, cancelledWhileWaiting, fakes>>
  <2>1. r \notin L!Live /\ L!Live' = L!Live
    BY <1>2, <1>4, QueueFacts
  <2>2. TypeOK' /\ Entries' /\ SignalsDue' /\ Places'
    BY <1>1, <1>2, <1>4 DEF TypeOK, Entries, SignalsDue, Places, OneDonePerCall
  <2>3. Sent' /\ CompletionsExpected' /\ WatcherToWaitOn' /\ JobsAreAlive'
    BY <1>1, <1>2, <1>4, <2>1
       DEF TypeOK, Sent, CompletionsExpected, WatcherToWaitOn, JobsAreAlive
  <2>4. FinishedOnce'
    BY <1>1, <1>2 DEF FinishedOnce
  <2>5. QED
    BY <2>2, <2>3, <2>4 DEF ClientInv
<1>5. QED
  BY <1>3, <1>4, QueueFacts DEF cancel, L!cancel

LEMMA WaitStep == ASSUME ClientInv, NEW r \in Requests, waitForFinished(r) PROVE ClientInv'
<1>1. /\ TypeOK /\ Places /\ Entries /\ Sent /\ SignalsDue
      /\ CompletionsExpected /\ WatcherToWaitOn /\ JobsAreAlive /\ FinishedOnce
      /\ None \notin Requests
  BY NoneAssumption DEF ClientInv
<1>2. /\ r \in live /\ r \notin finished /\ r \notin cancelled /\ blocked = None /\ blocked' = r
      /\ UNCHANGED <<list, live, gone, finished, valid, cancelled, cancelledWhileWaiting, fakes,
                     signals, pumps, emitted>>
  BY DEF waitForFinished
<1>3. CASE /\ r \in Range(list) /\ cleared' = cleared \union {r} /\ running' = running + 1
           /\ watcher' = watcher \union {r}
  <2>1. r \notin watcher /\ L!Live' = L!Live \ {r}
    BY <1>1, <1>2, <1>3, QueueFacts DEF Sent
  <2>2. TypeOK' /\ Entries' /\ SignalsDue'
    BY <1>1, <1>2, <1>3 DEF TypeOK, Entries, SignalsDue
  <2>3. Sent' /\ CompletionsExpected' /\ WatcherToWaitOn' /\ JobsAreAlive'
    BY <1>1, <1>2, <1>3, <2>1
       DEF TypeOK, Sent, CompletionsExpected, WatcherToWaitOn, JobsAreAlive
  <2>4. FinishedOnce'
    BY <1>1, <1>2 DEF FinishedOnce
  <2>5. Places'
    <3>1. /\ IsFiniteSet(watcher') /\ Cardinality(watcher') = Cardinality(watcher) + 1
          /\ Cardinality(watcher) \in Nat /\ Cardinality(pumps) \in Nat
      BY <1>1, <1>3, <2>1, FS_AddElement, FS_CardinalityType DEF Places
    <3>2. QED
      BY <1>1, <1>2, <1>3, <3>1 DEF Places, OneDonePerCall
  <2>6. QED
    BY <2>2, <2>3, <2>4, <2>5 DEF ClientInv
<1>4. CASE r \notin Range(list) /\ UNCHANGED <<running, cleared, watcher>>
  <2>1. L!Live' = L!Live
    BY <1>2, <1>4, QueueFacts
  <2>2. TypeOK' /\ Entries' /\ SignalsDue' /\ Places'
    BY <1>1, <1>2, <1>4 DEF TypeOK, Entries, SignalsDue, Places, OneDonePerCall
  <2>3. Sent' /\ CompletionsExpected' /\ WatcherToWaitOn' /\ JobsAreAlive'
    BY <1>1, <1>2, <1>4, <2>1
       DEF TypeOK, Sent, CompletionsExpected, WatcherToWaitOn, JobsAreAlive
  <2>4. FinishedOnce'
    BY <1>1, <1>2 DEF FinishedOnce
  <2>5. QED
    BY <2>2, <2>3, <2>4 DEF ClientInv
<1>5. QED
  BY <1>3, <1>4, QueueFacts DEF waitForFinished

(* ~RequestImpl(), of a request that its response has cancelled or not. *)
LEMMA ReleaseStep ==
    ASSUME ClientInv, NEW r \in Requests, release(r),
           cancelled' = cancelled \/ cancelled' = cancelled \union {r}
    PROVE  ClientInv'
<1>1. /\ TypeOK /\ Places /\ Entries /\ Sent /\ SignalsDue
      /\ CompletionsExpected /\ WatcherToWaitOn /\ JobsAreAlive /\ FinishedOnce
      /\ None \notin Requests
  BY NoneAssumption DEF ClientInv
<1>2. /\ r \in live /\ r \notin gone /\ blocked = None
      /\ live' = live \ {r} /\ gone' = gone \union {r} /\ watcher' = watcher \ {r}
      /\ fakes' = fakes \ {r} /\ signals' = signals \ {r}
      /\ cleared' = IF r \in Range(list) THEN cleared \union {r} ELSE cleared
      /\ pumps' = IF r \in watcher /\ r \notin Range(list) THEN pumps \union {r} ELSE pumps
      /\ UNCHANGED <<running, list, finished, valid, cancelledWhileWaiting, emitted, blocked>>
  BY <1>1, QueueFacts DEF release, L!cancel, TypeOK
<1>3. L!Live' = L!Live \ {r}
  BY <1>2, QueueFacts
<1>4. TypeOK' /\ Entries' /\ SignalsDue'
  BY <1>1, <1>2 DEF TypeOK, Entries, SignalsDue
<1>5. Sent' /\ CompletionsExpected' /\ WatcherToWaitOn' /\ JobsAreAlive'
  BY <1>1, <1>2, <1>3 DEF TypeOK, Sent, CompletionsExpected, WatcherToWaitOn, JobsAreAlive
<1>6. FinishedOnce'
  BY <1>1, <1>2 DEF FinishedOnce
<1>7. Places'
  <2>1. CASE r \notin watcher
    <3>1. watcher' = watcher /\ pumps' = pumps
      BY <1>2, <2>1
    <3>2. QED
      BY <1>1, <1>2, <3>1 DEF Places, OneDonePerCall
  <2>2. CASE r \in watcher
    <3>1. r \notin Range(list) /\ pumps' = pumps \union {r} /\ r \notin pumps
      BY <1>1, <1>2, <2>2 DEF Sent, TypeOK
    <3>2. /\ IsFiniteSet(watcher') /\ Cardinality(watcher') = Cardinality(watcher) - 1
          /\ Cardinality(watcher) \in Nat
      BY <1>1, <1>2, <2>2, FS_RemoveElement, FS_CardinalityType DEF Places
    <3>3. /\ IsFiniteSet(pumps') /\ Cardinality(pumps') = Cardinality(pumps) + 1
          /\ Cardinality(pumps) \in Nat
      BY <1>1, <3>1, FS_AddElement, FS_CardinalityType DEF Places
    <3>4. QED
      BY <1>1, <1>2, <3>2, <3>3 DEF Places, OneDonePerCall
  <2>3. QED
    BY <2>1, <2>2
<1>8. QED
  BY <1>4, <1>5, <1>6, <1>7 DEF ClientInv

(* What follows of a completion for the request itself. *)
LEMMA CompleteKeeps ==
    ASSUME ClientInv, NEW r \in live \ finished, NEW ok \in BOOLEAN, complete(r, ok)
    PROVE  /\ emitted' \in [Requests -> Nat] /\ emitted[r] = 0 /\ emitted'[r] = 1
           /\ \A q \in Requests \ {r} : emitted'[q] = emitted[q]
           /\ finished' = finished \union {r} /\ valid' \subseteq finished'
           /\ valid' = valid \/ valid' = valid \union {r}
           /\ blocked' = (IF blocked = r THEN None ELSE blocked)
           /\ r \notin signals
<1>1. TypeOK /\ SignalsDue /\ FinishedOnce
  BY DEF ClientInv
<1>2. r \in Requests /\ emitted[r] \in Nat /\ emitted[r] <= 1 /\ emitted[r] # 1
  BY <1>1 DEF TypeOK, FinishedOnce
<1>3. emitted[r] = 0 /\ r \notin signals
  BY <1>1, <1>2 DEF SignalsDue
<1>4. /\ emitted' = [emitted EXCEPT ![r] = emitted[r] + 1] /\ emitted \in [Requests -> Nat]
      /\ finished' = finished \union {r} /\ valid \subseteq finished
      /\ valid' = (IF ok THEN valid \union {r} ELSE valid)
      /\ blocked' = (IF blocked = r THEN None ELSE blocked)
  BY <1>1 DEF complete, TypeOK
<1>5. QED
  BY <1>2, <1>3, <1>4

(* done() for a call that was sent: its place goes to the next request. *)
LEMMA ReplyStep == ASSUME ClientInv, NEW r \in Requests, Reply(r) PROVE ClientInv'
<1>1. /\ TypeOK /\ Places /\ Entries /\ Sent /\ SignalsDue
      /\ CompletionsExpected /\ WatcherToWaitOn /\ JobsAreAlive /\ FinishedOnce
      /\ None \notin Requests
  BY NoneAssumption DEF ClientInv
<1>2. /\ r \in watcher /\ r \in live /\ r \notin finished /\ r \notin fakes
      /\ r \notin cancelledWhileWaiting /\ blocked \in {None, r}
      /\ UNCHANGED <<live, gone, cancelled, cancelledWhileWaiting, fakes, signals, pumps>>
  BY <1>1 DEF Reply, TypeOK, CompletionsExpected, Sent
<1>3. PICK ok \in BOOLEAN : dbusCallFinished(r, ok)
  BY DEF Reply
<1>4. /\ L!done /\ watcher' = (watcher \ {r}) \union L!NextJob
      /\ complete(r, ok /\ r \notin cancelled)
  BY <1>2, <1>3 DEF dbusCallFinished
<1>5. /\ emitted' \in [Requests -> Nat] /\ emitted'[r] = 1
      /\ \A q \in Requests \ {r} : emitted'[q] = emitted[q]
      /\ finished' = finished \union {r} /\ valid' \subseteq finished'
      /\ blocked' = None /\ r \notin signals
  <2>1. (ok /\ r \notin cancelled) \in BOOLEAN
    OBVIOUS
  <2>2. QED
    BY <1>2, <1>4, <2>1, CompleteKeeps
<1>6. /\ list' \in Seq(Requests) /\ cleared' \subseteq Range(list')
      /\ \A i, j \in 1..Len(list') : list'[i] = list'[j] => i = j
      /\ Range(list') \subseteq Range(list)
      /\ L!NextJob \subseteq L!Live /\ L!Live' = L!Live \ L!NextJob
      /\ L!NextJob \intersect Range(list') = {}
      /\ running > 0 /\ running' \in Nat
  BY <1>4, DoneEffect
<1>7. L!NextJob \subseteq live \ (finished \union cancelled \union watcher)
  BY <1>1, <1>6, QueueFacts DEF JobsAreAlive, Entries
<1>8. TypeOK'
  BY <1>1, <1>2, <1>4, <1>5, <1>6, <1>7 DEF TypeOK
<1>9. Entries' /\ Sent'
  <2>1. Entries'
    BY <1>1, <1>2, <1>6 DEF Entries
  <2>2. watcher' \intersect Range(list') \subseteq {blocked'}
    BY <1>1, <1>2, <1>4, <1>5, <1>6 DEF Sent
  <2>3. watcher' \intersect cancelledWhileWaiting' = {}
    BY <1>1, <1>2, <1>4, <1>7 DEF Sent, TypeOK
  <2>4. QED
    BY <2>1, <2>2, <2>3 DEF Sent
<1>10. SignalsDue' /\ FinishedOnce'
  BY <1>1, <1>2, <1>5 DEF SignalsDue, FinishedOnce, TypeOK
<1>11. CompletionsExpected' /\ WatcherToWaitOn' /\ JobsAreAlive'
  BY <1>1, <1>2, <1>4, <1>5, <1>6, <1>7
     DEF CompletionsExpected, WatcherToWaitOn, JobsAreAlive, TypeOK
<1>12. Places'
  <2>1. /\ IsFiniteSet(watcher \ {r}) /\ Cardinality(watcher \ {r}) = Cardinality(watcher) - 1
        /\ Cardinality(watcher) \in Nat /\ Cardinality(pumps) \in Nat
    BY <1>1, <1>2, FS_RemoveElement, FS_CardinalityType DEF Places
  <2>2. CASE L!NextJob = {} /\ running' = running - 1
    <3>1. watcher' = watcher \ {r}
      BY <1>4, <2>2
    <3>2. QED
      BY <1>1, <1>2, <2>1, <2>2, <3>1 DEF Places, OneDonePerCall
  <2>3. ASSUME NEW f \in Requests, L!NextJob = {f}, running' = running PROVE Places'
    <3>1. watcher' = (watcher \ {r}) \union {f} /\ f \notin watcher \ {r}
      BY <1>4, <1>7, <2>3
    <3>2. IsFiniteSet(watcher') /\ Cardinality(watcher') = Cardinality(watcher \ {r}) + 1
      BY <2>1, <3>1, FS_AddElement
    <3>3. QED
      BY <1>1, <1>2, <2>1, <2>3, <3>2 DEF Places, OneDonePerCall
  <2>4. QED
    BY <1>4, <2>2, <2>3, DoneEffect
<1>13. QED
  BY <1>8, <1>9, <1>10, <1>11, <1>12 DEF ClientInv

(* The completion that cancel() queued: nothing was sent. *)
LEMMA FakeReplyStep == ASSUME ClientInv, NEW r \in Requests, FakeReply(r) PROVE ClientInv'
<1>1. /\ TypeOK /\ Places /\ Entries /\ Sent /\ SignalsDue
      /\ CompletionsExpected /\ WatcherToWaitOn /\ JobsAreAlive /\ FinishedOnce
      /\ None \notin Requests
  BY NoneAssumption DEF ClientInv
<1>2. /\ r \in fakes /\ r \in live /\ r \notin finished /\ r \notin watcher /\ r \notin L!Live
      /\ r \in cancelled \intersect cancelledWhileWaiting /\ blocked = None
      /\ fakes' = fakes \ {r} /\ dbusCallFinished(r, FALSE)
      /\ UNCHANGED <<live, gone, cancelled, cancelledWhileWaiting, signals, pumps>>
  BY <1>1 DEF FakeReply, TypeOK, CompletionsExpected, JobsAreAlive
<1>3. watcher' = watcher /\ UNCHANGED <<running, list, cleared>> /\ complete(r, FALSE)
  BY <1>2 DEF dbusCallFinished, limiterVars
<1>4. /\ emitted' \in [Requests -> Nat] /\ emitted'[r] = 1
      /\ \A q \in Requests \ {r} : emitted'[q] = emitted[q]
      /\ finished' = finished \union {r} /\ valid' \subseteq finished'
      /\ blocked' = None /\ r \notin signals
  BY <1>2, <1>3, CompleteKeeps
<1>5. L!Live' = L!Live
  BY <1>3, QueueFacts
<1>6. TypeOK' /\ Entries' /\ Sent' /\ Places'
  BY <1>1, <1>2, <1>3, <1>4 DEF TypeOK, Entries, Sent, Places, OneDonePerCall
<1>7. SignalsDue' /\ FinishedOnce'
  BY <1>1, <1>2, <1>4 DEF SignalsDue, FinishedOnce, TypeOK
<1>8. CompletionsExpected' /\ WatcherToWaitOn' /\ JobsAreAlive'
  BY <1>1, <1>2, <1>3, <1>4, <1>5 DEF CompletionsExpected, WatcherToWaitOn, JobsAreAlive
<1>9. QED
  BY <1>6, <1>7, <1>8 DEF ClientInv

LEMMA SignalStep == ASSUME ClientInv, NEW r \in Requests, SignalInvalid(r) PROVE ClientInv'
<1>1. /\ TypeOK /\ Places /\ Entries /\ Sent /\ SignalsDue
      /\ CompletionsExpected /\ WatcherToWaitOn /\ JobsAreAlive /\ FinishedOnce
  BY DEF ClientInv
<1>2. /\ r \in finished /\ emitted[r] = 0 /\ signals' = signals \ {r}
      /\ UNCHANGED <<running, list, cleared, live, gone, finished, valid, cancelled,
                     cancelledWhileWaiting, watcher, fakes, pumps, blocked>>
      /\ emitted' = [emitted EXCEPT ![r] = emitted[r] + 1]
  BY <1>1 DEF SignalInvalid, SignalsDue
<1>3. /\ emitted' \in [Requests -> Nat] /\ emitted'[r] = 1
      /\ \A q \in Requests \ {r} : emitted'[q] = emitted[q]
  BY <1>1, <1>2 DEF TypeOK
<1>4. L!Live' = L!Live
  BY <1>2, QueueFacts
<1>5. TypeOK' /\ Entries' /\ Sent' /\ Places'
  BY <1>1, <1>2, <1>3 DEF TypeOK, Entries, Sent, Places, OneDonePerCall
<1>6. SignalsDue' /\ FinishedOnce'
  BY <1>1, <1>2, <1>3 DEF SignalsDue, FinishedOnce, TypeOK
<1>7. CompletionsExpected' /\ WatcherToWaitOn' /\ JobsAreAlive'
  BY <1>1, <1>2, <1>4 DEF CompletionsExpected, WatcherToWaitOn, JobsAreAlive
<1>8. QED
  BY <1>5, <1>6, <1>7 DEF ClientInv

(* The done() that a destructor queued. *)
LEMMA PumpStep == ASSUME ClientInv, NEW r \in Requests, pump_limiter(r) PROVE ClientInv'
<1>1. /\ TypeOK /\ Places /\ Entries /\ Sent /\ SignalsDue
      /\ CompletionsExpected /\ WatcherToWaitOn /\ JobsAreAlive /\ FinishedOnce
  BY DEF ClientInv
<1>2. /\ r \in pumps /\ blocked = None /\ pumps' = pumps \ {r} /\ L!done
      /\ watcher' = watcher \union L!NextJob
      /\ UNCHANGED <<live, gone, finished, valid, cancelled, cancelledWhileWaiting, fakes,
                     signals, emitted, blocked>>
  BY DEF pump_limiter
<1>3. /\ list' \in Seq(Requests) /\ cleared' \subseteq Range(list')
      /\ \A i, j \in 1..Len(list') : list'[i] = list'[j] => i = j
      /\ Range(list') \subseteq Range(list)
      /\ L!NextJob \subseteq L!Live /\ L!Live' = L!Live \ L!NextJob
      /\ L!NextJob \intersect Range(list') = {}
      /\ running > 0 /\ running' \in Nat
  BY <1>2, DoneEffect
<1>4. L!NextJob \subseteq live \ (finished \union cancelled \union watcher)
  BY <1>1, <1>3, QueueFacts DEF JobsAreAlive, Entries
<1>5. TypeOK' /\ Entries' /\ SignalsDue' /\ FinishedOnce'
  BY <1>1, <1>2, <1>3, <1>4 DEF TypeOK, Entries, SignalsDue, FinishedOnce
<1>6. Sent'
  <2>1. watcher' \intersect Range(list') \subseteq {blocked'}
    BY <1>1, <1>2, <1>3 DEF Sent
  <2>2. watcher' \intersect cancelledWhileWaiting' = {}
    BY <1>1, <1>2, <1>4 DEF Sent, TypeOK
  <2>3. QED
    BY <2>1, <2>2 DEF Sent
<1>7. CompletionsExpected' /\ WatcherToWaitOn' /\ JobsAreAlive'
  BY <1>1, <1>2, <1>3, <1>4 DEF CompletionsExpected, WatcherToWaitOn, JobsAreAlive
<1>8. Places'
  <2>1. /\ IsFiniteSet(pumps') /\ Cardinality(pumps') = Cardinality(pumps) - 1
        /\ Cardinality(watcher) \in Nat /\ Cardinality(pumps) \in Nat /\ IsFiniteSet(watcher)
    BY <1>1, <1>2, FS_RemoveElement, FS_CardinalityType DEF Places
  <2>2. CASE L!NextJob = {} /\ running' = running - 1
    <3>1. watcher' = watcher
      BY <1>2, <2>2
    <3>2. QED
      BY <1>1, <2>1, <2>2, <3>1 DEF Places, OneDonePerCall
  <2>3. ASSUME NEW f \in Requests, L!NextJob = {f}, running' = running PROVE Places'
    <3>1. watcher' = watcher \union {f} /\ f \notin watcher
      BY <1>2, <1>4, <2>3
    <3>2. IsFiniteSet(watcher') /\ Cardinality(watcher') = Cardinality(watcher) + 1
      BY <2>1, <3>1, FS_AddElement
    <3>3. QED
      BY <1>1, <2>1, <2>3, <3>2 DEF Places, OneDonePerCall
  <2>4. QED
    BY <1>2, <2>2, <2>3, DoneEffect
<1>9. QED
  BY <1>5, <1>6, <1>7, <1>8 DEF ClientInv
-----------------------------------------------------------------------------
(* Every step of the plugin and of the application is, for the library,    *)
(* one of its own or one that destroys a request after cancelling it.      *)
Dismiss(r) == release(r) /\ cancelled' \in {cancelled, cancelled \union {r}}
ClientStep(r) == get(r) \/ cancel(r) \/ waitForFinished(r) \/ Dismiss(r) \/ Event(r)

LEMMA ClientSteps ==
    ASSUME [NextResponse]_allVars
    PROVE  UNCHANGED vars \/ \E r \in Requests : ClientStep(r)
<1>1. ASSUME NEW r \in Requests, Call(r) PROVE ClientStep(r)
  BY <1>1 DEF Call, destroy, ClientStep, Dismiss
<1>2. ASSUME NEW r \in Wrapped, Provider(r) PROVE UNCHANGED vars \/ ClientStep(r)
  <2>1. CASE requestThumbnail(r)
    BY <2>1 DEF requestThumbnail, ClientStep
  <2>2. CASE errorResponse(r)
    BY <2>2 DEF errorResponse
  <2>3. CASE cancelResponse(r)
    BY <2>3 DEF cancelResponse, ClientStep
  <2>4. CASE deleteResponse(r)
    <3>1. CASE release(r) /\ cancelled' = (IF r \in finished THEN cancelled
                                           ELSE cancelled \union {r})
      BY <3>1 DEF ClientStep, Dismiss
    <3>2. QED
      BY <2>4, <3>1 DEF deleteResponse
  <2>5. QED
    BY <1>2, <2>1, <2>2, <2>3, <2>4 DEF Provider, requestArt
<1>3. ASSUME NEW r \in Requests, EventWithSlot(r) PROVE ClientStep(r)
  BY <1>3 DEF EventWithSlot, ClientStep
<1>4. ASSUME NEW r \in Wrapped, signalError(r) PROVE UNCHANGED vars
  BY <1>4 DEF signalError
<1>5. ASSUME UNCHANGED allVars PROVE UNCHANGED vars
  BY <1>5 DEF allVars
<1>6. QED
  BY <1>1, <1>2, <1>3, <1>4, <1>5, WrappedAssumption DEF NextResponse

LEMMA NextClient ==
    ASSUME ClientInv, UNCHANGED vars \/ \E r \in Requests : ClientStep(r)
    PROVE  ClientInv'
<1>1. CASE UNCHANGED vars
  <2>1. UNCHANGED <<running, list, cleared, live, gone, finished, valid, cancelled,
                    cancelledWhileWaiting, watcher, fakes, signals, pumps, emitted, blocked>>
    BY <1>1 DEF vars
  <2>2. L!Live' = L!Live
    BY <2>1, QueueFacts
  <2>3. QED
    BY <2>1, <2>2 DEF ClientInv, TypeOK, Places, OneDonePerCall, Entries, Sent, SignalsDue,
       CompletionsExpected, WatcherToWaitOn, JobsAreAlive, FinishedOnce
<1>2. ASSUME NEW r \in Requests, ClientStep(r) PROVE ClientInv'
  <2>1. CASE get(r)
    BY <2>1, CreateStep, InvalidStep DEF get
  <2>2. CASE Dismiss(r)
    BY <2>2, ReleaseStep DEF Dismiss
  <2>3. CASE Event(r)
    BY <2>3, ReplyStep, FakeReplyStep, SignalStep, PumpStep DEF Event
  <2>4. QED
    BY <1>2, <2>1, <2>2, <2>3, CancelStep, WaitStep DEF ClientStep
<1>3. QED
  BY <1>1, <1>2
-----------------------------------------------------------------------------
(* What the steps of the library do to the signal, the image and the life  *)
(* of a request, which is all that a response sees of it.                  *)
LEMMA SameForResponse ==
    ASSUME ClientInv, NEW r \in Requests, Event(r)
    PROVE  /\ UNCHANGED <<live, gone>>
           /\ \A q \in Requests \ {r} : emitted'[q] = emitted[q]
           /\ \A q \in Requests \ {r} : q \in valid' <=> q \in valid
           /\ \/ emitted'[r] = emitted[r] /\ (r \in valid' <=> r \in valid)
              \/ r \in live /\ emitted[r] = 0 /\ emitted'[r] = 1
<1>1. TypeOK /\ SignalsDue /\ CompletionsExpected /\ emitted \in [Requests -> Nat]
  BY DEF ClientInv, TypeOK
<1>2. ASSUME r \in live \ finished, NEW ok \in BOOLEAN, complete(r, ok)
      PROVE  /\ \A q \in Requests \ {r} : emitted'[q] = emitted[q]
             /\ \A q \in Requests \ {r} : q \in valid' <=> q \in valid
             /\ emitted[r] = 0 /\ emitted'[r] = 1
  BY <1>2, CompleteKeeps
<1>3. CASE Reply(r)
  <2>1. r \in live \ finished /\ UNCHANGED <<live, gone>>
    BY <1>1, <1>3 DEF Reply, TypeOK, CompletionsExpected
  <2>2. PICK ok \in BOOLEAN : complete(r, ok /\ r \notin cancelled)
    BY <1>3 DEF Reply, dbusCallFinished
  <2>3. (ok /\ r \notin cancelled) \in BOOLEAN
    OBVIOUS
  <2>4. QED
    BY <1>2, <2>1, <2>2, <2>3
<1>4. CASE FakeReply(r)
  <2>1. r \in live \ finished /\ UNCHANGED <<live, gone>>
    BY <1>1, <1>4 DEF FakeReply, TypeOK, CompletionsExpected
  <2>2. complete(r, FALSE /\ r \notin cancelled)
    BY <1>4 DEF FakeReply, dbusCallFinished
  <2>3. (FALSE /\ r \notin cancelled) \in BOOLEAN
    OBVIOUS
  <2>4. QED
    BY <1>2, <2>1, <2>2, <2>3
<1>5. CASE SignalInvalid(r)
  <2>1. /\ r \in live /\ emitted[r] = 0 /\ UNCHANGED <<live, gone, valid>>
        /\ emitted' = [emitted EXCEPT ![r] = emitted[r] + 1]
    BY <1>1, <1>5 DEF SignalInvalid, TypeOK, SignalsDue
  <2>2. QED
    BY <1>1, <2>1
<1>6. CASE pump_limiter(r)
  BY <1>6 DEF pump_limiter
<1>7. QED
  BY <1>3, <1>4, <1>5, <1>6 DEF Event

(* Responses that see nothing of a step. *)
LEMMA OthersKept ==
    ASSUME IInv, NEW q \in Wrapped, response'[q] = response[q], notified'[q] = notified[q],
           q \in errorString' <=> q \in errorString,
           q \in live' <=> q \in live, q \in gone' <=> q \in gone,
           q \in valid' <=> q \in valid, emitted'[q] = emitted[q]
    PROVE  Wraps(q)'
  BY DEF IInv, Wraps

LEMMA EventStep == ASSUME IInv, NEW r \in Requests, EventWithSlot(r) PROVE IInv'
<1>1. ClientInv /\ ResponsesOK /\ Event(r) /\ \A q \in Wrapped : Wraps(q)
  BY DEF IInv, EventWithSlot
<1>2. ClientInv'
  BY <1>1, NextClient DEF ClientStep
<1>3. /\ UNCHANGED <<live, gone>>
      /\ \A q \in Requests \ {r} : emitted'[q] = emitted[q]
      /\ \A q \in Requests \ {r} : q \in valid' <=> q \in valid
      /\ \/ emitted'[r] = emitted[r] /\ (r \in valid' <=> r \in valid)
         \/ r \in live /\ emitted[r] = 0 /\ emitted'[r] = 1
  BY <1>1, SameForResponse
<1>4. emitted[r] \in Nat
  BY <1>1 DEF ClientInv, TypeOK
<1>5. CASE r \in Wrapped /\ emitted'[r] > emitted[r]
  <2>1. requestFinished(r) /\ r \in live /\ emitted[r] = 0 /\ emitted'[r] = 1
    BY <1>3, <1>4, <1>5 DEF EventWithSlot
  <2>2. /\ response[r] = "open" /\ notified[r] = 0 /\ r \notin errorString
    BY <1>1, <1>5, <2>1 DEF Wraps
  <2>3. /\ response' = response /\ notified' \in [Wrapped -> Nat] /\ notified'[r] = 1
        /\ \A q \in Wrapped \ {r} : notified'[q] = notified[q]
        /\ errorString' = IF r \in valid' THEN errorString ELSE errorString \union {r}
    BY <1>1, <1>5, <2>1, <2>2 DEF requestFinished, ResponsesOK
  <2>4. ResponsesOK'
    BY <1>1, <1>5, <2>3 DEF ResponsesOK
  <2>5. Wraps(r)'
    BY <1>1, <1>3, <1>5, <2>1, <2>2, <2>3 DEF Wraps
  <2>6. ASSUME NEW q \in Wrapped \ {r} PROVE Wraps(q)'
    <3>1. q \in errorString' <=> q \in errorString
      BY <2>3, <2>6
    <3>2. QED
      BY <1>3, <2>3, <2>6, <3>1, OthersKept, WrappedAssumption
  <2>7. QED
    BY <1>2, <2>4, <2>5, <2>6 DEF IInv
<1>6. CASE ~(r \in Wrapped /\ emitted'[r] > emitted[r])
  <2>1. UNCHANGED <<response, notified, errorString>>
    BY <1>6 DEF EventWithSlot, responseVars
  <2>2. ResponsesOK'
    BY <1>1, <2>1 DEF ResponsesOK
  <2>3. ASSUME NEW q \in Wrapped PROVE Wraps(q)'
    <3>1. emitted'[q] = emitted[q] /\ (q \in valid' <=> q \in valid)
      BY <1>3, <1>4, <1>6, WrappedAssumption
    <3>2. QED
      BY <1>3, <2>1, <3>1, OthersKept
  <2>4. QED
    BY <1>2, <2>2, <2>3 DEF IInv
<1>7. QED
  BY <1>5, <1>6

(* A request of the application: no response is about it. *)
LEMMA CallStep ==
    ASSUME IInv, NEW r \in Requests \ Wrapped, Call(r), UNCHANGED responseVars PROVE IInv'
<1>1. ClientInv'
  BY NextClient DEF IInv, ClientStep, Call, destroy, Dismiss
<1>2. /\ UNCHANGED <<emitted, valid, response, notified, errorString>>
      /\ live' \in {live, live \union {r}, live \ {r}} /\ gone' \in {gone, gone \union {r}}
  BY DEF Call, get, createRequest, createInvalidRequest, cancel, waitForFinished, destroy,
     release, responseVars
<1>3. ASSUME NEW q \in Wrapped PROVE Wraps(q)'
  <2>1. q # r
    BY <1>3
  <2>2. (q \in live' <=> q \in live) /\ (q \in gone' <=> q \in gone)
    BY <1>2, <2>1
  <2>3. QED
    BY <1>2, <2>2, OthersKept
<1>4. QED
  BY <1>1, <1>2, <1>3 DEF IInv, ResponsesOK

(* A response takes on another state; all others keep theirs. *)
LEMMA BecomeKeeps ==
    ASSUME IInv, ClientInv', NEW r \in Wrapped, NEW what \in {"open", "invalid", "deleted"},
           Become(r, what), UNCHANGED <<notified, emitted, valid>>,
           errorString' \in {errorString, errorString \union {r}},
           live' \in {live, live \union {r}, live \ {r}}, gone' \in {gone, gone \union {r}},
           Wraps(r)'
    PROVE  IInv'
<1>1. ResponsesOK
  BY DEF IInv
<1>2. ResponsesOK' /\ \A q \in Wrapped \ {r} : response'[q] = response[q]
  BY <1>1 DEF ResponsesOK, Become
<1>3. ASSUME NEW q \in Wrapped \ {r} PROVE Wraps(q)'
  <2>1. /\ (q \in live' <=> q \in live) /\ (q \in gone' <=> q \in gone)
        /\ (q \in errorString' <=> q \in errorString)
    BY <1>3
  <2>2. QED
    BY <1>2, <2>1, OthersKept
<1>4. QED
  BY <1>2, <1>3 DEF IInv

LEMMA ProviderStep == ASSUME IInv, NEW r \in Wrapped, Provider(r) PROVE IInv'
<1>1. /\ ClientInv /\ ResponsesOK /\ Wraps(r) /\ r \in Requests /\ TypeOK /\ FinishedOnce
      /\ response \in [Wrapped -> {"none", "open", "invalid", "deleted"}]
  BY WrappedAssumption DEF IInv, ClientInv, ResponsesOK
<1>2. CASE requestThumbnail(r)
  <2>1. ClientInv'
    BY <1>1, <1>2, NextClient DEF requestThumbnail, ClientStep
  <2>2. /\ response[r] = "none" /\ Become(r, "open") /\ UNCHANGED <<notified, errorString>>
        /\ live' = live \union {r} /\ UNCHANGED <<gone, emitted, valid>>
        /\ r \notin live /\ r \notin gone
    BY <1>2 DEF requestThumbnail, get, createRequest, createInvalidRequest, Unborn
  <2>3. emitted[r] = 0
    BY <1>1, <2>2 DEF TypeOK, FinishedOnce
  <2>4. response'[r] = "open"
    BY <1>1, <2>2 DEF Become
  <2>5. Wraps(r)'
    BY <1>1, <2>2, <2>3, <2>4 DEF Wraps
  <2>6. QED
    BY <2>1, <2>2, <2>5, BecomeKeeps
<1>3. CASE response[r] = "none" /\ errorResponse(r)
  <2>1. ClientInv'
    BY <1>1, <1>3, NextClient DEF errorResponse
  <2>2. /\ Become(r, "invalid") /\ errorString' = errorString \union {r} /\ notified' = notified
        /\ UNCHANGED <<live, gone, emitted, valid>>
    BY <1>3 DEF errorResponse, vars
  <2>3. response'[r] = "invalid"
    BY <1>1, <2>2 DEF Become
  <2>4. Wraps(r)'
    BY <1>1, <1>3, <2>2, <2>3 DEF Wraps
  <2>5. QED
    BY <2>1, <2>2, <2>4, BecomeKeeps
<1>4. CASE cancelResponse(r)
  <2>1. ClientInv'
    BY <1>1, <1>4, NextClient DEF cancelResponse, ClientStep
  <2>2. UNCHANGED <<live, gone, emitted, valid, response, notified, errorString>>
    BY <1>4 DEF cancelResponse, cancel, responseVars
  <2>3. \A q \in Wrapped : Wraps(q)'
    BY <2>2, OthersKept
  <2>4. QED
    BY <1>1, <2>1, <2>2, <2>3 DEF IInv, ResponsesOK
<1>5. CASE deleteResponse(r)
  <2>1. ClientInv'
    <3>1. CASE release(r) /\ cancelled' = (IF r \in finished THEN cancelled
                                           ELSE cancelled \union {r})
      BY <1>1, <3>1, NextClient DEF ClientStep, Dismiss
    <3>2. CASE UNCHANGED vars
      BY <1>1, <3>2, NextClient
    <3>3. QED
      BY <1>5, <3>1, <3>2 DEF deleteResponse
  <2>2. /\ Become(r, "deleted") /\ UNCHANGED <<notified, errorString, emitted, valid>>
    BY <1>5 DEF deleteResponse, release, vars
  <2>3. /\ live' \in {live, live \ {r}} /\ gone' \in {gone, gone \union {r}} /\ r \notin live'
    BY <1>1, <1>5 DEF deleteResponse, release, vars, Wraps
  <2>4. response'[r] = "deleted"
    BY <1>1, <2>2 DEF Become
  <2>5. Wraps(r)'
    BY <1>1, <2>2, <2>3, <2>4 DEF Wraps
  <2>6. QED
    BY <2>1, <2>2, <2>3, <2>5, BecomeKeeps
<1>6. QED
  BY <1>2, <1>3, <1>4, <1>5 DEF Provider, requestArt

LEMMA SignalErrorStep == ASSUME IInv, NEW r \in Wrapped, signalError(r) PROVE IInv'
<1>1. /\ ClientInv /\ ResponsesOK /\ Wraps(r) /\ ClientInv'
  BY NextClient DEF IInv, signalError
<1>2. /\ response[r] = "invalid" /\ UNCHANGED <<live, gone, emitted, valid, response, errorString>>
      /\ notified' \in [Wrapped -> Nat] /\ notified'[r] = 1
      /\ \A q \in Wrapped \ {r} : notified'[q] = notified[q]
  BY <1>1 DEF signalError, vars, ResponsesOK
<1>3. Wraps(r)'
  BY <1>1, <1>2 DEF Wraps
<1>4. ASSUME NEW q \in Wrapped \ {r} PROVE Wraps(q)'
  BY <1>2, <1>4, OthersKept
<1>5. QED
  BY <1>1, <1>2, <1>3, <1>4 DEF IInv, ResponsesOK

LEMMA NextIInv == IInv /\ [NextResponse]_allVars => IInv'
<1> SUFFICES ASSUME IInv, [NextResponse]_allVars PROVE IInv'
  OBVIOUS
<1>1. CASE UNCHANGED allVars
  <2>1. UNCHANGED vars /\ UNCHANGED <<response, notified, errorString>>
    BY <1>1 DEF allVars, responseVars
  <2>2. ClientInv' /\ UNCHANGED <<live, gone, emitted, valid>>
    BY <2>1, NextClient DEF IInv, vars
  <2>3. \A q \in Wrapped : Wraps(q)'
    BY <2>1, <2>2, OthersKept
  <2>4. QED
    BY <2>1, <2>2, <2>3 DEF IInv, ResponsesOK
<1>2. QED
  BY <1>1, EventStep, CallStep, ProviderStep, SignalErrorStep DEF NextResponse

LEMMA InitIInv == InitResponses => IInv
<1> SUFFICES ASSUME InitResponses PROVE IInv
  OBVIOUS
<1>1. ClientInv /\ live = {} /\ gone = {}
  BY InitClient DEF InitResponses, Init
<1>2. QED
  BY <1>1 DEF InitResponses, IInv, ResponsesOK, Wraps

(* The inductive invariant holds in every state of the application. *)
THEOREM ResponseSpecIInv == ResponseSpec => []IInv
  BY InitIInv, NextIInv, PTL DEF ResponseSpec
-----------------------------------------------------------------------------
(* For every set of requests and every max_backlog: the limiter counts     *)
(* exactly the calls whose done() is owed, no completion surprises its     *)
(* request, finished() is emitted once, and a response that has finished   *)
(* has either its error or its picture.                                    *)
THEOREM BooksAreKept == ResponseSpec => []Bookkeeping
<1>1. IInv => Bookkeeping
  <2>1. SUFFICES ASSUME IInv PROVE Bookkeeping
    OBVIOUS
  <2>2. ResponsesComplete
    <3>1. SUFFICES ASSUME NEW r \in Wrapped
                   PROVE  /\ notified[r] <= 1
                          /\ response[r] \in {"open", "invalid"} /\ notified[r] = 1 =>
                                (r \notin errorString <=> textureFactory(r) = "image")
      BY DEF ResponsesComplete
    <3>2. Wraps(r)
      BY <2>1 DEF IInv
    <3>3. QED
      BY <3>2 DEF Wraps, textureFactory
  <2>3. QED
    BY <2>1, <2>2 DEF IInv, ClientInv, Places, Bookkeeping
<1>2. QED
  BY <1>1, ResponseSpecIInv, PTL

(* What the library does with its limiter is one of the uses that          *)
(* RateLimiter allows: it schedules a request once, forces only one that   *)
(* waits, and completes only what was sent.                                *)
LEMMA LimiterStep ==
    ASSUME ClientInv, UNCHANGED vars \/ \E r \in Requests : ClientStep(r)
    PROVE  L!Next \/ UNCHANGED L!vars
<1>1. /\ TypeOK /\ Entries /\ Sent /\ CompletionsExpected /\ WatcherToWaitOn /\ JobsAreAlive
      /\ None \notin Requests
  BY NoneAssumption DEF ClientInv
<1>2. ASSUME UNCHANGED <<running, list, cleared>>,
             watcher' \union pumps' = watcher \union pumps
      PROVE  UNCHANGED L!vars
  BY <1>2 DEF L!vars
<1>3. CASE UNCHANGED vars
  BY <1>2, <1>3 DEF vars
<1>4. ASSUME NEW r \in Requests, createRequest(r) PROVE L!Next
  <2>1. r \notin watcher \union pumps /\ ~L!IsQueued(r)
    BY <1>1, <1>4, QueueFacts DEF createRequest, Unborn, TypeOK, Entries
  <2>2. watcher' \union pumps' = IF L!HasRoom THEN (watcher \union pumps) \union {r}
                                 ELSE watcher \union pumps
    BY <1>4 DEF createRequest
  <2>3. L!Schedule(r)
    BY <1>4, <2>1, <2>2 DEF createRequest, L!Schedule, L!Fresh
  <2>4. QED
    BY <2>3 DEF L!Next, L!QueuedNext
<1>5. ASSUME NEW r \in Requests, createInvalidRequest(r) PROVE UNCHANGED L!vars
  BY <1>2, <1>5 DEF createInvalidRequest
<1>6. ASSUME NEW r \in Requests, L!cancel(r),
             watcher' \union pumps' = watcher \union pumps
      PROVE  L!Next \/ UNCHANGED L!vars
  <2>1. CASE L!IsQueued(r)
    BY <1>6, <2>1 DEF L!Cancel, L!Next, L!QueuedNext
  <2>2. CASE ~L!IsQueued(r)
    BY <1>2, <1>6, <2>2 DEF L!cancel
  <2>3. QED
    BY <2>1, <2>2
<1>7. ASSUME NEW r \in Requests, cancel(r) PROVE L!Next \/ UNCHANGED L!vars
  BY <1>6, <1>7 DEF cancel
<1>8. ASSUME NEW r \in Requests, waitForFinished(r) PROVE L!Next \/ UNCHANGED L!vars
  <2>1. CASE ~L!IsQueued(r)
    BY <1>2, <1>8, <2>1 DEF waitForFinished
  <2>2. CASE L!IsQueued(r)
    <3>1. r \in L!Live
      BY <1>1, <1>8, <2>2, QueueFacts DEF waitForFinished, WatcherToWaitOn, Sent
    <3>2. watcher' \union pumps' = (watcher \union pumps) \union {r}
      BY <1>8, <2>2 DEF waitForFinished
    <3>3. L!RunNow(r)
      BY <1>8, <2>2, <3>1, <3>2 DEF waitForFinished, L!RunNow
    <3>4. QED
      BY <3>3 DEF L!Next
  <2>3. QED
    BY <2>1, <2>2
<1>9. ASSUME NEW r \in Requests, Dismiss(r) PROVE L!Next \/ UNCHANGED L!vars
  <2>1. r \in watcher => ~L!IsQueued(r)
    BY <1>1, <1>9, QueueFacts DEF Dismiss, release, Sent
  <2>2. watcher' \union pumps' = watcher \union pumps
    BY <1>9, <2>1 DEF Dismiss, release
  <2>3. QED
    BY <1>6, <1>9, <2>2 DEF Dismiss, release
<1>10. ASSUME NEW r \in Requests, r \in watcher \union pumps, L!done,
              watcher' \union pumps' = ((watcher \union pumps) \ {r}) \union L!NextJob
       PROVE  L!Next
  BY <1>10 DEF L!Done, L!Next, L!QueuedNext
<1>11. ASSUME NEW r \in Requests, Reply(r) PROVE L!Next
  <2>1. r \in watcher /\ r \notin pumps /\ r \notin cancelledWhileWaiting
    BY <1>1, <1>11 DEF Reply, TypeOK, Sent
  <2>2. L!done /\ watcher' = (watcher \ {r}) \union L!NextJob /\ pumps' = pumps
    BY <1>11, <2>1 DEF Reply, dbusCallFinished
  <2>3. watcher' \union pumps' = ((watcher \union pumps) \ {r}) \union L!NextJob
    BY <2>1, <2>2
  <2>4. QED
    BY <1>10, <2>1, <2>2, <2>3
<1>12. ASSUME NEW r \in Requests, FakeReply(r) PROVE UNCHANGED L!vars
  <2>1. r \in cancelled \intersect cancelledWhileWaiting /\ r \notin watcher
    BY <1>1, <1>12 DEF FakeReply, CompletionsExpected
  <2>2. watcher' = watcher /\ pumps' = pumps /\ UNCHANGED <<running, list, cleared>>
    BY <1>12, <2>1 DEF FakeReply, dbusCallFinished, limiterVars
  <2>3. QED
    BY <1>2, <2>2
<1>13. ASSUME NEW r \in Requests, SignalInvalid(r) PROVE UNCHANGED L!vars
  BY <1>2, <1>13 DEF SignalInvalid
<1>14. ASSUME NEW r \in Requests, pump_limiter(r) PROVE L!Next
  <2>1. r \in pumps /\ r \notin watcher /\ L!done
    BY <1>1, <1>14 DEF pump_limiter, TypeOK
  <2>2. watcher' \union pumps' = ((watcher \union pumps) \ {r}) \union L!NextJob
    BY <1>14, <2>1 DEF pump_limiter
  <2>3. QED
    BY <1>10, <2>1, <2>2
<1>15. QED
  BY <1>3, <1>4, <1>5, <1>7, <1>8, <1>9, <1>11, <1>12, <1>13, <1>14
     DEF ClientStep, get, Event

(* The client library, under the plugin and the application, implements    *)
(* RateLimiter: one done() for every request that was sent, none twice,    *)
(* whatever is cancelled, waited for or destroyed.  What is proved of the  *)
(* limiter therefore holds in the library.                                 *)
THEOREM LibraryUsesLimiter == ResponseSpec => UsesLimiter
<1>1. InitResponses => L!Init
  BY DEF InitResponses, Init, L!Init
<1>2. IInv /\ [NextResponse]_allVars => [L!Next]_(L!vars)
  <2>1. SUFFICES ASSUME IInv, [NextResponse]_allVars PROVE L!Next \/ UNCHANGED L!vars
    OBVIOUS
  <2>2. QED
    BY <2>1, ClientSteps, LimiterStep DEF IInv
<1>3. QED
  BY <1>1, <1>2, ResponseSpecIInv, PTL DEF ResponseSpec, UsesLimiter, L!Spec
=============================================================================
