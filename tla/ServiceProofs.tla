---------------------------- MODULE ServiceProofs ----------------------------
(***************************************************************************)
(* The service for every number of requests, keys, callers and places: the *)
(* chains of request_keys_ keep requests for one key apart, which is why   *)
(* nothing is downloaded twice; replies, the count of handlers and the     *)
(* places of the limiter are exact whatever is refused, throws or is       *)
(* destroyed at shutdown.                                                  *)
(***************************************************************************)
EXTENDS Service, TLAPS, FiniteSetTheorems, SequenceTheorems

(* Requests that a vector of request_keys_ should hold. *)
Alive(h) == stage[h] \notin {"none"} \union Over

(* A vector holds requests for its key, each once.  The first is worked    *)
(* on, every other one waits for the one before it.                        *)
InOrder ==
    \A k \in Keys : \A i \in 1..Len(chain[k]) :
       /\ KeyOf[chain[k][i]] = k
       /\ \A j \in 1..Len(chain[k]) : chain[k][i] = chain[k][j] => i = j
       /\ i = 1 => stage[chain[k][i]] \in Working
       /\ i > 1 => stage[chain[k][i]] = "chained" /\ pred[chain[k][i]] = chain[k][i - 1]

(* Who is not in one is about to be pushed on one that is empty. *)
InChain(h) == \E i \in 1..Len(chain[KeyOf[h]]) : chain[KeyOf[h]][i] = h
Everyone == \A h \in Handlers : Alive(h) => InChain(h) \/ pushing = h
Pushing == pushing # None => chain[KeyOf[pushing]] = <<>> /\ stage[pushing] \notin Waiting

(* The destructors that run at shutdown leave the vectors as they are. *)
ChainsKept == status = "up" => InOrder /\ Everyone /\ Pushing

(* A waiting entry of list_ is that of a queued request, or was cleared    *)
(* when its request was destroyed.                                         *)
Queue ==
    /\ \A i \in 1..Len(list) : \/ stage[list[i]] = "queued"
                               \/ stage[list[i]] = "gone" /\ list[i] \in cleared
    /\ \A i, j \in 1..Len(list) : list[i] = list[j] => i = j

(* Every download has a place; a job that threw keeps one for nothing. *)
PlacesTaken ==
    /\ IsFiniteSet(Downloading)
    /\ Cardinality(Downloading) <= running /\ running <= Limit

Counted == IsFiniteSet(Existing) /\ IdleMeansIdle

(* What check() found is still true when the download starts. *)
StillMissing ==
    \A h \in Handlers :
       stage[h] = "queued" \/ (stage[h] = "checked" /\ result[h] = "download")
          => KeyOf[h] \notin stored

(* create() leaves an image or an error. *)
Outcome == \A h \in Handlers : stage[h] = "created" => result[h] \in {"image", "error"}

IInv ==
    /\ TypeOK /\ OneReply /\ Outcome /\ Counted /\ PlacesTaken /\ Queue
    /\ OneAtATime /\ ChainsKept /\ StillMissing
-----------------------------------------------------------------------------
(* Removing a request that is only in front of its vector. *)
LEMMA WithoutFirst ==
    ASSUME NEW S, NEW s \in Seq(S), NEW e, s # <<>>,
           \A i \in 1..Len(s) : s[i] = e <=> i = 1
    PROVE  /\ Without(s, e) \in Seq(S) /\ Len(Without(s, e)) = Len(s) - 1
           /\ \A j \in 1..(Len(s) - 1) : Without(s, e)[j] = s[j + 1]
<1> DEFINE n == Len(s)
           kept == {i \in 1..n : s[i] # e}
           nth(j) == CHOOSE i \in kept : Cardinality({m \in kept : m <= i}) = j
           t == [j \in 1..(n - 1) |-> s[j + 1]]
<1>1. n \in Nat \ {0} /\ \A i \in 1..n : s[i] \in S
  BY EmptySeq, ElementOfSeq
<1>2. kept = 2..n
  <2>1. \A i \in 1..n : s[i] = e <=> i = 1
    OBVIOUS
  <2> HIDE DEF n
  <2>2. \A i : i \in kept <=> i \in 2..n
    BY <1>1, <2>1
  <2>3. QED
    BY <2>2, Zenon
<1>3. Cardinality(kept) = n - 1
  <2>1. Cardinality(2..n) = IF 2 > n THEN 0 ELSE n - 2 + 1
    BY <1>1, FS_Interval
  <2> HIDE DEF n, kept
  <2>2. Cardinality(2..n) = n - 1
    BY <1>1, <2>1
  <2>3. QED
    BY <1>2, <2>2
<1>4. \A i \in kept : Cardinality({m \in kept : m <= i}) = i - 1
  <2>1. SUFFICES ASSUME NEW i \in 2..n PROVE Cardinality({m \in 2..n : m <= i}) = i - 1
    BY <1>2
  <2>2. {m \in 2..n : m <= i} = 2..i
    <3> HIDE DEF n
    <3>1. \A m : m \in {x \in 2..n : x <= i} <=> m \in 2..i
      BY <1>1
    <3>2. QED
      BY <3>1, Zenon
  <2>3. Cardinality(2..i) = IF 2 > i THEN 0 ELSE i - 2 + 1
    BY FS_Interval
  <2>4. Cardinality(2..i) = i - 1
    BY <2>3
  <2>5. QED
    BY <2>2, <2>4, Zenon
<1>5. \A j \in 1..(n - 1) : nth(j) = j + 1
  <2>1. SUFFICES ASSUME NEW j \in 1..(n - 1) PROVE nth(j) = j + 1
    OBVIOUS
  <2>2. j + 1 \in kept /\ (j + 1) - 1 = j
    BY <1>1, <1>2
  <2>3. \A i \in kept : i - 1 = j => i = j + 1
    BY <1>1, <1>2
  <2>4. QED
    BY <1>4, <2>2, <2>3
<1>6. Without(s, e) = [j \in 1..Cardinality(kept) |-> s[nth(j)]]
  BY DEF Without
<1>7. Without(s, e) = t
  BY <1>3, <1>5, <1>6
<1> HIDE DEF n
<1>8. \A j \in 1..(n - 1) : t[j] = s[j + 1] /\ s[j + 1] \in S
  BY <1>1
<1>9. t \in Seq(S) /\ Len(t) = n - 1
  BY <1>1, <1>8
<1>10. QED
  BY <1>7, <1>8, <1>9 DEF n

LEMMA WithoutNone == ASSUME NEW e PROVE Without(<<>>, e) = <<>>
<1>1. {i \in 1..Len(<<>>) : <<>>[i] # e} = {}
  OBVIOUS
<1>2. 1..Cardinality({}) = {}
  BY FS_EmptySet
<1>3. QED
  BY <1>1, <1>2 DEF Without
-----------------------------------------------------------------------------
(* Types of one handler. *)
LEMMA StageFacts ==
    /\ Working \intersect Over = {} /\ Working \intersect Waiting = {}
    /\ "none" \notin Working /\ "chained" \notin Working /\ "gone" \notin Working
    /\ "replied" \notin Working
    /\ {"begin", "creds", "called", "check", "checked", "queued", "download", "create",
        "created"} \subseteq Working
    /\ Working \subseteq Stages
  BY DEF Working, Over, Waiting, Stages

(* Nothing has arrived. *)
LEMMA InitIInv == Init => IInv
<1> SUFFICES ASSUME Init PROVE IInv
  OBVIOUS
<1>1. Existing = {} /\ Downloading = {}
  BY DEF Init, Existing, Downloading
<1>3. TypeOK
  <2>1. chain \in [Keys -> Seq(Handlers)] /\ list \in Seq(Handlers)
    BY DEF Init
  <2>2. cleared \subseteq Range(list)
    BY DEF Init
  <2>3. adminCalls \in 0..MaxAdminCalls
    BY RequestAssumption DEF Init
  <2>4. QED
    BY <2>1, <2>2, <2>3 DEF Init, TypeOK, Stages
<1>4. Counted /\ PlacesTaken
  BY <1>1, FS_EmptySet, LimitAssumption DEF Init, Counted, IdleMeansIdle, PlacesTaken
<1>5. ChainsKept
  BY DEF Init, ChainsKept, InOrder, Everyone, Pushing, Alive
<1>6. OneAtATime
  BY StageFacts DEF Init, OneAtATime
<1>7. OneReply /\ Outcome /\ Queue /\ StillMissing
  BY DEF Init, OneReply, Outcome, Queue, StillMissing, Over
<1>8. QED
  BY <1>3, <1>4, <1>5, <1>6, <1>7 DEF IInv
-----------------------------------------------------------------------------
(* How the stage of a request may change without a reply. *)
Drifts(h) ==
    \/ stage'[h] = stage[h]
    \/ stage[h] \in Working /\ stage'[h] \in Working
    \/ stage[h] = "replied" /\ stage'[h] = "gone"

(* Such steps leave the chains as they are. *)
LEMMA DriftKeeps ==
    ASSUME IInv, \A h \in Handlers : Drifts(h), UNCHANGED <<replies, chain, pred, pushing>>,
           status' = "up" => status = "up"
    PROVE  OneReply' /\ OneAtATime' /\ ChainsKept'
<1>1. \A h \in Handlers : /\ stage'[h] \in Working <=> stage[h] \in Working
                          /\ stage'[h] \in Over <=> stage[h] \in Over
                          /\ stage'[h] = "none" <=> stage[h] = "none"
                          /\ stage'[h] = "chained" <=> stage[h] = "chained"
                          /\ stage'[h] = "replied" => stage[h] = "replied"
  BY StageFacts DEF Drifts, Over
<1>2. OneReply'
  BY <1>1 DEF IInv, OneReply
<1>3. OneAtATime'
  BY <1>1 DEF IInv, OneAtATime
<1>4. ASSUME status' = "up" PROVE InOrder' /\ Everyone' /\ Pushing'
  <2>1. InOrder /\ Everyone /\ Pushing
    BY <1>4 DEF IInv, ChainsKept
  <2>2. \A k \in Keys : \A i \in 1..Len(chain[k]) : chain[k][i] \in Handlers
    BY ElementOfSeq DEF IInv, TypeOK
  <2>3. InOrder'
    BY <1>1, <2>1, <2>2 DEF InOrder
  <2>4. Everyone'
    BY <1>1, <2>1 DEF Everyone, Alive, InChain
  <2>5. Pushing'
    BY <1>1, <2>1 DEF Pushing, Waiting, IInv, TypeOK
  <2>6. QED
    BY <2>3, <2>4, <2>5
<1>5. QED
  BY <1>2, <1>3, <1>4 DEF ChainsKept

(* The reply of a request that is worked on: it is in front of its chain,  *)
(* or about to be pushed, and the one behind it begins.                    *)
LEMMA FinishKeeps ==
    ASSUME IInv, status = "up", NEW h \in Handlers, stage[h] \in Working, NEW r,
           finish(h, r), UNCHANGED <<pred, pushing>>
    PROVE  /\ OneReply' /\ OneAtATime' /\ ChainsKept' /\ chain' \in [Keys -> Seq(Handlers)]
           /\ stage' \in [Handlers -> Stages]
           /\ \A g \in Handlers : stage'[g] = stage[g]
                 \/ (g = h /\ stage'[g] = "replied")
                 \/ (stage[g] = "chained" /\ stage'[g] = "begin")
<1> DEFINE k == KeyOf[h]
           c == chain[k]
<1>1. /\ InOrder /\ Everyone /\ Pushing
      /\ chain \in [Keys -> Seq(Handlers)] /\ pushing \in Handlers \union {None}
      /\ stage \in [Handlers -> Stages] /\ replies \in [Handlers -> Nat]
      /\ k \in Keys /\ c \in Seq(Handlers) /\ \A g \in Handlers : KeyOf[g] \in Keys
  BY RequestAssumption DEF IInv, ChainsKept, TypeOK
<1>2. /\ \A g \in Handlers : stage'[g] = IF g = h THEN "replied"
                               ELSE IF stage[g] = "chained" /\ pred[g] = h THEN "begin"
                               ELSE stage[g]
      /\ replies' = [replies EXCEPT ![h] = @ + 1]
      /\ chain' = [chain EXCEPT ![k] = Without(c, h)]
  BY DEF finish, removeFromChain
<1>3. stage' \in [Handlers -> Stages]
  BY <1>1 DEF finish, Stages
<1>4. \A d \in Keys : \A i \in 1..Len(chain[d]) : chain[d][i] \in Handlers
  BY <1>1, ElementOfSeq
<1>5. OneReply'
  <2>1. replies[h] = 0
    BY StageFacts DEF IInv, OneReply
  <2>2. \A g \in Handlers : replies'[g] = IF g = h THEN 1 ELSE replies[g]
    BY <1>1, <1>2, <2>1
  <2>3. QED
    BY <1>2, <2>2 DEF IInv, OneReply, Over
(* Who waits for h is second in the chain of h. *)
<1>6. ASSUME NEW g \in Handlers, stage[g] = "chained", pred[g] = h
      PROVE  /\ KeyOf[g] = k /\ Len(c) >= 2 /\ c[2] = g /\ c[1] = h
             /\ 1 \in 1..Len(c) /\ 2 \in 1..Len(c)
  <2>0. pushing # g /\ Alive(g)
    BY <1>1, <1>6, RequestAssumption DEF Pushing, Waiting, Alive, Over
  <2>1. PICK i \in 1..Len(chain[KeyOf[g]]) : chain[KeyOf[g]][i] = g
    BY <1>1, <2>0 DEF Everyone, InChain
  <2>2. i > 1 /\ Len(chain[KeyOf[g]]) \in Nat
    BY <1>1, <1>6, <2>1, StageFacts, LenProperties DEF InOrder
  <2>3. chain[KeyOf[g]][i - 1] = h /\ i - 1 \in 1..Len(chain[KeyOf[g]])
    BY <1>1, <1>6, <2>1, <2>2 DEF InOrder
  <2>4. KeyOf[g] = k
    BY <1>1, <2>3 DEF InOrder
  <2>5. i - 1 = 1
    <3>1. stage[chain[KeyOf[g]][i - 1]] # "chained"
      BY <2>3, StageFacts
    <3>2. ~(i - 1 > 1)
      BY <1>1, <2>3, <3>1 DEF InOrder
    <3>3. QED
      BY <2>2, <2>3, <3>2
  <2>6. QED
    BY <2>1, <2>2, <2>3, <2>4, <2>5
<1>7. OneAtATime'
  <2>1. SUFFICES ASSUME NEW f \in Handlers, NEW g \in Handlers, KeyOf[f] = KeyOf[g],
                        stage'[f] \in Working, stage'[g] \in Working
                 PROVE  f = g
    BY DEF OneAtATime
  <2>2. f # h /\ g # h
    BY <1>2, <2>1, StageFacts
  <2>3. OneAtATime
    BY DEF IInv
  <2>4. CASE stage'[f] = stage[f] /\ stage'[g] = stage[g]
    BY <2>1, <2>3, <2>4 DEF OneAtATime
  <2>5. CASE stage'[f] # stage[f] /\ stage'[g] # stage[g]
    BY <1>2, <1>6, <2>2, <2>5
  <2>6. CASE stage'[f] # stage[f] /\ stage'[g] = stage[g]
    <3>1. KeyOf[f] = k
      BY <1>2, <1>6, <2>2, <2>6
    <3>2. g = h
      BY <2>1, <2>3, <2>6, <3>1 DEF OneAtATime
    <3>3. QED
      BY <2>2, <3>2
  <2>7. CASE stage'[f] = stage[f] /\ stage'[g] # stage[g]
    <3>1. KeyOf[g] = k
      BY <1>2, <1>6, <2>2, <2>7
    <3>2. f = h
      BY <2>1, <2>3, <2>7, <3>1 DEF OneAtATime
    <3>3. QED
      BY <2>2, <3>2
  <2>8. QED
    BY <2>4, <2>5, <2>6, <2>7
(* The chains afterwards. *)
<1>8. \/ c = <<>> /\ pushing = h
      \/ /\ c # <<>> /\ 1 \in 1..Len(c) /\ c[1] = h
         /\ \A i \in 1..Len(c) : c[i] = h <=> i = 1
  <2>1. Alive(h) /\ stage[h] # "chained"
    BY StageFacts DEF Alive
  <2>2. CASE pushing = h
    BY <1>1, <2>2, RequestAssumption DEF Pushing
  <2>3. ASSUME NEW i \in 1..Len(c), c[i] = h PROVE c # <<>> /\ i = 1
    <3>1. Len(c) \in Nat /\ i \in Nat /\ i >= 1
      BY <1>1, LenProperties
    <3>2. ~(i > 1)
      BY <1>1, <2>1, <2>3 DEF InOrder
    <3>3. QED
      BY <3>1, <3>2
  <2>4. QED
    BY <1>1, <2>1, <2>2, <2>3 DEF Everyone, InChain
<1>9. chain' \in [Keys -> Seq(Handlers)]
  <2>1. Without(c, h) \in Seq(Handlers)
    BY <1>1, <1>8, WithoutNone, WithoutFirst
  <2>2. QED
    BY <1>1, <1>2, <2>1
<1>10. \A d \in Keys \ {k} : /\ chain'[d] = chain[d]
                             /\ \A i \in 1..Len(chain[d]) :
                                  stage'[chain[d][i]] = stage[chain[d][i]]
  <2>1. SUFFICES ASSUME NEW d \in Keys \ {k}, NEW i \in 1..Len(chain[d])
                 PROVE  stage'[chain[d][i]] = stage[chain[d][i]]
    BY <1>1, <1>2
  <2>2. chain[d][i] \in Handlers /\ KeyOf[chain[d][i]] = d
    BY <1>1, <1>4 DEF InOrder
  <2>3. QED
    BY <1>2, <1>6, <2>2
<1>11. CASE c = <<>> /\ pushing = h
  <2>1. chain' = chain
    BY <1>1, <1>2, <1>11, WithoutNone
  <2>2. \A g \in Handlers \ {h} : stage'[g] = stage[g]
    BY <1>2, <1>6, <1>11
  <2>3. InOrder'
    <3>1. ASSUME NEW d \in Keys, NEW i \in 1..Len(chain[d])
          PROVE  stage'[chain[d][i]] = stage[chain[d][i]]
      BY <1>10, <1>11, <3>1
    <3>2. QED
      BY <1>1, <2>1, <3>1 DEF InOrder
  <2>4. Everyone'
    BY <1>1, <1>2, <2>1, <2>2 DEF Everyone, Alive, InChain, Over
  <2>5. Pushing'
    BY <1>2, <1>11, <2>1 DEF Pushing, Waiting
  <2>6. QED
    BY <1>2, <1>3, <1>5, <1>7, <1>9, <2>3, <2>4, <2>5 DEF ChainsKept
<1>12. CASE /\ c # <<>> /\ 1 \in 1..Len(c) /\ c[1] = h
            /\ \A i \in 1..Len(c) : c[i] = h <=> i = 1
  <2> DEFINE n == Len(c)
             t == Without(c, h)
  <2>1. /\ t \in Seq(Handlers) /\ Len(t) = n - 1 /\ n \in Nat \ {0} /\ chain'[k] = t
        /\ \A j \in 1..(n - 1) : t[j] = c[j + 1]
    <3>1. /\ t \in Seq(Handlers) /\ Len(t) = n - 1
          /\ \A j \in 1..(n - 1) : t[j] = c[j + 1]
      <4> HIDE DEF c
      <4>1. QED
        BY <1>1, <1>12, WithoutFirst
    <3>2. n \in Nat \ {0}
      <4> HIDE DEF c
      <4>1. QED
        BY <1>1, <1>12, EmptySeq
    <3>3. chain'[k] = t
      BY <1>1, <1>2
    <3>4. QED
      BY <3>1, <3>2, <3>3
  <2>2. \A i \in 2..n : i \in 1..n /\ c[i] \in Handlers /\ c[i] # h /\ stage[c[i]] = "chained"
                        /\ pred[c[i]] = c[i - 1] /\ KeyOf[c[i]] = k
    <3>1. SUFFICES ASSUME NEW i \in 2..n
                   PROVE  i \in 1..n /\ c[i] \in Handlers /\ c[i] # h
                            /\ stage[c[i]] = "chained" /\ pred[c[i]] = c[i - 1] /\ KeyOf[c[i]] = k
      OBVIOUS
    <3>2. i \in 1..n /\ i > 1 /\ i # 1
      BY <2>1
    <3>3. c[i] \in Handlers /\ c[i] # h
      BY <1>1, <1>4, <1>12, <3>2
    <3>4. stage[c[i]] = "chained" /\ pred[c[i]] = c[i - 1] /\ KeyOf[c[i]] = k
      BY <1>1, <3>2 DEF InOrder
    <3>5. QED
      BY <3>2, <3>3, <3>4
  <2>3. \A i \in 2..n : stage'[c[i]] = IF i = 2 THEN "begin" ELSE "chained"
    <3>1. SUFFICES ASSUME NEW i \in 2..n
                   PROVE  stage'[c[i]] = IF i = 2 THEN "begin" ELSE "chained"
      OBVIOUS
    <3>2. i - 1 \in 1..n /\ (i = 2 <=> i - 1 = 1)
      BY <2>1
    <3>3. pred[c[i]] = h <=> i = 2
      BY <1>12, <2>2, <3>2
    <3>4. QED
      BY <1>2, <2>2, <3>3
  <2>4. InOrder'
    <3>1. SUFFICES ASSUME NEW d \in Keys, NEW i \in 1..Len(chain'[d])
                   PROVE  /\ KeyOf[chain'[d][i]] = d
                          /\ \A j \in 1..Len(chain'[d]) : chain'[d][i] = chain'[d][j] => i = j
                          /\ i = 1 => stage'[chain'[d][i]] \in Working
                          /\ i > 1 => /\ stage'[chain'[d][i]] = "chained"
                                      /\ pred[chain'[d][i]] = chain'[d][i - 1]
      BY DEF InOrder
    <3>2. CASE d # k
      <4>1. /\ chain'[d] = chain[d] /\ i \in 1..Len(chain[d])
            /\ stage'[chain[d][i]] = stage[chain[d][i]]
        BY <1>10, <3>1, <3>2
      <4>2. QED
        BY <1>1, <4>1 DEF InOrder
    <3>3. CASE d = k
      <4>1. /\ chain'[d] = t /\ i \in 1..(n - 1) /\ i + 1 \in 2..n /\ t[i] = c[i + 1]
        BY <2>1, <3>1, <3>3
      <4>2. KeyOf[t[i]] = k
        BY <2>2, <4>1
      <4>3. \A j \in 1..(n - 1) : t[i] = t[j] => i = j
        <5>1. SUFFICES ASSUME NEW j \in 1..(n - 1), c[i + 1] = c[j + 1] PROVE i = j
          BY <2>1, <4>1
        <5>2. i + 1 \in 1..n /\ j + 1 \in 1..n
          BY <2>1, <4>1
        <5>3. i + 1 = j + 1
          BY <1>1, <5>1, <5>2 DEF InOrder
        <5>4. QED
          BY <4>1, <5>3
      <4>4. i = 1 => stage'[t[i]] \in Working
        BY <2>3, <4>1, StageFacts
      <4>5. i > 1 => stage'[t[i]] = "chained" /\ pred[t[i]] = t[i - 1]
        <5>1. HAVE i > 1
        <5>2. i + 1 # 2 /\ (i + 1) - 1 = (i - 1) + 1 /\ i - 1 \in 1..(n - 1)
          BY <4>1, <5>1
        <5>3. t[i - 1] = c[(i + 1) - 1]
          BY <2>1, <5>2
        <5>4. QED
          BY <2>2, <2>3, <4>1, <5>2, <5>3
      <4>6. QED
        BY <2>1, <3>3, <4>1, <4>2, <4>3, <4>4, <4>5
    <3>4. QED
      BY <3>2, <3>3
  <2>5. Everyone'
    <3>1. SUFFICES ASSUME NEW g \in Handlers, Alive(g)', pushing # g
                   PROVE  \E i \in 1..Len(chain'[KeyOf[g]]) : chain'[KeyOf[g]][i] = g
      BY DEF Everyone, InChain
    <3>2. g # h /\ Alive(g)
      BY <1>2, <3>1 DEF Alive, Over
    <3>3. PICK i \in 1..Len(chain[KeyOf[g]]) : chain[KeyOf[g]][i] = g
      BY <1>1, <3>1, <3>2 DEF Everyone, InChain
    <3>4. CASE KeyOf[g] # k
      BY <1>1, <1>10, <3>3, <3>4
    <3>5. CASE KeyOf[g] = k
      <4>1. i # 1 /\ i \in 1..n /\ c[i] = g
        BY <1>12, <3>2, <3>3, <3>5
      <4>2. i - 1 \in 1..(n - 1) /\ (i - 1) + 1 = i
        BY <2>1, <4>1
      <4>3. t[i - 1] = g
        BY <2>1, <4>1, <4>2
      <4>4. QED
        BY <2>1, <3>5, <4>2, <4>3
    <3>6. QED
      BY <3>4, <3>5
  <2>6. Pushing'
    <3>1. SUFFICES ASSUME pushing # None
                   PROVE  chain'[KeyOf[pushing]] = <<>> /\ stage'[pushing] \notin Waiting
      BY DEF Pushing
    <3>2. pushing \in Handlers /\ chain[KeyOf[pushing]] = <<>> /\ stage[pushing] \notin Waiting
      BY <1>1, <3>1 DEF Pushing
    <3>3. KeyOf[pushing] \in Keys \ {k}
      BY <1>1, <1>12, <3>2
    <3>4. QED
      BY <1>2, <1>10, <3>2, <3>3 DEF Waiting
  <2>7. QED
    BY <1>2, <1>3, <1>5, <1>7, <1>9, <2>4, <2>5, <2>6 DEF ChainsKept
<1>13. QED
  BY <1>8, <1>11, <1>12
-----------------------------------------------------------------------------
(* A request arrives: it begins when its vector is empty, and else waits   *)
(* for the last one in it.                                                 *)
LEMMA ArrivalKeeps ==
    ASSUME IInv, NEW h \in Handlers, GetThumbnail(h)
    PROVE  /\ OneReply' /\ OneAtATime' /\ ChainsKept'
           /\ stage' \in [Handlers -> Stages] /\ chain' \in [Keys -> Seq(Handlers)]
           /\ pred' \in [Handlers -> Handlers \union {None}]
           /\ pushing' \in Handlers \union {None}
           /\ stage'[h] \in {"begin", "chained"}
           /\ \A g \in Handlers \ {h} : stage'[g] = stage[g]
<1> DEFINE k == KeyOf[h]
           c == chain[k]
<1>1. /\ status = "up" /\ status' = status /\ pushing = None /\ stage[h] = "none"
      /\ replies' = replies
  BY DEF GetThumbnail, Ready, Busy
<1>2. /\ InOrder /\ Everyone /\ chain \in [Keys -> Seq(Handlers)]
      /\ stage \in [Handlers -> Stages] /\ pred \in [Handlers -> Handlers \union {None}]
      /\ k \in Keys /\ c \in Seq(Handlers) /\ Len(c) \in Nat
      /\ \A g \in Handlers : KeyOf[g] \in Keys /\ pushing # g
  BY <1>1, RequestAssumption, LenProperties DEF IInv, ChainsKept, TypeOK
<1>3. \A d \in Keys : \A i \in 1..Len(chain[d]) : chain[d][i] \in Handlers /\ chain[d][i] # h
  <2>1. SUFFICES ASSUME NEW d \in Keys, NEW i \in 1..Len(chain[d])
                 PROVE  chain[d][i] \in Handlers /\ chain[d][i] # h
    OBVIOUS
  <2>2. chain[d][i] \in Handlers
    BY <1>2, ElementOfSeq
  <2>3. stage[chain[d][i]] \in Working \/ stage[chain[d][i]] = "chained"
    <3>1. i = 1 \/ i > 1
      BY <1>2, LenProperties
    <3>2. QED
      BY <1>2, <3>1 DEF InOrder
  <2>4. QED
    BY <1>1, <2>2, <2>3, StageFacts
<1>4. /\ stage' \in [Handlers -> Stages] /\ stage'[h] \in {"begin", "chained"}
      /\ \A g \in Handlers \ {h} : stage'[g] = stage[g]
  BY <1>2 DEF GetThumbnail, queueRequest, Stages
<1>5. OneReply'
  BY <1>1, <1>4 DEF IInv, OneReply, Over
<1>6. CASE c = <<>>
  <2>1. chain' = chain /\ pred' = pred /\ pushing' = h /\ stage'[h] = "begin"
    BY <1>2, <1>6 DEF GetThumbnail, queueRequest
  <2>2. \A g \in Handlers : KeyOf[g] = k => ~Alive(g)
    BY <1>2, <1>6 DEF Everyone, InChain
  <2>3. OneAtATime'
    <3>1. \A g \in Handlers : KeyOf[g] = k => stage[g] \notin Working
      BY <2>2, StageFacts DEF Alive
    <3>2. QED
      BY <1>4, <3>1 DEF IInv, OneAtATime
  <2>4. InOrder'
    BY <1>2, <1>3, <1>4, <2>1 DEF InOrder
  <2>5. Everyone'
    BY <1>2, <1>4, <2>1 DEF Everyone, Alive, InChain
  <2>6. Pushing'
    BY <1>6, <2>1 DEF Pushing, Waiting
  <2>7. QED
    BY <1>2, <1>4, <1>5, <2>1, <2>3, <2>4, <2>5, <2>6 DEF ChainsKept
<1>7. CASE c # <<>>
  <2> DEFINE n == Len(c)
             t == Append(c, h)
  <2>1. /\ chain' = [chain EXCEPT ![k] = t] /\ pred' = [pred EXCEPT ![h] = c[n]]
        /\ pushing' = pushing /\ stage'[h] = "chained"
    BY <1>2, <1>7 DEF GetThumbnail, queueRequest
  <2>2. /\ t \in Seq(Handlers) /\ Len(t) = n + 1 /\ t[n + 1] = h /\ n \in Nat \ {0}
        /\ \A i \in 1..n : t[i] = c[i]
    <3> HIDE DEF c
    <3>1. QED
      BY <1>2, <1>7, EmptySeq, AppendProperties
  <2>3. n \in 1..n /\ c[n] \in Handlers
    BY <1>3, <1>2, <2>2
  <2>4. /\ chain' \in [Keys -> Seq(Handlers)] /\ chain'[k] = t
        /\ \A d \in Keys \ {k} : chain'[d] = chain[d]
    BY <1>2, <2>1, <2>2
  <2>5. pred' \in [Handlers -> Handlers \union {None}] /\ pred'[h] = c[n]
          /\ \A g \in Handlers \ {h} : pred'[g] = pred[g]
    BY <1>2, <2>1, <2>3
  <2>6. OneAtATime'
    BY <1>4, <2>1, StageFacts DEF IInv, OneAtATime
  <2>7. InOrder'
    <3>1. SUFFICES ASSUME NEW d \in Keys, NEW i \in 1..Len(chain'[d])
                   PROVE  /\ KeyOf[chain'[d][i]] = d
                          /\ \A j \in 1..Len(chain'[d]) : chain'[d][i] = chain'[d][j] => i = j
                          /\ i = 1 => stage'[chain'[d][i]] \in Working
                          /\ i > 1 => /\ stage'[chain'[d][i]] = "chained"
                                      /\ pred'[chain'[d][i]] = chain'[d][i - 1]
      BY DEF InOrder
    <3>2. CASE d # k
      <4>1. /\ chain'[d] = chain[d] /\ i \in 1..Len(chain[d])
            /\ chain[d][i] \in Handlers \ {h}
        BY <1>3, <2>4, <3>1, <3>2
      <4>2. stage'[chain[d][i]] = stage[chain[d][i]] /\ pred'[chain[d][i]] = pred[chain[d][i]]
        BY <1>4, <2>5, <4>1
      <4>3. QED
        BY <1>2, <4>1, <4>2 DEF InOrder
    <3>3. CASE d = k /\ i # n + 1
      <4>1. i \in 1..n /\ t[i] = c[i] /\ c[i] \in Handlers \ {h} /\ chain'[d] = t
        BY <1>3, <2>2, <2>4, <3>1, <3>3
      <4>2. stage'[c[i]] = stage[c[i]] /\ pred'[c[i]] = pred[c[i]]
        BY <1>4, <2>5, <4>1
      <4>3. KeyOf[c[i]] = k /\ (i = 1 => stage[c[i]] \in Working)
              /\ (i > 1 => stage[c[i]] = "chained" /\ pred[c[i]] = c[i - 1])
        BY <1>2, <4>1 DEF InOrder
      <4>4. i > 1 => t[i - 1] = c[i - 1]
        BY <2>2, <4>1
      <4>5. \A j \in 1..(n + 1) : t[i] = t[j] => i = j
        <5>1. SUFFICES ASSUME NEW j \in 1..(n + 1), t[i] = t[j] PROVE i = j
          OBVIOUS
        <5>2. j # n + 1
          BY <2>2, <4>1, <5>1
        <5>3. j \in 1..n /\ c[i] = c[j]
          BY <2>2, <4>1, <5>1, <5>2
        <5>4. QED
          BY <1>2, <4>1, <5>3 DEF InOrder
      <4>6. QED
        BY <2>2, <3>3, <4>1, <4>2, <4>3, <4>4, <4>5
    <3>4. CASE d = k /\ i = n + 1
      <4>1. chain'[d][i] = h /\ chain'[d] = t /\ i > 1 /\ t[i - 1] = c[n]
        BY <2>2, <2>3, <2>4, <3>4
      <4>2. \A j \in 1..(n + 1) : t[j] = h => j = n + 1
        <5>1. SUFFICES ASSUME NEW j \in 1..(n + 1), j # n + 1 PROVE t[j] # h
          OBVIOUS
        <5>2. j \in 1..n
          BY <2>2, <5>1
        <5>3. QED
          BY <1>2, <1>3, <2>2, <5>2
      <4>3. QED
        BY <2>1, <2>2, <2>5, <3>4, <4>1, <4>2
    <3>5. QED
      BY <3>2, <3>3, <3>4
  <2>8. Everyone'
    <3>1. SUFFICES ASSUME NEW g \in Handlers, Alive(g)'
                   PROVE  \E i \in 1..Len(chain'[KeyOf[g]]) : chain'[KeyOf[g]][i] = g
      BY DEF Everyone, InChain
    <3>2. CASE g = h
      <4>1. n + 1 \in 1..Len(t)
        BY <2>2
      <4>2. QED
        BY <2>2, <2>4, <3>2, <4>1
    <3>3. CASE g # h
      <4>1. PICK i \in 1..Len(chain[KeyOf[g]]) : chain[KeyOf[g]][i] = g
        BY <1>2, <1>4, <3>1, <3>3 DEF Everyone, InChain, Alive
      <4>2. CASE KeyOf[g] # k
        BY <1>2, <2>4, <4>1, <4>2
      <4>3. CASE KeyOf[g] = k
        <5>1. i \in 1..n /\ i \in 1..Len(t) /\ t[i] = g
          BY <2>2, <4>1, <4>3
        <5>2. QED
          BY <2>4, <4>3, <5>1
      <4>4. QED
        BY <4>2, <4>3
    <3>4. QED
      BY <3>2, <3>3
  <2>9. Pushing'
    BY <1>1, <2>1 DEF Pushing
  <2>10. QED
    BY <1>1, <1>4, <1>5, <2>1, <2>4, <2>5, <2>6, <2>7, <2>8, <2>9 DEF ChainsKept
<1>8. QED
  BY <1>6, <1>7

(* The vector gets the request that has begun. *)
LEMMA PushKeeps ==
    ASSUME IInv, PushBack
    PROVE  /\ OneReply' /\ OneAtATime' /\ ChainsKept'
           /\ chain' \in [Keys -> Seq(Handlers)] /\ stale' \subseteq Handlers
           /\ stage' = stage /\ status' \in {"up", "crashed"}
<1> DEFINE p == pushing
           k == KeyOf[p]
<1>1. /\ status = "up" /\ p \in Handlers /\ p # None /\ stage' = stage /\ replies' = replies
      /\ pred' = pred /\ pushing' = None
      /\ status' \in {"up", "crashed"} /\ stale' \subseteq stale \union {p}
  BY DEF PushBack, handlerVars, IInv, TypeOK
<1>2. /\ InOrder /\ Everyone /\ Pushing /\ chain \in [Keys -> Seq(Handlers)]
      /\ stale \subseteq Handlers /\ k \in Keys
  BY <1>1, RequestAssumption DEF IInv, ChainsKept, TypeOK
<1>3. OneReply' /\ OneAtATime' /\ stale' \subseteq Handlers
  BY <1>1, <1>2 DEF IInv, OneReply, OneAtATime
<1>4. chain[k] = <<>> /\ stage[p] \notin Waiting
  BY <1>1, <1>2 DEF Pushing
<1>5. CASE stage[p] \in Over /\ chain' = chain
  <2>1. InOrder'
    BY <1>1, <1>2, <1>5 DEF InOrder
  <2>2. Everyone'
    BY <1>1, <1>2, <1>5 DEF Everyone, Alive, InChain
  <2>3. Pushing'
    BY <1>1 DEF Pushing
  <2>4. QED
    BY <1>1, <1>2, <1>3, <1>5, <2>1, <2>2, <2>3 DEF ChainsKept
<1>6. CASE stage[p] \notin Over /\ chain' = [chain EXCEPT ![k] = Append(@, p)]
  <2>1. Append(<<>>, p) = <<p>> /\ <<p>> \in Seq(Handlers) /\ Len(<<p>>) = 1 /\ <<p>>[1] = p
    BY <1>1
  <2>2. /\ chain' \in [Keys -> Seq(Handlers)] /\ chain'[k] = <<p>>
        /\ \A d \in Keys \ {k} : chain'[d] = chain[d]
    BY <1>2, <1>4, <1>6, <2>1
  <2>3. stage[p] \in Working
    BY <1>1, <1>4, <1>6 DEF Working, IInv, TypeOK
  <2>4. InOrder'
    <3>1. SUFFICES ASSUME NEW d \in Keys, NEW i \in 1..Len(chain'[d])
                   PROVE  /\ KeyOf[chain'[d][i]] = d
                          /\ \A j \in 1..Len(chain'[d]) : chain'[d][i] = chain'[d][j] => i = j
                          /\ i = 1 => stage[chain'[d][i]] \in Working
                          /\ i > 1 => /\ stage[chain'[d][i]] = "chained"
                                      /\ pred[chain'[d][i]] = chain'[d][i - 1]
      BY <1>1 DEF InOrder
    <3>2. CASE d # k
      <4>1. chain'[d] = chain[d] /\ i \in 1..Len(chain[d])
        BY <2>2, <3>1, <3>2
      <4>2. QED
        BY <1>2, <4>1 DEF InOrder
    <3>3. CASE d = k
      <4>0. chain'[d] = <<p>> /\ Len(chain'[d]) = 1
        BY <2>1, <2>2, <3>3
      <4>1. i = 1 /\ \A j \in 1..Len(chain'[d]) : j = 1
        BY <3>1, <4>0
      <4>2. QED
        BY <2>1, <2>3, <3>3, <4>0, <4>1
    <3>4. QED
      BY <3>2, <3>3
  <2>5. Everyone'
    <3>1. SUFFICES ASSUME NEW g \in Handlers, Alive(g)
                   PROVE  \E i \in 1..Len(chain'[KeyOf[g]]) : chain'[KeyOf[g]][i] = g
      BY <1>1 DEF Everyone, InChain, Alive
    <3>2. CASE g = p
      <4>1. 1 \in 1..Len(<<p>>)
        BY <2>1
      <4>2. QED
        BY <2>1, <2>2, <3>2, <4>1
    <3>3. CASE g # p
      <4>1. PICK i \in 1..Len(chain[KeyOf[g]]) : chain[KeyOf[g]][i] = g
        BY <1>2, <3>1, <3>3 DEF Everyone, InChain
      <4>2. KeyOf[g] # k
        <5>1. SUFFICES ASSUME KeyOf[g] = k PROVE FALSE
          OBVIOUS
        <5>2. i \in 1..Len(<<>>)
          BY <1>4, <4>1, <5>1
        <5>3. QED
          BY <5>2
      <4>3. KeyOf[g] \in Keys \ {k}
        BY <4>2, RequestAssumption
      <4>4. QED
        BY <2>2, <4>1, <4>3
    <3>4. QED
      BY <3>2, <3>3
  <2>6. Pushing'
    BY <1>1 DEF Pushing
  <2>7. QED
    BY <1>1, <1>3, <2>2, <2>4, <2>5, <2>6 DEF ChainsKept
<1>7. QED
  BY <1>5, <1>6 DEF PushBack
-----------------------------------------------------------------------------
(* The limiter when a step leaves it alone: no download starts, and who    *)
(* waits for a place goes on waiting.                                      *)
LEMMA PlacesKept ==
    ASSUME IInv, UNCHANGED limiterVars,
           \A g \in Handlers : stage[g] \in {"queued", "gone"} => stage'[g] = stage[g],
           \A g \in Handlers : stage'[g] = "download" => stage[g] = "download"
    PROVE  PlacesTaken' /\ Queue'
<1>1. /\ list' = list /\ cleared' = cleared /\ running' = running /\ running \in Nat
      /\ list \in Seq(Handlers) /\ PlacesTaken /\ Queue
  BY DEF limiterVars, IInv, TypeOK
<1>2. \A i \in 1..Len(list) : list[i] \in Handlers
  BY <1>1, ElementOfSeq
<1>3. Queue'
  BY <1>1, <1>2 DEF Queue
<1>4. Downloading' \subseteq Downloading
  BY DEF Downloading
<1>5. /\ IsFiniteSet(Downloading') /\ Cardinality(Downloading') <= Cardinality(Downloading)
      /\ Cardinality(Downloading) \in Nat /\ Cardinality(Downloading') \in Nat
  BY <1>1, <1>4, FS_Subset, FS_CardinalityType DEF PlacesTaken
<1>6. QED
  BY <1>1, <1>3, <1>5, LimitAssumption DEF PlacesTaken

(* done() gives its place to the last waiting job that was not cleared, or *)
(* gives it up and leaves list_ empty.                                     *)
LEMMA DoneEffect ==
    ASSUME IInv, L!done
    PROVE  /\ list' \in Seq(Handlers) /\ cleared' \subseteq Range(list')
           /\ Len(list') <= Len(list) /\ \A i \in 1..Len(list') : i \in 1..Len(list)
           /\ \A i \in 1..Len(list') : list'[i] = list[i]
           /\ \A i \in 1..Len(list') : list[i] \in cleared => list[i] \in cleared'
           /\ \/ L!NextJob = {} /\ running' = running - 1
              \/ \E g \in Handlers : /\ L!NextJob = {g} /\ stage[g] = "queued"
                                     /\ running' = running
                                     /\ \A i \in 1..Len(list') : list'[i] # g
<1>1. list \in Seq(Handlers) /\ Len(list) \in Nat /\ running \in Nat /\ Queue
  BY LenProperties DEF IInv, TypeOK
<1>2. CASE L!NextIndex = {} /\ list' = <<>> /\ cleared' = {} /\ running' = running - 1
  <2>1. Len(list') = 0 /\ 1..Len(list') = {} /\ list' \in Seq(Handlers)
    BY <1>2
  <2>2. L!NextJob = {}
    BY <1>2 DEF L!NextJob
  <2>3. QED
    BY <1>1, <1>2, <2>1, <2>2
<1>3. ASSUME NEW k \in L!NextIndex, list' = SubSeq(list, 1, k - 1),
             cleared' = cleared \cap Range(list'), running' = running - 1 + 1
      PROVE  /\ list' \in Seq(Handlers) /\ cleared' \subseteq Range(list')
             /\ Len(list') <= Len(list) /\ \A i \in 1..Len(list') : i \in 1..Len(list)
             /\ \A i \in 1..Len(list') : list'[i] = list[i]
             /\ \A i \in 1..Len(list') : list[i] \in cleared => list[i] \in cleared'
             /\ \E g \in Handlers : /\ L!NextJob = {g} /\ stage[g] = "queued"
                                    /\ running' = running
                                    /\ \A i \in 1..Len(list') : list'[i] # g
  <2>1. /\ k \in 1..Len(list) /\ list[k] \notin cleared
        /\ \A m \in (k + 1)..Len(list) : list[m] \in cleared
    BY DEF L!NextIndex
  <2>2. list[k] \in Handlers /\ stage[list[k]] = "queued"
    BY <1>1, <2>1, ElementOfSeq DEF Queue
  <2>3. \A m \in L!NextIndex : m = k
    <3>1. SUFFICES ASSUME NEW m \in L!NextIndex PROVE m = k
      OBVIOUS
    <3>2. /\ m \in 1..Len(list) /\ list[m] \notin cleared
          /\ \A x \in (m + 1)..Len(list) : list[x] \in cleared
      BY DEF L!NextIndex
    <3>3. ~(m < k)
      <4>1. SUFFICES ASSUME m < k PROVE k \in (m + 1)..Len(list)
        BY <2>1, <3>2
      <4>2. QED
        BY <2>1, <3>2, <4>1
    <3>4. ~(k < m)
      <4>1. SUFFICES ASSUME k < m PROVE m \in (k + 1)..Len(list)
        BY <2>1, <3>2
      <4>2. QED
        BY <2>1, <3>2, <4>1
    <3>5. QED
      BY <2>1, <3>2, <3>3, <3>4
  <2>4. L!NextJob = {list[k]}
    <3>1. \A x : x \in L!NextJob <=> x = list[k]
      BY <2>3 DEF L!NextJob
    <3>2. QED
      BY <3>1, Zenon
  <2>5. /\ list' \in Seq(Handlers) /\ Len(list') = k - 1
        /\ \A i \in 1..Len(list') : list'[i] = list[i]
    <3>1. /\ k \in Nat /\ \A i \in 1..(k - 1) : i \in 1..Len(list) /\ list[i] \in Handlers
      BY <1>1, <2>1, ElementOfSeq
    <3>2. QED
      BY <1>1, <1>3, <2>1, <3>1
  <2>6. Len(list') <= Len(list) /\ \A i \in 1..Len(list') : i \in 1..Len(list) /\ i # k
    BY <1>1, <2>1, <2>5
  <2>7. \A i \in 1..Len(list') : list[i] \in cleared => list[i] \in cleared'
    <3>1. \A i \in 1..Len(list') : list'[i] \in Range(list')
      BY <2>5, RangeEquality
    <3>2. QED
      BY <1>3, <2>5, <3>1
  <2>8. \A i \in 1..Len(list') : list'[i] # list[k]
    BY <1>1, <2>1, <2>5, <2>6 DEF Queue
  <2>9. running' = running
    BY <1>1, <1>3
  <2>10. QED
    BY <1>3, <2>2, <2>4, <2>5, <2>6, <2>7, <2>8, <2>9
<1>4. CASE \E k \in L!NextIndex : /\ list' = SubSeq(list, 1, k - 1)
                                 /\ cleared' = cleared \cap Range(list')
                                 /\ running' = running - 1 + 1
  <2>1. PICK k \in L!NextIndex : /\ list' = SubSeq(list, 1, k - 1)
                                 /\ cleared' = cleared \cap Range(list')
                                 /\ running' = running - 1 + 1
    BY <1>4
  <2>2. QED
    BY <1>3, <2>1
<1>5. QED
  BY <1>2, <1>4 DEF L!done, L!Range, Range

(* A download that ends hands its place on. *)
LEMMA HandsOver ==
    ASSUME IInv, L!done, NEW h \in Handlers, stage[h] = "download",
           NEW s \in {"create", "gone"},
           stage' = [g \in Handlers |-> IF g = h THEN s
                                        ELSE IF g \in L!NextJob THEN "download"
                                        ELSE stage[g]]
    PROVE  /\ PlacesTaken' /\ Queue' /\ running' \in Nat
           /\ stage' \in [Handlers -> Stages] /\ stage'[h] = s
           /\ \A g \in Handlers \ {h} : \/ stage'[g] = stage[g]
                                        \/ stage[g] = "queued" /\ stage'[g] = "download"
<1>1. /\ list \in Seq(Handlers) /\ running \in Nat /\ running > 0 /\ Queue
      /\ stage \in [Handlers -> Stages]
      /\ IsFiniteSet(Downloading) /\ Cardinality(Downloading) <= running /\ running <= Limit
      /\ Limit \in Nat /\ h \in Downloading
  BY LimitAssumption DEF IInv, TypeOK, L!done, PlacesTaken, Downloading
<1>2. \A i \in 1..Len(list) : list[i] \in Handlers
  BY <1>1, ElementOfSeq
<1>3. stage' \in [Handlers -> Stages] /\ stage'[h] = s
  BY <1>1 DEF Stages
<1>4. Downloading \ {h} \subseteq Downloading /\ h \notin Downloading'
  BY <1>3 DEF Downloading
<1>5. /\ IsFiniteSet(Downloading \ {h}) /\ Cardinality(Downloading) \in Nat
      /\ Cardinality(Downloading \ {h}) = Cardinality(Downloading) - 1
  BY <1>1, FS_RemoveElement, FS_CardinalityType
<1>6. /\ Len(list') <= Len(list) /\ \A i \in 1..Len(list') : i \in 1..Len(list)
      /\ \A i \in 1..Len(list') : list'[i] = list[i]
      /\ \A i \in 1..Len(list') : list[i] \in cleared => list[i] \in cleared'
  BY DoneEffect
<1>7. CASE L!NextJob = {} /\ running' = running - 1
  <2>1. \A g \in Handlers \ {h} : stage'[g] = stage[g]
    BY <1>7
  <2>2. Downloading' = Downloading \ {h}
    BY <1>3, <2>1 DEF Downloading
  <2>3. PlacesTaken'
    BY <1>1, <1>5, <1>7, <2>2 DEF PlacesTaken
  <2>4. Queue'
    <3>1. \A i \in 1..Len(list') : list[i] # h /\ stage'[list[i]] = stage[list[i]]
      BY <1>1, <1>2, <1>6, <2>1 DEF Queue
    <3>2. QED
      BY <1>1, <1>6, <3>1 DEF Queue
  <2>5. QED
    BY <1>1, <1>3, <1>7, <2>1, <2>3, <2>4
<1>8. ASSUME NEW f \in Handlers, L!NextJob = {f}, stage[f] = "queued", running' = running,
             \A i \in 1..Len(list') : list'[i] # f
      PROVE  /\ PlacesTaken' /\ Queue' /\ running' \in Nat
             /\ \A g \in Handlers \ {h} : \/ stage'[g] = stage[g]
                                          \/ stage[g] = "queued" /\ stage'[g] = "download"
  <2>1. stage'[f] = "download" /\ \A g \in Handlers \ {h, f} : stage'[g] = stage[g]
    BY <1>1, <1>8
  <2>2. Downloading' = (Downloading \ {h}) \union {f} /\ f \notin Downloading \ {h}
    BY <1>3, <1>8, <2>1 DEF Downloading
  <2>3. /\ IsFiniteSet(Downloading')
        /\ Cardinality(Downloading') = Cardinality(Downloading \ {h}) + 1
    BY <1>5, <2>2, FS_AddElement
  <2>4. PlacesTaken'
    BY <1>1, <1>5, <1>8, <2>3 DEF PlacesTaken
  <2>5. Queue'
    <3>1. \A i \in 1..Len(list') : stage'[list[i]] = stage[list[i]]
      BY <1>1, <1>2, <1>6, <1>8, <2>1 DEF Queue
    <3>2. QED
      BY <1>1, <1>6, <3>1 DEF Queue
  <2>6. QED
    BY <1>1, <1>8, <2>1, <2>4, <2>5
<1>9. QED
  BY <1>3, <1>7, <1>8, DoneEffect
-----------------------------------------------------------------------------
(* Counting handlers. *)
LEMMA CountKept ==
    ASSUME IInv, UNCHANGED idleVars,
           \A g \in Handlers : stage'[g] \in {"none", "gone"} <=> stage[g] \in {"none", "gone"}
    PROVE  Counted'
<1>1. Existing' = Existing
  BY DEF Existing
<1>2. QED
  BY <1>1 DEF IInv, Counted, IdleMeansIdle, idleVars

LEMMA CountStarted ==
    ASSUME IInv, request_started, NEW h \in Handlers, stage[h] = "none",
           stage'[h] \notin {"none", "gone"},
           \A g \in Handlers \ {h} : stage'[g] = stage[g]
    PROVE  Counted' /\ active' \in Nat /\ timer' \in BOOLEAN
<1>1. /\ active \in Nat /\ timer \in BOOLEAN /\ IsFiniteSet(Existing)
      /\ active = Cardinality(Existing) /\ (timer => Existing = {})
  BY DEF IInv, TypeOK, Counted, IdleMeansIdle
<1>2. Existing' = Existing \union {h} /\ h \notin Existing
  BY DEF Existing
<1>3. IsFiniteSet(Existing') /\ Cardinality(Existing') = Cardinality(Existing) + 1
  BY <1>1, <1>2, FS_AddElement
<1>4. timer' = FALSE
  BY <1>1, FS_EmptySet DEF request_started
<1>5. active' = active + 1 /\ active' \in Nat
  BY <1>1 DEF request_started
<1>6. QED
  BY <1>1, <1>3, <1>4, <1>5 DEF Counted, IdleMeansIdle

LEMMA CountCompleted ==
    ASSUME IInv, request_completed, NEW h \in Handlers, stage[h] \notin {"none", "gone"},
           stage'[h] = "gone",
           \A g \in Handlers \ {h} :
              stage'[g] \in {"none", "gone"} <=> stage[g] \in {"none", "gone"}
    PROVE  Counted' /\ active' \in Nat /\ timer' \in BOOLEAN
<1>1. /\ active \in Nat /\ timer \in BOOLEAN /\ IsFiniteSet(Existing)
      /\ active = Cardinality(Existing) /\ (timer => Existing = {})
  BY DEF IInv, TypeOK, Counted, IdleMeansIdle
<1>2. Existing' = Existing \ {h} /\ h \in Existing
  BY DEF Existing
<1>3. /\ IsFiniteSet(Existing') /\ Cardinality(Existing') = Cardinality(Existing) - 1
      /\ Cardinality(Existing') \in Nat
  BY <1>1, <1>2, FS_RemoveElement, FS_CardinalityType
<1>4. timer = FALSE
  BY <1>1, <1>2
<1>5. active' = Cardinality(Existing') /\ timer' = (active = 1)
  BY <1>1, <1>3, <1>4 DEF request_completed
<1>6. active = 1 => Existing' = {}
  BY <1>1, <1>3, FS_EmptySet
<1>7. QED
  BY <1>3, <1>5, <1>6 DEF Counted, IdleMeansIdle
-----------------------------------------------------------------------------
(* Nothing new is in the caches, and no request has found something to     *)
(* download.                                                               *)
LEMMA MissingKept ==
    ASSUME IInv, stored' \subseteq stored, UNCHANGED result,
           \A g \in Handlers : stage'[g] = "checked" => stage[g] = "checked",
           \A g \in Handlers : stage'[g] = "queued" =>
              stage[g] = "queued" \/ (stage[g] = "checked" /\ result[g] = "download"),
           \A g \in Handlers : stage'[g] = "created" => stage[g] = "created"
    PROVE  StillMissing' /\ Outcome'
  BY DEF IInv, StillMissing, Outcome
-----------------------------------------------------------------------------
(* Steps in which requests only move on, with nothing but their stage, the *)
(* credentials, the caches and the process changed.                        *)
LEMMA QuietStep ==
    ASSUME IInv, \A h \in Handlers : Drifts(h),
           \A h \in Handlers : stage[h] \in {"queued", "replied"} => stage'[h] = stage[h],
           \A h \in Handlers : stage'[h] \in {"checked", "queued", "download", "created"} =>
              stage'[h] = stage[h],
           stage' \in [Handlers -> Stages], status' \in {"up", "quitting", "down", "crashed"},
           status' = "up" => status = "up", stored' \subseteq stored,
           creds' \in [Peers -> {"unknown", "valid", "invalid"}],
           UNCHANGED <<result, reply, replies, chainVars, limiterVars, idleVars, adminCalls>>
    PROVE  IInv'
<1>1. UNCHANGED <<replies, chain, pred, pushing, stale, running, list, cleared, active, timer>>
  BY DEF chainVars, limiterVars, idleVars
<1>2. OneReply' /\ OneAtATime' /\ ChainsKept'
  BY <1>1, DriftKeeps
<1>3. \A h \in Handlers : stage[h] = "gone" => stage'[h] = "gone"
  BY StageFacts DEF Drifts
<1>4. PlacesTaken' /\ Queue'
  BY <1>3, PlacesKept
<1>5. Counted'
  <2>1. \A h \in Handlers : stage'[h] \in {"none", "gone"} <=> stage[h] \in {"none", "gone"}
    BY StageFacts DEF Drifts
  <2>2. QED
    BY <2>1, CountKept
<1>6. StillMissing' /\ Outcome'
  BY MissingKept
<1>7. TypeOK'
  <2>1. TypeOK
    BY DEF IInv
  <2>2. stored' \subseteq Keys
    BY <2>1 DEF TypeOK
  <2>3. QED
    BY <1>1, <2>1, <2>2 DEF TypeOK
<1>8. QED
  BY <1>2, <1>4, <1>5, <1>6, <1>7 DEF IInv

LEMMA BeginStep == ASSUME IInv, NEW h \in Handlers, begin(h) PROVE IInv'
<1>1. TypeOK
  BY DEF IInv
<1>2. \A g \in Handlers : \/ stage'[g] = stage[g]
                          \/ stage[g] = "begin" /\ stage'[g] \in {"creds", "called"}
  BY <1>1 DEF begin, TypeOK
<1>3. stage' \in [Handlers -> Stages]
  BY <1>1 DEF begin, TypeOK, Stages
<1>4. \A g \in Handlers : Drifts(g)
  BY <1>2, StageFacts DEF Drifts
<1>5. QED
  BY <1>1, <1>2, <1>3, <1>4, QuietStep DEF begin, TypeOK

LEMMA CredentialsStep ==
    ASSUME IInv, NEW p \in Peers, received_credentials(p) PROVE IInv'
<1>1. TypeOK
  BY DEF IInv
<1>2. \A g \in Handlers : \/ stage'[g] = stage[g]
                          \/ stage[g] = "creds" /\ stage'[g] = "called"
  BY <1>1 DEF received_credentials, TypeOK
<1>3. stage' \in [Handlers -> Stages]
  BY <1>1 DEF received_credentials, TypeOK, Stages
<1>4. \A g \in Handlers : Drifts(g)
  BY <1>2, StageFacts DEF Drifts
<1>5. creds' \in [Peers -> {"unknown", "valid", "invalid"}]
  BY <1>1 DEF received_credentials, TypeOK
<1>6. QED
  BY <1>1, <1>2, <1>3, <1>4, <1>5, QuietStep DEF received_credentials, TypeOK

(* Steps that change neither a request nor a chain. *)
LEMMA StillStep ==
    ASSUME IInv, UNCHANGED <<handlerVars, chainVars, creds, limiterVars, idleVars, adminCalls>>,
           status' \in {"up", "quitting", "down", "crashed"}, status' = "up" => status = "up",
           stored' \subseteq stored
    PROVE  IInv'
<1>1. TypeOK /\ UNCHANGED <<stage, result, reply, replies>>
  BY DEF IInv, handlerVars
<1>2. \A g \in Handlers : Drifts(g)
  BY <1>1 DEF Drifts
<1>3. QED
  BY <1>1, <1>2, QuietStep DEF TypeOK

(* A reply, whatever becomes of the places of the limiter. *)
LEMMA FinishStep ==
    ASSUME IInv, status = "up", NEW h \in Handlers, stage[h] \in Working \ {"queued"},
           NEW r \in {"image", "error"}, finish(h, r),
           UNCHANGED <<status, result, pred, pushing, stale, creds, stored, idleVars,
                       adminCalls, list, cleared>>,
           running' = running \/ (running' = running + 1 /\ running + 1 <= Limit)
    PROVE  IInv'
<1>1. TypeOK /\ PlacesTaken /\ Queue
  BY DEF IInv
<1>2. /\ OneReply' /\ OneAtATime' /\ ChainsKept' /\ chain' \in [Keys -> Seq(Handlers)]
      /\ stage' \in [Handlers -> Stages]
      /\ \A g \in Handlers : \/ stage'[g] = stage[g]
                             \/ g = h /\ stage'[g] = "replied"
                             \/ stage[g] = "chained" /\ stage'[g] = "begin"
  BY FinishKeeps
<1>3. reply' \in [Handlers -> {"none", "image", "error"}] /\ replies' \in [Handlers -> Nat]
  BY <1>1 DEF TypeOK, finish
<1>4. TypeOK'
  <2>1. active' = active /\ timer' = timer /\ running' \in Nat
    BY <1>1 DEF TypeOK, idleVars
  <2>2. QED
    BY <1>1, <1>2, <1>3, <2>1 DEF TypeOK
<1>5. Queue'
  <2>1. \A i \in 1..Len(list) : list[i] \in Handlers
    BY <1>1, ElementOfSeq DEF TypeOK
  <2>2. \A i \in 1..Len(list) : stage'[list[i]] = stage[list[i]]
    BY <1>1, <1>2, <2>1, StageFacts DEF Queue
  <2>3. QED
    BY <1>1, <2>2 DEF Queue
<1>6. PlacesTaken'
  <2>1. Downloading' \subseteq Downloading
    BY <1>2 DEF Downloading
  <2>2. /\ IsFiniteSet(Downloading') /\ Cardinality(Downloading') <= Cardinality(Downloading)
        /\ Cardinality(Downloading) \in Nat /\ Cardinality(Downloading') \in Nat
    BY <1>1, <2>1, FS_Subset, FS_CardinalityType DEF PlacesTaken
  <2>3. QED
    BY <1>1, <2>2, LimitAssumption DEF PlacesTaken, TypeOK
<1>7. Counted'
  <2>1. \A g \in Handlers : stage'[g] \in {"none", "gone"} <=> stage[g] \in {"none", "gone"}
    BY <1>2, StageFacts
  <2>2. QED
    BY <2>1, CountKept
<1>8. StillMissing' /\ Outcome'
  BY <1>2, MissingKept
<1>9. QED
  BY <1>2, <1>4, <1>5, <1>6, <1>7, <1>8 DEF IInv

LEMMA ThrowsStep == ASSUME IInv, NEW h \in Handlers, GetThumbnailThrows(h) PROVE IInv'
<1>1. TypeOK /\ status = "up" /\ status' = "up" /\ InOrder /\ Everyone /\ Pushing
        /\ pushing = None /\ UNCHANGED <<chain, pred, pushing, result, stored>>
  BY DEF IInv, GetThumbnailThrows, Ready, Busy, ChainsKept, chainVars
<1>2. /\ stage[h] = "none" /\ stage'[h] = "gone" /\ \A g \in Handlers \ {h} : stage'[g] = stage[g]
      /\ stage' \in [Handlers -> Stages]
  BY <1>1 DEF GetThumbnailThrows, TypeOK, Stages
<1>3. replies'[h] = 1 /\ \A g \in Handlers \ {h} : replies'[g] = replies[g]
  <2>1. replies[h] = 0 /\ replies \in [Handlers -> Nat]
    BY <1>1, <1>2 DEF IInv, OneReply, Over, TypeOK
  <2>2. QED
    BY <2>1 DEF GetThumbnailThrows
<1>4. OneReply'
  BY <1>2, <1>3 DEF IInv, OneReply, Over
<1>5. OneAtATime'
  BY <1>2, StageFacts DEF IInv, OneAtATime
<1>6. ChainsKept'
  <2>1. \A k \in Keys : \A i \in 1..Len(chain[k]) : chain[k][i] \in Handlers
    BY <1>1, ElementOfSeq DEF TypeOK
  <2>2. \A k \in Keys : \A i \in 1..Len(chain[k]) : stage[chain[k][i]] # "none"
    <3>1. SUFFICES ASSUME NEW k \in Keys, NEW i \in 1..Len(chain[k])
                   PROVE  stage[chain[k][i]] # "none"
      OBVIOUS
    <3>2. i = 1 \/ i > 1
      BY <1>1, LenProperties DEF TypeOK
    <3>3. QED
      BY <1>1, <3>2, StageFacts DEF InOrder
  <2>3. InOrder'
    <3>1. \A k \in Keys : \A i \in 1..Len(chain[k]) : stage'[chain[k][i]] = stage[chain[k][i]]
      BY <1>2, <2>1, <2>2
    <3>2. QED
      BY <1>1, <3>1 DEF InOrder
  <2>4. Everyone'
    BY <1>1, <1>2 DEF Everyone, Alive, InChain, Over
  <2>5. Pushing'
    BY <1>1 DEF Pushing
  <2>6. QED
    BY <2>3, <2>4, <2>5 DEF ChainsKept
<1>7. PlacesTaken' /\ Queue'
  BY <1>2, PlacesKept DEF GetThumbnailThrows
<1>8. Counted'
  <2>1. \A g \in Handlers : stage'[g] \in {"none", "gone"} <=> stage[g] \in {"none", "gone"}
    BY <1>2
  <2>2. QED
    BY <2>1, CountKept DEF GetThumbnailThrows
<1>9. StillMissing' /\ Outcome'
  BY <1>1, <1>2, MissingKept
<1>10. TypeOK'
  <2>1. reply' \in [Handlers -> {"none", "image", "error"}] /\ replies' \in [Handlers -> Nat]
    BY <1>1 DEF GetThumbnailThrows, TypeOK
  <2>2. QED
    BY <1>1, <1>2, <2>1 DEF GetThumbnailThrows, TypeOK, chainVars, limiterVars, idleVars
<1>11. QED
  BY <1>4, <1>5, <1>6, <1>7, <1>8, <1>9, <1>10 DEF IInv

LEMMA ArrivalStep == ASSUME IInv, NEW h \in Handlers, GetThumbnail(h) PROVE IInv'
<1>1. TypeOK /\ stage[h] = "none" /\ UNCHANGED <<result, stored>>
  BY DEF IInv, GetThumbnail
<1>2. /\ OneReply' /\ OneAtATime' /\ ChainsKept'
      /\ stage' \in [Handlers -> Stages] /\ chain' \in [Keys -> Seq(Handlers)]
      /\ pred' \in [Handlers -> Handlers \union {None}]
      /\ pushing' \in Handlers \union {None}
      /\ stage'[h] \in {"begin", "chained"}
      /\ \A g \in Handlers \ {h} : stage'[g] = stage[g]
  BY ArrivalKeeps
<1>3. PlacesTaken' /\ Queue'
  BY <1>1, <1>2, PlacesKept DEF GetThumbnail
<1>4. Counted' /\ active' \in Nat /\ timer' \in BOOLEAN
  BY <1>1, <1>2, CountStarted DEF GetThumbnail
<1>5. StillMissing' /\ Outcome'
  BY <1>1, <1>2, MissingKept
<1>6. TypeOK'
  BY <1>1, <1>2, <1>4 DEF GetThumbnail, TypeOK, limiterVars
<1>7. QED
  BY <1>2, <1>3, <1>4, <1>5, <1>6 DEF IInv

LEMMA PushStep == ASSUME IInv, PushBack PROVE IInv'
<1>1. TypeOK /\ UNCHANGED <<stage, result, reply, replies, pred, creds, stored, limiterVars,
                            idleVars, adminCalls>> /\ pushing' = None
  BY DEF IInv, PushBack, handlerVars
<1>2. /\ OneReply' /\ OneAtATime' /\ ChainsKept'
      /\ chain' \in [Keys -> Seq(Handlers)] /\ stale' \subseteq Handlers
      /\ status' \in {"up", "crashed"}
  BY PushKeeps
<1>3. PlacesTaken' /\ Queue'
  BY <1>1, PlacesKept
<1>4. Counted'
  BY <1>1, CountKept
<1>5. StillMissing' /\ Outcome'
  BY <1>1, MissingKept
<1>6. TypeOK'
  BY <1>1, <1>2 DEF TypeOK, limiterVars, idleVars
<1>7. QED
  BY <1>2, <1>3, <1>4, <1>5, <1>6 DEF IInv

LEMMA GotCredentialsStep == ASSUME IInv, NEW h \in Handlers, gotCredentials(h) PROVE IInv'
<1>1. TypeOK /\ status = "up" /\ stage[h] = "called"
        /\ UNCHANGED <<status, result, pred, pushing, stale, creds, stored, running, list,
                       cleared, idleVars, limiterVars, adminCalls>>
  BY DEF IInv, gotCredentials, limiterVars
<1>2. CASE stage' = [stage EXCEPT ![h] = "check"] /\ UNCHANGED <<reply, replies, chain>>
  <2>1. /\ stage' \in [Handlers -> Stages]
        /\ \A g \in Handlers : \/ stage'[g] = stage[g]
                               \/ stage[g] = "called" /\ stage'[g] = "check"
    BY <1>1, <1>2 DEF TypeOK, Stages
  <2>2. \A g \in Handlers : Drifts(g)
    BY <2>1, StageFacts DEF Drifts
  <2>3. UNCHANGED chainVars
    BY <1>1, <1>2 DEF chainVars
  <2>4. QED
    BY <1>1, <1>2, <2>1, <2>2, <2>3, QuietStep DEF TypeOK
<1>3. CASE finish(h, "error")
  BY <1>1, <1>3, FinishStep, StageFacts
<1>4. QED
  BY <1>2, <1>3 DEF gotCredentials

LEMMA CreateFinishedStep == ASSUME IInv, NEW h \in Handlers, createFinished(h) PROVE IInv'
<1>1. result[h] \in {"image", "error"}
  BY DEF IInv, Outcome, createFinished
<1>2. QED
  BY <1>1, FinishStep, StageFacts DEF createFinished, limiterVars, Ready

(* A result of check() or create(), and perhaps an entry in a cache: no    *)
(* other request for the key is worked on.                                 *)
LEMMA StoreStep ==
    ASSUME IInv, NEW h \in Handlers, NEW s,
           \/ stage[h] = "check" /\ s = "checked"
           \/ stage[h] = "create" /\ s = "created",
           stage' = [stage EXCEPT ![h] = s],
           NEW r, result' = [result EXCEPT ![h] = r],
           \/ r \in {"image", "error"} /\ stored' \in {stored, stored \union {KeyOf[h]}}
           \/ s = "checked" /\ r = "download" /\ KeyOf[h] \notin stored /\ stored' = stored,
           UNCHANGED <<status, reply, replies, chainVars, creds, limiterVars, idleVars,
                       adminCalls>>
    PROVE  IInv'
<1>1. TypeOK /\ UNCHANGED <<replies, chain, pred, pushing, stale, running, list, cleared,
                            active, timer>>
  BY DEF IInv, chainVars, limiterVars, idleVars
<1>2. /\ stage' \in [Handlers -> Stages] /\ stage'[h] = s
      /\ \A g \in Handlers \ {h} : stage'[g] = stage[g]
      /\ result' \in [Handlers -> {"none", "image", "error", "download"}] /\ result'[h] = r
      /\ \A g \in Handlers \ {h} : result'[g] = result[g]
  BY <1>1 DEF TypeOK, Stages
<1>3. OneReply' /\ OneAtATime' /\ ChainsKept'
  <2>1. \A g \in Handlers : Drifts(g)
    BY <1>2, StageFacts DEF Drifts
  <2>2. QED
    BY <1>1, <2>1, DriftKeeps
<1>4. PlacesTaken' /\ Queue'
  BY <1>2, PlacesKept
<1>5. Counted'
  <2>1. \A g \in Handlers : stage'[g] \in {"none", "gone"} <=> stage[g] \in {"none", "gone"}
    BY <1>2
  <2>2. QED
    BY <2>1, CountKept
<1>6. StillMissing'
  <2>1. SUFFICES ASSUME NEW g \in Handlers,
                        stage'[g] = "queued" \/ (stage'[g] = "checked" /\ result'[g] = "download")
                 PROVE  KeyOf[g] \notin stored'
    BY DEF StillMissing
  <2>2. CASE g = h
    BY <1>2, <2>1, <2>2
  <2>3. CASE g # h
    <3>1. /\ stage[g] = "queued" \/ (stage[g] = "checked" /\ result[g] = "download")
          /\ KeyOf[g] \notin stored
      BY <1>2, <2>1, <2>3 DEF IInv, StillMissing
    <3>2. KeyOf[g] # KeyOf[h]
      <4>1. stage[g] \in Working /\ stage[h] \in Working
        BY <3>1, StageFacts
      <4>2. QED
        BY <2>3, <4>1 DEF IInv, OneAtATime
    <3>3. QED
      BY <3>1, <3>2
  <2>4. QED
    BY <2>2, <2>3
<1>7. Outcome'
  BY <1>2 DEF IInv, Outcome
<1>8. TypeOK'
  <2>1. stored' \subseteq Keys
    BY <1>1, RequestAssumption DEF TypeOK
  <2>2. QED
    BY <1>1, <1>2, <2>1 DEF TypeOK
<1>9. QED
  BY <1>3, <1>4, <1>5, <1>6, <1>7, <1>8 DEF IInv

LEMMA CheckStep == ASSUME IInv, NEW h \in Handlers, check(h) PROVE IInv'
<1>1. PICK r \in {"image", "error", "download"} :
         /\ result' = [result EXCEPT ![h] = r]
         /\ \/ r \in {"image", "error"} /\ stored' \in {stored, stored \union {KeyOf[h]}}
            \/ r = "download" /\ KeyOf[h] \notin stored /\ stored' = stored
  BY DEF check
<1>2. QED
  BY <1>1, StoreStep DEF check

LEMMA CreateStep == ASSUME IInv, NEW h \in Handlers, create(h) PROVE IInv'
<1>1. PICK r \in {"image", "error"} : result' = [result EXCEPT ![h] = r]
  BY DEF create
<1>2. QED
  BY <1>1, StoreStep DEF create

(* ~Handler() of a request that was answered. *)
LEMMA DeleteStep == ASSUME IInv, NEW h \in Handlers, delete(h) PROVE IInv'
<1>1. TypeOK /\ stage[h] = "replied"
        /\ UNCHANGED <<replies, chain, pred, pushing, stale, running, list, cleared, limiterVars,
                       status, result, reply, creds, stored, adminCalls>>
  BY DEF IInv, delete, chainVars, limiterVars
<1>2. /\ stage' \in [Handlers -> Stages] /\ stage'[h] = "gone"
      /\ \A g \in Handlers \ {h} : stage'[g] = stage[g]
  BY <1>1 DEF TypeOK, delete, Stages
<1>3. OneReply' /\ OneAtATime' /\ ChainsKept'
  <2>1. \A g \in Handlers : Drifts(g)
    BY <1>1, <1>2 DEF Drifts
  <2>2. QED
    BY <1>1, <2>1, DriftKeeps
<1>4. PlacesTaken' /\ Queue'
  BY <1>1, <1>2, PlacesKept
<1>5. Counted' /\ active' \in Nat /\ timer' \in BOOLEAN
  BY <1>1, <1>2, CountCompleted DEF delete
<1>6. StillMissing' /\ Outcome'
  BY <1>1, <1>2, MissingKept
<1>7. TypeOK'
  BY <1>1, <1>2, <1>5 DEF TypeOK
<1>8. QED
  BY <1>3, <1>4, <1>5, <1>6, <1>7 DEF IInv

LEMMA AdminStep == ASSUME IInv, AdminCall PROVE IInv'
<1>1. TypeOK /\ UNCHANGED <<stage, result, reply, replies, status, creds, active>>
        /\ UNCHANGED <<chain, pred, pushing, stale, running, list, cleared, limiterVars>>
        /\ stored' \subseteq stored
  BY DEF IInv, AdminCall, handlerVars, chainVars, limiterVars
<1>2. OneReply' /\ OneAtATime' /\ ChainsKept'
  <2>1. \A g \in Handlers : Drifts(g)
    BY <1>1 DEF Drifts
  <2>2. QED
    BY <1>1, <2>1, DriftKeeps
<1>3. PlacesTaken' /\ Queue'
  BY <1>1, PlacesKept
<1>4. Counted' /\ timer' \in BOOLEAN
  <2>1. /\ Existing' = Existing /\ IsFiniteSet(Existing) /\ active = Cardinality(Existing)
        /\ (timer => Existing = {}) /\ timer \in BOOLEAN
    BY <1>1 DEF Existing, IInv, Counted, IdleMeansIdle, TypeOK
  <2>2. active = 0 => Existing = {}
    BY <2>1, FS_EmptySet
  <2>3. timer' \in BOOLEAN /\ (timer' => timer \/ active = 0)
    BY <2>1 DEF AdminCall
  <2>4. QED
    BY <1>1, <2>1, <2>2, <2>3 DEF Counted, IdleMeansIdle
<1>5. StillMissing' /\ Outcome'
  BY <1>1, MissingKept
<1>6. TypeOK'
  <2>1. adminCalls' \in 0..MaxAdminCalls
    BY <1>1, RequestAssumption DEF AdminCall, TypeOK
  <2>2. stored' \subseteq Keys
    BY <1>1 DEF TypeOK
  <2>3. QED
    BY <1>1, <1>4, <2>1, <2>2 DEF TypeOK
<1>7. QED
  BY <1>2, <1>3, <1>4, <1>5, <1>6 DEF IInv

(* The download starts. *)
LEMMA StartStep ==
    ASSUME IInv, NEW h \in Handlers, checkFinished(h), result[h] = "download",
           L!HasRoom, L!schedule(h), stage' = [stage EXCEPT ![h] = "download"],
           UNCHANGED <<reply, replies, chain>>
    PROVE  IInv'
<1>1. /\ TypeOK /\ stage[h] = "checked" /\ UNCHANGED <<list, cleared>>
      /\ running' = running + 1 /\ running < Limit
      /\ UNCHANGED <<status, result, pred, pushing, stale, creds, stored, idleVars, adminCalls>>
  BY DEF IInv, checkFinished, L!HasRoom, L!schedule, L!schedule_now
<1>2. /\ stage' \in [Handlers -> Stages] /\ stage'[h] = "download"
      /\ \A g \in Handlers \ {h} : stage'[g] = stage[g]
  BY <1>1 DEF TypeOK, Stages
<1>3. OneReply' /\ OneAtATime' /\ ChainsKept'
  <2>1. \A g \in Handlers : Drifts(g)
    BY <1>1, <1>2, StageFacts DEF Drifts
  <2>2. QED
    BY <1>1, <2>1, DriftKeeps
<1>4. PlacesTaken'
  <2>1. Downloading' = Downloading \union {h} /\ h \notin Downloading
    BY <1>1, <1>2 DEF Downloading
  <2>2. /\ IsFiniteSet(Downloading) /\ Cardinality(Downloading) <= running
        /\ Cardinality(Downloading) \in Nat
    BY FS_CardinalityType DEF IInv, PlacesTaken
  <2>3. IsFiniteSet(Downloading') /\ Cardinality(Downloading') = Cardinality(Downloading) + 1
    BY <2>1, <2>2, FS_AddElement
  <2>4. QED
    BY <1>1, <2>2, <2>3, LimitAssumption DEF PlacesTaken, TypeOK
<1>5. Queue'
  <2>1. \A i \in 1..Len(list) : list[i] \in Handlers \ {h}
    BY <1>1, ElementOfSeq DEF IInv, Queue, TypeOK
  <2>2. QED
    BY <1>1, <1>2, <2>1 DEF IInv, Queue
<1>6. Counted'
  <2>1. \A g \in Handlers : stage'[g] \in {"none", "gone"} <=> stage[g] \in {"none", "gone"}
    BY <1>1, <1>2
  <2>2. QED
    BY <1>1, <2>1, CountKept
<1>7. StillMissing' /\ Outcome'
  BY <1>1, <1>2, MissingKept
<1>8. TypeOK'
  <2>1. active' = active /\ timer' = timer /\ running' \in Nat
    BY <1>1 DEF TypeOK, idleVars
  <2>2. QED
    BY <1>1, <1>2, <2>1 DEF TypeOK
<1>9. QED
  BY <1>3, <1>4, <1>5, <1>6, <1>7, <1>8 DEF IInv

(* The download waits for a place. *)
LEMMA EnqueueStep ==
    ASSUME IInv, NEW h \in Handlers, checkFinished(h), result[h] = "download",
           ~L!HasRoom, L!schedule(h), stage' = [stage EXCEPT ![h] = "queued"],
           UNCHANGED <<reply, replies, chain>>
    PROVE  IInv'
<1>1. /\ TypeOK /\ stage[h] = "checked" /\ UNCHANGED <<running, cleared>>
      /\ list' = Append(list, h)
      /\ UNCHANGED <<status, result, pred, pushing, stale, creds, stored, idleVars, adminCalls>>
  BY DEF IInv, checkFinished, L!schedule, L!enqueue
<1>2. /\ stage' \in [Handlers -> Stages] /\ stage'[h] = "queued"
      /\ \A g \in Handlers \ {h} : stage'[g] = stage[g]
  BY <1>1 DEF TypeOK, Stages
<1>3. OneReply' /\ OneAtATime' /\ ChainsKept'
  <2>1. \A g \in Handlers : Drifts(g)
    BY <1>1, <1>2, StageFacts DEF Drifts
  <2>2. QED
    BY <1>1, <2>1, DriftKeeps
<1>4. PlacesTaken'
  <2>1. Downloading' = Downloading
    BY <1>1, <1>2 DEF Downloading
  <2>2. QED
    BY <1>1, <2>1 DEF IInv, PlacesTaken
<1>5. /\ list' \in Seq(Handlers) /\ Len(list) \in Nat /\ Len(list') = Len(list) + 1
      /\ \A i \in 1..Len(list) : list'[i] = list[i] /\ list[i] \in Handlers \ {h}
      /\ list'[Len(list) + 1] = h
  <2>1. list \in Seq(Handlers) /\ Len(list) \in Nat
    BY <1>1, LenProperties DEF TypeOK
  <2>2. \A i \in 1..Len(list) : list[i] \in Handlers \ {h}
    BY <1>1, <2>1, ElementOfSeq DEF IInv, Queue
  <2>3. QED
    BY <1>1, <2>1, <2>2, AppendProperties
<1>6. Queue'
  <2>1. Queue /\ \A i \in 1..Len(list') : i \in 1..Len(list) \/ i = Len(list) + 1
    BY <1>5 DEF IInv
  <2>2. ASSUME NEW i \in 1..Len(list')
        PROVE  stage'[list'[i]] = "queued" \/ (stage'[list'[i]] = "gone" /\ list'[i] \in cleared')
    <3>1. CASE i \in 1..Len(list)
      <4>1. list'[i] = list[i] /\ stage'[list[i]] = stage[list[i]]
        BY <1>2, <1>5, <3>1
      <4>2. QED
        BY <1>1, <2>1, <3>1, <4>1 DEF Queue
    <3>2. CASE i = Len(list) + 1
      BY <1>2, <1>5, <3>2
    <3>3. QED
      BY <2>1, <3>1, <3>2
  <2>3. ASSUME NEW i \in 1..Len(list'), NEW j \in 1..Len(list'), list'[i] = list'[j]
        PROVE  i = j
    <3>1. CASE i \in 1..Len(list) /\ j \in 1..Len(list)
      BY <1>5, <2>1, <2>3, <3>1 DEF Queue
    <3>2. CASE i = Len(list) + 1 /\ j = Len(list) + 1
      BY <3>2
    <3>3. CASE i \in 1..Len(list) /\ j = Len(list) + 1
      BY <1>5, <2>3, <3>3
    <3>4. CASE i = Len(list) + 1 /\ j \in 1..Len(list)
      BY <1>5, <2>3, <3>4
    <3>5. QED
      BY <2>1, <3>1, <3>2, <3>3, <3>4
  <2>4. QED
    BY <2>2, <2>3 DEF Queue
<1>7. Counted'
  <2>1. \A g \in Handlers : stage'[g] \in {"none", "gone"} <=> stage[g] \in {"none", "gone"}
    BY <1>1, <1>2
  <2>2. QED
    BY <1>1, <2>1, CountKept
<1>8. StillMissing' /\ Outcome'
  <2>1. \A g \in Handlers : stage'[g] = "checked" => stage[g] = "checked"
    BY <1>2
  <2>2. \A g \in Handlers : stage'[g] = "queued" =>
           stage[g] = "queued" \/ (stage[g] = "checked" /\ result[g] = "download")
    BY <1>1, <1>2
  <2>3. \A g \in Handlers : stage'[g] = "created" => stage[g] = "created"
    BY <1>2
  <2>4. QED
    BY <1>1, <2>1, <2>2, <2>3, MissingKept
<1>9. TypeOK'
  <2>1. active' = active /\ timer' = timer
    BY <1>1 DEF idleVars
  <2>2. cleared' \subseteq Range(list')
    <3>1. list \in Seq(Handlers) /\ cleared \subseteq Range(list)
      BY <1>1 DEF TypeOK
    <3>2. \A i \in 1..Len(list) : i \in 1..Len(list')
      BY <1>5
    <3>3. Range(list) \subseteq Range(list')
      BY <1>5, <3>1, <3>2, RangeEquality
    <3>4. QED
      BY <1>1, <3>1, <3>3
  <2>3. QED
    BY <1>1, <1>2, <1>5, <2>1, <2>2 DEF TypeOK
<1>10. QED
  BY <1>3, <1>4, <1>6, <1>7, <1>8, <1>9 DEF IInv

LEMMA CheckFinishedStep == ASSUME IInv, NEW h \in Handlers, checkFinished(h) PROVE IInv'
<1>1. /\ status = "up" /\ stage[h] \in Working \ {"queued"}
      /\ UNCHANGED <<status, result, pred, pushing, stale, creds, stored, idleVars, adminCalls>>
  BY StageFacts DEF checkFinished, Ready
<1>2. CASE result[h] \in {"image", "error"} /\ finish(h, result[h]) /\ UNCHANGED limiterVars
  BY <1>1, <1>2, FinishStep DEF limiterVars
<1>3. CASE /\ result[h] = "download" /\ L!HasRoom /\ L!schedule(h)
           /\ stage' = [stage EXCEPT ![h] = "download"] /\ UNCHANGED <<reply, replies, chain>>
  BY <1>3, StartStep
<1>4. CASE result[h] = "download" /\ L!HasRoom /\ L!schedule(h) /\ finish(h, "error")
  <2>1. running' = running + 1 /\ running < Limit /\ UNCHANGED <<list, cleared>>
    BY <1>4 DEF L!HasRoom, L!schedule, L!schedule_now
  <2>2. running + 1 <= Limit
    BY <2>1, LimitAssumption DEF IInv, TypeOK
  <2>3. QED
    BY <1>1, <1>4, <2>1, <2>2, FinishStep
<1>5. CASE /\ result[h] = "download" /\ ~L!HasRoom /\ L!schedule(h)
           /\ stage' = [stage EXCEPT ![h] = "queued"] /\ UNCHANGED <<reply, replies, chain>>
  BY <1>5, EnqueueStep
<1>6. QED
  BY <1>2, <1>3, <1>4, <1>5 DEF checkFinished, scheduleDownload, startDownload

LEMMA DownloadFinishedStep ==
    ASSUME IInv, NEW h \in Handlers, downloadFinished(h) PROVE IInv'
<1>1. /\ TypeOK /\ status = "up" /\ stage[h] = "download" /\ L!done
      /\ UNCHANGED <<result, reply, replies, chain, pred, pushing, stale, creds, stored,
                     active, timer, idleVars, adminCalls>>
  BY DEF IInv, downloadFinished, Ready, chainVars, idleVars
<1>2. list' \in Seq(Handlers) /\ cleared' \subseteq Range(list')
  BY <1>1, DoneEffect
<1>3. CASE /\ stage' = [g \in Handlers |-> IF g = h THEN "create"
                                           ELSE IF g \in L!NextJob THEN "download"
                                           ELSE stage[g]]
           /\ UNCHANGED status
  <2>1. /\ PlacesTaken' /\ Queue' /\ running' \in Nat
        /\ stage' \in [Handlers -> Stages] /\ stage'[h] = "create"
        /\ \A g \in Handlers \ {h} : \/ stage'[g] = stage[g]
                                     \/ stage[g] = "queued" /\ stage'[g] = "download"
    BY <1>1, <1>3, HandsOver
  <2>2. OneReply' /\ OneAtATime' /\ ChainsKept'
    <3>1. \A g \in Handlers : Drifts(g)
      BY <1>1, <2>1, StageFacts DEF Drifts
    <3>2. QED
      BY <1>1, <1>3, <3>1, DriftKeeps
  <2>3. Counted'
    <3>1. \A g \in Handlers : stage'[g] \in {"none", "gone"} <=> stage[g] \in {"none", "gone"}
      BY <1>1, <2>1
    <3>2. QED
      BY <1>1, <3>1, CountKept
  <2>4. StillMissing' /\ Outcome'
    BY <1>1, <2>1, MissingKept
  <2>5. TypeOK'
    BY <1>1, <1>2, <1>3, <2>1 DEF TypeOK
  <2>6. QED
    BY <2>1, <2>2, <2>3, <2>4, <2>5 DEF IInv
<1>4. CASE L!NextJob # {} /\ status' = "crashed" /\ UNCHANGED stage
  <2>1. \A g \in Handlers : Drifts(g)
    BY <1>4 DEF Drifts
  <2>2. OneReply' /\ OneAtATime' /\ ChainsKept'
    BY <1>1, <1>4, <2>1, DriftKeeps
  <2>3. /\ \A i \in 1..Len(list') : /\ i \in 1..Len(list) /\ list'[i] = list[i]
                                    /\ list[i] \in cleared => list[i] \in cleared'
        /\ running' = running
    BY <1>1, <1>4, DoneEffect
  <2>4. Queue'
    BY <1>4, <2>3 DEF IInv, Queue
  <2>5. PlacesTaken'
    <3>1. Downloading' = Downloading
      BY <1>4 DEF Downloading
    <3>2. QED
      BY <2>3, <3>1 DEF IInv, PlacesTaken
  <2>6. Counted'
    BY <1>1, <1>4, CountKept
  <2>7. StillMissing' /\ Outcome'
    BY <1>1, <1>4, MissingKept
  <2>8. TypeOK'
    BY <1>1, <1>2, <1>4, <2>3 DEF TypeOK
  <2>9. QED
    BY <2>2, <2>4, <2>5, <2>6, <2>7, <2>8 DEF IInv
<1>5. QED
  BY <1>3, <1>4 DEF downloadFinished

(* A request without a reply is destroyed: the chains no longer matter. *)
LEMMA DestroyStep == ASSUME IInv, NEW h \in Handlers, destroyAtShutdown(h) PROVE IInv'
<1>1. /\ TypeOK /\ status' = "quitting" /\ stage[h] \notin {"none", "gone"}
      /\ request_completed /\ stage[h] # "replied"
      /\ UNCHANGED <<status, result, reply, replies, chain, pred, pushing, stale, creds, stored,
                     adminCalls>>
  BY DEF IInv, destroyAtShutdown, chainVars
(* What every branch makes of the requests and of the limiter is enough. *)
<1>2. ASSUME /\ stage' \in [Handlers -> Stages] /\ stage'[h] = "gone"
             /\ \A g \in Handlers \ {h} : \/ stage'[g] = stage[g]
                                          \/ stage[g] = "queued" /\ stage'[g] = "download",
             PlacesTaken', Queue', running' \in Nat, list' \in Seq(Handlers),
             cleared' \subseteq Range(list')
      PROVE  IInv'
  <2>1. OneReply'
    BY <1>1, <1>2 DEF IInv, OneReply, Over
  <2>2. OneAtATime'
    <3>1. \A g \in Handlers : stage'[g] \in Working => stage[g] \in Working
      BY <1>2, StageFacts
    <3>2. QED
      BY <3>1 DEF IInv, OneAtATime
  <2>3. ChainsKept'
    BY <1>1 DEF ChainsKept
  <2>4. Counted' /\ active' \in Nat /\ timer' \in BOOLEAN
    <3>1. \A g \in Handlers \ {h} :
             stage'[g] \in {"none", "gone"} <=> stage[g] \in {"none", "gone"}
      BY <1>2
    <3>2. QED
      BY <1>1, <1>2, <3>1, CountCompleted
  <2>5. StillMissing' /\ Outcome'
    BY <1>1, <1>2, MissingKept
  <2>6. TypeOK'
    BY <1>1, <1>2, <2>4 DEF TypeOK
  <2>7. QED
    BY <1>2, <2>1, <2>2, <2>3, <2>4, <2>5, <2>6 DEF IInv
<1>3. ASSUME stage' = [stage EXCEPT ![h] = "gone"]
      PROVE  /\ stage' \in [Handlers -> Stages] /\ stage'[h] = "gone"
             /\ \A g \in Handlers \ {h} : stage'[g] = stage[g]
  BY <1>1, <1>3 DEF TypeOK, Stages
<1>4. CASE stage[h] # "download" /\ L!cancel(h) /\ stage' = [stage EXCEPT ![h] = "gone"]
  <2>1. /\ list' = list /\ running' = running /\ list \in Seq(Handlers) /\ running \in Nat
        /\ cleared' = IF h \in Range(list) THEN cleared \union {h} ELSE cleared
        /\ cleared \subseteq Range(list)
    BY <1>1, <1>4 DEF L!cancel, L!IsQueued, L!Range, Range, TypeOK
  <2>2. cleared' \subseteq Range(list') /\ cleared \subseteq cleared'
    BY <2>1
  <2>3. \A i \in 1..Len(list) : list[i] \in Handlers /\ list[i] \in Range(list)
    BY <2>1, ElementOfSeq, RangeEquality
  <2>4. Queue'
    <3>1. \A i \in 1..Len(list) : \/ stage'[list[i]] = "queued"
                                  \/ stage'[list[i]] = "gone" /\ list[i] \in cleared'
      <4>1. SUFFICES ASSUME NEW i \in 1..Len(list)
                     PROVE  \/ stage'[list[i]] = "queued"
                            \/ stage'[list[i]] = "gone" /\ list[i] \in cleared'
        OBVIOUS
      <4>2. CASE list[i] = h
        BY <1>3, <1>4, <2>1, <2>3, <4>2
      <4>3. CASE list[i] # h
        BY <1>3, <1>4, <2>2, <2>3, <4>3 DEF IInv, Queue
      <4>4. QED
        BY <4>2, <4>3
    <3>2. QED
      BY <2>1, <3>1 DEF IInv, Queue
  <2>5. PlacesTaken'
    <3>1. Downloading' = Downloading
      BY <1>3, <1>4 DEF Downloading
    <3>2. QED
      BY <2>1, <3>1 DEF IInv, PlacesTaken
  <2>6. QED
    BY <1>2, <1>3, <1>4, <2>1, <2>2, <2>4, <2>5
<1>5. CASE /\ stage[h] = "download" /\ stage' = [stage EXCEPT ![h] = "gone"]
           /\ UNCHANGED limiterVars
  <2>1. PlacesTaken' /\ Queue'
    BY <1>3, <1>5, PlacesKept
  <2>2. /\ running' \in Nat /\ list' \in Seq(Handlers) /\ cleared' \subseteq Range(list')
    BY <1>1, <1>5 DEF TypeOK, limiterVars
  <2>3. QED
    BY <1>2, <1>3, <1>5, <2>1, <2>2
<1>6. CASE /\ stage[h] = "download" /\ L!done
           /\ stage' = [g \in Handlers |-> IF g = h THEN "gone"
                                           ELSE IF g \in L!NextJob THEN "download"
                                           ELSE stage[g]]
  <2>1. /\ PlacesTaken' /\ Queue' /\ running' \in Nat
        /\ stage' \in [Handlers -> Stages] /\ stage'[h] = "gone"
        /\ \A g \in Handlers \ {h} : \/ stage'[g] = stage[g]
                                     \/ stage[g] = "queued" /\ stage'[g] = "download"
    BY <1>6, HandsOver
  <2>2. list' \in Seq(Handlers) /\ cleared' \subseteq Range(list')
    BY <1>6, DoneEffect
  <2>3. QED
    BY <1>2, <2>1, <2>2
<1>7. QED
  BY <1>4, <1>5, <1>6 DEF destroyAtShutdown
-----------------------------------------------------------------------------
LEMMA NextIInv == IInv /\ [Next]_vars => IInv'
<1> SUFFICES ASSUME IInv, [Next]_vars PROVE IInv'
  OBVIOUS
<1>1. ASSUME UNCHANGED vars PROVE IInv'
  BY <1>1, StillStep DEF vars, IInv, TypeOK
<1>2. ASSUME Shutdown \/ timer_expired \/ exit \/ ClientConfig \/ Terminated PROVE IInv'
  <2>1. CASE quit
    BY <2>1, StillStep DEF quit, Ready
  <2>2. CASE exit
    BY <2>2, StillStep DEF exit
  <2>3. QED
    BY <1>1, <1>2, <2>1, <2>2 DEF Shutdown, timer_expired, ClientConfig, Terminated
<1>3. ASSUME NEW k \in Keys, Forget(k) PROVE IInv'
  BY <1>3, StillStep DEF Forget
<1>4. ASSUME NEW h \in Handlers, GetThumbnail(h) \/ GetThumbnailThrows(h) PROVE IInv'
  BY <1>4, ArrivalStep, ThrowsStep
<1>5. ASSUME NEW h \in Handlers, HandlerStep(h) PROVE IInv'
  BY <1>5, BeginStep, GotCredentialsStep, CheckStep, CheckFinishedStep, DownloadFinishedStep,
     CreateStep, CreateFinishedStep, DeleteStep, DestroyStep DEF HandlerStep
<1>6. ASSUME NEW p \in Peers, received_credentials(p) PROVE IInv'
  BY <1>6, CredentialsStep
<1>7. QED
  BY <1>1, <1>2, <1>3, <1>4, <1>5, <1>6, AdminStep, PushStep DEF Next, Input, Work

(* The inductive invariant holds in every state of the service. *)
THEOREM SpecIInv == Spec => []IInv
  BY InitIInv, NextIInv, PTL DEF Spec

(* Who is behind another in a chain waits for one that will still finish. *)
LEMMA ChainedWaits == IInv => NoOrphan
<1> SUFFICES ASSUME IInv, status = "up", NEW h \in Handlers, stage[h] = "chained"
             PROVE  /\ pred[h] # None
                    /\ KeyOf[pred[h]] = KeyOf[h]
                    /\ stage[pred[h]] \notin {"none"} \union Over
  BY DEF NoOrphan
<1> DEFINE c == chain[KeyOf[h]]
<1>1. /\ InOrder /\ Everyone /\ Pushing /\ KeyOf[h] \in Keys /\ c \in Seq(Handlers)
      /\ Len(c) \in Nat /\ \A i \in 1..Len(c) : c[i] \in Handlers
  BY RequestAssumption, LenProperties, ElementOfSeq DEF IInv, ChainsKept, TypeOK
<1>2. Alive(h) /\ pushing # h
  BY <1>1, RequestAssumption DEF Alive, Over, Pushing, Waiting
<1>3. PICK i \in 1..Len(c) : c[i] = h
  BY <1>1, <1>2 DEF Everyone, InChain
<1>4. i > 1
  <2>1. i # 1
    BY <1>1, <1>3, StageFacts DEF InOrder
  <2>2. QED
    BY <1>1, <2>1
<1>5. pred[h] = c[i - 1] /\ i - 1 \in 1..Len(c)
  BY <1>1, <1>3, <1>4 DEF InOrder
<1>6. KeyOf[c[i - 1]] = KeyOf[h] /\ c[i - 1] \in Handlers
  BY <1>1, <1>5 DEF InOrder
<1>7. stage[c[i - 1]] \in Working \/ stage[c[i - 1]] = "chained"
  <2>1. i - 1 = 1 \/ i - 1 > 1
    BY <1>4
  <2>2. QED
    BY <1>1, <1>5, <2>1 DEF InOrder
<1>8. QED
  BY <1>5, <1>6, <1>7, StageFacts, RequestAssumption DEF Over

(* A download starts from checkFinished(), or from done() of another one. *)
LEMMA StartsFromHere ==
    ASSUME IInv, [Next]_vars, NEW g \in Handlers,
           stage[g] # "download", stage'[g] = "download"
    PROVE  stage[g] = "queued" \/ (stage[g] = "checked" /\ result[g] = "download")
<1>1. stage \in [Handlers -> Stages]
  BY DEF IInv, TypeOK
<1>2. ASSUME NEW h \in Handlers, NEW r, finish(h, r) PROVE FALSE
  <2>1. stage'[g] \in {"replied", "begin", stage[g]}
    BY <1>2 DEF finish
  <2>2. QED
    BY <2>1
<1>3. ASSUME L!done PROVE \A f \in L!NextJob : f \in Handlers /\ stage[f] = "queued"
  BY <1>3, DoneEffect
<1>4. ASSUME UNCHANGED stage PROVE FALSE
  BY <1>4
<1>5. ~ UNCHANGED vars
  BY <1>4 DEF vars, handlerVars
<1>6. CASE Shutdown \/ timer_expired \/ exit \/ ClientConfig \/ Terminated \/ AdminCall \/ PushBack
  BY <1>4, <1>5, <1>6 DEF Shutdown, timer_expired, quit, exit, ClientConfig, Terminated,
     AdminCall, PushBack, handlerVars
<1>7. CASE \E k \in Keys : Forget(k)
  BY <1>4, <1>7 DEF Forget, handlerVars
<1>8. ASSUME NEW h \in Handlers, GetThumbnail(h) \/ GetThumbnailThrows(h) PROVE FALSE
  BY <1>1, <1>8 DEF GetThumbnail, GetThumbnailThrows, queueRequest
<1>9. ASSUME NEW p \in Peers, received_credentials(p) PROVE FALSE
  BY <1>1, <1>9 DEF received_credentials
<1>10. ASSUME NEW h \in Handlers, HandlerStep(h)
       PROVE  stage[g] = "queued" \/ (stage[g] = "checked" /\ result[g] = "download")
  <2>1. CASE begin(h)
    BY <1>1, <2>1 DEF begin
  <2>2. CASE gotCredentials(h)
    <3>1. CASE finish(h, "error")
      BY <1>2, <3>1
    <3>2. CASE stage' = [stage EXCEPT ![h] = "check"]
      BY <1>1, <3>2
    <3>3. QED
      BY <2>2, <3>1, <3>2 DEF gotCredentials
  <2>3. CASE check(h) \/ create(h)
    BY <1>1, <2>3 DEF check, create
  <2>4. CASE delete(h)
    BY <1>1, <2>4 DEF delete
  <2>5. CASE createFinished(h)
    BY <1>2, <2>5 DEF createFinished
  <2>6. CASE checkFinished(h)
    <3>1. CASE \E r : finish(h, r)
      BY <1>2, <3>1
    <3>2. CASE result[h] = "download" /\ \E s : stage' = [stage EXCEPT ![h] = s]
      BY <1>1, <2>6, <3>2 DEF checkFinished
    <3>3. QED
      BY <2>6, <3>1, <3>2 DEF checkFinished, scheduleDownload, startDownload
  <2>7. CASE downloadFinished(h)
    <3>1. CASE UNCHANGED stage
      BY <1>4, <3>1
    <3>2. CASE stage' = [f \in Handlers |-> IF f = h THEN "create"
                                            ELSE IF f \in L!NextJob THEN "download"
                                            ELSE stage[f]]
      <4>1. g \in L!NextJob
        BY <3>2
      <4>2. QED
        BY <1>3, <2>7, <4>1 DEF downloadFinished
    <3>3. QED
      BY <2>7, <3>1, <3>2 DEF downloadFinished
  <2>8. CASE destroyAtShutdown(h)
    <3>1. CASE stage' = [stage EXCEPT ![h] = "gone"]
      BY <1>1, <3>1
    <3>2. CASE /\ L!done
               /\ stage' = [f \in Handlers |-> IF f = h THEN "gone"
                                               ELSE IF f \in L!NextJob THEN "download"
                                               ELSE stage[f]]
      <4>1. g \in L!NextJob
        BY <3>2
      <4>2. QED
        BY <1>3, <3>2, <4>1
    <3>3. QED
      BY <2>8, <3>1, <3>2 DEF destroyAtShutdown
  <2>9. QED
    BY <1>10, <2>1, <2>2, <2>3, <2>4, <2>5, <2>6, <2>7, <2>8 DEF HandlerStep
<1>11. QED
  BY <1>5, <1>6, <1>7, <1>8, <1>9, <1>10 DEF Next, Input, Work
-----------------------------------------------------------------------------
(* The places of the limiter.  Who has not been checked has no result, so  *)
(* that a request that is over with the result "download" can only be one  *)
(* whose download() threw.                                                 *)
Unchecked == {"none", "chained", "begin", "creds", "called", "check"}
Unasked == \A h \in Handlers : stage[h] \in Unchecked => result[h] = "none"

TakesPlace(h) == stage[h] = "download" \/ (stage[h] \in Over /\ result[h] = "download")
Taken == {h \in Handlers : TakesPlace(h)}
TakenCounted == status = "up" => IsFiniteSet(Taken) /\ running = Cardinality(Taken)

(* A step that gives nobody a place and takes none away. *)
LEMMA TakenKept ==
    ASSUME TakenCounted, \A g \in Handlers : TakesPlace(g)' <=> TakesPlace(g),
           running' = running, status' # "up" \/ status = "up"
    PROVE  TakenCounted'
<1>1. Taken' = Taken
  BY DEF Taken, TakesPlace
<1>2. QED
  BY <1>1 DEF TakenCounted

(* A finished request whose result is not "download" returned its place. *)
LEMMA FinishTakes ==
    ASSUME TypeOK, Unasked, NEW h \in Handlers, NEW r, finish(h, r), UNCHANGED result,
           stage[h] \notin Over, stage[h] # "download"
    PROVE  /\ Unasked'
           /\ TakesPlace(h)' <=> result[h] = "download"
           /\ \A g \in Handlers \ {h} : TakesPlace(g)' <=> TakesPlace(g)
<1>1. /\ stage \in [Handlers -> Stages] /\ stage'[h] = "replied"
      /\ \A g \in Handlers \ {h} : \/ stage'[g] = stage[g]
                                   \/ stage[g] = "chained" /\ stage'[g] = "begin"
  BY DEF finish, TypeOK
<1>2. QED
  BY <1>1 DEF Unasked, Unchecked, TakesPlace, Over

(* One more place is taken, by h. *)
LEMMA PlaceAdded ==
    ASSUME TakenCounted, NEW h \in Handlers, ~TakesPlace(h), TakesPlace(h)',
           \A g \in Handlers \ {h} : TakesPlace(g)' <=> TakesPlace(g),
           status = "up", running' = running + 1
    PROVE  TakenCounted'
<1>1. Taken' = Taken \union {h} /\ h \notin Taken /\ IsFiniteSet(Taken)
      /\ running = Cardinality(Taken)
  BY DEF Taken, TakenCounted
<1>2. IsFiniteSet(Taken') /\ Cardinality(Taken') = Cardinality(Taken) + 1
  BY <1>1, FS_AddElement
<1>3. QED
  BY <1>1, <1>2 DEF TakenCounted

LEMMA CheckFinishedPlaces ==
    ASSUME IInv, Unasked, TakenCounted, NEW h \in Handlers, checkFinished(h)
    PROVE  Unasked' /\ TakenCounted'
<1>1. /\ TypeOK /\ stage \in [Handlers -> Stages] /\ stage[h] = "checked" /\ status = "up"
      /\ UNCHANGED <<status, result>>
  BY DEF IInv, TypeOK, checkFinished, Ready
<1>2. ~TakesPlace(h) /\ stage[h] \notin Over
  BY <1>1 DEF TakesPlace, Over
<1>3. CASE result[h] \in {"image", "error"} /\ finish(h, result[h]) /\ UNCHANGED limiterVars
  <2>1. /\ Unasked' /\ result[h] # "download" /\ running' = running
        /\ TakesPlace(h)' <=> result[h] = "download"
        /\ \A g \in Handlers \ {h} : TakesPlace(g)' <=> TakesPlace(g)
    BY <1>1, <1>2, <1>3, FinishTakes DEF limiterVars
  <2>2. QED
    BY <1>1, <1>2, <2>1, TakenKept
<1>4. CASE /\ result[h] = "download" /\ L!HasRoom /\ L!schedule(h)
           /\ stage' = [stage EXCEPT ![h] = "download"]
  <2>1. running' = running + 1
    BY <1>4 DEF L!HasRoom, L!schedule, L!schedule_now
  <2>2. stage'[h] = "download" /\ \A g \in Handlers \ {h} : stage'[g] = stage[g]
    BY <1>1, <1>4
  <2>3. /\ Unasked' /\ TakesPlace(h)'
        /\ \A g \in Handlers \ {h} : TakesPlace(g)' <=> TakesPlace(g)
    BY <1>1, <2>2 DEF Unasked, Unchecked, TakesPlace
  <2>4. QED
    BY <1>1, <1>2, <2>1, <2>3, PlaceAdded
<1>5. CASE result[h] = "download" /\ L!HasRoom /\ L!schedule(h) /\ finish(h, "error")
  <2>1. running' = running + 1
    BY <1>5 DEF L!HasRoom, L!schedule, L!schedule_now
  <2>2. /\ Unasked' /\ TakesPlace(h)'
        /\ \A g \in Handlers \ {h} : TakesPlace(g)' <=> TakesPlace(g)
    BY <1>1, <1>2, <1>5, FinishTakes
  <2>3. QED
    BY <1>1, <1>2, <2>1, <2>2, PlaceAdded
<1>6. CASE /\ result[h] = "download" /\ ~L!HasRoom /\ L!schedule(h)
           /\ stage' = [stage EXCEPT ![h] = "queued"]
  <2>1. running' = running
    BY <1>6 DEF L!schedule, L!enqueue
  <2>2. stage'[h] = "queued" /\ \A g \in Handlers \ {h} : stage'[g] = stage[g]
    BY <1>1, <1>6
  <2>3. /\ Unasked' /\ \A g \in Handlers : TakesPlace(g)' <=> TakesPlace(g)
    BY <1>1, <2>2 DEF Unasked, Unchecked, TakesPlace, Over
  <2>4. QED
    BY <1>1, <2>1, <2>3, TakenKept
<1>7. QED
  BY <1>3, <1>4, <1>5, <1>6 DEF checkFinished, scheduleDownload, startDownload

(* done() passes the place on or gives it back, unless it ends the process. *)
LEMMA DownloadFinishedPlaces ==
    ASSUME IInv, Unasked, TakenCounted, NEW h \in Handlers, downloadFinished(h)
    PROVE  Unasked' /\ TakenCounted'
<1>1. /\ stage \in [Handlers -> Stages] /\ stage[h] = "download" /\ status = "up" /\ L!done
      /\ UNCHANGED result
  BY DEF IInv, TypeOK, downloadFinished, Ready
<1>2. CASE status' = "crashed" /\ UNCHANGED stage
  BY <1>1, <1>2 DEF Unasked, TakenCounted
<1>3. CASE stage' = [g \in Handlers |-> IF g = h THEN "create"
                                        ELSE IF g \in L!NextJob THEN "download"
                                        ELSE stage[g]]
  <2>1. /\ IsFiniteSet(Taken) /\ running = Cardinality(Taken) /\ h \in Taken
        /\ stage'[h] = "create"
    BY <1>1, <1>3 DEF TakenCounted, Taken, TakesPlace
  <2>2. /\ IsFiniteSet(Taken \ {h}) /\ Cardinality(Taken \ {h}) = Cardinality(Taken) - 1
        /\ Cardinality(Taken) \in Nat
    BY <2>1, FS_RemoveElement, FS_CardinalityType
  <2>3. CASE L!NextJob = {} /\ running' = running - 1
    <3>1. \A g \in Handlers \ {h} : stage'[g] = stage[g]
      BY <1>3, <2>3
    <3>2. Unasked' /\ Taken' = Taken \ {h}
      BY <1>1, <2>1, <3>1 DEF Unasked, Unchecked, Taken, TakesPlace, Over
    <3>3. QED
      BY <2>1, <2>2, <2>3, <3>2 DEF TakenCounted
  <2>4. ASSUME NEW f \in Handlers, L!NextJob = {f}, stage[f] = "queued", running' = running
        PROVE  Unasked' /\ TakenCounted'
    <3>1. /\ f # h /\ stage'[f] = "download"
          /\ \A g \in Handlers \ {h, f} : stage'[g] = stage[g]
      BY <1>1, <1>3, <2>4
    <3>2. /\ Unasked' /\ Taken' = (Taken \ {h}) \union {f} /\ f \notin Taken \ {h}
      BY <1>1, <2>1, <2>4, <3>1 DEF Unasked, Unchecked, Taken, TakesPlace, Over
    <3>3. IsFiniteSet(Taken') /\ Cardinality(Taken') = Cardinality(Taken \ {h}) + 1
      BY <2>2, <3>2, FS_AddElement
    <3>4. QED
      BY <2>1, <2>2, <2>4, <3>2, <3>3 DEF TakenCounted
  <2>5. QED
    BY <1>1, <2>3, <2>4, DoneEffect
<1>4. QED
  BY <1>2, <1>3 DEF downloadFinished

(* The requests that only move between stages that hold no place. *)
LEMMA OtherPlaces ==
    ASSUME IInv, Unasked, TakenCounted, NEW h \in Handlers,
           \/ begin(h) \/ gotCredentials(h) \/ check(h) \/ create(h) \/ createFinished(h)
           \/ delete(h) \/ GetThumbnail(h) \/ GetThumbnailThrows(h)
    PROVE  Unasked' /\ TakenCounted'
<1>1. TypeOK /\ Outcome /\ stage \in [Handlers -> Stages]
      /\ result \in [Handlers -> {"none", "image", "error", "download"}]
  BY DEF IInv, TypeOK
<1>2. ASSUME NEW r, finish(h, r), UNCHANGED <<status, result, running>>, result[h] # "download",
             stage[h] \in {"called", "created"}
      PROVE  Unasked' /\ TakenCounted'
  <2>1. stage[h] \notin Over /\ stage[h] # "download" /\ ~TakesPlace(h)
    BY <1>2 DEF Over, TakesPlace
  <2>2. /\ Unasked' /\ ~TakesPlace(h)'
        /\ \A g \in Handlers \ {h} : TakesPlace(g)' <=> TakesPlace(g)
    BY <1>1, <1>2, <2>1, FinishTakes
  <2>3. QED
    BY <1>2, <2>1, <2>2, TakenKept
<1>3. ASSUME NEW s \in Stages, stage' = [stage EXCEPT ![h] = s],
             UNCHANGED <<status, running>>,
             \A g \in Handlers \ {h} : result'[g] = result[g],
             TakesPlace(h)' <=> TakesPlace(h), s \in Unchecked => result'[h] = "none"
      PROVE  Unasked' /\ TakenCounted'
  <2>1. stage'[h] = s /\ \A g \in Handlers \ {h} : stage'[g] = stage[g]
    BY <1>1, <1>3
  <2>2. Unasked' /\ \A g \in Handlers : TakesPlace(g)' <=> TakesPlace(g)
    BY <1>3, <2>1 DEF Unasked, TakesPlace
  <2>3. QED
    BY <1>3, <2>2, TakenKept
<1>4. CASE begin(h)
  <2>1. PICK s \in {"creds", "called"} : stage' = [stage EXCEPT ![h] = s]
    BY <1>4 DEF begin
  <2>2. stage[h] = "begin" /\ stage'[h] = s /\ UNCHANGED <<status, running, result>>
    BY <1>1, <1>4, <2>1 DEF begin, limiterVars
  <2>3. QED
    BY <1>3, <2>1, <2>2 DEF Stages, TakesPlace, Over, Unasked, Unchecked
<1>5. CASE gotCredentials(h)
  <2>1. /\ stage[h] = "called" /\ UNCHANGED <<status, running, result>> /\ result[h] = "none"
    BY <1>5 DEF gotCredentials, limiterVars, Unasked, Unchecked
  <2>2. CASE finish(h, "error")
    BY <1>2, <2>1, <2>2
  <2>3. CASE stage' = [stage EXCEPT ![h] = "check"]
    <3>1. stage'[h] = "check"
      BY <1>1, <2>3
    <3>2. QED
      BY <1>3, <2>1, <2>3, <3>1 DEF Stages, TakesPlace, Over
  <2>4. QED
    BY <1>5, <2>2, <2>3 DEF gotCredentials
<1>6. CASE check(h)
  <2>1. /\ stage[h] = "check" /\ stage' = [stage EXCEPT ![h] = "checked"]
        /\ stage'[h] = "checked" /\ UNCHANGED <<status, running>>
        /\ \A g \in Handlers \ {h} : result'[g] = result[g]
    BY <1>1, <1>6 DEF check, limiterVars
  <2>2. QED
    BY <1>3, <2>1 DEF Stages, TakesPlace, Over, Unchecked
<1>7. CASE create(h)
  <2>1. /\ stage[h] = "create" /\ stage' = [stage EXCEPT ![h] = "created"]
        /\ stage'[h] = "created" /\ UNCHANGED <<status, running>>
        /\ \A g \in Handlers \ {h} : result'[g] = result[g]
    BY <1>1, <1>7 DEF create, limiterVars
  <2>2. QED
    BY <1>3, <2>1 DEF Stages, TakesPlace, Over, Unchecked
<1>8. CASE createFinished(h)
  <2>1. /\ stage[h] = "created" /\ UNCHANGED <<status, running, result>>
        /\ finish(h, result[h]) /\ result[h] # "download"
    BY <1>1, <1>8 DEF createFinished, limiterVars, Outcome
  <2>2. QED
    BY <1>2, <2>1
<1>9. CASE delete(h)
  <2>1. /\ stage[h] = "replied" /\ stage' = [stage EXCEPT ![h] = "gone"]
        /\ stage'[h] = "gone" /\ UNCHANGED <<status, running, result>>
    BY <1>1, <1>9 DEF delete, limiterVars
  <2>2. QED
    BY <1>3, <2>1 DEF Stages, TakesPlace, Over, Unchecked
<1>10. CASE GetThumbnail(h)
  <2>1. PICK s \in {"begin", "chained"} : stage' = [stage EXCEPT ![h] = s]
    BY <1>10 DEF GetThumbnail, queueRequest
  <2>2. /\ stage[h] = "none" /\ stage'[h] = s /\ UNCHANGED <<status, running, result>>
    BY <1>1, <1>10, <2>1 DEF GetThumbnail, limiterVars
  <2>3. QED
    BY <1>3, <2>1, <2>2 DEF Stages, TakesPlace, Over, Unasked, Unchecked
<1>11. CASE GetThumbnailThrows(h)
  <2>1. /\ stage[h] = "none" /\ stage' = [stage EXCEPT ![h] = "gone"]
        /\ stage'[h] = "gone" /\ UNCHANGED <<status, running, result>> /\ result[h] = "none"
    BY <1>1, <1>11 DEF GetThumbnailThrows, limiterVars, Unasked, Unchecked
  <2>2. QED
    BY <1>3, <2>1 DEF Stages, TakesPlace, Over, Unchecked
<1>12. QED
  BY <1>4, <1>5, <1>6, <1>7, <1>8, <1>9, <1>10, <1>11

LEMMA NextPlaces ==
    IInv /\ Unasked /\ TakenCounted /\ [Next]_vars => Unasked' /\ TakenCounted'
<1> SUFFICES ASSUME IInv, Unasked, TakenCounted, [Next]_vars PROVE Unasked' /\ TakenCounted'
  OBVIOUS
<1>1. stage \in [Handlers -> Stages]
  BY DEF IInv, TypeOK
<1>2. ASSUME UNCHANGED <<stage, result, running>>, status' # "up" \/ status = "up"
      PROVE  Unasked' /\ TakenCounted'
  <2>1. \A g \in Handlers : TakesPlace(g)' <=> TakesPlace(g)
    BY <1>2 DEF TakesPlace
  <2>2. QED
    BY <1>2, <2>1, TakenKept DEF Unasked
<1>3. CASE UNCHANGED vars
  BY <1>2, <1>3 DEF vars, handlerVars, limiterVars
<1>4. CASE Shutdown \/ timer_expired \/ exit \/ ClientConfig \/ Terminated \/ AdminCall \/ PushBack
  <2>1. UNCHANGED <<stage, result, running>> /\ (status' # "up" \/ status = "up")
    BY <1>4 DEF Shutdown, timer_expired, quit, exit, ClientConfig, Terminated, AdminCall,
       PushBack, vars, handlerVars, limiterVars
  <2>2. QED
    BY <1>2, <2>1
<1>5. ASSUME NEW k \in Keys, Forget(k) PROVE Unasked' /\ TakenCounted'
  BY <1>2, <1>5 DEF Forget, handlerVars, limiterVars
<1>6. ASSUME NEW p \in Peers, received_credentials(p) PROVE Unasked' /\ TakenCounted'
  <2>1. /\ UNCHANGED <<status, result, running>>
        /\ \A g \in Handlers : \/ stage'[g] = stage[g]
                               \/ stage[g] = "creds" /\ stage'[g] = "called"
    BY <1>1, <1>6 DEF received_credentials, limiterVars
  <2>2. Unasked' /\ \A g \in Handlers : TakesPlace(g)' <=> TakesPlace(g)
    BY <2>1 DEF Unasked, Unchecked, TakesPlace, Over
  <2>3. QED
    BY <2>1, <2>2, TakenKept
<1>7. ASSUME NEW h \in Handlers, destroyAtShutdown(h) PROVE Unasked' /\ TakenCounted'
  <2>1. status' = "quitting" /\ UNCHANGED result
    BY <1>7 DEF destroyAtShutdown
  <2>2. \A g \in Handlers : stage'[g] \in {"gone", "download", stage[g]}
    BY <1>1, <1>7 DEF destroyAtShutdown
  <2>3. QED
    BY <2>1, <2>2 DEF Unasked, Unchecked, TakenCounted
<1>8. ASSUME NEW h \in Handlers, HandlerStep(h) \/ GetThumbnail(h) \/ GetThumbnailThrows(h)
      PROVE  Unasked' /\ TakenCounted'
  BY <1>7, <1>8, OtherPlaces, CheckFinishedPlaces, DownloadFinishedPlaces DEF HandlerStep
<1>9. QED
  BY <1>3, <1>4, <1>5, <1>6, <1>8 DEF Next, Input, Work
-----------------------------------------------------------------------------
(* However requests are refused, fail, throw or are chained, each is       *)
(* answered at most once, and once it is finished exactly once.            *)
THEOREM AnsweredOnce == Spec => []OneReply
<1>1. IInv => OneReply
  BY DEF IInv
<1>2. QED
  BY <1>1, SpecIInv, PTL

(* Requests for one key are worked on one at a time, and none of them is   *)
(* left behind one that has already finished.                              *)
THEOREM ChainsHold == Spec => []Chains
<1>1. IInv => Chains
  BY ChainedWaits DEF IInv, Chains
<1>2. QED
  BY <1>1, SpecIInv, PTL

(* num_active_requests_ counts the Handler objects, and the idle timer     *)
(* never runs under one.                                                   *)
THEOREM IdleTimerIsSafe == Spec => []IdleMeansIdle
<1>1. IInv => IdleMeansIdle
  BY DEF IInv, Counted
<1>2. QED
  BY <1>1, SpecIInv, PTL

(* The limit on downloads holds whatever throws or is cancelled. *)
LEMMA DownloadsStayLimited == Spec => []DownloadsLimited
<1>1. IInv => DownloadsLimited
  <2>1. SUFFICES ASSUME IInv PROVE Cardinality(Downloading) <= Limit
    BY DEF DownloadsLimited
  <2>2. /\ IsFiniteSet(Downloading) /\ Cardinality(Downloading) <= running
        /\ running <= Limit /\ running \in Nat
    BY <2>1, Zenon DEF IInv, PlacesTaken, TypeOK
  <2>3. Cardinality(Downloading) \in Nat /\ Limit \in Nat
    BY <2>2, FS_CardinalityType, LimitAssumption
  <2>4. QED
    BY <2>2, <2>3
<1>2. QED
  BY <1>1, SpecIInv, PTL

(* A place of the limiter is taken by a running download, or lost to a     *)
(* request whose own download() threw: done() gives back every other one,  *)
(* whoever is refused, fails or waits, for every number of requests.       *)
LEMMA PlacesAreReturned == Spec => []PlacesReturned
<1>1. Init => Unasked /\ TakenCounted
  <2>1. SUFFICES ASSUME Init PROVE Unasked /\ Taken = {} /\ running = 0
    BY FS_EmptySet DEF TakenCounted
  <2>2. \A h \in Handlers : stage[h] = "none" /\ result[h] = "none"
    BY <2>1 DEF Init
  <2>3. QED
    BY <2>1, <2>2 DEF Init, Unasked, Taken, TakesPlace, Over
<1>2. Unasked /\ TakenCounted => PlacesReturned
  <2>1. Taken = Downloading \union LostPlaces
    BY DEF Taken, TakesPlace, Downloading, LostPlaces
  <2>2. QED
    BY <2>1 DEF TakenCounted, PlacesReturned
<1>3. QED
  BY <1>1, <1>2, NextPlaces, SpecIInv, PTL DEF Spec

(* Both: schedule(), done(), the cancel function and the destructors give  *)
(* out no place too many and lose none, except to a download() that threw. *)
THEOREM PlacesStayInOrder == Spec => []PlacesInOrder
  BY DownloadsStayLimited, PlacesAreReturned, PTL DEF PlacesInOrder

(* What check() found missing is still missing when its download starts,   *)
(* even after a wait in the limiter's queue: the chain kept every other    *)
(* request for the key from filling it.                                    *)
THEOREM NothingDownloadedTwice == Spec => NoRedundantDownload
<1>1. IInv /\ [Next]_vars =>
         [\A h \in Handlers :
             (stage[h] # "download" /\ stage'[h] = "download") => KeyOf[h] \notin stored]_vars
  BY StartsFromHere DEF IInv, StillMissing
<1>2. QED
  BY <1>1, SpecIInv, PTL DEF Spec, NoRedundantDownload
=============================================================================
