--------------------------- MODULE CallbackProofs ----------------------------
(***************************************************************************)
(* Two objects of the service that start something outside of it and call  *)
(* their owner back when it ends: ImageExtractor waits for vs-thumb, for   *)
(* images and pipes of every size; CredentialsCache waits for the bus      *)
(* daemon, for every number of peers and callers and any size of a         *)
(* generation.                                                             *)
(***************************************************************************)
EXTENDS ImageExtractor, CredentialsCache, TLAPS

(* What holds in each phase of the process: while QProcess has not         *)
(* reported its end the owner waits and nothing was emitted, and only then *)
(* can the child be alive.                                                 *)
Phases ==
    /\ state # "NotRunning" => user = "waiting" /\ finishes = 0
    /\ child = "alive" => state # "NotRunning"
    /\ user = "idle" => /\ state = "NotRunning" /\ finishes = 0
                        /\ child = "none" /\ error = "none"
                        /\ timer = "off" /\ disturbed = {}
    /\ child = "dead" <=> exit # "none"
    /\ exit = "zero" => written = Chunks

(* The error before the end of the process is reported: none without a     *)
(* cause.  A crash is an error only once the child is dead.                *)
Errors ==
    /\ state # "NotRunning" => (error = "none" <=> disturbed = {})
    /\ state # "NotRunning" => error # "crashed"
    /\ error = "crashed" => child = "dead"

(* What finished() without an error means to the owner that reads next. *)
Verdict ==
    finishes = 1 /\ user = "waiting" /\ error = "none" =>
       /\ exit = "zero"
       /\ disturbed = {} => pipe = 0

(* The inductive invariant. *)
IInv ==
    /\ TypeOK
    /\ ImageIsGenuine
    /\ WholeUnlessDisturbed
    /\ TimeoutIsReported
    /\ NoOrphan
    /\ Phases
    /\ Errors
    /\ Verdict
-----------------------------------------------------------------------------
(* The constructor establishes the invariant. *)
LEMMA InitIInv == Init => IInv
  BY ChunksAssumption, CapacityAssumption
  DEF Init, IInv, TypeOK, ImageIsGenuine, WholeUnlessDisturbed, ExitCodes,
      TimeoutIsReported, NoOrphan, Phases, Errors, Verdict

(* Every slot, every step of the child and of the owner preserves it. *)
LEMMA NextIInv == IInv /\ [Next]_vars => IInv'
<1> SUFFICES ASSUME IInv, [Next]_vars PROVE IInv'
  OBVIOUS
<1> USE ChunksAssumption, CapacityAssumption
    DEF IInv, TypeOK, ImageIsGenuine, WholeUnlessDisturbed, ExitCodes,
        TimeoutIsReported, NoOrphan, Phases, Errors, Verdict, childVars
<1>1. CASE extract
  BY <1>1 DEF extract, startFails, startForks
<1>2. CASE started
  BY <1>2 DEF started
<1>3. CASE errorSlot
  BY <1>3 DEF errorSlot
<1>4. CASE readNotifier
  <2>1. PICK e \in {error, "cannotRead"} : readFromPipe(e) /\ error' = e
    BY <1>4 DEF readNotifier
  <2>2. CASE readAll(e)
    BY <1>4, <2>1, <2>2 DEF readNotifier, readAll
  <2>3. CASE readSome(e)
    BY <1>4, <2>1, <2>3 DEF readNotifier, readSome
  <2>4. CASE readNothing(e)
    BY <1>4, <2>1, <2>4 DEF readNotifier, readNothing
  <2>5. QED
    BY <2>1, <2>2, <2>3, <2>4 DEF readFromPipe
<1>5. CASE pipeError
  BY <1>5 DEF pipeError
<1>6. CASE timeout
  BY <1>6 DEF timeout, kill
<1>7. CASE processFinished
  <2>1. CASE exitZero
    <3>1. PICK e \in {error, "cannotRead"} : readFromPipe(e)
      BY <2>1 DEF exitZero
    <3>2. CASE error = "none" /\ readAll(e)
      BY <1>7, <2>1, <3>2 DEF processFinished, exitZero, readAll
    <3>3. CASE readSome(e)
      BY <1>7, <2>1, <3>3 DEF processFinished, exitZero, readSome
    <3>4. CASE error # "none" /\ readNothing(e)
      BY <1>7, <2>1, <3>4 DEF processFinished, exitZero, readNothing
    <3>5. QED
      BY <3>1, <3>2, <3>3, <3>4 DEF readFromPipe
  <2>2. CASE exitCode
    BY <1>7, <2>2 DEF processFinished, exitCode
  <2>3. CASE exitCrash
    BY <1>7, <2>3 DEF processFinished, exitCrash
  <2>4. QED
    BY <1>7, <2>1, <2>2, <2>3 DEF processFinished
<1>8. CASE Child
  <2>1. CASE childWrites
    BY <2>1 DEF childWrites
  <2>2. CASE childExits
    BY <2>2 DEF childExits, Dies
  <2>3. CASE childCrashes
    BY <2>3 DEF childCrashes, Dies
  <2>4. CASE childExecFails
    BY <2>4 DEF childExecFails
  <2>5. QED
    BY <1>8, <2>1, <2>2, <2>3, <2>4 DEF Child
<1>9. CASE childKilled
  BY <1>9 DEF childKilled, Dies
<1>10. CASE read
  BY <1>10 DEF read
<1>11. CASE destroy
  BY <1>11 DEF destroy, kill
<1>12. CASE UNCHANGED vars
  BY <1>12 DEF vars
<1>13. QED
  BY <1>1, <1>2, <1>3, <1>4, <1>5, <1>6, <1>7, <1>8, <1>9, <1>10, <1>11,
     <1>12 DEF Next, Slot, Terminated

(* The invariant holds in every reachable state. *)
THEOREM ExtractorInvariance == Spec => []IInv
  BY InitIInv, NextIInv, PTL DEF Spec

(* Types: in particular finished() is emitted at most once, and no piece   *)
(* of the image is received twice.                                         *)
THEOREM ExtractorTypes == Spec => []TypeOK
<1>1. IInv => TypeOK
  BY DEF IInv
<1>2. QED
  BY <1>1, ExtractorInvariance, PTL

(* An image comes only from a child that exited with 0, and the message of *)
(* the watchdog survives the exit that its kill causes.                    *)
THEOREM OutcomeGenuine == Spec => []OutcomeIsGenuine
<1>1. IInv => OutcomeIsGenuine
  BY DEF IInv, OutcomeIsGenuine
<1>2. QED
  BY <1>1, ExtractorInvariance, PTL

(* An image is whole unless the watchdog or the pipe interfered. *)
THEOREM ImageWhole == Spec => []WholeUnlessDisturbed
<1>1. IInv => WholeUnlessDisturbed
  BY DEF IInv
<1>2. QED
  BY <1>1, ExtractorInvariance, PTL

(* A destroyed extractor leaves no running child. *)
THEOREM NoChildLeft == Spec => []NoOrphan
<1>1. IInv => NoOrphan
  BY DEF IInv
<1>2. QED
  BY <1>1, ExtractorInvariance, PTL
-----------------------------------------------------------------------------
(* The types that matter: entries of both generations and the callbacks.   *)
CredentialsTypes ==
    /\ cache \in [Peers -> Credentials \union {None}]
    /\ oldCache \in [Peers -> Credentials \union {None}]
    /\ received \in [Peers -> Credentials \union {None}]
    /\ pending \in [Peers -> Seq(Callers)]
    /\ notifying \in Peers \union {None} /\ next \in Nat \ {0}
    /\ answer \in [Callers -> (Peers \union {None}) \X (Credentials \union {None})]

(* What is kept of a peer, in either generation, is what the bus daemon    *)
(* said last.                                                              *)
EntriesGenuine ==
    \A p \in Peers : {cache[p], oldCache[p]} \subseteq {None, received[p]}

(* A peer with a bus call under way is in no generation; while its         *)
(* callbacks are called it is in the new one, so that a get() in there     *)
(* does not come to the vector.                                            *)
AskedOnlyIfUnknown ==
    \A p \in Peers :
       /\ pending[p] # <<>> /\ notifying # p => cache[p] = None /\ oldCache[p] = None
       /\ notifying = p => cache[p] # None /\ cache[p] = received[p]

CredentialsInv == CredentialsTypes /\ EntriesGenuine /\ AskedOnlyIfUnknown

(* The cache is empty and nobody waits. *)
LEMMA InitCredentials == CredentialsInit => CredentialsInv
  BY NoneAssumption
  DEF CredentialsInit, CredentialsInv, CredentialsTypes, EntriesGenuine, AskedOnlyIfUnknown

(* The four cases of get(), for any caller and peer. *)
LEMMA GetCredentials ==
    ASSUME CredentialsInv, NEW c \in Callers, NEW p \in Peers, get(c, p)
    PROVE  CredentialsInv'
<1> USE DEF CredentialsInv, CredentialsTypes, get, callback
<1>1. CASE getCached(c, p)
  <2>1. CredentialsTypes'
    BY <1>1 DEF getCached
  <2>2. EntriesGenuine' /\ AskedOnlyIfUnknown'
    BY <1>1 DEF getCached, EntriesGenuine, AskedOnlyIfUnknown
  <2>3. QED
    BY <2>1, <2>2
<1>2. CASE getOld(c, p)
  <2>1. CredentialsTypes'
    BY <1>2 DEF getOld
  <2>2. EntriesGenuine'
    BY <1>2 DEF getOld, EntriesGenuine
  <2>3. notifying # p /\ pending[p] = <<>>
    BY <1>2 DEF getOld, AskedOnlyIfUnknown
  <2>4. AskedOnlyIfUnknown'
    BY <1>2, <2>3 DEF getOld, AskedOnlyIfUnknown
  <2>5. QED
    BY <2>1, <2>2, <2>4
<1>3. CASE getPending(c, p)
  <2>1. pending' \in [Peers -> Seq(Callers)]
    BY <1>3 DEF getPending
  <2>2. CredentialsTypes'
    BY <1>3, <2>1 DEF getPending, cacheVars
  <2>3. EntriesGenuine'
    BY <1>3 DEF getPending, cacheVars, EntriesGenuine
  <2>4. AskedOnlyIfUnknown'
    BY <1>3 DEF getPending, cacheVars, AskedOnlyIfUnknown
  <2>5. QED
    BY <2>2, <2>3, <2>4
<1>4. QED
  BY <1>1, <1>2, <1>3

(* The answer of the bus daemon is stored before anyone is told. *)
LEMMA ReplyCredentials ==
    ASSUME CredentialsInv, NEW p \in Peers, Reply(p)
    PROVE  CredentialsInv'
<1> USE NoneAssumption DEF CredentialsInv, CredentialsTypes
<1>1. PICK v \in Credentials : received_credentials(p, v)
  BY DEF Reply
<1>2. v # None /\ notifying # p /\ notifying = None
  BY <1>1 DEF received_credentials, Credentials
<1>3. cache[p] = None /\ oldCache[p] = None
  BY <1>1, <1>2 DEF received_credentials, AskedOnlyIfUnknown
<1>4. /\ cache' \in [Peers -> Credentials \union {None}] /\ cache'[p] = v
      /\ \A q \in Peers \ {p} : cache'[q] \in {None, cache[q]}
      /\ oldCache' \in {cache, oldCache}
  BY <1>1 DEF received_credentials, store
<1>5. CredentialsTypes'
  <2>1. oldCache' \in [Peers -> Credentials \union {None}]
    BY <1>4
  <2>2. received' \in [Peers -> Credentials \union {None}]
    BY <1>1 DEF received_credentials
  <2>3. /\ pending' = pending /\ answer' = answer
        /\ notifying' = p /\ next' = 1
    BY <1>1 DEF received_credentials
  <2>4. QED
    BY <1>4, <2>1, <2>2, <2>3
<1>6. \A q \in Peers : received'[q] = IF q = p THEN v ELSE received[q]
  BY <1>1 DEF received_credentials
<1>7. EntriesGenuine'
  BY <1>3, <1>4, <1>6 DEF EntriesGenuine
<1>8. AskedOnlyIfUnknown'
  BY <1>1, <1>2, <1>3, <1>4, <1>6 DEF received_credentials, AskedOnlyIfUnknown
<1>9. QED
  BY <1>5, <1>7, <1>8

(* The loop over the callbacks. *)
LEMMA NotifyCredentials == CredentialsInv /\ (notify \/ notified) => CredentialsInv'
<1> SUFFICES ASSUME CredentialsInv, notify \/ notified PROVE CredentialsInv'
  OBVIOUS
<1> USE NoneAssumption DEF CredentialsInv, CredentialsTypes
<1>1. notifying \in Peers
  BY DEF notify, notified
<1>2. CASE notify
  <2>1. pending[notifying][next] \in Callers
    BY <1>1, <1>2 DEF notify
  <2>2. answer' \in [Callers -> (Peers \union {None}) \X (Credentials \union {None})]
    BY <1>1, <1>2, <2>1 DEF notify, callback
  <2>3. QED
    BY <1>2, <2>2 DEF notify, EntriesGenuine, AskedOnlyIfUnknown
<1>3. CASE notified
  <2>1. pending' \in [Peers -> Seq(Callers)] /\ notifying' = None
    BY <1>1, <1>3 DEF notified
  <2>2. \A q \in Peers : pending'[q] # <<>> => q # notifying /\ pending'[q] = pending[q]
    BY <1>1, <1>3 DEF notified
  <2>3. QED
    BY <1>3, <2>1, <2>2 DEF notified, EntriesGenuine, AskedOnlyIfUnknown
<1>4. QED
  BY <1>2, <1>3

(* Every step keeps the entries genuine. *)
LEMMA NextCredentials ==
    CredentialsInv /\ [CredentialsNext]_credentialsVars => CredentialsInv'
<1> SUFFICES ASSUME CredentialsInv, [CredentialsNext]_credentialsVars
             PROVE  CredentialsInv'
  OBVIOUS
<1>1. CASE UNCHANGED credentialsVars
  BY <1>1 DEF credentialsVars, CredentialsInv, CredentialsTypes, EntriesGenuine,
              AskedOnlyIfUnknown
<1>2. CASE CredentialsNext
  BY <1>2, GetCredentials, ReplyCredentials, NotifyCredentials DEF CredentialsNext
<1>3. QED
  BY <1>1, <1>2

(* What a step tells a caller is what the bus daemon said. *)
LEMMA TellsGenuine ==
    ASSUME CredentialsInv, CredentialsNext, NEW c \in Callers, answer'[c] # answer[c]
    PROVE  answer'[c][2] \in {None, received'[answer'[c][1]]}
<1> USE NoneAssumption DEF CredentialsInv, CredentialsTypes
<1>1. ASSUME NEW d \in Callers, NEW p \in Peers, get(d, p)
      PROVE  answer'[c][2] \in {None, received'[answer'[c][1]]}
  <2>1. PICK v : v \in {None, received[p]} /\ callback(d, p, v)
    BY <1>1 DEF get, getCached, getOld, getPending, EntriesGenuine
  <2>2. answer'[c] = <<p, v>> /\ received' = received
    BY <1>1, <2>1 DEF callback, get
  <2>3. QED
    BY <2>1, <2>2
<1>2. CASE notify
  <2>1. answer'[c] = <<notifying, received[notifying]>> /\ received' = received
    BY <1>2 DEF notify, callback
  <2>2. QED
    BY <2>1
<1>3. ASSUME NEW p \in Peers, Reply(p) PROVE FALSE
  BY <1>3 DEF Reply, received_credentials
<1>4. CASE notified
  BY <1>4 DEF notified
<1>5. QED
  BY <1>1, <1>2, <1>3, <1>4 DEF CredentialsNext

(* A caller is told what the bus daemon last said of the peer, whatever    *)
(* has moved between the generations.                                      *)
THEOREM AnswersGenuine == CredentialsSpec => AnswersAreGenuine
<1>1. CredentialsInv /\ [CredentialsNext]_credentialsVars =>
        [\A c \in Callers :
           answer'[c] # answer[c] =>
              answer'[c][2] \in {None, received'[answer'[c][1]]}]_credentialsVars
  BY TellsGenuine
<1>2. QED
  BY <1>1, InitCredentials, NextCredentials, PTL DEF CredentialsSpec, AnswersAreGenuine

(* A step within the loop over the callbacks of a peer leaves its vector.  *)
LEMMA LoopStep ==
    ASSUME CredentialsInv, CredentialsNext, NEW p \in Peers, notifying = p, notifying' = p
    PROVE  pending'[p] = pending[p]
<1> USE NoneAssumption DEF CredentialsInv, CredentialsTypes
<1>1. ASSUME NEW d \in Callers, NEW q \in Peers, get(d, q) PROVE pending'[p] = pending[p]
  <2>1. q = p => ~getPending(d, q)
    BY DEF getPending, AskedOnlyIfUnknown
  <2>2. QED
    BY <1>1, <2>1 DEF get, getCached, getOld, getPending
<1>2. ASSUME NEW q \in Peers, Reply(q) PROVE FALSE
  BY <1>2 DEF Reply, received_credentials
<1>3. CASE notify
  BY <1>3 DEF notify
<1>4. CASE notified
  BY <1>4 DEF notified
<1>5. QED
  BY <1>1, <1>2, <1>3, <1>4 DEF CredentialsNext

(* The vector of callbacks does not change under the loop over it. *)
THEOREM LoopIsUndisturbed == CredentialsSpec => LoopUndisturbed
<1>1. CredentialsInv /\ [CredentialsNext]_credentialsVars =>
        [\A p \in Peers :
           (notifying = p /\ notifying' = p) => pending'[p] = pending[p]]_credentialsVars
  BY LoopStep
<1>2. QED
  BY <1>1, InitCredentials, NextCredentials, PTL DEF CredentialsSpec, LoopUndisturbed
=============================================================================
