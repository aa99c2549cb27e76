------------------------------- MODULE Service -------------------------------
(***************************************************************************)
(* thumbnailer-service from the arrival of a request to its reply: the     *)
(* chains of DBusInterface, the stages of Handler, the RateLimiter of the  *)
(* download stage, the idle timer of InactivityHandler, and shutdown.      *)
(*                                                                         *)
(* The event loop thread runs everything but check() and create(), which   *)
(* run in thread pools.  A call that the event loop thread makes           *)
(* synchronously (a slot connected to finished(), a credentials callback,  *)
(* the rest of queueRequest() after begin()) is a step of its own, and no  *)
(* other event is handled until all of them are made (Busy).               *)
(*                                                                         *)
(* DBusInterface has two limiters, one for downloads and one for           *)
(* extractions; requests of the two kinds never have the same key.  The    *)
(* model is the part of the service that uses one of them.                 *)
(***************************************************************************)
EXTENDS Integers, Sequences, FiniteSets, Functions

CONSTANTS
    Handlers,        \* the requests that may arrive
    Keys,            \* values of Handler::key()
    Peers,           \* unique bus names of the callers
    KeyOf,           \* the key of each request
    PeerOf,          \* the caller of each request
    Denied,          \* requests that check_client_credentials() refuses
    Limit,           \* concurrency of the limiter
    MayThrow,        \* whether ThumbnailRequest::download() may throw
    MaxAdminCalls,   \* bound on the calls of the admin interface
    None             \* not a request

ASSUME LimitAssumption == Limit \in Nat \ {0}
ASSUME RequestAssumption ==
    /\ KeyOf \in [Handlers -> Keys]
    /\ PeerOf \in [Handlers -> Peers]
    /\ Denied \subseteq Handlers
    /\ MayThrow \in BOOLEAN
    /\ MaxAdminCalls \in Nat
    /\ None \notin Handlers

VARIABLES
    status,     \* of the process: "up", "quitting", "down" or "crashed"
    stage,      \* how far each request got
    result,     \* checkWatcher.result() or createWatcher.result()
    reply,      \* what each caller was sent
    replies,    \* how many replies each caller was sent
    chain,      \* request_keys_: per key, the requests not finished yet
    pred,       \* whose finished() signal is connected to begin()
    pushing,    \* the request whose queueRequest() has yet to push it, or None
    stale,      \* requests pushed on a vector that request_keys_ has erased
    creds,      \* CredentialsCache: what is cached for each peer
    stored,     \* keys with an image or a failure in the caches
    running, list, cleared,   \* the limiter (module RateLimiter)
    active,     \* num_active_requests_
    timer,      \* whether timer_ is running
    adminCalls

handlerVars == <<stage, result, reply, replies>>
chainVars == <<chain, pred, pushing, stale>>
limiterVars == <<running, list, cleared>>
idleVars == <<active, timer>>
vars == <<status, handlerVars, chainVars, creds, stored, limiterVars, idleVars, adminCalls>>

Downloading == {h \in Handlers : stage[h] = "download"}

L == INSTANCE RateLimiter WITH
        Jobs <- Handlers, Concurrency <- Limit, active <- Downloading

(* "begin" and "called" are synchronous calls to be made; "checked" and    *)
(* "created" wait for the watcher's finished() event; "replied" waits for  *)
(* the deletion queued by deleteLater().                                   *)
Stages == {"none", "chained", "begin", "creds", "called", "check", "checked",
           "queued", "download", "create", "created", "replied", "gone"}
Waiting == {"none", "chained"}
Over == {"replied", "gone"}
Working == Stages \ (Waiting \cup Over)

(* Handler objects that exist. *)
Existing == {h \in Handlers : stage[h] \notin {"none", "gone"}}

Init ==
    /\ status = "up"
    /\ stage = [h \in Handlers |-> "none"]
    /\ result = [h \in Handlers |-> "none"]
    /\ reply = [h \in Handlers |-> "none"]
    /\ replies = [h \in Handlers |-> 0]
    /\ chain = [k \in Keys |-> <<>>]
    /\ pred = [h \in Handlers |-> None]
    /\ pushing = None
    /\ stale = {}
    /\ creds = [p \in Peers |-> "unknown"]
    /\ stored = {}
    /\ running = 0 /\ list = <<>> /\ cleared = {}
    /\ active = 0 /\ timer = FALSE
    /\ adminCalls = 0

Busy == pushing # None \/ \E h \in Handlers : stage[h] \in {"begin", "called"}

(* The event loop is free to handle the next event. *)
Ready == status = "up" /\ ~Busy
-----------------------------------------------------------------------------
(* InactivityHandler *)

(* Mutant: the timer keeps running. *)
request_started_TimerRuns ==
    /\ active' = active + 1
    /\ UNCHANGED timer

request_started ==
    /\ active' = active + 1
    /\ timer' = IF active = 0 THEN FALSE ELSE timer

(* Mutant: the timer is not started again. *)
request_completed_NoTimer ==
    /\ active' = active - 1
    /\ UNCHANGED timer

request_completed ==
    /\ active' = active - 1
    /\ timer' = IF active = 1 THEN TRUE ELSE timer
-----------------------------------------------------------------------------
(* DBusInterface *)

(* Get...() when the request cannot be made: an error is sent at once and  *)
(* no Handler exists.                                                      *)
GetThumbnailThrows(h) ==
    /\ Ready
    /\ stage[h] = "none"
    /\ stage' = [stage EXCEPT ![h] = "gone"]
    /\ reply' = [reply EXCEPT ![h] = "error"]
    /\ replies' = [replies EXCEPT ![h] = @ + 1]
    /\ UNCHANGED <<status, result, chainVars, creds, stored, limiterVars,
                   idleVars, adminCalls>>

(* Mutant: requests for one key are not chained. *)
queueRequest_NoChain(h) ==
    /\ stage' = [stage EXCEPT ![h] = "begin"]
    /\ pushing' = h
    /\ UNCHANGED <<chain, pred>>

(* A request for a key that nobody works on begins before it is pushed on  *)
(* the vector of its key; another waits for finished() of the last one.    *)
queueRequest(h) ==
    LET c == chain[KeyOf[h]] IN
    \/ /\ c = <<>>
       /\ stage' = [stage EXCEPT ![h] = "begin"]
       /\ pushing' = h
       /\ UNCHANGED <<chain, pred>>
    \/ /\ c # <<>>
       /\ stage' = [stage EXCEPT ![h] = "chained"]
       /\ pred' = [pred EXCEPT ![h] = c[Len(c)]]
       /\ chain' = [chain EXCEPT ![KeyOf[h]] = Append(@, h)]
       /\ UNCHANGED pushing

(* GetThumbnail, GetAlbumArt, GetArtistArt, with the Handler's constructor. *)
GetThumbnail(h) ==
    /\ Ready
    /\ stage[h] = "none"
    /\ request_started
    /\ queueRequest(h)
    /\ UNCHANGED <<status, result, reply, replies, stale, creds, stored,
                   limiterVars, adminCalls>>

(* requests_for_key.push_back(handler), after begin() has returned.  If    *)
(* begin() finished the request, requestFinished() has erased the vector:  *)
(* the write to freed memory is lost or brings the process down.           *)
PushBack ==
    /\ status = "up"
    /\ pushing # None
    /\ stage[pushing] \notin {"begin", "called"}
    /\ pushing' = None
    /\ \/ /\ stage[pushing] \notin Over
          /\ chain' = [chain EXCEPT ![KeyOf[pushing]] = Append(@, pushing)]
          /\ UNCHANGED <<status, stale>>
       \/ /\ stage[pushing] \in Over
          /\ stale' = stale \cup {pushing}
          /\ status' \in {"up", "crashed"}
          /\ UNCHANGED chain
    /\ UNCHANGED <<handlerVars, pred, creds, stored, limiterVars, idleVars, adminCalls>>

(* Mutant: the last request of the chain is removed. *)
removeFromChain_Last(h) == [chain EXCEPT ![KeyOf[h]] =
                               IF @ = <<>> THEN @ ELSE SubSeq(@, 1, Len(@) - 1)]

(* std::remove() and erase(): what is not e moves up and keeps its order.  *)
Without(s, e) ==
    LET kept == {i \in 1..Len(s) : s[i] # e}
        nth(j) == CHOOSE i \in kept : Cardinality({m \in kept : m <= i}) = j
    IN  [j \in 1..Cardinality(kept) |-> s[nth(j)]]

removeFromChain(h) == [chain EXCEPT ![KeyOf[h]] = Without(@, h)]

(* Mutant: a request that fails does not wake the next one. *)
finish_ErrorWakesNobody(h, r) ==
    /\ stage' = [g \in Handlers |->
                    IF g = h THEN "replied"
                    ELSE IF stage[g] = "chained" /\ pred[g] = h /\ r # "error" THEN "begin"
                    ELSE stage[g]]
    /\ reply' = [reply EXCEPT ![h] = r]
    /\ replies' = [replies EXCEPT ![h] = @ + 1]
    /\ chain' = removeFromChain(h)

(* sendThumbnail() or sendError(): the reply, then finished(), whose slots *)
(* are requestFinished() and begin() of the next request in the chain.     *)
finish(h, r) ==
    /\ stage' = [g \in Handlers |->
                    IF g = h THEN "replied"
                    ELSE IF stage[g] = "chained" /\ pred[g] = h THEN "begin"
                    ELSE stage[g]]
    /\ reply' = [reply EXCEPT ![h] = r]
    /\ replies' = [replies EXCEPT ![h] = @ + 1]
    /\ chain' = removeFromChain(h)

(* ClientConfig() touches neither requests nor the idle timer. *)
ClientConfig ==
    /\ Ready
    /\ UNCHANGED vars
-----------------------------------------------------------------------------
(* Handler *)

(* begin(): the callback is called at once if the credentials are cached.  *)
begin(h) ==
    /\ status = "up"
    /\ stage[h] = "begin"
    /\ stage' = [stage EXCEPT ![h] = IF creds[PeerOf[h]] = "unknown"
                                     THEN "creds" ELSE "called"]
    /\ UNCHANGED <<status, result, reply, replies, chainVars, creds, stored,
                   limiterVars, idleVars, adminCalls>>

(* received_credentials(): the peer's credentials are cached, valid or     *)
(* not, which may start a new generation and drop others (external: what   *)
(* the bus daemon answers); then every callback of the peer is called.     *)
received_credentials(p) ==
    /\ Ready
    /\ \E h \in Handlers : stage[h] = "creds" /\ PeerOf[h] = p
    /\ \E c \in {"valid", "invalid"}, dropped \in SUBSET (Peers \ {p}) :
          creds' = [q \in Peers |-> IF q = p THEN c
                                    ELSE IF q \in dropped THEN "unknown" ELSE creds[q]]
    /\ stage' = [h \in Handlers |-> IF stage[h] = "creds" /\ PeerOf[h] = p
                                    THEN "called" ELSE stage[h]]
    /\ UNCHANGED <<status, result, reply, replies, chainVars, stored,
                   limiterVars, idleVars, adminCalls>>

(* check_client_credentials() throws for another user, or when AppArmor    *)
(* forbids the caller to read the file.                                    *)
check_client_credentials(h) == h \notin Denied
may_ask(h) == creds[PeerOf[h]] = "valid" /\ check_client_credentials(h)

(* Mutant: the request is checked although its caller was refused. *)
gotCredentials_NoReturn(h) ==
    /\ status = "up"
    /\ stage[h] = "called"
    /\ stage' = [stage EXCEPT ![h] = "check"]
    /\ \/ /\ may_ask(h)
          /\ UNCHANGED <<reply, replies, chain>>
       \/ /\ ~may_ask(h)
          /\ reply' = [reply EXCEPT ![h] = "error"]
          /\ replies' = [replies EXCEPT ![h] = @ + 1]
          /\ UNCHANGED chain
    /\ UNCHANGED <<status, result, pred, pushing, stale, creds, stored,
                   limiterVars, idleVars, adminCalls>>

gotCredentials(h) ==
    /\ status = "up"
    /\ stage[h] = "called"
    /\ \/ /\ may_ask(h)
          /\ stage' = [stage EXCEPT ![h] = "check"]
          /\ UNCHANGED <<reply, replies, chain>>
       \/ /\ ~may_ask(h)
          /\ finish(h, "error")
    /\ UNCHANGED <<status, result, pred, pushing, stale, creds, stored,
                   limiterVars, idleVars, adminCalls>>

(* check() in a pool thread: an image from a cache or made from the file,  *)
(* no image (a cached failure, an error), or the need to download.         *)
check(h) ==
    /\ status \in {"up", "quitting"}
    /\ stage[h] = "check"
    /\ stage' = [stage EXCEPT ![h] = "checked"]
    /\ \/ /\ result' = [result EXCEPT ![h] = "download"]
          /\ KeyOf[h] \notin stored
          /\ UNCHANGED stored
       \/ /\ \E r \in {"image", "error"} : result' = [result EXCEPT ![h] = r]
          /\ stored' \in {stored, stored \cup {KeyOf[h]}}
    /\ UNCHANGED <<status, reply, replies, chainVars, creds, limiterVars, idleVars, adminCalls>>

(* checkFinished() when the limiter calls the job at once.  If download()  *)
(* throws, the error is reported, but running_ was incremented.            *)
startDownload(h) ==
    /\ L!HasRoom
    /\ L!schedule(h)
    /\ \/ /\ stage' = [stage EXCEPT ![h] = "download"]
          /\ UNCHANGED <<reply, replies, chain>>
       \/ /\ MayThrow
          /\ finish(h, "error")

(* Mutant: downloads are not limited. *)
scheduleDownload_Unlimited(h) ==
    /\ L!schedule_now
    /\ stage' = [stage EXCEPT ![h] = "download"]
    /\ UNCHANGED <<reply, replies, chain>>

scheduleDownload(h) ==
    \/ startDownload(h)
    \/ /\ ~L!HasRoom
       /\ L!schedule(h)
       /\ stage' = [stage EXCEPT ![h] = "queued"]
       /\ UNCHANGED <<reply, replies, chain>>

checkFinished(h) ==
    /\ Ready
    /\ stage[h] = "checked"
    /\ \/ /\ result[h] \in {"image", "error"}
          /\ finish(h, result[h])
          /\ UNCHANGED limiterVars
       \/ /\ result[h] = "download"
          /\ scheduleDownload(h)
    /\ UNCHANGED <<status, result, pred, pushing, stale, creds, stored, idleVars, adminCalls>>

(* Mutant: the place of a download is not given back. *)
downloadFinished_NoDone(h) ==
    /\ Ready
    /\ stage[h] = "download"
    /\ stage' = [stage EXCEPT ![h] = "create"]
    /\ UNCHANGED <<status, result, reply, replies, chainVars, creds, stored,
                   limiterVars, idleVars, adminCalls>>

(* downloadFinished(): done() first, which may call the job of another     *)
(* request.  If that job throws, the exception leaves this slot and ends   *)
(* the event loop.                                                         *)
downloadFinished(h) ==
    /\ Ready
    /\ stage[h] = "download"
    /\ L!done
    /\ \/ /\ stage' = [g \in Handlers |-> IF g = h THEN "create"
                                          ELSE IF g \in L!NextJob THEN "download"
                                          ELSE stage[g]]
          /\ UNCHANGED status
       \/ /\ MayThrow /\ L!NextJob # {}
          /\ status' = "crashed"
          /\ UNCHANGED stage
    /\ UNCHANGED <<result, reply, replies, chainVars, creds, stored, idleVars, adminCalls>>

(* create() in a pool thread. *)
create(h) ==
    /\ status \in {"up", "quitting"}
    /\ stage[h] = "create"
    /\ stage' = [stage EXCEPT ![h] = "created"]
    /\ \E r \in {"image", "error"} : result' = [result EXCEPT ![h] = r]
    /\ stored' \in {stored, stored \cup {KeyOf[h]}}
    /\ UNCHANGED <<status, reply, replies, chainVars, creds, limiterVars, idleVars, adminCalls>>

createFinished(h) ==
    /\ Ready
    /\ stage[h] = "created"
    /\ finish(h, result[h])
    /\ UNCHANGED <<status, result, pred, pushing, stale, creds, stored,
                   limiterVars, idleVars, adminCalls>>

(* ~Handler() by deleteLater(), from the event loop or when it ends. *)
delete(h) ==
    /\ Ready \/ status = "quitting"
    /\ stage[h] = "replied"
    /\ stage' = [stage EXCEPT ![h] = "gone"]
    /\ request_completed
    /\ UNCHANGED <<status, result, reply, replies, chainVars, creds, stored,
                   limiterVars, adminCalls>>
-----------------------------------------------------------------------------
(* AdminInterface, the caches and main *)

(* Stats, ClearStats, Clear, Compact: ActivityNotifier counts the call,    *)
(* which starts the timer anew if nothing else is active.                  *)
AdminCall ==
    /\ Ready
    /\ adminCalls < MaxAdminCalls
    /\ adminCalls' = adminCalls + 1
    /\ stored' \in {stored, {}}
    /\ timer' = IF active = 0 THEN TRUE ELSE timer
    /\ UNCHANGED <<status, handlerVars, chainVars, creds, limiterVars, active>>

(* An entry expires or is evicted. *)
Forget(k) ==
    /\ k \in stored
    /\ status = "up"
    /\ stored' = stored \ {k}
    /\ UNCHANGED <<status, handlerVars, chainVars, creds, limiterVars, idleVars, adminCalls>>

quit ==
    /\ Ready
    /\ status' = "quitting"
    /\ UNCHANGED <<handlerVars, chainVars, creds, stored, limiterVars, idleVars, adminCalls>>

timer_expired == timer /\ quit

Shutdown == quit

(* ~DBusInterface() destroys the handlers that have not replied, after the *)
(* queued deletions: the job is taken out of the limiter, a pool thread is *)
(* waited for, and the extraction is killed, which calls done() and may    *)
(* start another one; a download is just dropped.                          *)
destroyAtShutdown(h) ==
    /\ status = "quitting"
    /\ \A g \in Handlers : stage[g] # "replied"
    /\ stage[h] \notin {"none", "gone", "check", "create"}
    /\ request_completed
    /\ \/ /\ stage[h] # "download"
          /\ L!cancel(h)
          /\ stage' = [stage EXCEPT ![h] = "gone"]
       \/ /\ stage[h] = "download"
          /\ stage' = [stage EXCEPT ![h] = "gone"]
          /\ UNCHANGED limiterVars
       \/ /\ stage[h] = "download"
          /\ L!done
          /\ stage' = [g \in Handlers |-> IF g = h THEN "gone"
                                          ELSE IF g \in L!NextJob THEN "download"
                                          ELSE stage[g]]
    /\ UNCHANGED <<status, result, reply, replies, chainVars, creds, stored, adminCalls>>

exit ==
    /\ status = "quitting"
    /\ Existing = {}
    /\ status' = "down"
    /\ UNCHANGED <<handlerVars, chainVars, creds, stored, limiterVars, idleVars, adminCalls>>

Terminated == status \in {"down", "crashed"} /\ UNCHANGED vars
-----------------------------------------------------------------------------
(* What callers and administrators do, and what happens to the caches. *)
Input ==
    \/ \E h \in Handlers : GetThumbnail(h) \/ GetThumbnailThrows(h)
    \/ ClientConfig \/ AdminCall \/ Shutdown
    \/ \E k \in Keys : Forget(k)

(* What the threads of the service, the bus daemon and the downloads do. *)
HandlerStep(h) ==
    \/ begin(h) \/ gotCredentials(h)
    \/ check(h) \/ checkFinished(h)
    \/ downloadFinished(h)
    \/ create(h) \/ createFinished(h)
    \/ delete(h) \/ destroyAtShutdown(h)

Work == \/ \E h \in Handlers : HandlerStep(h)
        \/ \E p \in Peers : received_credentials(p)
        \/ PushBack \/ timer_expired \/ exit

Next == Input \/ Work \/ Terminated

(* The event loop and the pools make progress, the bus daemon answers (or  *)
(* the call times out), a watchdog ends every download and extraction.     *)
Fairness ==
    /\ \A h \in Handlers : WF_vars(HandlerStep(h))
    /\ \A p \in Peers : WF_vars(received_credentials(p))
    /\ WF_vars(PushBack)
    /\ WF_vars(timer_expired)
    /\ WF_vars(exit)

Spec == Init /\ [][Next]_vars
FairSpec == Spec /\ Fairness
-----------------------------------------------------------------------------
TypeOK ==
    /\ status \in {"up", "quitting", "down", "crashed"}
    /\ stage \in [Handlers -> Stages]
    /\ result \in [Handlers -> {"none", "image", "error", "download"}]
    /\ reply \in [Handlers -> {"none", "image", "error"}]
    /\ replies \in [Handlers -> Nat]
    /\ chain \in [Keys -> Seq(Handlers)]
    /\ pred \in [Handlers -> Handlers \cup {None}]
    /\ pushing \in Handlers \cup {None}
    /\ stale \subseteq Handlers
    /\ creds \in [Peers -> {"unknown", "valid", "invalid"}]
    /\ stored \subseteq Keys
    /\ running \in Nat /\ list \in Seq(Handlers) /\ cleared \subseteq Range(list)
    /\ active \in Nat /\ timer \in BOOLEAN
    /\ adminCalls \in 0..MaxAdminCalls

(* Every request is answered at most once, and exactly once when its       *)
(* handler is finished: no path through the stages sends two replies or    *)
(* finishes without one.  Shutdown drops requests without a reply.         *)
OneReply ==
    \A h \in Handlers :
       /\ replies[h] <= 1
       /\ stage[h] = "replied" => replies[h] = 1
       /\ stage[h] \notin Over => replies[h] = 0

(* "There are no other concurrent requests for this item" (queueRequest):  *)
(* at most one request per key is past begin() and before its reply.       *)
OneAtATime ==
    \A g, h \in Handlers :
       (KeyOf[g] = KeyOf[h] /\ stage[g] \in Working /\ stage[h] \in Working) => g = h

(* A chained request waits for one that will still emit finished(): none   *)
(* is left behind in a chain.                                              *)
NoOrphan ==
    status = "up" =>
       \A h \in Handlers : stage[h] = "chained" =>
          /\ pred[h] # None
          /\ KeyOf[pred[h]] = KeyOf[h]
          /\ stage[pred[h]] \notin {"none"} \cup Over

(* The chains do what they are for, and TypeOK says of what they consist. *)
Chains == TypeOK /\ OneAtATime /\ NoOrphan

(* num_active_requests_ is the number of Handler objects (the assertions   *)
(* of InactivityHandler, the one in its destructor included), and the idle *)
(* timer runs only when there is none: it never ends the service under a   *)
(* request.                                                                *)
IdleMeansIdle ==
    /\ active = Cardinality(Existing)
    /\ timer => Existing = {}

(* No more than Limit downloads or extractions run at a time, whatever     *)
(* throws.                                                                 *)
DownloadsLimited == Cardinality(Downloading) <= Limit

(* A place of the limiter is lost to a request only when its own           *)
(* download() threw inside schedule(), which leaves it without a done():   *)
(* such a request is over, but check() still says "download" and nothing   *)
(* was created.  Every other place that is taken has a download running.   *)
LostPlaces == {h \in Handlers : stage[h] \in Over /\ result[h] = "download"}
PlacesReturned ==
    status = "up" => running = Cardinality(Downloading \cup LostPlaces)

(* The places of the limiter, from both sides: not one too many is given   *)
(* out, and not one is lost that a download() which threw does not hold.   *)
PlacesInOrder == DownloadsLimited /\ PlacesReturned

(* Requests for one key are chained to "take advantage of any cached       *)
(* downloads or failures": no download starts for a key whose outcome is   *)
(* already in a cache.                                                     *)
NoRedundantDownload ==
    [][\A h \in Handlers :
          (stage[h] # "download" /\ stage'[h] = "download") => KeyOf[h] \notin stored]_vars

(* Every request is answered, unless the service is told to shut down or   *)
(* crashes.                                                                *)
EveryRequestAnswered ==
    \A h \in Handlers : stage[h] # "none" ~> (replies[h] = 1 \/ status # "up")

(* A service that has handled a request ends when it is idle. *)
EndsAfterWork == (Existing # {}) ~> status \in {"down", "crashed"}

(* "Remove ourselves from the chain of requests" (requestFinished): a      *)
(* request that is finished is in no vector of request_keys_.              *)
FinishedLeavesChain ==
    \A h \in Handlers : replies[h] = 1 =>
       h \notin stale /\ \A k \in Keys : h \notin Range(chain[k])
=============================================================================
