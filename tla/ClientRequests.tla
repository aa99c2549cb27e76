--------------------------- MODULE ClientRequests ---------------------------
(***************************************************************************)
(* The requests of one Thumbnailer object of the client library            *)
(* (src/libthumbnailer-qt/libthumbnailer-qt.cpp) and the RateLimiter they  *)
(* share.  Everything happens in the application's thread: a step is one   *)
(* call by the application, or one event of its event loop.                *)
(*                                                                         *)
(* The application destroys requests outside their own finished() slot,    *)
(* and the Thumbnailer outlives its requests (thumbnailer-qt.h).           *)
(***************************************************************************)
EXTENDS Integers, Sequences, FiniteSets, Functions

CONSTANTS Requests,     \* the requests an application may create
          MaxBacklog,   \* ConfigValues::max_backlog
          None          \* not a request

ASSUME MaxBacklogAssumption == MaxBacklog \in Nat \ {0}
ASSUME NoneAssumption == None \notin Requests

VARIABLES
    running, list, cleared,   \* limiter_ (module RateLimiter)
    live,       \* requests that exist
    gone,       \* requests that were destroyed
    finished,   \* finished_
    valid,      \* is_valid_
    cancelled,  \* cancelled_
    cancelledWhileWaiting,    \* cancelled_while_waiting_
    watcher,    \* requests with a watcher_: the call was sent
    fakes,      \* queued invocations of dbusCallFinished made by cancel()
    signals,    \* queued finished() signals made by createRequest()
    pumps,      \* queued invocations of pump_limiter, by destroyed request
    emitted,    \* how often finished() was emitted, per request
    blocked     \* the request inside watcher_->waitForFinished(), or None

limiterVars == <<running, list, cleared>>
vars == <<running, list, cleared, live, gone, finished, valid, cancelled,
          cancelledWhileWaiting, watcher, fakes, signals, pumps, emitted, blocked>>

(* The limiter.  A job is active from the call of send_request_ until the  *)
(* done() that the library owes for it.                                    *)
L == INSTANCE RateLimiter WITH
        Jobs <- Requests, Concurrency <- MaxBacklog, active <- watcher \cup pumps

Init ==
    /\ running = 0 /\ list = <<>> /\ cleared = {}
    /\ live = {} /\ gone = {}
    /\ finished = {} /\ valid = {}
    /\ cancelled = {} /\ cancelledWhileWaiting = {}
    /\ watcher = {}
    /\ fakes = {} /\ signals = {} /\ pumps = {}
    /\ emitted = [r \in Requests |-> 0]
    /\ blocked = None
-----------------------------------------------------------------------------
(* Calls by the application.  None is possible while it is blocked. *)

Unborn(r) == r \notin live \cup gone

(* createRequest() with a valid size: the constructor hands send_request_  *)
(* to the limiter, which may call it at once.                              *)
createRequest(r) ==
    /\ blocked = None
    /\ Unborn(r)
    /\ live' = live \cup {r}
    /\ L!schedule(r)
    /\ watcher' = IF L!HasRoom THEN watcher \cup {r} ELSE watcher
    /\ UNCHANGED <<gone, finished, valid, cancelled, cancelledWhileWaiting,
                   fakes, signals, pumps, emitted, blocked>>

(* createRequest() with an invalid size: finished from the start, and the  *)
(* signal is queued because nobody can be connected to it yet.             *)
createInvalidRequest(r) ==
    /\ blocked = None
    /\ Unborn(r)
    /\ live' = live \cup {r}
    /\ finished' = finished \cup {r}
    /\ signals' = signals \cup {r}
    /\ UNCHANGED <<running, list, cleared, gone, valid, cancelled,
                   cancelledWhileWaiting, watcher, fakes, pumps, emitted, blocked>>

(* getAlbumArt(), getArtistArt() and getThumbnail() differ in the D-Bus    *)
(* call that they make of their arguments.                                 *)
get(r) == createRequest(r) \/ createInvalidRequest(r)

cancel(r) ==
    /\ blocked = None
    /\ r \in live \ (finished \cup cancelled)
    /\ cancelled' = cancelled \cup {r}
    /\ L!cancel(r)
    /\ \/ /\ L!IsQueued(r)
          /\ cancelledWhileWaiting' = cancelledWhileWaiting \cup {r}
          /\ fakes' = fakes \cup {r}
       \/ /\ ~L!IsQueued(r)
          /\ UNCHANGED <<cancelledWhileWaiting, fakes>>
    /\ UNCHANGED <<live, gone, finished, valid, watcher, signals, pumps,
                   emitted, blocked>>

(* waitForFinished() returns at once for a finished or cancelled request.  *)
(* A queued request is taken out of the queue and sent past the limit.     *)
(* Then the thread waits until the reply of this request is delivered.     *)
waitForFinished(r) ==
    /\ blocked = None
    /\ r \in live \ (finished \cup cancelled)
    /\ \/ /\ L!IsQueued(r)
          /\ cleared' = cleared \cup {r}
          /\ running' = running + 1
          /\ watcher' = watcher \cup {r}
          /\ UNCHANGED list
       \/ /\ ~L!IsQueued(r)
          /\ UNCHANGED <<running, list, cleared, watcher>>
    /\ blocked' = r
    /\ UNCHANGED <<live, gone, finished, valid, cancelled,
                   cancelledWhileWaiting, fakes, signals, pumps, emitted>>

(* Mutant: the destructor relies on the reply to pump the limiter. *)
release_NoPump(r) ==
    /\ blocked = None
    /\ r \in live
    /\ live' = live \ {r}
    /\ gone' = gone \cup {r}
    /\ L!cancel(r)
    /\ watcher' = watcher \ {r}
    /\ fakes' = fakes \ {r}
    /\ signals' = signals \ {r}
    /\ UNCHANGED <<finished, valid, cancelledWhileWaiting, pumps, emitted, blocked>>

(* ~RequestImpl(): the queued job is cleared; for a call that was sent and *)
(* not answered, the done() is queued.  Events queued for the object die   *)
(* with it.                                                                *)
release(r) ==
    /\ blocked = None
    /\ r \in live
    /\ live' = live \ {r}
    /\ gone' = gone \cup {r}
    /\ L!cancel(r)
    /\ pumps' = IF r \in watcher /\ ~L!IsQueued(r) THEN pumps \cup {r} ELSE pumps
    /\ watcher' = watcher \ {r}
    /\ fakes' = fakes \ {r}
    /\ signals' = signals \ {r}
    /\ UNCHANGED <<finished, valid, cancelledWhileWaiting, emitted, blocked>>

destroy(r) == release(r) /\ UNCHANGED cancelled
-----------------------------------------------------------------------------
(* Events. *)

(* A request completes, with its image if ok: finished_, is_valid_, the    *)
(* signal, and no watcher any more (finishWithError resets it before the   *)
(* signal, dbusCallFinished after it).                                     *)
complete(r, ok) ==
    /\ finished' = finished \cup {r}
    /\ valid' = IF ok THEN valid \cup {r} ELSE valid
    /\ emitted' = [emitted EXCEPT ![r] = @ + 1]
    /\ blocked' = IF blocked = r THEN None ELSE blocked

(* Mutant: a cancelled request does not pump the limiter. *)
dbusCallFinished_CancelKeepsPlace(r, ok) ==
    /\ \/ /\ r \notin cancelled
          /\ L!done
          /\ watcher' = (watcher \ {r}) \cup L!NextJob
       \/ /\ r \in cancelled
          /\ watcher' = watcher \ {r}
          /\ UNCHANGED limiterVars
    /\ complete(r, ok /\ r \notin cancelled)

(* Mutant: a cancelled request completes without the signal. *)
dbusCallFinished_SilentCancel(r, ok) ==
    /\ \/ /\ r \notin cancelled \cap cancelledWhileWaiting
          /\ L!done
          /\ watcher' = (watcher \ {r}) \cup L!NextJob
       \/ /\ r \in cancelled \cap cancelledWhileWaiting
          /\ watcher' = watcher \ {r}
          /\ UNCHANGED limiterVars
    /\ IF r \in cancelled
       THEN UNCHANGED <<finished, valid, emitted, blocked>>
       ELSE complete(r, ok)

dbusCallFinished(r, ok) ==
    /\ \/ /\ r \notin cancelled \cap cancelledWhileWaiting
          /\ L!done
          /\ watcher' = (watcher \ {r}) \cup L!NextJob
       \/ /\ r \in cancelled \cap cancelledWhileWaiting
          /\ watcher' = watcher \ {r}
          /\ UNCHANGED limiterVars
    /\ complete(r, ok /\ r \notin cancelled)

(* The reply of the service (or an error, a D-Bus timeout included).  A    *)
(* blocked thread gets the reply it waits for and no other event.          *)
Reply(r) ==
    /\ r \in watcher
    /\ blocked \in {None, r}
    /\ \E ok \in BOOLEAN : dbusCallFinished(r, ok)
    /\ UNCHANGED <<live, gone, cancelled, cancelledWhileWaiting, fakes, signals, pumps>>

FakeReply(r) ==
    /\ r \in fakes
    /\ blocked = None
    /\ fakes' = fakes \ {r}
    /\ dbusCallFinished(r, FALSE)
    /\ UNCHANGED <<live, gone, cancelled, cancelledWhileWaiting, signals, pumps>>

SignalInvalid(r) ==
    /\ r \in signals
    /\ blocked = None
    /\ signals' = signals \ {r}
    /\ emitted' = [emitted EXCEPT ![r] = @ + 1]
    /\ UNCHANGED <<running, list, cleared, live, gone, finished, valid, cancelled,
                   cancelledWhileWaiting, watcher, fakes, pumps, blocked>>

pump_limiter(r) ==
    /\ r \in pumps
    /\ blocked = None
    /\ pumps' = pumps \ {r}
    /\ L!done
    /\ watcher' = watcher \cup L!NextJob
    /\ UNCHANGED <<live, gone, finished, valid, cancelled,
                   cancelledWhileWaiting, fakes, signals, emitted, blocked>>
-----------------------------------------------------------------------------
(* The public classes Thumbnailer and Request pass calls on. *)
Call(r) == get(r) \/ cancel(r) \/ waitForFinished(r) \/ destroy(r)

Event(r) == Reply(r) \/ FakeReply(r) \/ SignalInvalid(r) \/ pump_limiter(r)

Next == \E r \in Requests : Call(r) \/ Event(r)

Spec == Init /\ [][Next]_vars
-----------------------------------------------------------------------------
TypeOK ==
    /\ running \in Nat
    /\ list \in Seq(Requests)
    /\ cleared \subseteq Range(list)
    /\ live \subseteq Requests /\ gone \subseteq Requests \ live
    /\ finished \subseteq live \cup gone /\ valid \subseteq finished
    /\ cancelled \subseteq live \cup gone /\ cancelledWhileWaiting \subseteq cancelled
    /\ watcher \subseteq live /\ fakes \subseteq live /\ signals \subseteq live
    /\ pumps \subseteq gone
    /\ emitted \in [Requests -> Nat]
    /\ blocked \in live \cup {None}

(* "We depend on calls to pump the limiter exactly once for each request   *)
(* that was sent" (dbusCallFinished): the limiter counts the calls that    *)
(* were sent and not answered, and the done() calls still queued by        *)
(* destructors, whatever the order of replies, cancellation, waiting and   *)
(* destruction.                                                            *)
OneDonePerCall == running = Cardinality(watcher) + Cardinality(pumps)

(* The assertions of dbusCallFinished and waitForFinished: a completion is *)
(* delivered to a request that is not finished, a faked one only where no  *)
(* call was sent.                                                          *)
CompletionsExpected ==
    /\ finished \cap (watcher \cup fakes) = {}
    /\ fakes \cap watcher = {}
    /\ fakes \subseteq cancelled \cap cancelledWhileWaiting

(* "This guarantees that we always have a watcher to wait on"              *)
(* (waitForFinished): an unfinished request that nobody cancelled is in    *)
(* the limiter's queue, alive, or has a watcher.                           *)
WatcherToWaitOn ==
    \A r \in live \ (finished \cup cancelled) : r \in watcher \/ r \in L!Live

(* The limiter never calls send_request_ of a request that was destroyed   *)
(* (its closure refers to the object), nor sends a request a second time.  *)
JobsAreAlive == L!Live \cap (gone \cup finished \cup cancelled \cup watcher) = {}

(* finished() is emitted exactly once for a request that finishes, and     *)
(* never before it has finished.                                           *)
FinishedOnce ==
    \A r \in Requests :
       /\ emitted[r] <= 1
       /\ emitted[r] = 1 => r \in finished
       /\ r \in live \cap (finished \ signals) => emitted[r] = 1

(* The library uses its limiter as RateLimiter demands. *)
UsesLimiter == L!Spec
=============================================================================
