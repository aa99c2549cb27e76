--------------------------- MODULE ImageResponses ---------------------------
(***************************************************************************)
(* The QML plugin (plugins/Ubuntu/Thumbnailer.0.1): its three image        *)
(* providers share one Thumbnailer and wrap each of its requests in a      *)
(* ThumbnailerImageResponse, which QML cancels and deletes when it likes.  *)
(* Other requests of the same Thumbnailer are used directly, as in         *)
(* ClientRequests.                                                         *)
(***************************************************************************)
EXTENDS ClientRequests

CONSTANT Wrapped   \* the requests that belong to a response
ASSUME WrappedAssumption == Wrapped \subseteq Requests

VARIABLES
    response,     \* "none"; "open", with request_; "invalid", without; "deleted"
    notified,     \* how often each response emitted finished()
    errorString   \* the responses with an error_message_

responseVars == <<response, notified, errorString>>
allVars == <<vars, responseVars>>

(* initializeEngine(): the providers, no response. *)
InitResponses ==
    /\ Init
    /\ response = [r \in Wrapped |-> "none"]
    /\ notified = [r \in Wrapped |-> 0]
    /\ errorString = {}

Become(r, what) == response' = [response EXCEPT ![r] = what]
-----------------------------------------------------------------------------
(* requestImageResponse() of ThumbnailGenerator, which takes every id.     *)
requestThumbnail(r) ==
    /\ response[r] = "none"
    /\ get(r)
    /\ Become(r, "open")
    /\ UNCHANGED <<notified, errorString>>

(* The response that is made of an error: the signal is queued, "so there  *)
(* is time for the caller to connect".                                     *)
errorResponse(r) ==
    /\ blocked = None
    /\ Become(r, "invalid")
    /\ errorString' = errorString \cup {r}
    /\ UNCHANGED <<vars, notified>>

(* requestImageResponse() of AlbumArtGenerator and ArtistArtGenerator: an  *)
(* id without artist or album is an error.                                 *)
requestArt(r) == response[r] = "none" /\ (requestThumbnail(r) \/ errorResponse(r))

(* cancel() has no effect unless request_ is under way. *)
cancelResponse(r) ==
    /\ response[r] = "open"
    /\ cancel(r)
    /\ UNCHANGED responseVars

(* ~ThumbnailerImageResponse(): cancel(), then request_ is released.       *)
deleteResponse(r) ==
    /\ \/ /\ response[r] = "open"
          /\ release(r)
          /\ cancelled' = IF r \in finished THEN cancelled ELSE cancelled \cup {r}
       \/ response[r] = "invalid" /\ blocked = None /\ UNCHANGED vars
    /\ Become(r, "deleted")
    /\ UNCHANGED <<notified, errorString>>

(* The queued signal of a response that is made of an error. *)
signalError(r) ==
    /\ response[r] = "invalid" /\ notified[r] = 0
    /\ blocked = None
    /\ notified' = [notified EXCEPT ![r] = 1]
    /\ UNCHANGED <<vars, response, errorString>>

(* requestFinished(), the slot for finished() of request_. *)
requestFinished(r) ==
    /\ notified' = [notified EXCEPT ![r] = @ + 1]
    /\ errorString' = IF r \in valid' THEN errorString ELSE errorString \cup {r}
    /\ UNCHANGED response

EventWithSlot(r) ==
    /\ Event(r)
    /\ IF r \in Wrapped /\ emitted'[r] > emitted[r] THEN requestFinished(r)
       ELSE UNCHANGED responseVars

(* textureFactory() *)
textureFactory(r) == IF response[r] = "open" /\ r \in valid THEN "image" ELSE "null"
-----------------------------------------------------------------------------
Provider(r) ==
    requestThumbnail(r) \/ requestArt(r) \/ cancelResponse(r) \/ deleteResponse(r)

(* Every request and response may be deleted, and the application stop. *)
Over ==
    /\ gone \cup {r \in Wrapped : response[r] = "deleted"} = Requests
    /\ pumps = {}

NextResponse ==
    \/ \E r \in Requests : EventWithSlot(r)
    \/ \E r \in Requests \ Wrapped : Call(r) /\ UNCHANGED responseVars
    \/ \E r \in Wrapped : Provider(r) \/ signalError(r)
    \/ Over /\ UNCHANGED allVars

(* The event loop delivers its events, and every D-Bus call is answered at *)
(* last by its timeout.  Neither the application nor QML need do anything. *)
ResponseSpec ==
    /\ InitResponses /\ [][NextResponse]_allVars
    /\ \A r \in Requests : WF_allVars(EventWithSlot(r))
    /\ \A r \in Wrapped : WF_allVars(signalError(r))
-----------------------------------------------------------------------------
ResponsesOK ==
    /\ response \in [Wrapped -> {"none", "open", "invalid", "deleted"}]
    /\ notified \in [Wrapped -> Nat]
    /\ errorString \subseteq Wrapped

(* A response that said it has finished did so once, and QML, which asks   *)
(* for the picture of a response without an error, gets one.               *)
ResponsesComplete ==
    \A r \in Wrapped :
       /\ notified[r] <= 1
       /\ response[r] \in {"open", "invalid"} /\ notified[r] = 1 =>
             (r \notin errorString <=> textureFactory(r) = "image")

(* What the library and the plugin keep of their requests, the limiter and *)
(* the bus agrees, in whatever order requests and responses are cancelled, *)
(* answered, waited for and destroyed.                                     *)
Bookkeeping ==
    /\ TypeOK /\ OneDonePerCall /\ CompletionsExpected
    /\ WatcherToWaitOn /\ JobsAreAlive /\ FinishedOnce
    /\ ResponsesOK /\ ResponsesComplete

(* A request or response that is not destroyed finishes, cancelled or not: *)
(* no call, cancellation or destruction of another one loses its place.    *)
EveryRequestFinishes ==
    /\ \A r \in Requests \ Wrapped : r \in live ~> (emitted[r] = 1 \/ r \in gone)
    /\ \A r \in Wrapped :
          response[r] \in {"open", "invalid"} ~>
             (notified[r] = 1 \/ response[r] = "deleted")
=============================================================================
