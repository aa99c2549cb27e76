----------------------- MODULE UbuntuServerDownloader -----------------------
(***************************************************************************)
(* UbuntuServerDownloader and its UbuntuServerArtReply                     *)
(* (src/ubuntuserverdownloader.cpp): one HTTP request with a timer, and    *)
(* the status that is made of its end.  Everything here runs in the main   *)
(* thread.  QNetworkReply is external: it ends by itself or is aborted,    *)
(* and reports its end by a signal that may be delivered later.            *)
(***************************************************************************)
EXTENDS Naturals

CONSTANTS
    Requests,        \* one reply object per request that downloads
    CutShort         \* whether network_is_connected() returns at once, as
                     \* it does at this commit

ASSUME CutShortAssumption == CutShort \in BOOLEAN

(* What a QNetworkReply ends with: the error codes that set_status() tells *)
(* apart, with 404 and 410, 400 and 403, and all other errors, with or     *)
(* without an HTTP code, in one class each.                                *)
NetworkErrors == {"NoError", "NotFoundOrGone", "Canceled", "BadOrForbidden", "Other"}
ServerAnswers == NetworkErrors \ {"Canceled"}

Statuses == {"not_finished", "success", "not_found", "temporary_error",
             "hard_error", "network_down", "timeout"}

VARIABLE artreply

(* net: the QNetworkReply; "absent" stands for a null reply_ and "unused"  *)
(* for a download that has not been asked for.  error is what it ended     *)
(* with.  signal: the delivery of download_finished() is outstanding.      *)
(* emitted counts the emissions of finished().                             *)
Unused == [net |-> "unused", error |-> "NoError", signal |-> "none",
           timer |-> "off", status |-> "not_finished", emitted |-> 0]

(* The reply that is made without a network has failed already. *)
Offline == [Unused EXCEPT !.net = "absent", !.status = "network_down"]

(* What network_is_connected() may answer: getaddrinfo() decides, unless   *)
(* the function returns false before.                                      *)
network_is_connected == IF CutShort THEN {FALSE} ELSE BOOLEAN

DownloaderInit == artreply = [r \in Requests |-> Unused]

(* download_url(): with a network the request is sent and the timer        *)
(* started; without, the signal of the failed reply is queued.             *)
download_url(r) ==
    /\ artreply[r].net = "unused"
    /\ \E connected \in network_is_connected :
         artreply' = [artreply EXCEPT ![r] =
            IF connected THEN [Unused EXCEPT !.net = "running", !.timer = "on"]
            ELSE [Offline EXCEPT !.signal = "due"]]

(* QNetworkReply ends by itself. *)
ServerEnds(r) ==
    /\ artreply[r].net = "running"
    /\ \E code \in ServerAnswers :
         artreply' = [artreply EXCEPT ![r].net = "ended", ![r].error = code,
                                      ![r].signal = "due"]

(* set_status() *)
set_status(error) ==
    CASE error = "NoError" -> "success"
      [] error = "NotFoundOrGone" -> "not_found"
      [] error = "Canceled" -> "timeout"
      [] error = "BadOrForbidden" -> "hard_error"
      [] OTHER -> "temporary_error"

(* Mutant: the timer is not stopped. *)
finish_TimerOn(reply) ==
    [reply EXCEPT !.signal = "none", !.emitted = @ + 1,
                  !.status = IF reply.net = "absent" THEN @
                             ELSE set_status(reply.error)]

(* The body of download_finished(). *)
finish(reply) ==
    IF reply.net = "absent"
    THEN [reply EXCEPT !.signal = "none", !.emitted = @ + 1]
    ELSE [reply EXCEPT !.signal = "none", !.emitted = @ + 1, !.timer = "off",
                       !.status = set_status(reply.error)]

(* download_finished(), when the signal of the network is delivered. *)
download_finished(r) ==
    /\ artreply[r].signal = "due"
    /\ artreply' = [artreply EXCEPT ![r] = finish(artreply[r])]

(* Mutant: the request is not aborted. *)
timeout_NoAbort(r) ==
    /\ artreply[r].timer = "on"
    /\ artreply' = [artreply EXCEPT ![r].timer = "off", ![r].status = "timeout"]

(* timeout(): abort() ends a request that runs and calls                   *)
(* download_finished() at once; it does nothing to one that has ended.     *)
timeout(r) ==
    LET fired == [artreply[r] EXCEPT !.timer = "off", !.status = "timeout"]
    IN  /\ artreply[r].timer = "on"
        /\ artreply' = [artreply EXCEPT ![r] =
              IF fired.net = "running"
              THEN finish([fired EXCEPT !.net = "ended", !.error = "Canceled"])
              ELSE fired]

(* A step that the network or the event loop takes. *)
NetworkStep(r) == ServerEnds(r) \/ download_finished(r) \/ timeout(r)

(* A step that must come some time: a signal is delivered, a timer fires.  *)
NetworkProgress(r) == download_finished(r) \/ timeout(r)

ReplyFinished(r) == artreply[r].emitted > 0
-----------------------------------------------------------------------------
ReplyTypeOK ==
    artreply \in [Requests -> [net : {"unused", "absent", "running", "ended"},
                              error : NetworkErrors, signal : {"none", "due"},
                              timer : {"off", "on"}, status : Statuses,
                              emitted : Nat]]

(* A reply has one signal to come or one behind it, never both, and its    *)
(* timer runs only before.                                                 *)
OneEnd ==
    \A r \in Requests :
       LET a == artreply[r]
       IN  /\ a.emitted <= 1
           /\ a.emitted = 1 =>
                /\ a.signal = "none" /\ a.timer = "off"
                /\ a.status # "not_finished"
           /\ a.net \in {"absent", "ended"} => a.signal = "due" \/ a.emitted = 1

(* Once finished() has been emitted, a reply keeps its status and does not *)
(* emit it again: its user reads status(), error_string() and data()       *)
(* later and from another thread, while a timer that was left running or   *)
(* the signal that abort() causes could still change them.                 *)
ReplySettled ==
    [][\A r \in Requests : ReplyFinished(r) => artreply'[r] = artreply[r]]_artreply
=============================================================================
