--------------------------- MODULE ImageExtractor ---------------------------
(***************************************************************************)
(* ImageExtractor (src/imageextractor.cpp): one extraction by a vs-thumb   *)
(* process that sends the image through a pipe.  The child runs on its     *)
(* own; the slots of the extractor run one at a time in the event loop.    *)
(* The death of the child and the delivery of QProcess::finished are two   *)
(* events, so every other slot may run between them.                       *)
(***************************************************************************)
EXTENDS Integers

CONSTANTS Chunks,       \* pieces of the image the child writes
          Capacity,     \* pieces the pipe holds
          PipeFaults    \* whether reads of the pipe may fail

ASSUME ChunksAssumption == Chunks \in Nat \ {0}
ASSUME CapacityAssumption == Capacity \in Nat \ {0}
ASSUME PipeFaultsAssumption == PipeFaults \in BOOLEAN

VARIABLES child,      \* none, alive, killed (SIGKILL sent), dead or noexec
          exit,       \* how the child ended: its exit code or "crash"
          written,    \* pieces written by the child
          pipe,       \* pieces in the pipe
          imageData,  \* image_data_: pieces received
          state,      \* process_.state()
          timer,      \* timer_: on while it is active
          error,      \* error_, "none" when it is empty
          finishes,   \* emissions of finished()
          user,       \* the request that owns the extractor: idle,
                      \* waiting, done (read() was called) or gone
          image,      \* what read() returned, or -1
          disturbed   \* history: "timeout" if timeout() ran before the end
                      \* of the process, "fault" if the pipe failed

childVars == <<child, exit, written, pipe>>
vars == <<child, exit, written, pipe, imageData, state, timer, error,
          finishes, user, image, disturbed>>

ExitCodes == {"zero", "one", "two", "other"}

Init ==
    /\ child = "none" /\ exit = "none" /\ written = 0 /\ pipe = 0
    /\ imageData = 0 /\ state = "NotRunning" /\ timer = "off"
    /\ error = "none" /\ finishes = 0 /\ user = "idle" /\ image = -1
    /\ disturbed = {}
-----------------------------------------------------------------------------
(* The child: vs-thumb, which may hang, fail or crash anywhere. *)

childWrites ==
    /\ child = "alive" /\ written < Chunks /\ pipe < Capacity
    /\ written' = written + 1 /\ pipe' = pipe + 1
    /\ UNCHANGED <<child, exit, imageData, state, timer, error, finishes,
                   user, image, disturbed>>

Dies(how) ==
    /\ child' = "dead" /\ exit' = how
    /\ UNCHANGED <<written, pipe, imageData, state, timer, error, finishes,
                   user, image, disturbed>>

(* main() of vs-thumb returns 0 only after everything was written. *)
childExits ==
    /\ child = "alive"
    /\ \E code \in ExitCodes : (code = "zero" => written = Chunks) /\ Dies(code)

childCrashes == child = "alive" /\ Dies("crash")
childKilled  == child = "killed" /\ Dies("crash")

(* The fork succeeded and exec() did not; QProcess has yet to report it. *)
childExecFails ==
    /\ child = "alive" /\ state = "Starting" /\ written = 0
    /\ child' = "noexec"
    /\ UNCHANGED <<exit, written, pipe, imageData, state, timer, error,
                   finishes, user, image, disturbed>>

kill == child' = IF child = "alive" THEN "killed" ELSE child
-----------------------------------------------------------------------------
(* extract(), with QProcess::start() failing at once (no fork), in which   *)
(* case error() runs before the watchdog is started.                       *)

startFails ==
    /\ error' = "failedToStart" /\ finishes' = finishes + 1
    /\ UNCHANGED <<child, state>>

startForks ==
    /\ child' = "alive" /\ state' = "Starting"
    /\ UNCHANGED <<error, finishes>>

extract ==
    /\ user = "idle"
    /\ user' = "waiting"
    /\ startFails \/ startForks
    /\ timer' = "on"
    /\ UNCHANGED <<exit, written, pipe, imageData, image, disturbed>>

(* started(): the write end in this process is closed. *)
started ==
    /\ state = "Starting" /\ child # "noexec" /\ user # "gone"
    /\ state' = "Running"
    /\ UNCHANGED <<childVars, imageData, timer, error, finishes, user, image,
                   disturbed>>

(* error() for FailedToStart; its other calls have no effect. *)
errorSlot ==
    /\ state = "Starting" /\ child = "noexec" /\ user # "gone"
    /\ state' = "NotRunning"
    /\ timer' = "off"
    /\ error' = "failedToStart" /\ finishes' = finishes + 1
    /\ UNCHANGED <<childVars, imageData, user, image, disturbed>>

(* readFromPipe(): nothing once there is an error; otherwise all that is   *)
(* there, or some of it and an error.  e is error_ after the call.         *)
readAll(e) ==
    /\ imageData' = imageData + pipe /\ pipe' = 0 /\ e = "none"
    /\ UNCHANGED disturbed

readSome(e) ==
    /\ PipeFaults
    /\ \E n \in 0..pipe : imageData' = imageData + n /\ pipe' = pipe - n
    /\ e = "cannotRead" /\ disturbed' = disturbed \cup {"fault"}

readNothing(e) ==
    /\ e = error
    /\ UNCHANGED <<imageData, pipe, disturbed>>

readFromPipe(e) ==
    IF error = "none" THEN readAll(e) \/ readSome(e) ELSE readNothing(e)

(* The notifier; it stays connected after the end of the process. *)
readNotifier ==
    /\ pipe > 0 /\ user # "gone" /\ user # "idle"
    /\ \E e \in {error, "cannotRead"} : readFromPipe(e) /\ error' = e
    /\ UNCHANGED <<child, exit, written, state, timer, finishes, user, image>>

pipeError ==
    /\ PipeFaults /\ state # "NotRunning" /\ user # "gone"
    /\ error' = "brokenPipe" /\ disturbed' = disturbed \cup {"fault"}
    /\ UNCHANGED <<childVars, imageData, state, timer, finishes, user, image>>

(* Mutant: a late watchdog does not kill. *)
timeout_NoKill ==
    /\ timer = "on" /\ user # "gone"
    /\ timer' = "off"
    /\ error' = "timeout"
    /\ disturbed' = IF state # "NotRunning" THEN disturbed \cup {"timeout"}
                    ELSE disturbed
    /\ UNCHANGED <<childVars, imageData, state, finishes, user, image>>

(* timeout(): kill() is sent to a child that may be dead already. *)
timeout ==
    /\ timer = "on" /\ user # "gone"
    /\ timer' = "off"
    /\ IF state # "NotRunning" THEN kill ELSE UNCHANGED child
    /\ error' = "timeout"
    /\ disturbed' = IF state # "NotRunning" THEN disturbed \cup {"timeout"}
                    ELSE disturbed
    /\ UNCHANGED <<exit, written, pipe, imageData, state, finishes, user,
                   image>>

(* processFinished(), by exit status. *)

(* Mutant: no last read. *)
exitZero_NoRead == /\ exit = "zero" /\ error' = "none"
                   /\ UNCHANGED <<imageData, pipe, disturbed>>

exitZero ==
    /\ exit = "zero"
    /\ \E e \in {error, "cannotRead"} : readFromPipe(e)
    /\ error' = "none"

exitCode ==
    /\ exit \in ExitCodes \ {"zero"}
    /\ error' = CASE exit = "one" -> "noArtwork"
                  [] exit = "two" -> "pipelineFailed"
                  [] exit = "other" -> "unknownStatus"
    /\ UNCHANGED <<imageData, pipe, disturbed>>

(* Mutants: the message of timeout() is overwritten; a crash is no error. *)
exitCrash_Overwrites == /\ exit = "crash" /\ error' = "crashed"
                        /\ UNCHANGED <<imageData, pipe, disturbed>>

exitCrash_Silent == /\ exit = "crash"
                    /\ UNCHANGED <<error, imageData, pipe, disturbed>>

exitCrash ==
    /\ exit = "crash"
    /\ error' = IF error = "none" THEN "crashed" ELSE error
    /\ UNCHANGED <<imageData, pipe, disturbed>>

processFinished ==
    /\ state = "Running" /\ child = "dead" /\ user # "gone"
    /\ state' = "NotRunning"
    /\ timer' = "off"
    /\ exitZero \/ exitCode \/ exitCrash
    /\ finishes' = finishes + 1
    /\ UNCHANGED <<child, exit, written, user, image>>

(* read(), by LocalThumbnailRequest::fetch() after finished(): throws when *)
(* there is an error.                                                      *)
read ==
    /\ user = "waiting" /\ finishes > 0
    /\ user' = "done"
    /\ image' = IF error = "none" THEN imageData ELSE -1
    /\ UNCHANGED <<childVars, imageData, state, timer, error, finishes,
                   disturbed>>

(* Mutant: a child that has not reported yet is left alone. *)
destroy_RunningOnly ==
    /\ user # "gone" /\ user' = "gone"
    /\ IF state = "Running" THEN kill ELSE UNCHANGED child
    /\ timer' = "off" /\ state' = "NotRunning"
    /\ UNCHANGED <<exit, written, pipe, imageData, error, finishes, image,
                   disturbed>>

(* ~ImageExtractor(), at any time: kills the child and waits for it for a  *)
(* while, and ~QProcess() after it.  When the wait succeeds it runs        *)
(* processFinished(), whose finished() reaches a request that is being     *)
(* destroyed.                                                              *)
destroy ==
    /\ user # "gone" /\ user' = "gone"
    /\ IF state # "NotRunning"
       THEN kill /\ finishes' \in finishes..(finishes + 1)
       ELSE UNCHANGED <<child, finishes>>
    /\ timer' = "off" /\ state' = "NotRunning"
    /\ UNCHANGED <<exit, written, pipe, imageData, error, image, disturbed>>

(* Nothing is left to do. *)
Terminated ==
    /\ user = "gone" /\ child \in {"none", "dead", "noexec"}
    /\ UNCHANGED vars

Slot == started \/ errorSlot \/ readNotifier \/ timeout \/ processFinished
Child == childWrites \/ childExits \/ childCrashes \/ childExecFails
Next == extract \/ Slot \/ pipeError \/ Child \/ childKilled \/ read
        \/ destroy \/ Terminated

Spec == Init /\ [][Next]_vars

(* The event loop delivers every event, the kernel ends a killed process,  *)
(* and the watchdog fires; nothing is assumed of vs-thumb.                 *)
FairSpec ==
    /\ Spec
    /\ WF_vars(started) /\ WF_vars(errorSlot) /\ WF_vars(timeout)
    /\ WF_vars(processFinished) /\ WF_vars(childKilled)
-----------------------------------------------------------------------------
(* Every variable has its type; finished() is emitted at most once.       *)
TypeOK ==
    /\ child \in {"none", "alive", "killed", "dead", "noexec"}
    /\ exit \in ExitCodes \cup {"none", "crash"}
    /\ written \in 0..Chunks /\ pipe \in 0..Capacity
    /\ imageData \in 0..Chunks
    /\ state \in {"NotRunning", "Starting", "Running"}
    /\ timer \in {"off", "on"}
    /\ error \in {"none", "timeout", "brokenPipe", "cannotRead", "crashed",
                  "failedToStart", "noArtwork", "pipelineFailed",
                  "unknownStatus"}
    /\ finishes \in 0..1
    /\ user \in {"idle", "waiting", "done", "gone"}
    /\ image \in -1..Chunks
    /\ disturbed \subseteq {"timeout", "fault"}

(* The pieces of the image are neither lost nor duplicated on the way, and *)
(* the image that read() returns comes from a child that exited with 0: a  *)
(* crash, a kill or a failure code is never taken for an image             *)
(* (imageextractor.cpp:133-166).                                           *)
ImageIsGenuine ==
    /\ imageData + pipe = written
    /\ image # -1 => exit = "zero"

(* The image that read() returns is whole, unless the watchdog fired while *)
(* the process had not been reported finished, or the pipe failed: the     *)
(* read in processFinished() fetches what the notifiers did not            *)
(* (imageextractor.cpp:139-141).  A watchdog that fires between the exit   *)
(* and its report suppresses that read, and line 142 clears its error.     *)
WholeUnlessDisturbed ==
    image # -1 /\ disturbed = {} => image = Chunks

(* The message of the watchdog survives the crash exit that its kill       *)
(* causes (imageextractor.cpp:159-160).                                    *)
TimeoutIsReported ==
    finishes = 1 /\ disturbed = {"timeout"} /\ exit = "crash" =>
       error # "crashed"

(* What is reported is what happened: success only after exit code 0, and  *)
(* a time-out although the child then ended by a signal.                   *)
OutcomeIsGenuine == ImageIsGenuine /\ TimeoutIsReported

(* A destroyed extractor leaves no vs-thumb behind, whatever stage the     *)
(* start of the process had reached (imageextractor.cpp:88-91).            *)
NoOrphan == user = "gone" => child # "alive"

(* Every extraction ends with finished() although vs-thumb may hang, block *)
(* on a full pipe that is no longer read, or never start.                  *)
EveryExtractionEnds == user = "waiting" ~> finishes = 1 \/ user = "gone"
=============================================================================
