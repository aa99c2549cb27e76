# Verification of the thumbnailer

The repository is the Ubuntu thumbnailer: a D-Bus service
(`src/src/service`) that returns thumbnails for local image, audio and video
files and for album and artist art, a client library for Qt applications
(`src/src/libthumbnailer-qt`) with a QML plugin, a helper process that extracts
still frames from videos (`src/src/vs-thumb`) and an administration tool.

## 1. Inventory

| component | state it keeps | operations | what is hard |
|---|---|---|---|
| RateLimiter (`src/ratelimiter.cpp`) | `running_`, `list_` of pending jobs | `schedule`, `schedule_now`, cancel function, `done` | callers must pair each started job with one `done`; LIFO order; a job that throws; a job forced past the limit |
| Handler (`service/handler.cpp`) | stage of one request, `cancelled`, watchers, `cancel_func` | `begin`, `gotCredentials`, `checkFinished`, `downloadFinished`, `createFinished`, destructor | five asynchronous stages, two thread pools, event loop re-entrancy, shutdown in any stage |
| DBusInterface (`service/dbusinterface.cpp`) | `requests_`, `request_keys_` chains | `GetThumbnail`, `GetAlbumArt`, `GetArtistArt`, `queueRequest`, `requestFinished`, `ClientConfig` | requests for one key run one after another; synchronous completion inside `queueRequest` |
| CredentialsCache (`service/credentialscache.cpp`) | `cache_`, `old_cache_`, `pending_` | `get`, `received_credentials` | callbacks queued behind one bus call, re-entrant callbacks, two generations |
| InactivityHandler (`service/inactivityhandler.cpp`) | `num_active_requests_`, `timer_` | `request_started`, `request_completed`, `timer_expired` | idle exit racing a new request; a service nobody asks anything |
| AdminInterface (`service/admininterface.cpp`) | none of its own | `Stats`, `ClearStats`, `Clear`, `Compact`, `Shutdown` | clears caches while requests run |
| main (`service/main.cpp`), AdvisoryFileLock (`file_lock.cpp`) | lock file, bus name | start, lock with timeout, run, shutdown | a new instance starting while the old one shuts down |
| Thumbnailer and its requests (`thumbnailer.cpp`) | three persistent caches, `backoff_`, per request `status_` and the download | `thumbnail`, `fetch`, `download`, `clear`, start-up, destructor, upgrade | what is cached after which failure; state kept across restarts; threads sharing `backoff_` |
| BackoffAdjuster (`backoff_adjuster.cpp`) | `last_fail_time_`, `backoff_period_`, limits | `retry_ok`, `adjust_retry_limit`, `reset`, setters | results that arrive out of order, unsynchronised use from several threads |
| CacheHelper (`include/internal/cachehelper.h`) | pointer `c_` to the cache | `get`, `put`, ..., `recover`, `init_cache` | recovery from a corrupt database while other threads use the cache; failed recovery |
| ImageExtractor (`imageextractor.cpp`) | child process, pipe, watchdog timer, `error_`, `image_data_` | `extract`, `read`, `processFinished`, `timeout`, `error`, `readFromPipe`, `pipeError` | watchdog racing a normal exit, unread data in the pipe |
| UbuntuServerDownloader (`ubuntuserverdownloader.cpp`) | reply, timer, status | `download_album`, `download_artist`, `download_finished`, `timeout` | timeout racing the reply, classification of errors |
| Version (`version.cpp`) | two version files | read at start, write in the destructor | a crash between wiping the caches and recording the version |
| libthumbnailer-qt (`libthumbnailer-qt.cpp`) | per request `finished_`, `cancelled_`, watcher; one RateLimiter | create, `cancel`, `waitForFinished`, `dbusCallFinished`, destroy, `pump_limiter` | exactly one `done` per sent call whatever the order of cancel, reply and destruction |
| QML plugin (`plugins/`) | one request per response | `requestImageResponse`, `cancel`, `requestFinished` | cancellation in the destructor |
| vs-thumb (`vs-thumb/`) | `sample_`, `still_frame_`, `buffermap_`, the output | arguments, change of state, cover, frame, rotation, output | who owns the mapped frame on every path, partial output |
| Image (`image.cpp`) | pixbuf, `has_alpha_` | load with a size hint, orientation, `scale`, encoding | arithmetic at the boundaries, two ways to the same size |
| local_album_art (`local_album_art.cpp`), Settings | none beyond a call | choice of a picture, settings | order of preference; values that contradict each other |
| thumbnailer-admin | the output file and temporary files | `get`, `get-artist`, `get-album`, one admin call per other command | several tools writing one file, killed or failing half way |

How they interact. A client calls the service over D-Bus; the client library
queues its calls in a RateLimiter of its own. `DBusInterface` makes a `Handler`
per call, chains handlers of one key, and the handler goes through the bus
daemon (credentials), a pool thread (`Thumbnailer` request: look in the caches),
possibly a RateLimiter and a download (`ImageExtractor` or
`UbuntuServerDownloader`, both driven by the event loop), a second pool thread
(scale and store), and a reply. All slots run in one event loop; only
`thumbnail()` runs in pool threads, and those share the caches and the backoff.

What makes each component correct, in a sentence: the limiter neither loses nor
invents places and strands no job; the client pumps it once per call and every
request finishes; the service answers each request once, one at a time per key,
and does not exit under a request; the credentials are those of the peer and
everybody is told; an extraction ends, and ends with an image only if there is a
whole one; the backoff spares the server and ends; a thumbnail is never older than
the file was, fits and is upright; only authoritative failures are repeated; one
process at a time has the caches, and none serves entries of another cache version;
a corrupt cache is replaced and no other one is.

## 2. Plan

Done: 1 RateLimiter (with its contract), 2 ClientRequests, 3 Service,
4 CredentialsCache, 5 ImageExtractor, 6 BackoffAdjuster, 7 Thumbnailer,
8 CacheHelper, 9 UbuntuServerDownloader, 10 ServiceLifecycle and Version in it,
11 ImageSizing, 12 LocalAlbumArt and VsThumb, 13 ImageResponses (the QML plugin).
The theorems about a module M are in MProofs; there is one for RateLimiter,
BackoffAdjuster, ServiceLifecycle, CacheHelper, Thumbnailer (with the downloader,
ImageSizing and LocalMedia), Service and ImageResponses (with ClientRequests). Those
about ImageExtractor and CredentialsCache are in CallbackProofs.

| composition | of |
|---|---|
| ClientRequests | INSTANCE RateLimiter on its own variables (`UsesLimiter`) |
| ImageResponses | EXTENDS ClientRequests: QML responses and direct requests on one limiter |
| Service | INSTANCE RateLimiter; Handler, DBusInterface, InactivityHandler, admin calls |
| Thumbnailer | EXTENDS UbuntuServerDownloader and ImageSizing |
| LocalMedia | EXTENDS VsThumb, LocalAlbumArt and AdminTool (and so ImageSizing) |

Every safety property and refinement that a passing run checks is also a theorem; the
liveness properties are model-checked only.

## 3. Modules and the code

**LimiterContract, RateLimiter.** `running`, `list` and `cleared` are `running_`,
`list_` and the entries whose function the cancel function has reset. `schedule`,
`schedule_now`, `cancel` and `done` are the methods; `Schedule`, `RunNow`, `Cancel`
and `Done` are their uses. `done` pops from the back and skips cleared entries, as
the loop in the code does. LimiterContract is what `ratelimiter.h` promises without
an order: a set of waiting and a set of active jobs.

**ClientRequests.** Instances RateLimiter on the library's own limiter. `live` and
`gone` are the request objects; `watcher` the requests with a call under way,
`fakes` the completions that `cancel()` posts, `signals` the queued
`finished()` of invalid requests, `pumps` the queued `pump_limiter()` calls of
destructors, `blocked` the request in `waitForFinished()`. A request is not
destroyed inside its own `finished()` slot, which the header forbids.

**ImageResponses.** The requests in `Wrapped` are made, cancelled and deleted only
through the responses of the QML plugin; the others by an application that shares
the Thumbnailer. A response made of an error has no request and queues its signal.
All of this runs in one thread here; QML makes responses in its reader thread,
while `pump_limiter()` runs in the thread of the Thumbnailer, and the limiter has
no lock. That race is not modelled.

**Service, MCService.** Handler, DBusInterface, InactivityHandler, the calls of
AdminInterface and the limiter in one module, since they call each other
synchronously. `stage` is the position of a handler; `result` what its pool thread
left; `chain` and `pred` are `request_keys_` and the `finished` connections;
`pushing` is the handler that `queueRequest()` is still about to append when
`begin()` has already finished it, `stale` the ones appended to an erased vector.
The model has one limiter; the code has one for extractions and one for downloads,
with identical use. Credentials are abstracted to what `get()` answers and may be
forgotten; the details are in CredentialsCache. `quit()` takes effect at once.

**CredentialsCache.** Callers instead of closures; `notifying` and `next` are the
position of the loop over the callbacks, so that a callback may call `get()` again.
The parsing of the security label is left out.

**ImageExtractor.** The child and the slots interleave; `state` is what QProcess
says, `child` what the process is. The image is a number of pieces. A failed
`QProcess::start()` is both synchronous (no fork) and asynchronous (no exec).
`image` is what `read()` gave its caller.

**BackoffAdjuster.** The clock is kept as the age of the last failure. The methods
are split between what they read and each of their writes, since threads share the
object without a lock. `start` and `stop` are the parts of the constructor and the
destructor of Thumbnailer that restore and store it, with the upgrade that discards
it; `clear` is `Thumbnailer::clear()`; `crash` a process that ends without
destructors. The settings are drawn anew at each start, the ones included that the
assertions of the setters refuse: the process is then `aborted`, and may be started
again. `to_int()` is the width of int: chrono counts in 64 bits, but twice the
time-out and the number of seconds that `Settings` returns are ints and wrap around
(`INT_MAX` is a constant). Jumps of the system clock are not modelled.

**UbuntuServerDownloader.** One `UbuntuServerArtReply` per request: the
QNetworkReply (`net`, `error`), the delivery of its signal, the timer and the
status. `timeout()` calls `abort()`, which calls `download_finished()` inside.
At this commit `network_is_connected()` begins with `return false`, so that every
reply is offline; the constant `CutShort` says so. The run leaves it FALSE, which
has the offline replies among its behaviours and the rest of the class as well.

**Thumbnailer.** A request is a record; `pc` is its place in `thumbnail()`,
`download()` and the two calls of `thumbnail()` that the Handler makes. Each look
into a cache and each `put` is one step, since other pool threads, `clear()`,
eviction, expiry, a change of the file or the end of the service may come between
any two. `Sources` are the pictures that files and the server hold: size, alpha, EXIF
orientation and embedded thumbnail. An image file is loaded with the target as a hint,
so that its embedded thumbnail may be taken; artwork and what the extractor made are
loaded as they are; what comes from the full-size cache is `StoredData()`, upright and
without EXIF. A picture is the Image that `load()` or `scale()` makes, with two
histories: the version of its file and its origin (the size of the source as a viewer
sees it, and whether a high embedded thumbnail could be used). `since` and `verdict`
(the last authoritative failure of each key, with its time) are histories of requests.
`expiry_time()` is how long a failure is remembered. Requests with one key take turns,
as `queueRequest()` provides. `retry_ok()` is left open.

**ImageSizing.** The class Image as operators: the size that the loader's callbacks
choose, the embedded EXIF thumbnail, the orientation (on the four corners), the
alpha flag, `scale()` and the encoding; and the limit on target sizes, `MaxSize`,
that `target_size()` applies for Thumbnailer and LocalMedia. `WellFormed()` says what
a picture may be: a size from 1, corners as its EXIF value says (`StoredCorners`), and
an embedded thumbnail that is not larger than it. The corners are what makes a wrong
rotation or mirroring visible to `Presentable`.

**LocalAlbumArt.** The choice of a picture for each container as a fold over the
pictures of the tags.

**VsThumb, LocalMedia.** VsThumb is the process from `main()` to its exit code, with
`sample_`, `still_frame_` (a copy, or the pixels of the mapped buffer), `buffermap_`
and the output. LocalMedia is one local file on its way through `fetch()` of
LocalThumbnailRequest, with Image, LocalAlbumArt or VsThumb, and the end of
`thumbnail()`. MCLocalMedia lists the files. `MediaInit` ranges over all of them;
most steps of the service are deterministic, so that part checks algorithms more
than orders. What a file may be is said by the assumptions on `Pictures`
(`WellFormed()`), `Songs`, `Videos` and `Targets`: sizes from 1, and any sequence of
pictures in the tags.

**AdminTool.** `thumbnailer-admin get`: the arguments (`parse_size()` takes 2x2x5 for
2x2), the call, `to_png()` and `write_file()` with a step for each of `mkstemp()`,
`write()` and `rename()`, which may fail, and a kill between any two. An output path
is told apart by the size asked for: all tools have the input of LocalMedia's job.
LocalMedia supplies the reply, to the tools whose size limits to the job's target,
for the content types in `SavedTypes`.
MCLocalMedia declares the tools symmetric; the run checks only invariants, and none
names a tool.

**ServiceLifecycle.** Processes, each of some build, in `main()`: `pc` is the step.
Caches, version files and the lock outlive the processes. Every file operation is a
step, and a crash may come before each; `~Version()` truncates and writes in two
steps. `forgotten` records that the version file was left wrong by a wipe that
threw or a file that could not be opened. The kernel closes the caches of a crashed
process at once; the bus daemon notices later. The lock file is opened without
O_CLOEXEC (`file_lock.cpp:45`), so a vs-thumb that a crashed service leaves behind may
hold the lock (`Child`) until it ends, which it need not do. Construction may also fail
in DBusInterface or because the bus does not grant a name that is free (`register`).
THUMBNAILER_MAX_IDLE is read before the caches are opened and stops the start when it
is too short.

**CacheHelper.** Threads are in `call()` at the steps of trying, recovering and
trying again; `c` is `c_`, `alive` the cache objects that exist, `holder` the one
that has the files open. Using a null or destroyed object, or destroying one twice,
is a crash. `shared` and `broken` are histories.

## 4. Runs

| run | bounds | shows |
|---|---|---|
| limiter | 5 jobs, 2 places | counter, queue and hand-over of places; implements the contract |
| client | 4 requests, 2 of them in QML responses, backlog 1 | one `done` per call, expected completions, uses the limiter correctly, every request and response finishes |
| service | 4 handlers, 2 keys, 2 peers, 1 place, exceptions, one admin call | one reply, one request per key, no orphan in a chain, no idle exit under a request, no redundant download, no place lost but to a `download()` that threw |
| service_live | 3 handlers, no exceptions | every request answered, the service ends after work |
| service_chain (violation) | 3 handlers | `queueRequest()` appends a finished handler to an erased vector |
| credentials | 3 callers, 3 peers, 1 entry per generation | genuine answers, undisturbed loop, everybody answered |
| extractor | 3 pieces, pipe of 2 | an image only from a success, whole unless disturbed, ends, no orphan |
| backoff | 2 requests, time-outs 0 (unset), 1, 2 and 8, hours of 4 units: maxima of 4, 8 and 16, `INT_MAX` 15 | bounded period, assertions, server spared, retried again |
| thumbnailer | 2 requests of 3 sizes, a file that changes once, one artwork, 2 ticks; pictures of 1x5, and of 2x3 lying on its side with a 2x3 thumbnail; `MaxSize` 4, `RetryAfter` 1 | never stale, fits, failures known, absence checked again, replies settled, every request ends |
| lifecycle | 3 processes, 2 builds with different cache versions, 2 tries | name, lock, caches and versions through every crash; every start settles |
| cache | 3 threads, 4 cache objects | usable between calls, wiped only when corrupt, what a crash needs |
| media | 9 sizes, thumbnails embedded lengthwise and upright, 10 EXIF values, songs with up to 3 pictures, videos with up to 2 pictures of each kind or a frame, 4 targets; 2 tools, 6 size arguments, for images and videos | upright and fitting, best artwork, never a part of an image |

Why the bounds suffice. Every mechanism involves at most the running job, one
cleared entry and two live ones (limiter: 5 jobs with 2 places give a queue of
three); a chain of three requests of one key with a fourth of another key (service)
has a first, a middle and a last element; three peers with one entry per
generation let an entry be moved, discarded and asked for again; three pieces
through a pipe of two make the child block. A backoff maximum of 8 seconds is
reached by two doublings from 2 and one from 4; with `INT_MAX` 15, twice the time-out 8
and the seconds of four hours wrap around to -16. Two requests share caches or a file
and meet at every step. A picture of 1x5 with a limit of 4 is scaled for the full-size
cache and again for a target two high, for which its width becomes zero in the loader
and one in `scale()`; the other picture has the embedded thumbnail that becomes larger
than its source. Both cases were seen to occur: without the exception, or with
`scale()` left out, `FitsTarget` fails. Two ticks with `RetryAfter` 1 let a failure
expire and be asked for again. Three processes are a server that ends, one that waits
and one that crashed. Three threads and four objects let two
recover while a third uses the cache, twice.

Fairness. Weak fairness of the slots stands for the event loop, which delivers
every posted event and expired timer; of pool steps for the thread pools; of
replies for the bus daemon and the time-out that D-Bus gives every call; of the end
of a download for the watchdog of ImageExtractor and the timer of the downloader;
of the death of a killed process for the kernel; of `tick` for the clock. Nothing
is assumed of clients and QML (they may never cancel, destroy or ask), of the
server, which may never answer (only the timer of the reply is fair), nor of
vs-thumb, which may hang. In the backoff, threads complete calls they are in and a
service that is down or aborted is started again, since any client's call activates
it. In ServiceLifecycle code that runs goes on; nobody need start or end a service.

Deadlock is checked in all runs but thumbnailer, lifecycle, cache and media, where
every request, process or file may have come to its end, and a crash is final.

Every module keeps one type invariant (`TypeOK`, `ReplyTypeOK`). Those of Service,
ClientRequests and ImageResponses are part of the invariants `Chains` and
`Bookkeeping`; those of RateLimiter, ImageExtractor and ServiceLifecycle are proved
for every instance.

## 5. Disagreements found

`service_chain` has a run of its own; the quotation is in PROJECT.json. The others
are exceptions that the properties of passing runs name, or were seen while
modelling.

- An embedded EXIF thumbnail is refused only if it is smaller than the request in both
  dimensions, and then scaled with a `QSize::scale()` that also enlarges
  (`image.cpp:235`). One that is higher than wide, as wide as the request and a little
  lower becomes as high as the request, since the rounded width still fits: 120x160 for
  120x161. It can so be larger than the original, which `man/thumbnailer-admin.1:91`
  excludes. This came up as a case that could not be proved; `Presentable` states, and
  the proof shows, that only thumbnails higher than wide are concerned (`HighThumbnail`).
  Without that exception TLC finds, in the files of `media`, a 2x3 picture whose 2x3
  thumbnail becomes 2x4. `FitsTarget` has the same exception, for the requests that
  reach `load()` with a size.
- `max-thumbnail-size` is said not to apply to local thumbnails of size 0x0, "which are
  returned in their original size" (`data/com.canonical.Unity.Thumbnailer.gschema.xml:32`).
  The code limits them, too (`thumbnailer.cpp:312-321`): `FitsTarget` says that every
  picture is within `target()`, which 0 makes the maximum.
- A hard error of the server is stored without an expiry time (`thumbnailer.cpp:405`),
  as one of a local file is: the server is not asked again until the entry is evicted
  or cleared. `AbsenceIsRechecked` is therefore about `not_found` only.
- `done()` of the limiter starts the newest waiting job (`ratelimiter.cpp:91`), while
  `ratelimiter.h:58-59` says the one at the head of the queue. LimiterContract leaves
  the order open.
- The idle timer is started only by `request_completed()`
  (`inactivityhandler.cpp:109`): a service that was only asked for `ClientConfig`
  stays, although `man/thumbnailer-service.1:61` says that it exits once it has been
  idle. `EndsAfterWork` therefore speaks of a service that handled a request.
- A watchdog that fires after vs-thumb has exited with 0 and before this is reported
  makes the last read of the pipe a no-op, and a truncated image a success
  (`imageextractor.cpp:139-142`). It is one of the disturbances of
  `WholeUnlessDisturbed`.
- The backoff is shared by pool threads without a lock. A thread in `reset()` sees the
  new period with the old time and clears it (`backoff_adjuster.cpp:110`), the "false
  reset" that lines 127-131 want to prevent. `ServerSpared` therefore excludes
  overlapping calls.
- `Settings::retry_error_max_seconds()` raises the maximum backoff to twice the
  extraction time-out (`settings.cpp:102`), `set_max_backoff()` asserts twice the
  minimum (`backoff_adjuster.cpp:85`), which is four time-outs; and a period stored
  before `retry-error-hours` was lowered fails the assertion of
  `set_backoff_period()`, at every start. Both are exceptions of `AssertionsHold`, the
  third is a minimum that overflowed: the time-out times two, and times 1000 for the
  watchdog (`thumbnailer.cpp:765-766`), are products of ints, and the seconds of
  `retry-error-hours` are cut to an int (`settings.cpp:98-109`).
- The lock file is inherited by vs-thumb (`file_lock.cpp:45`). After a crash a vs-thumb
  that hangs keeps the lock, and every start gives up after ten seconds, although
  `main.cpp:81-84` has the lock for as long as "the service is alive".
  `EveryStartSettles` holds with this.
- When a cache is corrupt at the start, `recover()` wipes and opens it, and the second
  try of `init_cache()` fails because it is open already: the constructor throws
  (`cachehelper.h:150`). The start after that one succeeds.
- Two threads that meet a corrupt cache both recover: the second wipes the new cache
  of the first, or uses or destroys an object that is gone. A recovery that fails
  leaves `c_` null for all later calls. Both are named in the properties of `cache`.
- When wiping a cache throws, `~Version()` still records the new version; when the
  first version file cannot be opened, the second is not written
  (`version.cpp:84-121`). Later starts then keep entries of another version, or wipe
  good ones. `NoForeignEntries` excludes what follows (`forgotten`).
- `Image::scale()` makes an Image whose `has_alpha_` is false (`image.cpp:490`), so a
  picture that was scaled there is stored as a JPEG; loading with a size hint keeps
  the flag. The transparency of such a picture is lost, also in the PNG that
  thumbnailer-admin makes of it.
- A very thin image fails to load with a size hint (a side of zero,
  `image.cpp:270`), while `scale()` raises the side to one.
- A time-out of a local extraction is a hard error and is remembered until the file
  changes.
- vs-thumb exits with 1 for wrong usage, which ImageExtractor reports as "no artwork".
- Only a failed `rename()` removes the temporary file of `write_file()`; one that was
  written in part, or whose tool was killed, stays (`file_io.cpp:98-116`).
- `network_is_connected()` returns false before it looks (`ubuntuserverdownloader.cpp:59`).
- After `waitForFinished()` on a queued request, `done()` keeps `running_` above
  `max_backlog` while the queue is not empty.
- A `download()` that throws (no pipe) loses its place in the limiter:
  `schedule()` has counted it and nobody calls `done()`. `PlacesReturned` says that no
  other request loses one.
- `CredentialsCache::get()` moves entries back without a look at the size, so
  peers that keep asking make `cache_` grow beyond `MAX_CACHE_SIZE`.

## 6. What is proved

By TLAPS, for every value of the constants (so for any number of jobs, places,
threads and processes, any image size, pipe and settings that satisfy the named
assumptions):

**RateLimiterProofs.** Types, `Balanced`, `NoIdlePlace`, the limit without forced
jobs, and that RateLimiter implements LimiterContract. The inductive invariant is
the conjunction of `TypeOK`, finiteness of the set of active jobs, `Balanced`,
`NoIdlePlace` and `OneEntryPerJob`. None of the last three is inductive alone:
that a place is handed over (`Balanced`) needs that the job `done()` calls was not
active (`OneEntryPerJob`), and that nothing live is left when no entry is found
(`NoIdlePlace`) needs that the search from the back finds a live entry whenever
there is one, which is the lemma on the largest live index (by the least-element
principle). The refinement maps `waiting` to the entries that are not cleared; the
invariant makes each `done()` a hand-over or a release of the contract.

**CallbackProofs.** Of ImageExtractor: `TypeOK`, `OutcomeIsGenuine`,
`WholeUnlessDisturbed`, `NoOrphan`. The strengthening has three parts: `Phases`
(until QProcess reports the end, the owner waits and nothing was emitted; only
then can the child be alive), `Errors` (until then an error has a cause in the
history) and `Verdict` (an error-free `finished()` means exit code 0 and an empty
pipe). `Verdict` carries the last read of `processFinished()` to the later
`read()`; `Errors` is what makes that last read effective.

Of CredentialsCache: `AnswersAreGenuine` and `LoopUndisturbed`. An answer is taken
from the reply or from either generation of the cache, so both must hold what the bus
daemon said last (`EntriesGenuine`). That is kept only because a second reply for a
peer cannot meet an entry of the first: a peer that is asked about is in neither
generation, and one whose callbacks are being called is in the new one
(`AskedOnlyIfUnknown`). The same part shows that a `get()` from within a callback finds
its entry and leaves the vector alone that the loop runs over.

**BackoffAdjusterProofs.** `PeriodBounded`, from `Limits` (the assertion of
`set_max_backoff()` keeps the minimum within the maximum) and `CallsWhileUp`
(threads are in a call only while the service runs, so no call spans a restart
with other limits); `AssertionsHold`, for which what is stored must be within
the maximum of the process that stored it; and `ServerSpared`. The last one needs
`PeriodKept`: while the period that a failure began lasts, no call has got past its
first read, and the adjuster has this period and time, or the failure cache has them
while no service is up. The time may be one unit too old, but only when it is a whole
second (`TimeKept`), so that storing it again loses nothing more. The induction starts
afresh at a crash, which forgets the failure, and ends when calls overlap. The clock
of the model is capped at a maximum over the settings; that it exists rests on their
being of type int, and on the well-foundedness of the natural numbers. Only of
`to_int()` is it used that its values are ints, and that no assertion holds of a
minimum that is not positive: the theorems are about every width of an int.

**ServiceLifecycleProofs.** `TypeOK`, `NameMeansReady`, `CachesUncontended` and
`NoForeignEntries`. The inductive invariant says where a process may have what:
between `lock()` and the end of `main()` it holds the lock (`LockHeld`); a cache is
open only in a process in there (`OwnersInside`), and all are open from the end of
the constructor of Thumbnailer to its destructor (`AllOpen`); the bus name belongs to
a process that runs, or has crashed (`NameOwner`). Neither of the first properties is
inductive alone: that a cache is free for the process in "open" follows from the lock,
not from the caches. `NoForeignEntries` relates the files of processes that are gone
to a later one, so it needs `FilesHonest`: unless a wipe threw or a version file could
not be opened, entries are of the version that the file names, or the file names
none; and a process that has got past its wipe finds only its own.

**CacheHelperProofs.** `UsableBetweenCalls`, `WipedOnlyWhenCorrupt` and
`CrashNeedsSharing`. As long as no two threads shared a recovery (`Solo`), a thread
that recovers has company only of calls that have not read `c_` (`RecoversAlone`);
therefore what it found corrupt still is when it removes it (`FilesFollow`), a call
works on the current object (`InCurrent`) and `c_` is null only for the thread that
recovers (`PointerFollows`), or for all after a failed recovery (`NullPointer`).
`Roles` keeps the constructor apart from the calls.

**ThumbnailerProofs.** `NeverStale`, `FitsTarget`, `ReplySettled`, `FailuresAreKnown`
and `AbsenceIsRechecked`. What a request returns may have been stored by another one
long before, so the invariant is about the caches (`CachesFit`): an entry is not older
than its key says, not empty, within the source it was made from unless that has a high
embedded thumbnail (`Sound`), and within its size. What is stored is upright, so that
loading it again neither turns it nor finds a thumbnail in it. A failure in the cache
is that of a verdict, and one without expiry is not the server's `not_found`
(`FailsKnown`): the entry of a request and the last verdict of its key agree at the
`put`, because nobody else works on the key in between. A request under
way has a key as new as its file was when the caller asked (`KeyKnown`), and what it
holds on its way from the extractor or the downloader to the caches fits its key
(`PictureFits`). `ReplyLife` says which states of the network reply, its timer and
its signal go together; the two ways to `download_finished()` cannot both be open.
That `scale()` and the loader of ImageSizing stay within the target and the source
are lemmas on their arithmetic.

Of LocalMedia, with vs-thumb, the album art and thumbnailer-admin: `NoPartialImage`,
`Presentable` and `ArtIsBest`, for every file that the assumptions admit, so for tags
with any number of pictures and for any sizes. The inductive invariant `MediaInv`
follows an image on its way. In vs-thumb, what is mapped, sent and written goes with
the step (`VsProgress`: exit code 0 means that all was written and nothing is mapped),
the frame is as the tags of the video say until it is turned and upright afterwards
(`FrameTurned`), and a frame is taken only when no cover is there (`CoverTaken`). The
request has the file it began with and, before `scale()`, an image that is upright, not
empty and within its source (`JobKnown`); the art is the best one (`ArtTaken`). The
tools start after the answer, and every file they hold or leave is a copy of it, whole
once renamed (`FilesWhole`): the failures and kills between the steps of
`write_file()` then leave no part behind at an output path. `NoPartialImage` is not
inductive, as it says nothing of the temporary files and of the calls under way.

That the two loops over tags take the best picture is a statement about folds. Instead
of an induction over their steps, a closed form of the state after i pictures (the best
of the first i) is shown to satisfy the recursion that defines the fold, and two
functions that satisfy it are equal on every prefix, since a least index at which they
differ would contradict it (`LoopIsArtOf`, `FindIsCoverOf`).

**ServiceProofs.** `OneReply`, `Chains`, `IdleMeansIdle`, `PlacesInOrder` and
`NoRedundantDownload`. The core is `ChainsKept`: while the service is up, a vector of
`request_keys_` holds requests for its key, each once, the first at work and every
other waiting for the one before it (`InOrder`); whoever is not in one is about to be
pushed onto an empty one (`Everyone`, `Pushing`). One request per key at a time
follows from it and is in turn what keeps the answer of `check()` true until the
download starts (`StillMissing`). `PlacesTaken` is an inequality, since a job that
throws keeps its place; `Queue` says to whom a free place can be handed: a request
that waits for it, or an entry that a destructor has cleared. `PlacesReturned` makes
it an equation for a service that is up. It needs that a request has no result before
its check (`Unasked`), so that one that is over with the result "download" can only
have failed to start it.

**ImageResponsesProofs.** `Bookkeeping`, and `UsesLimiter`: the library with the
plugin over it implements RateLimiter. `OneDonePerCall`, the equation of the counter
with the calls under way and the pumps that are due, needs that a request is sent
once; this is `Sent`: one that was sent has left the queue, except the one that
`waitForFinished()` took out of its turn, and one that was cancelled there is never
sent. `Entries` and `SignalsDue` keep the entries and the queued signals of one
request from being two. `Wraps` ties each response to its request. For the
refinement a job is active from its call until the `done()` that is owed for it, so
that each step of the library is one of the limiter or none: a destructor moves a
request from the calls under way to the pumps that are due, which is none.

The assumptions are the named ASSUMEs of the modules: positive bounds, settings of
type int with one usable value each, version numbers from 1, keys of files that are
not keys of artwork, sources and pictures that are well formed, files as in LocalMedia
above, and that "none" is no request, "nobody" and "child" no process. Each inductive invariant was checked by TLC
before it was proved.

Only model-checked: all liveness properties, which are out of the prover's reach, as is
`ENABLED`; and `FinishedLeavesChain`, which fails.

## 7. Mutants

Each property of a passing run has a mutant in the module it is about: a form of
one operation with a plausible error (a dropped guard, a missing reset, one entry
instead of a loop), defined just before the operation and named after it, for which
the property fails under the same bounds.

## 8. Not modelled

- Pixels, decoding and encoding, tag parsing, gstreamer, the D-Bus wire protocol, HTTP
  and the persistent cache library are third-party behaviour; their outcomes are
  inputs of the models.
- thumbnailer-admin: `get-artist` and `get-album`, which differ from `get` in their
  arguments and file names, and the commands that are one synchronous call. Inputs
  with the same stem share an output path and replace each other's file; the model
  has one input.
- ResourcePtr, Exception and the helpers for glib objects have no behaviour of their
  own in the program. Where a destructor matters (`still_frame_` of vs-thumb, the
  locals of `main()`, Version) it is a step at its use.
- make_directories, mimetype, safe_strerror, trace, check_access
  and the rest of file_io are stateless; their failures are outcomes of the steps that call them.
- Log messages, time stamps and statistics, and the reply of `Stats()`.
- A child that ignores its kill for longer than the destructor of ImageExtractor waits:
  it would keep the lock after a regular end as well.
- Jumps of the system clock, sizes of caches in bytes, and the threads of QML (see
  ImageResponses above).
