----------------------------- MODULE Thumbnailer -----------------------------
(***************************************************************************)
(* Thumbnailer and its requests (src/thumbnailer.cpp): thumbnail() looks   *)
(* in the thumbnail cache, the full-size cache and the failure cache,      *)
(* fetches what it does not find and stores what it fetched.  Each of its  *)
(* steps uses one cache once; a file may change, the caches may be cleared *)
(* or lose entries, and the service may end, between any two of them.      *)
(*                                                                         *)
(* A picture is what ImageSizing says of it, and of which version of the   *)
(* file and of which image data it was made.  The caches are sets of entries.  Requests for   *)
(* the same key take turns (DBusInterface::queueRequest, module Service).  *)
(* Whether the server may be asked (BackoffAdjuster) is left open.         *)
(***************************************************************************)
EXTENDS UbuntuServerDownloader, ImageSizing, FiniteSets

CONSTANTS
    Files,        \* local files
    ContentTypes, \* what files can be
    Artworks,     \* album covers and artist pictures of the server
    Sources,      \* image data: of files, tags, frames and the server
    Requested,    \* the sizes that callers ask for
    RetryAfter,   \* retry_not_found_hours_
    MaxVersion,   \* bound: how often a file changes
    MaxTime       \* bound of the clock

ASSUME BoundsAssumption ==
    /\ RetryAfter \in Nat \ {0}
    /\ MaxVersion \in Nat /\ MaxTime \in Nat
    /\ ContentTypes \subseteq {"image", "audio", "video", "other", "gone"}

(* The key of artwork has a suffix that tells it from the key of a file.   *)
ASSUME ItemsAssumption == Files \intersect Artworks = {}

ASSUME SourcesAssumption == \A d \in Sources : WellFormed(d)

(* Callers may pass any two integers. *)
ASSUME RequestedAssumption == Requested \subseteq [w : Int, h : Int]

VARIABLES
    now,      \* the system clock
    file,     \* file[f]: version and content type of f
    thumbs,   \* thumbnail_cache_: entries of key, size and picture
    fulls,    \* full_size_cache_: entries of key and picture
    fails,    \* failure_cache_: entries of key and expiry time (0: none)
    verdict,  \* history: of each key the last authoritative failure, its time
    req       \* req[r]: the request r and where it is in thumbnail()

vars == <<now, file, thumbs, fulls, fails, verdict, req, artreply>>
caches == <<thumbs, fulls, fails, verdict>>

Items == Files \union Artworks
Key(item, version) == [item |-> item, version |-> version]

(* The origin is a history: how large the picture was, and whether load()  *)
(* was given a hint and so could take a high embedded thumbnail.           *)
Origin(d, hint) == [size |-> SeenSize(d), high |-> isValid(hint) /\ highThumbnail(d)]
Picture(image, version, origin) ==
    [image |-> image, version |-> version, origin |-> origin]
NoPicture == Picture(Failed, 0, [size |-> NoSize, high |-> FALSE])

(* What load() finds in a full-size cache: jpeg_or_png_data() of an image  *)
(* that was turned upright and is stored without EXIF.                     *)
StoredData(image) ==
    ImageData(image.size, image.alpha /\ image.has_alpha, FALSE, FALSE, 0,
              image.corners, NoSize)

(* since: history, the version of the file when the request was made. *)
Blank == [pc |-> "unborn", key |-> Key("none", 0), since |-> 0, size |-> NoSize,
          status |-> "needs_download", picture |-> NoPicture,
          extracted |-> "no", expiry |-> 0]

(* RequestBase() *)
Created(key, since, size) ==
    [Blank EXCEPT !.pc = "created", !.key = key, !.since = since, !.size = size]

Ended == {"unborn", "done", "thrown"}
Begun(r) == req[r].pc \notin Ended \union {"created"}
remote(r) == req[r].key.item \in Artworks
Move(r, pc) == req' = [req EXCEPT ![r].pc = pc]

(* The answer to the caller; of the request only what it asked for is kept. *)
Return(r, status, picture) ==
    req' = [req EXCEPT ![r] = [Blank EXCEPT !.pc = "done", !.since = req[r].since,
                               !.size = req[r].size, !.status = status,
                               !.picture = picture]]
Fail(r, status) == req' = [req EXCEPT ![r] = [Blank EXCEPT !.pc = "done", !.status = status]]
Throw(r) == req' = [req EXCEPT ![r] = [Blank EXCEPT !.pc = "thrown"]]

(* RequestBase::thumbnail() *)
target(r) == target_size(req[r].size)

Init ==
    /\ now = 1
    /\ file \in [Files -> [version : {0}, type : ContentTypes \ {"gone"}]]
    /\ thumbs = {} /\ fulls = {} /\ fails = {} /\ verdict = {}
    /\ req = [r \in Requests |-> Blank]
    /\ DownloaderInit
-----------------------------------------------------------------------------
(* Mutant: the times of the file are not part of its key. *)
local_key_NoTime(f) == Key(f, 0)

(* LocalThumbnailRequest(): path, inode and times of the file make the key *)
(* and differ between two versions.  An empty name, a relative path, or a  *)
(* file that does not exist or is no regular file, is refused.             *)
local_key(f) == Key(f, file[f].version)

get_thumbnail(r, f, size) ==
    /\ req[r].pc = "unborn"
    /\ req' = [req EXCEPT ![r] =
         IF file[f].type = "gone" THEN [Blank EXCEPT !.pc = "thrown"]
         ELSE Created(local_key(f), file[f].version, size)]
    /\ UNCHANGED <<now, file, caches, artreply>>

(* AlbumRequest() and ArtistRequest(): artist, album and kind make the key. *)
art_key(a) == Key(a, 0)

get_art(r, a, size) ==
    /\ req[r].pc = "unborn"
    /\ req' = [req EXCEPT ![r] = Created(art_key(a), 0, size)]
    /\ UNCHANGED <<now, file, caches, artreply>>

(* The first thumbnail() of a request, when no other one with its key is   *)
(* under way.  An invalid size is refused here.                            *)
Begin(r) ==
    /\ req[r].pc = "created"
    /\ \A q \in Requests : Begun(q) => req[q].key # req[r].key
    /\ IF isValid(req[r].size) THEN Move(r, "look_thumbnail") ELSE Throw(r)
    /\ UNCHANGED <<now, file, caches, artreply>>

look_thumbnail(r) ==
    LET hits == {e \in thumbs : e.key = req[r].key /\ e.size = target(r)}
    IN  /\ req[r].pc = "look_thumbnail"
        /\ IF hits = {} THEN Move(r, "look_full_size")
           ELSE \E e \in hits : Return(r, "cache_hit", e.picture)
        /\ UNCHANGED <<now, file, caches, artreply>>

(* The full-size picture is decoded at the target size; that may throw.    *)
look_full_size(r) ==
    LET hits == {e \in fulls : e.key = req[r].key}
    IN  /\ req[r].pc = "look_full_size"
        /\ IF hits = {} THEN Move(r, "look_failure")
           ELSE \E e \in hits :
                  LET image == load(StoredData(e.picture.image), target(r))
                  IN  IF image = Failed THEN Throw(r)
                      ELSE req' = [req EXCEPT
                             ![r].pc = "put_thumbnail",
                             ![r].status = "scaled_from_fullsize",
                             ![r].picture = [e.picture EXCEPT !.image = image]]
        /\ UNCHANGED <<now, file, caches, artreply>>

look_failure(r) ==
    /\ req[r].pc = "look_failure"
    /\ IF \E e \in fails : e.key = req[r].key /\ (e.expiry = 0 \/ e.expiry > now)
       THEN Fail(r, "cached_failure")
       ELSE Move(r, "fetch")
    /\ UNCHANGED <<now, file, caches, artreply>>
-----------------------------------------------------------------------------
(* What fetch() returns: a status, a picture and whether it is to be kept. *)
ImageDataOf(status, picture, policy) ==
    [status |-> status, picture |-> picture, policy |-> policy]
Without(status) == ImageDataOf(status, NoPicture, "dont_cache_fullsize")

(* Data that was loaded, or the hard error that the exception becomes. *)
Loaded(d, hint, version, policy) ==
    LET image == load(d, hint)
    IN  IF image = Failed THEN Without("hard_error")
        ELSE ImageDataOf("downloaded", Picture(image, version, Origin(d, hint)), policy)

(* LocalThumbnailRequest::fetch(): reading and parsing may fail at any     *)
(* time, which is a hard error; an audio file may have no artwork.  Only   *)
(* an image file is loaded with the target as a hint.                      *)
local_fetch(r) ==
    LET f == file[req[r].key.item]
        got == req[r].picture
    IN  CASE req[r].extracted = "image" ->
                 {ImageDataOf("downloaded", got, "cache_fullsize")}
          [] req[r].extracted = "failed" -> {Without("hard_error")}
          [] req[r].extracted = "no" /\ f.type = "image" ->
                 {Loaded(d, target(r), f.version, "dont_cache_fullsize")
                     : d \in Sources} \union {Without("hard_error")}
          [] req[r].extracted = "no" /\ f.type = "audio" ->
                 {Loaded(d, NoSize, f.version, "dont_cache_fullsize")
                     : d \in Sources} \union {Without("not_found"), Without("hard_error")}
          [] req[r].extracted = "no" /\ f.type = "video" -> {Without("needs_download")}
          [] req[r].extracted = "no" /\ f.type = "other" -> {Without("not_found")}
          [] req[r].extracted = "no" /\ f.type = "gone" -> {Without("hard_error")}

(* common_fetch(): what the status of the reply becomes.  Data that cannot *)
(* be decoded is a hard error.                                             *)
common_fetch(r) ==
    CASE artreply[r].net = "unused" -> {Without("needs_download")}
      [] artreply[r].status = "success" ->
             {Loaded(d, NoSize, 0, "cache_fullsize") : d \in Sources}
                \union {Without("hard_error")}
      [] OTHER -> {Without(artreply[r].status)}

fetch(r) == IF remote(r) THEN common_fetch(r) ELSE local_fetch(r)

(* Mutant: a temporary error is remembered like a hard one. *)
after_fetch_AllFail(status) ==
    CASE status = "downloaded" -> "put"
      [] status = "needs_download" -> "returned"
      [] OTHER -> "put_failure"

(* Where thumbnail() goes on with a status: the switch. *)
after_fetch(status) ==
    CASE status = "downloaded" -> "put"
      [] status \in {"not_found", "hard_error"} -> "put_failure"
      [] status = "needs_download" -> "returned"
      [] status \in {"network_down", "temporary_error", "timeout"} -> "done"

(* Mutant: what the server does not have is never asked for again. *)
expiry_time_Never(r, status) == 0

(* The expiry time of a failure: only that artwork is not on the server    *)
(* has one.  Failures of files need none, because the key of a file that   *)
(* is repaired is another one; a hard error is one of the request.         *)
expiry_time(r, status) ==
    IF status = "not_found" /\ remote(r) THEN now + RetryAfter ELSE 0

(* Without permission of the BackoffAdjuster the request for the server    *)
(* ends as a temporary error.                                              *)
call_fetch(r) ==
    /\ req[r].pc = "fetch"
    /\ \E data \in fetch(r), retry_ok \in BOOLEAN :
         LET refused == data.status = "needs_download" /\ remote(r) /\ ~retry_ok
             status == IF refused THEN "temporary_error" ELSE data.status
             next == after_fetch(status)
         IN  IF next = "done" THEN Fail(r, status)
             ELSE req' = [req EXCEPT
               ![r].status = status, ![r].picture = data.picture,
               ![r].expiry = expiry_time(r, status),
               ![r].pc = IF next # "put" THEN next
                         ELSE IF data.policy = "cache_fullsize"
                         THEN "put_full_size" ELSE "put_thumbnail"]
    /\ UNCHANGED <<now, file, caches, artreply>>

put_failure(r) ==
    LET entry == [key |-> req[r].key, expiry |-> req[r].expiry]
        learnt == [key |-> req[r].key, status |-> req[r].status, at |-> now]
    IN  /\ req[r].pc = "put_failure"
        /\ fails' = {e \in fails : e.key # req[r].key} \union {entry}
        /\ verdict' = IF req[r].status \in {"not_found", "hard_error"}
                      THEN {v \in verdict : v.key # req[r].key} \union {learnt}
                      ELSE verdict
        /\ Fail(r, req[r].status)
        /\ UNCHANGED <<now, file, thumbs, fulls, artreply>>

(* "Don't put ridiculously large images into the full-size cache." *)
put_full_size(r) ==
    LET image == scale(req[r].picture.image, Dim(MaxSize, MaxSize))
        kept == [req[r].picture EXCEPT !.image = image]
    IN  /\ req[r].pc = "put_full_size"
        /\ fulls' = {e \in fulls : e.key # req[r].key}
                       \union {[key |-> req[r].key, picture |-> kept]}
        /\ req' = [req EXCEPT ![r].pc = "put_thumbnail", ![r].picture = kept]
        /\ UNCHANGED <<now, file, thumbs, fails, verdict, artreply>>

(* Mutant: the picture is stored and returned as it was fetched. *)
last_scale_None(image, size) == image

last_scale(image, size) == scale(image, size)

put_thumbnail(r) ==
    LET image == last_scale(req[r].picture.image, target(r))
        made == [req[r].picture EXCEPT !.image = image]
    IN  /\ req[r].pc = "put_thumbnail"
        /\ thumbs' = {e \in thumbs : e.key # req[r].key \/ e.size # target(r)}
              \union {[key |-> req[r].key, size |-> target(r), picture |-> made]}
        /\ Return(r, req[r].status, made)
        /\ UNCHANGED <<now, file, fulls, fails, verdict, artreply>>

(* A cache operation fails: thumbnail() throws. *)
CacheSteps == {"look_thumbnail", "look_full_size", "look_failure",
               "put_failure", "put_full_size", "put_thumbnail"}
CacheThrows(r) ==
    /\ req[r].pc \in CacheSteps
    /\ Throw(r)
    /\ UNCHANGED <<now, file, caches, artreply>>
-----------------------------------------------------------------------------
(* download() of the three classes, when thumbnail() asked for it. *)
download(r) ==
    /\ req[r].pc = "returned"
    /\ Move(r, "waiting")
    /\ IF remote(r) THEN download_url(r) ELSE UNCHANGED artreply
    /\ UNCHANGED <<now, file, caches>>

(* ImageExtractor emits finished() with the picture of a frame or cover,   *)
(* or with an error; a time-out is such an error, and data that cannot be  *)
(* decoded ends like one.                                                  *)
ExtractionEnds(r) ==
    /\ req[r].pc = "waiting" /\ ~remote(r)
    /\ \/ /\ file[req[r].key.item].type # "gone"
          /\ \E d \in Sources :
               /\ load(d, NoSize) # Failed
               /\ req' = [req EXCEPT ![r].pc = "look_thumbnail", ![r].extracted = "image",
                            ![r].picture = Picture(load(d, NoSize),
                                                   file[req[r].key.item].version,
                                                   Origin(d, NoSize))]
       \/ req' = [req EXCEPT ![r].pc = "look_thumbnail", ![r].extracted = "failed"]
    /\ UNCHANGED <<now, file, caches, artreply>>

(* downloadFinished() of a remote request: thumbnail() is called again.    *)
DownloadEnds(r) ==
    /\ req[r].pc = "waiting" /\ remote(r) /\ ReplyFinished(r)
    /\ Move(r, "look_thumbnail")
    /\ UNCHANGED <<now, file, caches, artreply>>

(* The network and the timers go on as long as a request owns its reply.  *)
Network(r) ==
    req[r].pc \notin Ended /\ NetworkStep(r) /\ UNCHANGED <<now, file, caches, req>>
-----------------------------------------------------------------------------
(* select_caches(): Clear() of the admin interface, and apply_upgrade_     *)
(* actions(), empty one cache or all.                                      *)
Selectors == {"all", "full_size_cache", "thumbnail_cache", "failure_cache"}
selected(cache, selector) == selector \in {"all", cache}

clear(selector) ==
    /\ thumbs \union fulls \union fails # {}   \* else nothing changes
    /\ thumbs' = IF selected("thumbnail_cache", selector) THEN {} ELSE thumbs
    /\ fulls' = IF selected("full_size_cache", selector) THEN {} ELSE fulls
    /\ fails' = IF selected("failure_cache", selector) THEN {} ELSE fails
    /\ UNCHANGED <<now, file, verdict, req, artreply>>

(* A full cache discards entries. *)
Evict ==
    /\ \/ \E e \in thumbs : thumbs' = thumbs \ {e} /\ UNCHANGED <<fulls, fails>>
       \/ \E e \in fulls : fulls' = fulls \ {e} /\ UNCHANGED <<thumbs, fails>>
       \/ \E e \in fails : fails' = fails \ {e} /\ UNCHANGED <<thumbs, fulls>>
    /\ UNCHANGED <<now, file, verdict, req, artreply>>

(* Somebody replaces, changes or removes a file. *)
ChangeFile(f) ==
    /\ file[f].version < MaxVersion
    /\ \E type \in ContentTypes :
         file' = [file EXCEPT ![f] = [version |-> @.version + 1, type |-> type]]
    /\ UNCHANGED <<now, caches, req, artreply>>

Tick == now < MaxTime /\ now' = now + 1 /\ UNCHANGED <<file, caches, req, artreply>>

(* The service ends or crashes; the caches stay.  Callers get an error.   *)
Restart ==
    /\ \E r \in Requests : req[r].pc \notin Ended
    /\ req' = [r \in Requests |-> IF req[r].pc \in Ended THEN req[r]
                                  ELSE [Blank EXCEPT !.pc = "thrown"]]
    /\ artreply' = [r \in Requests |-> IF ReplyFinished(r) THEN artreply[r] ELSE Unused]
    /\ UNCHANGED <<now, file, caches>>

RequestStep(r) ==
    \/ Begin(r) \/ look_thumbnail(r) \/ look_full_size(r) \/ look_failure(r)
    \/ call_fetch(r) \/ put_failure(r) \/ put_full_size(r) \/ put_thumbnail(r)
    \/ download(r) \/ ExtractionEnds(r) \/ DownloadEnds(r)

Next ==
    \/ \E r \in Requests :
          \/ RequestStep(r) \/ CacheThrows(r) \/ Network(r)
          \/ \E size \in Requested :
               \/ \E f \in Files : get_thumbnail(r, f, size)
               \/ \E a \in Artworks : get_art(r, a, size)
    \/ \E selector \in Selectors : clear(selector)
    \/ Evict \/ Tick \/ Restart
    \/ \E f \in Files : ChangeFile(f)

(* Threads and event loop go on: a request that can take a step, or whose   *)
(* reply has a signal or a timer due, gets its turn.                       *)
Progress(r) ==
    \/ RequestStep(r)
    \/ req[r].pc = "waiting" /\ NetworkProgress(r) /\ UNCHANGED <<now, file, caches, req>>
Fairness == \A r \in Requests : WF_vars(Progress(r))

Spec == Init /\ [][Next]_vars
FairSpec == Spec /\ Fairness
-----------------------------------------------------------------------------
HasPicture(r) ==
    req[r].pc = "done"
       /\ req[r].status \in {"cache_hit", "scaled_from_fullsize", "downloaded"}

(* A caller is never shown a picture that is older than the file was when  *)
(* it asked: files change while requests for them wait, read, or store     *)
(* what they read, and entries made for old versions stay in the caches.   *)
NeverStale ==
    \A r \in Requests : HasPicture(r) => req[r].picture.version >= req[r].since

(* A picture fits the size that was asked for, has no empty side and is    *)
(* not larger than what it was made of, whichever of the four ways through *)
(* the caches it took and at whichever sizes it was scaled before; except  *)
(* that load() may have scaled up an embedded thumbnail that is higher     *)
(* than wide (image.cpp:235), which may be larger than the picture.        *)
FitsTarget ==
    \A r \in Requests : HasPicture(r) =>
       LET s == req[r].picture.image.size
           origin == req[r].picture.origin
       IN  /\ s.w >= 1 /\ s.h >= 1 /\ fitsIn(s, target(r))
           /\ origin.high \/ fitsIn(s, origin.size)

IsRepeated(r) == req'[r].status = "cached_failure" /\ req[r].status # "cached_failure"

(* Only an authoritative answer is repeated from the failure cache: after  *)
(* a time-out or a temporary error the next request tries again.           *)
FailuresAreKnown ==
    [][\A r \in Requests :
          IsRepeated(r) => \E v \in verdict : v.key = req[r].key]_vars

(* That artwork is not on the server is repeated for less than RetryAfter  *)
(* since it was last heard, through clears, evictions and restarts.  A     *)
(* hard error of the server is different: its entry has no expiry time     *)
(* (thumbnailer.cpp:405) and is repeated until it is evicted or cleared.   *)
AbsenceIsRechecked ==
    [][\A r \in Requests : IsRepeated(r) /\ remote(r) =>
          \A v \in verdict :
             v.key = req[r].key /\ v.status = "not_found" => now < v.at + RetryAfter]_vars

(* Every request comes to its end, so that again and again none is under   *)
(* way: no way through thumbnail(), download() and the signals leads into  *)
(* a wait for something that does not come.                                *)
EveryRequestEnds == []<>(\A r \in Requests : req[r].pc \in Ended)
=============================================================================
