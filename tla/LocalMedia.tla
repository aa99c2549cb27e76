----------------------------- MODULE LocalMedia ------------------------------
(***************************************************************************)
(* From a local file to its thumbnail: LocalThumbnailRequest::fetch() with *)
(* what it calls (Image, extract_local_album_art(), vs-thumb), followed by *)
(* the scaling and encoding of RequestBase::thumbnail(), for every file of *)
(* a small universe; and on to the file in which thumbnailer-admin stores  *)
(* it.  The caches in between are in Thumbnailer.  vs-thumb may also be    *)
(* started from the command line.                                          *)
(***************************************************************************)
EXTENDS VsThumb, LocalAlbumArt, AdminTool

CONSTANTS
    Pictures,   \* image files, as in ImageSizing
    Songs,      \* audio files, as in LocalAlbumArt
    Videos,     \* runs of vs-thumb, as in VsThumb
    Targets,    \* target sizes of thumbnail()
    SavedTypes  \* bound: the content types for which tools are run

(* thumbnail() asks for target sizes. *)
ASSUME PicturesAssumption == \A f \in Pictures : WellFormed(f)
ASSUME TargetsAssumption == Targets \subseteq [w : Positive, h : Positive]

ASSUME SongsAssumption ==
    \A f \in Songs : f.pictures \in Seq([type : PictureTypes, data : Nat])

ASSUME VideosAssumption ==
    \A m \in Videos :
       /\ m.args \in {"ok", "usage", "bad"} /\ m.out \in {"fd", "file"}
       /\ m.opens \in {"success", "async_done", "failure", "async_error", "async"}
       /\ m.images \in Seq(STRING) /\ m.previews \in Seq(STRING)
       /\ m.size \in [w : Int, h : Int]

VARIABLE
    job         \* content type, file, target; what fetch() and thumbnail() did

mediaVars == <<job, media, vs, toolVars>>

(* art: the picture that was taken from the tags of an audio file. *)
Job(type, f, size) ==
    [type |-> type, file |-> f, target |-> size, pc |-> "fetch",
     status |-> "none", art |-> Empty, image |-> Failed,
     data |-> jpeg_data(Failed)]

NoVideo == MediaFile("usage", "fd", "async", FALSE, <<>>, <<>>, FALSE,
                     NoSize, "none", TRUE)

MediaInit ==
    /\ vs = Idle /\ InitTools
    /\ \/ media = NoVideo /\ \E f \in Pictures, size \in Targets :
             job = Job("image", f, size)
       \/ media = NoVideo /\ \E f \in Songs, size \in Targets :
             job = Job("audio", f, size)
       \/ media \in Videos /\ \E size \in Targets :
             job = Job("video", NoVideo, size)

End(status) == job' = [job EXCEPT !.pc = "over", !.status = status]
Fetched(image, art) ==
    IF image = Failed THEN End("hard_error")
    ELSE job' = [job EXCEPT !.pc = "scale", !.image = image, !.art = art]
-----------------------------------------------------------------------------
(* fetch() of an image file: the target is the size hint. *)
fetch_image ==
    /\ job.pc = "fetch" /\ job.type = "image"
    /\ Fetched(load(job.file, job.target), Empty)
    /\ UNCHANGED <<media, vs, toolVars>>

(* The data of a picture in a tag or of a cover: without a hint, it is     *)
(* loaded at its full size, an orientation and a thumbnail included.       *)
(* Which data cannot be decoded is left open.                              *)
ArtSize == Dim(3, 2)
ArtData == [size : {ArtSize}, alpha : BOOLEAN, broken : BOOLEAN, animated : {FALSE},
            exif : {0}, corners : {Upright}, small : {NoSize}]
decoded == {load(d, NoSize) : d \in ArtData}

(* fetch() of an audio file: an exception of taglib or of make_extractor() *)
(* is a hard error, no artwork is not_found.                               *)
fetch_audio ==
    /\ job.pc = "fetch" /\ job.type = "audio"
    /\ IF job.file.container \notin KnownContainers THEN End("hard_error")
       ELSE LET art == extract_local_album_art(job.file)
            IN  IF art = Empty THEN End("not_found")
                ELSE \E image \in decoded : Fetched(image, art)
    /\ UNCHANGED <<media, vs, toolVars>>

(* fetch() of a video asks for download(), which starts vs-thumb. *)
download_video ==
    /\ job.pc = "fetch" /\ job.type = "video"
    /\ job' = [job EXCEPT !.pc = "extract"]
    /\ vs' = [vs EXCEPT !.pc = "main"]
    /\ UNCHANGED <<media, toolVars>>

(* fetch() again, with what ImageExtractor::read() returns or throws.      *)
fetch_video ==
    /\ job.pc = "extract" /\ vs.pc = "over"
    /\ IF vs.exit # "0" \/ media.out = "file" THEN End("hard_error")
       ELSE IF vs.frame # Failed
       THEN Fetched(load(ImageData(vs.frame.size, FALSE, FALSE, FALSE, 0,
                                   vs.frame.corners, NoSize), NoSize), Empty)
       ELSE \E image \in decoded : Fetched(image, Empty)
    /\ UNCHANGED <<media, vs, toolVars>>

(* The end of thumbnail(): scale to the target, encode. *)
scale_and_encode ==
    /\ job.pc = "scale"
    /\ LET image == scale(job.image, job.target)
       IN  job' = [job EXCEPT !.pc = "over", !.status = "downloaded",
                              !.image = image, !.data = jpeg_or_png_data(image)]
    /\ UNCHANGED <<media, vs, toolVars>>

(* thumbnailer-admin get, for the file of this job: one that asks for the  *)
(* same size gets what thumbnail() made of it, or an error.  The tools are *)
(* started when the answer is there, since they only wait for it.          *)
run(t) ==
    /\ job.pc = "over" /\ job.type \in SavedTypes
    /\ \/ /\ GetLocalThumbnail(t)
          /\ tool'[t].size # NoSize => target_size(tool'[t].size) = job.target
       \/ job.status = "downloaded" /\ replied(t, job.data)
       \/ refused(t)
       \/ WriteFile(t)
    /\ UNCHANGED <<job, media, vs>>

MediaNext ==
    \/ fetch_image \/ fetch_audio \/ download_video \/ fetch_video
    \/ scale_and_encode
    \/ VsThumbStep /\ UNCHANGED <<job, toolVars>>
    \/ \E t \in Tools : run(t)

MediaSpec == MediaInit /\ [][MediaNext]_mediaVars
-----------------------------------------------------------------------------
Made == job.pc = "over" /\ job.status = "downloaded"

(* Nobody gets part of an image, neither from vs-thumb nor in the file     *)
(* that thumbnailer-admin writes, whatever fails or is killed on the way;  *)
(* and the file of a tool that succeeded is the thumbnail, as a PNG.       *)
NoPartialImage ==
    /\ OutputIsWhole
    /\ SavedIsWhole
    /\ \A t \in Tools : tool[t].exit = "0" =>
          saved[make_output_path(tool[t].size)].data = to_png(job.data)

(* How large the picture is that the thumbnail is made of. *)
SourceSize ==
    CASE job.type = "image" -> SeenSize(job.file)
      [] job.type = "video" /\ vs.frame # Failed -> vs.frame.size
      [] OTHER -> ArtSize

(* A thumbnail shows the picture the right way up, whatever EXIF and the   *)
(* tags of a video say about how it was stored (for the rotations that     *)
(* vs-thumb knows, if there was memory for them); it is not empty, fits    *)
(* the target and is not larger than the picture ("original artwork is     *)
(* never scaled up", man/thumbnailer-admin.1), unless it was made of an    *)
(* embedded thumbnail that is higher than wide.  An image file without an  *)
(* embedded thumbnail keeps its alpha channel.                             *)
HighThumbnail == job.type = "image" /\ highThumbnail(job.file)
Presentable ==
    Made => /\ job.data.size.w >= 1 /\ job.data.size.h >= 1
            /\ fitsIn(job.data.size, job.target)
            /\ HighThumbnail \/ fitsIn(job.data.size, SourceSize)
            /\ media.memory /\ media.turn # "flip-rotate-0" => job.image.corners = Upright
            /\ job.type = "image" /\ job.file.small = NoSize /\ job.file.alpha =>
                  job.data.alpha

(* The first picture of a type. *)
First(list, type) ==
    LET those == {i \in DOMAIN list : list[i] = type}
    IN  IF those = {} THEN 0 ELSE CHOOSE i \in those : \A j \in those : i <= j

(* What a listener expects to see: the first front cover; if there is none *)
(* the first other picture that is not empty.  The tags of an mp4 file     *)
(* have no types; the deprecated COVERART comes last.                      *)
BestArt(f) ==
    LET types == [i \in DOMAIN f.pictures |->
                    IF f.pictures[i].type = "other" /\ f.pictures[i].data = Empty
                    THEN "ignored" ELSE f.pictures[i].type]
        front == First(types, "front")
        other == First(types, "other")
        best == IF f.container = "mp4" THEN (IF f.pictures = <<>> THEN 0 ELSE 1)
                ELSE IF front # 0 THEN front ELSE other
        art == IF best = 0 THEN Empty ELSE f.pictures[best].data
    IN  IF f.container # "flac" /\ ~f.tagged THEN Empty
        ELSE IF f.container = "ogg" /\ Taglib19 /\ art = Empty /\ f.coverart # <<>>
        THEN Head(f.coverart) ELSE art

(* Of a video: the same order, a front cover among the previews before a   *)
(* picture of unknown type, and a full-size picture before a preview.      *)
BestCover(m) ==
    LET order == <<<<"image", First(m.images, "front")>>,
                   <<"preview", First(m.previews, "front")>>,
                   <<"image", First(m.images, "undefined")>>,
                   <<"preview", First(m.previews, "undefined")>>>>
        there == {k \in DOMAIN order : order[k][2] # 0}
    IN  IF there = {} \/ ~m.tagged THEN NoSample
        ELSE order[CHOOSE k \in there : \A l \in there : k <= l]

(* The artwork of a song or video is the best picture of its tags, and a   *)
(* file with such a picture is not reported as one without, nor shown by   *)
(* a frame.                                                                *)
ArtIsBest ==
    /\ job.type = "audio" /\ job.status = "downloaded" => job.art = BestArt(job.file)
    /\ job.type = "audio" /\ job.status = "not_found" => BestArt(job.file) = Empty
    /\ vs.pc \in {"write_image", "write"} /\ vs.still = "none" =>
          vs.sample = BestCover(media)
    /\ vs.still # "none" => BestCover(media) = NoSample
=============================================================================
