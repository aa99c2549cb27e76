------------------------------- MODULE VsThumb -------------------------------
(***************************************************************************)
(* The program vs-thumb (src/vs-thumb): one ThumbnailExtractor opens a     *)
(* media file, takes a cover from its tags or a frame of its video, and    *)
(* writes it to a file or a pipe.  gstreamer and gdk-pixbuf are external:  *)
(* what they find in the file is the record media.                         *)
(***************************************************************************)
EXTENDS ImageSizing, SequencesExt

CONSTANT Pieces    \* how many writes an image takes at most
ASSUME PiecesAssumption == Pieces \in Nat \ {0}

VARIABLES
    media,   \* arguments and media file of this run, see MediaFile
    vs       \* the state of the process

(* args: "ok", "usage" or "bad".  out: the scheme of the output URL.       *)
(* opens: how the change to PAUSED ends, "async" if it does not.  tagged:  *)
(* there are audio tags; images and previews are the types of the pictures *)
(* in them.  video: whether there is a video stream, with frames of size s *)
(* that have to be turned as turn says; NoSize if none can be converted.   *)
(* memory: whether there is enough for a turned copy.                      *)
MediaFile(args, out, opens, tagged, images, previews, video, s, turn, memory) ==
    [args |-> args, out |-> out, opens |-> opens, tagged |-> tagged,
     images |-> images, previews |-> previews, video |-> video,
     size |-> s, turn |-> turn, memory |-> memory]

(* sample: what sample_ refers to: "none", "frame", or a list of the tags  *)
(* and an index.  still: whose pixels still_frame_ shows; frame: its size  *)
(* and corners.  mapped: what buffermap_ maps.  fd: the output.  sent and   *)
(* written: pieces of the image that were given to write() and arrived.    *)
NoSample == <<"none", 0>>
Idle == [pc |-> "idle", sample |-> NoSample, still |-> "none",
          frame |-> Failed, mapped |-> "none", fd |-> "none",
          sent |-> 0, written |-> 0, exit |-> "none"]

To(pc) == vs' = [vs EXCEPT !.pc = pc]
Exit(code) == vs' = [vs EXCEPT !.pc = "over", !.exit = code]

(* The pixels of a frame that was not copied are those of the mapped       *)
(* buffer.  To release such a pixbuf calls unmap_callback().               *)
release(state) ==
    [state EXCEPT !.still = "none",
                  !.mapped = IF state.still = "buffer" THEN "none" ELSE @]

(* reset() *)
reset(state) == [release(state) EXCEPT !.sample = NoSample]

(* throw_error() and the other exceptions: the guard closes the output,    *)
(* ~ThumbnailExtractor() resets, main() returns 2.                         *)
throw_error ==
    vs' = [reset(vs) EXCEPT !.pc = "over", !.exit = "2",
                            !.fd = IF @ = "open" THEN "closed" ELSE @]
-----------------------------------------------------------------------------
(* main(): the arguments. *)
check_args ==
    /\ vs.pc = "main"
    /\ CASE media.args = "usage" -> Exit("1")
         [] media.args = "bad" -> Exit("2")
         [] media.args = "ok" -> To("construct")
    /\ UNCHANGED media

(* ThumbnailExtractor(): playbin or a sink may not be available. *)
construct ==
    /\ vs.pc = "construct"
    /\ To("set_urls") \/ Exit("2")
    /\ UNCHANGED media

(* change_state(): at once, or in a background thread, whose messages are  *)
(* popped off the bus until ASYNC_DONE of the element or an error; the     *)
(* wait for them has no limit.                                             *)
change_state(how) ==
    CASE how \in {"success", "async_done"} -> "returns"
      [] how \in {"failure", "async_error"} -> "throws"
      [] how = "async" -> "waits"

set_urls ==
    /\ vs.pc = "set_urls"
    /\ \/ /\ change_state(media.opens) = "returns"
          /\ vs' = [reset(vs) EXCEPT !.pc = "cover"]
       \/ change_state(media.opens) = "throws" /\ throw_error
    /\ UNCHANGED media

(* find_cover(): the first front cover, else the first picture of unknown  *)
(* type; found ends the loop.                                              *)
consider_tag(state, i, type) ==
    CASE state.found -> state
      [] ~state.found /\ type = "front" -> [found |-> TRUE, sample |-> i]
      [] ~state.found /\ type = "undefined" /\ state.sample = 0 ->
            [found |-> FALSE, sample |-> i]
      [] OTHER -> state
find_cover(types) ==
    FoldLeftDomain(LAMBDA state, i : consider_tag(state, i, types[i]),
                   [found |-> FALSE, sample |-> 0], types)

(* Mutant: any full-size picture goes before a preview. *)
best_cover_AnyImage(m) ==
    LET image == find_cover(m.images) preview == find_cover(m.previews)
    IN  IF image.sample # 0 THEN <<"image", image.sample>>
        ELSE IF preview.sample # 0 THEN <<"preview", preview.sample>> ELSE NoSample

(* extract_cover_art(): a cover, a cover among the previews, any other     *)
(* picture, any other preview.                                             *)
best_cover(m) ==
    LET image == find_cover(m.images)
        preview == find_cover(m.previews)
    IN  CASE image.found -> <<"image", image.sample>>
          [] ~image.found /\ preview.found -> <<"preview", preview.sample>>
          [] ~image.found /\ ~preview.found /\ image.sample # 0 ->
                <<"image", image.sample>>
          [] ~image.found /\ ~preview.found /\ image.sample = 0 /\ preview.sample # 0 ->
                <<"preview", preview.sample>>
          [] OTHER -> NoSample

has_video(m) == m.video

(* Without a cover, main() asserts that there is a video: a build without  *)
(* assertions goes on.                                                     *)
extract_cover_art ==
    /\ vs.pc = "cover"
    /\ LET cover == IF media.tagged THEN best_cover(media) ELSE NoSample
       IN  IF cover # NoSample
           THEN vs' = [vs EXCEPT !.sample = cover, !.pc = "write_image"]
           ELSE To("frame") \/ (~has_video(media) /\ Exit("abort"))
    /\ UNCHANGED media

(* extract_video_frame(): seek, convert; no sample or no size throws. *)
convert_sample ==
    /\ vs.pc = "frame"
    /\ IF ~has_video(media) \/ media.size = NoSize THEN throw_error
       ELSE vs' = [vs EXCEPT !.sample = <<"frame", 1>>, !.pc = "map"]
    /\ UNCHANGED media

(* buffermap_.map(), then gdk_pixbuf_new_from_data() replaces still_frame_: *)
(* a frame of before would unmap the new buffer.                           *)
map_frame(state) ==
    [release([state EXCEPT !.mapped = "sample"]) EXCEPT !.still = "buffer"]

(* What a frame shows that has to be turned. *)
Stored(turn) ==
    CASE turn = "rotate-90" -> rotateCounterClockwise(Upright)
      [] turn = "rotate-180" -> rotateUpsideDown(Upright)
      [] turn = "rotate-270" -> rotateClockwise(Upright)
      [] turn = "flip-rotate-0" -> flipHorizontal(Upright)
      [] OTHER -> Upright

still_frame ==
    /\ vs.pc = "map"
    /\ vs' = [map_frame(vs) EXCEPT !.pc = "rotate",
                !.frame = Image(media.size, FALSE, FALSE, Stored(media.turn))]
    /\ UNCHANGED media

rotated(frame, turn) ==
    CASE turn = "rotate-90" ->
            Image(transpose(frame.size), FALSE, FALSE, rotateClockwise(frame.corners))
      [] turn = "rotate-180" ->
            Image(frame.size, FALSE, FALSE, rotateUpsideDown(frame.corners))
      [] turn = "rotate-270" ->
            Image(transpose(frame.size), FALSE, FALSE, rotateCounterClockwise(frame.corners))

(* A rotated frame is a copy; the one it replaces is released.  An unknown *)
(* orientation, or a lack of memory for the copy, is only logged.          *)
rotate_frame ==
    /\ vs.pc = "rotate"
    /\ IF media.turn \in {"rotate-90", "rotate-180", "rotate-270"} /\ media.memory
       THEN vs' = [release(vs) EXCEPT !.still = "copy", !.pc = "write_image",
                                      !.frame = rotated(vs.frame, media.turn)]
       ELSE To("write_image")
    /\ UNCHANGED media
-----------------------------------------------------------------------------
(* write_image(): the output is opened, if it is a file.  A cover for a    *)
(* file is decoded first, which may fail.                                  *)
open_output ==
    /\ vs.pc = "write_image"
    /\ \/ vs' = [vs EXCEPT !.fd = "open", !.pc = "write"]
       \/ media.out = "file" /\ throw_error
    /\ UNCHANGED media

(* Mutant: a short write is no error. *)
accepted_Short(wrote, count) == wrote >= 0

(* write() must write all that it is given. *)
accepted(wrote, count) == wrote = count

(* A cover for a pipe is written by one write(), everything else by        *)
(* write_to_fd(), piece by piece.  Then extract_thumbnail() returns: the   *)
(* guard closes the output, the destructor resets, main() returns 0.       *)
write_output ==
    LET at_once == vs.still = "none" /\ media.out = "fd"
        count == IF at_once THEN Pieces ELSE 1
    IN  /\ vs.pc = "write"
        /\ \E wrote \in -1..count :
             IF ~accepted(wrote, count) THEN throw_error
             ELSE LET after == [vs EXCEPT !.written = @ + wrote, !.sent = @ + count]
                  IN  vs' = IF after.sent < Pieces THEN after
                            ELSE [reset(after) EXCEPT !.fd = "closed",
                                                      !.pc = "over", !.exit = "0"]
        /\ UNCHANGED media

(* The watchdog of ImageExtractor kills the process. *)
Killed ==
    /\ vs.pc \notin {"idle", "over"}
    /\ Exit("killed")
    /\ UNCHANGED media

VsThumbStep ==
    \/ check_args \/ construct \/ set_urls \/ extract_cover_art
    \/ convert_sample \/ still_frame \/ rotate_frame
    \/ open_output \/ write_output \/ Killed
-----------------------------------------------------------------------------
(* Exit code 0 means that every piece of the image was written.  Whatever  *)
(* way the process takes, exceptions included, the pixels that it writes   *)
(* are a copy or those of a buffer that is still mapped, and at its end    *)
(* nothing is mapped and the output is closed.                             *)
OutputIsWhole ==
    /\ vs.exit = "0" => vs.written = Pieces
    /\ vs.pc \in {"rotate", "write_image", "write"} /\ vs.still = "buffer" =>
          vs.mapped = "sample"
    /\ vs.exit \in {"0", "2"} => vs.mapped = "none" /\ vs.fd # "open"
=============================================================================
