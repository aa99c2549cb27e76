---------------------------- MODULE LocalAlbumArt ----------------------------
(***************************************************************************)
(* extract_local_album_art() (src/local_album_art.cpp): the picture that   *)
(* is taken from the tags of an audio file.  A picture is its type and its *)
(* data; taglib parses the tags.                                           *)
(***************************************************************************)
EXTENDS Naturals, Sequences, SequencesExt

CONSTANT Taglib19   \* whether the code for taglib 1.9 was compiled
ASSUME Taglib19Assumption == Taglib19 \in BOOLEAN

Empty == 0          \* the data of an empty picture, and the answer ""
PictureTypes == {"front", "other", "ignored", "garbled"}

(* An audio file as taglib shows it: its container, the list of pictures   *)
(* (APIC, METADATA_BLOCK_PICTURE or covr), whether it has a tag at all,    *)
(* and the entries of a COVERART field.                                    *)
AudioFile(container, tagged, pictures, coverart) ==
    [container |-> container, tagged |-> tagged, pictures |-> pictures,
     coverart |-> coverart]

(* One turn of the loops: extract_flac_art() and the switch of             *)
(* MpegExtractor.  found ends the loop.                                    *)
consider(state, pic) ==
    CASE state.found -> state
      [] ~state.found /\ pic.type = "front" -> [art |-> pic.data, found |-> TRUE]
      [] ~state.found /\ pic.type = "other" /\ state.art = Empty ->
            [state EXCEPT !.art = pic.data]
      [] OTHER -> state

loop(pictures) == FoldLeft(consider, [art |-> Empty, found |-> FALSE], pictures).art

(* to_picture(): what is no base 64 of a picture is parsed as an empty     *)
(* picture of the default type.                                            *)
to_picture(base_64) ==
    IF base_64.type = "garbled" THEN [type |-> "other", data |-> Empty] ELSE base_64

MpegExtractor(f) == IF f.tagged THEN loop(f.pictures) ELSE Empty

OggExtractor(f) ==
    LET pictures == [i \in DOMAIN f.pictures |->
                       IF Taglib19 THEN to_picture(f.pictures[i]) ELSE f.pictures[i]]
        art == IF f.tagged THEN loop(pictures) ELSE Empty
    IN  IF Taglib19 /\ f.tagged /\ art = Empty /\ f.coverart # <<>>
        THEN Head(f.coverart) ELSE art

FlacExtractor(f) == loop(f.pictures)

MP4Extractor(f) ==
    IF f.tagged /\ f.pictures # <<>> THEN Head(f.pictures).data ELSE Empty

(* make_extractor() throws for a container it does not know. *)
KnownContainers == {"mpeg", "ogg", "flac", "mp4"}

extract_local_album_art(f) ==
    CASE f.container = "mpeg" -> MpegExtractor(f)
      [] f.container = "ogg"  -> OggExtractor(f)
      [] f.container = "flac" -> FlacExtractor(f)
      [] f.container = "mp4"  -> MP4Extractor(f)
=============================================================================
