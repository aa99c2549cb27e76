---------------------------- MODULE MCLocalMedia -----------------------------
(* Image files of every orientation (EXIF also has values that mean        *)
(* nothing, here 9), thin and square ones, larger and smaller than the     *)
(* targets; songs with up to three pictures in every container; videos     *)
(* with up to two pictures of each kind, or a frame to be turned.          *)
EXTENDS LocalMedia

MCSizes == {Dim(w, h) : w \in {1, 2, 5}, h \in {1, 3, 4}}
MCPictures ==
    LET data(s, small) ==
          {ImageData(s, alpha, flags[1], flags[2], exif, StoredCorners(exif), small) :
             alpha \in BOOLEAN, exif \in 0..9,
             flags \in {<<FALSE, FALSE>>, <<TRUE, FALSE>>, <<TRUE, TRUE>>}}
    IN  UNION {data(s, NoSize) : s \in MCSizes}
        \union UNION {data(s, Dim(2, 1)) : s \in {t \in MCSizes : fitsIn(Dim(2, 1), t)}}
        \union UNION {data(s, Dim(2, 3)) : s \in {t \in MCSizes : fitsIn(Dim(2, 3), t)}}

Pics == [type : PictureTypes, data : {Empty}] \union [type : {"front", "other"}, data : 1..2]
MCSongs ==
    {AudioFile(container, tagged, pictures, coverart) :
       container \in KnownContainers \union {"wav"}, tagged \in BOOLEAN,
       pictures \in {<<>>} \union {<<p>> : p \in Pics} \union (Pics \X Pics)
                       \union (Pics \X Pics \X Pics),
       coverart \in {<<>>, <<3>>}}

Types == {"front", "undefined", "back"}
Lists == {<<>>} \union {<<t>> : t \in Types} \union (Types \X Types)
MCVideos ==
    {MediaFile("ok", out, "async_done", TRUE, images, previews, TRUE, Dim(3, 2), "none", TRUE) :
       out \in {"fd", "file"}, images \in Lists, previews \in Lists}
    \union
    {MediaFile("ok", out, "async_done", FALSE, <<"front">>, <<>>, TRUE, s, turn, memory) :
       out \in {"fd", "file"}, s \in {NoSize, Dim(3, 2), Dim(5, 1)},
       turn \in {"none", "rotate-90", "rotate-180", "rotate-270", "flip-rotate-0"},
       memory \in BOOLEAN}
    \union
    {MediaFile(args, "fd", opens, FALSE, <<>>, <<>>, FALSE, NoSize, "none", TRUE) :
       args \in {"ok", "bad", "usage"}, opens \in {"success", "async_done", "failure", "async_error", "async"}}

MCTargets == {Dim(1, 1), Dim(2, 2), Dim(2, 4), Dim(4, 4)}

(* --size of 2, 2x2, 2x2x5, 9 (above the limit), x and -1: the third means  *)
(* 2x2, the last two are refused.                                          *)
MCSizeArgs == {<<<<2>>>>, <<<<2>>, <<2>>>>, <<<<2>>, <<2>>, <<5>>>>, <<<<9>>>>,
               <<<<>>, <<>>>>, <<<<-1>>>>}

MCSymmetry == Permutations(Tools)
=============================================================================
