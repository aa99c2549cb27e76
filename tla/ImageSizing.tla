----------------------------- MODULE ImageSizing -----------------------------
(***************************************************************************)
(* The class Image (src/image.cpp): which size, which orientation and      *)
(* which encoding a picture has after it was loaded and scaled.  Pixels    *)
(* are abstracted to what the four corners show; decoding, interpolation   *)
(* and encoding are gdk-pixbuf's.                                          *)
(***************************************************************************)
EXTENDS Integers, Sequences

CONSTANT MaxSize   \* max_size_, the setting max-thumbnail-size
ASSUME MaxSizeAssumption == MaxSize \in Nat \ {0}

Dim(w, h) == [w |-> w, h |-> h]

(* QSize: the default size is invalid, zero means that a dimension is not  *)
(* restricted.                                                             *)
NoSize == Dim(-1, -1)
isValid(s) == s.w >= 0 /\ s.h >= 0
transpose(s) == Dim(s.h, s.w)
fitsIn(s, box) == s.w <= box.w /\ s.h <= box.h

(* "Enforce size limitation": the target size of thumbnail().             *)
target_size(size) ==
    LET limit(n) == IF n = 0 \/ n > MaxSize THEN MaxSize ELSE n
    IN  Dim(limit(size.w), limit(size.h))

(* QSize::scale(box, Qt::KeepAspectRatio), for a size without zeros. *)
keepAspectRatio(s, box) ==
    LET rw == (box.h * s.w) \div s.h
    IN  IF rw <= box.w THEN Dim(rw, box.h)
        ELSE Dim(box.w, (box.w * s.h) \div s.w)

(* "Fill in missing dimensions from requested size". *)
fillIn(req, s) ==
    Dim(IF req.w = 0 THEN s.w ELSE req.w, IF req.h = 0 THEN s.h ELSE req.h)

(* The size that the callbacks of load_image() tell the loader.  The       *)
(* loader gives up when a dimension is zero.                               *)
maybe_scale_thumbnail(s, req) ==
    IF /\ req.w = 0 \/ s.w < req.w
       /\ req.h = 0 \/ s.h < req.h
    THEN Dim(0, 0)
    ELSE keepAspectRatio(s, fillIn(req, s))

maybe_scale_image(s, req) ==
    IF ~isValid(req) \/ fitsIn(s, fillIn(req, s)) THEN s
    ELSE keepAspectRatio(s, fillIn(req, s))
-----------------------------------------------------------------------------
(* What the corners of a pixbuf show, in the order top left, top right,    *)
(* bottom left, bottom right; gdk_pixbuf_flip and gdk_pixbuf_rotate_simple.*)
Upright == <<"TL", "TR", "BL", "BR">>
flipHorizontal(c) == <<c[2], c[1], c[4], c[3]>>
flipVertical(c) == <<c[3], c[4], c[1], c[2]>>
rotateUpsideDown(c) == <<c[4], c[3], c[2], c[1]>>
rotateClockwise(c) == <<c[3], c[1], c[4], c[2]>>
rotateCounterClockwise(c) == <<c[2], c[4], c[1], c[3]>>

SidewaysOrientations == 5..8

(* Mutant: mirrored and rotated pictures are only rotated. *)
correctOrientation_NoMirror(o, c) ==
    CASE o \in {5, 6} -> rotateClockwise(c)
      [] o \in {7, 8} -> rotateCounterClockwise(c)
      [] OTHER -> c

(* The last part of Image::load(). *)
correctOrientation(o, c) ==
    CASE o = 2 -> flipHorizontal(c)
      [] o = 3 -> rotateUpsideDown(c)
      [] o = 4 -> flipVertical(c)
      [] o = 5 -> flipHorizontal(rotateClockwise(c))
      [] o = 6 -> rotateClockwise(c)
      [] o = 7 -> flipHorizontal(rotateCounterClockwise(c))
      [] o = 8 -> rotateCounterClockwise(c)
      [] OTHER -> c

(* Image data: its size, whether it has an alpha channel, whether it is    *)
(* broken and animated, its EXIF orientation (0 when there is none), what  *)
(* its corners show, and the size of the embedded thumbnail or NoSize.     *)
ImageData(s, alpha, broken, animated, exif, corners, small) ==
    [size |-> s, alpha |-> alpha, broken |-> broken, animated |-> animated,
     exif |-> exif, corners |-> corners, small |-> small]

(* What EXIF says that the corners of the stored picture show; values that *)
(* it does not define mean nothing.                                        *)
StoredCorners(exif) ==
    CASE exif = 2 -> <<"TR", "TL", "BR", "BL">>
      [] exif = 3 -> <<"BR", "BL", "TR", "TL">>
      [] exif = 4 -> <<"BL", "BR", "TL", "TR">>
      [] exif = 5 -> <<"TL", "BL", "TR", "BR">>
      [] exif = 6 -> <<"TR", "BR", "TL", "BL">>
      [] exif = 7 -> <<"BR", "TR", "BL", "TL">>
      [] exif = 8 -> <<"BL", "TL", "BR", "TR">>
      [] OTHER -> Upright

(* Data as a camera or a server makes it: a decoder finds no empty         *)
(* picture, and an embedded thumbnail is not larger than its picture.      *)
Positive == Nat \ {0}
WellFormed(d) ==
    /\ d.size \in [w : Positive, h : Positive] /\ d.alpha \in BOOLEAN
    /\ d.exif \in Nat /\ d.corners = StoredCorners(d.exif)
    /\ \/ d.small = NoSize
       \/ d.small \in [w : Positive, h : Positive] /\ fitsIn(d.small, d.size)

(* How large the picture is that a viewer sees, and whether its embedded   *)
(* thumbnail is higher than wide: such a thumbnail may be scaled up.       *)
SeenSize(d) == IF d.exif \in SidewaysOrientations THEN transpose(d.size) ELSE d.size
highThumbnail(d) == d.small.w < d.small.h

(* An object of class Image; has_alpha_ is false by default. *)
Image(s, alpha, flag, corners) ==
    [size |-> s, alpha |-> alpha, has_alpha |-> flag, corners |-> corners]
Failed == Image(NoSize, FALSE, FALSE, Upright)

(* load_image() throws unless the loader makes a pixbuf of the size s.     *)
(* Reading stops after the first frame of an animation, so that what       *)
(* follows it does not matter.                                             *)
canLoad(d, s) == s.w > 0 /\ s.h > 0 /\ (d.broken => d.animated)

(* Image::load(): the embedded thumbnail, if it is large enough, else the  *)
(* image itself; then the orientation is corrected.                        *)
load(d, req) ==
    LET turned == d.exif \in SidewaysOrientations
        unrotated == IF turned THEN transpose(req) ELSE req
        small == IF isValid(d.small) /\ isValid(req)
                 THEN maybe_scale_thumbnail(d.small, unrotated) ELSE Dim(0, 0)
        useSmall == small.w > 0 /\ small.h > 0
        s == IF useSmall THEN small ELSE maybe_scale_image(d.size, unrotated)
    IN  IF ~useSmall /\ ~canLoad(d, s) THEN Failed
        ELSE Image(IF turned THEN transpose(s) ELSE s,
                   d.alpha /\ ~useSmall, d.alpha /\ ~useSmall,
                   correctOrientation(d.exif, d.corners))

(* Image::scale() *)
scaledSize(s, req) ==
    IF ~isValid(req) \/ fitsIn(s, fillIn(req, s)) THEN s
    ELSE LET t == keepAspectRatio(s, fillIn(req, s))
         IN  Dim(IF t.w = 0 THEN 1 ELSE t.w, IF t.h = 0 THEN 1 ELSE t.h)

scale(image, req) ==
    IF ~isValid(req) \/ fitsIn(image.size, fillIn(req, image.size)) THEN image
    ELSE Image(scaledSize(image.size, req), image.alpha, FALSE, image.corners)

(* The encodings: jpeg has no alpha channel. *)
jpeg_data(image) == [format |-> "jpeg", size |-> image.size, alpha |-> FALSE]
png_data(image) == [format |-> "png", size |-> image.size, alpha |-> image.alpha]

(* jpeg_or_png_data(): the encoding follows has_alpha_. *)
jpeg_or_png_data(image) == IF image.has_alpha THEN png_data(image) ELSE jpeg_data(image)
=============================================================================
