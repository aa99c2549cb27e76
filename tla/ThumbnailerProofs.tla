-------------------------- MODULE ThumbnailerProofs --------------------------
(***************************************************************************)
(* The requests of Thumbnailer for every set of files, artworks, sizes and *)
(* requests: what is in the caches belongs to its key, so what is found    *)
(* there or fetched may be shown.  Then LocalMedia: what is made of local  *)
(* images, songs and videos is presentable, the best artwork, and whole.   *)
(***************************************************************************)
EXTENDS Thumbnailer, LocalMedia, WellFoundedInduction, TLAPS

Places == CacheSteps \union {"created", "fetch", "returned", "waiting"} \union Ended
Known == {"needs_download", "cache_hit", "scaled_from_fullsize", "cached_failure",
          "downloaded", "not_found", "hard_error", "network_down",
          "temporary_error", "timeout"}
Dims == [w : Int, h : Int]
Images == [size : Dims, alpha : BOOLEAN, has_alpha : BOOLEAN, corners : {Upright}]
Origins == [size : Dims, high : BOOLEAN]
PictureRecords == [image : Images, version : Nat, origin : Origins]
Keys == [item : Items \union {"none"}, version : Nat]

RequestRecords ==
    [pc : Places, key : Keys, since : Nat, size : Dims, status : Known,
     picture : PictureRecords, extracted : {"no", "image", "failed"}, expiry : Nat]

Types ==
    /\ now \in Nat
    /\ file \in [Files -> [version : Nat, type : ContentTypes]]
    /\ req \in [Requests -> RequestRecords]
    /\ thumbs \subseteq [key : Keys, size : Dims, picture : PictureRecords]
    /\ fulls \subseteq [key : Keys, picture : PictureRecords]
    /\ fails \subseteq [key : Keys, expiry : Nat]
    /\ verdict \subseteq [key : Keys, status : Known, at : Nat]

(* The life of a reply: unused; or failed at once; or running with its     *)
(* timer; or ended, with the signal to come or delivered.                  *)
ReplyLife(a) ==
    /\ a.net = "unused" => a = Unused
    /\ a.net = "absent" => a.timer = "off" /\ a.status = "network_down"
    /\ a.net = "running" => a.signal = "none" /\ a.timer = "on" /\ a.emitted = 0
    /\ a.net \in {"absent", "ended"} =>
          \/ a.signal = "due" /\ a.emitted = 0
          \/ a.signal = "none" /\ a.emitted = 1 /\ a.timer = "off"
                /\ a.status # "not_finished"

Replies == ReplyTypeOK /\ \A r \in Requests : ReplyLife(artreply[r])

(* A request reads its reply when there is none yet or when it is over. *)
ReadsReply(q, a) ==
    /\ q.pc \in {"unborn", "created"} => a.net = "unused"
    /\ q.pc \notin Ended /\ q.key.item \in Files => a.net = "unused"
    /\ q.pc \notin Ended \union {"waiting"} => a.net = "unused" \/ a.emitted > 0

(* The extractor ran for a file, when download() had been called for it. *)
Extraction(q) ==
    q.extracted # "no" => q.key.item \in Files /\ q.pc \in CacheSteps \union {"fetch"}

(* What is known of the version of a picture that is kept for a key. *)
NotOlder(key, picture) == picture.version >= key.version

(* A picture that can be shown: not empty, and not larger than what it was *)
(* made of unless that has a high embedded thumbnail.                      *)
Sound(picture) ==
    /\ picture.image.size.w >= 1 /\ picture.image.size.h >= 1
    /\ picture.origin.high \/ fitsIn(picture.image.size, picture.origin.size)

(* A request that is under way has a key of its file as it was then, or of *)
(* its artwork, and once it has begun, a valid size.                       *)
KeyKnown(q) ==
    q.pc \notin Ended =>
       /\ q.key.version = q.since
       /\ \/ q.key.item \in Artworks /\ q.since = 0
          \/ q.key.item \in Files /\ q.since <= file[q.key.item].version
       /\ q.pc # "created" => isValid(q.size)

(* The picture that a request holds is one for its key, the one it returns *)
(* is one for the caller.                                                  *)
Holds(q) ==
    \/ q.pc \in {"put_full_size", "put_thumbnail"}
    \/ q.extracted = "image"
         /\ q.pc \in {"look_thumbnail", "look_full_size", "look_failure", "fetch"}
Returns(q) ==
    q.pc = "done" /\ q.status \in {"cache_hit", "scaled_from_fullsize", "downloaded"}
PictureFits(q) ==
    /\ Holds(q) => NotOlder(q.key, q.picture) /\ Sound(q.picture)
    /\ Returns(q) => /\ q.picture.version >= q.since
                     /\ Sound(q.picture)
                     /\ fitsIn(q.picture.image.size, target_size(q.size))

(* A failure is stored only when it is authoritative, and that the server  *)
(* has nothing only for a time.                                            *)
Expires(key, status, expiry, at) ==
    key.item \in Artworks /\ status = "not_found" => expiry > 0 /\ expiry <= at + RetryAfter
FailureFollows(q) ==
    q.pc = "put_failure" => /\ q.status \in {"not_found", "hard_error"}
                            /\ Expires(q.key, q.status, q.expiry, now)

Good(q, a) ==
    /\ ReadsReply(q, a) /\ Extraction(q) /\ KeyKnown(q)
    /\ PictureFits(q) /\ FailureFollows(q)
GoodRequests == \A r \in Requests : Good(req[r], artreply[r])

(* So is a picture in a cache. *)
CachesFit ==
    /\ \A e \in thumbs : /\ NotOlder(e.key, e.picture) /\ Sound(e.picture)
                         /\ fitsIn(e.picture.image.size, e.size)
    /\ \A e \in fulls : NotOlder(e.key, e.picture) /\ Sound(e.picture)

(* An entry of the failure cache repeats the last verdict on its key. *)
FailsKnown ==
    \A e \in fails :
       /\ \E v \in verdict : v.key = e.key
       /\ \A v \in verdict : v.key = e.key => Expires(e.key, v.status, e.expiry, v.at)

IInv == Types /\ Replies /\ GoodRequests /\ CachesFit /\ FailsKnown
-----------------------------------------------------------------------------
(* The quotient of two lengths, as the sizing code uses it. *)
LEMMA DivBounds ==
    ASSUME NEW a \in Nat, NEW b \in Nat \ {0}, NEW q \in Nat
    PROVE  /\ a \div b \in Nat
           /\ a <= b * q => a \div b <= q
           /\ a >= b * q => a \div b >= q
           /\ b * (a \div b) <= a
<1>1. a \div b \in Nat /\ b * (a \div b) <= a /\ a < b * ((a \div b) + 1)
  BY Z3
<1> DEFINE d == a \div b
<1>2. d \in Nat /\ b * d <= a /\ a < b * (d + 1)
  BY <1>1
<1> HIDE DEF d
<1>3. ASSUME a <= b * q PROVE d <= q
  <2>1. SUFFICES ASSUME d >= q + 1 PROVE FALSE
    BY <1>2
  <2>2. b * d >= b * (q + 1)
    BY <1>2, <2>1, Z3
  <2>3. b * (q + 1) = b * q + b
    BY Z3
  <2>4. b * d \in Nat /\ b * q \in Nat
    BY <1>2, Z3
  <2>5. QED
    BY <1>2, <1>3, <2>2, <2>3, <2>4
<1>4. ASSUME a >= b * q PROVE d >= q
  <2>1. SUFFICES ASSUME q >= d + 1 PROVE FALSE
    BY <1>2
  <2>2. b * q >= b * (d + 1)
    BY <1>2, <2>1, Z3
  <2>3. b * q \in Nat /\ b * (d + 1) \in Nat
    BY <1>2, Z3
  <2>4. QED
    BY <1>2, <1>4, <2>2, <2>3
<1>5. QED
  BY <1>2, <1>3, <1>4 DEF d

(* Lengths multiply monotonically. *)
LEMMA TimesMonotone ==
    ASSUME NEW a \in Nat, NEW b \in Nat, NEW n \in Nat
    PROVE  a <= b => n * a <= n * b
  BY Z3

LEMMA TimesCommutes == \A a, b \in Nat : a * b = b * a /\ a * b \in Nat
  BY Z3

(* QSize::scale() of what does not fit: the result fits, and is not larger *)
(* than what was scaled.                                                   *)
LEMMA ScalesDown ==
    ASSUME NEW s \in [w : Nat \ {0}, h : Nat \ {0}], NEW box \in [w : Nat, h : Nat],
           ~fitsIn(s, box)
    PROVE  /\ keepAspectRatio(s, box) \in [w : Nat, h : Nat]
           /\ fitsIn(keepAspectRatio(s, box), box)
           /\ fitsIn(keepAspectRatio(s, box), s)
<1> DEFINE rw == (box.h * s.w) \div s.h
           rh == (box.w * s.h) \div s.w
<1>1. /\ s.w \in Nat \ {0} /\ s.h \in Nat \ {0} /\ box.w \in Nat /\ box.h \in Nat
      /\ box.h * s.w \in Nat /\ box.w * s.h \in Nat
  BY TimesCommutes
<1>2. rw \in Nat /\ rh \in Nat /\ s.h * rw <= box.h * s.w
  BY <1>1, DivBounds
<1>3. box.h <= s.h => rw <= s.w
  <2>1. box.h <= s.h => box.h * s.w <= s.h * s.w
    BY <1>1, TimesMonotone, TimesCommutes
  <2>2. QED
    BY <1>1, <2>1, DivBounds
<1>4. s.h <= box.h => rw >= s.w
  <2>1. s.h <= box.h => box.h * s.w >= s.h * s.w
    BY <1>1, TimesMonotone, TimesCommutes
  <2>2. QED
    BY <1>1, <2>1, DivBounds
<1>5. box.w <= s.w => rh <= s.h
  <2>1. box.w <= s.w => box.w * s.h <= s.w * s.h
    BY <1>1, TimesMonotone, TimesCommutes
  <2>2. QED
    BY <1>1, <2>1, DivBounds
<1>6. box.w <= rw => rh <= box.h
  <2>1. box.w <= rw => box.w * s.h <= s.h * rw
    BY <1>1, <1>2, TimesMonotone, TimesCommutes
  <2>2. box.w <= rw => box.w * s.h <= s.w * box.h
    <3>1. s.h * rw \in Nat /\ s.w * box.h = box.h * s.w
      BY <1>1, <1>2, TimesCommutes
    <3>2. QED
      BY <1>1, <1>2, <2>1, <3>1
  <2>3. QED
    BY <1>1, <2>2, DivBounds
<1> HIDE DEF rw, rh
<1>7. CASE rw <= box.w
  <2>1. keepAspectRatio(s, box) = [w |-> rw, h |-> box.h]
    BY <1>7 DEF keepAspectRatio, Dim, rw
  <2>2. box.h <= s.h
    BY <1>1, <1>2, <1>4, <1>7 DEF fitsIn
  <2>3. QED
    BY <1>1, <1>2, <1>3, <1>7, <2>1, <2>2 DEF fitsIn
<1>8. CASE rw > box.w
  <2>1. keepAspectRatio(s, box) = [w |-> box.w, h |-> rh]
    BY <1>1, <1>2, <1>8 DEF keepAspectRatio, Dim, rw, rh
  <2>2. box.w <= s.w
    BY <1>1, <1>2, <1>3, <1>8 DEF fitsIn
  <2>3. QED
    BY <1>1, <1>2, <1>5, <1>6, <1>8, <2>1, <2>2 DEF fitsIn
<1>9. QED
  BY <1>1, <1>2, <1>7, <1>8

(* What a picture may be when it is loaded or scaled: its size is known,   *)
(* not empty, and inside the one it was made of.                           *)
Nonempty == [w : Nat \ {0}, h : Nat \ {0}]

(* max_size_ and the caller's size make a target that is not empty. *)
LEMMA TargetNonempty ==
    ASSUME NEW size \in Dims, isValid(size)
    PROVE  target_size(size) \in Nonempty
  BY MaxSizeAssumption DEF target_size, Dim, isValid, Dims, Nonempty

IsImage(i) ==
    /\ i = Image(i.size, i.alpha, i.has_alpha, i.corners)
    /\ i.size \in [w : Int, h : Int] /\ i.alpha \in BOOLEAN /\ i.has_alpha \in BOOLEAN

(* Image::load() of any image file.  The switch at its end undoes what     *)
(* EXIF says was done to the picture.                                      *)
LEMMA OrientationUndone ==
    ASSUME NEW o \in Nat
    PROVE  correctOrientation(o, StoredCorners(o)) = Upright
<1> USE DEF flipHorizontal, flipVertical, rotateUpsideDown, rotateClockwise,
            rotateCounterClockwise, Upright
<1>2. CASE o = 2
  BY <1>2 DEF correctOrientation, StoredCorners
<1>3. CASE o = 3
  BY <1>3 DEF correctOrientation, StoredCorners
<1>4. CASE o = 4
  BY <1>4 DEF correctOrientation, StoredCorners
<1>5. CASE o = 5
  BY <1>5 DEF correctOrientation, StoredCorners
<1>6. CASE o = 6
  BY <1>6 DEF correctOrientation, StoredCorners
<1>7. CASE o = 7
  BY <1>7 DEF correctOrientation, StoredCorners
<1>8. CASE o = 8
  BY <1>8 DEF correctOrientation, StoredCorners
<1>9. CASE o \notin 2..8
  BY <1>9 DEF correctOrientation, StoredCorners
<1>10. QED
  BY <1>2, <1>3, <1>4, <1>5, <1>6, <1>7, <1>8, <1>9

(* An embedded thumbnail that is not higher than wide is not scaled up.    *)
LEMMA ThumbnailFits ==
    ASSUME NEW s \in Nonempty, NEW u \in Nonempty, NEW k,
           k = maybe_scale_thumbnail(s, u), k.w > 0, k.h > 0
    PROVE  k \in Nonempty /\ (s.w >= s.h => fitsIn(k, s))
<1> DEFINE rw == (u.h * s.w) \div s.h
           rh == (u.w * s.h) \div s.w
<1>1. /\ s.w \in Nat \ {0} /\ s.h \in Nat \ {0} /\ u.w \in Nat \ {0} /\ u.h \in Nat \ {0}
      /\ s = [w |-> s.w, h |-> s.h]
  BY DEF Nonempty
<1>2. /\ fillIn(u, s) = u
      /\ k = keepAspectRatio(s, u) /\ ~(s.w < u.w /\ s.h < u.h)
  <2>1. fillIn(u, s) = u
    BY DEF fillIn, Nonempty, Dim
  <2>2. CASE s.w < u.w /\ s.h < u.h
    <3>1. k = Dim(0, 0)
      BY <2>2 DEF maybe_scale_thumbnail
    <3>2. QED
      BY <3>1 DEF Dim
  <2>3. CASE ~(s.w < u.w /\ s.h < u.h)
    BY <1>1, <2>1, <2>3 DEF maybe_scale_thumbnail
  <2>4. QED
    BY <2>1, <2>2, <2>3
<1>3. /\ u.h * s.w \in Nat /\ u.w * s.h \in Nat /\ s.h * s.w \in Nat
      /\ rw \in Nat /\ rh \in Nat
  BY <1>1, TimesCommutes, DivBounds
<1>4. k = IF rw <= u.w THEN [w |-> rw, h |-> u.h] ELSE [w |-> u.w, h |-> rh]
  BY <1>2 DEF keepAspectRatio, Dim
<1>5. k \in Nonempty
  <2> HIDE DEF rw, rh
  <2>1. QED
    BY <1>1, <1>3, <1>4 DEF Nonempty
<1>6. ASSUME s.w >= s.h PROVE fitsIn(k, s)
  <2>1. CASE ~fitsIn(s, u)
    BY <1>1, <1>2, <2>1, ScalesDown DEF Nonempty
  <2>2. CASE fitsIn(s, u) /\ s.h = u.h
    <3>1. rw = s.w
      <4>1. s.h * s.w = u.h * s.w
        BY <2>2
      <4>2. rw <= s.w /\ rw >= s.w
        BY <1>1, <1>3, <4>1, DivBounds
      <4>3. QED
        BY <1>1, <1>3, <4>2
    <3> HIDE DEF rw, rh
    <3>2. QED
      BY <1>1, <1>4, <2>2, <3>1 DEF fitsIn
  <2>3. CASE fitsIn(s, u) /\ s.h # u.h
    <3>1. s.w = u.w /\ u.h >= s.h + 1
      BY <1>1, <1>2, <2>3 DEF fitsIn
    <3>2. rw >= s.w + 1
      <4>1. u.h * s.w >= (s.h + 1) * s.w
        <5>1. s.h + 1 \in Nat /\ s.h + 1 <= u.h
          BY <1>1, <3>1
        <5>2. s.w * (s.h + 1) <= s.w * u.h
          BY <1>1, <5>1, TimesMonotone
        <5>3. s.w * (s.h + 1) = (s.h + 1) * s.w /\ s.w * u.h = u.h * s.w
          BY <1>1, <5>1, TimesCommutes
        <5>4. QED
          BY <1>3, <5>1, <5>2, <5>3
      <4>2. (s.h + 1) * s.w >= s.h * (s.w + 1)
        BY <1>1, <1>6, Z3
      <4>3. (s.h + 1) * s.w \in Nat /\ s.h * (s.w + 1) \in Nat /\ s.w + 1 \in Nat
        BY <1>1, TimesCommutes
      <4>4. u.h * s.w >= s.h * (s.w + 1)
        <5> DEFINE a == u.h * s.w
                   b == (s.h + 1) * s.w
                   c == s.h * (s.w + 1)
        <5>1. a \in Nat /\ b \in Nat /\ c \in Nat /\ a >= b /\ b >= c
          BY <1>3, <4>1, <4>2, <4>3
        <5> HIDE DEF a, b, c
        <5>2. a >= c
          BY <5>1
        <5>3. QED
          BY <5>2 DEF a, c
      <4>5. QED
        BY <1>1, <1>3, <4>3, <4>4, DivBounds
    <3>3. rh <= s.h
      <4>1. u.w * s.h = s.w * s.h
        BY <3>1
      <4>2. QED
        BY <1>1, <1>3, <4>1, DivBounds
    <3> HIDE DEF rw, rh
    <3>4. QED
      BY <1>1, <1>3, <1>4, <3>1, <3>2, <3>3 DEF fitsIn
  <2>4. QED
    BY <2>1, <2>2, <2>3
<1>7. QED
  BY <1>5, <1>6

LEMMA ImageSizeFits ==
    ASSUME NEW s \in Nonempty, NEW u \in Nonempty
    PROVE  LET k == maybe_scale_image(s, u)
           IN  k \in [w : Nat, h : Nat] /\ fitsIn(k, u) /\ fitsIn(k, s)
<1>1. isValid(u) /\ fillIn(u, s) = u
  BY DEF isValid, fillIn, Nonempty, Dim
<1>2. CASE fitsIn(s, u)
  BY <1>1, <1>2 DEF maybe_scale_image, fitsIn, Nonempty
<1>3. CASE ~fitsIn(s, u)
  <2>1. u \in [w : Nat, h : Nat]
    BY DEF Nonempty
  <2>2. maybe_scale_image(s, u) = keepAspectRatio(s, u)
    BY <1>1, <1>3 DEF maybe_scale_image
  <2>3. QED
    BY <1>3, <2>1, <2>2, ScalesDown DEF Nonempty
<1>4. QED
  BY <1>2, <1>3

LEMMA LoadFile ==
    ASSUME NEW d, d.size \in Nonempty, d.alpha \in BOOLEAN,
           \/ d.small = NoSize
           \/ d.small \in Nonempty /\ fitsIn(d.small, d.size),
           NEW t \in Nonempty, NEW i, i = load(d, t), i # Failed
    PROVE  /\ IsImage(i) /\ i.size \in Nonempty
           /\ d.small.w >= d.small.h =>
                fitsIn(i.size, SeenSize(d))
           /\ i.corners = correctOrientation(d.exif, d.corners)
           /\ d.small = NoSize /\ d.alpha => i.alpha /\ i.has_alpha /\ fitsIn(i.size, t)
<1> DEFINE turned == d.exif \in SidewaysOrientations
           u == IF turned THEN transpose(t) ELSE t
           small == IF isValid(d.small) /\ isValid(t)
                    THEN maybe_scale_thumbnail(d.small, u) ELSE Dim(0, 0)
           useSmall == small.w > 0 /\ small.h > 0
           k == IF useSmall THEN small ELSE maybe_scale_image(d.size, u)
           a == d.alpha /\ ~useSmall
<1>1. i = IF ~useSmall /\ ~canLoad(d, k) THEN Failed
          ELSE Image(IF turned THEN transpose(k) ELSE k, a, a, correctOrientation(d.exif, d.corners))
  BY Zenon DEF load
<1>2. u \in Nonempty /\ isValid(t) /\ ~isValid(NoSize)
  BY DEF transpose, Nonempty, Dim, isValid, NoSize
<1>3. useSmall => d.small # NoSize
  <2>1. ~isValid(d.small) => ~useSmall
    BY DEF Dim
  <2>2. QED
    BY <1>2, <2>1
<1>4. /\ k \in Nonempty /\ a \in BOOLEAN
      /\ d.small.w >= d.small.h => fitsIn(k, d.size)
      /\ d.small = NoSize => fitsIn(k, u) /\ a = d.alpha
  <2>1. CASE useSmall
    <3>1. d.small \in Nonempty /\ fitsIn(d.small, d.size) /\ d.small # NoSize
      BY <1>3, <2>1
    <3>2. isValid(d.small)
      BY <3>1 DEF isValid, Nonempty
    <3>3. small = maybe_scale_thumbnail(d.small, u) /\ k = small /\ small.w > 0 /\ small.h > 0
      BY <1>2, <2>1, <3>2
    <3> HIDE DEF small, u, k
    <3>4. small \in Nonempty /\ (d.small.w >= d.small.h => fitsIn(small, d.small))
      BY <1>2, <3>1, <3>3, ThumbnailFits
    <3>5. d.small.w >= d.small.h => fitsIn(small, d.size)
      BY <3>1, <3>4 DEF fitsIn, Nonempty
    <3>6. QED
      BY <2>1, <3>1, <3>3, <3>4, <3>5
  <2>2. CASE ~useSmall
    <3> HIDE DEF useSmall, u
    <3>1. canLoad(d, k)
      BY <1>1, <2>2
    <3>2. k = maybe_scale_image(d.size, u)
      BY <2>2
    <3>3. k \in [w : Nat, h : Nat] /\ fitsIn(k, u) /\ fitsIn(k, d.size)
      BY <1>2, <3>2, ImageSizeFits
    <3>4. a = d.alpha
      BY <2>2
    <3>5. k.w > 0 /\ k.h > 0
      BY <3>1 DEF canLoad
    <3> HIDE DEF k
    <3>6. k \in Nonempty
      BY <3>3, <3>5 DEF Nonempty
    <3>7. QED
      BY <3>3, <3>4, <3>6
  <2>3. QED
    BY <2>1, <2>2
<1>5. i = Image(IF turned THEN transpose(k) ELSE k, a, a, correctOrientation(d.exif, d.corners))
  BY <1>1
<1> HIDE DEF k, a, small, useSmall
<1> DEFINE corners == correctOrientation(d.exif, d.corners)
           size == IF turned THEN transpose(k) ELSE k
<1>6. /\ size \in Nonempty /\ size \in [w : Int, h : Int]
      /\ d.small.w >= d.small.h => fitsIn(size, SeenSize(d))
      /\ d.small = NoSize => fitsIn(size, t)
  <2>0. SeenSize(d) = IF turned THEN transpose(d.size) ELSE d.size
    BY DEF SeenSize
  <2> HIDE DEF turned
  <2>1. CASE turned
    BY <1>4, <2>0, <2>1 DEF Nonempty, transpose, Dim, fitsIn
  <2>2. CASE ~turned
    BY <1>4, <2>0, <2>2 DEF Nonempty
  <2>3. QED
    BY <2>1, <2>2
<1> HIDE DEF corners, size
<1>7. i = [size |-> size, alpha |-> a, has_alpha |-> a, corners |-> corners]
  BY <1>5, Zenon DEF Image, size, corners
<1>8. /\ i.size = size /\ i.alpha = a /\ i.has_alpha = a /\ i.corners = corners
      /\ i = Image(i.size, i.alpha, i.has_alpha, i.corners)
  BY <1>7 DEF Image
<1>9. IsImage(i)
  BY <1>4, <1>6, <1>8 DEF IsImage
<1>10. d.small = NoSize /\ d.alpha => i.alpha /\ i.has_alpha
  BY <1>4, <1>8
<1>11. QED
  BY <1>6, <1>8, <1>9, <1>10 DEF corners

(* Without a hint, as for the data of a cover or a frame. *)
LEMMA LoadUnhinted ==
    ASSUME NEW d, d.alpha \in BOOLEAN, d.size \in [w : Int, h : Int], NEW i,
           i = load(d, NoSize), i # Failed
    PROVE  /\ IsImage(i) /\ i.size = SeenSize(d) /\ i.size \in Nonempty
           /\ i.corners = correctOrientation(d.exif, d.corners)
<1> DEFINE a == d.alpha /\ TRUE
           turned == d.exif \in SidewaysOrientations
           corners == correctOrientation(d.exif, d.corners)
           size == IF turned THEN transpose(d.size) ELSE d.size
<1>1. ~isValid(NoSize) /\ transpose(NoSize) = NoSize
  BY DEF isValid, transpose, NoSize, Dim
<1>2. ~(Dim(0, 0).w > 0 /\ Dim(0, 0).h > 0)
  BY DEF Dim
<1>3. maybe_scale_image(d.size, NoSize) = d.size
  BY <1>1 DEF maybe_scale_image
<1>4. i = IF ~canLoad(d, d.size) THEN Failed ELSE Image(size, a, a, corners)
  BY <1>1, <1>2, <1>3, Zenon DEF load
<1>5. a \in BOOLEAN
  OBVIOUS
<1>6. d.size.w > 0 /\ d.size.h > 0
  BY <1>4 DEF canLoad
<1>7. size = SeenSize(d) /\ size \in Nonempty /\ size \in [w : Int, h : Int]
  <2>1. size = SeenSize(d)
    BY DEF SeenSize
  <2> HIDE DEF turned
  <2>2. QED
    BY <1>6, <2>1 DEF transpose, Dim, Nonempty
<1> HIDE DEF a, size, corners
<1>8. i = [size |-> size, alpha |-> a, has_alpha |-> a, corners |-> corners]
  BY <1>4, Zenon DEF Image
<1>9. IsImage(i) /\ i.size = size /\ i.corners = corners
  BY <1>5, <1>7, <1>8 DEF IsImage, Image
<1>10. QED
  BY <1>7, <1>9 DEF corners

LEMMA LoadUpright ==
    ASSUME NEW d, d.exif = 0, d.alpha \in BOOLEAN, d.size \in [w : Int, h : Int], NEW i,
           i = load(d, NoSize), i # Failed
    PROVE  IsImage(i) /\ i.size = d.size /\ i.size \in Nonempty /\ i.corners = d.corners
<1>1. SeenSize(d) = d.size /\ correctOrientation(d.exif, d.corners) = d.corners
  BY DEF SeenSize, SidewaysOrientations, correctOrientation
<1>2. QED
  BY <1>1, LoadUnhinted

LEMMA UprightImage ==
    ASSUME NEW i, IsImage(i), i.corners = Upright PROVE i \in Images
<1>1. /\ i = [size |-> i.size, alpha |-> i.alpha, has_alpha |-> i.has_alpha, corners |-> i.corners]
      /\ i.size \in [w : Int, h : Int] /\ i.alpha \in BOOLEAN /\ i.has_alpha \in BOOLEAN
  BY DEF IsImage, Image
<1>2. QED
  BY <1>1, Zenon DEF Images, Dims

(* Image data that fetch() meets, with the target as a hint or without.    *)
LEMMA LoadSource ==
    ASSUME NEW d \in Sources, NEW t \in Nonempty \union {NoSize},
           NEW i, i = load(d, t), i # Failed
    PROVE  /\ i \in Images /\ i.size \in Nonempty /\ Origin(d, t) \in Origins
           /\ Origin(d, t).high \/ fitsIn(i.size, Origin(d, t).size)
<1> DEFINE high == isValid(t) /\ highThumbnail(d)
<1>1. /\ d.size \in Nonempty /\ d.alpha \in BOOLEAN
      /\ d.exif \in Nat /\ d.corners = StoredCorners(d.exif)
      /\ d.small = NoSize \/ (d.small \in Nonempty /\ fitsIn(d.small, d.size))
  BY SourcesAssumption DEF WellFormed, Nonempty, Positive
<1>2. high \in BOOLEAN
  OBVIOUS
<1>3. SeenSize(d) \in Nonempty /\ SeenSize(d) \in Dims
  BY <1>1 DEF SeenSize, transpose, Dim, Nonempty, Dims
<1>4. correctOrientation(d.exif, d.corners) = Upright
  BY <1>1, OrientationUndone
<1>5. /\ IsImage(i) /\ i.size \in Nonempty /\ i.corners = Upright
      /\ high \/ fitsIn(i.size, SeenSize(d))
  <2>1. CASE t = NoSize
    <3>1. d.size \in [w : Int, h : Int]
      BY <1>1 DEF Nonempty
    <3>2. IsImage(i) /\ i.size = SeenSize(d) /\ i.size \in Nonempty /\ i.corners = Upright
      BY <1>1, <1>4, <2>1, <3>1, LoadUnhinted
    <3>3. fitsIn(SeenSize(d), SeenSize(d))
      BY <1>3 DEF fitsIn, Nonempty
    <3>4. QED
      BY <3>2, <3>3
  <2>2. CASE t \in Nonempty
    <3>1. isValid(t)
      BY <2>2 DEF isValid, Nonempty
    <3>2. high \/ d.small.w >= d.small.h
      BY <1>1, <3>1 DEF highThumbnail, NoSize, Dim, Nonempty
    <3>3. /\ IsImage(i) /\ i.size \in Nonempty /\ i.corners = Upright
          /\ d.small.w >= d.small.h => fitsIn(i.size, SeenSize(d))
      BY <1>1, <1>4, <2>2, LoadFile
    <3>4. QED
      BY <3>2, <3>3
  <2>3. QED
    BY <2>1, <2>2
<1> HIDE DEF high
<1>6. Origin(d, t) = [size |-> SeenSize(d), high |-> high]
  BY Zenon DEF Origin, high
<1>7. Origin(d, t) \in Origins /\ Origin(d, t).size = SeenSize(d) /\ Origin(d, t).high = high
  BY <1>2, <1>3, <1>6 DEF Origins
<1>8. QED
  BY <1>5, <1>7, UprightImage

(* A picture from the full-size cache. *)
LEMMA LoadStored ==
    ASSUME NEW image \in Images, image.size \in Nonempty, NEW t \in Nonempty,
           NEW i, i = load(StoredData(image), t), i # Failed
    PROVE  i \in Images /\ i.size \in Nonempty /\ fitsIn(i.size, image.size)
<1> DEFINE d == StoredData(image)
           a == image.alpha /\ image.has_alpha
<1>1. a \in BOOLEAN /\ image.corners = Upright
  BY DEF Images
<1> HIDE DEF a
<1>2. /\ d.size = image.size /\ d.alpha = a /\ d.exif = 0 /\ d.corners = image.corners
      /\ d.small = NoSize
  BY DEF StoredData, ImageData, a
<1> HIDE DEF d
<1>3. /\ SeenSize(d) = image.size /\ correctOrientation(d.exif, d.corners) = Upright
      /\ d.small.w >= d.small.h
  BY <1>1, <1>2 DEF SeenSize, SidewaysOrientations, correctOrientation, NoSize, Dim
<1>4. i = load(d, t)
  BY DEF d
<1>5. IsImage(i) /\ i.size \in Nonempty /\ fitsIn(i.size, image.size) /\ i.corners = Upright
  BY <1>1, <1>2, <1>3, <1>4, LoadFile
<1>6. QED
  BY <1>5, UprightImage

(* Image::scale(): a side that would vanish becomes one. *)
LEMMA ScaleFits ==
    ASSUME NEW image \in Images, image.size \in Nonempty, NEW t \in Nonempty
    PROVE  /\ scale(image, t) \in Images
           /\ scale(image, t).size \in Nonempty
           /\ fitsIn(scale(image, t).size, t) /\ fitsIn(scale(image, t).size, image.size)
<1> DEFINE s == image.size
<1>1. isValid(t) /\ fillIn(t, s) = t /\ t \in [w : Nat, h : Nat]
  BY DEF isValid, fillIn, Nonempty, Dim
<1>2. CASE fitsIn(s, t)
  BY <1>1, <1>2 DEF scale, fitsIn, Nonempty
<1>3. CASE ~fitsIn(s, t)
  <2> DEFINE k == keepAspectRatio(s, t)
  <2>1. k \in [w : Nat, h : Nat] /\ fitsIn(k, t) /\ fitsIn(k, s)
    BY <1>1, <1>3, ScalesDown DEF Nonempty
  <2>2. scale(image, t) = [size |-> Dim(IF k.w = 0 THEN 1 ELSE k.w, IF k.h = 0 THEN 1 ELSE k.h),
                           alpha |-> image.alpha, has_alpha |-> FALSE, corners |-> image.corners]
    BY <1>1, <1>3 DEF scale, scaledSize, Image
  <2> HIDE DEF k
  <2>3. QED
    BY <2>1, <2>2 DEF Images, Nonempty, Dims, Dim, fitsIn
<1>4. QED
  BY <1>2, <1>3
-----------------------------------------------------------------------------
(* A request that was not made. *)
LEMMA BlankRecord == Blank \in RequestRecords
  BY DEF Blank, RequestRecords, Places, CacheSteps, Ended, Keys, Key, Dims, NoSize, Dim,
         Known, PictureRecords, NoPicture, Picture, Failed, Image, Images,
         Origins

(* Nothing was asked for, nothing is stored. *)
LEMMA InitIInv == Init => IInv
<1> SUFFICES ASSUME Init PROVE IInv
  OBVIOUS
<1>1. Good(Blank, Unused)
  BY DEF Blank, Ended, Unused, Good, ReadsReply, Extraction, KeyKnown, PictureFits, Holds, Returns, FailureFollows
<1>2. Types
  BY BlankRecord, BoundsAssumption DEF Init, Types
<1>3. Replies
  BY DEF Init, DownloaderInit, Replies, ReplyTypeOK, ReplyLife, Unused, NetworkErrors, Statuses
<1>4. QED
  BY <1>1, <1>2, <1>3 DEF IInv, FailsKnown, Expires, Init, DownloaderInit, GoodRequests, CachesFit

ReplyRecords ==
    [net : {"unused", "absent", "running", "ended"}, error : NetworkErrors,
     signal : {"none", "due"}, timer : {"off", "on"}, status : Statuses, emitted : Nat]

(* One reply changes that was not finished. *)
LEMMA OneReplyChanges ==
    ASSUME Replies, NEW r \in Requests, NEW a \in ReplyRecords, ReplyLife(a),
           ~ReplyFinished(r), artreply' = [artreply EXCEPT ![r] = a]
    PROVE  Replies' /\ \A q \in Requests : ReplyFinished(q) => artreply'[q] = artreply[q]
  BY DEF Replies, ReplyTypeOK, ReplyFinished, ReplyRecords

(* The body of download_finished() ends the life of a reply. *)
LEMMA FinishEnds ==
    ASSUME NEW a \in ReplyRecords, a.net \in {"absent", "ended"}, a.emitted = 0,
           a.net = "absent" => a.timer = "off" /\ a.status = "network_down"
    PROVE  finish(a) \in ReplyRecords /\ ReplyLife(finish(a))
<1>0. a.emitted + 1 = 1
  OBVIOUS
<1>1. set_status(a.error) \in Statuses \ {"not_finished"}
  BY DEF set_status, Statuses
<1>2. CASE a.net = "absent"
  <2> DEFINE b == [a EXCEPT !.signal = "none", !.emitted = 1]
  <2>1. finish(a) = b
    BY <1>0, <1>2 DEF finish
  <2>2. b \in ReplyRecords /\ b.net = "absent" /\ b.signal = "none" /\ b.emitted = 1
          /\ b.timer = a.timer /\ b.status = a.status
    BY <1>2 DEF ReplyRecords
  <2> HIDE DEF b
  <2>3. QED
    BY <1>2, <2>1, <2>2 DEF ReplyLife
<1>3. CASE a.net = "ended"
  <2> DEFINE b == [a EXCEPT !.signal = "none", !.emitted = 1, !.timer = "off",
                            !.status = set_status(a.error)]
  <2>1. finish(a) = b
    BY <1>0, <1>3 DEF finish
  <2>2. b \in ReplyRecords /\ b.net = "ended" /\ b.signal = "none" /\ b.emitted = 1
          /\ b.timer = "off" /\ b.status # "not_finished"
    BY <1>1, <1>3 DEF ReplyRecords
  <2> HIDE DEF b
  <2>3. QED
    BY <2>1, <2>2 DEF ReplyLife
<1>4. QED
  BY <1>2, <1>3

(* The replies of a step: none changes, one is asked for, the network goes *)
(* on with one, or all unfinished ones are gone.  One that is finished     *)
(* stays as it is.                                                         *)
LEMMA ReplySteps ==
    ASSUME IInv, [Next]_vars
    PROVE  Replies' /\ \A r \in Requests : ReplyFinished(r) => artreply'[r] = artreply[r]
<1> DEFINE Settled == \A q \in Requests : ReplyFinished(q) => artreply'[q] = artreply[q]
<1>0. Replies /\ \A r \in Requests : artreply[r] \in ReplyRecords /\ ReplyLife(artreply[r])
  BY DEF IInv, Replies, ReplyTypeOK, ReplyRecords
<1>1. CASE UNCHANGED artreply
  BY <1>0, <1>1 DEF Replies, ReplyTypeOK
<1>2. ASSUME NEW r \in Requests, download_url(r) PROVE Replies' /\ Settled
  <2>0. ~ReplyFinished(r)
    BY <1>0, <1>2 DEF download_url, ReplyLife, Unused, ReplyFinished
  <2>1. PICK a : /\ artreply' = [artreply EXCEPT ![r] = a]
                 /\ a \in {[Unused EXCEPT !.net = "running", !.timer = "on"],
                          [Offline EXCEPT !.signal = "due"]}
    BY <1>2 DEF download_url
  <2>2. Unused \in ReplyRecords /\ Unused.signal = "none" /\ Unused.timer = "off"
          /\ Unused.emitted = 0
    BY DEF Unused, ReplyRecords, NetworkErrors, Statuses
  <2>3. Offline \in ReplyRecords /\ Offline.net = "absent" /\ Offline.timer = "off"
          /\ Offline.status = "network_down" /\ Offline.emitted = 0
    BY <2>2 DEF Offline, ReplyRecords, Statuses
  <2>4. CASE a = [Unused EXCEPT !.net = "running", !.timer = "on"]
    <3>1. a \in ReplyRecords /\ a.net = "running" /\ a.timer = "on" /\ a.signal = "none"
            /\ a.emitted = 0
      BY <2>2, <2>4 DEF ReplyRecords
    <3>2. ReplyLife(a)
      BY <3>1 DEF ReplyLife
    <3>3. QED
      BY <1>0, <2>0, <2>1, <3>1, <3>2, OneReplyChanges
  <2>5. CASE a = [Offline EXCEPT !.signal = "due"]
    <3>1. a \in ReplyRecords /\ a.net = "absent" /\ a.timer = "off" /\ a.signal = "due"
            /\ a.emitted = 0 /\ a.status = "network_down"
      BY <2>3, <2>5 DEF ReplyRecords
    <3>2. ReplyLife(a)
      BY <3>1 DEF ReplyLife
    <3>3. QED
      BY <1>0, <2>0, <2>1, <3>1, <3>2, OneReplyChanges
  <2>6. QED
    BY <2>1, <2>4, <2>5
<1>3. ASSUME NEW r \in Requests, NetworkStep(r) PROVE Replies' /\ Settled
  <2>0. artreply[r] \in ReplyRecords /\ ReplyLife(artreply[r])
    BY <1>0
  <2>1. CASE ServerEnds(r)
    <3>1. PICK code \in ServerAnswers :
             artreply' = [artreply EXCEPT ![r] = [artreply[r] EXCEPT
                              !.net = "ended", !.error = code, !.signal = "due"]]
      BY <1>0, <2>1 DEF ServerEnds
    <3>2. artreply[r].net = "running"
      BY <2>1 DEF ServerEnds
    <3>3. ~ReplyFinished(r)
      BY <2>0, <3>2 DEF ReplyLife, ReplyFinished
    <3>4. [artreply[r] EXCEPT !.net = "ended", !.error = code, !.signal = "due"]
             \in ReplyRecords
      BY <2>0, <3>1 DEF ReplyRecords, ServerAnswers
    <3>5. ReplyLife([artreply[r] EXCEPT !.net = "ended", !.error = code, !.signal = "due"])
      BY <2>0, <3>2 DEF ReplyLife, ReplyRecords
    <3>6. QED
      BY <1>0, <3>1, <3>3, <3>4, <3>5, OneReplyChanges
  <2>2. CASE download_finished(r)
    <3>1. artreply[r].net \in {"absent", "ended"} /\ artreply[r].emitted = 0
      BY <2>0, <2>2 DEF download_finished, ReplyLife, ReplyRecords, Unused
    <3>2. ~ReplyFinished(r)
      BY <3>1 DEF ReplyFinished
    <3>3. finish(artreply[r]) \in ReplyRecords /\ ReplyLife(finish(artreply[r]))
      BY <2>0, <3>1, FinishEnds DEF ReplyLife
    <3>4. QED
      BY <1>0, <2>2, <3>2, <3>3, OneReplyChanges DEF download_finished
  <2>3. CASE timeout(r)
    <3> DEFINE fired == [artreply[r] EXCEPT !.timer = "off", !.status = "timeout"]
               aborted == [fired EXCEPT !.net = "ended", !.error = "Canceled"]
    <3>1. artreply[r].net \in {"running", "ended"} /\ artreply[r].emitted = 0
      BY <2>0, <2>3 DEF timeout, ReplyLife, ReplyRecords, Unused
    <3>2. ~ReplyFinished(r)
      BY <3>1 DEF ReplyFinished
    <3>3. fired \in ReplyRecords /\ fired.net = artreply[r].net
      BY <2>0 DEF ReplyRecords, Statuses
    <3>4. CASE artreply[r].net = "ended"
      <4>1. ReplyLife(fired)
        BY <2>0, <3>1, <3>4 DEF ReplyLife, ReplyRecords
      <4>2. artreply' = [artreply EXCEPT ![r] = fired]
        BY <2>3, <3>3, <3>4 DEF timeout
      <4>3. QED
        BY <1>0, <3>2, <3>3, <4>1, <4>2, OneReplyChanges
    <3>5. CASE artreply[r].net = "running"
      <4>1. artreply' = [artreply EXCEPT ![r] = finish(aborted)]
        BY <2>3, <3>3, <3>5 DEF timeout
      <4>2. /\ aborted \in ReplyRecords /\ aborted.net = "ended" /\ aborted.emitted = 0
            /\ aborted.signal = artreply[r].signal
        BY <2>0, <3>1 DEF ReplyRecords, Statuses, NetworkErrors
      <4>3. finish(aborted) \in ReplyRecords /\ ReplyLife(finish(aborted))
        <5> HIDE DEF aborted
        <5>1. QED
          BY <4>2, FinishEnds
      <4>4. QED
        BY <1>0, <3>2, <4>1, <4>3, OneReplyChanges
    <3>6. QED
      BY <3>1, <3>4, <3>5
  <2>4. QED
    BY <1>3, <2>1, <2>2, <2>3 DEF NetworkStep
<1>4. CASE Restart
  <2>1. Unused \in ReplyRecords /\ ReplyLife(Unused)
    BY DEF Unused, ReplyRecords, ReplyLife, NetworkErrors, Statuses
  <2>2. QED
    BY <1>0, <1>4, <2>1 DEF Restart, Replies, ReplyTypeOK, ReplyRecords
<1>5. QED
  BY <1>1, <1>2, <1>3, <1>4 DEF Next, vars, RequestStep, Begin, look_thumbnail,
     look_full_size, look_failure, call_fetch, put_failure, put_full_size, put_thumbnail,
     download, ExtractionEnds, DownloadEnds, CacheThrows, Network, get_thumbnail, get_art,
     clear, Evict, Tick, ChangeFile
-----------------------------------------------------------------------------
(* One request changes, with its reply, and no file. *)
LEMMA OneRequestChanges ==
    ASSUME IInv, NEW r \in Requests, NEW q \in RequestRecords, Good(q, artreply'[r]),
           req' = [req EXCEPT ![r] = q], file' = file, now' = now,
           \A u \in Requests \ {r} : artreply'[u] = artreply[u]
    PROVE  req' \in [Requests -> RequestRecords] /\ GoodRequests'
<1>1. req \in [Requests -> RequestRecords] /\ GoodRequests
  BY DEF IInv, Types
<1>2. ASSUME NEW u \in Requests PROVE Good(req[u], artreply[u])'
  <2>1. /\ req'[u] = IF u = r THEN q ELSE req[u]
        /\ Good(req'[u], artreply'[u])
    BY <1>1 DEF GoodRequests
  <2>2. QED
    BY <2>1 DEF Good, ReadsReply, Extraction, KeyKnown, PictureFits, Holds, Returns, NotOlder, Sound,
                FailureFollows
<1>3. QED
  BY <1>1, <1>2 DEF GoodRequests

LEMMA OneRequest ==
    ASSUME IInv, NEW r \in Requests, NEW q \in RequestRecords, Good(q, artreply[r]),
           req' = [req EXCEPT ![r] = q], UNCHANGED <<now, file, caches, artreply>>
    PROVE  IInv'
<1>1. req' \in [Requests -> RequestRecords] /\ GoodRequests'
  BY OneRequestChanges
<1>2. QED
  BY <1>1 DEF IInv, FailsKnown, Expires, Types, Replies, ReplyTypeOK, CachesFit, caches

(* A request that is over without a picture. *)
LEMMA Over ==
    ASSUME NEW pc \in {"done", "thrown"}, NEW a,
           NEW status \in Known \ {"cache_hit", "scaled_from_fullsize", "downloaded"}
    PROVE  LET q == [Blank EXCEPT !.pc = pc, !.status = status]
           IN  q \in RequestRecords /\ Good(q, a)
<1> DEFINE q == [Blank EXCEPT !.pc = pc, !.status = status]
<1>1. q \in RequestRecords /\ q.pc = pc /\ q.status = status /\ q.extracted = "no"
  BY BlankRecord DEF RequestRecords, Places, Ended, Blank
<1> HIDE DEF q
<1>2. Good(q, a)
  BY <1>1 DEF Good, ReadsReply, Extraction, KeyKnown, PictureFits, Holds, Returns, FailureFollows, Ended
<1>3. QED
  BY <1>1, <1>2 DEF q

LEMMA Thrown ==
    ASSUME NEW a
    PROVE  [Blank EXCEPT !.pc = "thrown"] \in RequestRecords
             /\ Good([Blank EXCEPT !.pc = "thrown"], a)
<1> DEFINE q == [Blank EXCEPT !.pc = "thrown"]
<1>1. q \in RequestRecords /\ q.pc = "thrown" /\ q.extracted = "no"
  BY BlankRecord DEF RequestRecords, Places, Ended, Blank
<1> HIDE DEF q
<1>2. Good(q, a)
  BY <1>1 DEF Good, ReadsReply, Extraction, KeyKnown, PictureFits, Holds, Returns, FailureFollows, Ended
<1>3. QED
  BY <1>1, <1>2 DEF q

LEMMA ThrowStep ==
    ASSUME IInv, NEW r \in Requests, Throw(r), UNCHANGED <<now, file, caches, artreply>>
    PROVE  IInv'
  BY Thrown, OneRequest DEF Throw

LEMMA FailStep ==
    ASSUME IInv, NEW r \in Requests,
           NEW status \in Known \ {"cache_hit", "scaled_from_fullsize", "downloaded"},
           Fail(r, status), UNCHANGED <<now, file, caches, artreply>>
    PROVE  IInv'
  BY Over, OneRequest DEF Fail

(* What the invariant says of one request. *)
LEMMA Request ==
    ASSUME IInv, NEW r \in Requests
    PROVE  req[r] \in RequestRecords /\ Good(req[r], artreply[r])
  BY DEF IInv, Types, GoodRequests

(* A request moves on with the picture that it has. *)
LEMMA MoveStep ==
    ASSUME IInv, NEW r \in Requests, NEW pc \in Places, Move(r, pc),
           UNCHANGED <<now, file, caches, artreply>>,
           req[r].pc \notin Ended, isValid(req[r].size),
           pc \in {"look_thumbnail", "look_full_size", "look_failure", "fetch"},
           req[r].pc # "waiting" \/ ReplyFinished(r), req[r].pc # "put_failure"
    PROVE  IInv'
<1> DEFINE q == [req[r] EXCEPT !.pc = pc]
<1>1. req[r] \in RequestRecords /\ Good(req[r], artreply[r])
  BY Request
<1>2. req' = [req EXCEPT ![r] = q]
  BY <1>1 DEF Move, IInv, Types
<1>3. /\ q \in RequestRecords /\ q.pc = pc /\ q.key = req[r].key /\ q.since = req[r].since
      /\ q.size = req[r].size /\ q.status = req[r].status /\ q.picture = req[r].picture
      /\ q.extracted = req[r].extracted
  BY <1>1 DEF RequestRecords
<1> HIDE DEF q
<1>4. Good(q, artreply[r])
  BY <1>1, <1>3 DEF Good, ReadsReply, Extraction, KeyKnown, PictureFits, Holds, Returns,
                    FailureFollows, Ended, CacheSteps, ReplyFinished
<1>5. QED
  BY <1>2, <1>3, <1>4, OneRequest
-----------------------------------------------------------------------------
(* A request is made: its key is that of the file as it is now. *)
LEMMA GetSteps ==
    ASSUME IInv, NEW r \in Requests, NEW size \in Requested,
           \/ \E f \in Files : get_thumbnail(r, f, size)
           \/ \E a \in Artworks : get_art(r, a, size)
    PROVE  IInv'
<1>1. req \in [Requests -> RequestRecords] /\ req[r].pc = "unborn"
        /\ UNCHANGED <<now, file, caches, artreply>>
  BY DEF IInv, Types, get_thumbnail, get_art
<1>2. ASSUME NEW key \in Keys, NEW since \in Nat, key.version = since, key.item \in Items,
             \/ key.item \in Artworks /\ since = 0
             \/ key.item \in Files /\ since <= file[key.item].version,
             req' = [req EXCEPT ![r] = Created(key, since, size)]
      PROVE  IInv'
  <2> DEFINE q == Created(key, since, size)
  <2>1. /\ q \in RequestRecords /\ q.pc = "created" /\ q.key = key /\ q.since = since
    BY <1>2, BlankRecord, RequestedAssumption DEF Created, RequestRecords, Places, Dims
  <2>2. q.extracted = "no"
    BY DEF Created, Blank
  <2> HIDE DEF q
  <2>3. artreply[r].net = "unused"
    <3>1. Good(req[r], artreply[r])
      BY Request
    <3>2. QED
      BY <1>1, <3>1 DEF Good, ReadsReply
  <2>4. Good(q, artreply[r])
    BY <1>2, <2>1, <2>2, <2>3 DEF Good, ReadsReply, Extraction, KeyKnown, PictureFits, Holds,
                                  Returns, FailureFollows, Ended
  <2>5. QED
    BY <1>1, <1>2, <2>1, <2>4, OneRequest DEF q
<1>3. CASE \E f \in Files : get_thumbnail(r, f, size)
  <2>1. PICK f \in Files : get_thumbnail(r, f, size)
    BY <1>3
  <2>2. CASE file[f].type = "gone"
    <3>1. Throw(r)
      BY <2>1, <2>2 DEF get_thumbnail, Throw
    <3>2. QED
      BY <1>1, <3>1, ThrowStep
  <2>3. CASE file[f].type # "gone"
    <3>1. file[f].version \in Nat
      BY DEF IInv, Types
    <3>2. /\ local_key(f) \in Keys /\ local_key(f).item = f
          /\ local_key(f).version = file[f].version
      BY <3>1 DEF local_key, Key, Keys, Items
    <3>3. req' = [req EXCEPT ![r] = Created(local_key(f), file[f].version, size)]
      BY <2>1, <2>3 DEF get_thumbnail
    <3>4. local_key(f).item \in Items /\ file[f].version <= file[local_key(f).item].version
      BY <3>1, <3>2 DEF Items
    <3>5. QED
      BY <1>2, <3>1, <3>2, <3>3, <3>4, Zenon
  <2>4. QED
    BY <2>2, <2>3
<1>4. CASE \E a \in Artworks : get_art(r, a, size)
  <2>1. PICK a \in Artworks : req' = [req EXCEPT ![r] = Created(art_key(a), 0, size)]
    BY <1>4 DEF get_art
  <2>2. art_key(a) \in Keys /\ art_key(a).item = a /\ art_key(a).version = 0
    BY DEF art_key, Key, Keys, Items
  <2>3. art_key(a).item \in Items /\ 0 \in Nat
    BY <2>2 DEF Items
  <2>4. QED
    BY <1>2, <2>1, <2>2, <2>3, Zenon
<1>5. QED
  BY <1>3, <1>4
-----------------------------------------------------------------------------
(* The first call of thumbnail() and its three look-ups without a hit. *)
LEMMA BeginStep == ASSUME IInv, NEW r \in Requests, Begin(r) PROVE IInv'
<1>1. req[r].pc = "created" /\ UNCHANGED <<now, file, caches, artreply>>
  BY DEF Begin
<1>2. CASE isValid(req[r].size)
  BY <1>1, <1>2, MoveStep DEF Begin, Places, CacheSteps, Ended
<1>3. CASE ~isValid(req[r].size)
  BY <1>1, <1>3, ThrowStep DEF Begin
<1>4. QED
  BY <1>2, <1>3

(* A request that has begun is for a size that is not empty, and its       *)
(* picture and that of an entry have a size.                               *)
LEMMA Underway ==
    ASSUME IInv, NEW r \in Requests, req[r].pc \notin Ended \union {"created"}
    PROVE  /\ isValid(req[r].size) /\ req[r].size \in Dims /\ target(r) \in Nonempty
           /\ req[r].key \in Keys /\ req[r].key.version = req[r].since /\ req[r].since \in Nat
<1>1. req[r] \in RequestRecords /\ Good(req[r], artreply[r])
  BY Request
<1>2. req[r].size \in Dims /\ isValid(req[r].size) /\ req[r].key.version = req[r].since
        /\ req[r].key \in Keys /\ req[r].since \in Nat
  BY <1>1 DEF Good, KeyKnown, RequestRecords
<1>3. QED
  BY <1>2, TargetNonempty DEF target

LEMMA SoundNonempty ==
    ASSUME NEW picture \in PictureRecords, Sound(picture)
    PROVE  picture.image \in Images /\ picture.image.size \in Nonempty /\ picture.version \in Nat
  BY DEF PictureRecords, Images, Dims, Sound, Nonempty

(* What is made of a sound picture is sound. *)
LEMMA SoundBelow ==
    ASSUME NEW big \in PictureRecords, Sound(big), NEW image \in Images,
           image.size \in Nonempty, fitsIn(image.size, big.image.size)
    PROVE  LET made == [big EXCEPT !.image = image]
           IN  made \in PictureRecords /\ Sound(made) /\ made.image = image
                 /\ made.version = big.version
<1> DEFINE made == [big EXCEPT !.image = image]
<1>1. /\ made \in PictureRecords /\ made.image = image /\ made.version = big.version
      /\ made.origin = big.origin
  BY DEF PictureRecords
<1>2. big.image.size \in Dims /\ big.origin.size \in Dims
  BY DEF PictureRecords, Images, Origins
<1> HIDE DEF made
<1>3. big.origin.high \/ fitsIn(image.size, big.origin.size)
  BY <1>2 DEF Sound, fitsIn, Dims, Nonempty
<1>4. Sound(made)
  BY <1>1, <1>3 DEF Sound, Nonempty
<1>5. QED
  BY <1>1, <1>4 DEF made

(* The answer to the caller. *)
LEMMA ReturnRecord ==
    ASSUME IInv, NEW r \in Requests, req[r].pc \notin Ended \union {"created"},
           NEW status \in Known, NEW picture \in PictureRecords, NotOlder(req[r].key, picture),
           Sound(picture), fitsIn(picture.image.size, target(r)), NEW a
    PROVE  LET q == [Blank EXCEPT !.pc = "done", !.since = req[r].since, !.size = req[r].size,
                                  !.status = status, !.picture = picture]
           IN  q \in RequestRecords /\ Good(q, a)
<1> DEFINE q == [Blank EXCEPT !.pc = "done", !.since = req[r].since, !.size = req[r].size,
                              !.status = status, !.picture = picture]
<1>1. req[r].size \in Dims /\ req[r].key.version = req[r].since /\ req[r].since \in Nat
  BY Underway
<1>2. /\ q \in RequestRecords /\ q.pc = "done" /\ q.since = req[r].since
      /\ q.size = req[r].size /\ q.picture = picture /\ q.extracted = "no"
  BY <1>1, BlankRecord DEF RequestRecords, Places, Ended, Blank
<1> HIDE DEF q
<1>3. Good(q, a)
  BY <1>1, <1>2 DEF Good, ReadsReply, Extraction, KeyKnown, PictureFits, Holds, Returns,
                    FailureFollows, Ended, NotOlder, target
<1>4. QED
  BY <1>2, <1>3 DEF q

(* A request that has not waited goes on with another picture. *)
LEMMA Advance ==
    ASSUME IInv, NEW r \in Requests, NEW q \in RequestRecords,
           req[r].pc \notin Ended \union {"created", "waiting"},
           q.key = req[r].key, q.since = req[r].since, q.size = req[r].size,
           q.pc \notin Ended \union {"created"}, Extraction(q), FailureFollows(q),
           Holds(q) => NotOlder(q.key, q.picture) /\ Sound(q.picture)
    PROVE  Good(q, artreply[r])
<1>1. Good(req[r], artreply[r])
  BY Request
<1>2. QED
  BY <1>1 DEF Good, ReadsReply, KeyKnown, PictureFits, Returns, Ended
-----------------------------------------------------------------------------
LEMMA LookThumbnail == ASSUME IInv, NEW r \in Requests, look_thumbnail(r) PROVE IInv'
<1>1. req[r].pc = "look_thumbnail" /\ UNCHANGED <<now, file, caches, artreply>>
  BY DEF look_thumbnail
<1>2. isValid(req[r].size) /\ req[r].pc \notin Ended \union {"created"}
  BY <1>1, Underway DEF Ended
<1>3. CASE Move(r, "look_full_size")
  BY <1>1, <1>2, <1>3, MoveStep DEF Places, CacheSteps
<1>4. CASE \E e \in thumbs : /\ e.key = req[r].key /\ e.size = target(r)
                             /\ Return(r, "cache_hit", e.picture)
  <2>1. PICK e \in thumbs : /\ e.key = req[r].key /\ e.size = target(r)
                            /\ Return(r, "cache_hit", e.picture)
    BY <1>4
  <2>2. e.picture \in PictureRecords
    BY DEF IInv, Types
  <2>3. NotOlder(req[r].key, e.picture) /\ Sound(e.picture)
          /\ fitsIn(e.picture.image.size, target(r))
    BY <2>1 DEF IInv, CachesFit
  <2>4. QED
    BY <1>1, <1>2, <2>1, <2>2, <2>3, ReturnRecord, OneRequest DEF Return, Known
<1>5. QED
  BY <1>3, <1>4 DEF look_thumbnail

LEMMA LookFullSize == ASSUME IInv, NEW r \in Requests, look_full_size(r) PROVE IInv'
<1>1. req[r].pc = "look_full_size" /\ UNCHANGED <<now, file, caches, artreply>>
  BY DEF look_full_size
<1>2. isValid(req[r].size) /\ req[r].pc \notin Ended \union {"created"}
        /\ target(r) \in Nonempty
  BY <1>1, Underway DEF Ended
<1>3. CASE Move(r, "look_failure")
  BY <1>1, <1>2, <1>3, MoveStep DEF Places, CacheSteps
<1>4. CASE Throw(r)
  BY <1>1, <1>4, ThrowStep
<1>5. ASSUME NEW e \in fulls, e.key = req[r].key,
             load(StoredData(e.picture.image), target(r)) # Failed,
             req' = [req EXCEPT ![r].pc = "put_thumbnail",
                       ![r].status = "scaled_from_fullsize",
                       ![r].picture = [e.picture EXCEPT
                                         !.image = load(StoredData(e.picture.image), target(r))]]
      PROVE  IInv'
  <2> DEFINE image == load(StoredData(e.picture.image), target(r))
             picture == [e.picture EXCEPT !.image = image]
             q == [req[r] EXCEPT !.pc = "put_thumbnail", !.status = "scaled_from_fullsize",
                                 !.picture = picture]
  <2>1. e.picture \in PictureRecords /\ NotOlder(req[r].key, e.picture) /\ Sound(e.picture)
    BY <1>5 DEF IInv, Types, CachesFit
  <2>2. e.picture.image \in Images /\ e.picture.image.size \in Nonempty
    BY <2>1, SoundNonempty
  <2>3. req[r] \in RequestRecords /\ req \in [Requests -> RequestRecords]
    BY DEF IInv, Types
  <2>4. req' = [req EXCEPT ![r] = q]
    BY <1>5, <2>3
  <2>5. image \in Images /\ image.size \in Nonempty /\ fitsIn(image.size, e.picture.image.size)
    BY <1>2, <1>5, <2>2, LoadStored
  <2> HIDE DEF image
  <2>6. picture \in PictureRecords /\ Sound(picture) /\ picture.version = e.picture.version
    BY <2>1, <2>5, SoundBelow
  <2> HIDE DEF picture
  <2>9. /\ q \in RequestRecords /\ q.pc = "put_thumbnail" /\ q.key = req[r].key
        /\ q.since = req[r].since /\ q.size = req[r].size
        /\ q.picture = picture /\ q.extracted = req[r].extracted
    BY <2>3, <2>6 DEF RequestRecords, Places, CacheSteps, Known
  <2> HIDE DEF q
  <2>10. Extraction(q)
    <3>1. Good(req[r], artreply[r])
      BY Request
    <3>2. QED
      BY <2>9, <3>1 DEF Good, Extraction, CacheSteps
  <2>11. Good(q, artreply[r])
    BY <1>1, <1>2, <2>1, <2>6, <2>9, <2>10, Advance DEF NotOlder, FailureFollows, Ended
  <2>12. QED
    BY <1>1, <2>4, <2>9, <2>11, OneRequest
<1>6. QED
  BY <1>3, <1>4, <1>5 DEF look_full_size

LEMMA LookFailure == ASSUME IInv, NEW r \in Requests, look_failure(r) PROVE IInv'
<1>1. req[r].pc = "look_failure" /\ UNCHANGED <<now, file, caches, artreply>>
  BY DEF look_failure
<1>2. isValid(req[r].size) /\ req[r].pc \notin Ended \union {"created"}
  BY <1>1, Underway DEF Ended
<1>3. CASE Move(r, "fetch")
  BY <1>1, <1>2, <1>3, MoveStep DEF Places, CacheSteps
<1>4. CASE Fail(r, "cached_failure")
  BY <1>1, <1>4, FailStep DEF Known
<1>5. QED
  BY <1>3, <1>4 DEF look_failure
-----------------------------------------------------------------------------
(* What fetch() returns for a request q, whatever the file is by then. *)
FetchStatuses == Known \ {"cache_hit", "scaled_from_fullsize", "cached_failure"}
FetchedData(data, q) ==
    /\ data.status \in FetchStatuses /\ data.picture \in PictureRecords
    /\ data.status = "downloaded" =>
          NotOlder(q.key, data.picture) /\ Sound(data.picture)
    /\ data.status = "needs_download" => q.extracted = "no"

LEMMA WithoutFetched ==
    ASSUME NEW q, NEW status \in FetchStatuses \ {"downloaded"},
           status = "needs_download" => q.extracted = "no"
    PROVE  FetchedData(Without(status), q)
<1>1. Without(status).status = status /\ Without(status).picture = NoPicture
  BY DEF Without, ImageDataOf
<1>2. NoPicture \in PictureRecords
  BY BlankRecord DEF Blank, RequestRecords
<1>3. QED
  BY <1>1, <1>2 DEF FetchedData

(* A picture that was loaded of a source. *)
LEMMA LoadedPicture ==
    ASSUME NEW d \in Sources, NEW t \in Nonempty \union {NoSize}, load(d, t) # Failed,
           NEW version \in Nat
    PROVE  LET picture == Picture(load(d, t), version, Origin(d, t))
           IN  picture \in PictureRecords /\ Sound(picture) /\ picture.version = version
<1> DEFINE image == load(d, t)
           origin == Origin(d, t)
           picture == Picture(image, version, origin)
<1>1. /\ image \in Images /\ image.size \in Nonempty /\ origin \in Origins
      /\ origin.high \/ fitsIn(image.size, origin.size)
  BY LoadSource
<1> HIDE DEF image, origin
<1>2. picture = [image |-> image, version |-> version, origin |-> origin]
  BY DEF Picture
<1>3. picture \in PictureRecords
  BY <1>1, <1>2 DEF PictureRecords
<1>4. picture.image = image /\ picture.version = version /\ picture.origin = origin
  BY <1>2
<1> HIDE DEF picture
<1>5. Sound(picture)
  BY <1>1, <1>4 DEF Sound, Nonempty
<1>6. QED
  BY <1>3, <1>4, <1>5 DEF picture, image, origin

LEMMA LoadedFetched ==
    ASSUME NEW q \in RequestRecords, NEW d \in Sources, NEW t \in Nonempty \union {NoSize},
           NEW version \in Nat, version >= q.key.version, NEW policy
    PROVE  FetchedData(Loaded(d, t, version, policy), q)
<1> DEFINE image == load(d, t)
           picture == Picture(image, version, Origin(d, t))
<1>1. CASE image = Failed
  BY <1>1, WithoutFetched DEF Loaded, FetchStatuses, Known
<1>2. CASE image # Failed
  <2>1. Loaded(d, t, version, policy) = ImageDataOf("downloaded", picture, policy)
    BY <1>2 DEF Loaded
  <2>2. Loaded(d, t, version, policy).status = "downloaded"
          /\ Loaded(d, t, version, policy).picture = picture
    BY <2>1 DEF ImageDataOf
  <2>3. picture \in PictureRecords /\ Sound(picture) /\ picture.version = version
    BY <1>2, LoadedPicture
  <2> HIDE DEF picture
  <2>4. QED
    BY <2>2, <2>3 DEF FetchedData, NotOlder, FetchStatuses, Known
<1>3. QED
  BY <1>1, <1>2

LEMMA FetchReturns ==
    ASSUME IInv, NEW r \in Requests, req[r].pc = "fetch", NEW data \in fetch(r)
    PROVE  FetchedData(data, req[r])
<1>1. req[r] \in RequestRecords /\ Good(req[r], artreply[r])
  BY Request
<1>2. /\ target(r) \in Nonempty /\ req[r].key \in Keys
      /\ req[r].key.version = req[r].since /\ req[r].since \in Nat
  BY Underway DEF Ended
<1>3. CASE remote(r)
  <2>1. req[r].key.version = 0 /\ req[r].extracted = "no"
    BY <1>1, <1>3, ItemsAssumption DEF Good, KeyKnown, Extraction, remote, Ended
  <2>2. artreply[r] \in ReplyRecords /\ ReplyLife(artreply[r])
    BY DEF IInv, Replies, ReplyTypeOK, ReplyRecords
  <2>3. data \in common_fetch(r)
    BY <1>3 DEF fetch
  <2>4. CASE artreply[r].net = "unused"
    <3>1. artreply[r].status # "success"
      BY <2>2, <2>4 DEF ReplyLife, Unused
    <3>2. data = Without("needs_download")
      BY <2>3, <2>4, <3>1 DEF common_fetch
    <3>3. QED
      BY <2>1, <3>2, WithoutFetched DEF FetchStatuses, Known
  <2>5. CASE artreply[r].net # "unused" /\ artreply[r].status = "success"
    <3>1. CASE data = Without("hard_error")
      BY <3>1, WithoutFetched DEF FetchStatuses, Known
    <3>2. CASE \E d \in Sources : data = Loaded(d, NoSize, 0, "cache_fullsize")
      <4>1. 0 >= req[r].key.version /\ 0 \in Nat
        BY <2>1
      <4>2. QED
        BY <1>1, <3>2, <4>1, LoadedFetched
    <3>3. QED
      BY <2>3, <2>5, <3>1, <3>2 DEF common_fetch
  <2>6. CASE artreply[r].net # "unused" /\ artreply[r].status # "success"
    <3>1. artreply[r].emitted > 0
      BY <1>1, <2>6 DEF Good, ReadsReply, Ended
    <3>2. artreply[r].status \in Statuses \ {"not_finished", "success"}
      BY <2>2, <2>6, <3>1 DEF ReplyLife, ReplyRecords
    <3>3. data = Without(artreply[r].status)
      BY <2>3, <2>6 DEF common_fetch
    <3>4. QED
      BY <2>1, <3>2, <3>3, WithoutFetched DEF FetchStatuses, Known, Statuses
  <2>7. QED
    BY <2>4, <2>5, <2>6
<1>4. CASE ~remote(r)
  <2> DEFINE f == file[req[r].key.item]
  <2>1. f.version \in Nat /\ f.version >= req[r].key.version /\ f.type \in ContentTypes
    BY <1>1, <1>2, <1>4 DEF IInv, Types, Good, KeyKnown, remote, Ended
  <2>2. req[r].extracted \in {"no", "image", "failed"} /\ req[r].picture \in PictureRecords
    BY <1>1 DEF RequestRecords
  <2>3. data \in local_fetch(r)
    BY <1>4 DEF fetch
  <2>4. CASE req[r].extracted = "image"
    <3>1. data = ImageDataOf("downloaded", req[r].picture, "cache_fullsize")
      BY <2>3, <2>4 DEF local_fetch
    <3>2. data.status = "downloaded" /\ data.picture = req[r].picture
      BY <3>1 DEF ImageDataOf
    <3>3. NotOlder(req[r].key, req[r].picture) /\ Sound(req[r].picture)
      BY <1>1, <2>4 DEF Good, PictureFits, Holds
    <3>4. QED
      BY <2>2, <3>2, <3>3 DEF FetchedData, FetchStatuses, Known
  <2>5. CASE req[r].extracted = "failed"
    BY <2>3, <2>5, WithoutFetched DEF local_fetch, FetchStatuses, Known
  <2>6. CASE req[r].extracted = "no" /\ f.type = "image"
    <3>1. CASE data = Without("hard_error")
      BY <3>1, WithoutFetched DEF FetchStatuses, Known
    <3>2. CASE \E d \in Sources :
                 data = Loaded(d, target(r), f.version, "dont_cache_fullsize")
      BY <1>1, <1>2, <2>1, <3>2, LoadedFetched
    <3>3. QED
      BY <2>3, <2>6, <3>1, <3>2 DEF local_fetch
  <2>7. CASE req[r].extracted = "no" /\ f.type = "audio"
    <3>1. CASE data \in {Without("not_found"), Without("hard_error")}
      BY <3>1, WithoutFetched DEF FetchStatuses, Known
    <3>2. CASE \E d \in Sources :
                 data = Loaded(d, NoSize, f.version, "dont_cache_fullsize")
      BY <1>1, <1>2, <2>1, <3>2, LoadedFetched
    <3>3. QED
      BY <2>3, <2>7, <3>1, <3>2 DEF local_fetch
  <2>8. CASE req[r].extracted = "no" /\ f.type \in {"video", "other", "gone"}
    <3>1. data \in {Without("needs_download"), Without("not_found"), Without("hard_error")}
      BY <2>3, <2>8 DEF local_fetch
    <3>2. QED
      BY <2>8, <3>1, WithoutFetched DEF FetchStatuses, Known
  <2>9. QED
    BY <2>1, <2>2, <2>4, <2>5, <2>6, <2>7, <2>8, BoundsAssumption
<1>5. QED
  BY <1>3, <1>4

(* The switch on the status of what was fetched. *)
LEMMA CallFetch == ASSUME IInv, NEW r \in Requests, call_fetch(r) PROVE IInv'
<1> DEFINE failure(data, ok) == data.status = "needs_download" /\ remote(r) /\ ~ok
           given(data, ok) == IF failure(data, ok) THEN "temporary_error" ELSE data.status
<1>1. req[r].pc = "fetch" /\ UNCHANGED <<now, file, caches, artreply>>
  BY DEF call_fetch
<1>2. PICK data \in fetch(r), retry_ok \in BOOLEAN :
         LET status == given(data, retry_ok)
             next == after_fetch(status)
         IN  IF next = "done" THEN Fail(r, status)
             ELSE req' = [req EXCEPT
               ![r].status = status, ![r].picture = data.picture,
               ![r].expiry = expiry_time(r, status),
               ![r].pc = IF next # "put" THEN next
                         ELSE IF data.policy = "cache_fullsize"
                         THEN "put_full_size" ELSE "put_thumbnail"]
  BY DEF call_fetch
<1> DEFINE status == given(data, retry_ok)
           next == after_fetch(status)
           expiry == expiry_time(r, status)
           pc == IF next # "put" THEN next
                 ELSE IF data.policy = "cache_fullsize" THEN "put_full_size" ELSE "put_thumbnail"
<1>3. FetchedData(data, req[r])
  BY <1>1, FetchReturns
<1>4. /\ status \in FetchStatuses
      /\ status = "downloaded" => data.status = "downloaded"
      /\ status = "needs_download" => data.status = "needs_download"
  BY <1>3 DEF FetchedData, FetchStatuses, Known
<1>5. expiry \in Nat /\ Expires(req[r].key, status, expiry, now)
  <2> HIDE DEF status
  <2>1. now \in Nat
    BY DEF IInv, Types
  <2>2. QED
    BY <2>1, BoundsAssumption DEF expiry_time, Expires, remote
<1>6. IF next = "done" THEN Fail(r, status)
      ELSE req' = [req EXCEPT ![r].status = status, ![r].picture = data.picture,
                              ![r].expiry = expiry, ![r].pc = pc]
  BY <1>2
<1>7. req[r] \in RequestRecords /\ Good(req[r], artreply[r])
        /\ req \in [Requests -> RequestRecords]
  BY Request DEF IInv, Types
<1> HIDE DEF status, expiry
<1>8. CASE status \in {"network_down", "temporary_error", "timeout"}
  <2>1. next = "done"
    BY <1>8 DEF after_fetch
  <2>2. QED
    BY <1>1, <1>4, <1>6, <1>8, <2>1, FailStep DEF Known
<1>9. CASE status \in {"downloaded", "not_found", "hard_error", "needs_download"}
  <2> DEFINE q == [req[r] EXCEPT !.status = status, !.picture = data.picture,
                                 !.expiry = expiry, !.pc = pc]
  <2>1. /\ next # "done"
        /\ pc \in {"put_full_size", "put_thumbnail", "put_failure", "returned"}
        /\ pc \in {"put_full_size", "put_thumbnail"} => status = "downloaded"
        /\ pc = "put_failure" => status \in {"not_found", "hard_error"}
        /\ pc = "returned" => status = "needs_download"
    BY <1>9 DEF after_fetch
  <2>2. req' = [req EXCEPT ![r] = q]
    BY <1>6, <1>7, <2>1
  <2> HIDE DEF next, pc
  <2>3. /\ q \in RequestRecords /\ q.pc = pc /\ q.key = req[r].key /\ q.since = req[r].since
        /\ q.size = req[r].size /\ q.status = status /\ q.picture = data.picture
        /\ q.extracted = req[r].extracted /\ q.expiry = expiry
    BY <1>3, <1>4, <1>5, <1>7, <2>1
       DEF RequestRecords, FetchedData, FetchStatuses, Places, CacheSteps
  <2> HIDE DEF q
  <2>4. Extraction(q) /\ FailureFollows(q)
    BY <1>3, <1>4, <1>5, <1>7, <2>1, <2>3
       DEF Extraction, FailureFollows, FetchedData, Good, CacheSteps
  <2>5. Holds(q) => NotOlder(q.key, q.picture) /\ Sound(q.picture)
    BY <1>3, <1>4, <2>1, <2>3 DEF Holds, FetchedData
  <2>6. Good(q, artreply[r])
    BY <1>1, <2>1, <2>3, <2>4, <2>5, Advance DEF Ended
  <2>7. QED
    BY <1>1, <2>2, <2>3, <2>6, OneRequest
<1>10. QED
  BY <1>4, <1>8, <1>9 DEF FetchStatuses, Known
-----------------------------------------------------------------------------
(* The steps that store something. *)
LEMMA PutFailure == ASSUME IInv, NEW r \in Requests, put_failure(r) PROVE IInv'
<1> DEFINE entry == [key |-> req[r].key, expiry |-> req[r].expiry]
           learnt == [key |-> req[r].key, status |-> req[r].status, at |-> now]
<1>1. req[r] \in RequestRecords /\ Good(req[r], artreply[r])
  BY Request
<1>2. /\ req[r].status \in {"not_found", "hard_error"}
      /\ Expires(req[r].key, req[r].status, req[r].expiry, now)
  BY <1>1 DEF put_failure, Good, FailureFollows
<1>3. /\ entry \in [key : Keys, expiry : Nat] /\ entry.key = req[r].key
      /\ entry.expiry = req[r].expiry
  BY <1>1 DEF RequestRecords
<1>4. /\ learnt \in [key : Keys, status : Known, at : Nat] /\ learnt.key = req[r].key
      /\ learnt.status = req[r].status /\ learnt.at = now
  BY <1>1 DEF RequestRecords, IInv, Types
<1>5. /\ fails' = {e \in fails : e.key # req[r].key} \union {entry}
      /\ verdict' = {v \in verdict : v.key # req[r].key} \union {learnt}
  BY <1>2 DEF put_failure
<1>6. req' \in [Requests -> RequestRecords] /\ GoodRequests'
  BY <1>2, Over, OneRequestChanges DEF put_failure, Fail, Known
<1> HIDE DEF entry, learnt
<1>7. /\ fails' \subseteq [key : Keys, expiry : Nat]
      /\ verdict' \subseteq [key : Keys, status : Known, at : Nat]
  BY <1>3, <1>4, <1>5 DEF IInv, Types
<1>8. FailsKnown'
  BY <1>2, <1>3, <1>4, <1>5 DEF IInv, FailsKnown, Expires
<1>9. QED
  BY <1>6, <1>7, <1>8 DEF IInv, Types, Replies, ReplyTypeOK, CachesFit, put_failure

LEMMA PutFullSize == ASSUME IInv, NEW r \in Requests, put_full_size(r) PROVE IInv'
<1> DEFINE image == scale(req[r].picture.image, Dim(MaxSize, MaxSize))
           kept == [req[r].picture EXCEPT !.image = image]
           entry == [key |-> req[r].key, picture |-> kept]
           q == [req[r] EXCEPT !.pc = "put_thumbnail", !.picture = kept]
<1>1. /\ req[r] \in RequestRecords /\ Good(req[r], artreply[r])
      /\ req \in [Requests -> RequestRecords] /\ req[r].pc = "put_full_size"
  BY Request DEF IInv, Types, put_full_size
<1>2. /\ req[r].picture \in PictureRecords /\ req[r].key \in Keys
      /\ NotOlder(req[r].key, req[r].picture) /\ Sound(req[r].picture)
  BY <1>1 DEF RequestRecords, Good, PictureFits, Holds
<1>3. /\ req[r].picture.image \in Images /\ req[r].picture.image.size \in Nonempty
      /\ Dim(MaxSize, MaxSize) \in Nonempty
  BY <1>2, SoundNonempty, MaxSizeAssumption DEF Dim, Nonempty
<1>4. /\ image \in Images /\ image.size \in Nonempty
      /\ fitsIn(image.size, req[r].picture.image.size)
  BY <1>3, ScaleFits
<1>5. fulls' = {e \in fulls : e.key # req[r].key} \union {entry}
        /\ req' = [req EXCEPT ![r] = q]
  BY <1>1 DEF put_full_size
<1> HIDE DEF image
<1>6. kept \in PictureRecords /\ Sound(kept) /\ kept.version = req[r].picture.version
  BY <1>2, <1>4, SoundBelow
<1> HIDE DEF kept
<1>7. /\ q \in RequestRecords /\ q.pc = "put_thumbnail" /\ q.key = req[r].key
      /\ q.since = req[r].since /\ q.size = req[r].size /\ q.picture = kept
      /\ q.extracted = req[r].extracted
  BY <1>1, <1>6 DEF RequestRecords, Places, CacheSteps
<1>8. NotOlder(req[r].key, kept) /\ Sound(kept)
  BY <1>2, <1>6 DEF NotOlder
<1> HIDE DEF q
<1>9. Good(q, artreply[r])
  <2>1. Extraction(q) /\ FailureFollows(q)
    BY <1>1, <1>7 DEF Good, Extraction, FailureFollows, CacheSteps
  <2>2. QED
    BY <1>1, <1>7, <1>8, <2>1, Advance DEF Ended
<1>10. req' \in [Requests -> RequestRecords] /\ GoodRequests'
  BY <1>5, <1>7, <1>9, OneRequestChanges DEF put_full_size
<1>11. entry \in [key : Keys, picture : PictureRecords] /\ entry.key = req[r].key /\ entry.picture = kept
  BY <1>2, <1>6
<1> HIDE DEF entry
<1>12. fulls' \subseteq [key : Keys, picture : PictureRecords]
         /\ \A e \in fulls' : NotOlder(e.key, e.picture) /\ Sound(e.picture)
  BY <1>5, <1>8, <1>11 DEF IInv, Types, CachesFit
<1>13. QED
  BY <1>10, <1>12 DEF IInv, FailsKnown, Expires, Types, Replies, ReplyTypeOK, CachesFit,
      NotOlder, Sound, put_full_size

LEMMA PutThumbnail == ASSUME IInv, NEW r \in Requests, put_thumbnail(r) PROVE IInv'
<1> DEFINE image == last_scale(req[r].picture.image, target(r))
           made == [req[r].picture EXCEPT !.image = image]
           entry == [key |-> req[r].key, size |-> target(r), picture |-> made]
<1>1. /\ req[r] \in RequestRecords /\ Good(req[r], artreply[r])
      /\ req \in [Requests -> RequestRecords] /\ req[r].pc = "put_thumbnail"
  BY Request DEF IInv, Types, put_thumbnail
<1>2. /\ req[r].picture \in PictureRecords /\ req[r].key \in Keys
      /\ NotOlder(req[r].key, req[r].picture) /\ Sound(req[r].picture)
  BY <1>1 DEF RequestRecords, Good, PictureFits, Holds
<1>3. /\ req[r].picture.image \in Images /\ req[r].picture.image.size \in Nonempty
      /\ target(r) \in Nonempty
  BY <1>1, <1>2, SoundNonempty, Underway DEF Ended
<1>4. /\ image \in Images /\ image.size \in Nonempty /\ fitsIn(image.size, target(r))
      /\ fitsIn(image.size, req[r].picture.image.size)
  BY <1>3, ScaleFits DEF last_scale
<1>5. /\ thumbs' = {e \in thumbs : e.key # req[r].key \/ e.size # target(r)} \union {entry}
      /\ Return(r, req[r].status, made)
  BY DEF put_thumbnail
<1> HIDE DEF image
<1>6. made \in PictureRecords /\ made.image = image /\ Sound(made)
        /\ made.version = req[r].picture.version
  BY <1>2, <1>4, SoundBelow
<1> HIDE DEF made
<1>7. NotOlder(req[r].key, made) /\ Sound(made) /\ fitsIn(made.image.size, target(r))
  BY <1>2, <1>4, <1>6 DEF NotOlder
<1>8. req' \in [Requests -> RequestRecords] /\ GoodRequests'
  <2>1. req[r].status \in Known /\ req[r].pc \notin Ended \union {"created"}
    BY <1>1 DEF RequestRecords, Ended
  <2> DEFINE q == [Blank EXCEPT !.pc = "done", !.since = req[r].since, !.size = req[r].size,
                                !.status = req[r].status, !.picture = made]
  <2>2. q \in RequestRecords /\ Good(q, artreply'[r])
    BY <1>6, <1>7, <2>1, ReturnRecord
  <2>3. req' = [req EXCEPT ![r] = q]
    BY <1>5 DEF Return
  <2> HIDE DEF q
  <2>4. QED
    BY <2>2, <2>3, OneRequestChanges DEF put_thumbnail
<1>9. /\ entry \in [key : Keys, size : Dims, picture : PictureRecords]
      /\ entry.key = req[r].key /\ entry.picture = made /\ entry.size = target(r)
  BY <1>2, <1>3, <1>6 DEF Nonempty, Dims
<1> HIDE DEF entry
<1>10. /\ thumbs' \subseteq [key : Keys, size : Dims, picture : PictureRecords]
       /\ \A e \in thumbs' : /\ NotOlder(e.key, e.picture) /\ Sound(e.picture)
                             /\ fitsIn(e.picture.image.size, e.size)
  BY <1>5, <1>7, <1>9 DEF IInv, Types, CachesFit
<1>11. QED
  BY <1>8, <1>10 DEF IInv, FailsKnown, Expires, Types, Replies, ReplyTypeOK, CachesFit,
      NotOlder, Sound, put_thumbnail
-----------------------------------------------------------------------------
(* The steps around a download or an extraction. *)
LEMMA DownloadStep == ASSUME IInv, NEW r \in Requests, download(r), Replies' PROVE IInv'
<1> DEFINE q == [req[r] EXCEPT !.pc = "waiting"]
<1>1. /\ req[r] \in RequestRecords /\ Good(req[r], artreply[r])
      /\ req \in [Requests -> RequestRecords] /\ req[r].pc = "returned"
  BY Request DEF IInv, Types, download
<1>2. req' = [req EXCEPT ![r] = q]
  BY <1>1 DEF download, Move
<1>3. /\ q \in RequestRecords /\ q.pc = "waiting" /\ q.key = req[r].key
      /\ q.since = req[r].since /\ q.size = req[r].size /\ q.extracted = req[r].extracted
  BY <1>1 DEF RequestRecords, Places
<1> HIDE DEF q
<1>4. /\ q.key.item \in Files => artreply'[r] = artreply[r]
      /\ \A u \in Requests \ {r} : artreply'[u] = artreply[u]
  <2>1. req[r].key.item \in Files => ~remote(r)
    BY ItemsAssumption DEF remote
  <2>2. QED
    BY <1>3, <2>1 DEF download, download_url, IInv, Replies, ReplyTypeOK
<1>5. Good(q, artreply'[r])
  BY <1>1, <1>3, <1>4 DEF Good, ReadsReply, Extraction, KeyKnown, PictureFits, Holds, Returns,
                          FailureFollows, Ended, CacheSteps
<1>6. req' \in [Requests -> RequestRecords] /\ GoodRequests'
  BY <1>2, <1>3, <1>4, <1>5, OneRequestChanges DEF download
<1>7. QED
  BY <1>6 DEF IInv, FailsKnown, Expires, Types, CachesFit, download, caches

LEMMA ExtractionStep == ASSUME IInv, NEW r \in Requests, ExtractionEnds(r) PROVE IInv'
<1> DEFINE f == file[req[r].key.item]
<1>1. /\ req[r] \in RequestRecords /\ Good(req[r], artreply[r])
      /\ req \in [Requests -> RequestRecords] /\ req[r].pc = "waiting" /\ ~remote(r)
      /\ UNCHANGED <<now, file, caches, artreply>>
  BY Request DEF IInv, Types, ExtractionEnds
<1>2. /\ req[r].key.item \in Files /\ artreply[r].net = "unused"
      /\ f.version \in Nat /\ f.version >= req[r].key.version
  BY <1>1 DEF Good, ReadsReply, KeyKnown, remote, Ended, IInv, Types, RequestRecords
<1>3. ASSUME NEW q \in RequestRecords, q.pc = "look_thumbnail", q.key = req[r].key,
             q.since = req[r].since, q.size = req[r].size,
             q.extracted = "image" => NotOlder(q.key, q.picture) /\ Sound(q.picture),
             req' = [req EXCEPT ![r] = q]
      PROVE  IInv'
  <2>1. Good(q, artreply[r])
    BY <1>1, <1>2, <1>3 DEF Good, ReadsReply, Extraction, KeyKnown, PictureFits, Holds, Returns,
                            FailureFollows, Ended, CacheSteps
  <2>2. QED
    BY <1>1, <1>3, <2>1, OneRequest
<1>4. ASSUME NEW d \in Sources, load(d, NoSize) # Failed,
             req' = [req EXCEPT ![r].pc = "look_thumbnail", ![r].extracted = "image",
                         ![r].picture = Picture(load(d, NoSize), f.version, Origin(d, NoSize))]
      PROVE  IInv'
  <2> DEFINE picture == Picture(load(d, NoSize), f.version, Origin(d, NoSize))
             q == [req[r] EXCEPT !.pc = "look_thumbnail", !.extracted = "image",
                                 !.picture = picture]
  <2>1. req' = [req EXCEPT ![r] = q]
    BY <1>1, <1>4
  <2>2. picture \in PictureRecords /\ Sound(picture) /\ picture.version = f.version
    BY <1>2, <1>4, LoadedPicture
  <2> HIDE DEF picture
  <2>6. /\ q \in RequestRecords /\ q.pc = "look_thumbnail" /\ q.key = req[r].key
        /\ q.since = req[r].since /\ q.size = req[r].size /\ q.picture = picture
    BY <1>1, <2>2 DEF RequestRecords, Places, CacheSteps
  <2> HIDE DEF q
  <2>7. NotOlder(q.key, q.picture) /\ Sound(q.picture)
    BY <1>2, <2>2, <2>6 DEF NotOlder
  <2>8. QED
    BY <1>3, <2>1, <2>6, <2>7
<1>5. CASE req' = [req EXCEPT ![r].pc = "look_thumbnail", ![r].extracted = "failed"]
  <2> DEFINE q == [req[r] EXCEPT !.pc = "look_thumbnail", !.extracted = "failed"]
  <2>1. req' = [req EXCEPT ![r] = q]
    BY <1>1, <1>5
  <2>2. /\ q \in RequestRecords /\ q.pc = "look_thumbnail" /\ q.key = req[r].key
        /\ q.since = req[r].since /\ q.size = req[r].size /\ q.extracted = "failed"
    BY <1>1 DEF RequestRecords, Places, CacheSteps
  <2> HIDE DEF q
  <2>3. QED
    BY <1>3, <2>1, <2>2
<1>6. QED
  BY <1>4, <1>5 DEF ExtractionEnds

LEMMA DownloadEndsStep == ASSUME IInv, NEW r \in Requests, DownloadEnds(r) PROVE IInv'
<1>1. req[r].pc = "waiting" /\ ReplyFinished(r) /\ Move(r, "look_thumbnail")
        /\ UNCHANGED <<now, file, caches, artreply>>
  BY DEF DownloadEnds
<1>2. isValid(req[r].size)
  BY <1>1, Underway DEF Ended
<1>3. QED
  BY <1>1, <1>2, MoveStep DEF Places, CacheSteps, Ended

(* A reply changes: its request waits for it. *)
LEMMA NetworkKeeps == ASSUME IInv, NEW r \in Requests, Network(r), Replies' PROVE IInv'
<1>1. /\ req[r] \in RequestRecords /\ Good(req[r], artreply[r]) /\ req[r].pc \notin Ended
      /\ req \in [Requests -> RequestRecords]
      /\ artreply[r] \in ReplyRecords /\ ReplyLife(artreply[r])
  BY Request DEF IInv, Types, Network, Replies, ReplyTypeOK, ReplyRecords
<1>2. artreply[r].net # "unused" /\ artreply[r].emitted = 0
  <2>1. artreply[r].net = "running" \/ artreply[r].signal = "due" \/ artreply[r].timer = "on"
    BY DEF Network, NetworkStep, ServerEnds, download_finished, timeout
  <2>2. artreply[r].net # "unused"
    BY <1>1, <2>1 DEF ReplyLife, Unused
  <2>3. QED
    BY <1>1, <2>1, <2>2 DEF ReplyLife, ReplyRecords
<1>3. req[r].pc = "waiting" /\ req[r].key.item \notin Files
  BY <1>1, <1>2 DEF Good, ReadsReply
<1>4. \A u \in Requests \ {r} : artreply'[u] = artreply[u]
  BY DEF Network, NetworkStep, ServerEnds, download_finished, timeout, IInv, Replies, ReplyTypeOK
<1>5. Good(req[r], artreply'[r])
  BY <1>1, <1>3 DEF Good, ReadsReply, Extraction, KeyKnown, PictureFits, Holds, Returns,
                    FailureFollows, Ended
<1>6. req' = [req EXCEPT ![r] = req[r]]
  BY <1>1 DEF Network
<1>7. GoodRequests'
  BY <1>1, <1>4, <1>5, <1>6, OneRequestChanges DEF Network
<1>8. UNCHANGED <<now, file, req, thumbs, fulls, fails, verdict>>
  BY DEF Network, caches
<1>9. QED
  BY <1>7, <1>8 DEF IInv, FailsKnown, Expires, Types, CachesFit, NotOlder, Sound
-----------------------------------------------------------------------------
(* The steps around the requests: entries go, files change, time passes,   *)
(* the service ends.                                                       *)
LEMMA CachesShrink ==
    ASSUME IInv, Evict \/ \E selector \in Selectors : clear(selector)
    PROVE  IInv'
<1>1. thumbs' \subseteq thumbs /\ fulls' \subseteq fulls /\ fails' \subseteq fails
        /\ UNCHANGED <<now, file, verdict, req, artreply>>
  BY DEF clear, Evict
<1>2. CachesFit'
  BY <1>1 DEF IInv, CachesFit, NotOlder, Sound
<1>3. GoodRequests'
  BY <1>1 DEF IInv, GoodRequests, Good, ReadsReply, Extraction, KeyKnown, PictureFits, Holds,
              Returns, NotOlder, Sound, FailureFollows
<1>4. QED
  BY <1>1, <1>2, <1>3 DEF IInv, FailsKnown, Expires, Types, Replies, ReplyTypeOK

LEMMA FilesChange == ASSUME IInv, NEW f \in Files, ChangeFile(f) PROVE IInv'
<1>1. PICK type \in ContentTypes :
         file' = [file EXCEPT ![f] = [version |-> file[f].version + 1, type |-> type]]
  BY DEF ChangeFile, IInv, Types
<1>2. file \in [Files -> [version : Nat, type : ContentTypes]]
  BY DEF IInv, Types
<1>3. /\ file' \in [Files -> [version : Nat, type : ContentTypes]]
      /\ \A g \in Files : file'[g].version >= file[g].version
  BY <1>1, <1>2
<1>4. UNCHANGED <<now, thumbs, fulls, fails, verdict, req, artreply>>
  BY DEF ChangeFile, caches
<1>5. ASSUME NEW r \in Requests PROVE Good(req[r], artreply[r])'
  <2>1. Good(req[r], artreply[r]) /\ req[r] \in RequestRecords
    BY Request
  <2>2. KeyKnown(req[r])'
    <3>1. req[r].since \in Nat
      BY <2>1 DEF RequestRecords
    <3>2. req[r].key.item \in Files /\ req[r].since <= file[req[r].key.item].version
            => req[r].since <= file'[req[r].key.item].version
      BY <1>2, <1>3, <3>1
    <3>3. QED
      BY <1>4, <2>1, <3>2 DEF Good, KeyKnown
  <2>3. QED
    BY <1>4, <2>1, <2>2 DEF Good, ReadsReply, Extraction, PictureFits, Holds, Returns, NotOlder,
                            Sound, FailureFollows
<1>6. QED
  BY <1>3, <1>4, <1>5 DEF IInv, FailsKnown, Expires, Types, Replies, ReplyTypeOK,
                          GoodRequests, CachesFit, NotOlder, Sound

LEMMA TimePasses == ASSUME IInv, Tick PROVE IInv'
<1>1. /\ now \in Nat /\ now' = now + 1
      /\ UNCHANGED <<file, thumbs, fulls, fails, verdict, req, artreply>>
  BY DEF Tick, IInv, Types, caches
<1>2. ASSUME NEW r \in Requests PROVE Good(req[r], artreply[r])'
  <2>1. Good(req[r], artreply[r]) /\ req[r] \in RequestRecords
    BY Request
  <2>2. req[r].expiry <= now + RetryAfter => req[r].expiry <= now' + RetryAfter
    BY <1>1, <2>1, BoundsAssumption DEF RequestRecords
  <2>3. FailureFollows(req[r])'
    BY <1>1, <2>1, <2>2 DEF Good, FailureFollows, Expires
  <2>4. QED
    BY <1>1, <2>1, <2>3 DEF Good, ReadsReply, Extraction, KeyKnown, PictureFits, Holds,
                            Returns, NotOlder, Sound
<1>3. Types'
  BY <1>1 DEF IInv, Types
<1>4. QED
  BY <1>1, <1>2, <1>3 DEF IInv, Replies, ReplyTypeOK, GoodRequests, CachesFit, NotOlder, Sound,
                          FailsKnown, Expires

LEMMA RestartStep == ASSUME IInv, Restart, Replies' PROVE IInv'
<1>1. UNCHANGED <<now, file, thumbs, fulls, fails, verdict>>
  BY DEF Restart, caches
<1>2. ASSUME NEW r \in Requests
      PROVE  req'[r] \in RequestRecords /\ Good(req[r], artreply[r])'
  <2>1. req[r] \in RequestRecords /\ Good(req[r], artreply[r])
    BY Request
  <2>2. CASE req[r].pc \notin Ended
    <3>1. req'[r] = [Blank EXCEPT !.pc = "thrown"]
      BY <2>2 DEF Restart
    <3>2. req'[r] \in RequestRecords /\ Good(req'[r], artreply'[r])
      BY <3>1, Thrown
    <3>3. QED
      BY <1>1, <3>2 DEF Good, ReadsReply, Extraction, KeyKnown, PictureFits, Holds, Returns,
                        NotOlder, Sound, FailureFollows
  <2>3. CASE req[r].pc \in Ended
    <3>1. req'[r] = req[r]
      BY <2>3 DEF Restart
    <3>2. req[r].pc = "unborn" => artreply'[r].net = "unused"
      <4>1. req[r].pc = "unborn" => artreply[r].net = "unused"
        BY <2>1 DEF Good, ReadsReply
      <4>2. QED
        BY <4>1 DEF Restart, Unused
    <3>3. QED
      BY <1>1, <2>1, <2>3, <3>1, <3>2 DEF Good, ReadsReply, Extraction, KeyKnown, PictureFits,
          Holds, Returns, NotOlder, Sound, FailureFollows, Ended
  <2>4. QED
    BY <2>2, <2>3
<1>3. req' \in [Requests -> RequestRecords]
  BY <1>2 DEF Restart
<1>4. QED
  BY <1>1, <1>2, <1>3 DEF IInv, FailsKnown, Expires, Types, GoodRequests, CachesFit, NotOlder, Sound

LEMMA NextIInv == ASSUME IInv, [Next]_vars PROVE IInv'
<1>1. Replies'
  BY ReplySteps
<1>2. CASE UNCHANGED vars
  <2>1. UNCHANGED <<now, file, thumbs, fulls, fails, verdict, req, artreply>>
    BY <1>2 DEF vars
  <2>2. QED
    BY <2>1 DEF IInv, FailsKnown, Expires, Types, Replies, ReplyTypeOK, GoodRequests, Good,
           ReadsReply, Extraction, KeyKnown, PictureFits, Holds, Returns, NotOlder, Sound, FailureFollows, CachesFit
<1>3. ASSUME NEW r \in Requests, RequestStep(r) PROVE IInv'
  BY <1>1, <1>3, BeginStep, LookThumbnail, LookFullSize, LookFailure, CallFetch, PutFailure,
     PutFullSize, PutThumbnail, DownloadStep, ExtractionStep, DownloadEndsStep DEF RequestStep
<1>4. ASSUME NEW r \in Requests, CacheThrows(r) PROVE IInv'
  BY <1>4, ThrowStep DEF CacheThrows
<1>5. QED
  BY <1>1, <1>2, <1>3, <1>4, NetworkKeeps, GetSteps, CachesShrink, FilesChange, TimePasses,
     RestartStep DEF Next

LEMMA SpecIInv == Spec => []IInv
<1>1. IInv /\ [Next]_vars => IInv'
  BY NextIInv
<1>2. QED
  BY <1>1, InitIInv, PTL DEF Spec
-----------------------------------------------------------------------------
(* No caller of GetThumbnail, GetAlbumArt or GetArtistArt is shown a       *)
(* picture older than its file was when it asked: NeverStale for every     *)
(* number of files, requests and changes of files.                         *)
THEOREM NothingStaleIsShown == Spec => []NeverStale
<1>1. IInv => NeverStale
  BY DEF IInv, GoodRequests, Good, PictureFits, Returns, NeverStale, HasPicture
<1>2. QED
  BY <1>1, SpecIInv, PTL

(* A picture that is returned fits the size that was asked for, has no     *)
(* empty side, and fits the image data of which it was made, orientation   *)
(* and embedded thumbnail included, unless that thumbnail is higher than   *)
(* wide and load() was given a hint: FitsTarget for all image data, all    *)
(* requests and every limit.                                               *)
THEOREM PicturesFitTheirTarget == Spec => []FitsTarget
<1>1. IInv => FitsTarget
  BY DEF IInv, GoodRequests, Good, PictureFits, Returns, Sound, FitsTarget, HasPicture, target
<1>2. QED
  BY <1>1, SpecIInv, PTL

(* A reply that has emitted finished() keeps its status and does not emit  *)
(* it again: ReplySettled for any number of downloads.                     *)
THEOREM RepliesStaySettled == Spec => ReplySettled
<1>1. IInv /\ [Next]_vars => [\A r \in Requests : ReplyFinished(r) => artreply'[r] = artreply[r]]_artreply
  BY ReplySteps
<1>2. QED
  BY <1>1, SpecIInv, PTL DEF Spec, ReplySettled

(* Where the status of a request comes from. *)
LEMMA StatusSteps ==
    ASSUME IInv, Next, NEW r \in Requests
    PROVE  \/ req'[r].status \in (Known \ {"cached_failure"}) \union {req[r].status}
           \/ look_failure(r)
<1> DEFINE Usual(q) == req'[q].status \in (Known \ {"cached_failure"}) \union {req[q].status}
           Only(q) == \A u \in Requests \ {q} : req'[u] = req[u]
<1>1. /\ req \in [Requests -> RequestRecords] /\ Blank.status = "needs_download"
      /\ Blank \in RequestRecords
  BY BlankRecord DEF IInv, Types, Blank
<1>2. ASSUME NEW q \in Requests, NEW status, Fail(q, status)
      PROVE  req'[q].status = status /\ Only(q)
  BY <1>1, <1>2 DEF Fail, RequestRecords
<1>3. ASSUME NEW q \in Requests, NEW status, NEW picture, Return(q, status, picture)
      PROVE  req'[q].status = status /\ Only(q)
  BY <1>1, <1>3 DEF Return, RequestRecords
<1>4. ASSUME NEW q \in Requests, Throw(q) PROVE Usual(q) /\ Only(q)
  BY <1>1, <1>4 DEF Throw, RequestRecords, Known
<1>5. ASSUME NEW q \in Requests, NEW pc, Move(q, pc) PROVE Usual(q) /\ Only(q)
  BY <1>1, <1>5 DEF Move, RequestRecords
<1>6. ASSUME NEW q \in Requests, RequestStep(q)
      PROVE  (Usual(q) \/ look_failure(q)) /\ Only(q)
  <2>1. CASE Begin(q) \/ DownloadEnds(q) \/ download(q)
    BY <2>1, <1>4, <1>5 DEF Begin, DownloadEnds, download
  <2>2. CASE look_thumbnail(q)
    BY <2>2, <1>3, <1>5 DEF look_thumbnail, Known
  <2>3. CASE look_full_size(q)
    BY <2>3, <1>1, <1>4, <1>5 DEF look_full_size, Known, RequestRecords
  <2>4. CASE look_failure(q)
    BY <2>4, <1>2, <1>5 DEF look_failure
  <2>5. CASE call_fetch(q)
    <3>1. PICK data \in fetch(q), retry_ok \in BOOLEAN :
             LET failure == data.status = "needs_download" /\ remote(q) /\ ~retry_ok
                 status == IF failure THEN "temporary_error" ELSE data.status
                 next == after_fetch(status)
             IN  IF next = "done" THEN Fail(q, status)
                 ELSE req' = [req EXCEPT
                   ![q].status = status, ![q].picture = data.picture,
                   ![q].expiry = expiry_time(q, status),
                   ![q].pc = IF next # "put" THEN next
                             ELSE IF data.policy = "cache_fullsize"
                             THEN "put_full_size" ELSE "put_thumbnail"]
      BY <2>5 DEF call_fetch
    <3> DEFINE status == IF data.status = "needs_download" /\ remote(q) /\ ~retry_ok
                         THEN "temporary_error" ELSE data.status
    <3>2. data.status \in FetchStatuses
      BY <2>5, FetchReturns DEF call_fetch, FetchedData
    <3>3. status \in Known \ {"cached_failure"}
      BY <3>2 DEF FetchStatuses, Known
    <3>4. req'[q].status = status /\ Only(q)
      BY <3>1, <1>1, <1>2 DEF RequestRecords
    <3>5. QED
      BY <3>3, <3>4
  <2>6. CASE put_failure(q)
    BY <2>6, <1>2 DEF put_failure
  <2>7. CASE put_full_size(q)
    BY <2>7, <1>1 DEF put_full_size, RequestRecords
  <2>8. CASE put_thumbnail(q)
    BY <2>8, <1>3 DEF put_thumbnail
  <2>9. CASE ExtractionEnds(q)
    BY <2>9, <1>1 DEF ExtractionEnds, RequestRecords
  <2>10. QED
    BY <1>6, <2>1, <2>2, <2>3, <2>4, <2>5, <2>6, <2>7, <2>8, <2>9 DEF RequestStep
<1>7. ASSUME NEW q \in Requests,
             CacheThrows(q) \/ Network(q) \/ \E size \in Requested :
               \/ \E f \in Files : get_thumbnail(q, f, size)
               \/ \E a \in Artworks : get_art(q, a, size)
      PROVE  Usual(q) /\ Only(q)
  <2>1. CASE CacheThrows(q)
    BY <2>1, <1>4 DEF CacheThrows
  <2>2. CASE Network(q)
    BY <2>2 DEF Network
  <2>3. ASSUME NEW size \in Requested, NEW f \in Files, get_thumbnail(q, f, size)
        PROVE  Usual(q) /\ Only(q)
    BY <2>3, <1>1 DEF get_thumbnail, Created, RequestRecords, Known
  <2>4. ASSUME NEW size \in Requested, NEW a \in Artworks, get_art(q, a, size)
        PROVE  Usual(q) /\ Only(q)
    BY <2>4, <1>1 DEF get_art, Created, RequestRecords, Known
  <2>5. QED
    BY <1>7, <2>1, <2>2, <2>3, <2>4
<1>8. CASE Restart
  BY <1>1, <1>8 DEF Restart, RequestRecords, Known
<1>9. CASE UNCHANGED req
  BY <1>9
<1>10. QED
  BY <1>6, <1>7, <1>8, <1>9 DEF Next, clear, Evict, Tick, ChangeFile

(* A cached failure comes from an entry of the failure cache. *)
LEMMA RepeatedFrom ==
    ASSUME IInv, Next, NEW r \in Requests, IsRepeated(r)
    PROVE  \E e \in fails : e.key = req[r].key /\ (e.expiry = 0 \/ e.expiry > now)
<1>1. look_failure(r)
  BY StatusSteps DEF IsRepeated
<1>2. Fail(r, "cached_failure") \/ Move(r, "fetch")
  BY <1>1 DEF look_failure
<1>3. ~Move(r, "fetch")
  BY DEF IsRepeated, Move, IInv, Types, RequestRecords
<1>4. QED
  BY <1>1, <1>3 DEF look_failure

(* Only an authoritative failure is repeated from the failure cache:       *)
(* FailuresAreKnown for every history.                                     *)
THEOREM CachedFailuresAreKnown == Spec => FailuresAreKnown
<1> DEFINE Learnt == \A r \in Requests :
              IsRepeated(r) => \E v \in verdict : v.key = req[r].key
<1>1. IInv /\ [Next]_vars => [Learnt]_vars
  BY RepeatedFrom DEF IInv, FailsKnown
<1>2. QED
  BY <1>1, SpecIInv, PTL DEF Spec, FailuresAreKnown

(* That the server has no such artwork is not repeated when RetryAfter has *)
(* passed since it was last heard: AbsenceIsRechecked for every history    *)
(* and every RetryAfter.                                                   *)
THEOREM AbsentArtworkIsRechecked == Spec => AbsenceIsRechecked
<1> DEFINE Young(r) == \A v \in verdict :
              v.key = req[r].key /\ v.status = "not_found" => now < v.at + RetryAfter
           Rechecked == \A r \in Requests : IsRepeated(r) /\ remote(r) => Young(r)
<1>1. IInv /\ [Next]_vars => [Rechecked]_vars
  <2>1. SUFFICES ASSUME IInv, Next, NEW r \in Requests, IsRepeated(r), remote(r),
                        NEW v \in verdict, v.key = req[r].key, v.status = "not_found"
                 PROVE  now < v.at + RetryAfter
    OBVIOUS
  <2>2. PICK e \in fails : e.key = req[r].key /\ (e.expiry = 0 \/ e.expiry > now)
    BY <2>1, RepeatedFrom
  <2>3. Expires(e.key, v.status, e.expiry, v.at)
    BY <2>1, <2>2 DEF IInv, FailsKnown
  <2>4. e.expiry > 0 /\ e.expiry <= v.at + RetryAfter
    BY <2>1, <2>2, <2>3 DEF Expires, remote
  <2>5. now \in Nat /\ e.expiry \in Nat /\ v.at \in Nat
    BY <2>1, <2>2 DEF IInv, Types
  <2>6. QED
    BY <2>2, <2>4, <2>5, BoundsAssumption
<1>2. QED
  BY <1>1, SpecIInv, PTL DEF Spec, AbsenceIsRechecked
-----------------------------------------------------------------------------
(***************************************************************************)
(* LocalMedia, for every universe of files, songs, videos and targets, and *)
(* any number of tools.                                                    *)
(***************************************************************************)
(* The process vs-thumb.  It has pixels of its own from the moment when a  *)
(* frame was mapped, and these are mapped exactly while they are those of  *)
(* the buffer; only while it writes do pieces arrive, all that were sent.  *)
VsPlaces == {"idle", "main", "construct", "set_urls", "cover", "frame", "map", "rotate",
             "write_image", "write", "over"}
BeforeFrame == {"idle", "main", "construct", "set_urls", "cover", "frame", "map"}

VsTypes ==
    /\ vs = [pc |-> vs.pc, sample |-> vs.sample, still |-> vs.still, frame |-> vs.frame,
             mapped |-> vs.mapped, fd |-> vs.fd, sent |-> vs.sent,
             written |-> vs.written, exit |-> vs.exit]
    /\ vs.pc \in VsPlaces /\ vs.still \in {"none", "buffer", "copy"}
    /\ vs.mapped \in {"none", "sample"} /\ vs.fd \in {"none", "open", "closed"}
    /\ vs.sent \in Nat /\ vs.written \in Int
    /\ vs.exit \in {"none", "0", "1", "2", "abort", "killed"}

VsProgress ==
    /\ vs.exit = "none" <=> vs.pc # "over"
    /\ vs.mapped = "sample" <=> vs.still = "buffer"
    /\ vs.pc \in BeforeFrame => vs.still = "none"
    /\ vs.pc = "rotate" => vs.still = "buffer"
    /\ vs.pc \notin {"write", "over"} => vs.sent = 0 /\ vs.written = 0 /\ vs.fd = "none"
    /\ vs.pc = "write" => /\ vs.written = vs.sent /\ vs.sent < Pieces
                          /\ vs.still = "none" /\ media.out = "fd" => vs.sent = 0
    /\ vs.exit \in {"0", "2"} => vs.mapped = "none" /\ vs.fd # "open"
    /\ vs.exit = "0" => vs.written = Pieces

(* A frame was stored as the tags of the video say, and is upright once it *)
(* was turned.                                                             *)
FrameTurned ==
    /\ IsImage(vs.frame)
    /\ vs.pc \in BeforeFrame => vs.frame = Failed
    /\ vs.pc = "rotate" => vs.frame = Image(media.size, FALSE, FALSE, Stored(media.turn))
    /\ vs.pc \in {"write_image", "write"} \/ vs.exit = "0" =>
          (media.memory /\ media.turn # "flip-rotate-0" => vs.frame.corners = Upright)

(* A cover is the best one, a frame is taken when there is none. *)
CoverTaken ==
    /\ vs.pc \in {"frame", "map", "rotate"} => BestCover(media) = NoSample
    /\ vs.pc \in {"write_image", "write"} /\ vs.still = "none" =>
          vs.sample = BestCover(media)
    /\ vs.still # "none" => BestCover(media) = NoSample

(* The picture that fetch() returned may be scaled: it is not empty, not   *)
(* larger than its source and upright, and where an alpha channel has to   *)
(* be kept, it need not be scaled.                                         *)
Viewable(i) ==
    /\ IsImage(i) /\ i.size \in [w : Positive, h : Positive]
    /\ HighThumbnail \/ fitsIn(i.size, SourceSize)
    /\ media.memory /\ media.turn # "flip-rotate-0" => i.corners = Upright
    /\ job.type = "image" /\ job.file.small = NoSize /\ job.file.alpha =>
          i.alpha /\ i.has_alpha /\ fitsIn(i.size, job.target)

JobKnown ==
    /\ job = [type |-> job.type, file |-> job.file, target |-> job.target, pc |-> job.pc,
              status |-> job.status, art |-> job.art, image |-> job.image,
              data |-> job.data]
    /\ job.target \in Targets /\ job.pc \in {"fetch", "extract", "scale", "over"}
    /\ \/ job.type = "image" /\ job.file \in Pictures /\ media = NoVideo
       \/ job.type = "audio" /\ job.file \in Songs /\ media = NoVideo
       \/ job.type = "video" /\ media \in Videos
    /\ job.type # "video" => vs = Idle /\ job.pc # "extract"
    /\ job.pc = "fetch" => vs = Idle
    /\ job.type = "video" /\ job.pc \in {"scale", "over"} => vs.pc = "over"
    /\ job.pc # "over" => job.status = "none"
    /\ job.pc = "scale" => Viewable(job.image)

ArtTaken ==
    job.type = "audio" =>
       /\ job.pc = "scale" \/ job.status = "downloaded" => job.art = BestArt(job.file)
       /\ job.status = "not_found" => BestArt(job.file) = Empty

(* The tools.  They start when the answer is there; from then on every     *)
(* file they hold or leave is a copy of it, and whole when it is renamed.  *)
ToolKnown(g, copy, files) ==
    /\ g = [pc |-> g.pc, size |-> g.size, data |-> g.data, temp |-> g.temp, exit |-> g.exit]
    /\ g.exit # "none" => g.pc = "over"
    /\ g.pc \in {"call", "mkstemp", "write", "rename"} \/ g.exit = "0" =>
          make_output_path(g.size) \in Paths
    /\ g.pc \in {"mkstemp", "write", "rename"} => g.data = copy
    /\ g.pc = "rename" => g.temp = File("whole", copy)
    /\ g.exit = "0" => /\ g.temp = NoFile
                       /\ files[make_output_path(g.size)] = File("whole", copy)

FilesWhole ==
    /\ tool = [t \in Tools |-> tool[t]] /\ saved = [p \in Paths |-> saved[p]]
    /\ \A t \in Tools : ToolKnown(tool[t], to_png(job.data), saved)
    /\ \A p \in Paths : saved[p] \in {NoFile, File("whole", to_png(job.data))}
    /\ job.pc # "over" => /\ \A t \in Tools : tool[t] = Unborn
                          /\ \A p \in Paths : saved[p] = NoFile

MediaInv ==
    /\ VsTypes /\ VsProgress /\ FrameTurned /\ CoverTaken
    /\ JobKnown /\ Presentable /\ ArtTaken /\ FilesWhole
-----------------------------------------------------------------------------
(* vs-thumb: every step of the process. *)
LEMMA CountsUpdated ==
    ASSUME VsTypes, NEW m, NEW n, NEW p, p = [vs EXCEPT !.written = m, !.sent = n]
    PROVE  p = [pc |-> vs.pc, sample |-> vs.sample, still |-> vs.still, frame |-> vs.frame,
                mapped |-> vs.mapped, fd |-> vs.fd, sent |-> n, written |-> m,
                exit |-> vs.exit]
  BY DEF VsTypes

LEMMA Throws ==
    ASSUME VsTypes, VsProgress, throw_error
    PROVE  vs' = [pc |-> "over", sample |-> NoSample, still |-> "none",
                  frame |-> vs.frame, mapped |-> "none",
                  fd |-> IF vs.fd = "open" THEN "closed" ELSE vs.fd,
                  sent |-> vs.sent, written |-> vs.written, exit |-> "2"]
  BY DEF throw_error, reset, release, VsTypes, VsProgress

LEMMA WriteIsWhole ==
    ASSUME VsTypes, VsProgress, write_output
    PROVE  VsTypes' /\ VsProgress' /\ vs'.frame = vs.frame /\ vs'.pc \in {"write", "over"}
           /\ (vs'.pc = "write" => vs'.still = vs.still /\ vs'.sample = vs.sample)
           /\ (vs'.pc = "over" => vs'.still = "none")
<1> DEFINE count == IF vs.still = "none" /\ media.out = "fd" THEN Pieces ELSE 1
<1>1. PICK wrote \in -1..count :
         IF ~accepted(wrote, count) THEN throw_error
         ELSE LET after == [vs EXCEPT !.written = @ + wrote, !.sent = @ + count]
              IN  vs' = IF after.sent < Pieces THEN after
                        ELSE [reset(after) EXCEPT !.fd = "closed", !.pc = "over", !.exit = "0"]
  BY DEF write_output
<1>2. count \in Nat \ {0} /\ vs.pc = "write" /\ vs.sent + count <= Pieces /\ media' = media
      /\ (vs.still = "none" /\ media.out = "fd" => vs.sent + count = Pieces)
  BY PiecesAssumption DEF write_output, VsProgress, VsTypes
<1> HIDE DEF count
<1>3. CASE wrote # count
  <2>1. throw_error
    BY <1>1, <1>3 DEF accepted
  <2>2. QED
    BY <1>2, <2>1, Throws DEF VsTypes, VsProgress, VsPlaces, BeforeFrame
<1>4. CASE wrote = count
  <2> DEFINE after == [vs EXCEPT !.written = vs.written + count, !.sent = vs.sent + count]
  <2>1. vs' = IF after.sent < Pieces THEN after
              ELSE [reset(after) EXCEPT !.fd = "closed", !.pc = "over", !.exit = "0"]
    BY <1>1, <1>4 DEF accepted
  <2>2. after = [pc |-> vs.pc, sample |-> vs.sample, still |-> vs.still, frame |-> vs.frame,
                 mapped |-> vs.mapped, fd |-> vs.fd, sent |-> vs.sent + count,
                 written |-> vs.written + count, exit |-> vs.exit]
    BY CountsUpdated
  <2> HIDE DEF after
  <2>3. CASE vs.sent + count < Pieces
    BY <1>2, <2>1, <2>2, <2>3, PiecesAssumption DEF VsTypes, VsProgress, VsPlaces, BeforeFrame
  <2>4. CASE vs.sent + count = Pieces
    <3>1. vs' = [pc |-> "over", sample |-> NoSample, still |-> "none", frame |-> vs.frame,
                 mapped |-> "none", fd |-> "closed", sent |-> vs.sent + count,
                 written |-> vs.written + count, exit |-> "0"]
      <4>1. ~(after.sent < Pieces)
        BY <2>2, <2>4, PiecesAssumption
      <4>2. vs' = [reset(after) EXCEPT !.fd = "closed", !.pc = "over", !.exit = "0"]
        BY <2>1, <4>1
      <4>3. after.still # "buffer" => after.mapped = "none"
        BY <2>2 DEF VsTypes, VsProgress
      <4>4. reset(after) = [after EXCEPT !.still = "none", !.mapped = "none", !.sample = NoSample]
        BY <2>2, <4>3 DEF reset, release
      <4>5. QED
        BY <2>2, <4>2, <4>4
    <3>2. QED
      BY <1>2, <2>4, <3>1 DEF VsTypes, VsProgress, VsPlaces, BeforeFrame
  <2>5. QED
    BY <1>2, <2>3, <2>4, PiecesAssumption DEF VsTypes
<1>5. QED
  BY <1>3, <1>4

LEMMA VsStepWhole ==
    ASSUME VsTypes, VsProgress, media \in Videos, VsThumbStep
    PROVE  VsTypes' /\ VsProgress' /\ media' = media
<1> USE DEF VsTypes, VsProgress, VsPlaces, BeforeFrame
<1>1. CASE check_args
  BY <1>1, VideosAssumption DEF check_args, Exit, To
<1>2. CASE construct
  BY <1>2 DEF construct, Exit, To
<1>3. CASE set_urls
  <2>1. CASE throw_error
    BY <1>3, <2>1, Throws DEF set_urls
  <2>2. CASE vs' = [reset(vs) EXCEPT !.pc = "cover"]
    BY <1>3, <2>2 DEF set_urls, reset, release
  <2>3. QED
    BY <1>3, <2>1, <2>2 DEF set_urls
<1>4. CASE extract_cover_art
  BY <1>4 DEF extract_cover_art, Exit, To
<1>5. CASE convert_sample
  <2>1. CASE throw_error
    BY <1>5, <2>1, Throws DEF convert_sample
  <2>2. CASE vs' = [vs EXCEPT !.sample = <<"frame", 1>>, !.pc = "map"]
    BY <1>5, <2>2 DEF convert_sample
  <2>3. QED
    BY <1>5, <2>1, <2>2 DEF convert_sample
<1>6. CASE still_frame
  <2>1. vs' = [vs EXCEPT !.pc = "rotate", !.mapped = "sample", !.still = "buffer",
                         !.frame = Image(media.size, FALSE, FALSE, Stored(media.turn))]
    BY <1>6 DEF still_frame, map_frame, release
  <2>2. QED
    BY <1>6, <2>1 DEF still_frame
<1>7. CASE rotate_frame
  <2>1. CASE vs' = [release(vs) EXCEPT !.still = "copy", !.pc = "write_image",
                                       !.frame = rotated(vs.frame, media.turn)]
    BY <1>7, <2>1, PiecesAssumption DEF rotate_frame, release
  <2>2. CASE To("write_image")
    BY <1>7, <2>2, PiecesAssumption DEF rotate_frame, To
  <2>3. QED
    BY <1>7, <2>1, <2>2 DEF rotate_frame
<1>8. CASE open_output
  <2>1. CASE throw_error
    BY <1>8, <2>1, Throws DEF open_output
  <2>2. CASE vs' = [vs EXCEPT !.fd = "open", !.pc = "write"]
    <3>1. vs' = [pc |-> "write", sample |-> vs.sample, still |-> vs.still, frame |-> vs.frame,
                 mapped |-> vs.mapped, fd |-> "open", sent |-> 0, written |-> 0, exit |-> "none"]
      BY <1>8, <2>2 DEF open_output
    <3>2. media' = media /\ 0 < Pieces
      BY <1>8, PiecesAssumption DEF open_output
    <3>3. QED
      BY <3>1, <3>2
  <2>3. QED
    BY <1>8, <2>1, <2>2 DEF open_output
<1>9. CASE write_output
  BY <1>9, WriteIsWhole DEF write_output
<1>10. CASE Killed
  BY <1>10 DEF Killed, Exit
<1>11. QED
  BY <1>1, <1>2, <1>3, <1>4, <1>5, <1>6, <1>7, <1>8, <1>9, <1>10 DEF VsThumbStep
-----------------------------------------------------------------------------
(* The frame: four turns and four corners. *)
LEMMA TurnedUpright ==
    ASSUME NEW turn, NEW size, turn \in {"rotate-90", "rotate-180", "rotate-270"}
    PROVE  rotated(Image(size, FALSE, FALSE, Stored(turn)), turn) \in
             {Image(size, FALSE, FALSE, Upright), Image(transpose(size), FALSE, FALSE, Upright)}
<1>1. CASE turn = "rotate-90"
  <2>1. rotateClockwise(rotateCounterClockwise(Upright)) = Upright
    BY DEF rotateClockwise, rotateCounterClockwise, Upright
  <2>2. QED
    BY <1>1, <2>1 DEF rotated, Stored, Image
<1>2. CASE turn = "rotate-180"
  <2>1. rotateUpsideDown(rotateUpsideDown(Upright)) = Upright
    BY DEF rotateUpsideDown, Upright
  <2>2. QED
    BY <1>2, <2>1 DEF rotated, Stored, Image
<1>3. CASE turn = "rotate-270"
  <2>1. rotateCounterClockwise(rotateClockwise(Upright)) = Upright
    BY DEF rotateClockwise, rotateCounterClockwise, Upright
  <2>2. QED
    BY <1>3, <2>1 DEF rotated, Stored, Image
<1>4. QED
  BY <1>1, <1>2, <1>3

LEMMA VsStepTurns ==
    ASSUME VsTypes, VsProgress, FrameTurned, media \in Videos, VsThumbStep
    PROVE  FrameTurned'
<1> USE DEF VsTypes, FrameTurned
<1>0. media' = media
  BY VsStepWhole
<1>1. CASE check_args
  BY <1>1, VideosAssumption DEF check_args, Exit, To, BeforeFrame, VsProgress
<1>2. CASE construct
  BY <1>2 DEF construct, Exit, To, BeforeFrame, VsProgress
<1>t. CASE throw_error
  <2>1. vs'.pc = "over" /\ vs'.exit = "2" /\ vs'.frame = vs.frame
    BY <1>t, Throws
  <2>2. QED
    BY <1>0, <2>1 DEF BeforeFrame
<1>3. CASE set_urls /\ ~throw_error
  BY <1>3 DEF set_urls, reset, release, BeforeFrame, VsProgress
<1>4. CASE extract_cover_art
  <2>1. vs'.frame = vs.frame /\ vs.frame = Failed /\ vs'.exit # "0"
    BY <1>4 DEF extract_cover_art, Exit, To, BeforeFrame, VsProgress
  <2>2. vs'.pc \in {"write_image", "frame", "over"} /\ Failed.corners = Upright
    BY <1>4 DEF extract_cover_art, Exit, To, Failed, Image
  <2>3. QED
    BY <1>0, <2>1, <2>2
<1>5. CASE convert_sample /\ ~throw_error
  BY <1>5 DEF convert_sample, BeforeFrame, VsProgress
<1>6. CASE still_frame
  <2> DEFINE i == Image(media.size, FALSE, FALSE, Stored(media.turn))
  <2>1. vs'.pc = "rotate" /\ vs'.exit = "none" /\ vs'.frame = i
    BY <1>6 DEF still_frame, map_frame, release, VsProgress
  <2>2. IsImage(i)
    BY VideosAssumption DEF IsImage, Image
  <2>3. QED
    BY <1>0, <2>1, <2>2 DEF BeforeFrame
<1>7. CASE rotate_frame
  <2>1. CASE media.turn \in {"rotate-90", "rotate-180", "rotate-270"} /\ media.memory
    <3>1. vs'.pc = "write_image" /\ vs'.exit = "none" /\ vs'.frame = rotated(vs.frame, media.turn)
      BY <1>7, <2>1 DEF rotate_frame, release, VsProgress
    <3>2. vs.frame = Image(media.size, FALSE, FALSE, Stored(media.turn))
      BY <1>7 DEF rotate_frame
    <3>3. rotated(vs.frame, media.turn) \in {Image(media.size, FALSE, FALSE, Upright),
                                             Image(transpose(media.size), FALSE, FALSE, Upright)}
      BY <2>1, <3>2, TurnedUpright DEF Image
    <3>4. IsImage(vs'.frame) /\ vs'.frame.corners = Upright
      <4>1. media.size \in [w : Int, h : Int] /\ transpose(media.size) \in [w : Int, h : Int]
        BY VideosAssumption DEF transpose, Dim
      <4>2. CASE vs'.frame = Image(media.size, FALSE, FALSE, Upright)
        BY <4>1, <4>2 DEF Image, IsImage
      <4>3. CASE vs'.frame = Image(transpose(media.size), FALSE, FALSE, Upright)
        BY <4>1, <4>3 DEF Image, IsImage
      <4>4. QED
        BY <3>1, <3>3, <4>2, <4>3
    <3>5. QED
      BY <1>0, <3>1, <3>4 DEF BeforeFrame
  <2>2. CASE To("write_image") /\ ~(media.turn \in {"rotate-90", "rotate-180", "rotate-270"} /\ media.memory)
    <3>1. vs'.pc = "write_image" /\ vs'.exit = "none" /\ vs'.frame = vs.frame
      BY <1>7, <2>2 DEF rotate_frame, To, VsProgress
    <3>2. media.memory /\ media.turn # "flip-rotate-0" => Stored(media.turn) = Upright
      BY <2>2 DEF Stored
    <3>3. vs.frame.corners = Stored(media.turn)
      BY <1>7 DEF rotate_frame, Image
    <3>4. QED
      BY <1>0, <3>1, <3>2, <3>3 DEF BeforeFrame
  <2>3. QED
    BY <1>7, <2>1, <2>2 DEF rotate_frame
<1>8. CASE open_output /\ ~throw_error
  BY <1>8 DEF open_output, BeforeFrame, VsProgress
<1>9. CASE write_output
  <2>1. /\ vs'.frame = vs.frame /\ vs'.pc \in {"write", "over"} /\ vs.pc = "write"
    BY <1>9, WriteIsWhole DEF write_output
  <2>2. QED
    BY <1>0, <2>1 DEF BeforeFrame
<1>10. CASE Killed
  BY <1>10 DEF Killed, Exit, BeforeFrame
<1>11. QED
  BY <1>1, <1>2, <1>t, <1>3, <1>4, <1>5, <1>6, <1>7, <1>8, <1>9, <1>10
     DEF VsThumbStep
-----------------------------------------------------------------------------
(* The tools: what the files hold, whoever writes them in which order. *)
LEMMA PngIsPng == to_png(job.data).format = "png"
  BY DEF to_png, png_data

(* A tool changes, and perhaps the file at one path, into a copy. *)
LEMMA OneToolChanges ==
    ASSUME FilesWhole, job.pc = "over", UNCHANGED job, NEW t \in Tools, NEW g,
           tool'[t] = g, tool' = [u \in Tools |-> tool'[u]],
           \A u \in Tools : u # t => tool'[u] = tool[u],
           saved' = [p \in Paths |-> saved'[p]],
           \A p \in Paths : saved'[p] \in {saved[p], File("whole", to_png(job.data))},
           ToolKnown(g, to_png(job.data), saved')
    PROVE  FilesWhole'
<1> DEFINE copy == to_png(job.data)
<1>1. ASSUME NEW u \in Tools PROVE ToolKnown(tool'[u], copy, saved')
  <2>1. CASE u = t
    BY <2>1
  <2>2. CASE u # t
    <3>1. tool'[u] = tool[u] /\ ToolKnown(tool[u], copy, saved)
      BY <2>2 DEF FilesWhole
    <3> HIDE DEF copy
    <3>2. tool[u].exit = "0" => saved'[make_output_path(tool[u].size)] = File("whole", copy)
      BY <3>1 DEF ToolKnown, copy
    <3>3. QED
      BY <3>1, <3>2 DEF ToolKnown
  <2>3. QED
    BY <2>1, <2>2
<1>2. \A p \in Paths : saved'[p] \in {NoFile, File("whole", copy)}
  BY DEF FilesWhole
<1>3. QED
  BY <1>1, <1>2 DEF FilesWhole

LEMMA RunWhole ==
    ASSUME FilesWhole, NEW t \in Tools, run(t)
    PROVE  FilesWhole'
<1> DEFINE g == tool[t]
           copy == to_png(job.data)
<1>1. job.pc = "over" /\ job' = job /\ ToolKnown(g, copy, saved)
  BY DEF run, FilesWhole
<1>2. tool = [u \in Tools |-> tool[u]] /\ saved = [p \in Paths |-> saved[p]]
  BY DEF FilesWhole
<1>3. /\ g = [pc |-> g.pc, size |-> g.size, data |-> g.data, temp |-> g.temp, exit |-> g.exit]
      /\ g.pc = "unborn" => g.exit = "none"
  BY <1>1 DEF ToolKnown
<1>4. CASE UNCHANGED saved
  <2>1. ASSUME NEW h, ToolKnown(h, copy, saved), tool'[t] = h,
               tool' = [u \in Tools |-> tool'[u]], \A u \in Tools : u # t => tool'[u] = tool[u]
        PROVE  FilesWhole'
    BY <1>1, <1>2, <1>4, <2>1, OneToolChanges
  <2> HIDE DEF g, copy
  <2>2. ASSUME NEW code, code # "0", ExitWith(t, code)
        PROVE  FilesWhole'
    <3> DEFINE h == [pc |-> "over", size |-> g.size, data |-> g.data, temp |-> g.temp,
                     exit |-> code]
    <3>1. tool'[t] = h
      BY <1>2, <1>3, <2>2 DEF ExitWith, g
    <3>2. tool' = [u \in Tools |-> tool'[u]] /\ \A u \in Tools : u # t => tool'[u] = tool[u]
      BY <1>2, <2>2 DEF ExitWith
    <3>3. ToolKnown(h, copy, saved)
      BY <2>2 DEF ToolKnown
    <3> HIDE DEF h
    <3>4. QED
      BY <2>1, <3>1, <3>2, <3>3
  <2>3. ASSUME NEW size, tool' = [tool EXCEPT ![t].pc = "call", ![t].size = size],
               make_output_path(size) \in Paths, g.pc = "unborn"
        PROVE  FilesWhole'
    <3> DEFINE h == [pc |-> "call", size |-> size, data |-> g.data, temp |-> g.temp,
                     exit |-> "none"]
    <3>1. tool'[t] = h
      BY <1>2, <1>3, <2>3 DEF g
    <3>2. tool' = [u \in Tools |-> tool'[u]] /\ \A u \in Tools : u # t => tool'[u] = tool[u]
      BY <1>2, <2>3
    <3>3. ToolKnown(h, copy, saved)
      BY <2>3 DEF ToolKnown
    <3> HIDE DEF h
    <3>4. QED
      BY <2>1, <3>1, <3>2, <3>3
  <2>4. CASE GetLocalThumbnail(t)
    <3>1. g.pc = "unborn"
      BY <2>4 DEF GetLocalThumbnail, g
    <3>2. CASE ExitWith(t, "1")
      BY <2>2, <3>2
    <3>3. ASSUME NEW fields \in SizeArgs, isValid(parse_size(fields)),
                 tool' = [tool EXCEPT ![t].pc = "call", ![t].size = parse_size(fields)]
          PROVE  FilesWhole'
      <4>1. make_output_path(parse_size(fields)) \in Paths
        BY <3>3 DEF Paths
      <4>2. QED
        BY <2>3, <3>1, <3>3, <4>1
    <3>4. CASE tool' = [tool EXCEPT ![t].pc = "call", ![t].size = Dim(0, 0)]
      <4>1. make_output_path(Dim(0, 0)) \in Paths
        BY DEF Paths
      <4>2. QED
        BY <2>3, <3>1, <3>4, <4>1
    <3>5. QED
      BY <2>4, <3>2, <3>3, <3>4, Zenon DEF GetLocalThumbnail
  <2>5. CASE replied(t, job.data)
    <3> DEFINE h == [pc |-> "mkstemp", size |-> g.size, data |-> copy,
                     temp |-> g.temp, exit |-> g.exit]
    <3>1. tool'[t] = h
      BY <1>2, <1>3, <2>5 DEF replied, g, copy
    <3>2. tool' = [u \in Tools |-> tool'[u]] /\ \A u \in Tools : u # t => tool'[u] = tool[u]
      BY <1>2, <2>5 DEF replied
    <3>3. g.pc = "call"
      BY <2>5 DEF replied, g
    <3>4. ToolKnown(h, copy, saved)
      BY <1>1, <3>3 DEF ToolKnown
    <3> HIDE DEF h
    <3>5. QED
      BY <2>1, <3>1, <3>2, <3>4
  <2>6. CASE refused(t)
    BY <2>2, <2>6 DEF refused
  <2>7. CASE mkstemp(t)
    <3>1. CASE ExitWith(t, "1")
      BY <2>2, <3>1
    <3>2. CASE tool' = [tool EXCEPT ![t].pc = "write", ![t].temp = File("empty", @.data)]
      <4> DEFINE h == [pc |-> "write", size |-> g.size, data |-> g.data,
                       temp |-> File("empty", g.temp.data), exit |-> g.exit]
      <4>1. tool'[t] = h
        BY <1>2, <1>3, <3>2 DEF g
      <4>2. tool' = [u \in Tools |-> tool'[u]] /\ \A u \in Tools : u # t => tool'[u] = tool[u]
        BY <1>2, <3>2
      <4>3. g.pc = "mkstemp"
        BY <2>7 DEF mkstemp, g
      <4>4. ToolKnown(h, copy, saved)
        BY <1>1, <4>3 DEF ToolKnown
      <4> HIDE DEF h
      <4>5. QED
        BY <2>1, <4>1, <4>2, <4>4
    <3>3. QED
      BY <2>7, <3>1, <3>2 DEF mkstemp
  <2>8. CASE write(t)
    <3>1. PICK left \in {"empty", "partial", "whole"} :
             tool' = [tool EXCEPT
                ![t].temp = File(left, tool[t].data),
                ![t].pc = IF left = "whole" THEN "rename" ELSE "over",
                ![t].exit = IF left = "whole" THEN @ ELSE "1"]
      BY <2>8 DEF write
    <3> DEFINE h == [pc |-> IF left = "whole" THEN "rename" ELSE "over", size |-> g.size,
                     data |-> g.data, temp |-> File(left, g.data),
                     exit |-> IF left = "whole" THEN g.exit ELSE "1"]
    <3>2. tool'[t] = h
      BY <1>2, <1>3, <3>1 DEF g
    <3>3. tool' = [u \in Tools |-> tool'[u]] /\ \A u \in Tools : u # t => tool'[u] = tool[u]
      BY <1>2, <3>1
    <3>4. g.pc = "write"
      BY <2>8 DEF write, g
    <3>5. ToolKnown(h, copy, saved)
      BY <1>1, <3>4 DEF ToolKnown
    <3> HIDE DEF h
    <3>6. QED
      BY <2>1, <3>2, <3>3, <3>5
  <2>9. CASE rename(t) /\ UNCHANGED saved
    <3>1. PICK code \in {"0", "1"} :
            /\ tool' = [tool EXCEPT ![t].pc = "over", ![t].temp = NoFile, ![t].exit = code]
            /\ IF code = "0" THEN saved' = [saved EXCEPT ![make_output_path(g.size)] = g.temp]
               ELSE UNCHANGED saved
      BY <2>9 DEF rename, g
    <3>2. g.pc = "rename"
      BY <2>9 DEF rename, g
    <3>3. make_output_path(g.size) \in Paths /\ g.temp = File("whole", copy)
      BY <1>1, <3>2 DEF ToolKnown
    <3>4. code = "0" => saved'[make_output_path(g.size)] = File("whole", copy)
      BY <1>2, <3>1, <3>3
    <3> DEFINE h == [pc |-> "over", size |-> g.size, data |-> g.data, temp |-> NoFile,
                     exit |-> code]
    <3>5. tool'[t] = h
      BY <1>2, <1>3, <3>1 DEF g
    <3>6. tool' = [u \in Tools |-> tool'[u]] /\ \A u \in Tools : u # t => tool'[u] = tool[u]
      BY <1>2, <3>1
    <3>7. ToolKnown(h, copy, saved)
      BY <1>4, <3>3, <3>4 DEF ToolKnown
    <3> HIDE DEF h
    <3>8. QED
      BY <2>1, <3>5, <3>6, <3>7
  <2>10. CASE KillTool(t)
    BY <2>2, <2>10 DEF KillTool
  <2>11. QED
    BY <1>4, <2>4, <2>5, <2>6, <2>7, <2>8, <2>9, <2>10 DEF run, WriteFile
<1>5. CASE ~(UNCHANGED saved)
  <2>1. /\ rename(t)
        /\ tool' = [tool EXCEPT ![t].pc = "over", ![t].temp = NoFile, ![t].exit = "0"]
        /\ saved' = [saved EXCEPT ![make_output_path(g.size)] = g.temp]
    BY <1>5 DEF run, WriteFile, GetLocalThumbnail, replied, refused, mkstemp, write, rename,
               KillTool
  <2> HIDE DEF g, copy
  <2>2. g.pc = "rename"
    BY <2>1 DEF rename, g
  <2>3. make_output_path(g.size) \in Paths /\ g.temp = File("whole", copy)
    BY <1>1, <2>2 DEF ToolKnown
  <2> DEFINE h == [pc |-> "over", size |-> g.size, data |-> g.data, temp |-> NoFile,
                   exit |-> "0"]
  <2>4. tool'[t] = h
    BY <1>2, <1>3, <2>1 DEF g
  <2>5. tool' = [u \in Tools |-> tool'[u]] /\ \A u \in Tools : u # t => tool'[u] = tool[u]
    BY <1>2, <2>1
  <2>6. /\ saved' = [p \in Paths |-> saved'[p]]
        /\ \A p \in Paths : saved'[p] \in {saved[p], File("whole", copy)}
        /\ saved'[make_output_path(g.size)] = File("whole", copy)
    BY <1>2, <2>1, <2>3
  <2>7. ToolKnown(h, copy, saved')
    BY <2>3, <2>6 DEF ToolKnown
  <2> HIDE DEF h
  <2>8. QED
    BY <1>1, <2>4, <2>5, <2>6, <2>7, OneToolChanges DEF copy
<1>6. QED
  BY <1>4, <1>5

(* While the job is not over there are no tools. *)
LEMMA WaitWhole ==
    ASSUME FilesWhole, job.pc # "over", UNCHANGED toolVars
    PROVE  FilesWhole'
<1>1. /\ tool' = tool /\ saved' = saved
      /\ \A t \in Tools : tool[t] = Unborn
      /\ \A p \in Paths : saved[p] = NoFile
  BY DEF FilesWhole, toolVars
<1>2. ToolKnown(Unborn, to_png(job'.data), saved')
  BY DEF ToolKnown, Unborn
<1>3. QED
  BY <1>1, <1>2 DEF FilesWhole

(* NoPartialImage follows. *)
LEMMA WholeImpliesNoPartial == VsTypes /\ VsProgress /\ FilesWhole => NoPartialImage
<1> SUFFICES ASSUME VsTypes, VsProgress, FilesWhole PROVE NoPartialImage
  OBVIOUS
<1>1. OutputIsWhole
  BY DEF OutputIsWhole, VsTypes, VsProgress
<1>2. ASSUME NEW t \in Tools, tool[t].exit = "0"
      PROVE  /\ saved[make_output_path(tool[t].size)] = File("whole", to_png(job.data))
             /\ tool[t].temp = NoFile
  BY <1>2 DEF FilesWhole, ToolKnown
<1>3. \A p \in Paths : saved[p].state \in {"absent", "whole"}
  BY DEF FilesWhole, NoFile, File
<1>4. SavedIsWhole
  BY <1>2, <1>3, PngIsPng DEF SavedIsWhole, File
<1>5. QED
  BY <1>1, <1>2, <1>4 DEF NoPartialImage, File
-----------------------------------------------------------------------------
LEMMA DecodedArt ==
    ASSUME NEW image \in decoded, image # Failed
    PROVE  IsImage(image) /\ image.size = ArtSize /\ image.size \in Nonempty
           /\ image.corners = Upright
<1>1. PICK d \in ArtData : image = load(d, NoSize)
  BY DEF decoded
<1>2. d.exif = 0 /\ d.alpha \in BOOLEAN /\ d.size = ArtSize /\ d.corners = Upright
  BY DEF ArtData
<1>3. ArtSize \in [w : Int, h : Int]
  BY DEF ArtSize, Dim
<1>4. QED
  BY <1>1, <1>2, <1>3, LoadUpright

(* Image::scale() and the encoding of what it returns. *)
LEMMA ScaledData ==
    ASSUME NEW i, IsImage(i), i.size \in Nonempty, NEW t \in Nonempty,
           NEW j, j = scale(i, t), NEW data, data = jpeg_or_png_data(j)
    PROVE  /\ j.corners = i.corners /\ data.size \in Nonempty
           /\ fitsIn(data.size, t) /\ fitsIn(data.size, i.size)
           /\ fitsIn(i.size, t) /\ i.alpha /\ i.has_alpha => data.alpha
<1> DEFINE s == i.size
<1>1. isValid(t) /\ fillIn(t, s) = t /\ t \in [w : Nat, h : Nat]
  BY DEF isValid, fillIn, Nonempty, Dim
<1>2. data.size = j.size /\ (j.has_alpha => data.alpha = j.alpha)
  BY DEF jpeg_or_png_data, png_data, jpeg_data
<1>3. CASE fitsIn(s, t)
  <2>1. j = i
    BY <1>1, <1>3 DEF scale
  <2>2. QED
    BY <1>2, <1>3, <2>1 DEF fitsIn, Nonempty
<1>4. CASE ~fitsIn(s, t)
  <2> DEFINE k == keepAspectRatio(s, t)
  <2>1. k \in [w : Nat, h : Nat] /\ fitsIn(k, t) /\ fitsIn(k, s)
    BY <1>1, <1>4, ScalesDown DEF Nonempty
  <2>2. j = [size |-> Dim(IF k.w = 0 THEN 1 ELSE k.w, IF k.h = 0 THEN 1 ELSE k.h),
             alpha |-> i.alpha, has_alpha |-> FALSE, corners |-> i.corners]
    BY <1>1, <1>4 DEF scale, scaledSize, Image
  <2> HIDE DEF k
  <2>3. j.size = [w |-> IF k.w = 0 THEN 1 ELSE k.w, h |-> IF k.h = 0 THEN 1 ELSE k.h]
        /\ j.corners = i.corners
    BY <2>2 DEF Dim
  <2>4. j.size \in Nonempty /\ fitsIn(j.size, t) /\ fitsIn(j.size, s)
    BY <2>1, <2>3 DEF Nonempty, fitsIn
  <2>5. QED
    BY <1>2, <1>4, <2>3, <2>4
<1>5. QED
  BY <1>3, <1>4
-----------------------------------------------------------------------------
(* The job: fetch() ends it, or returns a picture. *)
LEMMA JobEnds ==
    ASSUME JobKnown, NEW status \in {"hard_error", "not_found"}, End(status),
           UNCHANGED <<media, vs>>, job.type = "video" => vs.pc = "over"
    PROVE  /\ JobKnown' /\ Presentable'
           /\ job' = [job EXCEPT !.pc = "over", !.status = status]
<1>1. job' = [type |-> job.type, file |-> job.file, target |-> job.target, pc |-> "over",
              status |-> status, art |-> job.art, image |-> job.image, data |-> job.data]
  BY DEF End, JobKnown
<1>2. JobKnown'
  BY <1>1 DEF JobKnown
<1>3. Presentable'
  BY <1>1 DEF Presentable, Made
<1>4. QED
  BY <1>2, <1>3 DEF End

LEMMA JobFetched ==
    ASSUME JobKnown, job.pc \in {"fetch", "extract"}, NEW image, NEW art, Fetched(image, art),
           UNCHANGED <<media, vs>>, job.type = "video" => vs.pc = "over",
           image # Failed => Viewable(image)
    PROVE  /\ JobKnown' /\ Presentable' /\ job'.type = job.type /\ job'.file = job.file
           /\ \/ job'.pc = "scale" /\ job'.status = "none" /\ job'.art = art
              \/ job'.pc = "over" /\ job'.status = "hard_error"
<1>1. CASE image = Failed
  <2>1. End("hard_error")
    BY <1>1 DEF Fetched
  <2>2. JobKnown' /\ Presentable' /\ job' = [job EXCEPT !.pc = "over", !.status = "hard_error"]
    BY <2>1, JobEnds
  <2>3. QED
    BY <2>2 DEF JobKnown
<1>2. CASE image # Failed
  <2>1. job' = [type |-> job.type, file |-> job.file, target |-> job.target, pc |-> "scale",
                status |-> "none", art |-> art, image |-> image, data |-> job.data]
    BY <1>2 DEF Fetched, JobKnown
  <2>2. Viewable(job.image)'
    BY <1>2, <2>1 DEF Viewable, SourceSize, HighThumbnail
  <2>3. JobKnown'
    BY <2>1, <2>2 DEF JobKnown
  <2>4. Presentable'
    BY <2>1 DEF Presentable, Made
  <2>5. QED
    BY <2>1, <2>3, <2>4
<1>3. QED
  BY <1>1, <1>2

LEMMA ImageFetched ==
    ASSUME JobKnown, fetch_image
    PROVE  JobKnown' /\ Presentable' /\ job'.type = "image"
<1> DEFINE d == job.file
           t == job.target
           i == load(d, t)
<1>1. job.pc = "fetch" /\ job.type = "image" /\ Fetched(i, Empty) /\ UNCHANGED <<media, vs>>
  BY DEF fetch_image
<1>2. d \in Pictures /\ t \in Nonempty
  BY <1>1, TargetsAssumption DEF JobKnown, Nonempty, Positive
<1>3. /\ d.size \in Nonempty /\ d.alpha \in BOOLEAN
      /\ d.exif \in Nat /\ d.corners = StoredCorners(d.exif)
      /\ d.small = NoSize \/ (d.small \in Nonempty /\ fitsIn(d.small, d.size))
  BY <1>2, PicturesAssumption DEF WellFormed, Nonempty, Positive
<1>4. i # Failed => Viewable(i)
  <2> SUFFICES ASSUME i # Failed PROVE Viewable(i)
    OBVIOUS
  <2>1. SourceSize = SeenSize(d)
    BY <1>1 DEF SourceSize
  <2>2. HighThumbnail \/ d.small.w >= d.small.h
    BY <1>1, <1>3 DEF HighThumbnail, highThumbnail, NoSize, Dim, Nonempty
  <2> HIDE DEF d, t
  <2>3. /\ IsImage(i) /\ i.size \in Nonempty
        /\ d.small.w >= d.small.h => fitsIn(i.size, SourceSize)
        /\ i.corners = correctOrientation(d.exif, d.corners)
        /\ d.small = NoSize /\ d.alpha => i.alpha /\ i.has_alpha /\ fitsIn(i.size, t)
    BY <1>2, <1>3, <2>1, LoadFile
  <2>4. i.corners = Upright
    BY <1>3, <2>3, OrientationUndone
  <2> HIDE DEF i
  <2>5. QED
    BY <2>2, <2>3, <2>4 DEF Viewable, Nonempty, Positive, d, t
<1> HIDE DEF i
<1>5. QED
  BY <1>1, <1>4, JobFetched

LEMMA AudioFetched ==
    ASSUME JobKnown, fetch_audio
    PROVE  /\ JobKnown' /\ Presentable' /\ job.type = "audio"
           /\ job'.type = job.type /\ job'.file = job.file
           /\ \/ job'.pc = "over" /\ job'.status = "hard_error"
              \/ /\ job'.pc = "over" /\ job'.status = "not_found"
                 /\ job.file.container \in KnownContainers
                 /\ extract_local_album_art(job.file) = Empty
              \/ /\ job'.pc = "scale" /\ job'.status = "none"
                 /\ job.file.container \in KnownContainers
                 /\ job'.art = extract_local_album_art(job.file)
<1> DEFINE art == extract_local_album_art(job.file)
<1>1. job.pc = "fetch" /\ job.type = "audio" /\ UNCHANGED <<media, vs>>
  BY DEF fetch_audio
<1>2. CASE job.file.container \notin KnownContainers
  <2>1. End("hard_error")
    BY <1>2 DEF fetch_audio
  <2>2. JobKnown' /\ Presentable' /\ job' = [job EXCEPT !.pc = "over", !.status = "hard_error"]
    BY <1>1, <2>1, JobEnds
  <2>3. QED
    BY <1>1, <2>2 DEF JobKnown
<1>3. CASE job.file.container \in KnownContainers /\ art = Empty
  <2>1. End("not_found")
    BY <1>3 DEF fetch_audio
  <2>2. JobKnown' /\ Presentable' /\ job' = [job EXCEPT !.pc = "over", !.status = "not_found"]
    BY <1>1, <2>1, JobEnds
  <2>3. QED
    BY <1>1, <1>3, <2>2 DEF JobKnown
<1>4. CASE job.file.container \in KnownContainers /\ art # Empty
  <2>1. PICK image \in decoded : Fetched(image, art)
    BY <1>4 DEF fetch_audio
  <2>2. image # Failed => Viewable(image)
    <3>1. SourceSize = ArtSize
      BY <1>1 DEF SourceSize
    <3>2. image # Failed => IsImage(image) /\ image.size = ArtSize /\ image.size \in Nonempty
                            /\ image.corners = Upright
      BY DecodedArt
    <3>3. QED
      BY <1>1, <3>1, <3>2 DEF Viewable, fitsIn, Nonempty, Positive
  <2> HIDE DEF art
  <2>3. /\ JobKnown' /\ Presentable' /\ job'.type = job.type /\ job'.file = job.file
        /\ \/ job'.pc = "scale" /\ job'.status = "none" /\ job'.art = art
           \/ job'.pc = "over" /\ job'.status = "hard_error"
    BY <1>1, <2>1, <2>2, JobFetched
  <2>4. QED
    BY <1>1, <1>4, <2>3 DEF art
<1>5. QED
  BY <1>2, <1>3, <1>4

LEMMA VideoFetched ==
    ASSUME JobKnown, VsTypes, VsProgress, FrameTurned, fetch_video
    PROVE  JobKnown' /\ Presentable' /\ job'.type = "video"
<1>1. job.pc = "extract" /\ vs.pc = "over" /\ UNCHANGED <<media, vs>> /\ job.type = "video"
  BY DEF fetch_video, JobKnown
<1>2. CASE End("hard_error")
  <2>1. JobKnown' /\ Presentable' /\ job' = [job EXCEPT !.pc = "over", !.status = "hard_error"]
    BY <1>1, <1>2, JobEnds
  <2>2. QED
    BY <1>1, <2>1 DEF JobKnown
<1>3. CASE vs.exit = "0" /\ vs.frame # Failed /\ ~End("hard_error")
  <2> DEFINE d == ImageData(vs.frame.size, FALSE, FALSE, FALSE, 0, vs.frame.corners, NoSize)
             i == load(d, NoSize)
  <2>1. Fetched(i, Empty)
    BY <1>3 DEF fetch_video
  <2>2. d.exif = 0 /\ d.alpha \in BOOLEAN /\ d.size = vs.frame.size /\ d.corners = vs.frame.corners
    BY DEF ImageData
  <2>3. d.size \in [w : Int, h : Int]
    BY <2>2 DEF FrameTurned, IsImage
  <2>4. i # Failed => Viewable(i)
    <3> HIDE DEF d
    <3>1. i # Failed => IsImage(i) /\ i.size = d.size /\ i.size \in Nonempty
                        /\ i.corners = d.corners
      BY <2>2, <2>3, LoadUpright
    <3>2. SourceSize = d.size
      BY <1>1, <1>3, <2>2 DEF SourceSize
    <3>3. media.memory /\ media.turn # "flip-rotate-0" => d.corners = Upright
      BY <1>3, <2>2 DEF FrameTurned
    <3> HIDE DEF i
    <3>4. QED
      BY <1>1, <3>1, <3>2, <3>3 DEF Viewable, fitsIn, Nonempty, Positive
  <2> HIDE DEF i
  <2>5. QED
    BY <1>1, <2>1, <2>4, JobFetched
<1>4. CASE vs.exit = "0" /\ vs.frame = Failed /\ ~End("hard_error")
  <2>1. PICK image \in decoded : Fetched(image, Empty)
    BY <1>4 DEF fetch_video
  <2>2. image # Failed => Viewable(image)
    <3>1. SourceSize = ArtSize
      BY <1>1, <1>4 DEF SourceSize
    <3>2. image # Failed => IsImage(image) /\ image.size = ArtSize /\ image.size \in Nonempty
                            /\ image.corners = Upright
      BY DecodedArt
    <3>3. QED
      BY <1>1, <3>1, <3>2 DEF Viewable, fitsIn, Nonempty, Positive
  <2>3. QED
    BY <1>1, <2>1, <2>2, JobFetched
<1>5. QED
  BY <1>2, <1>3, <1>4 DEF fetch_video

LEMMA JobScaled ==
    ASSUME JobKnown, FrameTurned, scale_and_encode
    PROVE  /\ JobKnown' /\ Presentable' /\ job'.type = job.type /\ job'.file = job.file
           /\ job'.status = "downloaded" /\ job'.art = job.art
<1> DEFINE i == job.image
           t == job.target
           j == scale(i, t)
           data == jpeg_or_png_data(j)
<1>1. job.pc = "scale" /\ Viewable(i) /\ t \in Nonempty /\ UNCHANGED <<media, vs>>
  BY TargetsAssumption DEF scale_and_encode, JobKnown, Nonempty, Positive
<1>2. job' = [type |-> job.type, file |-> job.file, target |-> t, pc |-> "over",
              status |-> "downloaded", art |-> job.art, image |-> j, data |-> data]
  BY DEF scale_and_encode, JobKnown
<1>3. IsImage(i) /\ i.size \in Nonempty
  BY <1>1 DEF Viewable, Nonempty, Positive
<1> HIDE DEF j, data
<1>4. /\ j.corners = i.corners /\ data.size \in Nonempty
      /\ fitsIn(data.size, t) /\ fitsIn(data.size, i.size)
      /\ fitsIn(i.size, t) /\ i.alpha /\ i.has_alpha => data.alpha
  <2> HIDE DEF i, t
  <2>1. QED
    BY <1>1, <1>3, ScaledData DEF j, data
<1>5. JobKnown'
  BY <1>1, <1>2 DEF JobKnown
<1>6. HighThumbnail \/ fitsIn(data.size, SourceSize)
  <2>1. SourceSize.w \in Int /\ SourceSize.h \in Int
    <3>1. CASE job.type = "image"
      <4>1. job.file.size \in [w : Positive, h : Positive]
        BY <3>1, PicturesAssumption DEF JobKnown, WellFormed
      <4>2. SourceSize \in {job.file.size, transpose(job.file.size)}
        BY <3>1 DEF SourceSize, SeenSize
      <4>3. QED
        BY <4>1, <4>2 DEF transpose, Dim, Positive
    <3>2. CASE job.type # "image"
      <4>1. SourceSize \in {vs.frame.size, ArtSize}
        BY <3>2 DEF SourceSize
      <4>2. QED
        BY <4>1 DEF FrameTurned, IsImage, ArtSize, Dim
    <3>3. QED
      BY <3>1, <3>2
  <2>2. QED
    BY <1>1, <1>3, <1>4, <2>1 DEF Viewable, fitsIn, Nonempty
<1>7. Presentable'
  <2>1. SourceSize' = SourceSize /\ HighThumbnail' = HighThumbnail
    BY <1>1, <1>2 DEF SourceSize, HighThumbnail
  <2>2. data.size.w >= 1 /\ data.size.h >= 1
    BY <1>4 DEF Nonempty
  <2>3. QED
    BY <1>1, <1>2, <1>4, <1>6, <2>1, <2>2 DEF Presentable, Viewable
<1>8. QED
  BY <1>2, <1>5, <1>7

LEMMA VideoBegins ==
    ASSUME JobKnown, VsTypes, VsProgress, FrameTurned, CoverTaken, download_video
    PROVE  /\ JobKnown' /\ Presentable' /\ VsTypes' /\ VsProgress' /\ FrameTurned' /\ CoverTaken'
           /\ job'.type = "video" /\ job.pc # "over" /\ UNCHANGED toolVars
<1>1. /\ job.pc = "fetch" /\ job.type = "video" /\ UNCHANGED <<media, toolVars>> /\ vs = Idle
      /\ vs' = [vs EXCEPT !.pc = "main"] /\ job' = [job EXCEPT !.pc = "extract"]
  BY DEF download_video, JobKnown
<1>2. vs' = [Idle EXCEPT !.pc = "main"]
  BY <1>1
<1>3. job' = [type |-> job.type, file |-> job.file, target |-> job.target, pc |-> "extract",
              status |-> job.status, art |-> job.art, image |-> job.image, data |-> job.data]
  BY <1>1 DEF JobKnown
<1>4. JobKnown' /\ Presentable'
  BY <1>1, <1>3 DEF JobKnown, Presentable, Made
<1>5. vs' = [pc |-> "main", sample |-> NoSample, still |-> "none", frame |-> Failed,
             mapped |-> "none", fd |-> "none", sent |-> 0, written |-> 0, exit |-> "none"]
  BY <1>2 DEF Idle
<1>6. VsTypes' /\ VsProgress'
  BY <1>5 DEF VsTypes, VsProgress, VsPlaces, BeforeFrame
<1>7. FrameTurned' /\ CoverTaken'
  BY <1>1, <1>5 DEF FrameTurned, CoverTaken, BeforeFrame, Idle
<1>8. QED
  BY <1>1, <1>3, <1>4, <1>6, <1>7

(* vs-thumb runs only for a video, while fetch() waits for it. *)
LEMMA VideoRuns ==
    ASSUME JobKnown, VsTypes, VsProgress, VsThumbStep, UNCHANGED job
    PROVE  /\ media \in Videos /\ job.pc = "extract"
           /\ media' = media => JobKnown' /\ Presentable'
<1>1. vs.pc \notin {"idle", "over"}
  BY DEF VsThumbStep, check_args, construct, set_urls, extract_cover_art, convert_sample,
         still_frame, rotate_frame, open_output, write_output, Killed
<1>2. vs # Idle
  BY <1>1 DEF Idle
<1>3. media \in Videos /\ job.pc = "extract"
  BY <1>1, <1>2 DEF JobKnown
<1>4. QED
  BY <1>3 DEF JobKnown, Presentable, Made

LEMMA MediaInitInv == MediaInit => MediaInv
<1> SUFFICES ASSUME MediaInit PROVE MediaInv
  OBVIOUS
<1>1. vs = [pc |-> "idle", sample |-> NoSample, still |-> "none", frame |-> Failed,
            mapped |-> "none", fd |-> "none", sent |-> 0, written |-> 0, exit |-> "none"]
  BY DEF MediaInit, Idle
<1>2. VsTypes /\ VsProgress
  BY <1>1 DEF VsTypes, VsProgress, VsPlaces, BeforeFrame
<1>3. IsImage(Failed)
  BY DEF IsImage, Failed, Image, NoSize, Dim
<1>4. FrameTurned /\ CoverTaken
  BY <1>1, <1>3 DEF FrameTurned, CoverTaken, BeforeFrame
<1>5. JobKnown /\ Presentable /\ ArtTaken /\ job.pc = "fetch"
  BY DEF MediaInit, Job, JobKnown, Presentable, Made, ArtTaken
<1>6. FilesWhole
  <2>1. tool = [t \in Tools |-> Unborn] /\ saved = [p \in Paths |-> NoFile]
    BY DEF MediaInit, InitTools
  <2>2. ToolKnown(Unborn, to_png(job.data), saved)
    BY DEF ToolKnown, Unborn
  <2>3. QED
    BY <2>1, <2>2 DEF FilesWhole
<1>7. QED
  BY <1>2, <1>4, <1>5, <1>6 DEF MediaInv
-----------------------------------------------------------------------------
(* The loops over the pictures of a tag.  A set of indices has a least and *)
(* a greatest one.                                                         *)
LEMMA MinOfIndices ==
    ASSUME NEW S, S \subseteq Nat, S # {}
    PROVE  Min(S) \in S /\ \A x \in S : Min(S) <= x
<1>1. PICK z \in S : \A y \in S : ~(<<y, z>> \in OpToRel(<, Nat))
  BY WFMin, NatLessThanWellFounded, Zenon
<1>2. \A y \in S : z <= y
  <2> SUFFICES ASSUME NEW y \in S, ~(z <= y) PROVE FALSE
    OBVIOUS
  <2>1. y \in Nat /\ z \in Nat /\ y < z
    OBVIOUS
  <2>2. <<y, z>> \in OpToRel(<, Nat)
    BY <2>1 DEF OpToRel
  <2>3. QED
    BY <1>1, <2>2
<1>3. QED
  BY <1>2 DEF Min

LEMMA MaxOfIndices ==
    ASSUME NEW n \in Nat, NEW S, S \subseteq 1..n, S # {}
    PROVE  Max(S) \in S /\ \A x \in S : x <= Max(S)
<1> DEFINE T == {b \in Nat : \A x \in S : x <= b}
<1>1. n \in T
  OBVIOUS
<1>2. T \subseteq Nat /\ T # {}
  BY <1>1
<1> DEFINE m == Min(T)
<1>3. m \in T /\ \A b \in T : m <= b
  BY <1>2, MinOfIndices
<1> HIDE DEF m
<1>4. m \in S
  <2> SUFFICES ASSUME m \notin S PROVE FALSE
    OBVIOUS
  <2>1. PICK x \in S : TRUE
    OBVIOUS
  <2>2. m \in Nat /\ m >= 1 /\ \A y \in S : y <= m - 1
    BY <1>3, <2>1
  <2>3. m - 1 \in T
    BY <2>2
  <2>4. QED
    BY <1>3, <2>2, <2>3
<1>5. Max(S) \in S /\ \A x \in S : Max(S) >= x
  BY <1>3, <1>4 DEF Max
<1>6. QED
  BY <1>5

(* A larger index does not change the least one. *)
LEMMA MinKept ==
    ASSUME NEW S, S \subseteq Nat, S # {}, NEW m \in Nat, \A x \in S : x <= m,
           NEW T, T \in {S, S \union {m}}
    PROVE  Min(T) = Min(S)
<1>1. Min(S) \in S /\ \A x \in S : Min(S) <= x
  BY MinOfIndices
<1>2. T \subseteq Nat /\ T # {} /\ S \subseteq T
  OBVIOUS
<1>3. Min(T) \in T /\ \A x \in T : Min(T) <= x
  BY <1>2, MinOfIndices
<1>4. Min(T) <= Min(S) /\ Min(S) <= Min(T)
  BY <1>1, <1>2, <1>3
<1>5. Min(T) \in Nat /\ Min(S) \in Nat
  BY <1>1, <1>2, <1>3
<1>6. \A a, b \in Nat : a <= b /\ b <= a => a = b
  OBVIOUS
<1>7. QED
  BY <1>4, <1>5, <1>6

LEMMA MinOfOne ==
    ASSUME NEW m \in Nat
    PROVE  Min({m}) = m
  BY MinOfIndices

(* What holds for no index and for the next one holds for all. *)
LEMMA AllIndices ==
    ASSUME NEW n \in Nat, NEW T, 0 \in T, \A k \in 1..n : k - 1 \in T => k \in T
    PROVE  n \in T
<1> DEFINE S == {k \in 0..n : k \notin T}
<1> SUFFICES ASSUME n \notin T PROVE FALSE
  OBVIOUS
<1>1. S \subseteq Nat /\ n \in S
  OBVIOUS
<1> DEFINE m == Min(S)
<1>2. m \in S /\ \A k \in S : m <= k
  BY <1>1, MinOfIndices
<1> HIDE DEF m
<1>3. m \in 1..n /\ m - 1 \in 0..n /\ m - 1 \notin S
  BY <1>2
<1>4. m - 1 \in T
  BY <1>3
<1>5. QED
  BY <1>2, <1>3, <1>4

(* The loop of extract_flac_art() and MpegExtractor, for any of the        *)
(* indices: the first front cover, else the first other one with data.     *)
FrontPics(ps, s) == {i \in s : ps[i].type = "front"}
OtherPics(ps, s) == {i \in s : ps[i].type = "other" /\ ps[i].data # Empty}
ArtOf(ps, s) ==
    IF FrontPics(ps, s) # {}
    THEN [art |-> ps[Min(FrontPics(ps, s))].data, found |-> TRUE]
    ELSE [art |-> IF OtherPics(ps, s) # {} THEN ps[Min(OtherPics(ps, s))].data ELSE Empty,
          found |-> FALSE]
ArtIter(ps, g) ==
    g = [s \in SUBSET (DOMAIN ps) |->
           IF s = {} THEN [art |-> Empty, found |-> FALSE]
           ELSE consider(g[s \ {Max(s)}], ps[Max(s)])]

LEMMA LoopIsIter ==
    ASSUME NEW ps
    PROVE  loop(ps) = (CHOOSE g : ArtIter(ps, g))[DOMAIN ps].art
  BY DEF loop, FoldLeft, MapThenFoldSet, ArtIter

LEMMA ArtStep ==
    ASSUME NEW ps, NEW n \in Nat, NEW s, s \subseteq 1..n, s # {}
    PROVE  ArtOf(ps, s) = consider(ArtOf(ps, s \ {Max(s)}), ps[Max(s)])
<1> DEFINE m == Max(s)
           r == s \ {m}
           pic == ps[m]
           state == ArtOf(ps, r)
<1>0. m \in s /\ \A x \in s : x <= m
  BY MaxOfIndices
<1> HIDE DEF m
<1>1. m \in s /\ m \in Nat /\ \A x \in s : x <= m
  BY <1>0
<1>2. s = r \union {m} /\ r \subseteq Nat /\ \A x \in r : x <= m
  BY <1>1
<1> HIDE DEF r
<1>3. /\ FrontPics(ps, r) \subseteq r /\ OtherPics(ps, r) \subseteq r
      /\ FrontPics(ps, s) = FrontPics(ps, r) \union (IF pic.type = "front" THEN {m} ELSE {})
      /\ OtherPics(ps, s) = OtherPics(ps, r) \union
                              (IF pic.type = "other" /\ pic.data # Empty THEN {m} ELSE {})
  BY <1>2 DEF FrontPics, OtherPics
<1>4. CASE FrontPics(ps, r) # {}
  <2>1. Min(FrontPics(ps, s)) = Min(FrontPics(ps, r)) /\ FrontPics(ps, s) # {}
    <3>1. FrontPics(ps, s) \in {FrontPics(ps, r), FrontPics(ps, r) \union {m}}
      BY <1>3
    <3>2. FrontPics(ps, r) \subseteq Nat /\ \A x \in FrontPics(ps, r) : x <= m
      BY <1>2, <1>3
    <3>3. QED
      BY <1>1, <1>3, <1>4, <3>1, <3>2, MinKept
  <2>2. ArtOf(ps, s) = state /\ state.found
    BY <1>4, <2>1 DEF ArtOf
  <2>3. QED
    BY <2>2 DEF consider, m, r
<1>5. CASE FrontPics(ps, r) = {} /\ pic.type = "front"
  <2>1. FrontPics(ps, s) = {m}
    BY <1>3, <1>5
  <2>2. ArtOf(ps, s) = [art |-> pic.data, found |-> TRUE]
    BY <1>1, <2>1, MinOfOne DEF ArtOf
  <2>3. ~state.found
    BY <1>5 DEF ArtOf
  <2> HIDE DEF state, pic
  <2>4. consider(state, pic) = [art |-> pic.data, found |-> TRUE]
    BY <1>5, <2>3 DEF consider
  <2>5. QED
    BY <2>2, <2>4 DEF state, pic, m, r
<1>6. CASE FrontPics(ps, r) = {} /\ pic.type # "front"
  <2>1. FrontPics(ps, s) = {}
    BY <1>3, <1>6
  <2>2. CASE OtherPics(ps, r) # {}
    <3>1. Min(OtherPics(ps, s)) = Min(OtherPics(ps, r)) /\ OtherPics(ps, s) # {}
      <4>1. OtherPics(ps, s) \in {OtherPics(ps, r), OtherPics(ps, r) \union {m}}
        BY <1>3
      <4>2. OtherPics(ps, r) \subseteq Nat /\ \A x \in OtherPics(ps, r) : x <= m
        BY <1>2, <1>3
      <4>3. QED
        BY <1>1, <1>3, <2>2, <4>1, <4>2, MinKept
    <3>2. Min(OtherPics(ps, r)) \in OtherPics(ps, r)
      BY <1>2, <1>3, <2>2, MinOfIndices
    <3>3. ArtOf(ps, s) = state /\ ~state.found /\ state.art # Empty
      BY <1>6, <2>1, <2>2, <3>1, <3>2 DEF ArtOf, OtherPics
    <3> HIDE DEF state, pic
    <3>4. consider(state, pic) = state
      BY <1>6, <3>3 DEF consider
    <3>5. QED
      BY <3>3, <3>4 DEF state, pic, m, r
  <2>3. CASE OtherPics(ps, r) = {}
    <3>1. state = [art |-> Empty, found |-> FALSE]
      BY <1>6, <2>3 DEF ArtOf
    <3>2. ArtOf(ps, s) = IF pic.type = "other" THEN [art |-> pic.data, found |-> FALSE]
                         ELSE [art |-> Empty, found |-> FALSE]
      <4>1. CASE pic.type = "other" /\ pic.data # Empty
        <5>1. OtherPics(ps, s) = {m}
          BY <1>3, <2>3, <4>1
        <5>2. QED
          BY <1>1, <2>1, <4>1, <5>1, MinOfOne DEF ArtOf
      <4>2. CASE ~(pic.type = "other" /\ pic.data # Empty)
        <5>1. OtherPics(ps, s) = {}
          BY <1>3, <2>3, <4>2
        <5>2. QED
          BY <2>1, <4>2, <5>1 DEF ArtOf
      <4>3. QED
        BY <4>1, <4>2
    <3> HIDE DEF state, pic
    <3>3. consider(state, pic) = IF pic.type = "other" THEN [art |-> pic.data, found |-> FALSE]
                                 ELSE [art |-> Empty, found |-> FALSE]
      <4>1. ~state.found /\ state.art = Empty
        BY <3>1
      <4>2. ASSUME NEW e, e = [state EXCEPT !.art = pic.data]
            PROVE  e = [art |-> pic.data, found |-> FALSE]
        BY <3>1, <4>2
      <4>3. CASE pic.type = "other"
        <5>1. consider(state, pic) = [state EXCEPT !.art = pic.data]
          BY <4>1, <4>3 DEF consider
        <5>2. QED
          BY <4>2, <4>3, <5>1
      <4>4. CASE pic.type # "other"
        BY <1>6, <3>1, <4>1, <4>4 DEF consider
      <4>5. QED
        BY <4>3, <4>4
    <3>4. QED
      BY <3>2, <3>3 DEF state, pic, m, r
  <2>4. QED
    BY <2>2, <2>3
<1>7. QED
  BY <1>4, <1>5, <1>6

(* The indices without the greatest one. *)
LEMMA Prefix ==
    ASSUME NEW k \in Nat \ {0}
    PROVE  (1..k) \ {Max(1..k)} = 1..(k - 1) /\ Max(1..k) = k /\ 1..k # {}
<1>1. 1..k # {}
  OBVIOUS
<1>2. Max(1..k) \in 1..k /\ \A x \in 1..k : x <= Max(1..k)
  BY <1>1, MaxOfIndices
<1>3. Max(1..k) = k
  BY <1>2
<1>4. QED
  BY <1>1, <1>3

(* So it returns for all of them. *)
LEMMA LoopIsArtOf ==
    ASSUME NEW ps, NEW n \in Nat, DOMAIN ps = 1..n
    PROVE  loop(ps) = ArtOf(ps, 1..n).art
<1> DEFINE h == [s \in SUBSET (DOMAIN ps) |-> ArtOf(ps, s)]
           g == CHOOSE f : ArtIter(ps, f)
<1>0. ArtOf(ps, {}) = [art |-> Empty, found |-> FALSE]
  BY DEF ArtOf, FrontPics, OtherPics
<1>1. ArtIter(ps, h)
  <2>1. ASSUME NEW s \in SUBSET (DOMAIN ps)
        PROVE  h[s] = IF s = {} THEN [art |-> Empty, found |-> FALSE]
                      ELSE consider(h[s \ {Max(s)}], ps[Max(s)])
    <3>1. CASE s = {}
      BY <1>0, <3>1
    <3>2. CASE s # {}
      <4>1. h[s] = ArtOf(ps, s) /\ h[s \ {Max(s)}] = ArtOf(ps, s \ {Max(s)})
        OBVIOUS
      <4>2. ArtOf(ps, s) = consider(ArtOf(ps, s \ {Max(s)}), ps[Max(s)])
        BY <3>2, ArtStep
      <4>3. QED
        BY <3>2, <4>1, <4>2
    <3>3. QED
      BY <3>1, <3>2
  <2>2. QED
    BY <2>1 DEF ArtIter
<1>2. ArtIter(ps, g)
  BY <1>1
<1> HIDE DEF g, h
<1> DEFINE T == {k \in 0..n : g[1..k] = ArtOf(ps, 1..k)}
<1>3. 0 \in T
  <2>1. 1..0 = {}
    OBVIOUS
  <2>2. g[{}] = [art |-> Empty, found |-> FALSE]
    BY <1>2 DEF ArtIter
  <2>3. g[1..0] = ArtOf(ps, 1..0)
    BY <1>0, <2>1, <2>2
  <2>4. QED
    BY <2>3
<1>4. ASSUME NEW k \in 1..n, k - 1 \in T PROVE k \in T
  <2>1. (1..k) \ {Max(1..k)} = 1..(k - 1) /\ Max(1..k) = k /\ 1..k # {}
    <3>1. k \in Nat \ {0}
      OBVIOUS
    <3>2. QED
      BY <3>1, Prefix
  <2>2. 1..k \subseteq 1..n /\ 1..k \in SUBSET (DOMAIN ps)
    OBVIOUS
  <2>3. g[1..k] = consider(g[(1..k) \ {Max(1..k)}], ps[Max(1..k)])
    BY <1>2, <2>1, <2>2 DEF ArtIter
  <2>4. ArtOf(ps, 1..k) = consider(ArtOf(ps, (1..k) \ {Max(1..k)}), ps[Max(1..k)])
    BY <2>1, <2>2, ArtStep
  <2>5. g[1..(k - 1)] = ArtOf(ps, 1..(k - 1))
    BY <1>4
  <2>6. g[1..k] = ArtOf(ps, 1..k)
    BY <2>1, <2>3, <2>4, <2>5
  <2>7. QED
    BY <2>6
<1>5. n \in T
  BY <1>3, <1>4, AllIndices
<1>6. QED
  BY <1>5, LoopIsIter DEF g

(* find_cover(), in the same way. *)
TagsOf(types, s, type) == {i \in s : types[i] = type}
CoverOf(types, s) ==
    IF TagsOf(types, s, "front") # {}
    THEN [found |-> TRUE, sample |-> Min(TagsOf(types, s, "front"))]
    ELSE [found |-> FALSE,
          sample |-> IF TagsOf(types, s, "undefined") # {}
                     THEN Min(TagsOf(types, s, "undefined")) ELSE 0]
CoverIter(types, g) ==
    g = [s \in SUBSET (DOMAIN types) |->
           IF s = {} THEN [found |-> FALSE, sample |-> 0]
           ELSE consider_tag(g[s \ {Max(s)}], [i \in DOMAIN types |-> i][Max(s)],
                             types[[i \in DOMAIN types |-> i][Max(s)]])]

LEMMA FindIsIter ==
    ASSUME NEW types
    PROVE  find_cover(types) = (CHOOSE g : CoverIter(types, g))[DOMAIN types]
<1>1. DOMAIN [i \in DOMAIN types |-> i] = DOMAIN types
  OBVIOUS
<1>2. QED
  BY <1>1 DEF find_cover, FoldLeftDomain, FoldLeft, MapThenFoldSet, CoverIter

LEMMA CoverStep ==
    ASSUME NEW types, NEW n \in Nat, NEW s, s \subseteq 1..n, s # {}
    PROVE  CoverOf(types, s) = consider_tag(CoverOf(types, s \ {Max(s)}), Max(s), types[Max(s)])
<1> DEFINE m == Max(s)
           r == s \ {m}
           state == CoverOf(types, r)
           Tags(type) == TagsOf(types, r, type)
<1>0. m \in s /\ \A x \in s : x <= m
  BY MaxOfIndices
<1> HIDE DEF m
<1>1. m \in s /\ m \in Nat /\ m # 0 /\ \A x \in s : x <= m
  BY <1>0
<1>2. s = r \union {m} /\ r \subseteq Nat /\ 0 \notin r /\ \A x \in r : x <= m
  BY <1>1
<1> HIDE DEF r
<1>3. ASSUME NEW type
      PROVE  /\ TagsOf(types, r, type) \subseteq r
             /\ TagsOf(types, s, type) = TagsOf(types, r, type) \union
                                           (IF types[m] = type THEN {m} ELSE {})
  BY <1>2 DEF TagsOf
<1>4. ASSUME NEW type, TagsOf(types, r, type) # {}
      PROVE  /\ Min(TagsOf(types, s, type)) = Min(TagsOf(types, r, type))
             /\ TagsOf(types, s, type) # {} /\ Min(TagsOf(types, r, type)) # 0
  <2>1. TagsOf(types, s, type) \in {TagsOf(types, r, type), TagsOf(types, r, type) \union {m}}
    BY <1>3
  <2>2. TagsOf(types, r, type) \subseteq Nat /\ \A x \in TagsOf(types, r, type) : x <= m
    BY <1>2, <1>3
  <2>3. Min(TagsOf(types, r, type)) \in TagsOf(types, r, type)
    BY <1>4, <2>2, MinOfIndices
  <2>4. QED
    BY <1>1, <1>2, <1>3, <1>4, <2>1, <2>2, <2>3, MinKept
<1>5. ASSUME NEW type, TagsOf(types, r, type) = {}
      PROVE  TagsOf(types, s, type) = IF types[m] = type THEN {m} ELSE {}
  BY <1>3, <1>5
<1>6. CASE TagsOf(types, r, "front") # {}
  <2>1. CoverOf(types, s) = state /\ state.found
    BY <1>4, <1>6 DEF CoverOf
  <2>2. QED
    BY <2>1 DEF consider_tag, m, r
<1>7. CASE TagsOf(types, r, "front") = {} /\ types[m] = "front"
  <2>1. TagsOf(types, s, "front") = {m}
    BY <1>5, <1>7
  <2>2. CoverOf(types, s) = [found |-> TRUE, sample |-> m]
    BY <1>1, <2>1, MinOfOne DEF CoverOf
  <2>3. ~state.found
    BY <1>7 DEF CoverOf
  <2> HIDE DEF state
  <2>4. consider_tag(state, m, types[m]) = [found |-> TRUE, sample |-> m]
    BY <1>7, <2>3 DEF consider_tag
  <2>5. QED
    BY <2>2, <2>4 DEF state, m, r
<1>8. CASE TagsOf(types, r, "front") = {} /\ types[m] # "front"
  <2>1. TagsOf(types, s, "front") = {}
    BY <1>5, <1>8
  <2>2. CASE TagsOf(types, r, "undefined") # {}
    <3>1. CoverOf(types, s) = state /\ ~state.found /\ state.sample # 0
      BY <1>4, <1>8, <2>1, <2>2 DEF CoverOf
    <3> HIDE DEF state
    <3>2. consider_tag(state, m, types[m]) = state
      BY <1>8, <3>1 DEF consider_tag
    <3>3. QED
      BY <3>1, <3>2 DEF state, m, r
  <2>3. CASE TagsOf(types, r, "undefined") = {}
    <3>1. state = [found |-> FALSE, sample |-> 0]
      BY <1>8, <2>3 DEF CoverOf
    <3>2. CoverOf(types, s) = [found |-> FALSE, sample |-> IF types[m] = "undefined" THEN m ELSE 0]
      BY <1>1, <1>5, <2>1, <2>3, MinOfOne DEF CoverOf
    <3>3. ~state.found /\ state.sample = 0
      BY <3>1
    <3> HIDE DEF state
    <3>4. consider_tag(state, m, types[m]) =
            [found |-> FALSE, sample |-> IF types[m] = "undefined" THEN m ELSE 0]
      BY <1>8, <3>1, <3>3 DEF consider_tag
    <3>5. QED
      BY <3>2, <3>4 DEF state, m, r
  <2>4. QED
    BY <2>2, <2>3
<1>9. QED
  BY <1>6, <1>7, <1>8

LEMMA FindIsCoverOf ==
    ASSUME NEW types, NEW n \in Nat, DOMAIN types = 1..n
    PROVE  find_cover(types) = CoverOf(types, 1..n)
<1> DEFINE h == [s \in SUBSET (DOMAIN types) |-> CoverOf(types, s)]
           g == CHOOSE f : CoverIter(types, f)
<1>0. CoverOf(types, {}) = [found |-> FALSE, sample |-> 0]
  BY DEF CoverOf, TagsOf
<1>1. ASSUME NEW s \in SUBSET (DOMAIN types), s # {}
      PROVE  Max(s) \in DOMAIN types /\ [i \in DOMAIN types |-> i][Max(s)] = Max(s)
  BY <1>1, MaxOfIndices
<1>2. CoverIter(types, h)
  <2>1. ASSUME NEW s \in SUBSET (DOMAIN types)
        PROVE  h[s] = IF s = {} THEN [found |-> FALSE, sample |-> 0]
                      ELSE consider_tag(h[s \ {Max(s)}], [i \in DOMAIN types |-> i][Max(s)],
                                        types[[i \in DOMAIN types |-> i][Max(s)]])
    <3>1. CASE s = {}
      BY <1>0, <3>1
    <3>2. CASE s # {}
      <4>1. h[s] = CoverOf(types, s) /\ h[s \ {Max(s)}] = CoverOf(types, s \ {Max(s)})
        OBVIOUS
      <4>2. CoverOf(types, s) = consider_tag(CoverOf(types, s \ {Max(s)}), Max(s), types[Max(s)])
        BY <3>2, CoverStep
      <4>3. [i \in DOMAIN types |-> i][Max(s)] = Max(s)
        BY <1>1, <3>2
      <4> HIDE DEF h
      <4>4. QED
        BY <3>2, <4>1, <4>2, <4>3
    <3>3. QED
      BY <3>1, <3>2
  <2>2. QED
    BY <2>1 DEF CoverIter
<1>3. CoverIter(types, g)
  BY <1>2
<1> HIDE DEF g, h
<1> DEFINE T == {k \in 0..n : g[1..k] = CoverOf(types, 1..k)}
<1>4. 0 \in T
  <2>1. 1..0 = {}
    OBVIOUS
  <2>2. g[{}] = [found |-> FALSE, sample |-> 0]
    BY <1>3 DEF CoverIter
  <2>3. g[1..0] = CoverOf(types, 1..0)
    BY <1>0, <2>1, <2>2
  <2>4. QED
    BY <2>3
<1>5. ASSUME NEW k \in 1..n, k - 1 \in T PROVE k \in T
  <2>1. (1..k) \ {Max(1..k)} = 1..(k - 1) /\ Max(1..k) = k /\ 1..k # {}
    <3>1. k \in Nat \ {0}
      OBVIOUS
    <3>2. QED
      BY <3>1, Prefix
  <2>2. 1..k \subseteq 1..n /\ 1..k \in SUBSET (DOMAIN types)
    OBVIOUS
  <2>3. g[1..k] = consider_tag(g[(1..k) \ {Max(1..k)}], Max(1..k), types[Max(1..k)])
    <3>1. [i \in DOMAIN types |-> i][Max(1..k)] = Max(1..k)
      BY <1>1, <2>1, <2>2
    <3>2. QED
      BY <1>3, <2>1, <2>2, <3>1 DEF CoverIter
  <2>4. CoverOf(types, 1..k) =
          consider_tag(CoverOf(types, (1..k) \ {Max(1..k)}), Max(1..k), types[Max(1..k)])
    BY <2>1, <2>2, CoverStep
  <2>5. g[1..(k - 1)] = CoverOf(types, 1..(k - 1))
    BY <1>5
  <2>6. g[1..k] = CoverOf(types, 1..k)
    BY <2>1, <2>3, <2>4, <2>5
  <2>7. QED
    BY <2>6
<1>6. n \in T
  BY <1>4, <1>5, AllIndices
<1>7. QED
  BY <1>6, FindIsIter DEF g

(* What First() returns. *)
LEMMA FirstIsMin ==
    ASSUME NEW list, NEW n \in Nat, DOMAIN list = 1..n, NEW type
    PROVE  /\ TagsOf(list, 1..n, type) = {} => First(list, type) = 0
           /\ TagsOf(list, 1..n, type) # {} =>
                 First(list, type) = Min(TagsOf(list, 1..n, type)) /\ First(list, type) \in 1..n
<1>1. CASE TagsOf(list, 1..n, type) = {}
  BY <1>1 DEF First, TagsOf
<1>2. CASE TagsOf(list, 1..n, type) # {}
  <2>1. First(list, type) = Min(TagsOf(list, 1..n, type))
    BY <1>2 DEF First, Min, TagsOf
  <2>2. TagsOf(list, 1..n, type) \subseteq Nat /\ TagsOf(list, 1..n, type) \subseteq 1..n
    BY DEF TagsOf
  <2>3. Min(TagsOf(list, 1..n, type)) \in 1..n
    BY <1>2, <2>2, MinOfIndices
  <2>4. QED
    BY <1>2, <2>1, <2>3
<1>3. QED
  BY <1>1, <1>2

(* The artwork that extract_local_album_art() takes. *)
LEMMA ExtractsBest ==
    ASSUME NEW f \in Songs, f.container \in KnownContainers
    PROVE  extract_local_album_art(f) = BestArt(f)
<1> DEFINE ps == f.pictures
           n == Len(ps)
           types == [i \in DOMAIN ps |->
                       IF ps[i].type = "other" /\ ps[i].data = Empty
                       THEN "ignored" ELSE ps[i].type]
           front == First(types, "front")
           other == First(types, "other")
           plain == IF front # 0 THEN ps[front].data
                    ELSE IF other # 0 THEN ps[other].data ELSE Empty
<1>1. n \in Nat /\ DOMAIN ps = 1..n /\ ps \in Seq([type : PictureTypes, data : Nat])
  <2>1. ps \in Seq([type : PictureTypes, data : Nat])
    BY SongsAssumption
  <2> HIDE DEF ps
  <2>2. QED
    BY <2>1
<1>2. ps = <<>> <=> n = 0
  BY <1>1
<1> HIDE DEF n, ps
<1>3. /\ DOMAIN types = 1..n
      /\ TagsOf(types, 1..n, "front") = FrontPics(ps, 1..n)
      /\ TagsOf(types, 1..n, "other") = OtherPics(ps, 1..n)
  BY <1>1 DEF TagsOf, FrontPics, OtherPics
<1> HIDE DEF types
<1>4. /\ FrontPics(ps, 1..n) = {} => front = 0
      /\ FrontPics(ps, 1..n) # {} => front = Min(FrontPics(ps, 1..n)) /\ front \in 1..n
      /\ OtherPics(ps, 1..n) = {} => other = 0
      /\ OtherPics(ps, 1..n) # {} => other = Min(OtherPics(ps, 1..n)) /\ other \in 1..n
  BY <1>1, <1>3, FirstIsMin
<1> HIDE DEF front, other
<1>5. ArtOf(ps, 1..n).art = plain
  <2>1. CASE FrontPics(ps, 1..n) # {}
    BY <1>4, <2>1 DEF ArtOf
  <2>2. CASE FrontPics(ps, 1..n) = {} /\ OtherPics(ps, 1..n) # {}
    BY <1>4, <2>2 DEF ArtOf
  <2>3. CASE FrontPics(ps, 1..n) = {} /\ OtherPics(ps, 1..n) = {}
    BY <1>4, <2>3 DEF ArtOf
  <2>4. QED
    BY <2>1, <2>2, <2>3
<1>6. loop(ps) = plain
  BY <1>1, <1>5, LoopIsArtOf
<1> DEFINE best == IF f.container = "mp4" THEN (IF ps = <<>> THEN 0 ELSE 1)
                   ELSE IF front # 0 THEN front ELSE other
           art == IF best = 0 THEN Empty ELSE ps[best].data
<1>7. BestArt(f) = IF f.container # "flac" /\ ~f.tagged THEN Empty
                   ELSE IF f.container = "ogg" /\ Taglib19 /\ art = Empty /\ f.coverart # <<>>
                   THEN Head(f.coverart) ELSE art
  BY DEF BestArt, front, other, types, ps
<1>8. f.container # "mp4" => art = plain
  BY <1>4
<1> HIDE DEF plain
<1>9. CASE f.container = "mpeg"
  <2>1. extract_local_album_art(f) = MpegExtractor(f)
    BY <1>9 DEF extract_local_album_art
  <2> HIDE DEF art
  <2>2. QED
    BY <1>6, <1>7, <1>8, <1>9, <2>1 DEF MpegExtractor, ps
<1>10. CASE f.container = "flac"
  <2>1. extract_local_album_art(f) = FlacExtractor(f)
    BY <1>10 DEF extract_local_album_art
  <2> HIDE DEF art
  <2>2. QED
    BY <1>6, <1>7, <1>8, <1>10, <2>1 DEF FlacExtractor, ps
<1>11. CASE f.container = "mp4"
  <2>1. extract_local_album_art(f) = MP4Extractor(f)
    BY <1>11 DEF extract_local_album_art
  <2>2. art = IF ps = <<>> THEN Empty ELSE ps[1].data
    BY <1>11
  <2>3. ps # <<>> => Head(ps) = ps[1]
    BY <1>1
  <2> HIDE DEF art
  <2>4. MP4Extractor(f) = IF f.tagged /\ ps # <<>> THEN Head(ps).data ELSE Empty
    BY DEF MP4Extractor, ps
  <2>5. QED
    BY <1>7, <1>11, <2>1, <2>2, <2>3, <2>4
<1>12. CASE f.container = "ogg"
  <2> DEFINE qs == [i \in DOMAIN ps |-> IF Taglib19 THEN to_picture(ps[i]) ELSE ps[i]]
  <2>1. extract_local_album_art(f) = OggExtractor(f)
    BY <1>12 DEF extract_local_album_art
  <2>2. loop(qs) = plain
    <3>1. DOMAIN qs = 1..n
      BY <1>1
    <3>2. ASSUME NEW i \in 1..n
          PROVE  /\ qs[i].type = "front" <=> ps[i].type = "front"
                 /\ qs[i].type = "other" /\ qs[i].data # Empty <=>
                       ps[i].type = "other" /\ ps[i].data # Empty
                 /\ ps[i].type \in {"front", "other"} => qs[i].data = ps[i].data
      <4>1. qs[i] = IF Taglib19 /\ ps[i].type = "garbled" THEN [type |-> "other", data |-> Empty]
                    ELSE ps[i]
        BY <1>1 DEF to_picture
      <4>2. QED
        BY <4>1
    <3> HIDE DEF qs
    <3>3. FrontPics(qs, 1..n) = FrontPics(ps, 1..n) /\ OtherPics(qs, 1..n) = OtherPics(ps, 1..n)
      BY <3>2 DEF FrontPics, OtherPics
    <3>4. /\ FrontPics(ps, 1..n) \subseteq 1..n /\ OtherPics(ps, 1..n) \subseteq 1..n
          /\ \A i \in FrontPics(ps, 1..n) : qs[i].data = ps[i].data
          /\ \A i \in OtherPics(ps, 1..n) : qs[i].data = ps[i].data
      BY <3>2 DEF FrontPics, OtherPics
    <3>5. /\ FrontPics(ps, 1..n) # {} => Min(FrontPics(ps, 1..n)) \in FrontPics(ps, 1..n)
          /\ OtherPics(ps, 1..n) # {} => Min(OtherPics(ps, 1..n)) \in OtherPics(ps, 1..n)
      <4>1. FrontPics(ps, 1..n) \subseteq Nat /\ OtherPics(ps, 1..n) \subseteq Nat
        BY <3>4
      <4>2. QED
        BY <4>1, MinOfIndices
    <3>6. ArtOf(qs, 1..n).art = ArtOf(ps, 1..n).art
      <4>1. CASE FrontPics(ps, 1..n) # {}
        BY <3>3, <3>4, <3>5, <4>1 DEF ArtOf
      <4>2. CASE FrontPics(ps, 1..n) = {} /\ OtherPics(ps, 1..n) # {}
        BY <3>3, <3>4, <3>5, <4>2 DEF ArtOf
      <4>3. CASE FrontPics(ps, 1..n) = {} /\ OtherPics(ps, 1..n) = {}
        BY <3>3, <4>3 DEF ArtOf
      <4>4. QED
        BY <4>1, <4>2, <4>3
    <3>7. QED
      BY <1>1, <1>5, <3>1, <3>6, LoopIsArtOf
  <2> HIDE DEF art
  <2>3. OggExtractor(f) =
          LET found == IF f.tagged THEN loop(qs) ELSE Empty
          IN  IF Taglib19 /\ f.tagged /\ found = Empty /\ f.coverart # <<>>
              THEN Head(f.coverart) ELSE found
    BY DEF OggExtractor, ps
  <2> HIDE DEF qs
  <2>4. QED
    BY <1>7, <1>8, <1>12, <2>1, <2>2, <2>3
<1>13. QED
  BY <1>9, <1>10, <1>11, <1>12 DEF KnownContainers

(* The cover that vs-thumb takes. *)
LEMMA FindsFirst ==
    ASSUME NEW types \in Seq(STRING)
    PROVE  /\ First(types, "front") \in Nat /\ First(types, "undefined") \in Nat
           /\ find_cover(types) =
                IF First(types, "front") # 0
                THEN [found |-> TRUE, sample |-> First(types, "front")]
                ELSE [found |-> FALSE, sample |-> First(types, "undefined")]
<1> DEFINE n == Len(types)
<1>1. n \in Nat /\ DOMAIN types = 1..n
  OBVIOUS
<1> HIDE DEF n
<1>2. find_cover(types) = CoverOf(types, 1..n)
  BY <1>1, FindIsCoverOf
<1>3. ASSUME NEW type
      PROVE  /\ TagsOf(types, 1..n, type) = {} => First(types, type) = 0
             /\ TagsOf(types, 1..n, type) # {} =>
                   First(types, type) = Min(TagsOf(types, 1..n, type)) /\ First(types, type) \in 1..n
  BY <1>1, FirstIsMin
<1> DEFINE front == First(types, "front")
           other == First(types, "undefined")
<1>4. /\ TagsOf(types, 1..n, "front") = {} => front = 0
      /\ TagsOf(types, 1..n, "front") # {} =>
            front = Min(TagsOf(types, 1..n, "front")) /\ front \in 1..n
      /\ TagsOf(types, 1..n, "undefined") = {} => other = 0
      /\ TagsOf(types, 1..n, "undefined") # {} =>
            other = Min(TagsOf(types, 1..n, "undefined")) /\ other \in 1..n
  BY <1>3
<1> HIDE DEF front, other
<1>5. CASE TagsOf(types, 1..n, "front") # {}
  <2>1. find_cover(types) = [found |-> TRUE, sample |-> front] /\ front # 0
    <3>1. front # 0
      BY <1>1, <1>4, <1>5
    <3>2. find_cover(types) = [found |-> TRUE, sample |-> front]
      BY <1>2, <1>4, <1>5 DEF CoverOf
    <3>3. QED
      BY <3>1, <3>2
  <2>2. QED
    BY <1>4, <1>5, <2>1 DEF front, other
<1>6. CASE TagsOf(types, 1..n, "front") = {}
  <2>1. find_cover(types) = [found |-> FALSE, sample |-> other] /\ front = 0
    BY <1>2, <1>4, <1>6 DEF CoverOf
  <2>2. QED
    BY <1>4, <1>6, <2>1 DEF front, other
<1>7. QED
  BY <1>5, <1>6

LEMMA CoverIsBest ==
    ASSUME NEW m \in Videos
    PROVE  BestCover(m) = IF m.tagged THEN best_cover(m) ELSE NoSample
<1> DEFINE a == First(m.images, "front")
           b == First(m.previews, "front")
           c == First(m.images, "undefined")
           d == First(m.previews, "undefined")
           order == <<<<"image", a>>, <<"preview", b>>, <<"image", c>>, <<"preview", d>>>>
           there == {k \in DOMAIN order : order[k][2] # 0}
           image == find_cover(m.images)
           preview == find_cover(m.previews)
<1>1. m.images \in Seq(STRING) /\ m.previews \in Seq(STRING)
  BY VideosAssumption
<1>2. /\ image = IF a # 0 THEN [found |-> TRUE, sample |-> a] ELSE [found |-> FALSE, sample |-> c]
      /\ preview = IF b # 0 THEN [found |-> TRUE, sample |-> b] ELSE [found |-> FALSE, sample |-> d]
  BY <1>1, FindsFirst
<1>3. BestCover(m) = IF there = {} \/ ~m.tagged THEN NoSample
                     ELSE order[CHOOSE k \in there : \A l \in there : k <= l]
  BY DEF BestCover
<1> HIDE DEF a, b, c, d, image, preview
<1>4. /\ there \subseteq 1..4 /\ (1 \in there <=> a # 0) /\ (2 \in there <=> b # 0)
      /\ (3 \in there <=> c # 0) /\ (4 \in there <=> d # 0)
  <2>1. /\ DOMAIN order = 1..4 /\ order[1][2] = a /\ order[2][2] = b
        /\ order[3][2] = c /\ order[4][2] = d
    OBVIOUS
  <2> HIDE DEF order
  <2>2. QED
    BY <2>1
<1>5. best_cover(m) = CASE image.found -> <<"image", image.sample>>
          [] ~image.found /\ preview.found -> <<"preview", preview.sample>>
          [] ~image.found /\ ~preview.found /\ image.sample # 0 ->
                <<"image", image.sample>>
          [] ~image.found /\ ~preview.found /\ image.sample = 0 /\ preview.sample # 0 ->
                <<"preview", preview.sample>>
          [] OTHER -> NoSample
  BY DEF best_cover, image, preview
<1> DEFINE k0 == CHOOSE k \in there : \A l \in there : k <= l
<1>6. ASSUME NEW k \in 1..4, k \in there, \A l \in there : k <= l
      PROVE  k0 = k
  <2>1. there \subseteq Nat
    BY <1>4
  <2> HIDE DEF there
  <2>2. k0 \in there /\ \A l \in there : k0 <= l
    BY <1>6
  <2> HIDE DEF k0
  <2>3. k0 \in Nat /\ k0 <= k /\ k <= k0
    BY <1>6, <2>1, <2>2
  <2>4. QED
    BY <2>3
<1>7. CASE a # 0
  <2>1. k0 = 1 /\ there # {}
    <3> HIDE DEF there, k0
    <3>1. 1 \in there /\ \A l \in there : 1 <= l
      BY <1>4, <1>7
    <3>2. QED
      BY <1>6, <3>1
  <2>2. best_cover(m) = <<"image", a>>
    BY <1>2, <1>5, <1>7
  <2>3. order[1] = <<"image", a>>
    OBVIOUS
  <2> HIDE DEF order, there, k0
  <2>4. QED
    BY <1>3, <2>1, <2>2, <2>3 DEF k0
<1>8. CASE a = 0 /\ b # 0
  <2>1. k0 = 2 /\ there # {}
    <3> HIDE DEF there, k0
    <3>1. 2 \in there /\ \A l \in there : 2 <= l
      BY <1>4, <1>8
    <3>2. QED
      BY <1>6, <3>1
  <2>2. best_cover(m) = <<"preview", b>>
    BY <1>2, <1>5, <1>8
  <2>3. order[2] = <<"preview", b>>
    OBVIOUS
  <2> HIDE DEF order, there, k0
  <2>4. QED
    BY <1>3, <2>1, <2>2, <2>3 DEF k0
<1>9. CASE a = 0 /\ b = 0 /\ c # 0
  <2>1. k0 = 3 /\ there # {}
    <3> HIDE DEF there, k0
    <3>1. 3 \in there /\ \A l \in there : 3 <= l
      BY <1>4, <1>9
    <3>2. QED
      BY <1>6, <3>1
  <2>2. best_cover(m) = <<"image", c>>
    BY <1>2, <1>5, <1>9
  <2>3. order[3] = <<"image", c>>
    OBVIOUS
  <2> HIDE DEF order, there, k0
  <2>4. QED
    BY <1>3, <2>1, <2>2, <2>3 DEF k0
<1>10. CASE a = 0 /\ b = 0 /\ c = 0 /\ d # 0
  <2>1. k0 = 4 /\ there # {}
    <3> HIDE DEF there, k0
    <3>1. 4 \in there /\ \A l \in there : 4 <= l
      BY <1>4, <1>10
    <3>2. QED
      BY <1>6, <3>1
  <2>2. best_cover(m) = <<"preview", d>>
    BY <1>2, <1>5, <1>10
  <2>3. order[4] = <<"preview", d>>
    OBVIOUS
  <2> HIDE DEF order, there, k0
  <2>4. QED
    BY <1>3, <2>1, <2>2, <2>3 DEF k0
<1>11. CASE a = 0 /\ b = 0 /\ c = 0 /\ d = 0
  <2> HIDE DEF order, there, k0
  <2>1. there = {}
    BY <1>4, <1>11
  <2>2. best_cover(m) = NoSample
    BY <1>2, <1>5, <1>11
  <2>3. QED
    BY <1>3, <2>1, <2>2
<1>12. QED
  BY <1>7, <1>8, <1>9, <1>10, <1>11

LEMMA VsStepCover ==
    ASSUME VsTypes, VsProgress, CoverTaken, media \in Videos, VsThumbStep
    PROVE  CoverTaken'
<1>0. media' = media
  BY VsStepWhole
<1> USE DEF VsTypes, CoverTaken
<1>1. CASE check_args
  BY <1>1, VideosAssumption DEF check_args, Exit, To
<1>2. CASE construct
  BY <1>2 DEF construct, Exit, To
<1>t. CASE throw_error
  BY <1>t, <1>0, Throws
<1>3. CASE set_urls /\ ~throw_error
  BY <1>3 DEF set_urls, reset, release
<1>4. CASE extract_cover_art
  <2> DEFINE cover == IF media.tagged THEN best_cover(media) ELSE NoSample
  <2>1. BestCover(media) = cover
    BY CoverIsBest
  <2>2. /\ vs.pc = "cover" /\ vs.still = "none"
        /\ IF cover # NoSample
           THEN vs' = [vs EXCEPT !.sample = cover, !.pc = "write_image"]
           ELSE To("frame") \/ (~has_video(media) /\ Exit("abort"))
    BY <1>4 DEF extract_cover_art, VsProgress, BeforeFrame
  <2> HIDE DEF cover
  <2>3. QED
    BY <1>0, <2>1, <2>2 DEF To, Exit
<1>5. CASE convert_sample /\ ~throw_error
  BY <1>5 DEF convert_sample
<1>6. CASE still_frame
  <2>1. vs.pc = "map" /\ vs'.pc = "rotate"
    BY <1>6 DEF still_frame, map_frame, release
  <2>2. QED
    BY <1>0, <2>1
<1>7. CASE rotate_frame
  <2>1. vs.pc = "rotate" /\ vs'.pc = "write_image" /\ vs'.still # "none"
    BY <1>7 DEF rotate_frame, release, To, VsProgress
  <2>2. QED
    BY <1>0, <2>1
<1>8. CASE open_output /\ ~throw_error
  BY <1>8 DEF open_output
<1>9. CASE write_output
  <2>1. /\ vs.pc = "write" /\ vs'.pc \in {"write", "over"}
        /\ vs'.pc = "write" => vs'.still = vs.still /\ vs'.sample = vs.sample
        /\ vs'.pc = "over" => vs'.still = "none"
    BY <1>9, WriteIsWhole DEF write_output
  <2>2. QED
    BY <1>0, <2>1
<1>10. CASE Killed
  BY <1>10 DEF Killed, Exit
<1>11. QED
  BY <1>1, <1>2, <1>t, <1>3, <1>4, <1>5, <1>6, <1>7, <1>8, <1>9, <1>10
     DEF VsThumbStep
-----------------------------------------------------------------------------
(* Every step of fetch(), thumbnail(), vs-thumb and the tools. *)
LEMMA MediaStepInv == MediaInv /\ [MediaNext]_mediaVars => MediaInv'
<1> SUFFICES ASSUME MediaInv, [MediaNext]_mediaVars PROVE MediaInv'
  OBVIOUS
<1>0. /\ VsTypes /\ VsProgress /\ FrameTurned /\ CoverTaken
      /\ JobKnown /\ Presentable /\ ArtTaken /\ FilesWhole
  BY DEF MediaInv
<1>v. ASSUME UNCHANGED <<media, vs>>
      PROVE  VsTypes' /\ VsProgress' /\ FrameTurned' /\ CoverTaken'
  BY <1>0, <1>v DEF VsTypes, VsProgress, FrameTurned, CoverTaken
<1>1. CASE fetch_image
  <2>1. JobKnown' /\ Presentable' /\ job'.type = "image"
    BY <1>0, <1>1, ImageFetched
  <2>2. UNCHANGED <<media, vs, toolVars>> /\ job.pc # "over"
    BY <1>1 DEF fetch_image
  <2>3. ArtTaken' /\ FilesWhole'
    BY <1>0, <2>1, <2>2, WaitWhole DEF ArtTaken
  <2>4. QED
    BY <1>v, <2>1, <2>2, <2>3 DEF MediaInv
<1>2. CASE fetch_audio
  <2>1. /\ JobKnown' /\ Presentable' /\ job.type = "audio"
        /\ job'.type = job.type /\ job'.file = job.file
        /\ \/ job'.pc = "over" /\ job'.status = "hard_error"
           \/ /\ job'.pc = "over" /\ job'.status = "not_found"
              /\ job.file.container \in KnownContainers
              /\ extract_local_album_art(job.file) = Empty
           \/ /\ job'.pc = "scale" /\ job'.status = "none"
              /\ job.file.container \in KnownContainers
              /\ job'.art = extract_local_album_art(job.file)
    BY <1>0, <1>2, AudioFetched
  <2>2. UNCHANGED <<media, vs, toolVars>> /\ job.pc # "over"
    BY <1>2 DEF fetch_audio
  <2>3. job.file \in Songs
    BY <1>0, <2>1 DEF JobKnown
  <2>4. job.file.container \in KnownContainers =>
          extract_local_album_art(job.file) = BestArt(job.file)
    BY <2>3, ExtractsBest
  <2>5. ArtTaken'
    BY <2>1, <2>4 DEF ArtTaken
  <2>6. FilesWhole'
    BY <1>0, <2>2, WaitWhole
  <2>7. QED
    BY <1>v, <2>1, <2>2, <2>5, <2>6 DEF MediaInv
<1>3. CASE download_video
  <2>1. /\ JobKnown' /\ Presentable' /\ VsTypes' /\ VsProgress' /\ FrameTurned' /\ CoverTaken'
        /\ job'.type = "video" /\ job.pc # "over" /\ UNCHANGED toolVars
    BY <1>0, <1>3, VideoBegins
  <2>2. ArtTaken' /\ FilesWhole'
    BY <1>0, <2>1, WaitWhole DEF ArtTaken
  <2>3. QED
    BY <2>1, <2>2 DEF MediaInv
<1>4. CASE fetch_video
  <2>1. JobKnown' /\ Presentable' /\ job'.type = "video"
    BY <1>0, <1>4, VideoFetched
  <2>2. UNCHANGED <<media, vs, toolVars>> /\ job.pc # "over"
    BY <1>4 DEF fetch_video
  <2>3. ArtTaken' /\ FilesWhole'
    BY <1>0, <2>1, <2>2, WaitWhole DEF ArtTaken
  <2>4. QED
    BY <1>v, <2>1, <2>2, <2>3 DEF MediaInv
<1>5. CASE scale_and_encode
  <2>1. /\ JobKnown' /\ Presentable' /\ job'.type = job.type /\ job'.file = job.file
        /\ job'.status = "downloaded" /\ job'.art = job.art
    BY <1>0, <1>5, JobScaled
  <2>2. UNCHANGED <<media, vs, toolVars>> /\ job.pc = "scale"
    BY <1>5 DEF scale_and_encode
  <2>3. ArtTaken'
    BY <1>0, <2>1, <2>2 DEF ArtTaken
  <2>4. FilesWhole'
    BY <1>0, <2>2, WaitWhole
  <2>5. QED
    BY <1>v, <2>1, <2>2, <2>3, <2>4 DEF MediaInv
<1>6. CASE VsThumbStep /\ UNCHANGED <<job, toolVars>>
  <2>1. media \in Videos /\ job.pc = "extract" /\ (media' = media => JobKnown' /\ Presentable')
    BY <1>0, <1>6, VideoRuns
  <2>2. VsTypes' /\ VsProgress' /\ media' = media
    BY <1>0, <1>6, <2>1, VsStepWhole
  <2>3. FrameTurned' /\ CoverTaken'
    BY <1>0, <1>6, <2>1, VsStepTurns, VsStepCover
  <2>4. ArtTaken' /\ FilesWhole'
    BY <1>0, <1>6, <2>1, WaitWhole DEF ArtTaken
  <2>5. QED
    BY <2>1, <2>2, <2>3, <2>4 DEF MediaInv
<1>7. ASSUME NEW t \in Tools, run(t) PROVE MediaInv'
  <2>1. UNCHANGED <<job, media, vs>>
    BY <1>7 DEF run
  <2>2. FilesWhole'
    BY <1>0, <1>7, RunWhole
  <2>3. JobKnown' /\ Presentable' /\ ArtTaken'
    BY <1>0, <2>1 DEF JobKnown, Viewable, Presentable, Made, SourceSize, HighThumbnail, ArtTaken
  <2>4. QED
    BY <1>v, <2>1, <2>2, <2>3 DEF MediaInv
<1>8. CASE UNCHANGED mediaVars
  <2>1. UNCHANGED <<job, media, vs, tool, saved>>
    BY <1>8 DEF mediaVars, toolVars
  <2>2. JobKnown' /\ Presentable' /\ ArtTaken'
    BY <1>0, <2>1 DEF JobKnown, Viewable, Presentable, Made, SourceSize, HighThumbnail, ArtTaken
  <2>3. FilesWhole'
    BY <1>0, <2>1 DEF FilesWhole
  <2>4. QED
    BY <1>v, <2>1, <2>2, <2>3 DEF MediaInv
<1>9. QED
  BY <1>1, <1>2, <1>3, <1>4, <1>5, <1>6, <1>7, <1>8 DEF MediaNext

(* The inductive invariant of LocalMedia. *)
THEOREM MediaInvariant == MediaSpec => []MediaInv
<1>1. QED
  BY MediaInitInv, MediaStepInv, PTL DEF MediaSpec

(* Nobody gets part of an image, neither from vs-thumb nor from the file   *)
(* that thumbnailer-admin writes, for any number of tools and of pieces.   *)
THEOREM NobodyGetsAPart == MediaSpec => []NoPartialImage
<1>1. MediaInv => NoPartialImage
  BY WholeImpliesNoPartial DEF MediaInv
<1>2. QED
  BY <1>1, MediaInvariant, PTL

(* Every thumbnail is upright, not empty, fits its target and, but for a   *)
(* high embedded thumbnail, its source; for all sizes and orientations.    *)
THEOREM ThumbnailsPresentable == MediaSpec => []Presentable
<1>1. MediaInv => Presentable
  BY DEF MediaInv
<1>2. QED
  BY <1>1, MediaInvariant, PTL

(* The loops over the pictures find the best one, for tags of any length.  *)
THEOREM BestArtIsTaken == MediaSpec => []ArtIsBest
<1>1. MediaInv => ArtIsBest
  BY DEF MediaInv, ArtTaken, CoverTaken, ArtIsBest
<1>2. QED
  BY <1>1, MediaInvariant, PTL
=============================================================================
