---------------------------- MODULE MCThumbnailer ----------------------------
(* The limit is 4.  One picture is thin and higher than that: it vanishes  *)
(* when it is decoded at a smaller size.  The other lies on its side and   *)
(* has an embedded thumbnail as large as itself, which is scaled up for a  *)
(* target of 4x2.  Callers leave both dimensions open, ask for something   *)
(* lower, or pass an invalid size.                                         *)
EXTENDS Thumbnailer

Turned == 6
MCSources ==
    {ImageData(Dim(1, 5), FALSE, FALSE, FALSE, 0, Upright, NoSize),
     ImageData(Dim(2, 3), FALSE, FALSE, FALSE, Turned, StoredCorners(Turned), Dim(2, 3))}
MCRequested == {Dim(0, 0), Dim(0, 2), NoSize}
=============================================================================
