------------------------------ MODULE AdminTool ------------------------------
(***************************************************************************)
(* thumbnailer-admin get (src/thumbnailer-admin): the thumbnail of a local *)
(* file is requested, converted to PNG and stored by write_file()          *)
(* (src/file_io.cpp).  Several tools may do this at once, also for the     *)
(* same output, and each may be killed.  What the service answers comes    *)
(* from the module that extends this one.                                  *)
(***************************************************************************)
EXTENDS ImageSizing

CONSTANTS
    Tools,      \* processes
    SizeArgs    \* values of --size, see parse_size
ASSUME SizeArgsAssumption == \A fields \in SizeArgs : Len(fields) > 0

VARIABLES
    tool,       \* tool[t]: where it is, its size_, its temporary file, exit code
    saved       \* saved[p]: the file at output path p

toolVars == <<tool, saved>>

(* A file: how much of its contents is there, and what it is to contain.   *)
File(state, data) == [state |-> state, data |-> data]
NoFile == File("absent", png_data(Failed))

Unborn == [pc |-> "unborn", size |-> NoSize, data |-> png_data(Failed),
           temp |-> NoFile, exit |-> "none"]

ExitWith(t, code) == tool' = [tool EXCEPT ![t].pc = "over", ![t].exit = code]
-----------------------------------------------------------------------------
(* The argument, split at every x: a field is <<n>> if stoi() makes n of   *)
(* it and <<>> if it throws.  Unless there are two fields only the first   *)
(* one counts.                                                             *)
parse_size(fields) ==
    LET used == IF Len(fields) = 2 THEN fields ELSE <<fields[1], fields[1]>>
    IN  IF used[1] = <<>> \/ used[2] = <<>> THEN NoSize
        ELSE Dim(used[1][1], used[2][1])

(* stem_WxH.png, with the size that was asked for, before any limit.  The  *)
(* tools here have the same input and directory, so it is WxH that tells   *)
(* their outputs apart.                                                    *)
make_output_path(size) == <<size.w, "x", size.h>>

Paths == {make_output_path(size) :
            size \in {s \in {parse_size(f) : f \in SizeArgs} : isValid(s)} \union {Dim(0, 0)}}

InitTools ==
    /\ tool = [t \in Tools |-> Unborn]
    /\ saved = [p \in Paths |-> NoFile]

(* GetLocalThumbnail(): a wrong number of arguments, an empty path, an     *)
(* unknown option or a request for help throw, as does an invalid size;    *)
(* without one, the size is 0x0.                                           *)
GetLocalThumbnail(t) ==
    /\ tool[t].pc = "unborn"
    /\ \/ ExitWith(t, "1")
       \/ \E fields \in SizeArgs :
            LET size == parse_size(fields)
            IN  IF isValid(size)
                THEN tool' = [tool EXCEPT ![t].pc = "call", ![t].size = size]
                ELSE ExitWith(t, "1")
       \/ tool' = [tool EXCEPT ![t].pc = "call", ![t].size = Dim(0, 0)]
    /\ UNCHANGED saved

(* to_png(): what is no PNG is decoded and encoded again. *)
to_png(data) ==
    IF data.format = "png" THEN data
    ELSE png_data(load(ImageData(data.size, data.alpha, FALSE, FALSE, 0, Upright, NoSize),
                       NoSize))

(* run(): waits for the reply; an error, also that the service does not    *)
(* answer, ends the tool.                                                  *)
replied(t, data) ==
    /\ tool[t].pc = "call"
    /\ tool' = [tool EXCEPT ![t].pc = "mkstemp", ![t].data = to_png(data)]
    /\ UNCHANGED saved

refused(t) ==
    /\ tool[t].pc = "call"
    /\ ExitWith(t, "1")
    /\ UNCHANGED saved
-----------------------------------------------------------------------------
(* write_file(): a temporary file in the directory of the output. *)
mkstemp(t) ==
    /\ tool[t].pc = "mkstemp"
    /\ \/ tool' = [tool EXCEPT ![t].pc = "write", ![t].temp = File("empty", @.data)]
       \/ ExitWith(t, "1")
    /\ UNCHANGED saved

(* Mutant: the number of bytes written is not compared. *)
write_Unchecked(t) ==
    /\ tool[t].pc = "write"
    /\ \E left \in {"empty", "partial", "whole"} :
         tool' = [tool EXCEPT ![t].temp = File(left, tool[t].data), ![t].pc = "rename"]
    /\ UNCHANGED saved

(* One write(); what it leaves of the file.  Anything but all is an error, *)
(* after which the temporary file stays.                                   *)
write(t) ==
    /\ tool[t].pc = "write"
    /\ \E left \in {"empty", "partial", "whole"} :
         tool' = [tool EXCEPT
            ![t].temp = File(left, tool[t].data),
            ![t].pc = IF left = "whole" THEN "rename" ELSE "over",
            ![t].exit = IF left = "whole" THEN @ ELSE "1"]
    /\ UNCHANGED saved

(* rename() replaces the output at once; if it fails, unlink(). *)
rename(t) ==
    /\ tool[t].pc = "rename"
    /\ \E code \in {"0", "1"} :
         /\ tool' = [tool EXCEPT ![t].pc = "over", ![t].temp = NoFile, ![t].exit = code]
         /\ IF code = "0"
            THEN saved' = [saved EXCEPT ![make_output_path(tool[t].size)] = tool[t].temp]
            ELSE UNCHANGED saved

KillTool(t) ==
    /\ tool[t].pc \notin {"unborn", "over"}
    /\ ExitWith(t, "killed")
    /\ UNCHANGED saved

WriteFile(t) == mkstemp(t) \/ write(t) \/ rename(t) \/ KillTool(t)
-----------------------------------------------------------------------------
(* "Atomically write contents to filename": whichever tools write, fail or *)
(* are killed in whatever order, an output is never seen in part.  One     *)
(* that succeeded leaves a PNG there and no temporary file behind.         *)
SavedIsWhole ==
    /\ \A p \in Paths : saved[p].state \in {"absent", "whole"}
    /\ \A t \in Tools : tool[t].exit = "0" =>
          LET file == saved[make_output_path(tool[t].size)]
          IN  /\ file.state = "whole" /\ file.data.format = "png"
              /\ tool[t].temp = NoFile
=============================================================================
