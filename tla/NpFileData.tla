---------------------------- MODULE NpFileData ----------------------------
(***************************************************************************)
(* What one file of a synthetic tree holds (fs/ramfs2.c) while several     *)
(* workers open, read, write and truncate it: npfile_open, npfile_read,    *)
(* npfile_write and npfile_wstat with rfs_read, rfs_write and rfs_wstat.   *)
(*                                                                         *)
(* The length and the allocated data are set one after the other, and most *)
(* of it without the lock of the file.  A block of data is one unit.       *)
(***************************************************************************)
EXTENDS NpFile

CONSTANT MaxLen   \* the longest file, in blocks

ASSUME NpFileDataAssumption == MaxLen \in Nat

VARIABLES
    gentle,  \* whether nobody begins to use the file while it is truncated
    data,    \* the file: length, datasize, excl; the blocks written and not
             \*   truncated since; whether a write has made it shorter
    df,      \* fids on it
    dw,      \* workers
    wild     \* a negative number of bytes was copied

dvars == <<gentle, data, df, dw, wild>>

Closed == [open |-> "no", excl |-> FALSE]
Resting == [pc |-> "idle", fid |-> Nil, mode |-> "read", end |-> 0, raced |-> FALSE]

EmptyFile == [len |-> 0, cap |-> 0, excl |-> FALSE, kept |-> {}, shrunk |-> FALSE]

\* The file has just been made by npfile_create, whose worker has still to open it.
DataInit ==
    /\ gentle \in BOOLEAN
    /\ data = EmptyFile
    /\ df = [x \in FFids |-> Closed]
    /\ \E w \in Workers, x \in FFids :
         dw = [v \in Workers |-> IF v = w THEN [Resting EXCEPT !.pc = "made", !.fid = x] ELSE Resting]
    /\ wild = FALSE

----------------------------------------------------------------------------

Modes == {"read", "write", "append", "trunc", "excl"}   \* the last two are Owrite
Writes(mode) == mode # "read"

DataLocked == \E w \in Workers : dw[w].pc \in {"grown", "wstat"}
Truncating == \E w \in Workers : dw[w].pc \in {"trunc", "trunc2", "wstat"}
Gentle(p) == gentle => p
Receive(w, x) == dw[w].pc = "idle" /\ \A v \in Workers : dw[v].fid # x

\* The others that have looked at the length and not copied yet.
Race(w) ==
    [v \in Workers |-> IF v # w /\ dw[v].pc \in {"grow", "grown", "copy"}
                       THEN [dw[v] EXCEPT !.raced = TRUE] ELSE dw[v]]

\* Mutant: Oexcl is not looked at.
ExclFree_any == TRUE

ExclFree == ~data.excl

\* npfile_open, the section under the lock.
OpenCheck(w, x, mode) ==
    /\ Receive(w, x) /\ df[x].open = "no"
    /\ ~DataLocked
    /\ mode = "excl" => ExclFree
    /\ Gentle(mode = "trunc" => \A v \in Workers : dw[v].pc = "idle")
    /\ data' = [data EXCEPT !.excl = @ \/ mode = "excl"]
    /\ dw' = [dw EXCEPT ![w] = [Resting EXCEPT !.pc = IF mode = "trunc" THEN "trunc" ELSE "open",
                                               !.fid = x, !.mode = mode]]
    /\ UNCHANGED <<gentle, df, wild>>

\* rfs_wstat with length 0, without the lock: file_truncate, then the length.
OpenTrunc(w) ==
    /\ dw[w].pc = "trunc"
    /\ data' = [data EXCEPT !.cap = 0, !.kept = {}]
    /\ dw' = [Race(w) EXCEPT ![w].pc = "trunc2"]
    /\ UNCHANGED <<gentle, df, wild>>
OpenTrunc2(w) ==
    /\ dw[w].pc = "trunc2"
    /\ data' = [data EXCEPT !.len = 0, !.kept = {}]
    /\ dw' = [dw EXCEPT ![w].pc = "open"]
    /\ UNCHANGED <<gentle, df, wild>>

OpenDone(w) ==
    /\ dw[w].pc = "open"
    /\ df' = [df EXCEPT ![dw[w].fid] = [open |-> dw[w].mode, excl |-> dw[w].mode = "excl"]]
    /\ dw' = [dw EXCEPT ![w] = Resting]
    /\ UNCHANGED <<gentle, data, wild>>

\* The end of npfile_create: excl is set without the lock.
CreateOpen(w, mode) ==
    /\ dw[w].pc = "made"
    /\ data' = [data EXCEPT !.excl = @ \/ mode = "excl"]
    /\ df' = [df EXCEPT ![dw[w].fid].open = mode]
    /\ dw' = [dw EXCEPT ![w] = Resting]
    /\ UNCHANGED <<gentle, wild>>

\* excl stays set for ever.
CloseFile(w, x) ==
    /\ Receive(w, x) /\ df[x].open # "no"
    /\ df' = [df EXCEPT ![x] = Closed]
    /\ UNCHANGED <<gentle, data, dw, wild>>

----------------------------------------------------------------------------
(* read, write *)

\* The length is looked at, then the data is copied, without the lock.
rfs_read(w, x, off) ==
    /\ Receive(w, x) /\ df[x].open = "read"
    /\ off < data.len
    /\ Gentle(~Truncating)
    /\ dw' = [dw EXCEPT ![w] = [Resting EXCEPT !.pc = "copy", !.fid = x, !.end = off + 1]]
    /\ UNCHANGED <<gentle, data, df, wild>>

\* So too, but room is made first when the file is to grow.
rfs_write(w, x, off) ==
    /\ Receive(w, x) /\ df[x].open # "no" /\ Writes(df[x].open)
    /\ df[x].open = "append" => off = data.len
    /\ Gentle(~Truncating)
    /\ dw' = [dw EXCEPT ![w] = [Resting EXCEPT !.pc = IF data.len < off + 1 THEN "grow" ELSE "copy",
                                               !.fid = x, !.mode = "write", !.end = off + 1]]
    /\ UNCHANGED <<gentle, data, df, wild>>

\* file_truncate under the lock, to the size computed before; or it fails.
WriteGrow(w) ==
    /\ dw[w].pc = "grow"
    /\ ~DataLocked
    /\ \/ /\ data' = [data EXCEPT !.cap = dw[w].end, !.shrunk = @ \/ dw[w].end < data.cap]
          /\ dw' = [Race(w) EXCEPT ![w].pc = "grown"]
       \/ /\ dw' = [dw EXCEPT ![w] = Resting]
          /\ UNCHANGED data
    /\ UNCHANGED <<gentle, df, wild>>

\* Mutant: a file is not made longer.
WriteLen_old(end) == data.len

WriteLen(end) == end

\* Still under the lock.  Nothing is copied when the room is gone at the offset;
\* when it is gone before the offset the number of bytes is negative.
WriteGrown(w) ==
    LET room == data.cap - (dw[w].end - 1) IN
    /\ dw[w].pc = "grown"
    /\ data' = [data EXCEPT !.len = IF room = 0 THEN @ ELSE WriteLen(dw[w].end)]
    /\ dw' = [dw EXCEPT ![w] = IF room = 0 THEN Resting ELSE [@ EXCEPT !.pc = "copy"]]
    /\ wild' = (room < 0)
    /\ UNCHANGED <<gentle, df>>

\* The bytes are copied, and the times set under the lock.
ReadDone(w) ==
    /\ dw[w].pc = "copy" /\ dw[w].mode = "read"
    /\ ~DataLocked
    /\ dw' = [dw EXCEPT ![w] = Resting]
    /\ UNCHANGED <<gentle, data, df, wild>>
WriteDone(w) ==
    /\ dw[w].pc = "copy" /\ dw[w].mode = "write"
    /\ ~DataLocked
    /\ data' = [data EXCEPT !.kept = IF dw[w].raced THEN @ ELSE @ \cup {dw[w].end - 1}]
    /\ dw' = [dw EXCEPT ![w] = Resting]
    /\ UNCHANGED <<gentle, df, wild>>

\* Mutant: the length stays what it was.
WstatLen_old(len) == data.len

\* No longer than the data.
WstatLen(len) == IF len > data.cap THEN data.cap ELSE len

\* npfile_wstat, rfs_wstat under the lock, which readers and writers do not
\* take: file_truncate,
rfs_wstat(w, x, len) ==
    /\ Receive(w, x)
    /\ ~DataLocked
    /\ Gentle(~Truncating)
    /\ data' = [data EXCEPT !.cap = len, !.kept = {o \in @ : o < len}]
    /\ dw' = [Race(w) EXCEPT ![w] = [Resting EXCEPT !.pc = "wstat", !.fid = x, !.end = len]]
    /\ UNCHANGED <<gentle, df, wild>>

\* or it fails: the undo leaves the length alone and truncates the data to it.
\* When that fails too nothing has changed.
WstatFails(w, x) ==
    /\ Receive(w, x)
    /\ ~DataLocked
    /\ Gentle(~Truncating)
    /\ data' = [data EXCEPT !.cap = data.len]
    /\ dw' = Race(w)
    /\ UNCHANGED <<gentle, df, wild>>

\* then the length.
WstatDone(w) ==
    /\ dw[w].pc = "wstat"
    /\ data' = [data EXCEPT !.len = WstatLen(dw[w].end), !.kept = {o \in @ : o < dw[w].end}]
    /\ dw' = [dw EXCEPT ![w] = Resting]
    /\ UNCHANGED <<gentle, df, wild>>

DataNext ==
    /\ ~wild
    /\ \E w \in Workers :
         \/ \E x \in FFids :
              \/ \E mode \in Modes : OpenCheck(w, x, mode)
              \/ CloseFile(w, x) \/ WstatFails(w, x)
              \/ \E off \in 0..(MaxLen - 1) : rfs_read(w, x, off) \/ rfs_write(w, x, off)
              \/ \E len \in 0..MaxLen : rfs_wstat(w, x, len)
         \/ OpenTrunc(w) \/ OpenTrunc2(w) \/ OpenDone(w)
         \/ \E mode \in Modes \ {"trunc"} : CreateOpen(w, mode)
         \/ WriteGrow(w) \/ WriteGrown(w) \/ ReadDone(w) \/ WriteDone(w) \/ WstatDone(w)

DataSpec == DataInit /\ [][DataNext]_dvars

----------------------------------------------------------------------------
(* Properties *)

(***************************************************************************)
(* rfs_read and rfs_write copy only bytes that are there, unless a wstat   *)
(* or another write has replaced the data after they had looked at the     *)
(* length, which no lock hinders; or a write that had seen an old length   *)
(* has made the file shorter, of which the length tells only later; or a   *)
(* client was not gentle.                                                  *)
(***************************************************************************)
CopyInside ==
    gentle /\ ~data.shrunk =>
        \A w \in Workers : dw[w].pc = "copy" /\ ~dw[w].raced => dw[w].end <= data.cap

(***************************************************************************)
(* What was written and not truncated since is part of the file, however   *)
(* many write to it, unless a write that had seen an old length has made   *)
(* the file shorter again (rfs_write computes the size before it locks).   *)
(***************************************************************************)
WriteKept == gentle /\ ~data.shrunk => \A o \in data.kept : o < data.len /\ o < data.cap

(***************************************************************************)
(* Of the fids that opened the file with Oexcl there is one at most,       *)
(* however many workers open it at a time; the one that created it is not  *)
(* counted, as npfile_create does not look at excl.                        *)
(***************************************************************************)
ExclOnce == Cardinality({x \in FFids : df[x].excl}) <= 1
=============================================================================
