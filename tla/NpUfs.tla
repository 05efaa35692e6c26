------------------------------- MODULE NpUfs -------------------------------
(***************************************************************************)
(* The tree of the host exported through libufs (ops.c, ufs.c): the fids,  *)
(* which know their file by its path, the descriptors they hold, the ids   *)
(* kept in attributes beside the files (UFS_IDS_MAPPED), extended          *)
(* attributes, and a connection that is checkpointed and restored.         *)
(*                                                                         *)
(* The host is external: a tree of inodes and a table of descriptors; a    *)
(* call on it may fail at any time.  A handler is one step, except that    *)
(* the attributes of a file are set one after the other.  Times, sizes,    *)
(* permissions and contents are left out.  A request that is refused and   *)
(* changes nothing is no step.  A fid has one message at a time (NpFid is  *)
(* about the rest).                                                        *)
(***************************************************************************)
EXTENDS Integers, Sequences, SequencesExt, FiniteSets

CONSTANTS UFids,      \* fids of the clients
          UNames,     \* names of files
          MaxInodes,  \* how many inodes the host has, the root's included
          MaxFds      \* how many descriptors it has

ASSUME NpUfsAssumption == IsFiniteSet(UFids) /\ MaxInodes \in Nat \ {0, 1} /\ MaxFds \in Nat

VARIABLES
    mapped,  \* UFS_IDS_MAPPED
    calm,    \* whether the clients have kept to what is said at Calm
    ents,    \* the host's directories
    ino,     \* the host's inodes
    fds,     \* the inode each descriptor is open on
    uf       \* Fid, and omode and type of its Npfid

uvars == <<mapped, calm, ents, ino, fds, uf>>

None == 0
HostRoot == 1
Inodes == 1..MaxInodes
Fds == 1..MaxFds
NoEnts == [n \in UNames |-> None]

\* kind is the type the host knows.  attrs are the mapped attributes the file
\* carries (VIRTFS_UID, VIRTFS_GID, VIRTFS_MODE, VIRTFS_RDEV), mode the type
\* VIRTFS_MODE holds, as what the client asked for.
NoInode == [kind |-> "none", attrs |-> {}, mode |-> "none", as |-> "none"]
Inode(kind, as) == [NoInode EXCEPT !.kind = kind, !.as = as]

\* The attributes in the order they are set in; a node has its device too.
Virtfs(as) == <<"uid", "gid", "mode">> \o IF as = "node" THEN <<"rdev">> ELSE <<>>

\* A handler that has still to set attributes of the file at path: of one
\* made as as, or of one whose type it has seen to be as.
NoJob == [k |-> "no", path |-> <<>>, as |-> "none", ino |-> None, left |-> <<>>]

\* npfs_fidalloc.  xa is the attribute value the fid holds: the one fetched by
\* Txattrwalk, or the one Txattrcreate has made room for.
UfsFid(path) ==
    [used |-> TRUE, path |-> path, omode |-> "no", isdir |-> TRUE, fd |-> None, dir |-> None,
     xa |-> "none", xname |-> FALSE, job |-> NoJob]
Unused == [UfsFid(<<>>) EXCEPT !.used = FALSE]

\* The tree holds nothing, or one file or symlink the server has not made.
UfsInit ==
    /\ mapped \in BOOLEAN /\ calm = TRUE
    /\ \E kind \in {"none", "file", "link"}, n \in UNames :
         /\ ino = [i \in Inodes |-> CASE i = HostRoot -> Inode("dir", "host")
                                      [] i = 2 /\ kind # "none" -> Inode(kind, "host")
                                      [] OTHER -> NoInode]
         /\ ents = [i \in Inodes |-> IF i = HostRoot /\ kind # "none" THEN [NoEnts EXCEPT ![n] = 2]
                                     ELSE NoEnts]
    /\ fds = [d \in Fds |-> None]
    /\ uf = [x \in UFids |-> Unused]

----------------------------------------------------------------------------
(* The host *)

\* ufs_join, and the host's way from the root.
ufs_join(path, n) == Append(path, n)
Follow(path) ==
    LET at[k \in 0..Len(path)] ==
          IF k = 0 THEN HostRoot ELSE IF at[k - 1] = None THEN None ELSE ents[at[k - 1]][path[k]]
    IN  at[Len(path)]
Parent(path) == Follow(Front(path))

Least(S) == CHOOSE m \in S : \A k \in S : m <= k
FreeInodes == {i \in Inodes : ino[i].kind = "none"}
FreeFds == {d \in Fds : fds[d] = None}

\* An inode goes when no name and no descriptor is left of it.
Gone(es, ds) ==
    [i \in Inodes |-> IF i # HostRoot /\ (\A j \in Inodes, n \in UNames : es[j][n] # i)
                         /\ \A d \in Fds : ds[d] # i
                      THEN NoInode ELSE ino[i]]

Empty(i) == ents[i] = NoEnts
Unlink(d, n) == [ents EXCEPT ![d][n] = None]
Removable(path) == path # <<>> /\ Follow(path) # None /\ Empty(Follow(path))

\* The entries after rename(from, to).
MayRename(from, to) ==
    /\ from # <<>> /\ to # from /\ Follow(from) # None
    /\ Parent(to) # None /\ ino[Parent(to)].kind = "dir"
    /\ ~IsPrefix(from, to) /\ ~IsPrefix(to, from)
    /\ Follow(to) # None => /\ Empty(Follow(to))
                            /\ (ino[Follow(to)].kind = "dir") <=> (ino[Follow(from)].kind = "dir")
Renamed(from, to) ==
    IF Follow(from) = Follow(to) THEN ents
    ELSE [[ents EXCEPT ![Parent(from)][Last(from)] = None] EXCEPT ![Parent(to)][Last(to)] = Follow(from)]

Close(ds, d) == IF d = None THEN ds ELSE [ds EXCEPT ![d] = None]

----------------------------------------------------------------------------
(* Clients *)

Ready(x) == uf[x].used /\ uf[x].job = NoJob
IsXattr(x) == uf[x].xa # "none"

\* A request of another fid stands on the path or passes through it.
InUse(x, path) ==
    \E y \in UFids \ {x} : \/ uf[y].used /\ IsPrefix(path, uf[y].path)
                           \/ uf[y].job # NoJob /\ IsPrefix(path, uf[y].job.path)

(***************************************************************************)
(* Calm clients do not remove, rename or create anew what another fid is   *)
(* on, leave a file alone until it was made, and use a fid that holds a    *)
(* descriptor for nothing but what it was opened for.  Nothing is modelled *)
(* after a request that was not calm.                                      *)
(***************************************************************************)
Calm(p) == calm' = p
Bare(x) == uf[x].fd = None /\ uf[x].dir = None

----------------------------------------------------------------------------
(* What a client is shown *)

mapped_get(i, attr) == attr \in ino[i].attrs

\* The type; 0:0 owns a file without the attributes.
mapped_stat(i) == IF mapped_get(i, "mode") THEN ino[i].mode ELSE ino[i].kind

\* Qtdir
ustat2qidtype(kind) == kind = "dir"

ufs_lstat(path) ==
    IF Follow(path) = None THEN "error"
    ELSE IF mapped THEN mapped_stat(Follow(path)) ELSE ino[Follow(path)].kind
fidstat(x) == ufs_lstat(uf[x].path)

npfs_getattr(x) == fidstat(x)

\* Without dotu only directories are told apart.
umode2npmode(kind, dotu) == IF dotu \/ kind \in {"dir", "error"} THEN kind ELSE "file"

\* The extension of a symlink is what readlink says of the host's file, so that
\* a file that stands for a symlink has none.
ustat2npwstat(path, dotu) ==
    LET mode == umode2npmode(ufs_lstat(path), dotu) IN
    [mode |-> mode,
     extension |-> CASE mode = "link" /\ ino[Follow(path)].kind = "link" -> "target"
                     [] mode = "node" -> "device"
                     [] OTHER -> ""]

\* Over a connection with and without dotu.
npfs_stat(x) == [dotu \in BOOLEAN |-> ustat2npwstat(uf[x].path, dotu)]

npfs_statfs(x) == Follow(uf[x].path) # None

mapped_readlink(i) == IF ino[i].kind = "file" THEN "target" ELSE "error"

\* The target, of the host's symlink or of the file that stands for one.
npfs_readlink(x) ==
    LET i == Follow(uf[x].path) IN
    IF i = None THEN "error"
    ELSE IF ino[i].kind = "link" THEN "target"
    ELSE IF mapped /\ mapped_stat(i) = "link" THEN mapped_readlink(i) ELSE "error"

\* What a descriptor is open on; without one the answer is an error.
Behind(d) == IF d = None THEN None ELSE fds[d]
npfs_read(x) == IF uf[x].dir # None THEN Behind(uf[x].dir) ELSE Behind(uf[x].fd)
npfs_write(x) == Behind(uf[x].fd)
npfs_fsync(x) == IF uf[x].fd # None THEN Behind(uf[x].fd) ELSE Behind(uf[x].dir)
npfs_flock(x) == Behind(uf[x].fd)
npfs_getlock(x) == Behind(uf[x].fd)
npfs_xattrread(x) == uf[x].xa

----------------------------------------------------------------------------
(* attach, clone, walk *)

npfs_attach(x) ==
    /\ ~uf[x].used
    /\ uf' = [uf EXCEPT ![x] = UfsFid(<<>>)]
    /\ UNCHANGED <<mapped, calm, ents, ino, fds>>

npfs_clone(x, y) ==
    /\ Ready(x) /\ ~uf[y].used
    /\ uf[x].omode = "no"
    /\ uf' = [uf EXCEPT ![y] = [UfsFid(uf[x].path) EXCEPT !.isdir = uf[x].isdir]]
    /\ UNCHANGED <<mapped, calm, ents, ino, fds>>

\* In place: a descriptor Tunlinkat has opened stays.
npfs_walk(x, n) ==
    LET npath == ufs_join(uf[x].path, n) IN
    /\ Ready(x) /\ uf[x].omode = "no"
    /\ fidstat(x) # "error" /\ Follow(npath) # None
    /\ Calm(Bare(x) /\ \A y \in UFids : uf[y].job.k # "no" => uf[y].job.path # npath)
    /\ uf' = [uf EXCEPT ![x].path = npath, ![x].isdir = ustat2qidtype(ufs_lstat(npath))]
    /\ UNCHANGED <<mapped, ents, ino, fds>>

----------------------------------------------------------------------------
(* open *)

\* What is at the path can be opened the way its type asks for; a symlink of
\* the host leads nowhere.
Opens(path) ==
    /\ Follow(path) # None
    /\ ino[Follow(path)].kind \in (IF ufs_lstat(path) = "dir" THEN {"dir"} ELSE {"dir", "file", "node"})

\* The fid with the file at its path opened: the descriptor it held is forgotten.
Opened(x, d) ==
    LET f == [uf[x] EXCEPT !.omode = "read"] IN
    IF fidstat(x) = "dir" THEN [f EXCEPT !.dir = d] ELSE [f EXCEPT !.fd = d]

\* The mode is told apart only where an attribute is held: "write" is what
\* Txattrcreate sets.  np_open asks that the fid is not open, np_lopen does not.  Whether the stat
\* that follows fails makes no difference.
Open(x) ==
    /\ Ready(x) /\ FreeFds # {}
    /\ Opens(uf[x].path)
    /\ Calm(Bare(x) /\ ~IsXattr(x))
    /\ uf' = [uf EXCEPT ![x] = Opened(x, Least(FreeFds))]
    /\ fds' = [fds EXCEPT ![Least(FreeFds)] = Follow(uf[x].path)]
    /\ UNCHANGED <<mapped, ents, ino>>

npfs_open(x) == uf[x].omode = "no" /\ Open(x)
npfs_lopen(x) == Open(x)

\* The host refuses; np_open and np_lopen note the mode all the same.
OpenRefused(x) ==
    /\ Ready(x)
    /\ Calm(~IsXattr(x) /\ (Bare(x) \/ (uf[x].dir = None /\ fidstat(x) = "dir")))
    /\ uf' = [uf EXCEPT ![x].omode = "read",
                        ![x].fd = IF fidstat(x) \notin {"dir", "error"} THEN None ELSE @,
                        ![x].dir = IF fidstat(x) = "dir" THEN None ELSE @]
    /\ UNCHANGED <<mapped, ents, ino, fds>>

----------------------------------------------------------------------------
(* Making files without the mapped attributes *)

\* A directory of the client's: np_create, np_lcreate, np_symlink, np_mknod, np_mkdir.
InDir(x) == Ready(x) /\ uf[x].omode = "no" /\ uf[x].isdir
NameFree(x, n) ==
    /\ InDir(x)
    /\ Follow(uf[x].path) # None /\ ino[Follow(uf[x].path)].kind = "dir"
    /\ Follow(ufs_join(uf[x].path, n)) = None
Makes(x, n) == NameFree(x, n) /\ FreeInodes # {}
NotUsed(x, n) == ~InUse(x, ufs_join(uf[x].path, n))
Entered(x, n, i) == [ents EXCEPT ![Follow(uf[x].path)][n] = i]

\* The fid is on the file it has made, which is open.
OnNew(x, path, d, isdir) ==
    [uf[x] EXCEPT !.path = path, !.omode = "read", !.isdir = isdir,
                  !.fd = IF isdir THEN @ ELSE d, !.dir = IF isdir THEN d ELSE @]

\* A regular file or a directory.  When the stat that follows fails the name
\* is removed, and the descriptor of a file stays.
npfs_create(x, n, kind) ==
    LET i == Least(FreeInodes)
        d == Least(FreeFds) IN
    /\ ~mapped /\ Makes(x, n) /\ FreeFds # {}
    /\ Calm(Bare(x) /\ NotUsed(x, n))
    /\ fds' = [fds EXCEPT ![d] = i]
    /\ ino' = [ino EXCEPT ![i] = Inode(kind, kind)]
    /\ \/ /\ ents' = Entered(x, n, i)
          /\ uf' = [uf EXCEPT ![x] = OnNew(x, ufs_join(uf[x].path, n), d, kind = "dir")]
       \/ /\ kind = "file"
          /\ uf' = [uf EXCEPT ![x].fd = d]
          /\ UNCHANGED ents
    /\ UNCHANGED mapped

\* Tcreate of a symlink, a device or a pipe opens nothing: the fid is on it.
\* The node stays when its mode cannot be set, and the fid where it was.
npfs_create_special(x, n, kind) ==
    /\ ~mapped /\ Makes(x, n)
    /\ Calm(Bare(x) /\ NotUsed(x, n))
    /\ ino' = [ino EXCEPT ![Least(FreeInodes)] = Inode(kind, kind)]
    /\ ents' = Entered(x, n, Least(FreeInodes))
    /\ \/ uf' = [uf EXCEPT ![x] = OnNew(x, ufs_join(uf[x].path, n), uf[x].fd, FALSE)]
       \/ kind = "node" /\ UNCHANGED uf
    /\ UNCHANGED <<mapped, fds>>

\* A second name for the file of another fid.  The name stays when the mode
\* cannot be set, and the fid where it was.
CreateLink(x, n, y) ==
    LET i == Follow(uf[y].path) IN
    /\ ~mapped /\ NameFree(x, n)
    /\ uf[y].used /\ i # None /\ ino[i].kind # "dir"
    /\ Calm(Bare(x) /\ NotUsed(x, n))
    /\ ents' = Entered(x, n, i)
    /\ \/ uf' = [uf EXCEPT ![x] = OnNew(x, ufs_join(uf[x].path, n), uf[x].fd, FALSE)]
       \/ UNCHANGED uf
    /\ UNCHANGED <<mapped, ino, fds>>

\* Tcreate and Tlcreate of a file that is refused: the descriptor Tunlinkat has
\* opened is forgotten.
NotCreated(x) ==
    /\ InDir(x) /\ uf[x].fd # None
    /\ Calm(FALSE)
    /\ uf' = [uf EXCEPT ![x].fd = None]
    /\ UNCHANGED <<mapped, ents, ino, fds>>

\* Tsymlink, Tmknod, Tmkdir.  Whether the stat that follows fails makes no
\* difference.
Make(x, n, kind) ==
    /\ ~mapped /\ Makes(x, n)
    /\ Calm(NotUsed(x, n))
    /\ ino' = [ino EXCEPT ![Least(FreeInodes)] = Inode(kind, kind)]
    /\ ents' = Entered(x, n, Least(FreeInodes))
    /\ UNCHANGED <<mapped, fds, uf>>

\* Tlcreate of a file that is not there: when the stat fails it is removed,
\* and the fid is on its path nevertheless.
LcreateNew(x, n) ==
    LET i == Least(FreeInodes)
        d == Least(FreeFds)
        npath == ufs_join(uf[x].path, n) IN
    /\ ~mapped /\ Makes(x, n) /\ FreeFds # {}
    /\ Calm(Bare(x) /\ NotUsed(x, n))
    /\ \/ /\ ino' = [ino EXCEPT ![i] = Inode("file", "file")]
          /\ ents' = Entered(x, n, i)
          /\ fds' = [fds EXCEPT ![d] = i]
          /\ uf' = [uf EXCEPT ![x] = OnNew(x, npath, d, FALSE)]
       \/ /\ uf' = [uf EXCEPT ![x].path = npath, ![x].fd = None]
          /\ UNCHANGED <<ents, ino, fds>>
    /\ UNCHANGED mapped

\* Of one that is there it is an open, without O_EXCL, and with mapped ids without
\* O_CREAT, which opens directories too; when the stat fails the file is removed
\* all the same, unless the ids are mapped.
LcreateOld(x, n) ==
    LET d == Least(FreeFds)
        npath == ufs_join(uf[x].path, n)
        i == Follow(npath) IN
    /\ InDir(x) /\ FreeFds # {}
    /\ i # None /\ ino[i].kind \in (IF mapped THEN {"file", "node", "dir"} ELSE {"file", "node"})
    /\ Calm(Bare(x) /\ ~InUse(x, npath))
    /\ \/ /\ fds' = [fds EXCEPT ![d] = i]
          /\ uf' = [uf EXCEPT ![x] = [OnNew(x, npath, d, FALSE) EXCEPT !.isdir = ustat2qidtype(ufs_lstat(npath))]]
          /\ UNCHANGED <<ents, ino>>
       \/ /\ ents' = IF mapped THEN ents ELSE Unlink(Parent(npath), n)
          /\ ino' = Gone(ents', fds)
          /\ uf' = [uf EXCEPT ![x].path = npath, ![x].fd = None]
          /\ UNCHANGED fds
    /\ UNCHANGED mapped

----------------------------------------------------------------------------
(* Making files with them *)

\* The file is made for the server, and the attributes are still to be set.
\* Tlcreate opens a file; a symlink and a node are files, too.
MappedMake(x, n, as, k) ==
    LET i == Least(FreeInodes)
        d == IF k = "lcreate" THEN Least(FreeFds) ELSE None IN
    /\ mapped /\ Makes(x, n)
    /\ k = "lcreate" => FreeFds # {}
    /\ Calm(NotUsed(x, n) /\ (k = "lcreate" => Bare(x)))
    /\ ino' = [ino EXCEPT ![i] = Inode(IF as = "dir" THEN "dir" ELSE "file", as)]
    /\ ents' = Entered(x, n, i)
    /\ fds' = IF d = None THEN fds ELSE [fds EXCEPT ![d] = i]
    /\ uf' = [uf EXCEPT ![x].fd = IF d = None THEN @ ELSE d,
                        ![x].job = [NoJob EXCEPT !.k = k, !.path = ufs_join(uf[x].path, n),
                                                 !.as = as, !.ino = i, !.left = Virtfs(as)]]
    /\ UNCHANGED mapped

\* mapped_symlink, mapped_mknod and the mapped half of npfs_mkdir differ in what
\* the file is to be shown as.
mapped_symlink(x, n) == MappedMake(x, n, "link", "make")
mapped_mknod(x, n) == MappedMake(x, n, "node", "make")

npfs_lcreate(x, n) == LcreateNew(x, n) \/ LcreateOld(x, n) \/ MappedMake(x, n, "file", "lcreate")
npfs_symlink(x, n) == Make(x, n, "link") \/ mapped_symlink(x, n)
npfs_mknod(x, n) == Make(x, n, "node") \/ mapped_mknod(x, n)
npfs_mkdir(x, n) == Make(x, n, "dir") \/ MappedMake(x, n, "dir", "make")

\* mapped_put: by the path, whatever is there now.
Put(i, attr, as) ==
    [ino EXCEPT ![i].attrs = @ \cup {attr}, ![i].mode = IF attr = "mode" THEN as ELSE @]
Puttable(i) == i # None /\ ino[i].kind # "link"

mapped_create(x) ==
    LET job == uf[x].job
        i == Follow(job.path) IN
    /\ job.k \in {"lcreate", "make"} /\ job.left # <<>>
    /\ Puttable(i)
    /\ ino' = Put(i, Head(job.left), job.as)
    /\ uf' = [uf EXCEPT ![x].job.left = Tail(@)]
    /\ UNCHANGED <<mapped, calm, ents, fds>>

\* Mutant: the file is left behind.
Undone_kept(job) == ents

\* remove, rmdir or unlink of the path.
Undone(job) ==
    LET i == Follow(job.path) IN
    IF i # None /\ Empty(i) /\ (job.k = "make" => (ino[i].kind = "dir") <=> (job.as = "dir"))
    THEN Unlink(Parent(job.path), Last(job.path)) ELSE ents

\* Mutant: the descriptor is closed and kept.
CloseMade_kept(x) == uf[x].fd

CloseMade(x) == IF uf[x].job.k = "lcreate" THEN None ELSE uf[x].fd

\* An attribute cannot be set, or at last the stat fails: the file is removed.
\* After a stat that failed Tlcreate leaves the fid on the path; others remove nothing.
MakeFailed(x) ==
    LET job == uf[x].job
        statfailed == job.left = <<>> IN
    /\ job.k = "lcreate" \/ (job.k = "make" /\ ~statfailed)
    /\ fds' = IF job.k = "lcreate" THEN Close(fds, uf[x].fd) ELSE fds
    /\ ents' = Undone(job)
    /\ ino' = Gone(ents', fds')
    /\ uf' = [uf EXCEPT ![x].fd = CloseMade(x), ![x].job = NoJob,
                        ![x].path = IF statfailed THEN job.path ELSE @]
    /\ UNCHANGED <<mapped, calm>>

MakeDone(x) ==
    LET job == uf[x].job
        f == IF job.k = "lcreate" THEN OnNew(x, job.path, uf[x].fd, FALSE) ELSE uf[x] IN
    /\ job.k \in {"lcreate", "make"} /\ job.left = <<>>
    /\ uf' = [uf EXCEPT ![x] = [f EXCEPT !.job = NoJob]]
    /\ UNCHANGED <<mapped, calm, ents, ino, fds>>

----------------------------------------------------------------------------
(* setattr *)

\* The type is looked at, and set again together with the permissions.  Whether
\* the owner is set too is not told apart.
npfs_setattr(x) ==
    /\ mapped /\ Ready(x)
    /\ fidstat(x) # "error"
    /\ uf' = [uf EXCEPT ![x].job = [NoJob EXCEPT !.k = "set", !.path = uf[x].path, !.as = fidstat(x),
                                                 !.left = <<"mode">>]]
    /\ UNCHANGED <<mapped, calm, ents, ino, fds>>

SetPut(x) ==
    LET job == uf[x].job
        i == Follow(job.path) IN
    /\ job.k = "set" /\ job.left # <<>>
    /\ Puttable(i)
    /\ ino' = Put(i, Head(job.left), job.as)
    /\ uf' = [uf EXCEPT ![x].job.left = Tail(@)]
    /\ UNCHANGED <<mapped, calm, ents, fds>>

\* All is set, or the rest was not asked for or failed.
SetDone(x) ==
    /\ uf[x].job.k = "set"
    /\ uf' = [uf EXCEPT ![x].job = NoJob]
    /\ UNCHANGED <<mapped, calm, ents, ino, fds>>

----------------------------------------------------------------------------
(* rename, remove *)

\* Trename, Twstat: the path of this fid changes, those of others do not.
Rename(x, to) ==
    /\ Ready(x)
    /\ MayRename(uf[x].path, to)
    /\ Calm(~InUse(x, uf[x].path) /\ ~InUse(x, to))
    /\ ents' = Renamed(uf[x].path, to)
    /\ ino' = Gone(ents', fds)
    /\ uf' = [uf EXCEPT ![x].path = to]
    /\ UNCHANGED <<mapped, fds>>

npfs_rename(x, y, n) == Ready(y) /\ Rename(x, ufs_join(uf[y].path, n))
npfs_wstat(x, n) == ~mapped /\ uf[x].path # <<>> /\ Rename(x, ufs_join(Front(uf[x].path), n))

npfs_renameat(x, n, y, m) ==
    LET from == ufs_join(uf[x].path, n)
        to == ufs_join(uf[y].path, m)
        users == {z \in UFids : uf[z].used /\ (IsPrefix(from, uf[z].path) \/ IsPrefix(to, uf[z].path))} IN
    /\ InDir(x) /\ InDir(y)
    /\ MayRename(from, to)
    /\ Calm(users = {} /\ ~InUse(x, from) /\ ~InUse(y, to))
    /\ ents' = Renamed(from, to)
    /\ ino' = Gone(ents', fds)
    /\ UNCHANGED <<mapped, fds, uf>>

\* The name is looked up in the directory the descriptor is open on.
npfs_unlinkat(x, n) ==
    LET d == IF uf[x].fd # None THEN uf[x].fd ELSE Least(FreeFds)
        i == IF uf[x].fd # None THEN fds[uf[x].fd] ELSE Follow(uf[x].path) IN
    /\ InDir(x)
    /\ uf[x].fd = None => FreeFds # {} /\ Follow(uf[x].path) # None
    /\ Calm(~InUse(x, ufs_join(uf[x].path, n)))
    /\ fds' = [fds EXCEPT ![d] = i]
    /\ ents' = IF i # None /\ ents[i][n] # None /\ Empty(ents[i][n]) THEN Unlink(i, n) ELSE ents
    /\ ino' = Gone(ents', fds')
    /\ uf' = [uf EXCEPT ![x].fd = d]
    /\ UNCHANGED mapped

npfs_fiddestroy(ds, x) == Close(Close(ds, uf[x].fd), uf[x].dir)

npfs_remove(x) ==
    /\ Ready(x)
    /\ Removable(uf[x].path)
    /\ Calm(~InUse(x, uf[x].path))
    /\ fds' = npfs_fiddestroy(fds, x)
    /\ ents' = Unlink(Parent(uf[x].path), Last(uf[x].path))
    /\ ino' = Gone(ents', fds')
    /\ uf' = [uf EXCEPT ![x] = Unused]
    /\ UNCHANGED mapped

----------------------------------------------------------------------------
(* Directories, extended attributes, clunk *)

\* A directory that could not be opened as one is read through the descriptor
\* Tunlinkat has opened, which is then held twice.  (Otherwise nothing changes
\* but the place in the directory, which is left out.)
npfs_readdir(x) ==
    /\ Ready(x) /\ uf[x].omode = "read" /\ uf[x].isdir
    /\ uf[x].dir = None /\ uf[x].fd # None
    /\ fds[uf[x].fd] # None /\ ino[fds[uf[x].fd]].kind = "dir"
    /\ Calm(FALSE)
    /\ uf' = [uf EXCEPT ![x].dir = uf[x].fd]
    /\ UNCHANGED <<mapped, ents, ino, fds>>

\* The value is fetched into a new fid.
npfs_xattrwalk(x, y) ==
    /\ Ready(x) /\ ~uf[y].used /\ ~IsXattr(x)
    /\ Follow(uf[x].path) # None
    /\ uf' = [uf EXCEPT ![y] = [UfsFid(uf[x].path) EXCEPT !.omode = "read", !.isdir = FALSE,
                                                          !.xa = "fetched"]]
    /\ UNCHANGED <<mapped, calm, ents, ino, fds>>

\* Room is made for it: nothing yet, and "empty" if it is to have no length.
npfs_xattrcreate(x, v) ==
    /\ Ready(x) /\ ~IsXattr(x)
    /\ Calm(Bare(x))
    /\ uf' = [uf EXCEPT ![x].xa = v, ![x].xname = TRUE, ![x].omode = "write"]
    /\ UNCHANGED <<mapped, ents, ino, fds>>

npfs_xattrwrite(x) ==
    /\ Ready(x) /\ uf[x].xa = "raw"
    /\ uf' = [uf EXCEPT ![x].xa = "full"]
    /\ UNCHANGED <<mapped, calm, ents, ino, fds>>

\* A value reaches the file now, if it is still there, or the fid stays.  (The
\* clients' attributes of files are not told apart.)
npfs_clunk(x) ==
    /\ Ready(x)
    /\ uf[x].xname /\ uf[x].omode # "read" => Follow(uf[x].path) # None
    /\ fds' = npfs_fiddestroy(fds, x)
    /\ ino' = Gone(ents, fds')
    /\ uf' = [uf EXCEPT ![x] = Unused]
    /\ UNCHANGED <<mapped, calm, ents>>

----------------------------------------------------------------------------
(* ufs_checkpoint, ufs_restore *)

\* struct cbuf: the place, the end, what was put with its length, what was got.
buf_init(sz, put) == [p |-> 0, ep |-> sz, put |-> put, got |-> <<>>]
buf_check_overflow(b) == b.p > b.ep
buf_check_size(b, n) == b.p + n <= b.ep

\* No room: the place moves behind the end, unless it is there.
NoRoom(b) == [b EXCEPT !.p = IF @ < b.ep THEN b.ep + 1 ELSE @]

\* buf_put_*: a field, a string with its length in front, or bytes.
buf_put(b, fld) ==
    IF buf_check_size(b, fld.n) THEN [b EXCEPT !.p = @ + fld.n, !.put = Append(@, fld)] ELSE NoRoom(b)

\* buf_get_*: what was put there, if it was of this length.
Field(b) == b.put[Len(b.got) + 1]
buf_get(b, n) ==
    IF buf_check_size(b, n)
    THEN [b EXCEPT !.p = @ + n, !.got = Append(@, IF Field(b).n = n THEN Field(b).v ELSE "junk")]
    ELSE [NoRoom(b) EXCEPT !.got = Append(@, "junk")]
buf_get_str(b) == buf_get(b, Field(b).n)

Num(n, v) == [n |-> n, v |-> v]
Str(len, v) == [n |-> 2 + len, v |-> v]
NameLen(x) == IF uf[x].xname THEN 1 ELSE 0
XattrSize(x) == IF uf[x].xa \in {"none", "empty"} THEN 0 ELSE 1

\* The record of a fid.  diroffset, the user, the mode of the Fid and the flags
\* of the attribute are not told apart.
FidRecord(x) ==
    <<Num(4, x), Num(2, uf[x].omode), Num(2, [dir |-> uf[x].isdir, xattr |-> IsXattr(x)]), Num(4, 0),
      Num(4, 0), Str(Len(uf[x].path), uf[x].path), Num(4, 0), Str(NameLen(x), uf[x].xname), Num(4, 0),
      Num(8, XattrSize(x)), Num(XattrSize(x), uf[x].xa)>>

\* The size of all is computed first: 36 bytes are the fields of a fixed length.
CheckpointSize(xs) ==
    LET sz[i \in 0..Len(xs)] ==
          IF i = 0 THEN 10
          ELSE sz[i - 1] + 36 + Len(uf[xs[i]].path) + NameLen(xs[i]) + XattrSize(xs[i])
    IN  sz[Len(xs)]

\* Fields one after the other.
buf_put_all(b, flds) ==
    LET c[k \in 0..Len(flds)] == IF k = 0 THEN b ELSE buf_put(c[k - 1], flds[k]) IN c[Len(flds)]

\* The header, and the records of all fids.
ufs_checkpoint(xs) ==
    LET hdr == <<Num(4, 0), Num(1, 0), Num(1, 0), Num(4, Len(xs))>>
        b[i \in 0..Len(xs)] == IF i = 0 THEN buf_put_all(buf_init(CheckpointSize(xs), <<>>), hdr)
                               ELSE buf_put_all(b[i - 1], FidRecord(xs[i])) IN
    b[Len(xs)]

\* The fields of a record in the order they are read in: the path and the name
\* are strings, and the length of the value stands in front of it.
ReadRecord(b) ==
    LET len == <<4, 2, 2, 4, 4, 0, 4, 0, 4, 8>>
        c[k \in 0..11] == IF k = 0 THEN b
                          ELSE IF k \in {6, 8} THEN buf_get_str(c[k - 1])
                          ELSE buf_get(c[k - 1], IF k = 11 THEN Last(c[k - 1].got) ELSE len[k]) IN
    c[11]

\* The buffer after n records have been read.
ReadRecords(buf, n) ==
    LET b[i \in 0..n] == IF i = 0 THEN buf_get(buf_get(buf_get(buf_get(buf, 4), 1), 1), 4)
                         ELSE ReadRecord(b[i - 1]) IN
    b[n]

\* Mutant: a fid that holds an attribute is not told apart from others.
RestoredXattr_file(xattr, size, data) == "none"

\* There are data for a value of no length, too.
RestoredXattr(xattr, size, data) ==
    IF ~xattr THEN "none" ELSE IF size > 0 THEN data ELSE "empty"

\* The fid of the i-th record.
Unpacked(got, i) ==
    LET r == SubSeq(got, 11 * i - 6, 11 * i + 4) IN
    [UfsFid(r[6]) EXCEPT !.omode = r[2], !.isdir = r[3].dir, !.xname = r[8],
                         !.xa = RestoredXattr(r[3].xattr, r[10], r[11])]

Reopened == {x \in UFids : uf[x].used /\ uf[x].omode # "no"}

\* restore_setup_fids: the fid f with its file opened again, as descriptor d.
Restored(f, d) ==
    IF f.omode = "no" THEN f
    ELSE IF ufs_lstat(f.path) = "dir" THEN [f EXCEPT !.dir = d] ELSE [f EXCEPT !.fd = d]

\* The connection as it is written after a request and read again by a server
\* that is started anew: all of the buffer, and no more.
UsedFids == SetToSeq({x \in UFids : uf[x].used})
ReadAgain(xs) ==
    LET b == ufs_checkpoint(xs) IN
    IF buf_check_overflow(b) THEN b ELSE ReadRecords(buf_init(b.ep, b.put), Len(xs))

\* The state of the connection is written; the server stops; another one
\* restores it.  Every path must be there and open.
ufs_restore ==
    /\ \A x \in UFids : uf[x].used => Ready(x) /\ fidstat(x) # "error"
    /\ \A x \in Reopened : Opens(uf[x].path)
    /\ \E b \in {ReadAgain(UsedFids)} :
         /\ ~buf_check_overflow(b) /\ ~buf_check_size(b, 1)
         /\ \E d \in [UFids -> Fds] :
              /\ \A x, y \in UFids : x # y => d[x] # d[y]
              /\ fds' = [e \in Fds |-> IF \E x \in Reopened : d[x] = e
                                       THEN Follow(uf[CHOOSE x \in Reopened : d[x] = e].path) ELSE None]
              /\ uf' = [x \in UFids |-> IF ~uf[x].used THEN uf[x]
                                        ELSE LET i == CHOOSE k \in DOMAIN UsedFids : UsedFids[k] = x IN
                                             Restored(Unpacked(b.got, i), d[x])]
    /\ ino' = Gone(ents, fds')
    /\ UNCHANGED <<mapped, calm, ents>>

----------------------------------------------------------------------------

Handle(x) ==
    \/ npfs_attach(x)
    \/ \E n \in UNames : npfs_walk(x, n) \/ npfs_unlinkat(x, n) \/ npfs_wstat(x, n)
    \/ npfs_open(x) \/ npfs_lopen(x) \/ OpenRefused(x)
    \/ \E n \in UNames, kind \in {"file", "dir"} : npfs_create(x, n, kind)
    \/ \E n \in UNames, kind \in {"link", "node"} : npfs_create_special(x, n, kind)
    \/ \E n \in UNames : npfs_lcreate(x, n) \/ npfs_symlink(x, n) \/ npfs_mknod(x, n) \/ npfs_mkdir(x, n)
    \/ NotCreated(x)
    \/ mapped_create(x) \/ MakeFailed(x) \/ MakeDone(x)
    \/ npfs_setattr(x) \/ SetPut(x) \/ SetDone(x)
    \/ npfs_remove(x) \/ npfs_readdir(x)
    \/ \E v \in {"raw", "empty"} : npfs_xattrcreate(x, v)
    \/ npfs_xattrwrite(x) \/ npfs_clunk(x)

HandleTwo(x, y) ==
    \/ npfs_clone(x, y) \/ npfs_xattrwalk(x, y)
    \/ \E n \in UNames : npfs_rename(x, y, n) \/ CreateLink(x, n, y)
    \/ \E n, m \in UNames : npfs_renameat(x, n, y, m)

UfsNext ==
    /\ calm
    /\ \/ \E x \in UFids : Handle(x)
       \/ \E x, y \in UFids : HandleTwo(x, y)
       \/ ufs_restore

UfsSpec == UfsInit /\ [][UfsNext]_uvars

----------------------------------------------------------------------------
(* Properties *)

Held(x) == {uf[x].fd, uf[x].dir} \ {None}

(***************************************************************************)
(* For calm clients every open descriptor is held by one fid, once, and    *)
(* every descriptor a fid holds is open, on the file the fid's path names: *)
(* npfs_fiddestroy closes each one once, and none that meanwhile belongs   *)
(* to another fid, whatever handlers have failed half-way.  A descriptor   *)
(* npfs_create has left on the fid of the directory is excepted.           *)
(***************************************************************************)
FdOwned ==
    calm => /\ \A d \in Fds : fds[d] # None => Cardinality({x \in UFids : d \in Held(x)}) = 1
            /\ \A x \in UFids : /\ uf[x].fd # None => uf[x].fd # uf[x].dir
                                /\ \A d \in Held(x) : fds[d] # None
                                /\ \A d \in Held(x) :
                                     uf[x].job.k # "lcreate" /\ (uf[x].isdir => ino[fds[d]].kind = "dir")
                                       => fds[d] = Follow(uf[x].path)

\* A handler is about to set the attributes of inode i.
InMaking(i) == \E x \in UFids : uf[x].job.k \in {"lcreate", "make"} /\ uf[x].job.ino = i

(***************************************************************************)
(* With mapped ids a file the server has made carries all its attributes,  *)
(* or is still being made: npfs_lcreate, npfs_symlink, npfs_mknod and      *)
(* npfs_mkdir leave no half of one behind when an attribute cannot be set. *)
(* And it is shown for ever as what it was made as, though the type lives  *)
(* in an attribute that npfs_setattr reads and writes back: true as long   *)
(* as nobody touches it before it is made.                                 *)
(***************************************************************************)
MappedWhole ==
    calm /\ mapped =>
        \A i \in Inodes : ino[i].as \notin {"none", "host"} /\ ~InMaking(i) =>
            ToSet(Virtfs(ino[i].as)) \subseteq ino[i].attrs /\ mapped_stat(i) = ino[i].as

\* What a client learns through fid x.
Shown(x) ==
    IF IsXattr(x) THEN [xattr |-> npfs_xattrread(x)]
    ELSE [attr |-> npfs_getattr(x), stat |-> npfs_stat(x), statfs |-> npfs_statfs(x),
          link |-> npfs_readlink(x), read |-> npfs_read(x), write |-> npfs_write(x),
          fsync |-> npfs_fsync(x), flock |-> npfs_flock(x), getlock |-> npfs_getlock(x)]

\* The fid has open what its path names.
Lasting(x) ==
    \/ uf[x].omode = "no" /\ Bare(x)
    \/ uf[x].omode # "no" /\ Behind(IF fidstat(x) = "dir" THEN uf[x].dir ELSE uf[x].fd) = Follow(uf[x].path)

(***************************************************************************)
(* A restored connection shows a calm client what the old one did through  *)
(* every fid, apart from those whose open failed: the type, the target and *)
(* the open file, or the attribute value the fid holds (ufs_checkpoint,    *)
(* ufs_restore).                                                           *)
(***************************************************************************)
RestoreSame ==
    [][\A x \in UFids : \/ uf[x].used /\ (Lasting(x) \/ IsXattr(x)) => Shown(x)' = Shown(x)
                        \/ ~(calm /\ ufs_restore)]_uvars
=============================================================================
