------------------------------- MODULE NpFile -------------------------------
(***************************************************************************)
(* Synthetic file trees (libnpfs/file.c) with the operations of a server   *)
(* that keeps its files in memory (fs/ramfs2.c): the files with their      *)
(* reference counts, the lists of directories, the fids on them, and the   *)
(* worker threads that carry out the messages.                             *)
(*                                                                         *)
(* A step is a section under the lock of a file or the code between two.   *)
(* Times, owners and permissions are left out: npfile_checkperm may answer *)
(* either way.  What files hold is NpFileData's.  A fid has one message at *)
(* a time (NpFid is about the rest).  Nothing is modelled after a null or  *)
(* dangling pointer was followed.                                          *)
(***************************************************************************)
EXTENDS Integers, Sequences, SequencesExt, FiniteSets

CONSTANTS FFids,     \* fids of the clients
          Workers,   \* worker threads
          Names,     \* names of files
          MaxFiles,  \* how many files are created
          MaxLost    \* how often the references of a file are forgotten

ASSUME NpFileAssumption ==
    /\ {MaxFiles, MaxLost} \subseteq Nat
    /\ IsFiniteSet(FFids) /\ IsFiniteSet(Workers)
    /\ -1 \notin FFids

Root == 0
Nil == -1   \* the null pointer
Files == 0..MaxFiles

VARIABLES
    polite,   \* whether the clients keep to what is said at Polite
    tree,     \* Npfile
    kids,     \* dirfirst .. dirlast
    ff,       \* Npfilefid, and omode and diroffset of its Npfid
    fw,       \* the workers
    crashed   \* a null pointer was followed

vars == <<polite, tree, kids, ff, fw, crashed>>

\* lost and owed count the references the code forgets to give back, and those
\* it gives back without having taken them.
NoFile == [st |-> "none", ref |-> 0, lost |-> 0, owed |-> 0, parent |-> Nil, dir |-> FALSE,
           name |-> Nil]

\* open is Npfid.omode, own Npfilefid.omode: the file itself agreed.
\* due are the entries a read of the directory has still to return, cut says
\* that the entry to be read next was taken out of the list.
NoFid == [file |-> Nil, open |-> FALSE, own |-> FALSE, dirent |-> Nil, begun |-> FALSE,
          due |-> {}, cut |-> FALSE]

\* file is what the fid was on, got what was found or made.
Idle == [pc |-> "idle", fid |-> Nil, file |-> Nil, got |-> Nil, name |-> Nil]

\* The root as main makes it.
NpFileInit ==
    /\ polite \in BOOLEAN
    /\ tree = [f \in Files |-> IF f = Root
                               THEN [NoFile EXCEPT !.st = "live", !.ref = 1, !.parent = Root, !.dir = TRUE]
                               ELSE NoFile]
    /\ kids = [f \in Files |-> <<>>]
    /\ ff = [x \in FFids |-> NoFid]
    /\ fw = [w \in Workers |-> Idle]
    /\ crashed = FALSE

----------------------------------------------------------------------------
(* References and locks *)

npfile_incref(t, f) == IF f = Nil THEN t ELSE [t EXCEPT ![f].ref = @ + 1]

\* Mutant: the file is freed one reference later.
npfile_decref_late(t, f) ==
    IF f = Nil THEN t
    ELSE IF t[f].ref = 0 THEN [t EXCEPT ![f] = [NoFile EXCEPT !.st = "freed", !.owed = @ + t[f].owed]]
    ELSE [t EXCEPT ![f].ref = @ - 1]

\* The last reference frees the file.
npfile_decref(t, f) ==
    IF f = Nil THEN t
    ELSE IF t[f].ref = 1 THEN [t EXCEPT ![f] = [NoFile EXCEPT !.st = "freed", !.owed = @ + t[f].owed]]
    ELSE [t EXCEPT ![f].ref = @ - 1]

Forget(t, f) == IF f = Nil THEN t ELSE [t EXCEPT ![f].lost = @ + 1]
Owe(t, f) == IF f = Nil THEN t ELSE [t EXCEPT ![f].owed = @ + 1]

\* Everything that points to a file.
Listed(f) == \E d \in Files : f \in ToSet(kids[d])
Pointed(f) ==
    \/ Listed(f)
    \/ \E g \in Files \ {Root} : tree[g].st = "live" /\ tree[g].parent = f
    \/ \E x \in FFids : f \in {ff[x].file, ff[x].dirent}
    \/ \E w \in Workers : f \in {fw[w].file, fw[w].got}
Dangling == \E f \in Files : tree[f].st = "freed" /\ Pointed(f)

\* A file and its parent are locked by the worker that renames it, for ever.
Unlocked(f) ==
    \A w \in Workers : fw[w].pc = "stuck" => f \notin {fw[w].file, tree[fw[w].file].parent}

Busy(x) == \E w \in Workers : fw[w].fid = x
\* The bound on lost and owed.
MayForget(f) == f # Nil => tree[f].lost < MaxLost
MayOwe(f) == tree[f].owed < MaxLost
\* Worker w takes a message about fid x.
Begin(w, x) == fw[w].pc = "idle" /\ ff[x].file # Nil /\ ~Busy(x)
Working(w, x, pc) == [Idle EXCEPT !.pc = pc, !.fid = x, !.file = ff[x].file]

\* Who else has to do with file f.
Others(x, f) ==
    \/ \E y \in FFids \ {x} : ff[y].file = f
    \/ \E w \in Workers : fw[w].fid # x /\ f \in {fw[w].file, fw[w].got}

(***************************************************************************)
(* Polite clients do not walk to "..", walk from files that are no         *)
(* directories, rename, remove the root, remove a file others use, or      *)
(* create two files of one name at a time.                                 *)
(***************************************************************************)
Polite(p) == polite => p

----------------------------------------------------------------------------
(* attach, clone, walk *)

npfile_attach(w, x) ==
    /\ fw[w].pc = "idle" /\ ff[x].file = Nil
    /\ Unlocked(Root)
    /\ tree' = npfile_incref(tree, Root)
    /\ ff' = [ff EXCEPT ![x].file = Root]
    /\ UNCHANGED <<polite, kids, fw, crashed>>

npfile_clone(w, x, y) ==
    LET f == ff[x].file IN
    /\ Begin(w, x) /\ ~ff[x].open
    /\ ff[y].file = Nil
    /\ Unlocked(f)
    /\ tree' = npfile_incref(tree, f)
    /\ ff' = [ff EXCEPT ![y].file = f]
    /\ UNCHANGED <<polite, kids, fw, crashed>>

\* npfile_find looks through the list with first and next, which take a
\* reference of each file; the last one is kept.
Named(d, n) == {f \in ToSet(kids[d]) : tree[f].name = n}
FirstNamed(d, n) ==
    IF Named(d, n) = {} THEN Nil
    ELSE kids[d][CHOOSE i \in DOMAIN kids[d] :
                     tree[kids[d][i]].name = n /\ \A j \in 1..(i - 1) : tree[kids[d][j]].name # n]

\* Mutant: the file found is not referred to.
npfile_find_bare(d, n) == [got |-> FirstNamed(d, n), tree |-> tree]

npfile_find(d, n) == [got |-> FirstNamed(d, n), tree |-> npfile_incref(tree, FirstNamed(d, n))]

WalkFind(w, x, n) ==
    LET d == ff[x].file IN
    /\ Begin(w, x) /\ ~ff[x].open
    /\ tree[d].dir
    /\ Unlocked(d) /\ \A f \in ToSet(kids[d]) : Unlocked(f)
    /\ npfile_find(d, n).got # Nil
    /\ Polite(\A v \in Workers : fw[v].pc = "remove" => fw[v].file # npfile_find(d, n).got)
    /\ tree' = npfile_find(d, n).tree
    /\ fw' = [fw EXCEPT ![w] = [Working(w, x, "walk") EXCEPT !.got = npfile_find(d, n).got]]
    /\ UNCHANGED <<polite, kids, ff, crashed>>

\* npfile_find gives the parent without a reference.
WalkUp(w, x) ==
    LET p == tree[ff[x].file].parent IN
    /\ Begin(w, x) /\ ~ff[x].open
    /\ p # Nil
    /\ Polite(FALSE) /\ MayOwe(p)
    /\ tree' = Owe(tree, p)
    /\ fw' = [fw EXCEPT ![w] = [Working(w, x, "walk") EXCEPT !.got = p]]
    /\ UNCHANGED <<polite, kids, ff, crashed>>

\* The operations of a file are taken for those of a directory.
WalkFile(w, x) ==
    /\ Begin(w, x) /\ ~ff[x].open
    /\ ~tree[ff[x].file].dir
    /\ Polite(FALSE)
    /\ crashed' = TRUE
    /\ UNCHANGED <<polite, tree, kids, ff, fw>>

WalkMove(w) ==
    /\ fw[w].pc = "walk"
    /\ Unlocked(fw[w].file)
    /\ ff' = [ff EXCEPT ![fw[w].fid].file = fw[w].got]
    /\ tree' = npfile_decref(tree, fw[w].file)
    /\ fw' = [fw EXCEPT ![w] = Idle]
    /\ UNCHANGED <<polite, kids, crashed>>

----------------------------------------------------------------------------
(* open *)

\* np_open notes the mode whether npfile_open refuses or not.
npfile_open(w, x, ok) ==
    /\ Begin(w, x) /\ ~ff[x].open
    /\ Unlocked(ff[x].file)
    /\ ff' = [ff EXCEPT ![x].open = TRUE, ![x].own = ok]
    /\ UNCHANGED <<polite, tree, kids, fw, crashed>>

----------------------------------------------------------------------------
(* create *)

\* The reference of a file that is there already is forgotten.
CreateExists(w, x, n) ==
    LET d == ff[x].file IN
    /\ Begin(w, x) /\ ~ff[x].open /\ tree[d].dir
    /\ Unlocked(d) /\ \A f \in ToSet(kids[d]) : Unlocked(f)
    /\ npfile_find(d, n).got # Nil
    /\ MayForget(FirstNamed(d, n))
    /\ tree' = Forget(npfile_find(d, n).tree, npfile_find(d, n).got)
    /\ UNCHANGED <<polite, kids, ff, fw, crashed>>

CreateFind(w, x, n) ==
    LET d == ff[x].file IN
    /\ Begin(w, x) /\ ~ff[x].open /\ tree[d].dir
    /\ Unlocked(d) /\ \A f \in ToSet(kids[d]) : Unlocked(f)
    /\ Named(d, n) = {}
    /\ Polite(~\E v \in Workers : fw[v].file = d /\ fw[v].pc = "create" /\ fw[v].name = n)
    /\ fw' = [fw EXCEPT ![w] = [Working(w, x, "create") EXCEPT !.name = n]]
    /\ UNCHANGED <<polite, tree, kids, ff, crashed>>

\* rfs_create, npfile_alloc: the new file has a reference for the list and one
\* for the fid, and is a reference to the directory.
CreateMake(w, dir) ==
    LET d == fw[w].file
        free == {f \in Files : tree[f].st = "none"}
        f == CHOOSE g \in free : \A h \in free : g <= h IN
    /\ fw[w].pc = "create"
    /\ free # {}
    /\ Unlocked(d)
    /\ tree' = [npfile_incref(tree, d) EXCEPT
                   ![f] = [NoFile EXCEPT !.st = "live", !.ref = 2, !.parent = d, !.dir = dir,
                                         !.name = fw[w].name]]
    /\ kids' = [kids EXCEPT ![d] = Append(@, f)]
    /\ fw' = [fw EXCEPT ![w].pc = "made", ![w].got = f, ![w].name = Nil]
    /\ UNCHANGED <<polite, ff, crashed>>

\* rfs_create makes no links, check_perm may refuse.
CreateRefused(w) ==
    /\ fw[w].pc = "create"
    /\ fw' = [fw EXCEPT ![w] = Idle]
    /\ UNCHANGED <<polite, tree, kids, ff, crashed>>

\* The fid is on the new file now; its reference of the directory is forgotten.
CreateDone(w) ==
    /\ fw[w].pc = "made"
    /\ tree' = Forget(tree, fw[w].file)
    /\ ff' = [ff EXCEPT ![fw[w].fid] = [@ EXCEPT !.file = fw[w].got, !.open = TRUE, !.own = TRUE]]
    /\ fw' = [fw EXCEPT ![w] = Idle]
    /\ UNCHANGED <<polite, kids, crashed>>

----------------------------------------------------------------------------
(* read *)

\* rfs_first, rfs_next: a file that was removed has no next.
First(d) == IF kids[d] = <<>> THEN Nil ELSE kids[d][1]

\* Mutant: rfs_create does not link a new file behind the last one.
NextOf_none(d, f) == Nil

NextOf(d, f) ==
    IF \E i \in 1..(Len(kids[d]) - 1) : kids[d][i] = f
    THEN kids[d][1 + CHOOSE i \in DOMAIN kids[d] : kids[d][i] = f] ELSE Nil

\* One entry is returned, or none is left; or it does not fit.
DirEntry(x, cf, back) ==
    LET d == ff[x].file
        started == ff[x].begun
        due == IF started THEN ff[x].due ELSE ToSet(kids[d])
        nf == IF back THEN NextOf(d, cf) ELSE cf IN
    ff' = [ff EXCEPT ![x] = [@ EXCEPT !.dirent = nf, !.begun = started \/ (back /\ cf # Nil),
                                      !.due = due \ (IF back THEN {cf} ELSE {}),
                                      !.cut = started /\ ff[x].cut]]

npfile_read_dir(w, x, fits) ==
    LET d == ff[x].file
        old == ff[x].dirent
        cf == IF ff[x].begun THEN old ELSE First(d)
        t == IF ff[x].begun THEN tree ELSE npfile_incref(npfile_decref(tree, old), cf) IN
    /\ Begin(w, x) /\ ff[x].open /\ tree[d].dir
    /\ Unlocked(d) /\ \A f \in ToSet(kids[d]) \cup ({old} \ {Nil}) : Unlocked(f)
    /\ IF cf = Nil \/ ~fits
       THEN DirEntry(x, cf, FALSE) /\ tree' = t
       ELSE DirEntry(x, cf, TRUE) /\ tree' = npfile_decref(npfile_incref(t, NextOf(d, cf)), cf)
    /\ UNCHANGED <<polite, kids, fw, crashed>>

----------------------------------------------------------------------------
(* wstat, remove, clunk *)

\* A new name: npfile_wstat locks the file, rfs_wstat its parent, and npfile_find locks it again.
WstatName(w, x) ==
    LET f == ff[x].file IN
    /\ Begin(w, x)
    /\ Unlocked(f)
    /\ Polite(FALSE)
    /\ IF tree[f].parent = Nil
       THEN crashed' = TRUE /\ UNCHANGED fw
       ELSE Unlocked(tree[f].parent) /\ fw' = [fw EXCEPT ![w] = Working(w, x, "stuck")] /\ UNCHANGED crashed
    /\ UNCHANGED <<polite, tree, kids, ff>>

\* Mutant: only files are looked at.
IsEmpty_any(f) == TRUE

IsEmpty(f) == kids[f] = <<>>

\* npfile_remove: a directory is looked at under its own lock,
RemoveCheck(w, x) ==
    LET f == ff[x].file IN
    /\ Begin(w, x)
    /\ Unlocked(f)
    /\ IsEmpty(f)
    /\ Polite(f # Root /\ ~Others(x, f))
    /\ fw' = [fw EXCEPT ![w] = Working(w, x, "remove")]
    /\ UNCHANGED <<polite, tree, kids, ff, crashed>>

\* and taken out of the list under that of its parent.
TakeOut(f, p) ==
    /\ kids' = [kids EXCEPT ![p] = RemoveAt(@, CHOOSE i \in DOMAIN @ : @[i] = f)]
    /\ ff' = [x \in FFids |-> [ff[x] EXCEPT !.due = @ \ {f}, !.cut = @ \/ ff[x].dirent = f]]

\* Mutant: the parent keeps the reference of the file.
RemoveTree_kept(f, p) == npfile_decref([tree EXCEPT ![f].parent = Nil], f)

RemoveTree(f, p) == npfile_decref(npfile_decref([tree EXCEPT ![f].parent = Nil], f), p)

RemoveDo(w) ==
    LET f == fw[w].file
        p == tree[f].parent IN
    /\ fw[w].pc = "remove"
    /\ p # Nil => Unlocked(p) /\ Unlocked(f)
    /\ IF p = Nil \/ ~Listed(f)
       THEN crashed' = TRUE /\ UNCHANGED <<tree, kids, ff, fw>>
       ELSE /\ TakeOut(f, p)
            /\ tree' = RemoveTree(f, p)
            /\ fw' = [fw EXCEPT ![w].pc = "clunk"]
            /\ UNCHANGED crashed
    /\ UNCHANGED polite

\* Permission is denied: the fid stays.
RemoveRefused(w) ==
    /\ fw[w].pc = "remove"
    /\ fw' = [fw EXCEPT ![w] = Idle]
    /\ UNCHANGED <<polite, tree, kids, ff, crashed>>

\* npfile_fiddestroy gives up dirent only when the file itself was opened.
DropDirent(t, x) == IF ff[x].own THEN npfile_decref(t, ff[x].dirent) ELSE Forget(t, ff[x].dirent)

npfile_fiddestroy(x) ==
    /\ ff[x].own \/ MayForget(ff[x].dirent)
    /\ \A f \in {ff[x].file, ff[x].dirent} \ {Nil} : Unlocked(f)
    /\ tree' = npfile_decref(DropDirent(tree, x), ff[x].file)
    /\ ff' = [ff EXCEPT ![x] = NoFid]

npfile_clunk(w, x) ==
    /\ Begin(w, x)
    /\ npfile_fiddestroy(x)
    /\ UNCHANGED <<polite, kids, fw, crashed>>

\* The fid of a file that was removed.
RemoveClunk(w) ==
    /\ fw[w].pc = "clunk"
    /\ npfile_fiddestroy(fw[w].fid)
    /\ fw' = [fw EXCEPT ![w] = Idle]
    /\ UNCHANGED <<polite, kids, crashed>>

----------------------------------------------------------------------------

Take(w) ==
    \E x \in FFids :
        \/ npfile_attach(w, x)
        \/ \E y \in FFids : npfile_clone(w, x, y)
        \/ \E n \in Names : WalkFind(w, x, n) \/ CreateExists(w, x, n) \/ CreateFind(w, x, n)
        \/ WalkUp(w, x)
        \/ WalkFile(w, x)
        \/ \E ok \in BOOLEAN : npfile_open(w, x, ok)
        \/ \E fits \in BOOLEAN : npfile_read_dir(w, x, fits)
        \/ WstatName(w, x)
        \/ RemoveCheck(w, x)
        \/ npfile_clunk(w, x)

Run(w) ==
    \/ WalkMove(w)
    \/ \E dir \in BOOLEAN : CreateMake(w, dir)
    \/ CreateRefused(w)
    \/ CreateDone(w)
    \/ RemoveDo(w) \/ RemoveRefused(w) \/ RemoveClunk(w)

NpFileNext == ~crashed /\ ~Dangling /\ \E w \in Workers : Take(w) \/ Run(w)

NpFileSpec == NpFileInit /\ [][NpFileNext]_vars

----------------------------------------------------------------------------
(* Properties *)

(***************************************************************************)
(* The files, lists, fids and workers are what their C types say, and no   *)
(* live file has lost its last reference (npfile_decrefimpl).              *)
(***************************************************************************)
NpFileTypeOK ==
    /\ {polite, crashed} \subseteq BOOLEAN
    /\ \A f \in Files :
         /\ tree[f].st \in {"none", "live", "freed"}
         /\ tree[f].st = "live" => tree[f].ref > 0
         /\ {tree[f].ref, tree[f].lost, tree[f].owed} \subseteq Nat
         /\ tree[f].parent \in Files \cup {Nil}
         /\ kids[f] \in Seq(Files \ {Root})
    /\ \A x \in FFids : {ff[x].file, ff[x].dirent} \subseteq Files \cup {Nil} /\ ff[x].due \subseteq Files
    /\ \A w \in Workers : fw[w].fid \in FFids \cup {Nil} /\ {fw[w].file, fw[w].got} \subseteq Files \cup {Nil}

\* The references of file f that are kept somewhere: in the list (or as the
\* root), as the parent of a file, by fids, and by a worker on its way.
Refs(f) ==
    (IF f = Root \/ Listed(f) THEN 1 ELSE 0)
    + Cardinality({g \in Files \ {Root} : tree[g].st = "live" /\ tree[g].parent = f})
    + Cardinality({x \in FFids : ff[x].file = f}) + Cardinality({x \in FFids : ff[x].dirent = f})
    + Cardinality({w \in Workers : fw[w].got = f})

(***************************************************************************)
(* The count of a file is the number of places that hold a reference to    *)
(* it, apart from those the code is known to forget (npfile_create,        *)
(* npfile_fiddestroy after a refused open) and those walks to ".." give    *)
(* back too often, whatever the workers do at the same time.               *)
(***************************************************************************)
RefExact ==
    ~Dangling => \A f \in Files : tree[f].st = "live" => tree[f].ref = Refs(f) + tree[f].lost - tree[f].owed

(***************************************************************************)
(* Polite clients never make the server follow a null or dangling pointer: *)
(* no file is freed that a list, a fid or a worker points to, and          *)
(* npfile_remove finds its file in the list of its parent.                 *)
(***************************************************************************)
PoliteSafe == polite => ~crashed /\ ~Dangling

(***************************************************************************)
(* The names in a directory differ, and a directory that was removed holds *)
(* no files, though npfile_create and npfile_remove look before they take  *)
(* the lock again: true for polite clients.                                *)
(***************************************************************************)
TreeSound ==
    polite => \A d \in Files : /\ \A n \in Names : Cardinality(Named(d, n)) <= 1
                               /\ d # Root /\ ~Listed(d) => kids[d] = <<>>

(***************************************************************************)
(* A client that reads a directory to its end has been given every file    *)
(* that was there all the time, unless the entry to be read next was       *)
(* removed: rfs_remove clears its next pointer, and the rest is missed.    *)
(***************************************************************************)
DirAll == \A x \in FFids : ff[x].begun /\ ff[x].dirent = Nil => ff[x].due = {} \/ ff[x].cut
=============================================================================
