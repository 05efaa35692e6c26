---------------------------- MODULE NpFileProofs ----------------------------
(***************************************************************************)
(* The properties of NpFile, for any finite number of workers and fids and *)
(* any number of files and names: the counts of the files are exact, and   *)
(* with polite clients no null or dangling pointer is met, the names in a  *)
(* directory differ and a removed directory is empty; a directory is read  *)
(* completely.                                                             *)
(*                                                                         *)
(* The shape of the state (what a worker has in its hands, that a list and *)
(* the parents of its files agree) holds in every state; the counts hold   *)
(* until a file is freed too early, and then nothing more happens.         *)
(***************************************************************************)
EXTENDS NpFileData, NpSeqs, TLAPS, FiniteSetTheorems

Pcs == {"idle", "walk", "create", "made", "stuck", "remove", "clunk"}

FileOrNil == Files \cup {Nil}
NameOrNil == Names \cup {Nil}
FileRec == [st : {"none", "live", "freed"}, ref : Nat, lost : Nat, owed : Nat, parent : FileOrNil,
            dir : BOOLEAN, name : NameOrNil]
FidRec == [file : FileOrNil, open : BOOLEAN, own : BOOLEAN, dirent : FileOrNil, begun : BOOLEAN,
           due : SUBSET Files, cut : BOOLEAN]
WorkRec == [pc : Pcs, fid : FFids \cup {Nil}, file : FileOrNil, got : FileOrNil, name : NameOrNil]

TypeInv ==
    /\ polite \in BOOLEAN /\ crashed \in BOOLEAN
    /\ tree \in [Files -> FileRec]
    /\ kids \in [Files -> Seq(Files \ {Root})]
    /\ ff \in [FFids -> FidRec]
    /\ fw \in [Workers -> WorkRec]

\* A live file has a reference; one that was freed is empty.
Good(t) ==
    /\ t \in [Files -> FileRec]
    /\ \A f \in Files : t[f].st = "live" => t[f].ref > 0
    /\ \A f \in Files : t[f].st = "freed" => t[f].parent = Nil /\ t[f].name = Nil

\* What has not been made is nowhere.
LiveInv ==
    /\ Good(tree)
    /\ \A f \in Files : tree[f].st = "none" => tree[f] = NoFile /\ kids[f] = <<>> /\ ~Pointed(f)
    /\ tree[Root].st # "none"

\* The list of a directory and the parents of its files agree.
Once(s) == \A i, j \in DOMAIN s : s[i] = s[j] => i = j
ListInv ==
    /\ \A d \in Files : Once(kids[d])
    /\ \A d, f \in Files : f \in ToSet(kids[d]) /\ tree[f].st = "live" => tree[f].parent = d
    /\ \A f \in Files \ {Root} :
         tree[f].st = "live" /\ tree[f].parent # Nil => f \in ToSet(kids[tree[f].parent])
    /\ \A f \in Files \ {Root} : tree[f].parent # f
    /\ tree[Root].parent \in {Root, Nil}

\* What a worker has in its hands.  A fid is in those of one worker.
WorkShape(w) ==
    /\ fw[w].pc = "idle" => fw[w] = Idle
    /\ fw[w].pc # "idle" =>
         fw[w].fid \in FFids /\ fw[w].file \in Files /\ fw[w].file = ff[fw[w].fid].file
    /\ fw[w].pc \in {"walk", "made"} => fw[w].got \in Files /\ ~ff[fw[w].fid].open
    /\ fw[w].pc = "create" => ~ff[fw[w].fid].open
    /\ fw[w].pc \in {"create", "stuck", "remove", "clunk"} => fw[w].got = Nil
WorkInv ==
    /\ \A w \in Workers : WorkShape(w)
    /\ \A w, v \in Workers : fw[w].fid = fw[v].fid /\ fw[w].fid # Nil => w = v

\* A fid is open before it reads, and reads no entry that is its own file.
FidShape(x) ==
    /\ ff[x].file = Nil => ff[x] = NoFid
    /\ ~ff[x].open => ff[x].dirent = Nil /\ ~ff[x].begun
    /\ ff[x].dirent # Nil => ff[x].dirent # ff[x].file
FidInv == \A x \in FFids : FidShape(x)

\* What is still due comes at or after the entry to be read next.
Ahead(s, e, g) == \E i, j \in DOMAIN s : i <= j /\ s[i] = e /\ s[j] = g
ReadShape(x) ==
    ff[x].begun /\ ~ff[x].cut =>
      /\ ff[x].dirent = Nil => ff[x].due = {}
      /\ ff[x].dirent # Nil =>
           /\ ff[x].dirent \in ToSet(kids[ff[x].file])
           /\ \A g \in ff[x].due : Ahead(kids[ff[x].file], ff[x].dirent, g)
ReadInv == \A x \in FFids : ReadShape(x)

ShapeInv == TypeInv /\ LiveInv /\ ListInv /\ WorkInv /\ FidInv /\ ReadInv

\* A fid is on the root, on a file in a list, or its file was just removed.
OnShape(x) ==
    ff[x].file \notin {Nil, Root} =>
      Listed(ff[x].file) \/ \E w \in Workers : fw[w].fid = x /\ fw[w].pc = "clunk"
GotShape(w) == fw[w].got \notin {Nil, Root} => Listed(fw[w].got)
OnInv == (\A x \in FFids : OnShape(x)) /\ \A w \in Workers : GotShape(w)

\* Whoever removes a file has it for itself; whoever creates one has the name.
RemoveShape(w) ==
    fw[w].pc = "remove" => /\ fw[w].file # Root /\ kids[fw[w].file] = <<>>
                           /\ ~Others(fw[w].fid, fw[w].file)
CreateShape(w) ==
    fw[w].pc = "create" =>
      /\ Named(fw[w].file, fw[w].name) = {}
      /\ \A v \in Workers \ {w} :
           fw[v].pc = "create" /\ fw[v].file = fw[w].file => fw[v].name # fw[w].name

NamesInv ==
    \A d \in Files : /\ \A f, g \in ToSet(kids[d]) : tree[f].name = tree[g].name => f = g
                     /\ d # Root /\ ~Listed(d) => kids[d] = <<>>

PoliteInv ==
    polite =>
      /\ ~crashed /\ ~Dangling
      /\ \A f \in Files : tree[f].owed = 0
      /\ tree[Root].st = "live"
      /\ OnInv /\ NamesInv
      /\ \A w \in Workers : RemoveShape(w) /\ CreateShape(w)

TreeInv == ShapeInv /\ RefExact /\ PoliteInv
----------------------------------------------------------------------------
(* Files and their counts *)

One(b) == IF b THEN 1 ELSE 0

\* The references of a file that somebody should have.
Net(r) == r.ref - r.lost + r.owed

\* A file stays what it was, or is freed.
Stays(a, b) == b.st = a.st /\ b.parent = a.parent /\ b.name = a.name
Frees(a, b) == a.st = "live" /\ b.st = "freed" /\ b.parent = Nil /\ b.name = Nil
Moves(t, u) ==
    /\ Good(u)
    /\ \A g \in Files : /\ Stays(t[g], u[g]) \/ Frees(t[g], u[g])
                        /\ t[g].st = "none" => u[g] = t[g]

\* The null pointer is no file, and the root is one.
LEMMA NilNoFile == Nil \notin Files /\ Root \in Files /\ Files \subseteq Nat /\ Nil # Root
BY NpFileAssumption DEF Nil, Files, Root

\* nor is it a fid.
LEMMA NilNoFid == Nil \notin FFids
BY NpFileAssumption DEF Nil

\* What npfile_incref does to the files.
LEMMA IncrefIs ==
    ASSUME NEW t, Good(t), NEW f \in FileOrNil, f # Nil => t[f].st # "none"
    PROVE  /\ Moves(t, npfile_incref(t, f))
           /\ \A g \in Files : LET a == t[g]
                                   b == npfile_incref(t, f)[g] IN
                /\ b.st = a.st /\ b.owed = a.owed
                /\ b.ref = a.ref + One(f = g) /\ Net(b) = Net(a) + One(f = g)
<1>. DEFINE u == npfile_incref(t, f)
<1>1. CASE f = Nil
  BY <1>1, NilNoFile DEF Good, Moves, Stays, npfile_incref, One, Net, FileRec
<1>2. CASE f # Nil
  <2>1. f \in Files /\ t \in [Files -> FileRec]
    BY <1>2 DEF FileOrNil, Good
  <2>2. u = [t EXCEPT ![f].ref = t[f].ref + 1]
    BY <1>2 DEF npfile_incref
  <2>3. u \in [Files -> FileRec]
    BY <2>1, <2>2 DEF FileRec
  <2>4. \A g \in Files :
          /\ u[g].st = t[g].st /\ u[g].owed = t[g].owed /\ u[g].lost = t[g].lost
          /\ u[g].parent = t[g].parent /\ u[g].name = t[g].name
          /\ u[g].ref = t[g].ref + One(f = g)
          /\ g # f => u[g] = t[g]
    BY <2>1, <2>2 DEF FileRec, One
  <2>5. \A g \in Files : {t[g].ref, t[g].lost, t[g].owed, One(f = g)} \subseteq Nat
    BY <2>1 DEF FileRec, One
  <2>6. \A g \in Files : Net(u[g]) = Net(t[g]) + One(f = g)
    BY <2>4, <2>5 DEF Net
  <2>7. Moves(t, u)
    BY <1>2, <2>3, <2>4, <2>5 DEF Moves, Stays, Good
  <2>. QED  BY <2>4, <2>6, <2>7
<1>. QED  BY <1>1, <1>2

\* What npfile_decref does to the files.
LEMMA DecrefIs ==
    ASSUME NEW t, Good(t), NEW f \in FileOrNil, f # Nil => t[f].st # "none" /\ t[f].ref > 0
    PROVE  /\ Moves(t, npfile_decref(t, f))
           /\ \A g \in Files : LET a == t[g]
                                   b == npfile_decref(t, f)[g] IN
                /\ b.owed = a.owed
                /\ g # f => b = a
                /\ b.st = "live" => a.st = "live" /\ b.ref = a.ref - One(f = g) /\ Net(b) = Net(a) - One(f = g)
                /\ a.st = "live" /\ b.st # "live" => f = g /\ a.ref = 1
<1>. DEFINE u == npfile_decref(t, f)
<1>1. CASE f = Nil
  BY <1>1, NilNoFile DEF Good, Moves, Stays, npfile_decref, One, Net, FileRec
<1>2. CASE f # Nil /\ t[f].ref = 1
  <2>1. f \in Files /\ t \in [Files -> FileRec]
    BY <1>2 DEF FileOrNil, Good
  <2>2. u = [t EXCEPT ![f] = [NoFile EXCEPT !.st = "freed", !.owed = 0 + t[f].owed]]
    BY <1>2 DEF npfile_decref, NoFile
  <2>3. t[f].owed \in Nat /\ 0 + t[f].owed = t[f].owed
    BY <2>1 DEF FileRec
  <2>4. /\ u[f] = [st |-> "freed", ref |-> 0, lost |-> 0, owed |-> t[f].owed, parent |-> Nil,
                   dir |-> FALSE, name |-> Nil]
        /\ \A g \in Files : g # f => u[g] = t[g]
    BY <2>1, <2>2, <2>3 DEF NoFile
  <2>5. u \in [Files -> FileRec]
    <3>1. u[f] \in FileRec
      BY <2>3, <2>4 DEF FileRec, FileOrNil, NameOrNil
    <3>. QED  BY <2>1, <2>2, <3>1
  <2>6. u[f].st = "freed" /\ u[f].parent = Nil /\ u[f].name = Nil /\ u[f].owed = t[f].owed
    BY <2>4
  <2>7. Moves(t, u)
    <3>1. t[f].st \in {"live", "freed"}
      BY <1>2, <2>1 DEF FileRec
    <3>2. Stays(t[f], u[f]) \/ Frees(t[f], u[f])
      BY <2>6, <3>1, <2>1 DEF Stays, Frees, Good
    <3>. QED  BY <1>2, <2>4, <2>5, <2>6, <3>2 DEF Moves, Stays, Good
  <2>8. \A g \in Files : g # f => Net(u[g]) = Net(t[g]) - One(f = g) /\ u[g].ref = t[g].ref - One(f = g)
    BY <2>1, <2>4 DEF Net, One, FileRec
  <2>. QED  BY <1>2, <2>1, <2>4, <2>6, <2>7, <2>8
<1>3. CASE f # Nil /\ t[f].ref # 1
  <2>1. f \in Files /\ t \in [Files -> FileRec]
    BY <1>3 DEF FileOrNil, Good
  <2>2. u = [t EXCEPT ![f].ref = t[f].ref - 1]
    BY <1>3 DEF npfile_decref
  <2>3. t[f].ref - 1 \in Nat /\ t[f].ref - 1 > 0
    BY <1>3, <2>1 DEF FileRec
  <2>4. u \in [Files -> FileRec]
    BY <2>1, <2>2, <2>3 DEF FileRec
  <2>5. \A g \in Files :
          /\ u[g].st = t[g].st /\ u[g].owed = t[g].owed /\ u[g].lost = t[g].lost
          /\ u[g].parent = t[g].parent /\ u[g].name = t[g].name
          /\ u[g].ref = t[g].ref - One(f = g)
          /\ g # f => u[g] = t[g]
    BY <2>1, <2>2 DEF FileRec, One
  <2>6. \A g \in Files : {t[g].ref, t[g].lost, t[g].owed, One(f = g)} \subseteq Nat
    BY <2>1 DEF FileRec, One
  <2>7. \A g \in Files : Net(u[g]) = Net(t[g]) - One(f = g)
    BY <2>5, <2>6 DEF Net
  <2>8. Moves(t, u)
    BY <1>3, <2>1, <2>3, <2>4, <2>5, <2>6 DEF Moves, Stays, Good, One
  <2>. QED  BY <2>5, <2>7, <2>8
<1>. QED  BY <1>1, <1>2, <1>3

\* A reference that is forgotten changes no count.
LEMMA ForgetIs ==
    ASSUME NEW t, Good(t), NEW f \in FileOrNil, f # Nil => t[f].st # "none"
    PROVE  /\ Moves(t, Forget(t, f))
           /\ \A g \in Files : LET a == t[g]
                                   b == Forget(t, f)[g] IN
                b.st = a.st /\ b.owed = a.owed /\ b.ref = a.ref /\ Net(b) = Net(a) - One(f = g)
<1>. DEFINE u == Forget(t, f)
<1>1. CASE f = Nil
  BY <1>1, NilNoFile DEF Good, Moves, Stays, Forget, One, Net, FileRec
<1>2. CASE f # Nil
  <2>1. f \in Files /\ t \in [Files -> FileRec]
    BY <1>2 DEF FileOrNil, Good
  <2>2. u = [t EXCEPT ![f].lost = t[f].lost + 1]
    BY <1>2 DEF Forget
  <2>3. u \in [Files -> FileRec]
    BY <2>1, <2>2 DEF FileRec
  <2>4. \A g \in Files :
          /\ u[g].st = t[g].st /\ u[g].owed = t[g].owed /\ u[g].ref = t[g].ref
          /\ u[g].parent = t[g].parent /\ u[g].name = t[g].name
          /\ u[g].lost = t[g].lost + One(f = g)
          /\ g # f => u[g] = t[g]
    BY <2>1, <2>2 DEF FileRec, One
  <2>5. \A g \in Files : {t[g].ref, t[g].lost, t[g].owed, One(f = g)} \subseteq Nat
    BY <2>1 DEF FileRec, One
  <2>6. \A g \in Files : Net(u[g]) = Net(t[g]) - One(f = g)
    BY <2>4, <2>5 DEF Net
  <2>7. Moves(t, u)
    BY <1>2, <2>3, <2>4, <2>5 DEF Moves, Stays, Good
  <2>. QED  BY <2>4, <2>6, <2>7
<1>. QED  BY <1>1, <1>2

\* One that is given back without having been taken.
LEMMA OweIs ==
    ASSUME NEW t, Good(t), NEW f \in Files, t[f].st # "none"
    PROVE  /\ Moves(t, Owe(t, f))
           /\ \A g \in Files : LET a == t[g]
                                   b == Owe(t, f)[g] IN
                b.st = a.st /\ b.ref = a.ref /\ Net(b) = Net(a) + One(f = g)
<1>. DEFINE u == Owe(t, f)
<1>1. t \in [Files -> FileRec] /\ f # Nil
  BY NilNoFile DEF Good
<1>2. u = [t EXCEPT ![f].owed = t[f].owed + 1]
  BY <1>1 DEF Owe
<1>3. u \in [Files -> FileRec]
  BY <1>1, <1>2 DEF FileRec
<1>4. \A g \in Files :
        /\ u[g].st = t[g].st /\ u[g].lost = t[g].lost /\ u[g].ref = t[g].ref
        /\ u[g].parent = t[g].parent /\ u[g].name = t[g].name
        /\ u[g].owed = t[g].owed + One(f = g)
        /\ g # f => u[g] = t[g]
  BY <1>1, <1>2 DEF FileRec, One
<1>5. \A g \in Files : {t[g].ref, t[g].lost, t[g].owed, One(f = g)} \subseteq Nat
  BY <1>1 DEF FileRec, One
<1>6. \A g \in Files : Net(u[g]) = Net(t[g]) + One(f = g)
  BY <1>4, <1>5 DEF Net
<1>7. Moves(t, u)
  BY <1>3, <1>4, <1>5 DEF Moves, Stays, Good
<1>. QED  BY <1>4, <1>6, <1>7

\* One after the other.
LEMMA MovesOn ==
    ASSUME NEW t, NEW u, NEW v, Moves(t, u), Moves(u, v)
    PROVE  Moves(t, v)
BY DEF Moves, Stays, Frees, Good

\* or nothing at all.
LEMMA MovesNot ==
    ASSUME NEW t, Good(t)
    PROVE  Moves(t, t)
BY DEF Moves, Stays

----------------------------------------------------------------------------
(* The sets the references of a file are counted by *)

Children(f) == {g \in Files \ {Root} : tree[g].st = "live" /\ tree[g].parent = f}
OnFile(f) == {x \in FFids : ff[x].file = f}
OnEntry(f) == {x \in FFids : ff[x].dirent = f}
OnGot(f) == {w \in Workers : fw[w].got = f}

\* A part of a finite set that changes at one place.
LEMMA CardMove ==
    ASSUME NEW S, IsFiniteSet(S), NEW A \in SUBSET S, NEW B \in SUBSET S, NEW x, A \ {x} = B \ {x}
    PROVE  /\ Cardinality(A) \in Nat /\ Cardinality(B) \in Nat
           /\ Cardinality(B) = Cardinality(A) + One(x \in B) - One(x \in A)
<1>1. IsFiniteSet(A) /\ IsFiniteSet(B)
  BY FS_Subset
<1>2. Cardinality(A) \in Nat /\ Cardinality(B) \in Nat
  BY <1>1, FS_CardinalityType
<1>3. CASE x \in A /\ x \notin B
  <2>1. B = A \ {x}
    BY <1>3
  <2>2. Cardinality(A \ {x}) = Cardinality(A) - 1
    BY <1>1, <1>3, FS_RemoveElement
  <2>. QED  BY <1>2, <1>3, <2>1, <2>2 DEF One
<1>4. CASE x \in B /\ x \notin A
  <2>1. A = B \ {x}
    BY <1>4
  <2>2. Cardinality(B \ {x}) = Cardinality(B) - 1
    BY <1>1, <1>4, FS_RemoveElement
  <2>. QED  BY <1>2, <1>4, <2>1, <2>2 DEF One
<1>5. CASE x \in A <=> x \in B
  <2>1. A = B
    BY <1>5
  <2>. QED  BY <1>2, <1>5, <2>1 DEF One
<1>. QED  BY <1>2, <1>3, <1>4, <1>5

\* A part of a finite set that has no members.
LEMMA CardZero ==
    ASSUME NEW S, IsFiniteSet(S), NEW A \in SUBSET S, Cardinality(A) = 0
    PROVE  A = {}
<1>1. IsFiniteSet(A)
  BY FS_Subset
<1>. QED  BY <1>1, FS_EmptySet

\* There are finitely many files.
LEMMA FilesFinite == IsFiniteSet(Files) /\ IsFiniteSet(Files \ {Root})
<1>1. 0 \in Int /\ MaxFiles \in Int
  BY NpFileAssumption
<1>2. IsFiniteSet(Files)
  BY <1>1, FS_Interval DEF Files
<1>3. Files \ {Root} \subseteq Files
  OBVIOUS
<1>. QED  BY <1>2, <1>3, FS_Subset

\* The counts are numbers.
LEMMA RefsTyped ==
    ASSUME NEW f
    PROVE  /\ Cardinality(Children(f)) \in Nat /\ Cardinality(OnFile(f)) \in Nat
           /\ Cardinality(OnEntry(f)) \in Nat /\ Cardinality(OnGot(f)) \in Nat
           /\ Refs(f) = One(f = Root \/ Listed(f)) + Cardinality(Children(f)) + Cardinality(OnFile(f))
                        + Cardinality(OnEntry(f)) + Cardinality(OnGot(f))
           /\ Refs(f) \in Nat
<1>1. /\ Children(f) \in SUBSET (Files \ {Root}) /\ OnFile(f) \in SUBSET FFids
      /\ OnEntry(f) \in SUBSET FFids /\ OnGot(f) \in SUBSET Workers
  BY DEF Children, OnFile, OnEntry, OnGot
<1>2. /\ Cardinality(Children(f)) \in Nat /\ Cardinality(OnFile(f)) \in Nat
      /\ Cardinality(OnEntry(f)) \in Nat /\ Cardinality(OnGot(f)) \in Nat
  BY <1>1, FilesFinite, NpFileAssumption, FS_Subset, FS_CardinalityType
<1>3. Refs(f) = One(f = Root \/ Listed(f)) + Cardinality(Children(f)) + Cardinality(OnFile(f))
                + Cardinality(OnEntry(f)) + Cardinality(OnGot(f))
  BY DEF Refs, Children, OnFile, OnEntry, OnGot, One
<1>. QED  BY <1>2, <1>3 DEF One

\* A step that leaves the lists, and all fids but x and workers but w, alone.
Only(x, w) ==
    /\ \A y \in FFids \ {x} : ff'[y] = ff[y]
    /\ \A v \in Workers \ {w} : fw'[v] = fw[v]

\* What it does to the references a file should have.
Delta(x, w, g) ==
    One(ff'[x].file = g) - One(ff[x].file = g) + One(ff'[x].dirent = g) - One(ff[x].dirent = g)
    + One(fw'[w].got = g) - One(fw[w].got = g)

\* The counts after a step of Only.
LEMMA RefsMove ==
    ASSUME NEW x \in FFids, NEW w \in Workers, Only(x, w), NEW g
    PROVE  /\ Cardinality(OnFile(g)') \in Nat /\ Cardinality(OnEntry(g)') \in Nat
           /\ Cardinality(OnGot(g)') \in Nat
           /\ Cardinality(OnFile(g)') + Cardinality(OnEntry(g)') + Cardinality(OnGot(g)')
              = Cardinality(OnFile(g)) + Cardinality(OnEntry(g)) + Cardinality(OnGot(g)) + Delta(x, w, g)
<1>. DEFINE A == OnFile(g)
            A1 == OnFile(g)'
            B == OnEntry(g)
            B1 == OnEntry(g)'
            C == OnGot(g)
            C1 == OnGot(g)'
<1>1. /\ A \in SUBSET FFids /\ A1 \in SUBSET FFids /\ A \ {x} = A1 \ {x}
      /\ (x \in A <=> ff[x].file = g) /\ (x \in A1 <=> ff'[x].file = g)
  BY DEF OnFile, Only
<1>2. /\ B \in SUBSET FFids /\ B1 \in SUBSET FFids /\ B \ {x} = B1 \ {x}
      /\ (x \in B <=> ff[x].dirent = g) /\ (x \in B1 <=> ff'[x].dirent = g)
  BY DEF OnEntry, Only
<1>3. /\ C \in SUBSET Workers /\ C1 \in SUBSET Workers /\ C \ {w} = C1 \ {w}
      /\ (w \in C <=> fw[w].got = g) /\ (w \in C1 <=> fw'[w].got = g)
  BY DEF OnGot, Only
<1>. HIDE DEF A, A1, B, B1, C, C1
<1>4. IsFiniteSet(FFids) /\ IsFiniteSet(Workers)
  BY NpFileAssumption
<1>5. /\ Cardinality(A) \in Nat /\ Cardinality(A1) \in Nat
      /\ Cardinality(A1) = Cardinality(A) + One(x \in A1) - One(x \in A)
  BY <1>1, <1>4, CardMove
<1>6. /\ Cardinality(B) \in Nat /\ Cardinality(B1) \in Nat
      /\ Cardinality(B1) = Cardinality(B) + One(x \in B1) - One(x \in B)
  BY <1>2, <1>4, CardMove
<1>7. /\ Cardinality(C) \in Nat /\ Cardinality(C1) \in Nat
      /\ Cardinality(C1) = Cardinality(C) + One(w \in C1) - One(w \in C)
  BY <1>3, <1>4, CardMove
<1>8. /\ One(x \in A1) = One(ff'[x].file = g) /\ One(x \in A) = One(ff[x].file = g)
      /\ One(x \in B1) = One(ff'[x].dirent = g) /\ One(x \in B) = One(ff[x].dirent = g)
      /\ One(w \in C1) = One(fw'[w].got = g) /\ One(w \in C) = One(fw[w].got = g)
  BY <1>1, <1>2, <1>3 DEF One
<1>9. Cardinality(A1) + Cardinality(B1) + Cardinality(C1)
      = Cardinality(A) + Cardinality(B) + Cardinality(C) + Delta(x, w, g)
  BY <1>5, <1>6, <1>7, <1>8 DEF Delta, One
<1>. QED  BY <1>5, <1>6, <1>7, <1>9 DEF A, A1, B, B1, C, C1

----------------------------------------------------------------------------
(* Steps that leave the lists alone *)

\* Nobody but worker w has fid x in hands.
Mine(x, w) == fw[w].fid \in {x, Nil} /\ \A v \in Workers \ {w} : fw[v].fid # x

\* The shapes of the state after a step of worker w on fid x,
ShapeStep(x, w) ==
    /\ UNCHANGED <<polite, kids>> /\ crashed' \in BOOLEAN
    /\ ff' \in [FFids -> FidRec] /\ fw' \in [Workers -> WorkRec]
    /\ Only(x, w) /\ Mine(x, w) /\ fw'[w].fid \in {x, Nil}
    /\ WorkShape(w)' /\ FidShape(x)' /\ ReadShape(x)'

\* the files, with all that was freed no longer referred to,
FileStep(x, w) ==
    /\ Moves(tree, tree')
    /\ \A g \in Files :
         /\ tree'[g].st = "live" => Net(tree'[g]) = Net(tree[g]) + Delta(x, w, g)
         /\ Frees(tree[g], tree'[g]) => tree[g].ref + Delta(x, w, g) <= 0 \/ tree[g].ref < Refs(g)
    /\ \A g \in {ff'[x].file, ff'[x].dirent, fw'[w].file, fw'[w].got} \ {Nil} :
         tree[g].st = "live" \/ g = Root

\* and what polite clients see to.
PoliteStep(x, w) ==
    polite =>
      /\ ~crashed'
      /\ \A g \in Files : tree'[g].owed = tree[g].owed
      /\ OnShape(x)' /\ GotShape(w)'
      /\ RemoveShape(w)' /\ CreateShape(w)'
      /\ \A v \in Workers \ {w} : fw[v].pc = "remove" =>
           fw[v].file \notin {ff'[x].file, fw'[w].file, fw'[w].got}

\* Nothing that exists is pointed to, other than live files.
LEMMA PointedLive ==
    ASSUME ShapeInv, ~Dangling, NEW f \in Files, Pointed(f)
    PROVE  tree[f].st = "live"
BY DEF ShapeInv, LiveInv, Good, Dangling, FileRec

\* What Pointed looks at.
LEMMA PointedBy ==
    ASSUME NEW f \in Files
    PROVE  /\ \A x \in FFids : f \in {ff[x].file, ff[x].dirent} => Pointed(f)
           /\ \A w \in Workers : f \in {fw[w].file, fw[w].got} => Pointed(f)
           /\ \A d \in Files : f \in ToSet(kids[d]) => Pointed(f)
           /\ \A g \in Files \ {Root} : tree[g].st = "live" /\ tree[g].parent = f => Pointed(f)
BY DEF Pointed, Listed

\* Only live files come to be pointed to.
LEMMA PointStep ==
    ASSUME ShapeInv, ~Dangling, NEW x \in FFids, NEW w \in Workers, ShapeStep(x, w), FileStep(x, w),
           NEW f \in Files, Pointed(f)'
    PROVE  tree[f].st = "live" \/ f = Root
<1>1. CASE Listed(f)'
  <2>1. Listed(f)
    BY <1>1 DEF Listed, ShapeStep
  <2>. QED  BY <2>1, PointedLive DEF Pointed
<1>2. CASE \E g \in Files \ {Root} : tree'[g].st = "live" /\ tree'[g].parent = f
  <2>1. PICK g \in Files \ {Root} : tree'[g].st = "live" /\ tree'[g].parent = f
    BY <1>2
  <2>2. tree[g].st = "live" /\ tree[g].parent = f
    BY <2>1 DEF FileStep, Moves, Stays, Frees
  <2>3. Pointed(f)
    BY <2>2, PointedBy
  <2>. QED  BY <2>3, PointedLive
<1>3. CASE \E y \in FFids : f \in {ff'[y].file, ff'[y].dirent}
  <2>1. PICK y \in FFids : f \in {ff'[y].file, ff'[y].dirent}
    BY <1>3
  <2>2. CASE y = x
    BY <2>1, <2>2, NilNoFile DEF FileStep
  <2>3. CASE y # x
    <3>1. f \in {ff[y].file, ff[y].dirent}
      BY <2>1, <2>3 DEF ShapeStep, Only
    <3>. QED  BY <3>1, PointedLive DEF Pointed
  <2>. QED  BY <2>2, <2>3
<1>4. CASE \E v \in Workers : f \in {fw'[v].file, fw'[v].got}
  <2>1. PICK v \in Workers : f \in {fw'[v].file, fw'[v].got}
    BY <1>4
  <2>2. CASE v = w
    BY <2>1, <2>2, NilNoFile DEF FileStep
  <2>3. CASE v # w
    <3>1. f \in {fw[v].file, fw[v].got}
      BY <2>1, <2>3 DEF ShapeStep, Only
    <3>. QED  BY <3>1, PointedLive DEF Pointed
  <2>. QED  BY <2>2, <2>3
<1>. QED  BY <1>1, <1>2, <1>3, <1>4 DEF Pointed

\* The shape is kept.
LEMMA ShapeKept ==
    ASSUME ShapeInv, ~Dangling, NEW x \in FFids, NEW w \in Workers, ShapeStep(x, w), FileStep(x, w)
    PROVE  ShapeInv'
<1>. USE NilNoFile
<1>1. TypeInv'
  BY DEF ShapeInv, TypeInv, ShapeStep, FileStep, Moves, Good
<1>2. LiveInv'
  <2>1. Good(tree')
    BY DEF FileStep, Moves
  <2>2. tree'[Root].st # "none"
    BY DEF FileStep, Moves, Stays, Frees, ShapeInv, LiveInv
  <2>3. ASSUME NEW f \in Files, tree'[f].st = "none"
        PROVE  tree'[f] = NoFile /\ kids'[f] = <<>> /\ ~Pointed(f)'
    <3>1. tree[f].st = "none" /\ tree'[f] = tree[f]
      BY <2>3 DEF FileStep, Moves, Stays, Frees
    <3>2. f # Root
      BY <2>2, <2>3
    <3>3. ~Pointed(f)'
      BY <3>1, <3>2, PointStep
    <3>. QED  BY <3>1, <3>3 DEF ShapeInv, LiveInv, ShapeStep
  <2>4. Good(tree)'
    BY <2>1 DEF Good
  <2>. QED  BY <2>2, <2>3, <2>4 DEF LiveInv
<1>3. ListInv'
  <2>1. \A g \in Files : tree'[g].st = "live" => tree[g].st = "live" /\ tree'[g].parent = tree[g].parent
    BY DEF FileStep, Moves, Stays, Frees
  <2>2. \A g \in Files : tree'[g].parent \in {tree[g].parent, Nil}
    BY DEF FileStep, Moves, Stays, Frees
  <2>3. kids' = kids /\ ListInv
    BY DEF ShapeStep, ShapeInv
  <2>. QED  BY <2>1, <2>2, <2>3 DEF ListInv, Once
<1>4. WorkInv'
  <2>1. ASSUME NEW v \in Workers PROVE WorkShape(v)'
    <3>1. CASE v = w
      BY <3>1 DEF ShapeStep
    <3>2. CASE v # w
      <4>1. fw'[v] = fw[v] /\ fw[v].fid # x /\ (fw[v].fid \in FFids => ff'[fw[v].fid] = ff[fw[v].fid])
        BY <3>2 DEF ShapeStep, Only, Mine
      <4>2. WorkShape(v) /\ fw[v].pc \in Pcs
        BY DEF ShapeInv, WorkInv, TypeInv, WorkRec
      <4>3. CASE fw[v].pc = "idle"
        BY <4>1, <4>2, <4>3 DEF WorkShape
      <4>4. CASE fw[v].pc # "idle"
        BY <4>1, <4>2, <4>4 DEF WorkShape
      <4>. QED  BY <4>3, <4>4
    <3>. QED  BY <3>1, <3>2
  <2>2. ASSUME NEW u \in Workers, NEW v \in Workers, fw'[u].fid = fw'[v].fid, fw'[u].fid # Nil
        PROVE  u = v
    BY <2>2 DEF ShapeStep, Only, Mine, ShapeInv, WorkInv
  <2>. QED  BY <2>1, <2>2 DEF WorkInv
<1>5. FidInv'
  <2>1. ASSUME NEW y \in FFids PROVE FidShape(y)'
    <3>1. y # x => ff'[y] = ff[y]
      BY DEF ShapeStep, Only
    <3>. QED  BY <3>1 DEF ShapeStep, ShapeInv, FidInv, FidShape
  <2>. QED  BY <2>1 DEF FidInv
<1>6. ReadInv'
  <2>1. ASSUME NEW y \in FFids PROVE ReadShape(y)'
    <3>1. kids' = kids /\ (y # x => ff'[y] = ff[y])
      BY DEF ShapeStep, Only
    <3>. QED  BY <3>1 DEF ShapeStep, ShapeInv, ReadInv, ReadShape
  <2>. QED  BY <2>1 DEF ReadInv
<1>. QED  BY <1>1, <1>2, <1>3, <1>4, <1>5, <1>6 DEF ShapeInv

\* The files of the lists after such a step.
LEMMA ListedSame ==
    ASSUME UNCHANGED kids
    PROVE  \A f : Listed(f)' <=> Listed(f)
BY DEF Listed

\* A file with a parent is listed.
LEMMA ParentLists ==
    ASSUME ShapeInv, NEW g \in Files \ {Root}, tree[g].st = "live", tree[g].parent # Nil
    PROVE  Listed(g) /\ tree[g].parent \in Files
<1>1. tree[g].parent \in Files
  BY DEF ShapeInv, TypeInv, FileRec, FileOrNil
<1>2. g \in ToSet(kids[tree[g].parent])
  BY DEF ShapeInv, ListInv
<1>. QED  BY <1>1, <1>2 DEF Listed

\* The counts are kept, unless a file is freed too early.
LEMMA CountKept ==
    ASSUME ShapeInv, RefExact, ~Dangling, NEW x \in FFids, NEW w \in Workers,
           ShapeStep(x, w), FileStep(x, w), ~Dangling'
    PROVE  RefExact'
<1>. USE NilNoFile
<1>1. SUFFICES ASSUME NEW f \in Files, tree'[f].st = "live"
               PROVE  tree'[f].ref = Refs(f)' + tree'[f].lost - tree'[f].owed
  BY DEF RefExact
<1>2. Children(f)' = Children(f)
  <2>1. ASSUME NEW g \in Files \ {Root}
        PROVE  (tree'[g].st = "live" /\ tree'[g].parent = f) <=> (tree[g].st = "live" /\ tree[g].parent = f)
    <3>1. CASE Stays(tree[g], tree'[g])
      BY <3>1 DEF Stays
    <3>2. CASE Frees(tree[g], tree'[g])
      <4>1. ~Pointed(g)'
        BY <3>2 DEF Frees, Dangling
      <4>2. ~Listed(g)
        BY <4>1, ListedSame DEF Pointed, ShapeStep
      <4>3. tree[g].parent = Nil
        BY <4>2, <3>2, ParentLists DEF Frees
      <4>. QED  BY <3>2, <4>3 DEF Frees
    <3>. QED  BY <3>1, <3>2 DEF FileStep, Moves
  <2>. QED  BY <2>1 DEF Children
<1>3. One(f = Root \/ Listed(f))' = One(f = Root \/ Listed(f))
  BY ListedSame DEF ShapeStep, One
<1>4. Only(x, w)
  BY DEF ShapeStep
<1>5. Refs(f) \in Nat /\ Delta(x, w, f) \in Int /\ Refs(f)' = Refs(f) + Delta(x, w, f)
  <2>1. /\ Cardinality(Children(f)) \in Nat /\ Cardinality(OnFile(f)) \in Nat
        /\ Cardinality(OnEntry(f)) \in Nat /\ Cardinality(OnGot(f)) \in Nat
        /\ Refs(f) \in Nat
        /\ Refs(f) = One(f = Root \/ Listed(f)) + Cardinality(Children(f)) + Cardinality(OnFile(f))
                     + Cardinality(OnEntry(f)) + Cardinality(OnGot(f))
    BY RefsTyped
  <2>2. Refs(f)' = One(f = Root \/ Listed(f))' + Cardinality(Children(f)') + Cardinality(OnFile(f)')
                   + Cardinality(OnEntry(f)') + Cardinality(OnGot(f)')
    BY DEF Refs, Children, OnFile, OnEntry, OnGot, One
  <2>3. /\ Cardinality(OnFile(f)') \in Nat /\ Cardinality(OnEntry(f)') \in Nat
        /\ Cardinality(OnGot(f)') \in Nat
        /\ Cardinality(OnFile(f)') + Cardinality(OnEntry(f)') + Cardinality(OnGot(f)')
           = Cardinality(OnFile(f)) + Cardinality(OnEntry(f)) + Cardinality(OnGot(f)) + Delta(x, w, f)
    BY <1>4, RefsMove
  <2>4. One(f = Root \/ Listed(f)) \in Nat /\ Delta(x, w, f) \in Int
    BY DEF One, Delta
  <2>. QED  BY <1>2, <1>3, <2>1, <2>2, <2>3, <2>4
<1>6. tree[f].st = "live" /\ tree[f].ref = Refs(f) + tree[f].lost - tree[f].owed
  <2>1. tree[f].st = "live"
    BY <1>1 DEF FileStep, Moves, Stays, Frees
  <2>. QED  BY <2>1 DEF RefExact
<1>7. Net(tree'[f]) = Net(tree[f]) + Delta(x, w, f)
  BY <1>1 DEF FileStep
<1>8. /\ tree[f].ref \in Nat /\ tree[f].lost \in Nat /\ tree[f].owed \in Nat
      /\ tree'[f].ref \in Nat /\ tree'[f].lost \in Nat /\ tree'[f].owed \in Nat
  <2>1. tree[f] \in FileRec /\ tree'[f] \in FileRec
    BY DEF ShapeInv, TypeInv, FileStep, Moves, Good
  <2>. QED  BY <2>1 DEF FileRec
<1>. QED  BY <1>5, <1>6, <1>7, <1>8 DEF Net

\* With polite clients whatever is freed is pointed to by nobody.
LEMMA FreedAlone ==
    ASSUME ShapeInv, RefExact, PoliteInv, polite, NEW x \in FFids, NEW w \in Workers,
           ShapeStep(x, w), FileStep(x, w), ShapeInv', NEW f \in Files, Frees(tree[f], tree'[f])
    PROVE  f # Root /\ ~Pointed(f)'
<1>. USE NilNoFile
<1>1. tree[f].st = "live" /\ ~Dangling /\ tree[f].owed = 0
  BY DEF Frees, PoliteInv
<1>2. tree[f].ref = Refs(f) + tree[f].lost - tree[f].owed
  BY <1>1 DEF RefExact
<1>3. tree[f].ref \in Nat /\ tree[f].lost \in Nat
  BY DEF ShapeInv, TypeInv, FileRec
<1>4. Only(x, w)
  BY DEF ShapeStep
<1>5. /\ Cardinality(Children(f)) \in Nat /\ Cardinality(OnFile(f)) \in Nat
      /\ Cardinality(OnEntry(f)) \in Nat /\ Cardinality(OnGot(f)) \in Nat
      /\ Refs(f) \in Nat
      /\ Refs(f) = One(f = Root \/ Listed(f)) + Cardinality(Children(f)) + Cardinality(OnFile(f))
                   + Cardinality(OnEntry(f)) + Cardinality(OnGot(f))
  BY RefsTyped
<1>6. /\ Cardinality(OnFile(f)') \in Nat /\ Cardinality(OnEntry(f)') \in Nat
      /\ Cardinality(OnGot(f)') \in Nat
      /\ Cardinality(OnFile(f)') + Cardinality(OnEntry(f)') + Cardinality(OnGot(f)')
         = Cardinality(OnFile(f)) + Cardinality(OnEntry(f)) + Cardinality(OnGot(f)) + Delta(x, w, f)
  BY <1>4, RefsMove
<1>7. Delta(x, w, f) \in Int /\ One(f = Root \/ Listed(f)) \in {0, 1}
  BY DEF Delta, One
<1>8. tree[f].ref + Delta(x, w, f) <= 0
  <2>1. tree[f].ref + Delta(x, w, f) <= 0 \/ tree[f].ref < Refs(f)
    BY DEF FileStep
  <2>. QED  BY <2>1, <1>1, <1>2, <1>3, <1>5
<1>9. /\ One(f = Root \/ Listed(f)) = 0 /\ Cardinality(Children(f)) = 0
      /\ Cardinality(OnFile(f)') = 0 /\ Cardinality(OnEntry(f)') = 0 /\ Cardinality(OnGot(f)') = 0
  <2>1. Refs(f) <= tree[f].ref
    BY <1>1, <1>2, <1>3, <1>5
  <2>2. Refs(f) + Delta(x, w, f) <= 0
    BY <2>1, <1>3, <1>5, <1>7, <1>8
  <2>3. One(f = Root \/ Listed(f)) + Cardinality(Children(f)) + Cardinality(OnFile(f)')
        + Cardinality(OnEntry(f)') + Cardinality(OnGot(f)') = Refs(f) + Delta(x, w, f)
    BY <1>5, <1>6, <1>7
  <2>4. One(f = Root \/ Listed(f)) \in Nat
    BY DEF One
  <2>. QED  BY <2>2, <2>3, <2>4, <1>5, <1>6
<1>10. f # Root /\ ~Listed(f)
  BY <1>9 DEF One
<1>11. Children(f) = {} /\ OnFile(f)' = {} /\ OnEntry(f)' = {} /\ OnGot(f)' = {}
  <2>1. /\ Children(f) \in SUBSET (Files \ {Root}) /\ OnFile(f)' \in SUBSET FFids
        /\ OnEntry(f)' \in SUBSET FFids /\ OnGot(f)' \in SUBSET Workers
    BY DEF Children, OnFile, OnEntry, OnGot
  <2>. QED  BY <2>1, <1>9, CardZero, FilesFinite, NpFileAssumption
<1>12. ~Listed(f)'
  BY <1>10, ListedSame DEF ShapeStep
<1>13. ~\E g \in Files \ {Root} : tree'[g].st = "live" /\ tree'[g].parent = f
  BY <1>11 DEF Children, FileStep, Moves, Stays, Frees
<1>14. \A y \in FFids : f \notin {ff'[y].file, ff'[y].dirent}
  BY <1>11 DEF OnFile, OnEntry
<1>15. \A v \in Workers : f \notin {fw'[v].file, fw'[v].got}
  <2>1. ASSUME NEW v \in Workers PROVE fw'[v].file # f
    <3>1. WorkShape(v)'
      BY DEF ShapeInv, WorkInv
    <3>2. fw'[v].pc = "idle" => fw'[v].file = Nil
      BY <3>1 DEF WorkShape, Idle
    <3>3. fw'[v].pc # "idle" => fw'[v].fid \in FFids /\ fw'[v].file = ff'[fw'[v].fid].file
      BY <3>1 DEF WorkShape
    <3>. QED  BY <3>2, <3>3, <1>14
  <2>. QED  BY <2>1, <1>11 DEF OnGot
<1>. QED  BY <1>10, <1>12, <1>13, <1>14, <1>15 DEF Pointed

\* So that no dangling pointer is left.
LEMMA SafeKept ==
    ASSUME ShapeInv, RefExact, PoliteInv, polite, NEW x \in FFids, NEW w \in Workers,
           ShapeStep(x, w), FileStep(x, w), ShapeInv'
    PROVE  ~Dangling' /\ tree'[Root].st = "live"
<1>1. tree[Root].st = "live" /\ ~Dangling
  BY DEF PoliteInv
<1>2. tree'[Root].st = "live"
  <2>1. ~Frees(tree[Root], tree'[Root])
    BY FreedAlone, NilNoFile
  <2>. QED  BY <1>1, <2>1, NilNoFile DEF FileStep, Moves, Stays
<1>3. ASSUME NEW f \in Files, tree'[f].st = "freed", Pointed(f)' PROVE FALSE
  <2>1. tree[f].st = "live" \/ f = Root
    BY <1>1, <1>3, PointStep
  <2>2. tree[f].st = "live"
    BY <1>1, <2>1
  <2>3. Frees(tree[f], tree'[f])
    BY <1>3, <2>2 DEF FileStep, Moves, Stays
  <2>. QED  BY <2>3, <1>3, FreedAlone
<1>. QED  BY <1>2, <1>3 DEF Dangling

\* The rest of PoliteInv is kept.
LEMMA PoliteKept ==
    ASSUME ShapeInv, RefExact, PoliteInv, polite, NEW x \in FFids, NEW w \in Workers,
           ShapeStep(x, w), FileStep(x, w), PoliteStep(x, w), ShapeInv', ~Dangling'
    PROVE  OnInv' /\ NamesInv' /\ \A v \in Workers : RemoveShape(v)' /\ CreateShape(v)'
<1>. USE NilNoFile
<1>1. kids' = kids /\ (\A f : Listed(f)' <=> Listed(f))
  BY ListedSame DEF ShapeStep
<1>2. ASSUME NEW d \in Files, NEW f \in ToSet(kids[d])
      PROVE  f \in Files /\ tree'[f].name = tree[f].name
  <2>1. f \in Files
    BY QueueOf DEF ShapeInv, TypeInv
  <2>2. Pointed(f)'
    BY <1>1, <1>2, <2>1 DEF Pointed, Listed
  <2>3. ~Frees(tree[f], tree'[f])
    BY <2>1, <2>2 DEF Dangling, Frees
  <2>. QED  BY <2>1, <2>3 DEF FileStep, Moves, Stays
<1>3. NamesInv'
  BY <1>1, <1>2 DEF NamesInv, PoliteInv
<1>4. ASSUME NEW d \in Files, NEW n PROVE Named(d, n)' = Named(d, n)
  BY <1>1, <1>2 DEF Named
<1>5. OnInv'
  <2>1. ASSUME NEW y \in FFids PROVE OnShape(y)'
    <3>1. CASE y = x
      BY <3>1 DEF PoliteStep
    <3>2. CASE y # x
      <4>1. ff'[y] = ff[y] /\ OnShape(y)
        BY <3>2 DEF ShapeStep, Only, PoliteInv, OnInv
      <4>2. \A v \in Workers : fw[v].fid = y => v # w
        BY <3>2, NilNoFid DEF ShapeStep, Mine
      <4>3. \A v \in Workers : fw[v].fid = y => fw'[v] = fw[v]
        BY <4>2 DEF ShapeStep, Only
      <4>. QED  BY <4>1, <4>3, <1>1 DEF OnShape
    <3>. QED  BY <3>1, <3>2
  <2>2. ASSUME NEW v \in Workers PROVE GotShape(v)'
    <3>1. CASE v = w
      BY <3>1 DEF PoliteStep
    <3>2. CASE v # w
      <4>1. fw'[v] = fw[v] /\ GotShape(v)
        BY <3>2 DEF ShapeStep, Only, PoliteInv, OnInv
      <4>. QED  BY <4>1, <1>1 DEF GotShape
    <3>. QED  BY <3>1, <3>2
  <2>. QED  BY <2>1, <2>2 DEF OnInv
<1>6. ASSUME NEW v \in Workers PROVE RemoveShape(v)'
  <2>1. CASE v = w
    BY <2>1 DEF PoliteStep
  <2>2. CASE v # w /\ fw[v].pc = "remove"
    <3>1. fw'[v] = fw[v] /\ fw[v].fid # x
      BY <2>2 DEF ShapeStep, Only, Mine
    <3>2. /\ fw[v].file # Root /\ kids[fw[v].file] = <<>>
          /\ ~Others(fw[v].fid, fw[v].file)
      BY <2>2 DEF PoliteInv, RemoveShape
    <3>3. fw[v].file \notin {ff'[x].file, fw'[w].file, fw'[w].got}
      BY <2>2 DEF PoliteStep
    <3>4. \A y \in FFids \ {fw[v].fid} : ff'[y].file # fw[v].file
      BY <3>2, <3>3 DEF Others, ShapeStep, Only
    <3>5. \A u \in Workers : fw'[u].fid # fw[v].fid => fw[v].file \notin {fw'[u].file, fw'[u].got}
      BY <3>2, <3>3 DEF Others, ShapeStep, Only
    <3>6. ~Others(fw[v].fid, fw[v].file)'
      BY <3>1, <3>4, <3>5 DEF Others
    <3>. QED  BY <3>1, <3>2, <3>6, <1>1 DEF RemoveShape
  <2>3. CASE v # w /\ fw[v].pc # "remove"
    <3>1. fw'[v] = fw[v]
      BY <2>3 DEF ShapeStep, Only
    <3>. QED  BY <2>3, <3>1 DEF RemoveShape
  <2>. QED  BY <2>1, <2>2, <2>3
<1>7. ASSUME NEW v \in Workers PROVE CreateShape(v)'
  <2>1. CASE v = w
    BY <2>1 DEF PoliteStep
  <2>2. CASE v # w /\ fw[v].pc = "create"
    <3>1. fw'[v] = fw[v] /\ fw[v].file \in Files
      BY <2>2 DEF ShapeStep, Only, ShapeInv, WorkInv, WorkShape
    <3>2. /\ Named(fw[v].file, fw[v].name) = {}
          /\ \A u \in Workers \ {v} :
               fw[u].pc = "create" /\ fw[u].file = fw[v].file => fw[u].name # fw[v].name
      BY <2>2 DEF PoliteInv, CreateShape
    <3>3. CreateShape(w)'
      BY DEF PoliteStep
    <3>4. \A u \in Workers \ {v} :
            fw'[u].pc = "create" /\ fw'[u].file = fw'[v].file => fw'[u].name # fw'[v].name
      <4>1. ASSUME NEW u \in Workers \ {v}, fw'[u].pc = "create", fw'[u].file = fw'[v].file
            PROVE  fw'[u].name # fw'[v].name
        <5>1. CASE u = w
          BY <2>2, <3>1, <3>3, <4>1, <5>1 DEF CreateShape
        <5>2. CASE u # w
          <6>1. fw'[u] = fw[u]
            BY <5>2 DEF ShapeStep, Only
          <6>. QED  BY <6>1, <3>1, <3>2, <4>1
        <5>. QED  BY <5>1, <5>2
      <4>. QED  BY <4>1
    <3>5. Named(fw[v].file, fw[v].name)' = {}
      <4>1. PICK d \in Files, n \in {fw[v].name} : d = fw[v].file /\ n = fw[v].name
        BY <3>1
      <4>2. Named(d, n)' = {}
        BY <3>2, <4>1, <1>4
      <4>3. d = fw'[v].file /\ n = fw'[v].name
        BY <3>1, <4>1
      <4>. QED  BY <4>2, <4>3 DEF Named
    <3>. QED  BY <3>4, <3>5 DEF CreateShape
  <2>3. CASE v # w /\ fw[v].pc # "create"
    <3>1. fw'[v] = fw[v]
      BY <2>3 DEF ShapeStep, Only
    <3>. QED  BY <2>3, <3>1 DEF CreateShape
  <2>. QED  BY <2>1, <2>2, <2>3
<1>. QED  BY <1>3, <1>5, <1>6, <1>7

\* All together: what has to be shown of an action that leaves the lists alone.
LEMMA StepKeeps ==
    ASSUME TreeInv, ~Dangling, NEW x \in FFids, NEW w \in Workers,
           ShapeStep(x, w), FileStep(x, w), PoliteStep(x, w)
    PROVE  TreeInv'
<1>1. ShapeInv /\ RefExact /\ PoliteInv
  BY DEF TreeInv
<1>2. ShapeInv'
  BY <1>1, ShapeKept
<1>3. RefExact'
  <2>1. CASE Dangling'
    BY <2>1 DEF RefExact
  <2>2. CASE ~Dangling'
    BY <1>1, <2>2, CountKept
  <2>. QED  BY <2>1, <2>2
<1>4. PoliteInv'
  <2>1. CASE polite
    <3>1. ~Dangling' /\ tree'[Root].st = "live"
      BY <1>1, <1>2, <2>1, SafeKept
    <3>2. OnInv' /\ NamesInv' /\ \A v \in Workers : RemoveShape(v)' /\ CreateShape(v)'
      BY <1>1, <1>2, <2>1, <3>1, PoliteKept
    <3>3. ~crashed' /\ \A f \in Files : tree'[f].owed = 0
      BY <1>1, <2>1 DEF PoliteInv, PoliteStep
    <3>. QED  BY <3>1, <3>2, <3>3 DEF PoliteInv
  <2>2. CASE ~polite
    BY <2>2 DEF PoliteInv, ShapeStep
  <2>. QED  BY <2>1, <2>2
<1>. QED  BY <1>2, <1>3, <1>4 DEF TreeInv

----------------------------------------------------------------------------
(* What an action finds *)

\* A live file has a reference.
LEMMA LiveRef ==
    ASSUME ShapeInv
    PROVE  \A f \in Files : tree[f].ref \in Nat /\ (tree[f].st = "live" => tree[f].ref > 0)
<1>1. tree \in [Files -> FileRec] /\ \A f \in Files : tree[f].st = "live" => tree[f].ref > 0
  BY Zenon DEF ShapeInv, LiveInv, Good
<1>. QED  BY <1>1 DEF FileRec

\* The count of a file, less what is lost and owed, is a number.
LEMMA NetInt ==
    ASSUME ShapeInv
    PROVE  \A f \in Files : Net(tree[f]) \in Int
BY DEF Net, ShapeInv, TypeInv, FileRec

\* A worker that takes a message about fid x.
LEMMA BeginFacts ==
    ASSUME ShapeInv, ~Dangling, NEW x \in FFids, NEW w \in Workers, Begin(w, x)
    PROVE  /\ fw[w] = Idle /\ Mine(x, w) /\ fw[w].got = Nil /\ fw[w].fid = Nil /\ fw[w].pc = "idle"
           /\ ff[x].file \in Files /\ tree[ff[x].file].st = "live" /\ tree[ff[x].file].ref > 0
           /\ ff[x] \in FidRec /\ FidShape(x) /\ ReadShape(x)
           /\ \A v \in Workers : fw[v].fid # x
<1>1. fw[w] = Idle
  BY DEF Begin, ShapeInv, WorkInv, WorkShape
<1>2. \A v \in Workers : fw[v].fid # x
  BY DEF Begin, Busy
<1>3. ff[x] \in FidRec /\ FidShape(x) /\ ReadShape(x)
  BY DEF ShapeInv, TypeInv, FidInv, ReadInv
<1>4. ff[x].file \in Files
  BY <1>3 DEF Begin, FidRec, FileOrNil
<1>5. tree[ff[x].file].st = "live"
  BY <1>4, PointedBy, PointedLive
<1>6. tree[ff[x].file].ref > 0
  BY <1>4, <1>5, LiveRef
<1>. QED  BY <1>1, <1>2, <1>3, <1>4, <1>5, <1>6 DEF Mine, Idle

\* A worker that has begun, with fid x.
LEMMA RunFacts ==
    ASSUME ShapeInv, ~Dangling, NEW x \in FFids, NEW w \in Workers, fw[w].pc # "idle", fw[w].fid = x
    PROVE  /\ Mine(x, w) /\ fw[w] \in WorkRec /\ WorkShape(w)
           /\ fw[w].file = ff[x].file
           /\ ff[x].file \in Files /\ tree[ff[x].file].st = "live" /\ tree[ff[x].file].ref > 0
           /\ fw[w].got # Nil => fw[w].got \in Files /\ tree[fw[w].got].st = "live" /\ tree[fw[w].got].ref > 0
           /\ ff[x] \in FidRec /\ FidShape(x) /\ ReadShape(x)
<1>1. fw[w] \in WorkRec /\ WorkShape(w) /\ ff[x] \in FidRec /\ FidShape(x) /\ ReadShape(x)
  BY DEF ShapeInv, TypeInv, WorkInv, FidInv, ReadInv
<1>2. Mine(x, w)
  BY NilNoFid DEF Mine, ShapeInv, WorkInv
<1>3. fw[w].file = ff[x].file /\ ff[x].file \in Files
  BY <1>1 DEF WorkShape
<1>4. fw[w].got # Nil => fw[w].got \in Files
  BY <1>1 DEF WorkRec, FileOrNil
<1>5. tree[ff[x].file].st = "live" /\ (fw[w].got # Nil => tree[fw[w].got].st = "live")
  BY <1>3, <1>4, PointedBy, PointedLive
<1>. QED  BY <1>1, <1>2, <1>3, <1>4, <1>5, LiveRef

\* The fid of a worker is one of FFids.
LEMMA HasFid ==
    ASSUME ShapeInv, NEW w \in Workers, fw[w].pc # "idle"
    PROVE  \E x \in FFids : x = fw[w].fid
BY DEF ShapeInv, WorkInv, WorkShape

\* The entry a fid is to read next is live.
LEMMA EntryLive ==
    ASSUME ShapeInv, ~Dangling, NEW x \in FFids, ff[x].dirent # Nil
    PROVE  ff[x].dirent \in Files /\ tree[ff[x].dirent].st = "live" /\ tree[ff[x].dirent].ref > 0
<1>1. ff[x].dirent \in Files
  BY DEF ShapeInv, TypeInv, FidRec, FileOrNil
<1>. QED  BY <1>1, PointedBy, PointedLive, LiveRef

\* Files of a list are live, and their parent is the directory.
LEMMA KidLive ==
    ASSUME ShapeInv, ~Dangling, NEW d \in Files, NEW f \in ToSet(kids[d])
    PROVE  /\ f \in Files /\ f # Root /\ tree[f].st = "live" /\ tree[f].ref > 0 /\ tree[f].parent = d
           /\ Listed(f) /\ f # d
<1>1. f \in Files /\ f # Root
  BY QueueOf DEF ShapeInv, TypeInv
<1>2. tree[f].st = "live" /\ Listed(f)
  BY <1>1, PointedBy, PointedLive DEF Listed
<1>3. tree[f].parent = d /\ f # d
  BY <1>1, <1>2 DEF ShapeInv, ListInv
<1>. QED  BY <1>1, <1>2, <1>3, LiveRef

\* With polite clients nobody has to do with a file that another removes.
LEMMA NotRemoved ==
    ASSUME ShapeInv, PoliteInv, polite, NEW x \in FFids, NEW w \in Workers, Mine(x, w),
           NEW v \in Workers \ {w}, fw[v].pc = "remove"
    PROVE  /\ fw[v].file \notin {Nil, Root, ff[x].file}
           /\ fw[v].file \notin {fw[w].file, fw[w].got}
<1>1. fw[v].file # Root /\ ~Others(fw[v].fid, fw[v].file)
  BY DEF PoliteInv, RemoveShape
<1>2. fw[v].fid \in FFids /\ fw[v].file \in Files /\ fw[v].fid # x
  BY DEF ShapeInv, WorkInv, WorkShape, Mine
<1>3. fw[w].fid # fw[v].fid
  BY <1>2, NilNoFid DEF Mine
<1>. QED  BY <1>1, <1>2, <1>3, NilNoFile DEF Others

\* and a fid is on the root or on a file of a list.
LEMMA OnListed ==
    ASSUME ShapeInv, PoliteInv, polite, NEW x \in FFids, NEW w \in Workers, Mine(x, w),
           fw[w].pc # "clunk" \/ fw[w].fid # x, ff[x].file \notin {Nil, Root}
    PROVE  Listed(ff[x].file)
BY DEF PoliteInv, OnInv, OnShape, Mine

\* Steps that change nothing but what the worker is at.
LEMMA StillFiles ==
    ASSUME ShapeInv, ~Dangling, NEW x \in FFids, NEW w \in Workers, UNCHANGED <<tree, ff>>,
           fw[w].got = fw'[w].got, fw'[w].file \in {Nil, ff[x].file}
    PROVE  FileStep(x, w)
<1>1. Moves(tree, tree')
  BY MovesNot DEF ShapeInv, LiveInv
<1>2. \A g \in Files : Delta(x, w, g) = 0 /\ Net(tree[g]) \in Int
  BY DEF Delta, One, Net, ShapeInv, TypeInv, FileRec
<1>3. \A g \in Files : ~Frees(tree[g], tree'[g])
  BY DEF Frees
<1>4. ASSUME NEW g \in {ff'[x].file, ff'[x].dirent, fw'[w].file, fw'[w].got} \ {Nil}
      PROVE  tree[g].st = "live"
  <2>1. ff[x] \in FidRec /\ fw[w] \in WorkRec
    BY DEF ShapeInv, TypeInv
  <2>2. g \in {ff[x].file, ff[x].dirent, fw[w].got} /\ g \in Files
    BY <1>4, <2>1 DEF FidRec, WorkRec, FileOrNil
  <2>. QED  BY <2>2, PointedBy, PointedLive
<1>. QED  BY <1>1, <1>2, <1>3, <1>4 DEF FileStep

----------------------------------------------------------------------------
(* The actions *)

\* npfile_find gives a live file of the directory, or none.
LEMMA FindIs ==
    ASSUME ShapeInv, ~Dangling, NEW d \in Files, NEW n
    PROVE  /\ FirstNamed(d, n) \in FileOrNil
           /\ FirstNamed(d, n) # Nil => FirstNamed(d, n) \in ToSet(kids[d])
           /\ npfile_find(d, n).got = FirstNamed(d, n)
           /\ npfile_find(d, n).tree = npfile_incref(tree, FirstNamed(d, n))
<1>1. kids[d] \in Seq(Files \ {Root})
  BY DEF ShapeInv, TypeInv
<1>2. CASE Named(d, n) = {}
  BY <1>2 DEF FirstNamed, npfile_find, FileOrNil
<1>3. CASE Named(d, n) # {}
  <2>. DEFINE P(i) == tree[kids[d][i]].name = n
              S == {i \in DOMAIN kids[d] : P(i)}
  <2>1. S # {} /\ S \subseteq Nat /\ DOMAIN kids[d] = 1 .. Len(kids[d]) /\ Len(kids[d]) \in Nat
    <3>1. PICK f \in ToSet(kids[d]) : tree[f].name = n
      BY <1>3 DEF Named
    <3>2. PICK i \in DOMAIN kids[d] : kids[d][i] = f
      BY DEF ToSet
    <3>3. DOMAIN kids[d] = 1 .. Len(kids[d]) /\ Len(kids[d]) \in Nat
      BY <1>1
    <3>. QED  BY <3>1, <3>2, <3>3
  <2>2. PICK i \in S : \A j \in S : i <= j
    <3>. HIDE DEF S
    <3>. QED  BY <2>1, LeastNat
  <2>3. i \in DOMAIN kids[d] /\ P(i) /\ \A j \in 1 .. (i - 1) : ~P(j)
    BY <2>1, <2>2
  <2>4. \E k \in DOMAIN kids[d] : P(k) /\ \A j \in 1 .. (k - 1) : ~P(j)
    BY <2>3
  <2>5. PICK k \in DOMAIN kids[d] : k = CHOOSE l \in DOMAIN kids[d] : P(l) /\ \A j \in 1 .. (l - 1) : ~P(j)
    BY <2>4
  <2>6. FirstNamed(d, n) = kids[d][k]
    BY <1>3, <2>5 DEF FirstNamed
  <2>7. FirstNamed(d, n) \in ToSet(kids[d]) /\ FirstNamed(d, n) \in Files
    BY <1>1, <2>6, QueueOf
  <2>. QED  BY <2>7 DEF npfile_find, FileOrNil
<1>. QED  BY <1>2, <1>3

\* A step that only crashes.
LEMMA CrashKeeps ==
    ASSUME TreeInv, ~polite, crashed' \in BOOLEAN, UNCHANGED <<polite, tree, kids, ff, fw>>
    PROVE  TreeInv'
<1>1. ShapeInv'
  <2>1. TypeInv' /\ ListInv'
    BY DEF TreeInv, ShapeInv, TypeInv, ListInv
  <2>2. \A f \in Files : Pointed(f)' <=> Pointed(f)
    BY DEF Pointed, Listed
  <2>3. LiveInv'
    BY <2>2 DEF TreeInv, ShapeInv, LiveInv, Good
  <2>4. WorkInv' /\ FidInv' /\ ReadInv'
    BY DEF TreeInv, ShapeInv, WorkInv, WorkShape, FidInv, FidShape, ReadInv, ReadShape
  <2>. QED  BY <2>1, <2>3, <2>4 DEF ShapeInv
<1>2. RefExact'
  <2>1. Dangling' <=> Dangling
    BY DEF Dangling, Pointed, Listed
  <2>2. \A f \in Files : Refs(f)' = Refs(f)
    BY DEF Refs, Listed
  <2>. QED  BY <2>1, <2>2 DEF TreeInv, RefExact
<1>. QED  BY <1>1, <1>2 DEF TreeInv, PoliteInv

\* Polite clients do not walk from a file: WalkFile.
LEMMA WalkFileKeeps ==
    ASSUME TreeInv, ~Dangling, NEW x \in FFids, NEW w \in Workers, WalkFile(w, x)
    PROVE  TreeInv'
BY CrashKeeps DEF WalkFile, Polite

Fits(r, x) ==
    /\ r.pc \in {"walk", "create", "made"} => ~ff[x].open
    /\ IF r.pc \in {"walk", "made"} THEN r.got \in Files ELSE r.got = Nil

\* A worker that begins with a fid and has got nothing yet.
LEMMA BeginShape ==
    ASSUME ShapeInv, ~Dangling, NEW x \in FFids, NEW w \in Workers, Begin(w, x), NEW r \in WorkRec,
           fw' = [fw EXCEPT ![w] = r], r.fid = x, r.file = ff[x].file, r.pc # "idle",
           Fits(r, x),
           UNCHANGED <<polite, kids, ff>>, crashed' \in BOOLEAN
    PROVE  ShapeStep(x, w) /\ fw'[w] = r
<1>1. /\ fw[w] = Idle /\ Mine(x, w) /\ fw[w].got = Nil /\ fw[w].fid = Nil
      /\ ff[x].file \in Files /\ ff[x] \in FidRec /\ FidShape(x) /\ ReadShape(x)
  BY BeginFacts
<1>2. ff \in [FFids -> FidRec] /\ fw \in [Workers -> WorkRec]
  BY DEF ShapeInv, TypeInv
<1>3. fw'[w] = r /\ (\A v \in Workers \ {w} : fw'[v] = fw[v]) /\ fw' \in [Workers -> WorkRec]
  BY <1>2
<1>4. FidShape(x)' /\ ReadShape(x)'
  BY <1>1 DEF FidShape, ReadShape
<1>5. WorkShape(w)'
  BY <1>1, <1>3 DEF WorkShape, Fits
<1>. QED  BY <1>1, <1>2, <1>3, <1>4, <1>5 DEF ShapeStep, Only

\* What Working gives.
LEMMA WorkingIs ==
    ASSUME ShapeInv, ~Dangling, NEW x \in FFids, NEW w \in Workers, Begin(w, x), NEW p \in Pcs
    PROVE  /\ Working(w, x, p) = [pc |-> p, fid |-> x, file |-> ff[x].file, got |-> Nil, name |-> Nil]
           /\ Working(w, x, p) \in WorkRec
<1>1. ff[x].file \in Files
  BY BeginFacts
<1>2. Working(w, x, p) = [pc |-> p, fid |-> x, file |-> ff[x].file, got |-> Nil, name |-> Nil]
  <2>1. [Idle EXCEPT !.pc = p] = [pc |-> p, fid |-> Nil, file |-> Nil, got |-> Nil, name |-> Nil]
    BY DEF Idle
  <2>2. [[pc |-> p, fid |-> Nil, file |-> Nil, got |-> Nil, name |-> Nil] EXCEPT !.fid = x]
        = [pc |-> p, fid |-> x, file |-> Nil, got |-> Nil, name |-> Nil]
    OBVIOUS
  <2>3. [[pc |-> p, fid |-> x, file |-> Nil, got |-> Nil, name |-> Nil] EXCEPT !.file = ff[x].file]
        = [pc |-> p, fid |-> x, file |-> ff[x].file, got |-> Nil, name |-> Nil]
    OBVIOUS
  <2>. QED  BY <2>1, <2>2, <2>3, Zenon DEF Working
<1>. QED  BY <1>1, <1>2 DEF WorkRec, FileOrNil, NameOrNil

\* CreateFind, in which npfile_create looks for the name.
LEMMA CreateFindKeeps ==
    ASSUME TreeInv, ~Dangling, NEW x \in FFids, NEW w \in Workers, NEW n \in Names, CreateFind(w, x, n)
    PROVE  TreeInv'
<1>. USE NilNoFile
<1>0. ShapeInv /\ PoliteInv /\ Begin(w, x) /\ ~ff[x].open
  BY DEF TreeInv, CreateFind
<1>1. /\ fw[w] = Idle /\ Mine(x, w) /\ fw[w].got = Nil /\ fw[w].fid = Nil /\ fw[w].pc = "idle"
      /\ ff[x].file \in Files
  BY <1>0, BeginFacts
<1>. DEFINE r == [pc |-> "create", fid |-> x, file |-> ff[x].file, got |-> Nil, name |-> n]
<1>2. r = [Working(w, x, "create") EXCEPT !.name = n] /\ r \in WorkRec
  BY <1>0, <1>1, WorkingIs DEF WorkRec, FileOrNil, NameOrNil, Pcs
<1>3. UNCHANGED <<polite, tree, kids, ff, crashed>> /\ fw' = [fw EXCEPT ![w] = r]
  BY <1>2 DEF CreateFind
<1>4. ShapeStep(x, w) /\ fw'[w] = r
  <2>1. r.fid = x /\ r.file = ff[x].file /\ r.pc = "create" /\ Fits(r, x) /\ crashed' \in BOOLEAN
    BY <1>0, <1>3 DEF ShapeInv, TypeInv, Fits
  <2>. HIDE DEF r
  <2>. QED  BY <1>0, <1>2, <1>3, <2>1, BeginShape
<1>5. FileStep(x, w)
  BY <1>0, <1>1, <1>3, <1>4, StillFiles
<1>6. PoliteStep(x, w)
  <2>. SUFFICES ASSUME polite PROVE PoliteStep(x, w)
    BY DEF PoliteStep
  <2>1. ~crashed' /\ \A g \in Files : tree'[g].owed = tree[g].owed
    BY <1>0, <1>3 DEF PoliteInv
  <2>2. OnShape(x)' /\ GotShape(w)' /\ RemoveShape(w)'
    <3>1. ff[x].file \notin {Nil, Root} => Listed(ff[x].file)
      BY <1>0, <1>1, OnListed
    <3>. QED  BY <3>1, <1>3, <1>4 DEF OnShape, GotShape, RemoveShape, Listed
  <2>3. CreateShape(w)'
    <3>1. Named(ff[x].file, n) = {}
      BY DEF CreateFind
    <3>2. ~\E v \in Workers : fw[v].file = ff[x].file /\ fw[v].pc = "create" /\ fw[v].name = n
      BY DEF CreateFind, Polite
    <3>3. Named(fw[w].file, fw[w].name)' = {}
      BY <3>1, <1>3, <1>4 DEF Named
    <3>. QED  BY <3>2, <3>3, <1>3, <1>4 DEF CreateShape, ShapeStep, Only
  <2>4. \A v \in Workers \ {w} : fw[v].pc = "remove" =>
          fw[v].file \notin {ff'[x].file, fw'[w].file, fw'[w].got}
    BY <1>0, <1>1, <1>3, <1>4, NotRemoved
  <2>. QED  BY <2>1, <2>2, <2>3, <2>4 DEF PoliteStep
<1>. QED  BY <1>4, <1>5, <1>6, StepKeeps

\* RemoveCheck, in which npfile_remove looks at the directory.
LEMMA RemoveCheckKeeps ==
    ASSUME TreeInv, ~Dangling, NEW x \in FFids, NEW w \in Workers, RemoveCheck(w, x)
    PROVE  TreeInv'
<1>. USE NilNoFile
<1>0. ShapeInv /\ PoliteInv /\ Begin(w, x)
  BY DEF TreeInv, RemoveCheck
<1>1. /\ fw[w] = Idle /\ Mine(x, w) /\ fw[w].got = Nil /\ fw[w].fid = Nil /\ fw[w].pc = "idle"
      /\ ff[x].file \in Files
  BY <1>0, BeginFacts
<1>. DEFINE r == [pc |-> "remove", fid |-> x, file |-> ff[x].file, got |-> Nil, name |-> Nil]
<1>2. r = Working(w, x, "remove") /\ r \in WorkRec
  BY <1>0, <1>1, WorkingIs DEF Pcs
<1>3. UNCHANGED <<polite, tree, kids, ff, crashed>> /\ fw' = [fw EXCEPT ![w] = r]
  BY <1>2 DEF RemoveCheck
<1>4. ShapeStep(x, w) /\ fw'[w] = r
  <2>1. r.fid = x /\ r.file = ff[x].file /\ r.pc = "remove" /\ Fits(r, x) /\ crashed' \in BOOLEAN
    BY <1>0, <1>3 DEF ShapeInv, TypeInv, Fits
  <2>. HIDE DEF r
  <2>. QED  BY <1>0, <1>2, <1>3, <2>1, BeginShape
<1>5. FileStep(x, w)
  BY <1>0, <1>1, <1>3, <1>4, StillFiles
<1>6. PoliteStep(x, w)
  <2>. SUFFICES ASSUME polite PROVE PoliteStep(x, w)
    BY DEF PoliteStep
  <2>1. ~crashed' /\ \A g \in Files : tree'[g].owed = tree[g].owed
    BY <1>0, <1>3 DEF PoliteInv
  <2>2. OnShape(x)' /\ GotShape(w)' /\ CreateShape(w)'
    <3>1. ff[x].file \notin {Nil, Root} => Listed(ff[x].file)
      BY <1>0, <1>1, OnListed
    <3>. QED  BY <3>1, <1>3, <1>4 DEF OnShape, GotShape, CreateShape, Listed
  <2>3. RemoveShape(w)'
    <3>1. ff[x].file # Root /\ kids[ff[x].file] = <<>> /\ ~Others(x, ff[x].file)
      BY DEF RemoveCheck, Polite, IsEmpty
    <3>2. ~Others(x, ff[x].file)'
      BY <3>1, <1>3, <1>4 DEF Others, ShapeStep, Only
    <3>. QED  BY <3>1, <3>2, <1>3, <1>4 DEF RemoveShape
  <2>4. \A v \in Workers \ {w} : fw[v].pc = "remove" =>
          fw[v].file \notin {ff'[x].file, fw'[w].file, fw'[w].got}
    BY <1>0, <1>1, <1>3, <1>4, NotRemoved
  <2>. QED  BY <2>1, <2>2, <2>3, <2>4 DEF PoliteStep
<1>. QED  BY <1>4, <1>5, <1>6, StepKeeps

\* WstatName, which polite clients do not ask for.
LEMMA WstatNameKeeps ==
    ASSUME TreeInv, ~Dangling, NEW x \in FFids, NEW w \in Workers, WstatName(w, x)
    PROVE  TreeInv'
<1>. USE NilNoFile
<1>0. ShapeInv /\ Begin(w, x) /\ ~polite /\ UNCHANGED <<polite, tree, kids, ff>>
  BY DEF TreeInv, WstatName, Polite
<1>1. CASE tree[ff[x].file].parent = Nil
  BY <1>0, <1>1, CrashKeeps DEF WstatName
<1>2. CASE tree[ff[x].file].parent # Nil
  <2>1. fw[w].got = Nil /\ ff[x].file \in Files
    BY <1>0, BeginFacts
  <2>. DEFINE r == [pc |-> "stuck", fid |-> x, file |-> ff[x].file, got |-> Nil, name |-> Nil]
  <2>2. r = Working(w, x, "stuck") /\ r \in WorkRec
    BY <1>0, WorkingIs DEF Pcs
  <2>3. UNCHANGED crashed /\ fw' = [fw EXCEPT ![w] = r]
    BY <1>2, <2>2 DEF WstatName
  <2>4. ShapeStep(x, w) /\ fw'[w] = r
    <3>1. r.fid = x /\ r.file = ff[x].file /\ r.pc = "stuck" /\ Fits(r, x) /\ crashed' \in BOOLEAN
      BY <1>0, <2>3 DEF ShapeInv, TypeInv, Fits
    <3>. HIDE DEF r
    <3>. QED  BY <1>0, <2>2, <2>3, <3>1, BeginShape
  <2>5. FileStep(x, w)
    BY <1>0, <2>1, <2>4, StillFiles
  <2>. QED  BY <1>0, <2>4, <2>5, StepKeeps DEF PoliteStep
<1>. QED  BY <1>1, <1>2

\* A worker that is done, or only needed one step, with fid x.
LEMMA EndShape ==
    ASSUME ShapeInv, NEW x \in FFids, NEW w \in Workers, Mine(x, w),
           ff' \in [FFids -> FidRec], \A y \in FFids \ {x} : ff'[y] = ff[y],
           fw' = [fw EXCEPT ![w] = Idle], UNCHANGED <<polite, kids, crashed>>,
           FidShape(x)', ReadShape(x)'
    PROVE  ShapeStep(x, w) /\ fw'[w] = Idle /\ fw'[w].got = Nil /\ fw'[w].file = Nil
<1>1. fw \in [Workers -> WorkRec] /\ crashed \in BOOLEAN
  BY DEF ShapeInv, TypeInv
<1>2. Idle \in WorkRec
  BY DEF Idle, WorkRec, Pcs, FileOrNil, NameOrNil
<1>3. fw' \in [Workers -> WorkRec] /\ fw'[w] = Idle /\ \A v \in Workers \ {w} : fw'[v] = fw[v]
  BY <1>1, <1>2
<1>4. WorkShape(w)' /\ fw'[w].fid = Nil /\ fw'[w].got = Nil /\ fw'[w].file = Nil
  BY <1>3 DEF WorkShape, Idle
<1>. QED  BY <1>1, <1>3, <1>4 DEF ShapeStep, Only

\* and what has to be shown of such a step for polite clients.
LEMMA EndPolite ==
    ASSUME NEW x \in FFids, NEW w \in Workers, PoliteInv, fw'[w] = Idle, UNCHANGED crashed, polite,
           \A g \in Files : tree'[g].owed = tree[g].owed,
           OnShape(x)', ShapeInv,
           \A v \in Workers \ {w} : fw[v].pc = "remove" => fw[v].file # ff'[x].file
    PROVE  PoliteStep(x, w)
<1>1. fw'[w].pc = "idle" /\ fw'[w].got = Nil /\ fw'[w].file = Nil
  BY DEF Idle
<1>2. GotShape(w)' /\ RemoveShape(w)' /\ CreateShape(w)'
  BY <1>1 DEF GotShape, RemoveShape, CreateShape
<1>3. \A v \in Workers : fw[v].pc = "remove" => fw[v].file # Nil
  BY NilNoFile DEF ShapeInv, WorkInv, WorkShape
<1>. QED  BY <1>1, <1>2, <1>3 DEF PoliteStep, PoliteInv

\* A worker that is idle stays so.
LEMMA StaysIdle ==
    ASSUME ShapeInv, NEW w \in Workers, fw[w] = Idle, UNCHANGED fw
    PROVE  fw' = [fw EXCEPT ![w] = Idle]
BY DEF ShapeInv, TypeInv

\* CreateRefused and RemoveRefused.
LEMMA RefusedKeeps ==
    ASSUME TreeInv, ~Dangling, NEW w \in Workers, CreateRefused(w) \/ RemoveRefused(w)
    PROVE  TreeInv'
<1>. USE NilNoFile
<1>0. ShapeInv /\ PoliteInv /\ fw[w].pc \in {"create", "remove"} /\ fw' = [fw EXCEPT ![w] = Idle]
      /\ UNCHANGED <<polite, tree, kids, ff, crashed>>
  BY DEF TreeInv, CreateRefused, RemoveRefused
<1>1. PICK x \in FFids : x = fw[w].fid
  BY <1>0, HasFid
<1>2. Mine(x, w) /\ WorkShape(w) /\ FidShape(x) /\ ReadShape(x)
  BY <1>0, <1>1, RunFacts
<1>3. FidShape(x)' /\ ReadShape(x)'
  BY <1>0, <1>2 DEF FidShape, ReadShape
<1>4. ff' \in [FFids -> FidRec] /\ \A y \in FFids \ {x} : ff'[y] = ff[y]
  BY <1>0 DEF ShapeInv, TypeInv
<1>5. ShapeStep(x, w) /\ fw'[w] = Idle /\ fw'[w].got = Nil /\ fw'[w].file = Nil
  BY <1>0, <1>2, <1>3, <1>4, EndShape
<1>6. fw[w].got = Nil
  BY <1>0, <1>2 DEF WorkShape
<1>7. FileStep(x, w)
  BY <1>0, <1>5, <1>6, StillFiles
<1>8. PoliteStep(x, w)
  <2>. SUFFICES ASSUME polite PROVE PoliteStep(x, w)
    BY DEF PoliteStep
  <2>1. ff[x].file \notin {Nil, Root} => Listed(ff[x].file)
    BY <1>0, <1>2, OnListed
  <2>2. OnShape(x)'
    BY <2>1, <1>0 DEF OnShape, Listed
  <2>3. \A v \in Workers \ {w} : fw[v].pc = "remove" => fw[v].file # ff'[x].file
    BY <1>0, <1>2, NotRemoved
  <2>. QED  BY <1>0, <1>5, <2>2, <2>3, EndPolite
<1>. QED  BY <1>5, <1>7, <1>8, StepKeeps

\* npfile_open.
LEMMA OpenKeeps ==
    ASSUME TreeInv, ~Dangling, NEW x \in FFids, NEW w \in Workers, NEW ok \in BOOLEAN, npfile_open(w, x, ok)
    PROVE  TreeInv'
<1>. USE NilNoFile
<1>0. ShapeInv /\ PoliteInv /\ Begin(w, x) /\ ~ff[x].open /\ UNCHANGED <<polite, tree, kids, fw, crashed>>
      /\ ff' = [ff EXCEPT ![x].open = TRUE, ![x].own = ok]
  BY DEF TreeInv, npfile_open
<1>1. /\ fw[w] = Idle /\ Mine(x, w) /\ fw[w].got = Nil /\ fw[w].pc = "idle"
      /\ ff[x].file \in Files /\ ff[x] \in FidRec /\ FidShape(x) /\ ff \in [FFids -> FidRec]
  BY <1>0, BeginFacts DEF ShapeInv, TypeInv
<1>2. /\ ff' \in [FFids -> FidRec] /\ (\A y \in FFids \ {x} : ff'[y] = ff[y])
      /\ ff'[x].file = ff[x].file /\ ff'[x].dirent = ff[x].dirent /\ ff'[x].begun = ff[x].begun
      /\ ff'[x].open
  BY <1>0, <1>1 DEF FidRec
<1>3. ff[x].dirent = Nil /\ ~ff[x].begun
  BY <1>0, <1>1 DEF FidShape
<1>4. FidShape(x)' /\ ReadShape(x)'
  BY <1>1, <1>2, <1>3 DEF FidShape, ReadShape
<1>5. ShapeStep(x, w) /\ fw'[w] = Idle /\ fw'[w].got = Nil /\ fw'[w].file = Nil
  BY <1>0, <1>1, <1>2, <1>4, StaysIdle, EndShape
<1>6. FileStep(x, w)
  <2>1. Moves(tree, tree')
    BY <1>0, MovesNot DEF ShapeInv, LiveInv
  <2>2. \A g \in Files : Delta(x, w, g) = 0 /\ Net(tree[g]) \in Int
    BY <1>0, <1>2 DEF Delta, One, Net, ShapeInv, TypeInv, FileRec
  <2>3. \A g \in Files : ~Frees(tree[g], tree'[g])
    BY <1>0 DEF Frees
  <2>4. tree[ff[x].file].st = "live"
    BY <1>0, BeginFacts
  <2>. QED  BY <1>0, <1>2, <1>3, <1>5, <2>1, <2>2, <2>3, <2>4 DEF FileStep
<1>7. PoliteStep(x, w)
  <2>. SUFFICES ASSUME polite PROVE PoliteStep(x, w)
    BY DEF PoliteStep
  <2>1. ff[x].file \notin {Nil, Root} => Listed(ff[x].file)
    BY <1>0, <1>1, OnListed
  <2>2. OnShape(x)'
    BY <2>1, <1>0, <1>2 DEF OnShape, Listed
  <2>3. \A v \in Workers \ {w} : fw[v].pc = "remove" => fw[v].file # ff'[x].file
    BY <1>0, <1>1, <1>2, NotRemoved
  <2>. QED  BY <1>0, <1>5, <2>2, <2>3, EndPolite
<1>. QED  BY <1>5, <1>6, <1>7, StepKeeps

\* CreateExists, in which npfile_create finds the name taken.
LEMMA CreateExistsKeeps ==
    ASSUME TreeInv, ~Dangling, NEW x \in FFids, NEW w \in Workers, NEW n \in Names, CreateExists(w, x, n)
    PROVE  TreeInv'
<1>. USE NilNoFile
<1>0. ShapeInv /\ PoliteInv /\ Begin(w, x) /\ UNCHANGED <<polite, kids, ff, fw, crashed>>
  BY DEF TreeInv, CreateExists
<1>1. /\ fw[w] = Idle /\ Mine(x, w) /\ fw[w].got = Nil /\ fw[w].pc = "idle"
      /\ ff[x].file \in Files /\ FidShape(x) /\ ReadShape(x)
      /\ tree[ff[x].file].st = "live"
  BY <1>0, BeginFacts
<1>2. PICK d \in Files : d = ff[x].file
  BY <1>1
<1>3. PICK f \in FileOrNil : f = FirstNamed(d, n)
  BY <1>0, FindIs
<1>4. f \in ToSet(kids[d]) /\ tree' = Forget(npfile_incref(tree, f), f)
  BY <1>0, <1>2, <1>3, FindIs DEF CreateExists
<1>5. f \in Files /\ tree[f].st = "live"
  BY <1>0, <1>4, KidLive
<1>. DEFINE t == npfile_incref(tree, f)
<1>6. /\ Moves(tree, t)
      /\ \A g \in Files : /\ t[g].st = tree[g].st /\ t[g].owed = tree[g].owed
                          /\ Net(t[g]) = Net(tree[g]) + One(f = g)
  BY <1>0, <1>5, IncrefIs DEF ShapeInv, LiveInv
<1>7. Good(t) /\ t[f].st # "none"
  BY <1>5, <1>6 DEF Moves
<1>. HIDE DEF t
<1>8. /\ Moves(t, tree')
      /\ \A g \in Files : /\ tree'[g].st = t[g].st /\ tree'[g].owed = t[g].owed
                          /\ Net(tree'[g]) = Net(t[g]) - One(f = g)
  BY <1>4, <1>5, <1>7, ForgetIs DEF t
<1>9. FileStep(x, w)
  <2>1. Moves(tree, tree')
    BY <1>6, <1>8, MovesOn
  <2>2. \A g \in Files : Delta(x, w, g) = 0 /\ Net(tree[g]) \in Int /\ One(f = g) \in Int
    <3>1. \A g \in Files : Net(tree[g]) \in Int
      BY <1>0, NetInt
    <3>2. \A g \in Files : Delta(x, w, g) = 0 /\ One(f = g) \in Int
      BY <1>0 DEF Delta, One
    <3>. QED  BY <3>1, <3>2
  <2>3. \A g \in Files : ~Frees(tree[g], tree'[g])
    BY <1>6, <1>8 DEF Frees
  <2>4. \A g \in Files : Net(tree'[g]) = Net(tree[g]) + Delta(x, w, g)
    BY <1>6, <1>8, <2>2
  <2>5. ff[x].dirent # Nil => tree[ff[x].dirent].st = "live"
    BY <1>0, EntryLive
  <2>6. fw'[w].file = Nil /\ fw'[w].got = Nil
    BY <1>0, <1>1 DEF Idle
  <2>. QED  BY <1>0, <1>1, <2>1, <2>3, <2>4, <2>5, <2>6 DEF FileStep
<1>10. FidShape(x)' /\ ReadShape(x)'
  BY <1>0, <1>1 DEF FidShape, ReadShape
<1>11. ff' \in [FFids -> FidRec] /\ \A y \in FFids \ {x} : ff'[y] = ff[y]
  BY <1>0 DEF ShapeInv, TypeInv
<1>12. ShapeStep(x, w) /\ fw'[w] = Idle
  BY <1>0, <1>1, <1>10, <1>11, StaysIdle, EndShape
<1>13. PoliteStep(x, w)
  <2>. SUFFICES ASSUME polite PROVE PoliteStep(x, w)
    BY DEF PoliteStep
  <2>1. ff[x].file \notin {Nil, Root} => Listed(ff[x].file)
    BY <1>0, <1>1, OnListed
  <2>2. OnShape(x)'
    BY <2>1, <1>0 DEF OnShape, Listed
  <2>3. \A v \in Workers \ {w} : fw[v].pc = "remove" => fw[v].file # ff'[x].file
    BY <1>0, <1>1, NotRemoved
  <2>4. \A g \in Files : tree'[g].owed = tree[g].owed
    BY <1>6, <1>8
  <2>. QED  BY <1>0, <1>12, <2>2, <2>3, <2>4, EndPolite
<1>. QED  BY <1>9, <1>12, <1>13, StepKeeps

\* A fid that was on nothing comes to be on file f: npfile_attach, npfile_clone.
LEMMA NewFid ==
    ASSUME TreeInv, ~Dangling, NEW y \in FFids, NEW w \in Workers, fw[w] = Idle, ff[y].file = Nil,
           NEW f \in Files, tree[f].st = "live" \/ f = Root,
           tree' = npfile_incref(tree, f), ff' = [ff EXCEPT ![y].file = f],
           UNCHANGED <<polite, kids, fw, crashed>>,
           polite => /\ f # Root => Listed(f)
                     /\ \A v \in Workers \ {w} : fw[v].pc = "remove" => fw[v].file # f
    PROVE  TreeInv'
<1>. USE NilNoFile
<1>0. ShapeInv /\ PoliteInv /\ fw[w].got = Nil /\ fw[w].file = Nil
  BY DEF TreeInv, Idle
<1>1. ff[y] = NoFid /\ ff \in [FFids -> FidRec]
  BY <1>0 DEF ShapeInv, FidInv, FidShape, TypeInv
<1>2. /\ ff' \in [FFids -> FidRec] /\ (\A z \in FFids \ {y} : ff'[z] = ff[z])
      /\ ff'[y].file = f /\ ff'[y].dirent = Nil /\ ~ff'[y].begun /\ ~ff'[y].open
      /\ ff[y].dirent = Nil
  <2>1. ff[y].dirent = Nil /\ ~ff[y].begun /\ ~ff[y].open
    BY <1>1 DEF NoFid
  <2>2. f \in FileOrNil
    BY DEF FileOrNil
  <2>. QED  BY <1>1, <2>1, <2>2 DEF FidRec
<1>3. Mine(y, w)
  <2>1. ASSUME NEW v \in Workers, fw[v].fid = y PROVE FALSE
    <3>1. fw[v].pc # "idle"
      BY <2>1, <1>0, NilNoFid DEF ShapeInv, WorkInv, WorkShape, Idle
    <3>. QED  BY <2>1, <3>1, <1>0 DEF ShapeInv, WorkInv, WorkShape
  <2>. QED  BY <2>1 DEF Mine, Idle
<1>4. FidShape(y)' /\ ReadShape(y)'
  BY <1>2 DEF FidShape, ReadShape
<1>5. ShapeStep(y, w) /\ fw'[w] = Idle
  BY <1>0, <1>2, <1>3, <1>4, StaysIdle, EndShape
<1>6. tree[f].st # "none"
  BY <1>0 DEF ShapeInv, LiveInv
<1>7. /\ Moves(tree, tree')
      /\ \A g \in Files : /\ tree'[g].st = tree[g].st /\ tree'[g].owed = tree[g].owed
                          /\ Net(tree'[g]) = Net(tree[g]) + One(f = g)
  BY <1>0, <1>6, IncrefIs DEF ShapeInv, LiveInv, FileOrNil
<1>8. FileStep(y, w)
  <2>1. \A g \in Files : Delta(y, w, g) = One(f = g)
    BY <1>0, <1>2 DEF Delta, One
  <2>2. \A g \in Files : ~Frees(tree[g], tree'[g])
    BY <1>7 DEF Frees
  <2>3. \A g \in {ff'[y].file, ff'[y].dirent, fw'[w].file, fw'[w].got} \ {Nil} : tree[g].st = "live" \/ g = Root
    BY <1>0, <1>2
  <2>. QED  BY <1>7, <2>1, <2>2, <2>3 DEF FileStep
<1>9. PoliteStep(y, w)
  <2>. SUFFICES ASSUME polite PROVE PoliteStep(y, w)
    BY DEF PoliteStep
  <2>1. OnShape(y)'
    BY <1>2 DEF OnShape, Listed
  <2>2. \A v \in Workers \ {w} : fw[v].pc = "remove" => fw[v].file # ff'[y].file
    BY <1>2
  <2>. QED  BY <1>0, <1>5, <1>7, <2>1, <2>2, EndPolite
<1>. QED  BY <1>5, <1>8, <1>9, StepKeeps

\* npfile_attach.
LEMMA AttachKeeps ==
    ASSUME TreeInv, ~Dangling, NEW x \in FFids, NEW w \in Workers, npfile_attach(w, x)
    PROVE  TreeInv'
<1>1. fw[w] = Idle
  BY DEF npfile_attach, TreeInv, ShapeInv, WorkInv, WorkShape
<1>2. polite => \A v \in Workers \ {w} : fw[v].pc = "remove" => fw[v].file # Root
  BY DEF TreeInv, PoliteInv, RemoveShape
<1>. QED  BY <1>1, <1>2, NewFid, NilNoFile DEF npfile_attach

\* npfile_clone.
LEMMA CloneKeeps ==
    ASSUME TreeInv, ~Dangling, NEW x \in FFids, NEW y \in FFids, NEW w \in Workers, npfile_clone(w, x, y)
    PROVE  TreeInv'
<1>0. ShapeInv /\ PoliteInv /\ Begin(w, x)
  BY DEF TreeInv, npfile_clone
<1>1. /\ fw[w] = Idle /\ Mine(x, w) /\ fw[w].pc = "idle"
      /\ ff[x].file \in Files /\ tree[ff[x].file].st = "live"
  BY <1>0, BeginFacts
<1>2. PICK f \in Files : f = ff[x].file
  BY <1>1
<1>3. polite => /\ f # Root => Listed(f)
                /\ \A v \in Workers \ {w} : fw[v].pc = "remove" => fw[v].file # f
  BY <1>0, <1>1, <1>2, OnListed, NotRemoved, NilNoFile
<1>4. /\ ff[y].file = Nil /\ tree' = npfile_incref(tree, f) /\ ff' = [ff EXCEPT ![y].file = f]
      /\ UNCHANGED <<polite, kids, fw, crashed>> /\ (tree[f].st = "live" \/ f = Root)
  BY <1>1, <1>2 DEF npfile_clone
<1>. QED  BY <1>1, <1>3, <1>4, NewFid

\* WalkFind, in which npfile_walk finds the name.
LEMMA WalkFindKeeps ==
    ASSUME TreeInv, ~Dangling, NEW x \in FFids, NEW w \in Workers, NEW n \in Names, WalkFind(w, x, n)
    PROVE  TreeInv'
<1>. USE NilNoFile
<1>0. ShapeInv /\ PoliteInv /\ Begin(w, x) /\ ~ff[x].open /\ UNCHANGED <<polite, kids, ff, crashed>>
  BY DEF TreeInv, WalkFind
<1>1. /\ fw[w] = Idle /\ Mine(x, w) /\ fw[w].got = Nil /\ fw[w].fid = Nil /\ fw[w].pc = "idle"
      /\ ff[x].file \in Files /\ tree[ff[x].file].st = "live"
  BY <1>0, BeginFacts
<1>2. PICK d \in Files : d = ff[x].file
  BY <1>1
<1>3. PICK f \in FileOrNil : f = FirstNamed(d, n)
  BY <1>0, FindIs
<1>. DEFINE r == [pc |-> "walk", fid |-> x, file |-> ff[x].file, got |-> f, name |-> Nil]
<1>4. /\ f \in ToSet(kids[d]) /\ tree' = npfile_incref(tree, f)
      /\ fw' = [fw EXCEPT ![w] = [Working(w, x, "walk") EXCEPT !.got = f]]
      /\ polite => \A v \in Workers : fw[v].pc = "remove" => fw[v].file # f
  BY <1>0, <1>2, <1>3, FindIs DEF WalkFind, Polite
<1>5. f \in Files /\ tree[f].st = "live" /\ Listed(f)
  BY <1>0, <1>4, KidLive
<1>6. r = [Working(w, x, "walk") EXCEPT !.got = f] /\ r \in WorkRec
  BY <1>0, <1>1, <1>5, WorkingIs DEF WorkRec, FileOrNil, NameOrNil, Pcs
<1>7. ShapeStep(x, w) /\ fw'[w] = r
  <2>1. r.fid = x /\ r.file = ff[x].file /\ r.pc = "walk" /\ Fits(r, x) /\ crashed' \in BOOLEAN
    BY <1>0, <1>5 DEF ShapeInv, TypeInv, Fits
  <2>2. fw' = [fw EXCEPT ![w] = r]
    BY <1>4, <1>6
  <2>. HIDE DEF r
  <2>. QED  BY <1>0, <1>6, <2>1, <2>2, BeginShape
<1>8. fw'[w].got = f /\ fw'[w].file = ff[x].file /\ fw'[w].pc = "walk"
  BY <1>7
<1>9. /\ Moves(tree, tree')
      /\ \A g \in Files : /\ tree'[g].st = tree[g].st /\ tree'[g].owed = tree[g].owed
                          /\ Net(tree'[g]) = Net(tree[g]) + One(f = g)
  BY <1>0, <1>4, <1>5, IncrefIs DEF ShapeInv, LiveInv
<1>10. FileStep(x, w)
  <2>1. \A g \in Files : Delta(x, w, g) = One(f = g)
    BY <1>0, <1>1, <1>8 DEF Delta, One
  <2>2. \A g \in Files : ~Frees(tree[g], tree'[g])
    BY <1>9 DEF Frees
  <2>3. ff[x].dirent # Nil => tree[ff[x].dirent].st = "live"
    BY <1>0, EntryLive
  <2>4. \A g \in {ff'[x].file, ff'[x].dirent, fw'[w].file, fw'[w].got} \ {Nil} : tree[g].st = "live"
    BY <1>0, <1>1, <1>5, <1>8, <2>3
  <2>. QED  BY <1>9, <2>1, <2>2, <2>4 DEF FileStep
<1>11. PoliteStep(x, w)
  <2>. SUFFICES ASSUME polite PROVE PoliteStep(x, w)
    BY DEF PoliteStep
  <2>1. ff[x].file \notin {Nil, Root} => Listed(ff[x].file)
    BY <1>0, <1>1, OnListed
  <2>2. OnShape(x)' /\ GotShape(w)' /\ RemoveShape(w)' /\ CreateShape(w)'
    BY <2>1, <1>0, <1>5, <1>8 DEF OnShape, GotShape, RemoveShape, CreateShape, Listed
  <2>3. \A v \in Workers \ {w} : fw[v].pc = "remove" =>
          fw[v].file \notin {ff'[x].file, fw'[w].file, fw'[w].got}
    BY <1>0, <1>1, <1>4, <1>8, NotRemoved
  <2>4. ~crashed' /\ \A g \in Files : tree'[g].owed = tree[g].owed
    BY <1>0, <1>9 DEF PoliteInv
  <2>. QED  BY <2>2, <2>3, <2>4 DEF PoliteStep
<1>. QED  BY <1>7, <1>10, <1>11, StepKeeps

\* WalkUp, which polite clients do not ask for.
LEMMA WalkUpKeeps ==
    ASSUME TreeInv, ~Dangling, NEW x \in FFids, NEW w \in Workers, WalkUp(w, x)
    PROVE  TreeInv'
<1>. USE NilNoFile
<1>0. ShapeInv /\ ~polite /\ Begin(w, x) /\ ~ff[x].open /\ UNCHANGED <<polite, kids, ff, crashed>>
  BY DEF TreeInv, WalkUp, Polite
<1>1. /\ fw[w] = Idle /\ fw[w].got = Nil
      /\ ff[x].file \in Files /\ tree[ff[x].file].st = "live"
  BY <1>0, BeginFacts
<1>2. PICK f \in Files : f = tree[ff[x].file].parent
  <2>1. tree[ff[x].file].parent # Nil
    BY DEF WalkUp
  <2>. QED  BY <1>0, <1>1, <2>1 DEF ShapeInv, TypeInv, FileRec, FileOrNil
<1>. DEFINE r == [pc |-> "walk", fid |-> x, file |-> ff[x].file, got |-> f, name |-> Nil]
<1>4. tree' = Owe(tree, f) /\ fw' = [fw EXCEPT ![w] = [Working(w, x, "walk") EXCEPT !.got = f]]
  BY <1>2 DEF WalkUp
<1>5. tree[f].st = "live"
  <2>1. CASE ff[x].file = Root
    <3>1. f = Root
      BY <1>0, <1>2, <2>1 DEF ShapeInv, ListInv
    <3>. QED  BY <1>1, <2>1, <3>1
  <2>2. CASE ff[x].file # Root
    <3>1. Pointed(f)
      BY <1>1, <1>2, <2>2, PointedBy
    <3>. QED  BY <1>0, <3>1, PointedLive
  <2>. QED  BY <2>1, <2>2
<1>6. r = [Working(w, x, "walk") EXCEPT !.got = f] /\ r \in WorkRec
  BY <1>0, <1>1, WorkingIs DEF WorkRec, FileOrNil, NameOrNil, Pcs
<1>7. ShapeStep(x, w) /\ fw'[w] = r
  <2>1. r.fid = x /\ r.file = ff[x].file /\ r.pc = "walk" /\ Fits(r, x) /\ crashed' \in BOOLEAN
    BY <1>0 DEF ShapeInv, TypeInv, Fits
  <2>2. fw' = [fw EXCEPT ![w] = r]
    BY <1>4, <1>6
  <2>. HIDE DEF r
  <2>. QED  BY <1>0, <1>6, <2>1, <2>2, BeginShape
<1>8. fw'[w].got = f /\ fw'[w].file = ff[x].file
  BY <1>7
<1>9. /\ Moves(tree, tree')
      /\ \A g \in Files : tree'[g].st = tree[g].st /\ Net(tree'[g]) = Net(tree[g]) + One(f = g)
  BY <1>0, <1>4, <1>5, OweIs DEF ShapeInv, LiveInv
<1>10. FileStep(x, w)
  <2>1. \A g \in Files : Delta(x, w, g) = One(f = g)
    BY <1>0, <1>1, <1>8 DEF Delta, One
  <2>2. \A g \in Files : ~Frees(tree[g], tree'[g])
    BY <1>9 DEF Frees
  <2>3. ff[x].dirent # Nil => tree[ff[x].dirent].st = "live"
    BY <1>0, EntryLive
  <2>4. \A g \in {ff'[x].file, ff'[x].dirent, fw'[w].file, fw'[w].got} \ {Nil} : tree[g].st = "live"
    BY <1>0, <1>1, <1>5, <1>8, <2>3
  <2>. QED  BY <1>9, <2>1, <2>2, <2>4 DEF FileStep
<1>. QED  BY <1>0, <1>7, <1>10, StepKeeps DEF PoliteStep

\* A worker moves its fid to the file it has got, which gives up the other: WalkMove, CreateDone.
LEMMA MoveKeeps ==
    ASSUME TreeInv, ~Dangling, NEW w \in Workers, WalkMove(w) \/ CreateDone(w)
    PROVE  TreeInv'
<1>. USE NilNoFile
<1>0. ShapeInv /\ PoliteInv /\ fw[w].pc \in {"walk", "made"} /\ UNCHANGED <<polite, kids, crashed>>
      /\ fw' = [fw EXCEPT ![w] = Idle]
  BY DEF TreeInv, WalkMove, CreateDone
<1>1. PICK x \in FFids : x = fw[w].fid
  BY <1>0, HasFid
<1>2. /\ Mine(x, w) /\ WorkShape(w) /\ FidShape(x) /\ ff[x] \in FidRec
      /\ fw[w].file = ff[x].file /\ ff[x].file \in Files /\ tree[ff[x].file].st = "live"
      /\ tree[ff[x].file].ref > 0
  BY <1>0, <1>1, RunFacts
<1>3. PICK f \in Files, e \in Files : f = ff[x].file /\ e = fw[w].got
  BY <1>0, <1>2 DEF WorkShape
<1>4. tree[e].st = "live"
  BY <1>0, <1>1, <1>3, RunFacts
<1>5. ~ff[x].open /\ ff[x].dirent = Nil /\ ~ff[x].begun
  BY <1>0, <1>1, <1>2 DEF WorkShape, FidShape
<1>6. /\ ff' \in [FFids -> FidRec] /\ (\A y \in FFids \ {x} : ff'[y] = ff[y])
      /\ ff'[x].file = e /\ ff'[x].dirent = Nil /\ ~ff'[x].begun
  <2>1. ff \in [FFids -> FidRec] /\ e \in FileOrNil
    BY <1>0 DEF ShapeInv, TypeInv, FileOrNil
  <2>2. CASE WalkMove(w)
    <3>1. ff' = [ff EXCEPT ![x].file = e]
      BY <1>1, <1>3, <2>2 DEF WalkMove
    <3>. QED  BY <2>1, <3>1, <1>5 DEF FidRec
  <2>3. CASE CreateDone(w)
    <3>1. ff' = [ff EXCEPT ![x] = [ff[x] EXCEPT !.file = e, !.open = TRUE, !.own = TRUE]]
      BY <1>1, <1>3, <2>3 DEF CreateDone
    <3>2. [ff[x] EXCEPT !.file = e, !.open = TRUE, !.own = TRUE] \in FidRec
      BY <2>1, <1>2 DEF FidRec
    <3>3. /\ [ff[x] EXCEPT !.file = e, !.open = TRUE, !.own = TRUE].file = e
          /\ [ff[x] EXCEPT !.file = e, !.open = TRUE, !.own = TRUE].dirent = ff[x].dirent
          /\ [ff[x] EXCEPT !.file = e, !.open = TRUE, !.own = TRUE].begun = ff[x].begun
      BY <1>2 DEF FidRec
    <3>. QED  BY <2>1, <3>1, <3>2, <3>3, <1>5
  <2>. QED  BY <2>2, <2>3
<1>7. FidShape(x)' /\ ReadShape(x)'
  BY <1>6 DEF FidShape, ReadShape
<1>8. ShapeStep(x, w) /\ fw'[w] = Idle /\ fw'[w].got = Nil /\ fw'[w].file = Nil
  BY <1>0, <1>2, <1>6, <1>7, EndShape
<1>9. \A g \in Files : Delta(x, w, g) = 0 - One(f = g)
  BY <1>3, <1>5, <1>6, <1>8 DEF Delta, One
<1>10. /\ Moves(tree, tree')
       /\ \A g \in Files : /\ tree'[g].owed = tree[g].owed
                           /\ tree'[g].st = "live" => Net(tree'[g]) = Net(tree[g]) - One(f = g)
                           /\ Frees(tree[g], tree'[g]) => f = g /\ tree[g].ref = 1
  <2>1. Good(tree) /\ f \in FileOrNil /\ tree[f].st = "live" /\ tree[f].ref > 0
    BY <1>0, <1>2, <1>3 DEF ShapeInv, LiveInv, FileOrNil
  <2>2. CASE WalkMove(w)
    <3>1. tree' = npfile_decref(tree, f)
      BY <1>2, <1>3, <2>2 DEF WalkMove
    <3>. QED  BY <2>1, <3>1, DecrefIs DEF Frees
  <2>3. CASE CreateDone(w)
    <3>1. tree' = Forget(tree, f)
      BY <1>2, <1>3, <2>3 DEF CreateDone
    <3>. QED  BY <2>1, <3>1, ForgetIs DEF Frees
  <2>. QED  BY <2>2, <2>3
<1>11. FileStep(x, w)
  <2>1. ASSUME NEW g \in Files
        PROVE  /\ tree'[g].st = "live" => Net(tree'[g]) = Net(tree[g]) + Delta(x, w, g)
               /\ Frees(tree[g], tree'[g]) => tree[g].ref + Delta(x, w, g) <= 0
    <3>1. Net(tree[g]) \in Int /\ One(f = g) \in Int
      BY <1>0, NetInt DEF One
    <3>. QED  BY <1>9, <1>10, <3>1 DEF One
  <2>2. \A g \in {ff'[x].file, ff'[x].dirent, fw'[w].file, fw'[w].got} \ {Nil} : tree[g].st = "live"
    BY <1>4, <1>6, <1>8
  <2>. QED  BY <1>10, <2>1, <2>2 DEF FileStep
<1>12. PoliteStep(x, w)
  <2>. SUFFICES ASSUME polite PROVE PoliteStep(x, w)
    BY DEF PoliteStep
  <2>1. e # Root => Listed(e)
    BY <1>0, <1>3 DEF PoliteInv, OnInv, GotShape
  <2>2. OnShape(x)'
    BY <2>1, <1>0, <1>6 DEF OnShape, Listed
  <2>3. \A v \in Workers \ {w} : fw[v].pc = "remove" => fw[v].file # ff'[x].file
    BY <1>0, <1>2, <1>3, <1>6, NotRemoved
  <2>. QED  BY <1>0, <1>8, <1>10, <2>2, <2>3, EndPolite
<1>. QED  BY <1>8, <1>11, <1>12, StepKeeps

\* npfile_fiddestroy, with which worker w is done.
LEMMA DestroyKeeps ==
    ASSUME TreeInv, ~Dangling, NEW x \in FFids, NEW w \in Workers, Mine(x, w), fw[w].got = Nil,
           ff[x].file \in Files, npfile_fiddestroy(x), fw' = [fw EXCEPT ![w] = Idle],
           UNCHANGED <<polite, kids, crashed>>
    PROVE  TreeInv'
<1>. USE NilNoFile
<1>0. ShapeInv /\ PoliteInv /\ Good(tree)
  BY DEF TreeInv, ShapeInv, LiveInv
<1>1. PICK f \in Files, e \in FileOrNil : f = ff[x].file /\ e = ff[x].dirent
  BY <1>0 DEF ShapeInv, TypeInv, FidRec
<1>2. tree[f].st = "live" /\ tree[f].ref > 0
  BY <1>0, <1>1, PointedBy, PointedLive, LiveRef
<1>3. e # Nil => e \in Files /\ tree[e].st = "live" /\ tree[e].ref > 0 /\ e # f
  BY <1>0, <1>1, EntryLive DEF ShapeInv, FidInv, FidShape
<1>4. PICK t : t = DropDirent(tree, x)
  OBVIOUS
<1>5. /\ Moves(tree, t)
      /\ \A g \in Files : /\ t[g].owed = tree[g].owed
                          /\ t[g].st = "live" => Net(t[g]) = Net(tree[g]) - One(e = g)
                          /\ tree[g].st = "live" /\ t[g].st # "live" => e = g /\ tree[g].ref = 1
                          /\ g # e => t[g].ref = tree[g].ref /\ t[g].st = tree[g].st
  <2>1. CASE ff[x].own
    <3>1. t = npfile_decref(tree, e)
      BY <1>1, <1>4, <2>1 DEF DropDirent
    <3>2. e # Nil => tree[e].st # "none" /\ tree[e].ref > 0
      BY <1>3
    <3>. QED  BY <1>0, <3>1, <3>2, DecrefIs
  <2>2. CASE ~ff[x].own
    <3>1. t = Forget(tree, e)
      BY <1>1, <1>4, <2>2 DEF DropDirent
    <3>2. e # Nil => tree[e].st # "none"
      BY <1>3
    <3>3. /\ Moves(tree, t)
          /\ \A g \in Files : /\ t[g].st = tree[g].st /\ t[g].owed = tree[g].owed /\ t[g].ref = tree[g].ref
                              /\ Net(t[g]) = Net(tree[g]) - One(e = g)
      BY <1>0, <3>1, <3>2, ForgetIs
    <3>. QED  BY <3>3
  <2>. QED  BY <2>1, <2>2
<1>6. Good(t) /\ t[f].st = "live" /\ t[f].ref > 0 /\ e # f
  BY <1>2, <1>3, <1>5 DEF Moves
<1>7. tree' = npfile_decref(t, f)
  BY <1>1, <1>4 DEF npfile_fiddestroy
<1>8. /\ Moves(t, tree')
      /\ \A g \in Files : /\ tree'[g].owed = t[g].owed
                          /\ tree'[g].st = "live" => t[g].st = "live" /\ Net(tree'[g]) = Net(t[g]) - One(f = g)
                          /\ t[g].st = "live" /\ tree'[g].st # "live" => f = g /\ t[g].ref = 1
  BY <1>6, <1>7, DecrefIs DEF FileOrNil
<1>9. Moves(tree, tree')
  BY <1>5, <1>8, MovesOn
<1>10. /\ ff' \in [FFids -> FidRec] /\ (\A y \in FFids \ {x} : ff'[y] = ff[y])
       /\ ff'[x] = NoFid /\ ff'[x].file = Nil /\ ff'[x].dirent = Nil /\ ~ff'[x].begun
  <2>1. ff \in [FFids -> FidRec] /\ ff' = [ff EXCEPT ![x] = NoFid]
    BY <1>0 DEF ShapeInv, TypeInv, npfile_fiddestroy
  <2>2. NoFid \in FidRec
    BY DEF NoFid, FidRec, FileOrNil
  <2>3. NoFid.file = Nil /\ NoFid.dirent = Nil /\ ~NoFid.begun
    BY DEF NoFid
  <2>. QED  BY <2>1, <2>2, <2>3
<1>11. FidShape(x)' /\ ReadShape(x)'
  BY <1>10 DEF FidShape, ReadShape
<1>12. ShapeStep(x, w) /\ fw'[w] = Idle /\ fw'[w].got = Nil /\ fw'[w].file = Nil
  BY <1>0, <1>10, <1>11, EndShape
<1>13. FileStep(x, w)
  <2>1. \A g \in Files : Delta(x, w, g) = 0 - One(f = g) - One(e = g)
    BY <1>1, <1>10, <1>12 DEF Delta, One
  <2>2. ASSUME NEW g \in Files
        PROVE  /\ tree'[g].st = "live" => Net(tree'[g]) = Net(tree[g]) + Delta(x, w, g)
               /\ Frees(tree[g], tree'[g]) => tree[g].ref + Delta(x, w, g) <= 0
    <3>1. Net(tree[g]) \in Int /\ One(f = g) \in Int /\ One(e = g) \in Int
      BY <1>0, NetInt DEF One
    <3>2. tree'[g].st = "live" => Net(tree'[g]) = Net(tree[g]) + Delta(x, w, g)
      BY <3>1, <2>1, <1>5, <1>8
    <3>3. ASSUME Frees(tree[g], tree'[g]) PROVE tree[g].ref = 1 /\ g \in {e, f}
      <4>1. CASE t[g].st = "live"
        <5>1. f = g /\ t[g].ref = 1
          BY <4>1, <3>3, <1>8 DEF Frees
        <5>2. t[g].ref = tree[g].ref
          BY <5>1, <1>5, <1>6
        <5>. QED  BY <5>1, <5>2
      <4>2. CASE t[g].st # "live"
        BY <4>2, <3>3, <1>5 DEF Frees
      <4>. QED  BY <4>1, <4>2
    <3>4. g \in {e, f} => Delta(x, w, g) = -1
      BY <2>1, <1>6 DEF One
    <3>. QED  BY <3>2, <3>3, <3>4
  <2>3. \A g \in {ff'[x].file, ff'[x].dirent, fw'[w].file, fw'[w].got} \ {Nil} : tree[g].st = "live"
    BY <1>10, <1>12
  <2>. QED  BY <1>9, <2>2, <2>3 DEF FileStep
<1>14. PoliteStep(x, w)
  <2>. SUFFICES ASSUME polite PROVE PoliteStep(x, w)
    BY DEF PoliteStep
  <2>1. OnShape(x)'
    BY <1>10 DEF OnShape
  <2>2. \A v \in Workers \ {w} : fw[v].pc = "remove" => fw[v].file # ff'[x].file
    BY <1>0, <1>10 DEF ShapeInv, WorkInv, WorkShape
  <2>3. \A g \in Files : tree'[g].owed = tree[g].owed
    BY <1>5, <1>8
  <2>. QED  BY <1>0, <1>12, <2>1, <2>2, <2>3, EndPolite
<1>. QED  BY <1>12, <1>13, <1>14, StepKeeps

\* npfile_clunk.
LEMMA ClunkKeeps ==
    ASSUME TreeInv, ~Dangling, NEW x \in FFids, NEW w \in Workers, npfile_clunk(w, x)
    PROVE  TreeInv'
<1>1. ShapeInv /\ Begin(w, x)
  BY DEF TreeInv, npfile_clunk
<1>2. fw[w] = Idle /\ Mine(x, w) /\ fw[w].got = Nil /\ ff[x].file \in Files
  BY <1>1, BeginFacts
<1>3. fw' = [fw EXCEPT ![w] = Idle]
  BY <1>1, <1>2, StaysIdle DEF npfile_clunk
<1>. QED  BY <1>2, <1>3, DestroyKeeps DEF npfile_clunk

\* RemoveClunk, the fid of a file that was removed.
LEMMA RemoveClunkKeeps ==
    ASSUME TreeInv, ~Dangling, NEW w \in Workers, RemoveClunk(w)
    PROVE  TreeInv'
<1>1. ShapeInv /\ fw[w].pc = "clunk"
  BY DEF TreeInv, RemoveClunk
<1>2. PICK x \in FFids : x = fw[w].fid
  BY <1>1, HasFid
<1>3. Mine(x, w) /\ WorkShape(w) /\ ff[x].file \in Files
  BY <1>1, <1>2, RunFacts
<1>4. fw[w].got = Nil
  BY <1>1, <1>3 DEF WorkShape
<1>. QED  BY <1>2, <1>3, <1>4, DestroyKeeps DEF RemoveClunk

----------------------------------------------------------------------------
(* Reading directories *)

\* rfs_first, rfs_next.
LEMMA FirstIs ==
    ASSUME ShapeInv, NEW d \in Files
    PROVE  /\ First(d) \in FileOrNil
           /\ First(d) # Nil => 1 \in DOMAIN kids[d] /\ First(d) = kids[d][1]
<1>1. kids[d] \in Seq(Files \ {Root})
  BY DEF ShapeInv, TypeInv
<1>2. kids[d] # <<>> => 1 \in DOMAIN kids[d] /\ kids[d][1] \in Files
  BY <1>1
<1>. QED  BY <1>2 DEF First, FileOrNil

\* The place of an entry in the list gives the one behind it, or none.
LEMMA NextIs ==
    ASSUME ShapeInv, NEW d \in Files, NEW c
    PROVE  /\ NextOf(d, c) \in FileOrNil
           /\ NextOf(d, c) # Nil => NextOf(d, c) \in ToSet(kids[d])
           /\ \A i \in DOMAIN kids[d] : kids[d][i] = c =>
                /\ i = Len(kids[d]) => NextOf(d, c) = Nil
                /\ i < Len(kids[d]) => i + 1 \in DOMAIN kids[d] /\ NextOf(d, c) = kids[d][i + 1]
<1>. DEFINE s == kids[d]
<1>1. s \in Seq(Files \ {Root}) /\ Once(s)
  BY DEF ShapeInv, TypeInv, ListInv
<1>2. Len(s) \in Nat /\ DOMAIN s = 1 .. Len(s)
  BY <1>1
<1>. HIDE DEF s
<1>3. CASE \E i \in 1 .. (Len(s) - 1) : s[i] = c
  <2>1. PICK i \in 1 .. (Len(s) - 1) : s[i] = c
    BY <1>3
  <2>2. i \in DOMAIN s /\ i + 1 \in DOMAIN s
    BY <1>2, <2>1
  <2>3. \A j \in DOMAIN s : s[j] = c => j = i
    BY <1>1, <2>1, <2>2 DEF Once
  <2>4. (CHOOSE j \in DOMAIN s : s[j] = c) = i
    BY <2>1, <2>2, <2>3, Zenon
  <2>5. NextOf(d, c) = s[i + 1]
    <3>1. NextOf(d, c) = s[1 + CHOOSE j \in DOMAIN s : s[j] = c]
      BY <1>3 DEF NextOf, s
    <3>2. NextOf(d, c) = s[1 + i]
      BY <2>4, <3>1
    <3>3. 1 + i = i + 1
      BY <1>2
    <3>. QED  BY <3>2, <3>3
  <2>6. s[i + 1] \in Files /\ s[i + 1] \in ToSet(s)
    BY <1>1, <2>2, QueueOf
  <2>7. i # Len(s) /\ i < Len(s)
    <3>1. PICK n \in Nat : n = Len(s)
      BY <1>2
    <3>2. i \in 1 .. (n - 1)
      BY <2>1, <3>1
    <3>3. i # n /\ i < n
      BY <3>2
    <3>. QED  BY <3>1, <3>3
  <2>8. NextOf(d, c) \in Files /\ NextOf(d, c) \in ToSet(s)
    BY <2>5, <2>6
  <2>9. ASSUME NEW j \in DOMAIN s, s[j] = c
        PROVE  j # Len(s) /\ j + 1 \in DOMAIN s /\ NextOf(d, c) = s[j + 1]
    <3>1. j = i
      BY <2>3, <2>9
    <3>. QED  BY <2>2, <2>5, <2>7, <3>1
  <2>. QED  BY <2>8, <2>9 DEF FileOrNil, s
<1>4. CASE ~\E i \in 1 .. (Len(s) - 1) : s[i] = c
  <2>1. NextOf(d, c) = Nil
    BY <1>4 DEF NextOf, s
  <2>2. \A i \in DOMAIN s : s[i] = c => ~(i < Len(s))
    BY <1>2, <1>4
  <2>. QED  BY <2>1, <2>2 DEF FileOrNil, s
<1>. QED  BY <1>3, <1>4

\* The fid with e to be read next, and u due.
Entry(x, e, u) ==
    /\ ff' \in [FFids -> FidRec] /\ (\A y \in FFids \ {x} : ff'[y] = ff[y])
    /\ ff'[x].file = ff[x].file /\ ff'[x].open = ff[x].open /\ ff'[x].dirent = e
    /\ ff'[x].due = u /\ (ff'[x].cut <=> ff[x].begun /\ ff[x].cut)
DueOf(x) == IF ff[x].begun THEN ff[x].due ELSE ToSet(kids[ff[x].file])

\* A fid changed in these four fields is what Entry says.
LEMMA EntryRec ==
    ASSUME ShapeInv, NEW x \in FFids, NEW e \in FileOrNil, NEW b \in BOOLEAN, NEW k \in BOOLEAN,
           NEW u \in SUBSET Files, k <=> ff[x].begun /\ ff[x].cut,
           ff' = [ff EXCEPT ![x] = [ff[x] EXCEPT !.dirent = e, !.begun = b, !.due = u, !.cut = k]]
    PROVE  Entry(x, e, u) /\ (ff'[x].begun <=> b)
<1>1. ff \in [FFids -> FidRec] /\ ff[x] \in FidRec
  BY DEF ShapeInv, TypeInv
<1>2. PICK r : r = [ff[x] EXCEPT !.dirent = e, !.begun = b, !.due = u, !.cut = k]
  OBVIOUS
<1>3. r \in FidRec /\ r.file = ff[x].file /\ r.open = ff[x].open /\ r.dirent = e
      /\ r.begun = b /\ r.due = u /\ r.cut = k
  BY <1>1, <1>2 DEF FidRec
<1>4. ff' = [ff EXCEPT ![x] = r]
  BY <1>2
<1>. QED  BY <1>1, <1>3, <1>4 DEF Entry

\* The fid after an entry did not fit, or none was left, and after one was read.
LEMMA EntryIs ==
    ASSUME ShapeInv, NEW x \in FFids, NEW c \in FileOrNil, DueOf(x) \in SUBSET Files,
           NextOf(ff[x].file, c) \in FileOrNil
    PROVE  /\ DirEntry(x, c, FALSE) => Entry(x, c, DueOf(x)) /\ (ff'[x].begun <=> ff[x].begun)
           /\ DirEntry(x, c, TRUE) /\ c # Nil => Entry(x, NextOf(ff[x].file, c), DueOf(x) \ {c}) /\ ff'[x].begun
<1>1. ff[x] \in FidRec
  BY DEF ShapeInv, TypeInv
<1>2. ff[x].begun \in BOOLEAN /\ (ff[x].begun /\ ff[x].cut) \in BOOLEAN
  BY <1>1 DEF FidRec
<1>3. ASSUME DirEntry(x, c, FALSE)
      PROVE  Entry(x, c, DueOf(x)) /\ (ff'[x].begun <=> ff[x].begun)
  <2>1. PICK k \in BOOLEAN : k = (ff[x].begun /\ ff[x].cut)
    BY <1>2
  <2>2. PICK u \in SUBSET Files : u = DueOf(x)
    OBVIOUS
  <2>3. PICK b \in BOOLEAN : b = (ff[x].begun \/ (FALSE /\ c # Nil))
    BY <1>2
  <2>4. ff' = [ff EXCEPT ![x] = [ff[x] EXCEPT !.dirent = c, !.begun = b, !.due = u \ {}, !.cut = k]]
    BY <1>3, <2>1, <2>2, <2>3 DEF DirEntry, DueOf
  <2>5. u \ {} = u
    OBVIOUS
  <2>6. ff' = [ff EXCEPT ![x] = [ff[x] EXCEPT !.dirent = c, !.begun = b, !.due = u, !.cut = k]]
    BY <2>4, <2>5, Zenon
  <2>7. k <=> ff[x].begun /\ ff[x].cut
    BY <2>1
  <2>8. b <=> ff[x].begun
    BY <2>3
  <2>9. Entry(x, c, u) /\ (ff'[x].begun <=> b)
    BY <2>6, <2>7, EntryRec, Zenon
  <2>. QED  BY <2>2, <2>8, <2>9
<1>4. ASSUME DirEntry(x, c, TRUE), c # Nil
      PROVE  Entry(x, NextOf(ff[x].file, c), DueOf(x) \ {c}) /\ ff'[x].begun
  <2>1. PICK k \in BOOLEAN : k = (ff[x].begun /\ ff[x].cut)
    BY <1>2
  <2>2. PICK u \in SUBSET Files : u = DueOf(x) \ {c}
    OBVIOUS
  <2>3. PICK b \in BOOLEAN : b = (ff[x].begun \/ (TRUE /\ c # Nil))
    OBVIOUS
  <2>4. PICK e \in FileOrNil : e = NextOf(ff[x].file, c)
    OBVIOUS
  <2>5. ff' = [ff EXCEPT ![x] = [ff[x] EXCEPT !.dirent = e, !.begun = b, !.due = u, !.cut = k]]
    BY <1>4, <2>1, <2>2, <2>3, <2>4 DEF DirEntry, DueOf
  <2>6. k <=> ff[x].begun /\ ff[x].cut
    BY <2>1
  <2>7. b
    BY <1>4, <2>3
  <2>8. Entry(x, e, u) /\ (ff'[x].begun <=> b)
    BY <2>5, <2>6, EntryRec, Zenon
  <2>. QED  BY <2>2, <2>4, <2>7, <2>8
<1>. QED  BY <1>3, <1>4

\* What is due after entry c of the list s, at place i, was read.
LEMMA ReadOn ==
    ASSUME NEW s, Once(s), NEW i \in DOMAIN s, NEW D, Len(s) \in Nat, DOMAIN s = 1 .. Len(s),
           \A g \in D : \E j \in DOMAIN s : i <= j /\ s[j] = g
    PROVE  /\ i = Len(s) => D \ {s[i]} = {}
           /\ i < Len(s) => \A g \in D \ {s[i]} : Ahead(s, s[i + 1], g)
<1>1. ASSUME i = Len(s), NEW g \in D PROVE g = s[i]
  BY <1>1
<1>2. ASSUME i < Len(s), NEW g \in D \ {s[i]} PROVE Ahead(s, s[i + 1], g)
  <2>1. PICK j \in DOMAIN s : i <= j /\ s[j] = g
    OBVIOUS
  <2>2. i # j /\ i + 1 \in DOMAIN s /\ i + 1 <= j
    BY <1>2, <2>1
  <2>. QED  BY <2>1, <2>2 DEF Ahead
<1>. QED  BY <1>1, <1>2

\* A file of a list that a fid is to read next is referred to twice.
LEMMA ListedEntry ==
    ASSUME ShapeInv, NEW x \in FFids, ff[x].dirent # Nil, Listed(ff[x].dirent)
    PROVE  Refs(ff[x].dirent) > 1
<1>. DEFINE f == ff[x].dirent
<1>1. x \in OnEntry(f)
  BY DEF OnEntry
<1>2. OnEntry(f) \in SUBSET FFids /\ IsFiniteSet(FFids)
  BY NpFileAssumption DEF OnEntry
<1>3. Cardinality(OnEntry(f)) # 0
  BY <1>1, <1>2, CardZero
<1>4. One(f = Root \/ Listed(f)) = 1
  BY DEF One
<1>5. /\ Cardinality(Children(f)) \in Nat /\ Cardinality(OnFile(f)) \in Nat
      /\ Cardinality(OnEntry(f)) \in Nat /\ Cardinality(OnGot(f)) \in Nat
      /\ Refs(f) = One(f = Root \/ Listed(f)) + Cardinality(Children(f)) + Cardinality(OnFile(f))
                   + Cardinality(OnEntry(f)) + Cardinality(OnGot(f))
  BY RefsTyped
<1>. QED  BY <1>3, <1>4, <1>5

\* The files after an entry was read, or not; e is the entry to be read next, now.
ReadTree(x, e) ==
    /\ Moves(tree, tree')
    /\ \A g \in Files :
         /\ tree'[g].owed = tree[g].owed
         /\ tree'[g].st = "live" => Net(tree'[g]) = Net(tree[g]) + One(e = g) - One(ff[x].dirent = g)
         /\ Frees(tree[g], tree'[g]) => g = ff[x].dirent /\ tree[g].ref = 1 /\ (e # Nil => Listed(e))

\* A read that goes on.
LEMMA ReadTreeOn ==
    ASSUME ShapeInv, ~Dangling, NEW x \in FFids, NEW d \in Files, NEW c \in FileOrNil, c # Nil,
           c = ff[x].dirent, NEW e \in FileOrNil, e # Nil => e \in ToSet(kids[d]),
           tree' = npfile_decref(npfile_incref(tree, e), c)
    PROVE  ReadTree(x, e)
<1>0. Good(tree)
  BY DEF ShapeInv, LiveInv
<1>1. c \in Files /\ tree[c].st = "live" /\ tree[c].ref > 0
  BY EntryLive
<1>2. e # Nil => tree[e].st # "none" /\ Listed(e)
  BY KidLive
<1>3. PICK t : t = npfile_incref(tree, e)
  OBVIOUS
<1>4. /\ Moves(tree, t)
      /\ \A g \in Files : /\ t[g].st = tree[g].st /\ t[g].owed = tree[g].owed
                          /\ t[g].ref = tree[g].ref + One(e = g) /\ Net(t[g]) = Net(tree[g]) + One(e = g)
  BY <1>0, <1>2, <1>3, IncrefIs
<1>5. \A g \in Files : tree[g].ref \in Nat /\ Net(tree[g]) \in Int /\ One(e = g) \in {0, 1} /\ One(c = g) \in {0, 1}
  BY LiveRef, NetInt DEF One
<1>6. Good(t) /\ t[c].st # "none" /\ t[c].ref > 0
  BY <1>1, <1>4, <1>5 DEF Moves
<1>7. /\ Moves(t, tree')
      /\ \A g \in Files : /\ tree'[g].owed = t[g].owed
                          /\ tree'[g].st = "live" => Net(tree'[g]) = Net(t[g]) - One(c = g)
                          /\ t[g].st = "live" /\ tree'[g].st # "live" => c = g /\ t[g].ref = 1
  BY <1>3, <1>6, DecrefIs
<1>8. Moves(tree, tree')
  BY <1>4, <1>7, MovesOn
<1>9. ASSUME NEW g \in Files
      PROVE  /\ tree'[g].owed = tree[g].owed
             /\ tree'[g].st = "live" => Net(tree'[g]) = Net(tree[g]) + One(e = g) - One(c = g)
             /\ Frees(tree[g], tree'[g]) => g = c /\ tree[g].ref = 1 /\ (e # Nil => Listed(e))
  <2>1. tree'[g].owed = tree[g].owed
    BY <1>4, <1>7
  <2>2. tree'[g].st = "live" => Net(tree'[g]) = Net(tree[g]) + One(e = g) - One(c = g)
    BY <1>4, <1>5, <1>7
  <2>3. ASSUME Frees(tree[g], tree'[g]) PROVE g = c /\ tree[g].ref = 1
    <3>1. g = c /\ t[g].ref = 1 /\ tree[g].st = "live" /\ tree[g].ref > 0
      BY <2>3, <1>4, <1>7, LiveRef DEF Frees
    <3>2. t[g].ref = tree[g].ref + One(e = g)
      BY <1>4
    <3>. QED  BY <3>1, <3>2, <1>5
  <2>. QED  BY <2>1, <2>2, <2>3, <1>2
<1>. QED  BY <1>8, <1>9 DEF ReadTree

\* A read from the start: t is the tree with the reference of the first entry.
LEMMA ReadTreeFirst ==
    ASSUME ShapeInv, ~Dangling, NEW x \in FFids, NEW d \in Files, NEW c \in FileOrNil, c # Nil => c \in ToSet(kids[d]),
           NEW t, t = npfile_incref(npfile_decref(tree, ff[x].dirent), c)
    PROVE  /\ Moves(tree, t)
           /\ \A g \in Files :
                /\ t[g].owed = tree[g].owed
                /\ t[g].st = "live" => Net(t[g]) = Net(tree[g]) + One(c = g) - One(ff[x].dirent = g)
                /\ t[g].st = "live" /\ c = g => t[g].ref > 1
                /\ c = g => t[g].ref > 0
                /\ Frees(tree[g], t[g]) => g = ff[x].dirent /\ tree[g].ref = 1
<1>0. Good(tree)
  BY DEF ShapeInv, LiveInv
<1>1. PICK old \in FileOrNil : old = ff[x].dirent
  BY DEF ShapeInv, TypeInv, FidRec
<1>2. old # Nil => tree[old].st # "none" /\ tree[old].ref > 0
  BY <1>1, EntryLive
<1>3. PICK u : u = npfile_decref(tree, old)
  OBVIOUS
<1>4. /\ Moves(tree, u)
      /\ \A g \in Files : /\ u[g].owed = tree[g].owed
                          /\ u[g].st = "live" => Net(u[g]) = Net(tree[g]) - One(old = g)
                          /\ tree[g].st = "live" /\ u[g].st # "live" => old = g /\ tree[g].ref = 1
  BY <1>0, <1>2, <1>3, DecrefIs
<1>5. c # Nil => u[c].st # "none"
  <2>1. c # Nil => c \in Files /\ tree[c].st = "live"
    BY KidLive
  <2>. QED  BY <2>1, <1>4 DEF Moves, Stays, Frees
<1>6. Good(u)
  BY <1>4 DEF Moves
<1>7. /\ Moves(u, t)
      /\ \A g \in Files : /\ t[g].st = u[g].st /\ t[g].owed = u[g].owed
                          /\ t[g].ref = u[g].ref + One(c = g) /\ Net(t[g]) = Net(u[g]) + One(c = g)
  BY <1>1, <1>3, <1>5, <1>6, IncrefIs
<1>8. Moves(tree, t)
  BY <1>4, <1>7, MovesOn
<1>9. \A g \in Files : /\ Net(tree[g]) \in Int /\ One(old = g) \in Int /\ One(c = g) \in Int
                       /\ (c = g => One(c = g) = 1)
                       /\ u[g].ref \in Nat /\ (u[g].st = "live" => u[g].ref > 0)
  <2>1. u \in [Files -> FileRec] /\ \A g \in Files : u[g].st = "live" => u[g].ref > 0
    BY <1>6 DEF Good
  <2>2. \A g \in Files : u[g].ref \in Nat
    BY <2>1 DEF FileRec
  <2>. QED  BY <2>1, <2>2, NetInt DEF One
<1>10. ASSUME NEW g \in Files
       PROVE  /\ t[g].owed = tree[g].owed
              /\ t[g].st = "live" => Net(t[g]) = Net(tree[g]) + One(c = g) - One(old = g)
              /\ t[g].st = "live" /\ c = g => t[g].ref > 1
              /\ c = g => t[g].ref > 0
              /\ Frees(tree[g], t[g]) => g = old /\ tree[g].ref = 1
  <2>1. t[g].owed = tree[g].owed
    BY <1>4, <1>7
  <2>2. t[g].st = "live" => Net(t[g]) = Net(tree[g]) + One(c = g) - One(old = g)
    BY <1>4, <1>7, <1>9
  <2>3. (t[g].st = "live" /\ c = g => t[g].ref > 1) /\ (c = g => t[g].ref > 0)
    BY <1>7, <1>9
  <2>4. Frees(tree[g], t[g]) => g = old /\ tree[g].ref = 1
    BY <1>4, <1>7 DEF Frees
  <2>. QED  BY <2>1, <2>2, <2>3, <2>4
<1>. QED  BY <1>1, <1>8, <1>10

\* and with the entry behind it, after it was read.
LEMMA ReadTreeBack ==
    ASSUME ShapeInv, ~Dangling, NEW x \in FFids, NEW d \in Files, NEW c \in FileOrNil, c # Nil, c \in ToSet(kids[d]),
           NEW t, t = npfile_incref(npfile_decref(tree, ff[x].dirent), c),
           NEW e \in FileOrNil, e # Nil => e \in ToSet(kids[d]),
           tree' = npfile_decref(npfile_incref(t, e), c)
    PROVE  ReadTree(x, e)
<1>0. PICK old \in FileOrNil : old = ff[x].dirent
  BY DEF ShapeInv, TypeInv, FidRec
<1>1. /\ Moves(tree, t)
      /\ \A g \in Files :
           /\ t[g].owed = tree[g].owed
           /\ t[g].st = "live" => Net(t[g]) = Net(tree[g]) + One(c = g) - One(old = g)
           /\ t[g].st = "live" /\ c = g => t[g].ref > 1
           /\ c = g => t[g].ref > 0
           /\ Frees(tree[g], t[g]) => g = old /\ tree[g].ref = 1
  BY <1>0, ReadTreeFirst
<1>2. /\ c \in Files /\ tree[c].st = "live"
      /\ e # Nil => e \in Files /\ tree[e].st = "live" /\ Listed(e)
  BY KidLive
<1>3. Good(t) /\ t[c].st # "none" /\ (e # Nil => t[e].st # "none")
  BY <1>1, <1>2 DEF Moves, Stays, Frees
<1>4. PICK u : u = npfile_incref(t, e)
  OBVIOUS
<1>5. /\ Moves(t, u)
      /\ \A g \in Files : /\ u[g].st = t[g].st /\ u[g].owed = t[g].owed
                          /\ u[g].ref = t[g].ref + One(e = g) /\ Net(u[g]) = Net(t[g]) + One(e = g)
  BY <1>3, <1>4, IncrefIs
<1>6. /\ t \in [Files -> FileRec]
      /\ \A g \in Files : /\ t[g].ref \in Nat /\ Net(t[g]) \in Int /\ Net(tree[g]) \in Int
                          /\ One(e = g) \in Nat /\ One(c = g) \in Int /\ One(old = g) \in Int
  <2>1. t \in [Files -> FileRec]
    BY <1>3 DEF Good
  <2>2. \A g \in Files : t[g].ref \in Nat /\ Net(t[g]) \in Int
    BY <2>1 DEF FileRec, Net
  <2>. QED  BY <2>1, <2>2, NetInt DEF One
<1>7. Good(u) /\ u[c].st # "none" /\ u[c].ref > 0
  BY <1>1, <1>2, <1>3, <1>5, <1>6 DEF Moves
<1>8. /\ Moves(u, tree')
      /\ \A g \in Files : /\ tree'[g].owed = u[g].owed
                          /\ tree'[g].st = "live" => u[g].st = "live" /\ Net(tree'[g]) = Net(u[g]) - One(c = g)
                          /\ u[g].st = "live" /\ tree'[g].st # "live" => c = g /\ u[g].ref = 1
  BY <1>4, <1>7, DecrefIs
<1>9. Moves(t, tree')
  BY <1>5, <1>8, MovesOn
<1>10. Moves(tree, tree')
  BY <1>1, <1>9, MovesOn
<1>11. ASSUME NEW g \in Files
       PROVE  /\ tree'[g].owed = tree[g].owed
              /\ tree'[g].st = "live" => Net(tree'[g]) = Net(tree[g]) + One(e = g) - One(old = g)
              /\ Frees(tree[g], tree'[g]) => g = old /\ tree[g].ref = 1 /\ (e # Nil => Listed(e))
  <2>1. tree'[g].owed = tree[g].owed
    BY <1>1, <1>5, <1>8
  <2>2. tree'[g].st = "live" => Net(tree'[g]) = Net(tree[g]) + One(e = g) - One(old = g)
    BY <1>1, <1>5, <1>6, <1>8
  <2>3. ASSUME Frees(tree[g], tree'[g]) PROVE g = old /\ tree[g].ref = 1
    <3>1. CASE t[g].st = "live"
      <4>1. u[g].st = "live" /\ c = g /\ u[g].ref = 1
        BY <3>1, <2>3, <1>5, <1>8 DEF Frees
      <4>2. t[g].ref > 1 /\ u[g].ref = t[g].ref + One(e = g) /\ t[g].ref \in Nat /\ One(e = g) \in Nat
        BY <4>1, <3>1, <1>1, <1>5, <1>6
      <4>. QED  BY <4>1, <4>2
    <3>2. CASE t[g].st # "live"
      <4>1. Frees(tree[g], t[g])
        BY <3>2, <2>3, <1>1 DEF Moves, Stays, Frees
      <4>. QED  BY <4>1, <1>1
    <3>. QED  BY <3>1, <3>2
  <2>. QED  BY <2>1, <2>2, <2>3, <1>2
<1>. QED  BY <1>0, <1>10, <1>11 DEF ReadTree


\* Worker w reads a directory with fid x, that is to read e next.
LEMMA ReadKeeps ==
    ASSUME TreeInv, ~Dangling, NEW x \in FFids, NEW w \in Workers, Begin(w, x), ff[x].open,
           NEW e \in FileOrNil, ReadTree(x, e), UNCHANGED <<polite, kids, fw, crashed>>,
           e # Nil => e = ff[x].dirent \/ e \in ToSet(kids[ff[x].file]),
           ff' \in [FFids -> FidRec], \A y \in FFids \ {x} : ff'[y] = ff[y],
           ff'[x].file = ff[x].file, ff'[x].open = ff[x].open, ff'[x].dirent = e, ReadShape(x)'
    PROVE  TreeInv'
<1>. USE NilNoFile
<1>0. ShapeInv /\ PoliteInv
  BY DEF TreeInv
<1>1. /\ fw[w] = Idle /\ Mine(x, w) /\ fw[w].got = Nil /\ fw[w].pc = "idle"
      /\ ff[x].file \in Files /\ FidShape(x) /\ tree[ff[x].file].st = "live"
  BY <1>0, BeginFacts
<1>2. e # Nil => e \in Files /\ e # ff[x].file /\ tree[e].st = "live"
  <2>1. CASE e = ff[x].dirent
    BY <1>0, <1>1, <2>1, EntryLive DEF FidShape
  <2>2. CASE e \in ToSet(kids[ff[x].file])
    <3>1. PICK d \in Files : d = ff[x].file
      BY <1>1
    <3>. QED  BY <1>0, <2>2, <3>1, KidLive
  <2>. QED  BY <2>1, <2>2
<1>3. FidShape(x)'
  BY <1>1, <1>2 DEF FidShape
<1>4. ShapeStep(x, w) /\ fw'[w] = Idle /\ fw'[w].got = Nil /\ fw'[w].file = Nil
  BY <1>0, <1>1, <1>3, StaysIdle, EndShape
<1>5. FileStep(x, w)
  <2>1. \A g \in Files : /\ Delta(x, w, g) = One(e = g) - One(ff[x].dirent = g)
                         /\ One(e = g) \in Int /\ One(ff[x].dirent = g) \in Int /\ Net(tree[g]) \in Int
    BY <1>0, <1>1, <1>4, NetInt DEF Delta, One
  <2>2. ASSUME NEW g \in Files
        PROVE  /\ tree'[g].st = "live" => Net(tree'[g]) = Net(tree[g]) + Delta(x, w, g)
               /\ Frees(tree[g], tree'[g]) => tree[g].ref + Delta(x, w, g) <= 0 \/ tree[g].ref < Refs(g)
    <3>1. tree'[g].st = "live" => Net(tree'[g]) = Net(tree[g]) + Delta(x, w, g)
      BY <2>1 DEF ReadTree
    <3>2. ASSUME Frees(tree[g], tree'[g])
          PROVE  tree[g].ref + Delta(x, w, g) <= 0 \/ tree[g].ref < Refs(g)
      <4>1. g = ff[x].dirent /\ tree[g].ref = 1 /\ (e # Nil => Listed(e))
        BY <3>2 DEF ReadTree
      <4>2. CASE e = g
        <5>1. Refs(g) > 1 /\ Refs(g) \in Nat
          BY <1>0, <4>1, <4>2, ListedEntry, RefsTyped
        <5>. QED  BY <4>1, <5>1
      <4>3. CASE e # g
        BY <2>1, <4>1, <4>3 DEF One
      <4>. QED  BY <4>2, <4>3
    <3>. QED  BY <3>1, <3>2
  <2>3. \A g \in {ff'[x].file, ff'[x].dirent, fw'[w].file, fw'[w].got} \ {Nil} : tree[g].st = "live"
    BY <1>1, <1>2, <1>4
  <2>. QED  BY <2>2, <2>3 DEF FileStep, ReadTree
<1>6. PoliteStep(x, w)
  <2>. SUFFICES ASSUME polite PROVE PoliteStep(x, w)
    BY DEF PoliteStep
  <2>1. ff[x].file \notin {Nil, Root} => Listed(ff[x].file)
    BY <1>0, <1>1, OnListed
  <2>2. OnShape(x)'
    BY <2>1 DEF OnShape, Listed
  <2>3. \A v \in Workers \ {w} : fw[v].pc = "remove" => fw[v].file # ff'[x].file
    BY <1>0, <1>1, NotRemoved
  <2>4. \A g \in Files : tree'[g].owed = tree[g].owed
    BY DEF ReadTree
  <2>. QED  BY <1>0, <1>4, <2>2, <2>3, <2>4, EndPolite
<1>. QED  BY <1>4, <1>5, <1>6, StepKeeps

\* The first entry is at or before all others.
LEMMA AllAhead ==
    ASSUME NEW S, NEW s \in Seq(S), s # <<>>
    PROVE  1 \in DOMAIN s /\ \A g \in ToSet(s) : \E j \in DOMAIN s : 1 <= j /\ s[j] = g
<1>1. Len(s) \in Nat \ {0} /\ DOMAIN s = 1 .. Len(s)
  OBVIOUS
<1>2. \A g \in ToSet(s) : \E j \in DOMAIN s : s[j] = g
  BY DEF ToSet
<1>. QED  BY <1>1, <1>2

\* npfile_read_dir.
LEMMA ReadDirKeeps ==
    ASSUME TreeInv, ~Dangling, NEW x \in FFids, NEW w \in Workers, NEW fits \in BOOLEAN,
           npfile_read_dir(w, x, fits)
    PROVE  TreeInv'
<1>. USE NilNoFile
<1>0. ShapeInv /\ Begin(w, x) /\ ff[x].open /\ UNCHANGED <<polite, kids, fw, crashed>>
  BY DEF TreeInv, npfile_read_dir
<1>1. ff[x].file \in Files /\ ff[x] \in FidRec /\ FidShape(x) /\ ReadShape(x)
  BY <1>0, BeginFacts
<1>2. PICK d \in Files, old \in FileOrNil : d = ff[x].file /\ old = ff[x].dirent
  BY <1>1 DEF FidRec
<1>3. PICK c \in FileOrNil : c = IF ff[x].begun THEN old ELSE First(d)
  BY <1>0, FirstIs
<1>4. PICK t : t = IF ff[x].begun THEN tree ELSE npfile_incref(npfile_decref(tree, old), c)
  OBVIOUS
<1>5. IF c = Nil \/ ~fits
      THEN DirEntry(x, c, FALSE) /\ tree' = t
      ELSE DirEntry(x, c, TRUE) /\ tree' = npfile_decref(npfile_incref(t, NextOf(d, c)), c)
  BY <1>2, <1>3, <1>4 DEF npfile_read_dir
<1>6. /\ kids[d] \in Seq(Files \ {Root}) /\ Once(kids[d])
      /\ Len(kids[d]) \in Nat /\ DOMAIN kids[d] = 1 .. Len(kids[d])
  <2>1. kids[d] \in Seq(Files \ {Root}) /\ Once(kids[d])
    BY <1>0 DEF ShapeInv, TypeInv, ListInv
  <2>. QED  BY <2>1
<1>7. PICK D \in SUBSET Files : D = IF ff[x].begun THEN ff[x].due ELSE ToSet(kids[d])
  <2>1. ToSet(kids[d]) \subseteq Files /\ ff[x].due \subseteq Files
    BY <1>1, <1>6, QueueOf DEF FidRec
  <2>. QED  BY <2>1
<1>8. ~ff[x].begun /\ c # Nil => c \in ToSet(kids[d]) /\ c = kids[d][1] /\ kids[d] # <<>>
  <2>1. ~ff[x].begun /\ c # Nil => 1 \in DOMAIN kids[d] /\ c = kids[d][1] /\ kids[d] # <<>>
    BY <1>0, <1>3, FirstIs DEF First
  <2>. QED  BY <2>1, <1>6, QueueOf
<1>9. CASE c = Nil \/ ~fits
  <2>1. /\ ff' \in [FFids -> FidRec] /\ (\A y \in FFids \ {x} : ff'[y] = ff[y])
        /\ ff'[x].file = ff[x].file /\ ff'[x].open = ff[x].open /\ ff'[x].dirent = c
        /\ (ff'[x].begun <=> ff[x].begun) /\ ff'[x].due = D /\ (ff'[x].cut <=> ff[x].begun /\ ff[x].cut)
    <3>1. DirEntry(x, c, FALSE) /\ DueOf(x) = D /\ NextOf(ff[x].file, c) \in FileOrNil
      BY <1>0, <1>2, <1>5, <1>7, <1>9, NextIs DEF DueOf
    <3>2. Entry(x, c, DueOf(x)) /\ (ff'[x].begun <=> ff[x].begun)
      BY <1>0, <1>3, <1>7, <3>1, EntryIs
    <3>. QED  BY <3>1, <3>2 DEF Entry
  <2>2. ReadShape(x)'
    BY <1>0, <1>1, <1>2, <1>3, <1>7, <2>1 DEF ReadShape
  <2>3. ReadTree(x, c)
    <3>1. CASE ff[x].begun
      <4>1. tree' = tree /\ c = ff[x].dirent
        BY <1>2, <1>3, <1>4, <1>5, <1>9, <3>1
      <4>2. Moves(tree, tree')
        BY <1>0, <4>1, MovesNot DEF ShapeInv, LiveInv
      <4>3. \A g \in Files : Net(tree[g]) \in Int /\ One(c = g) \in Int /\ ~Frees(tree[g], tree'[g])
        BY <1>0, <4>1, NetInt DEF One, Frees
      <4>. QED  BY <4>1, <4>2, <4>3 DEF ReadTree
    <3>2. CASE ~ff[x].begun
      <4>1. tree' = npfile_incref(npfile_decref(tree, ff[x].dirent), c)
        BY <1>2, <1>4, <1>5, <1>9, <3>2
      <4>2. c # Nil => c \in ToSet(kids[d]) /\ Listed(c)
        BY <1>8, <3>2 DEF Listed
      <4>3. /\ Moves(tree, tree')
            /\ \A g \in Files :
                 /\ tree'[g].owed = tree[g].owed
                 /\ tree'[g].st = "live" => Net(tree'[g]) = Net(tree[g]) + One(c = g) - One(ff[x].dirent = g)
                 /\ Frees(tree[g], tree'[g]) => g = ff[x].dirent /\ tree[g].ref = 1
        BY <1>0, <4>1, <4>2, ReadTreeFirst
      <4>. QED  BY <4>2, <4>3 DEF ReadTree
    <3>. QED  BY <3>1, <3>2
  <2>4. c # Nil => c = ff[x].dirent \/ c \in ToSet(kids[ff[x].file])
    BY <1>2, <1>3, <1>8
  <2>. QED  BY <1>0, <2>1, <2>2, <2>3, <2>4, ReadKeeps
<1>10. CASE c # Nil /\ fits
  <2>1. PICK e \in FileOrNil : e = NextOf(d, c)
    BY <1>0, NextIs
  <2>2. /\ ff' \in [FFids -> FidRec] /\ (\A y \in FFids \ {x} : ff'[y] = ff[y])
        /\ ff'[x].file = ff[x].file /\ ff'[x].open = ff[x].open /\ ff'[x].dirent = e
        /\ ff'[x].begun /\ ff'[x].due = D \ {c} /\ (ff'[x].cut <=> ff[x].begun /\ ff[x].cut)
    <3>1. DirEntry(x, c, TRUE) /\ DueOf(x) = D /\ e = NextOf(ff[x].file, c)
      BY <1>2, <1>5, <1>7, <1>10, <2>1 DEF DueOf
    <3>2. Entry(x, NextOf(ff[x].file, c), DueOf(x) \ {c}) /\ ff'[x].begun
      BY <1>0, <1>3, <1>7, <1>10, <2>1, <3>1, EntryIs
    <3>. QED  BY <3>1, <3>2 DEF Entry
  <2>3. e # Nil => e \in ToSet(kids[d])
    BY <1>0, <2>1, NextIs
  <2>4. ReadShape(x)'
    <3>1. SUFFICES ASSUME ~(ff[x].begun /\ ff[x].cut)
                   PROVE  /\ e = Nil => D \ {c} = {}
                          /\ e # Nil => \A g \in D \ {c} : Ahead(kids[d], e, g)
      BY <1>0, <1>2, <2>2, <2>3 DEF ReadShape
    <3>2. PICK i \in DOMAIN kids[d] :
            kids[d][i] = c /\ \A g \in D : \E j \in DOMAIN kids[d] : i <= j /\ kids[d][j] = g
      <4>1. CASE ff[x].begun
        <5>1. c \in ToSet(kids[d]) /\ \A g \in D : Ahead(kids[d], c, g)
          BY <1>1, <1>2, <1>3, <1>7, <1>10, <3>1, <4>1 DEF ReadShape
        <5>2. PICK i \in DOMAIN kids[d] : kids[d][i] = c
          BY <5>1 DEF ToSet
        <5>3. ASSUME NEW g \in D PROVE \E j \in DOMAIN kids[d] : i <= j /\ kids[d][j] = g
          <6>1. PICK k \in DOMAIN kids[d], j \in DOMAIN kids[d] : k <= j /\ kids[d][k] = c /\ kids[d][j] = g
            BY <5>1 DEF Ahead
          <6>2. k = i
            BY <1>6, <5>2, <6>1 DEF Once
          <6>. QED  BY <6>1, <6>2
        <5>. QED  BY <5>2, <5>3
      <4>2. CASE ~ff[x].begun
        <5>1. c = kids[d][1] /\ kids[d] # <<>> /\ D = ToSet(kids[d])
          BY <1>7, <1>8, <1>10, <4>2
        <5>. QED  BY <1>6, <5>1, AllAhead
      <4>. QED  BY <4>1, <4>2
    <3>3. /\ i = Len(kids[d]) => D \ {c} = {}
          /\ i < Len(kids[d]) => \A g \in D \ {c} : Ahead(kids[d], kids[d][i + 1], g)
      BY <1>6, <3>2, ReadOn
    <3>4. /\ i = Len(kids[d]) => e = Nil
          /\ i < Len(kids[d]) => i + 1 \in DOMAIN kids[d] /\ e = kids[d][i + 1]
      BY <1>0, <2>1, <3>2, NextIs
    <3>5. i < Len(kids[d]) => e # Nil
      BY <1>6, <3>4, QueueOf
    <3>6. i = Len(kids[d]) \/ i < Len(kids[d])
      BY <1>6
    <3>. QED  BY <3>3, <3>4, <3>5, <3>6
  <2>5. ReadTree(x, e)
    <3>1. tree' = npfile_decref(npfile_incref(t, e), c)
      BY <1>5, <1>10, <2>1
    <3>2. CASE ff[x].begun
      <4>1. t = tree /\ c = ff[x].dirent
        BY <1>2, <1>3, <1>4, <3>2
      <4>. QED  BY <1>0, <1>10, <2>3, <3>1, <4>1, ReadTreeOn
    <3>3. CASE ~ff[x].begun
      <4>1. t = npfile_incref(npfile_decref(tree, ff[x].dirent), c) /\ c \in ToSet(kids[d])
        BY <1>2, <1>4, <1>8, <1>10, <3>3
      <4>. QED  BY <1>0, <1>10, <2>3, <3>1, <4>1, ReadTreeBack
    <3>. QED  BY <3>2, <3>3
  <2>. QED  BY <1>0, <1>2, <2>2, <2>3, <2>4, <2>5, ReadKeeps
<1>. QED  BY <1>5, <1>9, <1>10

----------------------------------------------------------------------------
(* Lists that lose or gain an entry *)

\* What RemoveAt makes of a list: the entry at place i is gone, those behind it
\* move up.
LEMMA RemovedAt ==
    ASSUME NEW S, NEW s \in Seq(S), NEW i \in DOMAIN s
    PROVE  /\ RemoveAt(s, i) \in Seq(S) /\ Len(s) \in Nat \ {0} /\ DOMAIN s = 1 .. Len(s)
           /\ Len(RemoveAt(s, i)) = Len(s) - 1 /\ DOMAIN RemoveAt(s, i) = 1 .. (Len(s) - 1)
           /\ \A k \in 1 .. (Len(s) - 1) : RemoveAt(s, i)[k] = IF k < i THEN s[k] ELSE s[k + 1]
<1>1. PICK n \in Nat : n = Len(s) /\ DOMAIN s = 1 .. n
  OBVIOUS
<1>2. i \in 1 .. n /\ n > 0 /\ i - 1 \in Int /\ i + 1 \in Int /\ \A k \in 1 .. n : s[k] \in S
  BY <1>1
<1>. DEFINE a == SubSeq(s, 1, i - 1)
            b == SubSeq(s, i + 1, n)
<1>3. /\ a \in Seq(S) /\ Len(a) = i - 1
      /\ \A k \in 1 .. (i - 1) : a[k] = s[k]
  <2>1. \A k \in 1 .. (i - 1) : s[k] \in S
    BY <1>2
  <2>2. /\ a \in Seq(S) /\ Len(a) = IF 1 <= i - 1 THEN (i - 1) - 1 + 1 ELSE 0
        /\ \A k \in 1 .. (i - 1) - 1 + 1 : a[k] = s[1 + k - 1]
    BY <1>2, <2>1, SubSeqProperties
  <2>. HIDE DEF a
  <2>3. (i - 1) - 1 + 1 = i - 1 /\ \A k \in 1 .. (i - 1) : 1 + k - 1 = k
    BY <1>2
  <2>. QED  BY <1>2, <2>2, <2>3
<1>4. /\ b \in Seq(S) /\ Len(b) = n - i
      /\ \A k \in 1 .. (n - i) : b[k] = s[i + k]
  <2>1. \A k \in (i + 1) .. n : s[k] \in S
    BY <1>2
  <2>2. /\ b \in Seq(S) /\ Len(b) = IF i + 1 <= n THEN n - (i + 1) + 1 ELSE 0
        /\ \A k \in 1 .. n - (i + 1) + 1 : b[k] = s[(i + 1) + k - 1]
    <3>1. PICK m \in Int : m = i + 1
      BY <1>2
    <3>2. /\ SubSeq(s, m, n) \in Seq(S) /\ Len(SubSeq(s, m, n)) = IF m <= n THEN n - m + 1 ELSE 0
          /\ \A k \in 1 .. n - m + 1 : SubSeq(s, m, n)[k] = s[m + k - 1]
      BY <2>1, <3>1, SubSeqProperties
    <3>. QED  BY <3>1, <3>2
  <2>. HIDE DEF b
  <2>3. n - (i + 1) + 1 = n - i /\ \A k \in 1 .. (n - i) : (i + 1) + k - 1 = i + k
    BY <1>1, <1>2
  <2>4. Len(b) = n - i
    BY <1>2, <2>2
  <2>5. ASSUME NEW k \in 1 .. (n - i) PROVE b[k] = s[i + k]
    BY <2>2, <2>3
  <2>. QED  BY <2>2, <2>4, <2>5
<1>5. RemoveAt(s, i) = a \o b
  BY <1>1 DEF RemoveAt
<1>. HIDE DEF a, b
<1>6. /\ a \o b \in Seq(S) /\ Len(a \o b) = n - 1
      /\ \A k \in 1 .. (n - 1) : (a \o b)[k] = IF k <= i - 1 THEN a[k] ELSE b[k - (i - 1)]
  <2>1. /\ a \o b \in Seq(S) /\ Len(a \o b) = Len(a) + Len(b)
        /\ \A k \in 1 .. Len(a) + Len(b) : (a \o b)[k] = IF k <= Len(a) THEN a[k] ELSE b[k - Len(a)]
    BY <1>3, <1>4, ConcatProperties
  <2>2. Len(a) + Len(b) = n - 1
    BY <1>2, <1>3, <1>4
  <2>. QED  BY <2>1, <2>2, <1>3
<1>7. \A k \in 1 .. (n - 1) : (a \o b)[k] = IF k < i THEN s[k] ELSE s[k + 1]
  <2>1. ASSUME NEW k \in 1 .. (n - 1) PROVE (a \o b)[k] = IF k < i THEN s[k] ELSE s[k + 1]
    <3>1. CASE k < i
      <4>1. k <= i - 1 /\ k \in 1 .. (i - 1)
        BY <1>2, <3>1
      <4>. QED  BY <3>1, <4>1, <1>3, <1>6
    <3>2. CASE ~(k < i)
      <4>1. ~(k <= i - 1) /\ k - (i - 1) \in 1 .. (n - i) /\ i + (k - (i - 1)) = k + 1
        BY <1>2, <3>2
      <4>. QED  BY <3>2, <4>1, <1>4, <1>6
    <3>. QED  BY <3>1, <3>2
  <2>. QED  BY <2>1
<1>8. DOMAIN (a \o b) = 1 .. (n - 1)
  BY <1>6
<1>. QED  BY <1>1, <1>2, <1>5, <1>6, <1>7, <1>8

\* What is in both lists is in the same order; what is in T may be missing.
InOrder(s, r, T) == \A e, g : Ahead(s, e, g) /\ e \notin T /\ g \notin T => Ahead(r, e, g)

\* A list without repetitions loses that entry and no other, and stays in order.
Takes(S, s, i, r) == s \in Seq(S) /\ Once(s) /\ i \in DOMAIN s /\ r = RemoveAt(s, i)
Taken(S, s, i, r) == r \in Seq(S) /\ Once(r) /\ ToSet(r) = ToSet(s) \ {s[i]} /\ InOrder(s, r, {s[i]})

\* A file is taken out of a list: the others stay, in their order.
LEMMA RemovedOne ==
    ASSUME NEW S, NEW s, NEW i, NEW r, Takes(S, s, i, r)
    PROVE  Taken(S, s, i, r)
<1>0. s \in Seq(S) /\ Once(s) /\ i \in DOMAIN s /\ r = RemoveAt(s, i)
  BY DEF Takes
<1>1. PICK n \in Nat : n = Len(s)
  BY <1>0
<1>2. /\ r \in Seq(S) /\ n > 0 /\ DOMAIN s = 1 .. n /\ DOMAIN r = 1 .. (n - 1)
      /\ \A k \in 1 .. (n - 1) : r[k] = IF k < i THEN s[k] ELSE s[k + 1]
  <2>1. /\ RemoveAt(s, i) \in Seq(S) /\ Len(s) \in Nat \ {0} /\ DOMAIN s = 1 .. Len(s)
        /\ DOMAIN RemoveAt(s, i) = 1 .. (Len(s) - 1)
        /\ \A k \in 1 .. (Len(s) - 1) : RemoveAt(s, i)[k] = IF k < i THEN s[k] ELSE s[k + 1]
    BY <1>0, RemovedAt
  <2>. QED  BY <1>0, <1>1, <2>1
<1>. DEFINE up(k) == IF k < i THEN k ELSE k + 1
            down(k) == IF k < i THEN k ELSE k - 1
<1>3. /\ i \in 1 .. n
      /\ \A k \in DOMAIN r : up(k) \in DOMAIN s /\ up(k) # i /\ r[k] = s[up(k)]
      /\ \A k \in DOMAIN s : k # i => down(k) \in DOMAIN r /\ r[down(k)] = s[k]
  <2>1. i \in 1 .. n
    BY <1>0, <1>2
  <2>2. ASSUME NEW k \in DOMAIN r PROVE up(k) \in DOMAIN s /\ up(k) # i /\ r[k] = s[up(k)]
    <3>1. k \in 1 .. (n - 1) /\ r[k] = IF k < i THEN s[k] ELSE s[k + 1]
      BY <1>2
    <3>2. up(k) \in 1 .. n /\ up(k) # i
      BY <2>1, <3>1
    <3>. QED  BY <1>2, <3>1, <3>2
  <2>3. ASSUME NEW k \in DOMAIN s, k # i PROVE down(k) \in DOMAIN r /\ r[down(k)] = s[k]
    <3>1. k \in 1 .. n
      BY <1>2
    <3>2. CASE k < i
      <4>1. k \in 1 .. (n - 1)
        BY <2>1, <3>1, <3>2
      <4>. QED  BY <1>2, <3>2, <4>1
    <3>3. CASE ~(k < i)
      <4>1. k - 1 \in 1 .. (n - 1) /\ ~(k - 1 < i) /\ (k - 1) + 1 = k
        BY <2>1, <2>3, <3>1, <3>3
      <4>. QED  BY <1>2, <3>3, <4>1
    <3>. QED  BY <3>2, <3>3
  <2>. QED  BY <2>1, <2>2, <2>3
<1>4. Once(r)
  <2>1. ASSUME NEW j \in DOMAIN r, NEW k \in DOMAIN r, r[j] = r[k] PROVE j = k
    <3>1. up(j) = up(k)
      BY <1>0, <2>1, <1>3 DEF Once
    <3>2. j \in Int /\ k \in Int /\ i \in Int
      BY <1>2, <1>3
    <3>. QED  BY <3>1, <3>2
  <2>. QED  BY <2>1 DEF Once
<1>5. ToSet(r) = ToSet(s) \ {s[i]}
  <2>1. ASSUME NEW k \in DOMAIN r PROVE r[k] \in ToSet(s) \ {s[i]}
    BY <1>0, <1>3 DEF ToSet, Once
  <2>2. ASSUME NEW k \in DOMAIN s, s[k] # s[i] PROVE s[k] \in ToSet(r)
    BY <2>2, <1>3 DEF ToSet
  <2>. QED  BY <2>1, <2>2 DEF ToSet
<1>6. ASSUME NEW e, NEW g, Ahead(s, e, g), e # s[i], g # s[i] PROVE Ahead(r, e, g)
  <2>1. PICK j \in DOMAIN s, k \in DOMAIN s : j <= k /\ s[j] = e /\ s[k] = g
    BY <1>6 DEF Ahead
  <2>2. j # i /\ k # i
    BY <2>1, <1>6
  <2>3. down(j) \in DOMAIN r /\ down(k) \in DOMAIN r /\ r[down(j)] = e /\ r[down(k)] = g
    BY <1>3, <2>1, <2>2
  <2>4. j \in Int /\ k \in Int /\ i \in Int
    BY <1>2, <1>3
  <2>5. down(j) <= down(k)
    BY <2>1, <2>2, <2>4
  <2>. QED  BY <2>3, <2>5 DEF Ahead
<1>. QED  BY <1>2, <1>4, <1>5, <1>6 DEF InOrder, Taken

\* A list without repetitions gains an entry at its end.
Adds(S, s, f, r) == s \in Seq(S) /\ Once(s) /\ f \in S /\ f \notin ToSet(s) /\ r = Append(s, f)
Added(S, s, f, r) == r \in Seq(S) /\ Once(r) /\ ToSet(r) = ToSet(s) \cup {f} /\ InOrder(s, r, {})

\* and one comes at the end of a list.
LEMMA AddedOne ==
    ASSUME NEW S, NEW s, NEW f, NEW r, Adds(S, s, f, r)
    PROVE  Added(S, s, f, r)
<1>0. s \in Seq(S) /\ Once(s) /\ f \in S /\ f \notin ToSet(s) /\ r = Append(s, f)
  BY DEF Adds
<1>1. PICK n \in Nat : n = Len(s)
  BY <1>0
<1>2. /\ r \in Seq(S) /\ DOMAIN s = 1 .. n /\ DOMAIN r = 1 .. (n + 1)
      /\ r[n + 1] = f /\ (\A k \in 1 .. n : r[k] = s[k]) /\ ToSet(r) = ToSet(s) \cup {f}
  BY <1>0, <1>1, AppendOf
<1>3. Once(r)
  <2>1. \A k \in 1 .. n : s[k] # f
    BY <1>0, <1>2 DEF ToSet
  <2>2. ASSUME NEW j \in DOMAIN r, NEW k \in DOMAIN r, r[j] = r[k] PROVE j = k
    <3>1. (j \in 1 .. n \/ j = n + 1) /\ (k \in 1 .. n \/ k = n + 1)
      BY <1>2
    <3>. QED  BY <1>0, <1>2, <2>1, <2>2, <3>1 DEF Once
  <2>. QED  BY <2>2 DEF Once
<1>4. ASSUME NEW e, NEW g, Ahead(s, e, g) PROVE Ahead(r, e, g)
  <2>1. PICK j \in DOMAIN s, k \in DOMAIN s : j <= k /\ s[j] = e /\ s[k] = g
    BY <1>4 DEF Ahead
  <2>2. j \in DOMAIN r /\ k \in DOMAIN r /\ r[j] = e /\ r[k] = g
    BY <1>2, <2>1
  <2>. QED  BY <2>1, <2>2 DEF Ahead
<1>. QED  BY <1>2, <1>3, <1>4 DEF InOrder, Added

----------------------------------------------------------------------------
(* Creating a file *)

\* File f is new in the list of directory d, worker w has got it.
Makes(w, f, d, n) ==
    /\ f \in Files /\ f # Root /\ f # d /\ tree[f].st = "none" /\ ~Pointed(f)
    /\ d \in Files /\ tree[d].st = "live"
    /\ Good(tree')
    /\ tree'[f].st = "live" /\ tree'[f].parent = d /\ tree'[f].name = n
    /\ tree'[f].ref = 2 /\ tree'[f].lost = 0 /\ tree'[f].owed = 0
    /\ \A g \in Files : g # f =>
         /\ tree'[g].st = tree[g].st /\ tree'[g].parent = tree[g].parent /\ tree'[g].name = tree[g].name
         /\ tree'[g].owed = tree[g].owed /\ tree'[g].lost = tree[g].lost
         /\ tree'[g].ref = tree[g].ref + One(d = g)
         /\ g # d => tree'[g] = tree[g]
    /\ kids' \in [Files -> Seq(Files \ {Root})]
    /\ \A g \in Files : g # d => kids'[g] = kids[g]
    /\ Once(kids'[d]) /\ ToSet(kids'[d]) = ToSet(kids[d]) \cup {f}
    /\ InOrder(kids[d], kids'[d], {})
    /\ fw' \in [Workers -> WorkRec] /\ \A v \in Workers : v # w => fw'[v] = fw[v]
    /\ fw'[w].pc = "made" /\ fw'[w].fid = fw[w].fid /\ fw'[w].file = fw[w].file /\ fw'[w].got = f
    /\ fw[w].pc = "create" /\ fw[w].file = d /\ fw[w].name = n /\ fw[w].got = Nil
    /\ UNCHANGED <<polite, ff, crashed>>

\* That is what rfs_create and npfile_alloc do.
LEMMA CreateMakes ==
    ASSUME ShapeInv, ~Dangling, NEW w \in Workers, NEW dir \in BOOLEAN, CreateMake(w, dir)
    PROVE  \E f \in Files, d \in Files, n \in NameOrNil : Makes(w, f, d, n)
<1>. USE NilNoFile
<1>0. fw[w].pc = "create" /\ UNCHANGED <<polite, ff, crashed>>
  BY DEF CreateMake
<1>1. PICK x \in FFids : x = fw[w].fid
  BY <1>0, HasFid
<1>2. fw[w].file \in Files /\ tree[fw[w].file].st = "live" /\ fw[w] \in WorkRec /\ WorkShape(w)
  BY <1>0, <1>1, RunFacts
<1>3. fw[w].got = Nil
  BY <1>0, <1>2 DEF WorkShape
<1>4. PICK d \in Files, n \in NameOrNil : d = fw[w].file /\ n = fw[w].name
  BY <1>2 DEF WorkRec
<1>. DEFINE free == {g \in Files : tree[g].st = "none"}
<1>5. free # {} /\ free \subseteq Nat
  BY DEF CreateMake
<1>6. PICK f \in free : f = CHOOSE g \in free : \A h \in free : g <= h
  <2>. HIDE DEF free
  <2>1. \E g \in free : \A h \in free : g <= h
    BY <1>5, LeastNat
  <2>. QED  BY <2>1
<1>7. f \in Files /\ tree[f].st = "none" /\ kids[f] = <<>> /\ ~Pointed(f) /\ f # Root /\ f # d
  <2>1. f \in Files /\ tree[f].st = "none"
    BY <1>6
  <2>. QED  BY <2>1, <1>2, <1>4 DEF ShapeInv, LiveInv
<1>. DEFINE R == [NoFile EXCEPT !.st = "live", !.ref = 2, !.parent = d, !.dir = dir, !.name = n]
            t == npfile_incref(tree, d)
<1>8. tree' = [t EXCEPT ![f] = R]
  BY <1>4, <1>6 DEF CreateMake
<1>9. R \in FileRec /\ R.st = "live" /\ R.parent = d /\ R.name = n /\ R.ref = 2 /\ R.lost = 0 /\ R.owed = 0
  <2>1. NoFile \in FileRec /\ NoFile.lost = 0 /\ NoFile.owed = 0
    BY DEF NoFile, FileRec, FileOrNil, NameOrNil
  <2>2. d \in FileOrNil
    BY DEF FileOrNil
  <2>. QED  BY <1>4, <2>1, <2>2 DEF FileRec
<1>10. tree \in [Files -> FileRec] /\ t = [tree EXCEPT ![d].ref = tree[d].ref + 1]
  BY DEF npfile_incref, ShapeInv, TypeInv
<1>11. /\ t \in [Files -> FileRec]
       /\ \A g \in Files :
            /\ t[g].st = tree[g].st /\ t[g].parent = tree[g].parent /\ t[g].name = tree[g].name
            /\ t[g].owed = tree[g].owed /\ t[g].lost = tree[g].lost
            /\ t[g].ref = tree[g].ref + One(d = g)
            /\ g # d => t[g] = tree[g]
  <2>. HIDE DEF t
  <2>1. t \in [Files -> FileRec]
    BY <1>10 DEF FileRec
  <2>. QED  BY <1>10, <2>1 DEF FileRec, One
<1>12. Good(t)
  <2>1. /\ \A g \in Files : tree[g].st = "live" => tree[g].ref > 0
        /\ \A g \in Files : tree[g].st = "freed" => tree[g].parent = Nil /\ tree[g].name = Nil
        /\ \A g \in Files : tree[g].ref \in Nat /\ One(d = g) \in Nat
    BY LiveRef DEF ShapeInv, LiveInv, Good, One
  <2>. HIDE DEF t
  <2>. QED  BY <2>1, <1>11 DEF Good
<1>13. /\ tree' \in [Files -> FileRec] /\ tree'[f] = R /\ \A g \in Files \ {f} : tree'[g] = t[g]
  <2>. HIDE DEF R, t
  <2>. QED  BY <1>7, <1>8, <1>9, <1>11
<1>. HIDE DEF R, t
<1>15. Good(tree')
  <2>1. tree'[f].st = "live" /\ tree'[f].ref > 0
    BY <1>9, <1>13
  <2>2. \A g \in Files : g # f => tree'[g] = t[g]
    BY <1>13
  <2>3. \A g \in Files : tree'[g].st = "live" => tree'[g].ref > 0
    BY <1>12, <2>1, <2>2 DEF Good
  <2>4. \A g \in Files : tree'[g].st = "freed" => tree'[g].parent = Nil /\ tree'[g].name = Nil
    BY <1>12, <2>1, <2>2 DEF Good
  <2>. QED  BY <1>13, <2>3, <2>4 DEF Good
<1>16. kids \in [Files -> Seq(Files \ {Root})] /\ Once(kids[d]) /\ f \notin ToSet(kids[d])
  BY <1>7 DEF ShapeInv, TypeInv, ListInv, Pointed, Listed
<1>17. kids' = [kids EXCEPT ![d] = Append(kids[d], f)]
  BY <1>4, <1>6 DEF CreateMake
<1>18. PICK r : r = Append(kids[d], f)
  OBVIOUS
<1>19. /\ r \in Seq(Files \ {Root}) /\ Once(r) /\ ToSet(r) = ToSet(kids[d]) \cup {f}
       /\ InOrder(kids[d], r, {})
  <2>0. PICK S : S = Files \ {Root}
    OBVIOUS
  <2>1. kids[d] \in Seq(S) /\ f \in S
    BY <1>7, <1>16, <2>0
  <2>2. Adds(S, kids[d], f, r)
    BY <1>16, <1>18, <2>1 DEF Adds
  <2>3. Added(S, kids[d], f, r)
    BY <2>2, AddedOne
  <2>. QED  BY <2>0, <2>3 DEF Added
<1>20. kids' = [kids EXCEPT ![d] = r]
  BY <1>17, <1>18
<1>21. kids' \in [Files -> Seq(Files \ {Root})] /\ kids'[d] = r /\ \A g \in Files : g # d => kids'[g] = kids[g]
  BY <1>16, <1>19, <1>20
<1>22. /\ fw' \in [Workers -> WorkRec] /\ (\A v \in Workers : v # w => fw'[v] = fw[v])
       /\ fw'[w].pc = "made" /\ fw'[w].fid = fw[w].fid /\ fw'[w].file = fw[w].file /\ fw'[w].got = f
  <2>1. fw' = [fw EXCEPT ![w].pc = "made", ![w].got = f, ![w].name = Nil]
    BY <1>6 DEF CreateMake
  <2>2. fw \in [Workers -> WorkRec]
    BY DEF ShapeInv, TypeInv
  <2>3. "made" \in Pcs /\ f \in FileOrNil /\ Nil \in NameOrNil
    BY <1>7 DEF Pcs, FileOrNil, NameOrNil
  <2>4. fw' = [fw EXCEPT ![w] = [fw[w] EXCEPT !.pc = "made", !.got = f, !.name = Nil]]
    BY <2>1, <2>2
  <2>5. PICK q : q = [fw[w] EXCEPT !.pc = "made", !.got = f, !.name = Nil]
    OBVIOUS
  <2>6. q \in WorkRec /\ q.pc = "made" /\ q.got = f /\ q.fid = fw[w].fid /\ q.file = fw[w].file
    BY <1>2, <2>3, <2>5 DEF WorkRec
  <2>. QED  BY <2>2, <2>4, <2>5, <2>6
<1>23. /\ tree'[f].st = "live" /\ tree'[f].parent = d /\ tree'[f].name = n
       /\ tree'[f].ref = 2 /\ tree'[f].lost = 0 /\ tree'[f].owed = 0
  BY <1>13, <1>9
<1>24. \A g \in Files : g # f =>
         /\ tree'[g].st = tree[g].st /\ tree'[g].parent = tree[g].parent /\ tree'[g].name = tree[g].name
         /\ tree'[g].owed = tree[g].owed /\ tree'[g].lost = tree[g].lost
         /\ tree'[g].ref = tree[g].ref + One(d = g)
         /\ g # d => tree'[g] = tree[g]
  <2>1. SUFFICES ASSUME NEW g \in Files, g # f
                 PROVE  /\ tree'[g].st = tree[g].st /\ tree'[g].parent = tree[g].parent
                        /\ tree'[g].name = tree[g].name
                        /\ tree'[g].owed = tree[g].owed /\ tree'[g].lost = tree[g].lost
                        /\ tree'[g].ref = tree[g].ref + One(d = g)
                        /\ g # d => tree'[g] = tree[g]
    OBVIOUS
  <2>2. tree'[g] = t[g]
    BY <1>13, <2>1
  <2>3. /\ t[g].st = tree[g].st /\ t[g].parent = tree[g].parent /\ t[g].name = tree[g].name
        /\ t[g].owed = tree[g].owed /\ t[g].lost = tree[g].lost
        /\ t[g].ref = tree[g].ref + One(d = g)
        /\ g # d => t[g] = tree[g]
    BY <1>11
  <2>. QED  BY <2>2, <2>3
<1>25. Once(kids'[d]) /\ ToSet(kids'[d]) = ToSet(kids[d]) \cup {f}
       /\ InOrder(kids[d], kids'[d], {})
  BY <1>19, <1>21
<1>26. d = fw[w].file /\ n = fw[w].name /\ tree[d].st = "live"
  BY <1>2, <1>4
<1>27. Makes(w, f, d, n)
  BY <1>0, <1>3, <1>7, <1>15, <1>21, <1>22, <1>23, <1>24, <1>25, <1>26, Zenon DEF Makes
<1>. QED  BY <1>4, <1>7, <1>27

\* What points to a file afterwards did so before; only the new file and its
\* directory gain a pointer.
LEMMA MakePoints ==
    ASSUME ShapeInv, NEW w \in Workers, NEW f, NEW d, NEW n, Makes(w, f, d, n)
    PROVE  /\ \A g \in Files : Listed(g)' <=> Listed(g) \/ g = f
           /\ \A g \in Files : g # f /\ g # d /\ Pointed(g)' => Pointed(g)
           /\ \A e \in Files, g \in Files : g \in ToSet(kids[e]) => g # f
           /\ \A e \in Files, g \in Files : g \in ToSet(kids'[e]) <=> g \in ToSet(kids[e]) \/ (e = d /\ g = f)
<1>1. \A e \in Files, g \in Files : g \in ToSet(kids'[e]) <=> g \in ToSet(kids[e]) \/ (e = d /\ g = f)
  BY DEF Makes
<1>2. \A e \in Files, g \in Files : g \in ToSet(kids[e]) => g # f
  BY DEF Makes, Pointed, Listed
<1>3. \A g \in Files : Listed(g)' <=> Listed(g) \/ g = f
  BY <1>1 DEF Listed, Makes
<1>4. ASSUME NEW g \in Files, g # f, g # d, Pointed(g)' PROVE Pointed(g)
  <2>1. Listed(g)' => Listed(g)
    BY <1>3, <1>4
  <2>2. ASSUME NEW h \in Files, tree'[h].st = "live", tree'[h].parent = g
        PROVE  tree[h].st = "live" /\ tree[h].parent = g
    <3>1. h # f
      BY <1>4, <2>2 DEF Makes
    <3>. QED  BY <2>2, <3>1 DEF Makes
  <2>3. ASSUME NEW v \in Workers, g \in {fw'[v].file, fw'[v].got} PROVE g \in {fw[v].file, fw[v].got}
    <3>1. CASE v = w
      BY <1>4, <2>3, <3>1 DEF Makes
    <3>2. CASE v # w
      <4>1. fw'[v] = fw[v]
        BY <3>2 DEF Makes
      <4>. QED  BY <2>3, <4>1
    <3>. QED  BY <3>1, <3>2
  <2>4. ff' = ff
    BY DEF Makes
  <2>. QED  BY <1>4, <2>1, <2>2, <2>3, <2>4 DEF Pointed
<1>. QED  BY <1>1, <1>2, <1>3, <1>4

\* The shape holds afterwards.
LEMMA MakeShape ==
    ASSUME ShapeInv, ~Dangling, NEW w \in Workers, NEW f, NEW d, NEW n, Makes(w, f, d, n)
    PROVE  ShapeInv'
<1>. USE NilNoFile
<1>0. f \in Files /\ d \in Files /\ f # d /\ f # Root /\ ff' = ff
  BY DEF Makes
<1>1. TypeInv'
  BY DEF ShapeInv, TypeInv, Makes, Good
<1>2. LiveInv'
  <2>1. ASSUME NEW g \in Files, tree'[g].st = "none"
        PROVE  tree'[g] = NoFile /\ kids'[g] = <<>> /\ ~Pointed(g)'
    <3>1. g # f /\ g # d /\ tree[g].st = "none"
      BY <2>1 DEF Makes
    <3>2. tree'[g] = tree[g] /\ kids'[g] = kids[g]
      BY <3>1 DEF Makes
    <3>3. ~Pointed(g) /\ tree[g] = NoFile /\ kids[g] = <<>>
      BY <3>1 DEF ShapeInv, LiveInv
    <3>4. ~Pointed(g)'
      BY <3>1, <3>3, MakePoints
    <3>. QED  BY <3>2, <3>3, <3>4
  <2>2. Good(tree)'
    BY DEF Good, Makes
  <2>3. tree'[Root].st # "none"
    BY DEF ShapeInv, LiveInv, Makes
  <2>. QED  BY <2>1, <2>2, <2>3 DEF LiveInv
<1>3. ListInv'
  <2>1. \A e \in Files : Once(kids'[e])
    BY DEF ShapeInv, ListInv, Makes
  <2>2. ASSUME NEW e \in Files, NEW g \in Files, g \in ToSet(kids'[e]), tree'[g].st = "live"
        PROVE  tree'[g].parent = e
    <3>1. g \in ToSet(kids[e]) \/ (e = d /\ g = f)
      BY <2>2, MakePoints
    <3>2. g \in ToSet(kids[e]) => g # f
      BY MakePoints
    <3>3. CASE g = f
      BY <3>1, <3>2, <3>3 DEF Makes
    <3>4. CASE g # f
      <4>1. tree[g].st = "live" /\ tree'[g].parent = tree[g].parent
        BY <2>2, <3>4 DEF Makes
      <4>. QED  BY <3>1, <3>4, <4>1 DEF ShapeInv, ListInv
    <3>. QED  BY <3>3, <3>4
  <2>3. ASSUME NEW g \in Files \ {Root}, tree'[g].st = "live", tree'[g].parent # Nil
        PROVE  g \in ToSet(kids'[tree'[g].parent])
    <3>1. CASE g = f
      BY <3>1 DEF Makes
    <3>2. CASE g # f
      <4>1. tree[g].st = "live" /\ tree[g].parent = tree'[g].parent
        BY <2>3, <3>2 DEF Makes
      <4>2. g \in ToSet(kids[tree[g].parent]) /\ tree[g].parent \in Files
        BY <2>3, <4>1, ParentLists DEF ShapeInv, ListInv
      <4>. QED  BY <4>1, <4>2, MakePoints
    <3>. QED  BY <3>1, <3>2
  <2>4. (\A g \in Files \ {Root} : tree'[g].parent # g) /\ tree'[Root].parent \in {Root, Nil}
    <3>1. \A g \in Files : g # f => tree'[g].parent = tree[g].parent
      BY DEF Makes
    <3>2. tree'[f].parent = d
      BY DEF Makes
    <3>. QED  BY <1>0, <3>1, <3>2 DEF ShapeInv, ListInv
  <2>. QED  BY <2>1, <2>2, <2>3, <2>4 DEF ListInv
<1>4. WorkInv'
  <2>1. ASSUME NEW v \in Workers PROVE WorkShape(v)'
    <3>1. WorkShape(v)
      BY DEF ShapeInv, WorkInv
    <3>2. CASE v = w
      BY <1>0, <3>1, <3>2 DEF WorkShape, Makes
    <3>3. CASE v # w
      <4>1. fw'[v] = fw[v]
        BY <3>3 DEF Makes
      <4>. QED  BY <1>0, <3>1, <4>1 DEF WorkShape
    <3>. QED  BY <3>2, <3>3
  <2>2. \A v \in Workers : fw'[v].fid = fw[v].fid
    BY DEF Makes
  <2>. QED  BY <2>1, <2>2 DEF WorkInv, ShapeInv
<1>5. FidInv'
  BY <1>0 DEF ShapeInv, FidInv, FidShape
<1>6. ReadInv'
  <2>1. ASSUME NEW y \in FFids PROVE ReadShape(y)'
    <3>1. ReadShape(y) /\ ff[y] \in FidRec /\ FidShape(y)
      BY DEF ShapeInv, ReadInv, TypeInv, FidInv
    <3>2. CASE ff[y].file \in Files \ {d}
      <4>1. kids'[ff[y].file] = kids[ff[y].file]
        BY <3>2 DEF Makes
      <4>. QED  BY <1>0, <3>1, <4>1 DEF ReadShape
    <3>3. CASE ff[y].file = d
      <4>1. ToSet(kids[d]) \subseteq ToSet(kids'[d]) /\ InOrder(kids[d], kids'[d], {})
        BY DEF Makes
      <4>2. \A e, g : Ahead(kids[d], e, g) => Ahead(kids'[d], e, g)
        BY <4>1 DEF InOrder
      <4>. QED  BY <1>0, <3>1, <3>3, <4>1, <4>2 DEF ReadShape
    <3>4. CASE ff[y].file = Nil
      <4>1. ~ff[y].begun
        BY <3>1, <3>4 DEF FidShape, NoFid
      <4>. QED  BY <1>0, <4>1 DEF ReadShape
    <3>. QED  BY <3>1, <3>2, <3>3, <3>4 DEF FidRec, FileOrNil
  <2>. QED  BY <2>1 DEF ReadInv
<1>. QED  BY <1>1, <1>2, <1>3, <1>4, <1>5, <1>6 DEF ShapeInv

\* A file nobody points to has no references.
LEMMA AloneZero ==
    ASSUME NEW f \in Files, ~Pointed(f), f # Root
    PROVE  Refs(f) = 0
<1>1. ~Listed(f) /\ Children(f) = {} /\ OnFile(f) = {} /\ OnEntry(f) = {} /\ OnGot(f) = {}
  BY DEF Pointed, Children, OnFile, OnEntry, OnGot
<1>2. Cardinality({}) = 0
  BY FS_EmptySet
<1>3. Refs(f) = One(f = Root \/ Listed(f)) + Cardinality(Children(f)) + Cardinality(OnFile(f))
                + Cardinality(OnEntry(f)) + Cardinality(OnGot(f))
  BY RefsTyped
<1>4. One(f = Root \/ Listed(f)) = 0
  BY <1>1 DEF One
<1>. QED  BY <1>1, <1>2, <1>3, <1>4

\* Refs, afterwards.
LEMMA RefsAfter ==
    ASSUME NEW f
    PROVE  Refs(f)' = One(f = Root \/ Listed(f))' + Cardinality(Children(f)') + Cardinality(OnFile(f)')
                      + Cardinality(OnEntry(f)') + Cardinality(OnGot(f)')
BY DEF Refs, Children, OnFile, OnEntry, OnGot, One

\* The counts are exact afterwards.
LEMMA MakeCounts ==
    ASSUME ShapeInv, RefExact, ~Dangling, NEW w \in Workers, NEW f, NEW d, NEW n, Makes(w, f, d, n)
    PROVE  RefExact'
<1>. USE NilNoFile
<1>0. f \in Files /\ d \in Files /\ f # d /\ f # Root /\ ff' = ff
  BY DEF Makes
<1>1. SUFFICES ASSUME NEW g \in Files, tree'[g].st = "live"
               PROVE  tree'[g].ref = Refs(g)' + tree'[g].lost - tree'[g].owed
  BY DEF RefExact
<1>2. Refs(g)' = Refs(g) + One(d = g) + One(f = g) + One(f = g) /\ Refs(g) \in Nat
  <2>1. /\ Cardinality(Children(g)) \in Nat /\ Cardinality(OnFile(g)) \in Nat
        /\ Cardinality(OnEntry(g)) \in Nat /\ Cardinality(OnGot(g)) \in Nat
        /\ Refs(g) \in Nat
        /\ Refs(g) = One(g = Root \/ Listed(g)) + Cardinality(Children(g)) + Cardinality(OnFile(g))
                     + Cardinality(OnEntry(g)) + Cardinality(OnGot(g))
    BY RefsTyped
  <2>2. Refs(g)' = One(g = Root \/ Listed(g))' + Cardinality(Children(g)') + Cardinality(OnFile(g)')
                   + Cardinality(OnEntry(g)') + Cardinality(OnGot(g)')
    BY RefsAfter
  <2>3. One(g = Root \/ Listed(g))' = One(g = Root \/ Listed(g)) + One(f = g)
    <3>1. Listed(g)' <=> Listed(g) \/ g = f
      BY MakePoints
    <3>2. ~Listed(f)
      BY DEF Makes, Pointed
    <3>. QED  BY <1>0, <3>1, <3>2 DEF One
  <2>4. OnFile(g)' = OnFile(g) /\ OnEntry(g)' = OnEntry(g)
    BY <1>0 DEF OnFile, OnEntry
  <2>5. Cardinality(Children(g)') = Cardinality(Children(g)) + One(d = g)
    <3>. DEFINE A == Children(g)
                B == Children(g)'
    <3>0. \A h \in Files : h # f => tree'[h].st = tree[h].st /\ tree'[h].parent = tree[h].parent
      BY DEF Makes
    <3>1. A \in SUBSET (Files \ {Root}) /\ B \in SUBSET (Files \ {Root}) /\ A \ {f} = B \ {f}
      BY <3>0 DEF Children
    <3>2. f \notin A /\ (f \in B <=> d = g)
      BY <1>0 DEF Children, Makes
    <3>. HIDE DEF A, B
    <3>3. Cardinality(A) \in Nat /\ Cardinality(B) = Cardinality(A) + One(f \in B) - One(f \in A)
      BY <3>1, FilesFinite, CardMove, ZenonT(40)
    <3>4. One(f \in B) = One(d = g) /\ One(f \in A) = 0 /\ One(d = g) \in Nat
      BY <3>2 DEF One
    <3>5. Cardinality(B) = Cardinality(A) + One(d = g)
      BY <3>3, <3>4
    <3>. QED  BY <3>5 DEF A, B
  <2>6. Cardinality(OnGot(g)') = Cardinality(OnGot(g)) + One(f = g)
    <3>. DEFINE A == OnGot(g)
                B == OnGot(g)'
    <3>1. A \in SUBSET Workers /\ B \in SUBSET Workers /\ A \ {w} = B \ {w}
      BY DEF OnGot, Makes
    <3>2. w \notin A /\ (w \in B <=> f = g)
      BY <1>0 DEF OnGot, Makes
    <3>. HIDE DEF A, B
    <3>3. Cardinality(A) \in Nat /\ Cardinality(B) = Cardinality(A) + One(w \in B) - One(w \in A)
      BY <3>1, NpFileAssumption, CardMove
    <3>4. One(w \in B) = One(f = g) /\ One(w \in A) = 0 /\ One(f = g) \in Nat
      BY <3>2 DEF One
    <3>5. Cardinality(B) = Cardinality(A) + One(f = g)
      BY <3>3, <3>4
    <3>. QED  BY <3>5 DEF A, B
  <2>7. One(g = Root \/ Listed(g)) \in Nat /\ One(f = g) \in Nat /\ One(d = g) \in Nat
    BY DEF One
  <2>. QED  BY <2>1, <2>2, <2>3, <2>4, <2>5, <2>6, <2>7
<1>3. CASE g = f
  <2>1. Refs(f) = 0
    BY <1>0, AloneZero DEF Makes
  <2>2. One(d = g) = 0 /\ One(f = g) = 1
    BY <1>0, <1>3 DEF One
  <2>3. tree'[f].ref = 2 /\ tree'[f].lost = 0 /\ tree'[f].owed = 0
    BY DEF Makes
  <2>. QED  BY <1>2, <1>3, <2>1, <2>2, <2>3
<1>4. CASE g # f
  <2>1. /\ tree[g].st = "live" /\ tree'[g].ref = tree[g].ref + One(d = g)
        /\ tree'[g].lost = tree[g].lost /\ tree'[g].owed = tree[g].owed
    BY <1>1, <1>4 DEF Makes
  <2>2. tree[g].ref = Refs(g) + tree[g].lost - tree[g].owed
    BY <2>1 DEF RefExact
  <2>3. tree[g].ref \in Nat /\ tree[g].lost \in Nat /\ tree[g].owed \in Nat
    BY DEF ShapeInv, TypeInv, FileRec
  <2>4. One(f = g) = 0 /\ One(d = g) \in Nat
    BY <1>4 DEF One
  <2>. QED  BY <1>2, <2>1, <2>2, <2>3, <2>4
<1>. QED  BY <1>3, <1>4

\* What holds with polite clients does so afterwards.
LEMMA MakePolite ==
    ASSUME ShapeInv, PoliteInv, ~Dangling, NEW w \in Workers, NEW f, NEW d, NEW n, Makes(w, f, d, n)
    PROVE  PoliteInv'
<1>. USE NilNoFile
<1>0. /\ f \in Files /\ d \in Files /\ f # d /\ f # Root /\ ff' = ff /\ polite' = polite /\ crashed' = crashed
      /\ fw[w].pc = "create" /\ fw[w].file = d /\ fw[w].name = n
  BY DEF Makes
<1>. SUFFICES ASSUME polite PROVE PoliteInv'
  BY <1>0 DEF PoliteInv
<1>1. PICK x \in FFids : x = fw[w].fid
  BY <1>0, HasFid
<1>2. Mine(x, w) /\ ff[x].file = d
  BY <1>0, <1>1, RunFacts
<1>3. d # Root => Listed(d)
  BY <1>0, <1>2, OnListed
<1>4. \A g \in Files : Listed(g)' <=> Listed(g) \/ g = f
  BY MakePoints
<1>5. ~Dangling'
  <2>1. ASSUME NEW g \in Files, tree'[g].st = "freed", Pointed(g)' PROVE FALSE
    <3>1. g # f /\ g # d /\ tree[g].st = "freed"
      BY <2>1 DEF Makes
    <3>2. Pointed(g)
      BY <2>1, <3>1, MakePoints, Zenon
    <3>. QED  BY <3>1, <3>2 DEF Dangling
  <2>. QED  BY <2>1 DEF Dangling
<1>6. ~crashed' /\ (\A g \in Files : tree'[g].owed = 0) /\ tree'[Root].st = "live"
  <2>1. \A g \in Files : tree'[g].owed = IF g = f THEN 0 ELSE tree[g].owed
    BY DEF Makes
  <2>2. tree'[Root].st = tree[Root].st
    BY <1>0 DEF Makes
  <2>. QED  BY <1>0, <2>1, <2>2 DEF PoliteInv
<1>7. OnInv'
  <2>1. ASSUME NEW y \in FFids PROVE OnShape(y)'
    <3>1. OnShape(y) /\ ff[y].file \in FileOrNil
      BY DEF PoliteInv, OnInv, ShapeInv, TypeInv, FidRec
    <3>2. \A v \in Workers : fw[v].pc = "clunk" => fw'[v] = fw[v]
      BY <1>0 DEF Makes
    <3>. QED  BY <1>0, <1>4, <3>1, <3>2 DEF OnShape, FileOrNil
  <2>2. ASSUME NEW v \in Workers PROVE GotShape(v)'
    <3>1. GotShape(v) /\ fw[v].got \in FileOrNil
      BY DEF PoliteInv, OnInv, ShapeInv, TypeInv, WorkRec
    <3>2. CASE v = w
      <4>1. fw'[v].got = f
        BY <3>2 DEF Makes
      <4>2. Listed(f)'
        BY <1>0, <1>4
      <4>. QED  BY <4>1, <4>2 DEF GotShape, Listed
    <3>3. CASE v # w
      <4>1. fw'[v] = fw[v]
        BY <3>3 DEF Makes
      <4>2. fw[v].got \notin {Nil, Root} => Listed(fw[v].got) /\ fw[v].got \in Files
        BY <3>1 DEF GotShape, FileOrNil
      <4>3. PICK q : q = fw[v].got
        OBVIOUS
      <4>4. q \notin {Nil, Root} => Listed(q)'
        BY <1>4, <4>2, <4>3
      <4>5. fw'[v].got = q
        BY <4>1, <4>3
      <4>. QED  BY <4>4, <4>5 DEF GotShape, Listed
    <3>. QED  BY <3>2, <3>3
  <2>. QED  BY <2>1, <2>2 DEF OnInv
<1>8. CreateShape(w) /\ Named(d, n) = {}
  BY <1>0 DEF PoliteInv, CreateShape
<1>9. \A e \in Files, g \in Files :
        g \in ToSet(kids'[e]) => \/ g \in ToSet(kids[e]) /\ tree'[g].name = tree[g].name
                                 \/ e = d /\ g = f /\ tree'[g].name = n
  <2>1. \A e \in Files, g \in Files : g \in ToSet(kids'[e]) => g \in ToSet(kids[e]) \/ (e = d /\ g = f)
    BY MakePoints
  <2>2. \A e \in Files, g \in Files : g \in ToSet(kids[e]) => g # f
    BY MakePoints
  <2>. QED  BY <2>1, <2>2 DEF Makes
<1>10. \A e \in Files : ToSet(kids'[e]) \subseteq Files
  BY QueueOf DEF Makes
<1>11. NamesInv'
  <2>1. ASSUME NEW e \in Files, NEW g \in ToSet(kids'[e]), NEW h \in ToSet(kids'[e]), tree'[g].name = tree'[h].name
        PROVE  g = h
    <3>1. g \in Files /\ h \in Files
      BY <1>10
    <3>2. \A q \in ToSet(kids[d]) : tree[q].name # n
      BY <1>8 DEF Named
    <3>3. \A k \in {g, h} : \/ k \in ToSet(kids[e]) /\ tree'[k].name = tree[k].name
                            \/ e = d /\ k = f /\ tree'[k].name = n
      BY <1>9, <3>1
    <3>4. \A k, l \in ToSet(kids[e]) : tree[k].name = tree[l].name => k = l
      BY DEF PoliteInv, NamesInv
    <3>. QED  BY <2>1, <3>2, <3>3, <3>4
  <2>2. ASSUME NEW e \in Files, e # Root, ~Listed(e)' PROVE kids'[e] = <<>>
    <3>1. ~Listed(e) /\ e # d
      BY <1>3, <1>4, <2>2
    <3>2. kids[e] = <<>>
      BY <2>2, <3>1 DEF PoliteInv, NamesInv
    <3>3. kids'[e] = kids[e]
      BY <3>1 DEF Makes
    <3>. QED  BY <3>2, <3>3
  <2>. QED  BY <2>1, <2>2 DEF NamesInv
<1>12. ASSUME NEW v \in Workers PROVE RemoveShape(v)'
  <2>1. CASE v = w
    BY <2>1 DEF RemoveShape, Makes
  <2>2. CASE v # w /\ fw[v].pc = "remove"
    <3>1. fw'[v] = fw[v] /\ fw[v].file \in Files
      BY <2>2 DEF Makes, ShapeInv, WorkInv, WorkShape
    <3>2. fw[v].file # Root /\ kids[fw[v].file] = <<>> /\ ~Others(fw[v].fid, fw[v].file)
      BY <2>2 DEF PoliteInv, RemoveShape
    <3>3. fw[v].file # d
      BY <1>2, <2>2, NotRemoved
    <3>4. fw[v].file # f
      BY <3>1 DEF Makes, Pointed
    <3>5. ~Others(fw[v].fid, fw[v].file)'
      <4>1. \A u \in Workers : /\ fw'[u].fid = fw[u].fid /\ fw'[u].file = fw[u].file
                               /\ fw'[u].got \in {fw[u].got, f}
        BY DEF Makes
      <4>. QED  BY <1>0, <3>2, <3>4, <3>1, <4>1 DEF Others
    <3>6. kids'[fw[v].file] = kids[fw[v].file]
      BY <3>1, <3>3 DEF Makes
    <3>. QED  BY <3>1, <3>2, <3>5, <3>6 DEF RemoveShape
  <2>3. CASE v # w /\ fw[v].pc # "remove"
    BY <2>3 DEF RemoveShape, Makes
  <2>. QED  BY <2>1, <2>2, <2>3
<1>13. ASSUME NEW v \in Workers PROVE CreateShape(v)'
  <2>1. CASE v = w
    BY <2>1 DEF CreateShape, Makes
  <2>2. CASE v # w /\ fw[v].pc = "create"
    <3>1. fw'[v] = fw[v] /\ fw[v].file \in Files
      BY <2>2 DEF Makes, ShapeInv, WorkInv, WorkShape
    <3>2. /\ Named(fw[v].file, fw[v].name) = {}
          /\ \A u \in Workers \ {v} :
               fw[u].pc = "create" /\ fw[u].file = fw[v].file => fw[u].name # fw[v].name
      BY <2>2 DEF PoliteInv, CreateShape
    <3>3. fw[v].file = d => fw[v].name # n
      BY <1>0, <2>2, <3>2
    <3>4. ASSUME NEW g \in ToSet(kids'[fw[v].file]) PROVE tree'[g].name # fw[v].name
      <4>1. g \in Files
        BY <1>10, <3>1
      <4>2. \A q \in ToSet(kids[fw[v].file]) : tree[q].name # fw[v].name
        BY <3>2 DEF Named
      <4>. QED  BY <1>9, <3>1, <3>3, <4>1, <4>2
    <3>5. Named(fw[v].file, fw[v].name)' = {}
      BY <3>1, <3>4 DEF Named
    <3>6. \A u \in Workers \ {v} :
            fw'[u].pc = "create" /\ fw'[u].file = fw'[v].file => fw'[u].name # fw'[v].name
      <4>1. \A u \in Workers : fw'[u].pc = "create" => fw'[u] = fw[u]
        BY DEF Makes
      <4>. QED  BY <3>1, <3>2, <4>1
    <3>. QED  BY <3>5, <3>6 DEF CreateShape
  <2>3. CASE v # w /\ fw[v].pc # "create"
    BY <2>3 DEF CreateShape, Makes
  <2>. QED  BY <2>1, <2>2, <2>3
<1>. QED  BY <1>5, <1>6, <1>7, <1>11, <1>12, <1>13 DEF PoliteInv

\* CreateMake.
LEMMA CreateMakeKeeps ==
    ASSUME TreeInv, ~Dangling, NEW w \in Workers, NEW dir \in BOOLEAN, CreateMake(w, dir)
    PROVE  TreeInv'
<1>1. PICK f \in Files, d \in Files, n \in NameOrNil : Makes(w, f, d, n)
  BY CreateMakes DEF TreeInv
<1>2. ShapeInv' /\ RefExact' /\ PoliteInv'
  BY <1>1, MakeShape, MakeCounts, MakePolite DEF TreeInv
<1>. QED  BY <1>2 DEF TreeInv

----------------------------------------------------------------------------
(* Removing a file *)

\* File f, that fid x of worker w is on, leaves the list of directory p.
Unlinks(w, x, f, p) ==
    /\ f \in Files /\ p \in Files /\ f # Root /\ f # p /\ x \in FFids
    /\ f \in ToSet(kids[p]) /\ tree[f].st = "live" /\ tree[f].parent = p /\ tree[p].st = "live"
    /\ Good(tree')
    /\ \A g \in Files :
         /\ tree'[g].owed = tree[g].owed
         /\ tree'[g].st = "none" => tree[g].st = "none"
         /\ g # f /\ g # p => tree'[g] = tree[g]
         /\ tree'[g].st = "live" =>
              /\ tree[g].st = "live" /\ tree'[g].name = tree[g].name
              /\ tree'[g].parent = IF g = f THEN Nil ELSE tree[g].parent
              /\ Net(tree'[g]) = Net(tree[g]) - One(f = g) - One(p = g)
         /\ tree[g].st = "live" /\ tree'[g].st # "live" =>
              tree'[g].st = "freed" /\ g \in {f, p} /\ tree[g].ref = 1
    /\ kids' \in [Files -> Seq(Files \ {Root})]
    /\ \A g \in Files : g # p => kids'[g] = kids[g]
    /\ Once(kids'[p]) /\ ToSet(kids'[p]) = ToSet(kids[p]) \ {f} /\ InOrder(kids[p], kids'[p], {f})
    /\ ff' \in [FFids -> FidRec]
    /\ \A y \in FFids :
         /\ ff'[y].file = ff[y].file /\ ff'[y].dirent = ff[y].dirent
         /\ ff'[y].open = ff[y].open /\ ff'[y].begun = ff[y].begun
         /\ ff'[y].due = ff[y].due \ {f} /\ (ff'[y].cut <=> ff[y].cut \/ ff[y].dirent = f)
         /\ ff[y] = NoFid => ff'[y] = NoFid
    /\ fw' \in [Workers -> WorkRec] /\ \A v \in Workers : v # w => fw'[v] = fw[v]
    /\ fw'[w].pc = "clunk" /\ fw'[w].fid = x /\ fw'[w].file = f /\ fw'[w].got = Nil
    /\ fw[w].pc = "remove" /\ fw[w].fid = x /\ fw[w].file = f /\ fw[w].got = Nil /\ ff[x].file = f
    /\ UNCHANGED <<polite, crashed>>

\* The files after rfs_remove and the two calls of npfile_decref.
LEMMA RemoveTreeIs ==
    ASSUME ShapeInv, NEW f \in Files, NEW p \in Files, f # p, f # Root, tree[f].st = "live", tree[p].st = "live",
           tree' = RemoveTree(f, p)
    PROVE  /\ Good(tree')
           /\ \A g \in Files :
                /\ tree'[g].owed = tree[g].owed
                /\ tree'[g].st = "none" => tree[g].st = "none"
                /\ g # f /\ g # p => tree'[g] = tree[g]
                /\ tree'[g].st = "live" =>
                     /\ tree[g].st = "live" /\ tree'[g].name = tree[g].name
                     /\ tree'[g].parent = IF g = f THEN Nil ELSE tree[g].parent
                     /\ Net(tree'[g]) = Net(tree[g]) - One(f = g) - One(p = g)
                /\ tree[g].st = "live" /\ tree'[g].st # "live" =>
                     tree'[g].st = "freed" /\ g \in {f, p} /\ tree[g].ref = 1
<1>. USE NilNoFile
<1>1. PICK t : t = [tree EXCEPT ![f].parent = Nil]
  OBVIOUS
<1>2. tree \in [Files -> FileRec] /\ Good(tree) /\ \A g \in Files : tree[g].ref \in Nat /\ Net(tree[g]) \in Int
  BY LiveRef, NetInt DEF ShapeInv, TypeInv, LiveInv
<1>3. /\ t \in [Files -> FileRec]
      /\ \A g \in Files :
           /\ t[g].st = tree[g].st /\ t[g].name = tree[g].name /\ t[g].owed = tree[g].owed
           /\ t[g].ref = tree[g].ref /\ t[g].lost = tree[g].lost
           /\ t[g].parent = IF g = f THEN Nil ELSE tree[g].parent
           /\ g # f => t[g] = tree[g]
  BY <1>1, <1>2 DEF FileRec, FileOrNil
<1>4. Good(t) /\ \A g \in Files : Net(t[g]) = Net(tree[g])
  <2>1. Good(t)
    BY <1>2, <1>3 DEF Good
  <2>. QED  BY <1>3, <2>1 DEF Net
<1>5. PICK u : u = npfile_decref(t, f)
  OBVIOUS
<1>6. f # Nil /\ f \in FileOrNil /\ t[f].st # "none" /\ t[f].ref > 0 /\ p # Nil /\ p \in FileOrNil
  BY <1>2, <1>3 DEF FileOrNil, Good
<1>7. /\ Moves(t, u)
      /\ \A g \in Files :
           /\ u[g].owed = t[g].owed
           /\ g # f => u[g] = t[g]
           /\ u[g].st = "live" => t[g].st = "live" /\ u[g].ref = t[g].ref - One(f = g) /\ Net(u[g]) = Net(t[g]) - One(f = g)
           /\ t[g].st = "live" /\ u[g].st # "live" => f = g /\ t[g].ref = 1
  BY <1>4, <1>5, <1>6, DecrefIs
<1>8. Good(u) /\ u[p] = tree[p] /\ u[p].st # "none" /\ u[p].ref > 0
  BY <1>2, <1>3, <1>7 DEF Moves, Good
<1>9. tree' = npfile_decref(u, p)
  BY <1>1, <1>5 DEF RemoveTree
<1>10. /\ Moves(u, tree')
       /\ \A g \in Files :
            /\ tree'[g].owed = u[g].owed
            /\ g # p => tree'[g] = u[g]
            /\ tree'[g].st = "live" => u[g].st = "live" /\ Net(tree'[g]) = Net(u[g]) - One(p = g)
            /\ u[g].st = "live" /\ tree'[g].st # "live" => p = g /\ u[g].ref = 1
  BY <1>6, <1>8, <1>9, DecrefIs
<1>11. Moves(t, tree')
  BY <1>7, <1>10, MovesOn
<1>12. ASSUME NEW g \in Files
       PROVE  /\ tree'[g].owed = tree[g].owed
              /\ tree'[g].st = "none" => tree[g].st = "none"
              /\ g # f /\ g # p => tree'[g] = tree[g]
              /\ tree'[g].st = "live" =>
                   /\ tree[g].st = "live" /\ tree'[g].name = tree[g].name
                   /\ tree'[g].parent = IF g = f THEN Nil ELSE tree[g].parent
                   /\ Net(tree'[g]) = Net(tree[g]) - One(f = g) - One(p = g)
              /\ tree[g].st = "live" /\ tree'[g].st # "live" =>
                   tree'[g].st = "freed" /\ g \in {f, p} /\ tree[g].ref = 1
  <2>1. tree'[g].owed = tree[g].owed
    BY <1>3, <1>7, <1>10
  <2>2. g # f /\ g # p => tree'[g] = tree[g]
    BY <1>3, <1>7, <1>10
  <2>3. (Stays(t[g], tree'[g]) \/ Frees(t[g], tree'[g])) /\ (t[g].st = "none" => tree'[g] = t[g])
    BY <1>11 DEF Moves
  <2>4. tree'[g].st = "none" => tree[g].st = "none"
    BY <1>3, <2>3 DEF Stays, Frees
  <2>5. ASSUME tree'[g].st = "live"
        PROVE  /\ tree[g].st = "live" /\ tree'[g].name = tree[g].name
               /\ tree'[g].parent = IF g = f THEN Nil ELSE tree[g].parent
    BY <1>3, <2>3, <2>5 DEF Stays, Frees
  <2>6. ASSUME tree'[g].st = "live"
        PROVE  Net(tree'[g]) = Net(tree[g]) - One(f = g) - One(p = g)
    <3>1. Net(tree'[g]) = Net(u[g]) - One(p = g) /\ Net(u[g]) = Net(t[g]) - One(f = g) /\ Net(t[g]) = Net(tree[g])
      BY <1>4, <1>7, <1>10, <2>6
    <3>. QED  BY <3>1
  <2>7. ASSUME tree[g].st = "live", tree'[g].st # "live"
        PROVE  tree'[g].st = "freed" /\ g \in {f, p} /\ tree[g].ref = 1
    <3>1. tree'[g].st = "freed"
      BY <1>3, <2>3, <2>7 DEF Stays, Frees
    <3>2. CASE u[g].st = "live"
      <4>1. p = g /\ u[g].ref = 1
        BY <1>10, <2>7, <3>2
      <4>. QED  BY <1>8, <3>1, <4>1
    <3>3. CASE u[g].st # "live"
      BY <1>3, <1>7, <2>7, <3>1, <3>3
    <3>. QED  BY <3>2, <3>3
  <2>. QED  BY <2>1, <2>2, <2>4, <2>5, <2>6, <2>7
<1>13. Good(tree')
  BY <1>10 DEF Moves
<1>. QED  BY <1>12, <1>13

\* What RemoveDo does when the file is in the list of its parent.
LEMMA RemoveUnlinks ==
    ASSUME ShapeInv, ~Dangling, NEW w \in Workers, RemoveDo(w),
           tree[fw[w].file].parent # Nil, Listed(fw[w].file)
    PROVE  \E x \in FFids, f \in Files, p \in Files : Unlinks(w, x, f, p)
<1>. USE NilNoFile
<1>0. fw[w].pc = "remove" /\ UNCHANGED <<polite, crashed>>
  BY DEF RemoveDo
<1>1. PICK x \in FFids : x = fw[w].fid
  BY <1>0, HasFid
<1>2. /\ fw[w] \in WorkRec /\ WorkShape(w) /\ fw[w].file = ff[x].file
      /\ ff[x].file \in Files /\ tree[ff[x].file].st = "live"
  BY <1>0, <1>1, RunFacts
<1>3. fw[w].got = Nil
  BY <1>0, <1>2 DEF WorkShape
<1>4. PICK f \in Files : f = fw[w].file
  BY <1>2
<1>5. PICK p \in Files : f \in ToSet(kids[p])
  BY <1>4 DEF Listed
<1>6. f # Root /\ tree[f].parent = p /\ f # p /\ tree[f].st = "live"
  BY <1>5, KidLive
<1>7. tree[p].st = "live"
  BY <1>6, PointedBy, PointedLive
<1>8. TakeOut(f, p) /\ tree' = RemoveTree(f, p) /\ fw' = [fw EXCEPT ![w].pc = "clunk"]
  BY <1>4, <1>6 DEF RemoveDo
<1>9. /\ Good(tree')
      /\ \A g \in Files :
           /\ tree'[g].owed = tree[g].owed
           /\ tree'[g].st = "none" => tree[g].st = "none"
           /\ g # f /\ g # p => tree'[g] = tree[g]
           /\ tree'[g].st = "live" =>
                /\ tree[g].st = "live" /\ tree'[g].name = tree[g].name
                /\ tree'[g].parent = IF g = f THEN Nil ELSE tree[g].parent
                /\ Net(tree'[g]) = Net(tree[g]) - One(f = g) - One(p = g)
           /\ tree[g].st = "live" /\ tree'[g].st # "live" =>
                tree'[g].st = "freed" /\ g \in {f, p} /\ tree[g].ref = 1
  BY <1>6, <1>7, <1>8, RemoveTreeIs
<1>10. kids \in [Files -> Seq(Files \ {Root})] /\ Once(kids[p])
  BY DEF ShapeInv, TypeInv, ListInv
<1>11. PICK i \in DOMAIN kids[p] : i = CHOOSE j \in DOMAIN kids[p] : kids[p][j] = f
  <2>1. \E j \in DOMAIN kids[p] : kids[p][j] = f
    BY <1>5 DEF ToSet
  <2>. QED  BY <2>1
<1>12. kids[p][i] = f
  <2>1. \E j \in DOMAIN kids[p] : kids[p][j] = f
    BY <1>5 DEF ToSet
  <2>. QED  BY <1>11, <2>1
<1>13. PICK r : r = RemoveAt(kids[p], i)
  OBVIOUS
<1>14. kids' = [kids EXCEPT ![p] = r]
  BY <1>8, <1>11, <1>13 DEF TakeOut
<1>15. /\ r \in Seq(Files \ {Root}) /\ Once(r) /\ ToSet(r) = ToSet(kids[p]) \ {f}
       /\ InOrder(kids[p], r, {f})
  <2>0. PICK S : S = Files \ {Root}
    OBVIOUS
  <2>1. Takes(S, kids[p], i, r)
    BY <1>10, <1>11, <1>13, <2>0 DEF Takes
  <2>2. Taken(S, kids[p], i, r)
    BY <2>1, RemovedOne
  <2>. QED  BY <1>12, <2>0, <2>2 DEF Taken
<1>16. /\ kids' \in [Files -> Seq(Files \ {Root})] /\ (\A g \in Files : g # p => kids'[g] = kids[g])
       /\ kids'[p] = r
  BY <1>10, <1>14, <1>15
<1>17. /\ ff' \in [FFids -> FidRec]
       /\ \A y \in FFids :
            /\ ff'[y].file = ff[y].file /\ ff'[y].dirent = ff[y].dirent
            /\ ff'[y].open = ff[y].open /\ ff'[y].begun = ff[y].begun
            /\ ff'[y].due = ff[y].due \ {f} /\ (ff'[y].cut <=> ff[y].cut \/ ff[y].dirent = f)
            /\ ff[y] = NoFid => ff'[y] = NoFid
  <2>0. ff' = [y \in FFids |-> [ff[y] EXCEPT !.due = ff[y].due \ {f}, !.cut = ff[y].cut \/ ff[y].dirent = f]]
    BY <1>8 DEF TakeOut
  <2>1. ASSUME NEW y \in FFids
        PROVE  /\ ff'[y] \in FidRec
               /\ ff'[y].file = ff[y].file /\ ff'[y].dirent = ff[y].dirent
               /\ ff'[y].open = ff[y].open /\ ff'[y].begun = ff[y].begun
               /\ ff'[y].due = ff[y].due \ {f} /\ (ff'[y].cut <=> ff[y].cut \/ ff[y].dirent = f)
               /\ ff[y] = NoFid => ff'[y] = NoFid
    <3>1. ff[y] \in FidRec
      BY DEF ShapeInv, TypeInv
    <3>2. PICK k \in BOOLEAN : k = (ff[y].cut \/ ff[y].dirent = f)
      BY <3>1 DEF FidRec
    <3>3. PICK u \in SUBSET Files : u = ff[y].due \ {f}
      BY <3>1 DEF FidRec
    <3>4. ff'[y] = [ff[y] EXCEPT !.due = u, !.cut = k]
      BY <2>0, <3>2, <3>3
    <3>5. /\ ff'[y] \in FidRec /\ ff'[y].file = ff[y].file /\ ff'[y].dirent = ff[y].dirent
          /\ ff'[y].open = ff[y].open /\ ff'[y].begun = ff[y].begun /\ ff'[y].due = u /\ ff'[y].cut = k
      BY <3>1, <3>2, <3>3, <3>4 DEF FidRec
    <3>6. ASSUME ff[y] = NoFid PROVE ff'[y] = NoFid
      <4>1. u = ff[y].due /\ k = ff[y].cut
        <5>1. ff[y].due = {} /\ ff[y].dirent = Nil /\ ff[y].cut = FALSE
          BY <3>6 DEF NoFid
        <5>. QED  BY <3>2, <3>3, <5>1
      <4>2. ff'[y] = [ff[y] EXCEPT !.due = ff[y].due, !.cut = ff[y].cut]
        BY <3>4, <4>1
      <4>3. [ff[y] EXCEPT !.due = ff[y].due, !.cut = ff[y].cut] = ff[y]
        BY <3>1 DEF FidRec
      <4>. QED  BY <3>6, <4>2, <4>3
    <3>. QED  BY <3>2, <3>3, <3>5, <3>6
  <2>2. ff' \in [FFids -> FidRec]
    BY <2>0, <2>1
  <2>. QED  BY <2>1, <2>2
<1>18. /\ fw' \in [Workers -> WorkRec] /\ (\A v \in Workers : v # w => fw'[v] = fw[v])
       /\ fw'[w].pc = "clunk" /\ fw'[w].fid = fw[w].fid /\ fw'[w].file = fw[w].file /\ fw'[w].got = fw[w].got
  <2>1. fw \in [Workers -> WorkRec] /\ "clunk" \in Pcs
    BY DEF ShapeInv, TypeInv, Pcs
  <2>. QED  BY <1>2, <1>8, <2>1 DEF WorkRec
<1>19. Unlinks(w, x, f, p)
  <2>1. /\ fw'[w].fid = x /\ fw'[w].file = f /\ fw'[w].got = Nil
        /\ fw[w].fid = x /\ fw[w].file = f /\ fw[w].got = Nil /\ ff[x].file = f
    BY <1>1, <1>2, <1>3, <1>4, <1>18
  <2>2. Once(kids'[p]) /\ ToSet(kids'[p]) = ToSet(kids[p]) \ {f} /\ InOrder(kids[p], kids'[p], {f})
    BY <1>15, <1>16
  <2>. QED  BY <1>0, <1>5, <1>6, <1>7, <1>9, <1>16, <1>17, <1>18, <2>1, <2>2, Zenon DEF Unlinks
<1>. QED  BY <1>19

\* The lists afterwards, and that nothing gains a pointer.
LEMMA UnlinkPoints ==
    ASSUME ShapeInv, NEW w \in Workers, NEW x, NEW f, NEW p, Unlinks(w, x, f, p)
    PROVE  /\ \A e \in Files, g \in Files : g \in ToSet(kids'[e]) <=> g \in ToSet(kids[e]) /\ g # f
           /\ \A g \in Files : Listed(g)' <=> Listed(g) /\ g # f
           /\ \A v \in Workers : /\ fw'[v].fid = fw[v].fid /\ fw'[v].file = fw[v].file
                                 /\ fw'[v].got = fw[v].got
           /\ \A g \in Files : Pointed(g)' => Pointed(g)
<1>. USE NilNoFile
<1>0. f \in Files /\ p \in Files /\ f \in ToSet(kids[p]) /\ tree[f].st = "live" /\ tree[f].parent = p
  BY DEF Unlinks
<1>1. \A e \in Files : f \in ToSet(kids[e]) => e = p
  BY <1>0 DEF ShapeInv, ListInv
<1>2. ASSUME NEW e \in Files, NEW g \in Files
      PROVE  g \in ToSet(kids'[e]) <=> g \in ToSet(kids[e]) /\ g # f
  <2>1. CASE e = p
    BY <2>1 DEF Unlinks
  <2>2. CASE e # p
    <3>1. kids'[e] = kids[e]
      BY <2>2 DEF Unlinks
    <3>. QED  BY <1>1, <2>2, <3>1
  <2>. QED  BY <2>1, <2>2
<1>3. \A g \in Files : Listed(g)' <=> Listed(g) /\ g # f
  BY <1>2 DEF Listed
<1>4. ASSUME NEW v \in Workers
      PROVE  fw'[v].fid = fw[v].fid /\ fw'[v].file = fw[v].file /\ fw'[v].got = fw[v].got
  <2>1. CASE v = w
    BY <2>1 DEF Unlinks
  <2>2. CASE v # w
    BY <2>2 DEF Unlinks
  <2>. QED  BY <2>1, <2>2
<1>5. ASSUME NEW g \in Files, Pointed(g)' PROVE Pointed(g)
  <2>1. \A h \in Files : tree'[h].st = "live" /\ tree'[h].parent = g => tree[h].st = "live" /\ tree[h].parent = g
    <3>1. \A h \in Files : tree'[h].st = "live" =>
            tree[h].st = "live" /\ tree'[h].parent = IF h = f THEN Nil ELSE tree[h].parent
      BY DEF Unlinks
    <3>. QED  BY <3>1
  <2>2. \A y \in FFids : ff'[y].file = ff[y].file /\ ff'[y].dirent = ff[y].dirent
    BY DEF Unlinks
  <2>. QED  BY <1>3, <1>4, <1>5, <2>1, <2>2 DEF Pointed
<1>. QED  BY <1>2, <1>3, <1>4, <1>5

\* The shape holds afterwards.
LEMMA UnlinkShape ==
    ASSUME ShapeInv, ~Dangling, NEW w \in Workers, NEW x, NEW f, NEW p, Unlinks(w, x, f, p)
    PROVE  ShapeInv'
<1>. USE NilNoFile
<1>0. f \in Files /\ p \in Files /\ f # p /\ f # Root
  BY DEF Unlinks
<1>1. TypeInv'
  BY DEF ShapeInv, TypeInv, Unlinks, Good
<1>2. LiveInv'
  <2>1. ASSUME NEW g \in Files, tree'[g].st = "none"
        PROVE  tree'[g] = NoFile /\ kids'[g] = <<>> /\ ~Pointed(g)'
    <3>1. tree[g].st = "none" /\ g # f /\ g # p
      BY <2>1 DEF Unlinks
    <3>2. tree'[g] = tree[g] /\ kids'[g] = kids[g]
      BY <3>1 DEF Unlinks
    <3>3. ~Pointed(g) /\ tree[g] = NoFile /\ kids[g] = <<>>
      BY <3>1 DEF ShapeInv, LiveInv
    <3>. QED  BY <3>2, <3>3, UnlinkPoints
  <2>2. Good(tree)'
    BY DEF Good, Unlinks
  <2>3. tree'[Root].st # "none"
    BY DEF ShapeInv, LiveInv, Unlinks
  <2>. QED  BY <2>1, <2>2, <2>3 DEF LiveInv
<1>3. ListInv'
  <2>0. \A g \in Files : tree'[g].st = "live" =>
          tree[g].st = "live" /\ tree'[g].parent = IF g = f THEN Nil ELSE tree[g].parent
    BY DEF Unlinks
  <2>1. \A e \in Files : Once(kids'[e])
    BY DEF ShapeInv, ListInv, Unlinks
  <2>2. ASSUME NEW e \in Files, NEW g \in Files, g \in ToSet(kids'[e]), tree'[g].st = "live"
        PROVE  tree'[g].parent = e
    <3>1. g \in ToSet(kids[e]) /\ g # f
      BY <2>2, UnlinkPoints
    <3>. QED  BY <2>0, <2>2, <3>1 DEF ShapeInv, ListInv
  <2>3. ASSUME NEW g \in Files \ {Root}, tree'[g].st = "live", tree'[g].parent # Nil
        PROVE  g \in ToSet(kids'[tree'[g].parent])
    <3>1. g # f /\ tree[g].st = "live" /\ tree[g].parent = tree'[g].parent
      BY <2>0, <2>3
    <3>2. g \in ToSet(kids[tree[g].parent]) /\ tree[g].parent \in Files
      BY <2>3, <3>1, ParentLists DEF ShapeInv, ListInv
    <3>3. PICK e \in Files : e = tree[g].parent
      BY <3>2
    <3>4. g \in ToSet(kids'[e]) <=> g \in ToSet(kids[e]) /\ g # f
      BY UnlinkPoints
    <3>. QED  BY <3>1, <3>2, <3>3, <3>4
  <2>4. ASSUME NEW g \in Files PROVE tree'[g].parent \in {tree[g].parent, Nil}
    <3>1. CASE tree'[g].st = "live"
      BY <2>0, <3>1
    <3>2. CASE tree'[g].st = "freed"
      BY <3>2 DEF Unlinks, Good
    <3>3. CASE tree'[g].st = "none"
      <4>1. tree[g].st = "none" /\ g # f /\ g # p
        BY <3>3 DEF Unlinks
      <4>2. tree'[g] = tree[g]
        BY <4>1 DEF Unlinks
      <4>. QED  BY <4>2
    <3>4. tree'[g].st \in {"none", "live", "freed"}
      BY <1>1 DEF TypeInv, FileRec
    <3>. QED  BY <3>1, <3>2, <3>3, <3>4
  <2>5. (\A g \in Files \ {Root} : tree'[g].parent # g) /\ tree'[Root].parent \in {Root, Nil}
    BY <2>4 DEF ShapeInv, ListInv
  <2>. QED  BY <2>1, <2>2, <2>3, <2>5 DEF ListInv
<1>4. WorkInv'
  <2>0. \A y \in FFids : ff'[y].file = ff[y].file /\ ff'[y].open = ff[y].open
    BY DEF Unlinks
  <2>1. ASSUME NEW v \in Workers PROVE WorkShape(v)'
    <3>1. WorkShape(v)
      BY DEF ShapeInv, WorkInv
    <3>2. CASE v = w
      <4>1. /\ fw'[w].pc = "clunk" /\ fw'[w].fid = x /\ fw'[w].file = f /\ fw'[w].got = Nil
            /\ x \in FFids /\ ff[x].file = f
        BY DEF Unlinks
      <4>. QED  BY <1>0, <2>0, <3>2, <4>1 DEF WorkShape
    <3>3. CASE v # w
      <4>1. fw'[v] = fw[v]
        BY <3>3 DEF Unlinks
      <4>2. CASE fw[v].pc = "idle"
        BY <3>1, <4>1, <4>2 DEF WorkShape
      <4>3. CASE fw[v].pc # "idle"
        BY <2>0, <3>1, <4>1, <4>3 DEF WorkShape
      <4>. QED  BY <4>2, <4>3
    <3>. QED  BY <3>2, <3>3
  <2>2. \A v \in Workers : fw'[v].fid = fw[v].fid
    BY UnlinkPoints
  <2>. QED  BY <2>1, <2>2 DEF WorkInv, ShapeInv
<1>5. FidInv'
  <2>1. ASSUME NEW y \in FFids PROVE FidShape(y)'
    <3>1. FidShape(y)
      BY DEF ShapeInv, FidInv
    <3>2. /\ ff'[y].file = ff[y].file /\ ff'[y].dirent = ff[y].dirent
          /\ ff'[y].open = ff[y].open /\ ff'[y].begun = ff[y].begun
          /\ ff[y] = NoFid => ff'[y] = NoFid
      BY DEF Unlinks
    <3>. QED  BY <3>1, <3>2 DEF FidShape
  <2>. QED  BY <2>1 DEF FidInv
<1>6. ReadInv'
  <2>1. ASSUME NEW y \in FFids PROVE ReadShape(y)'
    <3>1. ReadShape(y) /\ ff[y] \in FidRec /\ FidShape(y)
      BY DEF ShapeInv, ReadInv, TypeInv, FidInv
    <3>2. /\ ff'[y].file = ff[y].file /\ ff'[y].dirent = ff[y].dirent /\ ff'[y].begun = ff[y].begun
          /\ ff'[y].due = ff[y].due \ {f} /\ (ff'[y].cut <=> ff[y].cut \/ ff[y].dirent = f)
      BY DEF Unlinks
    <3>3. CASE ff[y].file \in Files /\ ff[y].file # p
      <4>1. kids'[ff[y].file] = kids[ff[y].file]
        BY <3>3 DEF Unlinks
      <4>. QED  BY <3>1, <3>2, <4>1 DEF ReadShape
    <3>4. CASE ff[y].file = p
      <4>1. ToSet(kids'[p]) = ToSet(kids[p]) \ {f} /\ InOrder(kids[p], kids'[p], {f})
        BY DEF Unlinks
      <4>2. \A e, g : Ahead(kids[p], e, g) /\ e # f /\ g # f => Ahead(kids'[p], e, g)
        BY <4>1 DEF InOrder
      <4>. QED  BY <3>1, <3>2, <3>4, <4>1, <4>2 DEF ReadShape
    <3>5. CASE ff[y].file = Nil
      <4>1. ~ff[y].begun
        BY <3>1, <3>5 DEF FidShape, NoFid
      <4>. QED  BY <3>2, <4>1 DEF ReadShape
    <3>. QED  BY <3>1, <3>3, <3>4, <3>5 DEF FidRec, FileOrNil
  <2>. QED  BY <2>1 DEF ReadInv
<1>. QED  BY <1>1, <1>2, <1>3, <1>4, <1>5, <1>6 DEF ShapeInv

\* Who has the files as parents, afterwards.
LEMMA UnlinkChildren ==
    ASSUME ShapeInv, ~Dangling', NEW w \in Workers, NEW x, NEW f, NEW p, Unlinks(w, x, f, p), NEW g \in Files
    PROVE  Children(g)' = Children(g) \ {f}
<1>. USE NilNoFile
<1>0. /\ f \in Files /\ p \in Files /\ f # p /\ f # Root
      /\ \A h \in Files :
           /\ h # f /\ h # p => tree'[h] = tree[h]
           /\ tree'[h].st = "live" =>
                tree[h].st = "live" /\ tree'[h].parent = IF h = f THEN Nil ELSE tree[h].parent
           /\ tree[h].st = "live" /\ tree'[h].st # "live" => tree'[h].st = "freed"
  BY DEF Unlinks
<1>1. ASSUME NEW h \in Files \ {Root}, tree'[h].st = "live", tree'[h].parent = g
      PROVE  h # f /\ tree[h].st = "live" /\ tree[h].parent = g
  BY <1>0, <1>1
<1>2. ASSUME NEW h \in Files \ {Root}, h # f, tree[h].st = "live", tree[h].parent = g
      PROVE  tree'[h].st = "live" /\ tree'[h].parent = g
  <2>1. Listed(h)
    BY <1>2, ParentLists
  <2>2. Listed(h)'
    BY <1>2, <2>1, UnlinkPoints
  <2>3. tree'[h].st # "freed"
    BY <2>2 DEF Dangling, Pointed
  <2>. QED  BY <1>0, <1>2, <2>3
<1>. QED  BY <1>1, <1>2 DEF Children

\* The counts are exact afterwards, unless a file was freed too early.
LEMMA UnlinkCounts ==
    ASSUME ShapeInv, RefExact, ~Dangling, ~Dangling', NEW w \in Workers, NEW x, NEW f, NEW p, Unlinks(w, x, f, p)
    PROVE  RefExact'
<1>. USE NilNoFile
<1>0. /\ f \in Files /\ p \in Files /\ f # p /\ f # Root /\ Good(tree')
      /\ f \in ToSet(kids[p]) /\ tree[f].st = "live" /\ tree[f].parent = p
  BY DEF Unlinks
<1>1. SUFFICES ASSUME NEW g \in Files, tree'[g].st = "live"
               PROVE  tree'[g].ref = Refs(g)' + tree'[g].lost - tree'[g].owed
  BY DEF RefExact
<1>2. Refs(g)' = Refs(g) - One(f = g) - One(p = g) /\ Refs(g) \in Nat
  <2>1. /\ Cardinality(Children(g)) \in Nat /\ Cardinality(OnFile(g)) \in Nat
        /\ Cardinality(OnEntry(g)) \in Nat /\ Cardinality(OnGot(g)) \in Nat
        /\ Refs(g) \in Nat
        /\ Refs(g) = One(g = Root \/ Listed(g)) + Cardinality(Children(g)) + Cardinality(OnFile(g))
                     + Cardinality(OnEntry(g)) + Cardinality(OnGot(g))
    BY RefsTyped
  <2>2. Refs(g)' = One(g = Root \/ Listed(g))' + Cardinality(Children(g)') + Cardinality(OnFile(g)')
                   + Cardinality(OnEntry(g)') + Cardinality(OnGot(g)')
    BY RefsAfter
  <2>3. One(g = Root \/ Listed(g))' = One(g = Root \/ Listed(g)) - One(f = g)
    <3>1. Listed(g)' <=> Listed(g) /\ g # f
      BY UnlinkPoints
    <3>2. Listed(f)
      BY <1>0 DEF Listed
    <3>. QED  BY <1>0, <3>1, <3>2 DEF One
  <2>4. OnFile(g)' = OnFile(g) /\ OnEntry(g)' = OnEntry(g)
    <3>1. \A y \in FFids : ff'[y].file = ff[y].file /\ ff'[y].dirent = ff[y].dirent
      BY DEF Unlinks
    <3>. QED  BY <3>1 DEF OnFile, OnEntry
  <2>5. OnGot(g)' = OnGot(g)
    <3>1. \A v \in Workers : fw'[v].got = fw[v].got
      BY UnlinkPoints
    <3>. QED  BY <3>1 DEF OnGot
  <2>6. Cardinality(Children(g)') = Cardinality(Children(g)) - One(p = g)
    <3>. DEFINE A == Children(g)
                B == Children(g)'
    <3>1. B = A \ {f}
      BY UnlinkChildren
    <3>2. A \in SUBSET (Files \ {Root}) /\ (f \in A <=> p = g)
      BY <1>0 DEF Children
    <3>. HIDE DEF A, B
    <3>3. A \in SUBSET (Files \ {Root}) /\ B \in SUBSET (Files \ {Root}) /\ A \ {f} = B \ {f} /\ f \notin B
      BY <3>1, <3>2
    <3>4. Cardinality(A) \in Nat /\ Cardinality(B) = Cardinality(A) + One(f \in B) - One(f \in A)
      <4>1. A \ {f} = B \ {f} /\ A \in SUBSET (Files \ {Root}) /\ B \in SUBSET (Files \ {Root})
        BY <3>3
      <4>. QED  BY <4>1, FilesFinite, CardMove, ZenonT(40)
    <3>5. One(f \in B) = 0 /\ One(f \in A) = One(p = g) /\ One(p = g) \in Nat
      BY <3>2, <3>3 DEF One
    <3>6. Cardinality(B) = Cardinality(A) - One(p = g)
      BY <3>4, <3>5
    <3>. QED  BY <3>6 DEF A, B
  <2>7. One(g = Root \/ Listed(g)) \in Nat /\ One(f = g) \in Nat /\ One(p = g) \in Nat
    BY DEF One
  <2>. QED  BY <2>1, <2>2, <2>3, <2>4, <2>5, <2>6, <2>7
<1>3. tree[g].st = "live" /\ Net(tree'[g]) = Net(tree[g]) - One(f = g) - One(p = g)
  BY <1>1 DEF Unlinks
<1>4. tree[g].ref = Refs(g) + tree[g].lost - tree[g].owed
  BY <1>3 DEF RefExact
<1>5. /\ tree[g].ref \in Nat /\ tree[g].lost \in Nat /\ tree[g].owed \in Nat
      /\ tree'[g].ref \in Nat /\ tree'[g].lost \in Nat /\ tree'[g].owed \in Nat
  <2>1. tree[g] \in FileRec /\ tree'[g] \in FileRec
    BY <1>0 DEF ShapeInv, TypeInv, Good
  <2>. QED  BY <2>1 DEF FileRec
<1>6. One(f = g) \in Nat /\ One(p = g) \in Nat
  BY DEF One
<1>. QED  BY <1>2, <1>3, <1>4, <1>5, <1>6 DEF Net

\* With polite clients the file itself is not freed, and its directory only
\* when nothing else points to it.
LEMMA UnlinkSafe ==
    ASSUME ShapeInv, RefExact, PoliteInv, polite, NEW w \in Workers, NEW x, NEW f, NEW p, Unlinks(w, x, f, p)
    PROVE  ~Dangling' /\ tree'[Root].st = "live"
<1>. USE NilNoFile
<1>0. /\ f \in Files /\ p \in Files /\ f # p /\ f # Root /\ x \in FFids /\ ff[x].file = f
      /\ f \in ToSet(kids[p]) /\ tree[f].st = "live" /\ tree[f].parent = p /\ tree[p].st = "live"
  BY DEF Unlinks
<1>1. ~Dangling /\ tree[Root].st = "live" /\ \A g \in Files : tree[g].owed = 0
  BY DEF PoliteInv
<1>2. ASSUME NEW g \in Files, tree[g].st = "live"
      PROVE  Refs(g) \in Nat /\ tree[g].ref \in Nat /\ Refs(g) <= tree[g].ref
  <2>1. tree[g].ref = Refs(g) + tree[g].lost - tree[g].owed /\ tree[g].owed = 0
    BY <1>1, <1>2 DEF RefExact
  <2>2. tree[g].ref \in Nat /\ tree[g].lost \in Nat
    BY DEF ShapeInv, TypeInv, FileRec
  <2>3. Refs(g) \in Nat
    BY RefsTyped
  <2>. QED  BY <2>1, <2>2, <2>3
<1>3. tree[f].ref # 1
  <2>1. x \in OnFile(f) /\ OnFile(f) \in SUBSET FFids
    BY <1>0 DEF OnFile
  <2>2. Cardinality(OnFile(f)) # 0
    BY <2>1, NpFileAssumption, CardZero
  <2>3. One(f = Root \/ Listed(f)) = 1
    BY <1>0 DEF One, Listed
  <2>4. /\ Cardinality(Children(f)) \in Nat /\ Cardinality(OnFile(f)) \in Nat
        /\ Cardinality(OnEntry(f)) \in Nat /\ Cardinality(OnGot(f)) \in Nat
        /\ Refs(f) = One(f = Root \/ Listed(f)) + Cardinality(Children(f)) + Cardinality(OnFile(f))
                     + Cardinality(OnEntry(f)) + Cardinality(OnGot(f))
    BY RefsTyped
  <2>5. Refs(f) > 1
    BY <2>2, <2>3, <2>4
  <2>6. Refs(f) \in Nat /\ tree[f].ref \in Nat /\ Refs(f) <= tree[f].ref
    BY <1>0, <1>2
  <2>. QED  BY <2>5, <2>6
<1>4. ASSUME tree[p].ref = 1
      PROVE  /\ p # Root /\ ~Listed(p) /\ Children(p) = {f}
             /\ OnFile(p) = {} /\ OnEntry(p) = {} /\ OnGot(p) = {}
  <2>1. /\ Cardinality(Children(p)) \in Nat /\ Cardinality(OnFile(p)) \in Nat
        /\ Cardinality(OnEntry(p)) \in Nat /\ Cardinality(OnGot(p)) \in Nat
        /\ Refs(p) = One(p = Root \/ Listed(p)) + Cardinality(Children(p)) + Cardinality(OnFile(p))
                     + Cardinality(OnEntry(p)) + Cardinality(OnGot(p))
    BY RefsTyped
  <2>2. /\ Children(p) \in SUBSET (Files \ {Root}) /\ OnFile(p) \in SUBSET FFids
        /\ OnEntry(p) \in SUBSET FFids /\ OnGot(p) \in SUBSET Workers /\ f \in Children(p)
    BY <1>0 DEF Children, OnFile, OnEntry, OnGot
  <2>3. Children(p) \ {f} \in SUBSET (Files \ {Root}) /\ Cardinality(Children(p) \ {f}) \in Nat
        /\ Cardinality(Children(p) \ {f}) = Cardinality(Children(p)) - 1
    <3>. DEFINE A == Children(p)
                B == A \ {f}
    <3>1. A \in SUBSET (Files \ {Root}) /\ B \in SUBSET (Files \ {Root}) /\ A \ {f} = B \ {f}
      BY <2>2
    <3>2. f \in A /\ f \notin B
      BY <2>2
    <3>. HIDE DEF A, B
    <3>3. Cardinality(A) \in Nat /\ Cardinality(B) \in Nat
          /\ Cardinality(B) = Cardinality(A) + One(f \in B) - One(f \in A)
      BY <3>1, FilesFinite, CardMove, ZenonT(40)
    <3>4. Cardinality(B) = Cardinality(A) - 1
      BY <3>2, <3>3 DEF One
    <3>. QED  BY <3>1, <3>3, <3>4 DEF A, B
  <2>4. One(p = Root \/ Listed(p)) \in Nat /\ Refs(p) <= 1
    BY <1>0, <1>2, <1>4 DEF One
  <2>5. /\ One(p = Root \/ Listed(p)) = 0 /\ Cardinality(Children(p) \ {f}) = 0 /\ Cardinality(OnFile(p)) = 0
        /\ Cardinality(OnEntry(p)) = 0 /\ Cardinality(OnGot(p)) = 0
    BY <2>1, <2>3, <2>4
  <2>6. p # Root /\ ~Listed(p)
    BY <2>5 DEF One
  <2>7. OnFile(p) = {} /\ OnEntry(p) = {} /\ OnGot(p) = {}
    BY <2>2, <2>5, NpFileAssumption, CardZero
  <2>8. Children(p) \ {f} = {}
    BY <2>3, <2>5, FilesFinite, CardZero
  <2>. QED  BY <2>2, <2>6, <2>7, <2>8
<1>5. \A g \in Files : tree[g].st = "live" /\ tree'[g].st # "live" => g = p /\ tree[p].ref = 1
  <2>1. \A g \in Files : tree[g].st = "live" /\ tree'[g].st # "live" => g \in {f, p} /\ tree[g].ref = 1
    BY DEF Unlinks
  <2>. QED  BY <1>3, <2>1
<1>6. tree'[Root].st = "live"
  BY <1>1, <1>4, <1>5
<1>7. ASSUME NEW g \in Files, tree'[g].st = "freed", Pointed(g)' PROVE FALSE
  <2>1. Pointed(g)
    BY <1>7, UnlinkPoints
  <2>2. tree[g].st = "live"
    BY <1>1, <2>1, PointedLive
  <2>3. g = p /\ tree[p].ref = 1
    BY <1>5, <1>7, <2>2
  <2>4. /\ p # Root /\ ~Listed(p) /\ Children(p) = {f}
        /\ OnFile(p) = {} /\ OnEntry(p) = {} /\ OnGot(p) = {}
    BY <1>4, <2>3
  <2>5. ~Listed(p)'
    BY <1>0, <2>4, UnlinkPoints
  <2>6. ASSUME NEW h \in Files \ {Root}, tree'[h].st = "live", tree'[h].parent = p PROVE FALSE
    <3>1. tree[h].st = "live" /\ tree'[h].parent = IF h = f THEN Nil ELSE tree[h].parent
      BY <2>6 DEF Unlinks
    <3>2. h # f /\ h \in Children(p)
      BY <1>0, <2>6, <3>1 DEF Children
    <3>. QED  BY <2>4, <3>2
  <2>7. \A y \in FFids : ff'[y].file = ff[y].file /\ ff'[y].dirent = ff[y].dirent
    BY DEF Unlinks
  <2>8. \A y \in FFids : p \notin {ff'[y].file, ff'[y].dirent} /\ p # ff[y].file
    BY <2>4, <2>7 DEF OnFile, OnEntry
  <2>9. ASSUME NEW v \in Workers PROVE p \notin {fw'[v].file, fw'[v].got}
    <3>1. fw'[v].file = fw[v].file /\ fw'[v].got = fw[v].got
      BY UnlinkPoints
    <3>2. fw[v].got # p
      BY <2>4 DEF OnGot
    <3>3. WorkShape(v)
      BY DEF ShapeInv, WorkInv
    <3>4. fw[v].pc = "idle" => fw[v].file = Nil
      BY <3>3 DEF WorkShape, Idle
    <3>5. fw[v].pc # "idle" => fw[v].fid \in FFids /\ fw[v].file = ff[fw[v].fid].file
      BY <3>3 DEF WorkShape
    <3>. QED  BY <1>0, <2>8, <3>1, <3>2, <3>4, <3>5
  <2>10. ~Pointed(p)'
    BY <2>5, <2>6, <2>8, <2>9 DEF Pointed
  <2>. QED  BY <1>7, <2>3, <2>10
<1>. QED  BY <1>6, <1>7 DEF Dangling

\* What holds with polite clients does so afterwards.
LEMMA UnlinkPolite ==
    ASSUME ShapeInv, RefExact, PoliteInv, NEW w \in Workers, NEW x, NEW f, NEW p, Unlinks(w, x, f, p)
    PROVE  PoliteInv'
<1>. USE NilNoFile
<1>0. /\ f \in Files /\ p \in Files /\ f # p /\ f # Root /\ x \in FFids /\ polite' = polite /\ crashed' = crashed
      /\ fw[w].pc = "remove" /\ fw[w].fid = x /\ fw[w].file = f /\ fw[w].got = Nil /\ ff[x].file = f
      /\ fw'[w].pc = "clunk" /\ fw'[w].fid = x /\ f \in ToSet(kids[p])
  BY DEF Unlinks
<1>. SUFFICES ASSUME polite PROVE PoliteInv'
  BY <1>0 DEF PoliteInv
<1>1. ~Dangling' /\ tree'[Root].st = "live"
  BY UnlinkSafe
<1>2. ~crashed' /\ \A g \in Files : tree'[g].owed = 0
  <2>1. \A g \in Files : tree'[g].owed = tree[g].owed
    BY DEF Unlinks
  <2>2. ~crashed /\ \A g \in Files : tree[g].owed = 0
    BY DEF PoliteInv
  <2>. QED  BY <1>0, <2>1, <2>2
<1>3. \A g \in Files : Listed(g)' <=> Listed(g) /\ g # f
  <2>1. ASSUME NEW e \in Files, NEW g \in Files PROVE g \in ToSet(kids'[e]) <=> g \in ToSet(kids[e]) /\ g # f
    BY UnlinkPoints
  <2>. QED  BY <2>1 DEF Listed
<1>4. /\ \A v \in Workers : fw'[v].fid = fw[v].fid /\ fw'[v].file = fw[v].file /\ fw'[v].got = fw[v].got
      /\ \A v \in Workers : v # w => fw'[v] = fw[v]
      /\ \A y \in FFids : ff'[y].file = ff[y].file
  <2>1. \A v \in Workers : fw'[v].fid = fw[v].fid /\ fw'[v].file = fw[v].file /\ fw'[v].got = fw[v].got
    BY UnlinkPoints
  <2>2. /\ \A v \in Workers : v # w => fw'[v] = fw[v]
        /\ \A y \in FFids : ff'[y].file = ff[y].file
    BY DEF Unlinks
  <2>. QED  BY <2>1, <2>2
<1>5. kids[f] = <<>> /\ ~Others(x, f)
  BY <1>0 DEF PoliteInv, RemoveShape
<1>6. OnInv'
  <2>1. ASSUME NEW y \in FFids PROVE OnShape(y)'
    <3>1. OnShape(y) /\ ff[y].file \in FileOrNil
      BY DEF PoliteInv, OnInv, ShapeInv, TypeInv, FidRec
    <3>2. PICK q \in FileOrNil : q = ff[y].file
      BY <3>1
    <3>3. ff'[y].file = q
      BY <1>4, <3>2
    <3>4. CASE q = f
      <4>1. y = x
        BY <1>5, <3>2, <3>4 DEF Others
      <4>. QED  BY <1>0, <4>1 DEF OnShape
    <3>5. CASE q # f
      <4>1. Listed(q) /\ q \in Files => Listed(q)'
        BY <1>3, <3>5
      <4>2. \A v \in Workers : fw[v].pc = "clunk" => fw'[v] = fw[v]
        BY <1>0, <1>4
      <4>3. q \notin {Nil, Root} => Listed(q)' \/ \E v \in Workers : fw'[v].fid = y /\ fw'[v].pc = "clunk"
        BY <3>1, <3>2, <4>1, <4>2 DEF OnShape, FileOrNil
      <4>. QED  BY <3>3, <4>3 DEF OnShape, Listed
    <3>. QED  BY <3>4, <3>5
  <2>2. ASSUME NEW v \in Workers PROVE GotShape(v)'
    <3>1. GotShape(v) /\ fw[v].got \in FileOrNil
      BY DEF PoliteInv, OnInv, ShapeInv, TypeInv, WorkRec
    <3>2. PICK q \in FileOrNil : q = fw[v].got
      BY <3>1
    <3>3. fw'[v].got = q
      BY <1>4, <3>2
    <3>4. q # f
      <4>1. CASE v = w
        BY <1>0, <3>2, <4>1
      <4>2. CASE v # w
        <5>1. fw[v].fid # x
          BY <1>0, <4>2, NilNoFid DEF ShapeInv, WorkInv
        <5>. QED  BY <1>5, <3>2, <5>1 DEF Others
      <4>. QED  BY <4>1, <4>2
    <3>5. q \notin {Nil, Root} => Listed(q)'
      BY <1>3, <3>1, <3>2, <3>4 DEF GotShape, FileOrNil
    <3>. QED  BY <3>3, <3>5 DEF GotShape, Listed
  <2>. QED  BY <2>1, <2>2 DEF OnInv
<1>7. ASSUME NEW e \in Files, NEW g \in ToSet(kids'[e])
      PROVE  g \in Files /\ g \in ToSet(kids[e]) /\ tree'[g].name = tree[g].name
  <2>1. g \in Files
    BY QueueOf DEF Unlinks
  <2>2. g \in ToSet(kids[e])
    BY <2>1, <1>7, UnlinkPoints
  <2>3. Pointed(g)' /\ Pointed(g)
    BY <1>7, <2>1, <2>2 DEF Pointed, Listed
  <2>4. tree'[g].st # "freed"
    BY <1>1, <2>1, <2>3 DEF Dangling
  <2>5. tree[g].st = "live"
    BY <2>1, <2>3, PointedLive DEF PoliteInv
  <2>6. tree'[g].st = "live"
    BY <2>1, <2>4, <2>5 DEF Unlinks
  <2>. QED  BY <2>1, <2>2, <2>6 DEF Unlinks
<1>8. NamesInv'
  <2>1. ASSUME NEW e \in Files, NEW g \in ToSet(kids'[e]), NEW h \in ToSet(kids'[e]), tree'[g].name = tree'[h].name
        PROVE  g = h
    BY <1>7, <2>1 DEF PoliteInv, NamesInv
  <2>2. ASSUME NEW e \in Files, e # Root, ~Listed(e)' PROVE kids'[e] = <<>>
    <3>1. e # p
      <4>1. p # Root /\ ~Listed(p) => kids[p] = <<>>
        BY <1>0 DEF PoliteInv, NamesInv
      <4>2. kids[p] # <<>>
        BY <1>0 DEF ToSet
      <4>. QED  BY <1>0, <1>3, <2>2, <4>1, <4>2
    <3>2. kids'[e] = kids[e]
      BY <3>1 DEF Unlinks
    <3>3. kids[e] = <<>>
      BY <1>3, <1>5, <2>2 DEF PoliteInv, NamesInv
    <3>. QED  BY <3>2, <3>3
  <2>. QED  BY <2>1, <2>2 DEF NamesInv
<1>9. ASSUME NEW v \in Workers PROVE RemoveShape(v)'
  <2>1. CASE v = w
    BY <1>0, <2>1 DEF RemoveShape
  <2>2. CASE v # w /\ fw[v].pc = "remove"
    <3>1. fw'[v] = fw[v] /\ fw[v].file \in Files
      BY <1>4, <2>2 DEF ShapeInv, WorkInv, WorkShape
    <3>2. fw[v].file # Root /\ kids[fw[v].file] = <<>> /\ ~Others(fw[v].fid, fw[v].file)
      BY <2>2 DEF PoliteInv, RemoveShape
    <3>3. fw[v].file # p
      BY <1>0, <3>2 DEF ToSet
    <3>4. kids'[fw[v].file] = kids[fw[v].file]
      BY <3>1, <3>3 DEF Unlinks
    <3>5. ~Others(fw[v].fid, fw[v].file)'
      BY <1>4, <3>1, <3>2 DEF Others
    <3>. QED  BY <3>1, <3>2, <3>4, <3>5 DEF RemoveShape
  <2>3. CASE v # w /\ fw[v].pc # "remove"
    BY <1>4, <2>3 DEF RemoveShape
  <2>. QED  BY <2>1, <2>2, <2>3
<1>10. ASSUME NEW v \in Workers PROVE CreateShape(v)'
  <2>1. CASE v = w
    BY <1>0, <2>1 DEF CreateShape
  <2>2. CASE v # w /\ fw[v].pc = "create"
    <3>1. fw'[v] = fw[v] /\ fw[v].file \in Files
      BY <1>4, <2>2 DEF ShapeInv, WorkInv, WorkShape
    <3>2. /\ Named(fw[v].file, fw[v].name) = {}
          /\ \A u \in Workers \ {v} :
               fw[u].pc = "create" /\ fw[u].file = fw[v].file => fw[u].name # fw[v].name
      BY <2>2 DEF PoliteInv, CreateShape
    <3>3. ASSUME NEW g \in ToSet(kids'[fw[v].file]) PROVE tree'[g].name # fw[v].name
      <4>1. \A q \in ToSet(kids[fw[v].file]) : tree[q].name # fw[v].name
        BY <3>2 DEF Named
      <4>2. g \in ToSet(kids[fw[v].file]) /\ tree'[g].name = tree[g].name
        BY <1>7, <3>1
      <4>. QED  BY <4>1, <4>2
    <3>4. Named(fw[v].file, fw[v].name)' = {}
      BY <3>1, <3>3 DEF Named
    <3>5. \A u \in Workers \ {v} :
            fw'[u].pc = "create" /\ fw'[u].file = fw'[v].file => fw'[u].name # fw'[v].name
      <4>1. \A u \in Workers : fw'[u].pc = "create" => fw'[u] = fw[u]
        BY <1>0, <1>4
      <4>. QED  BY <3>1, <3>2, <4>1
    <3>. QED  BY <3>4, <3>5 DEF CreateShape
  <2>3. CASE v # w /\ fw[v].pc # "create"
    BY <1>4, <2>3 DEF CreateShape
  <2>. QED  BY <2>1, <2>2, <2>3
<1>. QED  BY <1>1, <1>2, <1>6, <1>8, <1>9, <1>10 DEF PoliteInv

\* RemoveDo.
LEMMA RemoveDoKeeps ==
    ASSUME TreeInv, ~Dangling, NEW w \in Workers, RemoveDo(w)
    PROVE  TreeInv'
<1>. USE NilNoFile
<1>0. ShapeInv /\ RefExact /\ PoliteInv /\ fw[w].pc = "remove" /\ polite' = polite
  BY DEF TreeInv, RemoveDo
<1>1. CASE tree[fw[w].file].parent = Nil \/ ~Listed(fw[w].file)
  <2>1. ~polite
    <3>1. SUFFICES ASSUME polite PROVE FALSE
      OBVIOUS
    <3>2. PICK x \in FFids : x = fw[w].fid
      BY <1>0, HasFid
    <3>3. Mine(x, w) /\ fw[w].file = ff[x].file /\ ff[x].file \in Files
      BY <1>0, <3>2, RunFacts
    <3>4. fw[w].file # Root
      BY <1>0, <3>1 DEF PoliteInv, RemoveShape
    <3>5. Listed(fw[w].file)
      BY <1>0, <3>1, <3>3, <3>4, OnListed
    <3>6. PICK d \in Files : fw[w].file \in ToSet(kids[d])
      BY <3>5 DEF Listed
    <3>7. tree[fw[w].file].parent = d
      BY <1>0, <3>6, KidLive
    <3>. QED  BY <1>1, <3>5, <3>7
  <2>. QED  BY <1>0, <1>1, <2>1, CrashKeeps DEF RemoveDo
<1>2. CASE tree[fw[w].file].parent # Nil /\ Listed(fw[w].file)
  <2>1. PICK x \in FFids, f \in Files, p \in Files : Unlinks(w, x, f, p)
    BY <1>0, <1>2, RemoveUnlinks
  <2>2. ShapeInv' /\ PoliteInv'
    BY <1>0, <2>1, UnlinkShape, UnlinkPolite
  <2>3. RefExact'
    <3>1. CASE Dangling'
      BY <3>1 DEF RefExact
    <3>2. CASE ~Dangling'
      BY <1>0, <2>1, <3>2, UnlinkCounts
    <3>. QED  BY <3>1, <3>2
  <2>. QED  BY <2>2, <2>3 DEF TreeInv
<1>. QED  BY <1>1, <1>2
----------------------------------------------------------------------------
(* The theorems *)

\* main makes the root, and nothing else is there.
LEMMA InitTree == NpFileInit => TreeInv
<1>. SUFFICES ASSUME NpFileInit PROVE TreeInv
  OBVIOUS
<1>. USE NilNoFile
<1>. DEFINE top == [NoFile EXCEPT !.st = "live", !.ref = 1, !.parent = Root, !.dir = TRUE]
<1>1. /\ top \in FileRec /\ top.st = "live" /\ top.ref = 1 /\ top.lost = 0 /\ top.owed = 0 /\ top.parent = Root
      /\ NoFile \in FileRec /\ NoFile.st = "none" /\ NoFile.parent = Nil /\ NoFile.owed = 0 /\ NoFile.lost = 0
  BY DEF NoFile, FileRec, FileOrNil, NameOrNil
<1>. HIDE DEF top
<1>2. /\ tree \in [Files -> FileRec] /\ tree[Root] = top
      /\ \A f \in Files : f # Root => tree[f] = NoFile
  BY <1>1 DEF NpFileInit, top
<1>3. /\ polite \in BOOLEAN /\ crashed = FALSE
      /\ kids = [f \in Files |-> <<>>] /\ \A f \in Files : kids[f] = <<>> /\ ToSet(kids[f]) = {}
      /\ ff = [x \in FFids |-> NoFid] /\ fw = [w \in Workers |-> Idle]
  BY DEF NpFileInit, ToSet
<1>4. /\ NoFid \in FidRec /\ NoFid.file = Nil /\ ~NoFid.open /\ NoFid.dirent = Nil /\ ~NoFid.begun
      /\ Idle \in WorkRec /\ Idle.pc = "idle" /\ Idle.fid = Nil /\ Idle.file = Nil /\ Idle.got = Nil
  BY DEF NoFid, FidRec, Idle, WorkRec, Pcs, FileOrNil, NameOrNil
<1>5. TypeInv
  <2>1. kids \in [Files -> Seq(Files \ {Root})]
    BY <1>3
  <2>2. ff \in [FFids -> FidRec] /\ fw \in [Workers -> WorkRec]
    BY <1>3, <1>4
  <2>. QED  BY <1>2, <1>3, <2>1, <2>2 DEF TypeInv
<1>6. \A f \in Files : ~Listed(f)
  BY <1>3 DEF Listed
<1>7. \A f \in Files : ~Pointed(f)
  <2>1. \A g \in Files \ {Root} : tree[g].st # "live"
    BY <1>1, <1>2
  <2>2. \A x \in FFids : ff[x].file = Nil /\ ff[x].dirent = Nil
    BY <1>3, <1>4
  <2>3. \A w \in Workers : fw[w].file = Nil /\ fw[w].got = Nil
    BY <1>3, <1>4
  <2>. QED  BY <1>6, <2>1, <2>2, <2>3 DEF Pointed
<1>8. LiveInv
  <2>1. Good(tree)
    BY <1>1, <1>2 DEF Good
  <2>. QED  BY <1>1, <1>2, <1>3, <1>7, <2>1 DEF LiveInv
<1>9. ListInv
  <2>1. \A d \in Files : Once(kids[d])
    BY <1>3 DEF Once
  <2>. QED  BY <1>1, <1>2, <1>3, <2>1 DEF ListInv
<1>10. WorkInv
  BY <1>3, <1>4 DEF WorkInv, WorkShape
<1>11. FidInv
  BY <1>3, <1>4 DEF FidInv, FidShape
<1>12. ReadInv
  BY <1>3, <1>4 DEF ReadInv, ReadShape
<1>13. ShapeInv
  BY <1>5, <1>8, <1>9, <1>10, <1>11, <1>12 DEF ShapeInv
<1>14. RefExact
  <2>1. SUFFICES ASSUME NEW f \in Files, tree[f].st = "live"
                 PROVE  tree[f].ref = Refs(f) + tree[f].lost - tree[f].owed
    BY DEF RefExact
  <2>2. f = Root
    BY <1>1, <1>2, <2>1
  <2>3. /\ Children(f) = {} /\ OnFile(f) = {} /\ OnEntry(f) = {} /\ OnGot(f) = {}
    <3>1. \A g \in Files \ {Root} : tree[g].st # "live"
      BY <1>1, <1>2
    <3>2. \A x \in FFids : ff[x].file = Nil /\ ff[x].dirent = Nil
      BY <1>3, <1>4
    <3>3. \A w \in Workers : fw[w].file = Nil /\ fw[w].got = Nil
      BY <1>3, <1>4
    <3>. QED  BY <3>1, <3>2, <3>3 DEF Children, OnFile, OnEntry, OnGot
  <2>4. Cardinality({}) = 0
    BY FS_EmptySet
  <2>5. One(f = Root \/ Listed(f)) = 1
    BY <2>2 DEF One
  <2>6. Refs(f) = One(f = Root \/ Listed(f)) + Cardinality(Children(f)) + Cardinality(OnFile(f))
                  + Cardinality(OnEntry(f)) + Cardinality(OnGot(f))
    BY <2>1, RefsTyped
  <2>7. Refs(f) = 1
    BY <2>3, <2>4, <2>5, <2>6
  <2>. QED  BY <1>1, <1>2, <2>2, <2>7
<1>15. PoliteInv
  <2>1. ~Dangling
    BY <1>7 DEF Dangling
  <2>2. \A f \in Files : tree[f].owed = 0
    BY <1>1, <1>2
  <2>3. OnInv
    BY <1>3, <1>4 DEF OnInv, OnShape, GotShape
  <2>4. NamesInv
    BY <1>3 DEF NamesInv
  <2>5. \A w \in Workers : RemoveShape(w) /\ CreateShape(w)
    BY <1>3, <1>4 DEF RemoveShape, CreateShape
  <2>6. ~crashed /\ tree[Root].st = "live"
    BY <1>1, <1>2, <1>3
  <2>. QED  BY <2>1, <2>2, <2>3, <2>4, <2>5, <2>6 DEF PoliteInv
<1>. QED  BY <1>13, <1>14, <1>15 DEF TreeInv

\* Every action keeps the invariant.
LEMMA NextTree == TreeInv /\ [NpFileNext]_vars => TreeInv'
<1>. SUFFICES ASSUME TreeInv, [NpFileNext]_vars PROVE TreeInv'
  OBVIOUS
<1>1. CASE UNCHANGED vars
  <2>1. ShapeInv'
    <3>1. TypeInv' /\ ListInv'
      BY <1>1 DEF vars, TreeInv, ShapeInv, TypeInv, ListInv
    <3>2. \A f \in Files : Pointed(f)' <=> Pointed(f)
      BY <1>1 DEF vars, Pointed, Listed
    <3>3. LiveInv'
      BY <1>1, <3>2 DEF vars, TreeInv, ShapeInv, LiveInv, Good
    <3>4. WorkInv' /\ FidInv' /\ ReadInv'
      BY <1>1 DEF vars, TreeInv, ShapeInv, WorkInv, WorkShape, FidInv, FidShape, ReadInv, ReadShape
    <3>. QED  BY <3>1, <3>3, <3>4 DEF ShapeInv
  <2>2. RefExact'
    <3>1. Dangling' <=> Dangling
      BY <1>1 DEF vars, Dangling, Pointed, Listed
    <3>2. \A f \in Files : Refs(f)' = Refs(f)
      BY <1>1 DEF vars, Refs, Listed
    <3>. QED  BY <1>1, <3>1, <3>2 DEF vars, TreeInv, RefExact
  <2>3. OnInv' = OnInv /\ NamesInv' = NamesInv
    BY <1>1 DEF vars, OnInv, OnShape, GotShape, NamesInv, Listed
  <2>4. \A w \in Workers : (RemoveShape(w)' <=> RemoveShape(w)) /\ (CreateShape(w)' <=> CreateShape(w))
    BY <1>1 DEF vars, RemoveShape, CreateShape, Named, Others
  <2>5. Dangling' = Dangling
    BY <1>1 DEF vars, Dangling, Pointed, Listed
  <2>6. PoliteInv'
    BY <1>1, <2>3, <2>4, <2>5 DEF vars, TreeInv, PoliteInv
  <2>. QED  BY <2>1, <2>2, <2>6 DEF TreeInv
<1>2. CASE NpFileNext
  <2>1. PICK w \in Workers : ~Dangling /\ (Take(w) \/ Run(w))
    BY <1>2 DEF NpFileNext
  <2>2. CASE Take(w)
    <3>1. PICK x \in FFids :
            \/ npfile_attach(w, x)
            \/ \E y \in FFids : npfile_clone(w, x, y)
            \/ \E n \in Names : WalkFind(w, x, n) \/ CreateExists(w, x, n) \/ CreateFind(w, x, n)
            \/ WalkUp(w, x)
            \/ WalkFile(w, x)
            \/ \E ok \in BOOLEAN : npfile_open(w, x, ok)
            \/ \E fits \in BOOLEAN : npfile_read_dir(w, x, fits)
            \/ WstatName(w, x)
            \/ RemoveCheck(w, x)
            \/ npfile_clunk(w, x)
      BY <2>2 DEF Take
    <3>2. CASE npfile_attach(w, x)
      BY <2>1, <3>2, AttachKeeps
    <3>3. ASSUME NEW y \in FFids, npfile_clone(w, x, y) PROVE TreeInv'
      BY <2>1, <3>3, CloneKeeps
    <3>4. ASSUME NEW n \in Names, WalkFind(w, x, n) PROVE TreeInv'
      BY <2>1, <3>4, WalkFindKeeps
    <3>5. ASSUME NEW n \in Names, CreateExists(w, x, n) PROVE TreeInv'
      BY <2>1, <3>5, CreateExistsKeeps
    <3>6. ASSUME NEW n \in Names, CreateFind(w, x, n) PROVE TreeInv'
      BY <2>1, <3>6, CreateFindKeeps
    <3>7. CASE WalkUp(w, x)
      BY <2>1, <3>7, WalkUpKeeps
    <3>8. CASE WalkFile(w, x)
      BY <2>1, <3>8, WalkFileKeeps
    <3>9. ASSUME NEW ok \in BOOLEAN, npfile_open(w, x, ok) PROVE TreeInv'
      BY <2>1, <3>9, OpenKeeps
    <3>10. ASSUME NEW fits \in BOOLEAN, npfile_read_dir(w, x, fits) PROVE TreeInv'
      BY <2>1, <3>10, ReadDirKeeps
    <3>11. CASE WstatName(w, x)
      BY <2>1, <3>11, WstatNameKeeps
    <3>12. CASE RemoveCheck(w, x)
      BY <2>1, <3>12, RemoveCheckKeeps
    <3>13. CASE npfile_clunk(w, x)
      BY <2>1, <3>13, ClunkKeeps
    <3>. QED  BY <3>1, <3>2, <3>3, <3>4, <3>5, <3>6, <3>7, <3>8, <3>9, <3>10, <3>11, <3>12, <3>13
  <2>3. CASE Run(w)
    <3>1. CASE WalkMove(w) \/ CreateDone(w)
      BY <2>1, <3>1, MoveKeeps
    <3>2. ASSUME NEW dir \in BOOLEAN, CreateMake(w, dir) PROVE TreeInv'
      BY <2>1, <3>2, CreateMakeKeeps
    <3>3. CASE CreateRefused(w) \/ RemoveRefused(w)
      BY <2>1, <3>3, RefusedKeeps
    <3>4. CASE RemoveDo(w)
      BY <2>1, <3>4, RemoveDoKeeps
    <3>5. CASE RemoveClunk(w)
      BY <2>1, <3>5, RemoveClunkKeeps
    <3>. QED  BY <2>3, <3>1, <3>2, <3>3, <3>4, <3>5 DEF Run
  <2>. QED  BY <2>1, <2>2, <2>3
<1>. QED  BY <1>1, <1>2

(***************************************************************************)
(* The invariant behind the others: a directory's list and the parents of  *)
(* its files agree, a worker has what its operation needs, the counts are  *)
(* exact, and with polite clients no file that is in use is removed.       *)
(***************************************************************************)
THEOREM Invariance == NpFileSpec => []TreeInv
BY InitTree, NextTree, PTL DEF NpFileSpec

(***************************************************************************)
(* The files, lists, fids and workers of npfile.c and ramfs2.c are what    *)
(* their C types say, and npfile_decrefimpl leaves no live file without a  *)
(* reference.                                                              *)
(***************************************************************************)
THEOREM TypeCorrect == NpFileSpec => []NpFileTypeOK
<1>1. TreeInv => NpFileTypeOK
  <2>. SUFFICES ASSUME TreeInv PROVE NpFileTypeOK
    OBVIOUS
  <2>1. TypeInv /\ Good(tree)
    BY DEF TreeInv, ShapeInv, LiveInv
  <2>2. ASSUME NEW f \in Files
        PROVE  /\ tree[f].st \in {"none", "live", "freed"}
               /\ tree[f].st = "live" => tree[f].ref > 0
               /\ {tree[f].ref, tree[f].lost, tree[f].owed} \subseteq Nat
               /\ tree[f].parent \in Files \cup {Nil}
               /\ kids[f] \in Seq(Files \ {Root})
    BY <2>1 DEF TypeInv, Good, FileRec, FileOrNil
  <2>3. ASSUME NEW x \in FFids
        PROVE  {ff[x].file, ff[x].dirent} \subseteq Files \cup {Nil} /\ ff[x].due \subseteq Files
    BY <2>1 DEF TypeInv, FidRec, FileOrNil
  <2>4. ASSUME NEW w \in Workers
        PROVE  fw[w].fid \in FFids \cup {Nil} /\ {fw[w].file, fw[w].got} \subseteq Files \cup {Nil}
    BY <2>1 DEF TypeInv, WorkRec, FileOrNil
  <2>5. {polite, crashed} \subseteq BOOLEAN
    BY <2>1 DEF TypeInv
  <2>. QED  BY <2>2, <2>3, <2>4, <2>5 DEF NpFileTypeOK
<1>. QED  BY <1>1, Invariance, PTL

(***************************************************************************)
(* npfile_incref and npfile_decref are called so that the count of every   *)
(* file is the number of its references, apart from those the code is      *)
(* known to forget and those a walk to ".." gives back too often.          *)
(***************************************************************************)
THEOREM RefExactAlways == NpFileSpec => []RefExact
<1>1. TreeInv => RefExact
  BY DEF TreeInv
<1>. QED  BY <1>1, Invariance, PTL

(***************************************************************************)
(* While the clients are polite no worker follows a null or dangling       *)
(* pointer, whatever npfile_walk, npfile_create, npfile_remove and         *)
(* npfile_read_dir do at the same time.                                    *)
(***************************************************************************)
THEOREM PoliteSafeAlways == NpFileSpec => []PoliteSafe
<1>1. TreeInv => PoliteSafe
  BY DEF TreeInv, PoliteInv, PoliteSafe
<1>. QED  BY <1>1, Invariance, PTL

(***************************************************************************)
(* With polite clients the names in a directory differ and a directory     *)
(* that was removed is empty, though npfile_create and npfile_remove look  *)
(* in one section under the lock and act in another.                       *)
(***************************************************************************)
THEOREM TreeSoundAlways == NpFileSpec => []TreeSound
<1>1. TreeInv => TreeSound
  <2>. SUFFICES ASSUME TreeInv, polite, NEW d \in Files
                PROVE  /\ \A n \in Names : Cardinality(Named(d, n)) <= 1
                       /\ d # Root /\ ~Listed(d) => kids[d] = <<>>
    BY DEF TreeSound
  <2>1. /\ \A f, g \in ToSet(kids[d]) : tree[f].name = tree[g].name => f = g
        /\ d # Root /\ ~Listed(d) => kids[d] = <<>>
    BY DEF TreeInv, PoliteInv, NamesInv
  <2>2. ASSUME NEW n \in Names PROVE Cardinality(Named(d, n)) <= 1
    <3>1. CASE Named(d, n) = {}
      BY <3>1, FS_EmptySet
    <3>2. CASE Named(d, n) # {}
      <4>1. PICK f \in Named(d, n) : TRUE
        BY <3>2
      <4>2. Named(d, n) = {f}
        BY <2>1, <4>1 DEF Named
      <4>3. Cardinality({f}) = 1
        BY FS_Singleton
      <4>. QED  BY <4>2, <4>3
    <3>. QED  BY <3>1, <3>2
  <2>. QED  BY <2>1, <2>2
<1>. QED  BY <1>1, Invariance, PTL

(***************************************************************************)
(* npfile_read_dir, called until it returns nothing more, has returned     *)
(* every file that was in the directory all the time, unless rfs_remove    *)
(* took out the entry that was to be read next.                            *)
(***************************************************************************)
THEOREM DirAllAlways == NpFileSpec => []DirAll
<1>1. TreeInv => DirAll
  BY DEF TreeInv, ShapeInv, ReadInv, ReadShape, DirAll
<1>. QED  BY <1>1, Invariance, PTL

----------------------------------------------------------------------------
(***************************************************************************)
(* The properties of NpFileData, for every number of workers and fids and  *)
(* every length: what was written stays, copies stay inside the data, and  *)
(* a file is opened exclusively once.                                      *)
(*                                                                         *)
(* The length and the size of the data are set apart, so that neither      *)
(* property is inductive: LenInv says how the two stand to each other at   *)
(* each point of the operations that change them, UseInv what a worker     *)
(* that has looked at the length may still rely on.                        *)
(***************************************************************************)

Places == {"idle", "made", "open", "trunc", "trunc2", "grow", "grown", "copy", "wstat"}

Contents == [len : Nat, cap : Nat, excl : BOOLEAN, kept : SUBSET Nat, shrunk : BOOLEAN]
FidOpen == [open : Modes \cup {"no"}, excl : BOOLEAN]
AtFile == [pc : Places, fid : FFids \cup {Nil}, mode : Modes, end : Nat, raced : BOOLEAN]

DataTypeOK ==
    /\ gentle \in BOOLEAN /\ wild \in BOOLEAN
    /\ data \in Contents
    /\ df \in [FFids -> FidOpen]
    /\ dw \in [Workers -> AtFile]

\* Whoever copies copies something.
EndInv == \A w \in Workers : dw[w].pc \in {"grow", "grown", "copy"} => dw[w].end > 0

\* A truncation has the file for itself, but for workers that were overtaken.
AloneInv ==
    /\ \A w \in Workers : dw[w].pc \in {"trunc", "trunc2"} =>
         \A v \in Workers \ {w} : dw[v].pc \in {"idle", "open"}
    /\ \A w \in Workers : dw[w].pc = "wstat" =>
         \A v \in Workers \ {w} : /\ dw[v].pc \notin {"grown", "wstat"}
                                  /\ dw[v].pc \in {"grow", "copy"} => dw[v].raced
    /\ \A w, v \in Workers : dw[w].pc = "grown" /\ dw[v].pc = "grown" => w = v

\* The length is never more than the data, but in the middle of a truncation.
LenInv ==
    /\ \A o \in data.kept : o < data.len /\ o < data.cap
    /\ (~\E w \in Workers : dw[w].pc \in {"trunc2", "wstat"}) => data.len <= data.cap
    /\ \A w \in Workers : dw[w].pc = "trunc2" => data.kept = {}
    /\ \A w \in Workers : dw[w].pc = "wstat" => data.cap = dw[w].end

\* What a worker relies on that has looked at the length.
UseInv ==
    \A w \in Workers :
      /\ dw[w].pc = "grown" => data.cap = dw[w].end
      /\ dw[w].pc = "copy" /\ ~dw[w].raced =>
           dw[w].end <= data.cap /\ (dw[w].mode = "write" => dw[w].end <= data.len)

DataInv ==
    /\ DataTypeOK
    /\ EndInv
    /\ gentle /\ ~data.shrunk => AloneInv /\ LenInv /\ UseInv

\* Those that have the file open exclusively, or are about to.
ExclInv ==
    /\ \A x \in FFids : df[x].excl => data.excl
    /\ \A w \in Workers : dw[w].pc = "open" /\ dw[w].mode = "excl" =>
         /\ data.excl
         /\ \A x \in FFids : ~df[x].excl
         /\ \A v \in Workers : dw[v].pc = "open" /\ dw[v].mode = "excl" => v = w
    /\ \A x, y \in FFids : df[x].excl /\ df[y].excl => x = y
    /\ \A w \in Workers : dw[w].pc \in {"trunc", "trunc2"} => dw[w].mode = "trunc"
----------------------------------------------------------------------------
(* DataInv *)

\* Race only marks workers.
LEMMA RaceTyped ==
    ASSUME DataTypeOK, NEW w \in Workers
    PROVE  /\ Race(w) \in [Workers -> AtFile]
           /\ Race(w)[w] = dw[w]
           /\ \A v \in Workers \ {w} :
                /\ Race(w)[v].pc = dw[v].pc /\ Race(w)[v].end = dw[v].end
                /\ Race(w)[v].mode = dw[v].mode
                /\ dw[v].pc \in {"grow", "grown", "copy"} => Race(w)[v].raced
BY DEF DataTypeOK, AtFile, Race

\* The locked section of npfile_open keeps DataInv.
LEMMA OpenCheckKeeps ==
    ASSUME DataInv, NEW w \in Workers, NEW x \in FFids, NEW mode \in Modes, OpenCheck(w, x, mode)
    PROVE  DataInv'
<1>. USE NpFileDataAssumption DEF DataInv, OpenCheck, Receive, Gentle, DataLocked, Resting, Closed, Modes, Places
<1>1. DataTypeOK'
  <2>1. data' \in Contents
    BY DEF DataTypeOK, Contents, AtFile
  <2>2. df' \in [FFids -> FidOpen]
    BY DEF DataTypeOK, FidOpen, AtFile
  <2>3. dw' \in [Workers -> AtFile]
    BY DEF DataTypeOK, AtFile, Contents
  <2>. QED  BY <2>1, <2>2, <2>3 DEF DataTypeOK
<1>2. EndInv'
  BY DEF DataTypeOK, AtFile, EndInv
<1>3. ASSUME gentle', ~data'.shrunk
      PROVE  AloneInv' /\ LenInv' /\ UseInv'
  <2>1. gentle /\ ~data.shrunk
    BY <1>3 DEF DataTypeOK, Contents
  <2>2. AloneInv'
    BY <2>1 DEF DataTypeOK, AtFile, Contents, AloneInv
  <2>3. LenInv'
    BY <2>1 DEF DataTypeOK, AtFile, Contents, AloneInv, LenInv, UseInv, EndInv
  <2>4. UseInv'
    BY <2>1 DEF DataTypeOK, AtFile, Contents, AloneInv, LenInv, UseInv, EndInv
  <2>. QED  BY <2>2, <2>3, <2>4
<1>. QED  BY <1>1, <1>2, <1>3

\* A close keeps DataInv.
LEMMA CloseFileKeeps ==
    ASSUME DataInv, NEW w \in Workers, NEW x \in FFids, CloseFile(w, x)
    PROVE  DataInv'
<1>. USE NpFileDataAssumption DEF DataInv, CloseFile, Receive, Gentle, DataLocked, Resting, Closed, Modes, Places
<1>1. DataTypeOK'
  <2>1. data' \in Contents
    BY DEF DataTypeOK, Contents, AtFile
  <2>2. df' \in [FFids -> FidOpen]
    BY DEF DataTypeOK, FidOpen, AtFile
  <2>3. dw' \in [Workers -> AtFile]
    BY DEF DataTypeOK, AtFile, Contents
  <2>. QED  BY <2>1, <2>2, <2>3 DEF DataTypeOK
<1>2. EndInv'
  BY DEF DataTypeOK, AtFile, EndInv
<1>3. ASSUME gentle', ~data'.shrunk
      PROVE  AloneInv' /\ LenInv' /\ UseInv'
  <2>1. gentle /\ ~data.shrunk
    BY <1>3 DEF DataTypeOK, Contents
  <2>2. AloneInv'
    BY <2>1 DEF DataTypeOK, AtFile, Contents, AloneInv
  <2>3. LenInv'
    BY <2>1 DEF DataTypeOK, AtFile, Contents, AloneInv, LenInv, UseInv, EndInv
  <2>4. UseInv'
    BY <2>1 DEF DataTypeOK, AtFile, Contents, AloneInv, LenInv, UseInv, EndInv
  <2>. QED  BY <2>2, <2>3, <2>4
<1>. QED  BY <1>1, <1>2, <1>3

\* The look of rfs_read at the length keeps DataInv.
LEMMA rfs_readKeeps ==
    ASSUME DataInv, NEW w \in Workers, NEW x \in FFids, NEW off \in 0..(MaxLen - 1), rfs_read(w, x, off)
    PROVE  DataInv'
<1>. USE NpFileDataAssumption DEF DataInv, rfs_read, Receive, Gentle, DataLocked, Resting, Closed, Modes, Places, Truncating
<1>1. DataTypeOK'
  <2>1. data' \in Contents
    BY DEF DataTypeOK, Contents, AtFile
  <2>2. df' \in [FFids -> FidOpen]
    BY DEF DataTypeOK, FidOpen, AtFile
  <2>3. dw' \in [Workers -> AtFile]
    <3>1. off + 1 \in Nat /\ "copy" \in Places
      OBVIOUS
    <3>2. [Resting EXCEPT !.pc = "copy", !.fid = x, !.end = off + 1] \in AtFile
      BY <3>1 DEF AtFile
    <3>. QED  BY <3>2 DEF DataTypeOK
  <2>. QED  BY <2>1, <2>2, <2>3 DEF DataTypeOK
<1>2. EndInv'
  BY DEF DataTypeOK, AtFile, EndInv
<1>3. ASSUME gentle', ~data'.shrunk
      PROVE  AloneInv' /\ LenInv' /\ UseInv'
  <2>1. gentle /\ ~data.shrunk
    BY <1>3 DEF DataTypeOK, Contents
  <2>2. AloneInv'
    BY <2>1 DEF DataTypeOK, AtFile, Contents, AloneInv
  <2>3. LenInv'
    BY <2>1 DEF DataTypeOK, AtFile, Contents, AloneInv, LenInv, UseInv, EndInv
  <2>4. UseInv'
    BY <2>1 DEF DataTypeOK, AtFile, Contents, AloneInv, LenInv, UseInv, EndInv
  <2>. QED  BY <2>2, <2>3, <2>4
<1>. QED  BY <1>1, <1>2, <1>3

\* The look of rfs_write at the length keeps DataInv.
LEMMA rfs_writeKeeps ==
    ASSUME DataInv, NEW w \in Workers, NEW x \in FFids, NEW off \in 0..(MaxLen - 1), rfs_write(w, x, off)
    PROVE  DataInv'
<1>. USE NpFileDataAssumption DEF DataInv, rfs_write, Receive, Gentle, DataLocked, Resting, Closed, Modes, Places, Truncating, Writes
<1>1. DataTypeOK'
  <2>1. data' \in Contents
    BY DEF DataTypeOK, Contents, AtFile
  <2>2. df' \in [FFids -> FidOpen]
    BY DEF DataTypeOK, FidOpen, AtFile
  <2>3. dw' \in [Workers -> AtFile]
    <3>1. off + 1 \in Nat
      OBVIOUS
    <3>2. ASSUME NEW p \in {"grow", "copy"}
          PROVE  [Resting EXCEPT !.pc = p, !.fid = x, !.mode = "write", !.end = off + 1] \in AtFile
      BY <3>1 DEF AtFile
    <3>. QED  BY <3>2 DEF DataTypeOK
  <2>. QED  BY <2>1, <2>2, <2>3 DEF DataTypeOK
<1>2. EndInv'
  BY DEF DataTypeOK, AtFile, EndInv
<1>3. ASSUME gentle', ~data'.shrunk
      PROVE  AloneInv' /\ LenInv' /\ UseInv'
  <2>1. gentle /\ ~data.shrunk
    BY <1>3 DEF DataTypeOK, Contents
  <2>2. AloneInv'
    BY <2>1 DEF DataTypeOK, AtFile, Contents, AloneInv
  <2>3. LenInv'
    BY <2>1 DEF DataTypeOK, AtFile, Contents, AloneInv, LenInv, UseInv, EndInv
  <2>4. UseInv'
    BY <2>1 DEF DataTypeOK, AtFile, Contents, AloneInv, LenInv, UseInv, EndInv
  <2>. QED  BY <2>2, <2>3, <2>4
<1>. QED  BY <1>1, <1>2, <1>3

\* The truncation of rfs_wstat keeps DataInv.
LEMMA rfs_wstatKeeps ==
    ASSUME DataInv, NEW w \in Workers, NEW x \in FFids, NEW len \in 0..MaxLen, rfs_wstat(w, x, len)
    PROVE  DataInv'
<1>. USE NpFileDataAssumption DEF DataInv, rfs_wstat, Receive, Gentle, DataLocked, Resting, Closed, Modes, Places, Truncating, Race
<1>1. DataTypeOK'
  <2>1. data' \in Contents
    <3>1. len \in Nat
      OBVIOUS
    <3>2. {o \in data.kept : o < len} \in SUBSET Nat
      BY DEF DataTypeOK, Contents
    <3>. QED  BY <3>1, <3>2 DEF DataTypeOK, Contents
  <2>2. df' \in [FFids -> FidOpen]
    BY DEF DataTypeOK, FidOpen, AtFile
  <2>3. dw' \in [Workers -> AtFile]
    <3>. len \in Nat
      OBVIOUS
    <3>1. [Resting EXCEPT !.pc = "wstat", !.fid = x, !.end = len] \in AtFile
      BY DEF AtFile
    <3>2. Race(w) \in [Workers -> AtFile]
      BY RaceTyped
    <3>. HIDE DEF Race
    <3>. QED  BY <3>1, <3>2 DEF DataTypeOK
  <2>. QED  BY <2>1, <2>2, <2>3 DEF DataTypeOK
<1>2. EndInv'
  BY DEF DataTypeOK, AtFile, EndInv
<1>3. ASSUME gentle', ~data'.shrunk
      PROVE  AloneInv' /\ LenInv' /\ UseInv'
  <2>1. gentle /\ ~data.shrunk
    BY <1>3 DEF DataTypeOK, Contents
  <2>2. AloneInv'
    BY <2>1 DEF DataTypeOK, AtFile, Contents, AloneInv
  <2>3. LenInv'
    BY <2>1 DEF DataTypeOK, AtFile, Contents, AloneInv, LenInv, UseInv, EndInv
  <2>4. UseInv'
    BY <2>1 DEF DataTypeOK, AtFile, Contents, AloneInv, LenInv, UseInv, EndInv
  <2>. QED  BY <2>2, <2>3, <2>4
<1>. QED  BY <1>1, <1>2, <1>3

\* A truncation of rfs_wstat that fails keeps DataInv.
LEMMA WstatFailsKeeps ==
    ASSUME DataInv, NEW w \in Workers, NEW x \in FFids, WstatFails(w, x)
    PROVE  DataInv'
<1>. USE DEF DataInv, WstatFails, DataLocked, Places
<1>1. DataTypeOK'
  <2>1. data' \in Contents
    BY DEF DataTypeOK, Contents
  <2>2. dw' \in [Workers -> AtFile]
    BY RaceTyped
  <2>. QED  BY <2>1, <2>2 DEF DataTypeOK
<1>2. /\ \A v \in Workers : dw'[v].pc = dw[v].pc /\ dw'[v].end = dw[v].end /\ dw'[v].mode = dw[v].mode
      /\ \A v \in Workers : dw[v].pc \in {"grow", "grown", "copy"} => dw'[v].raced
  BY RaceTyped DEF Receive
<1>3. /\ data'.len = data.len /\ data'.cap = data.len /\ data'.kept = data.kept /\ data'.shrunk = data.shrunk
      /\ gentle' = gentle
  BY DEF DataTypeOK, Contents
<1>4. EndInv'
  BY <1>2 DEF EndInv
<1>5. ASSUME gentle', ~data'.shrunk
      PROVE  AloneInv' /\ LenInv' /\ UseInv'
  <2>1. AloneInv /\ LenInv /\ UseInv /\ \A v \in Workers : dw[v].pc \notin {"grown", "wstat", "trunc", "trunc2"}
    BY <1>3, <1>5 DEF Gentle, Truncating
  <2>2. AloneInv'
    BY <1>2, <2>1 DEF AloneInv
  <2>3. LenInv'
    BY <1>2, <1>3, <2>1 DEF LenInv, DataTypeOK, Contents
  <2>4. UseInv'
    BY <1>2, <2>1 DEF UseInv
  <2>. QED  BY <2>2, <2>3, <2>4
<1>. QED  BY <1>1, <1>4, <1>5

\* The truncation of an open keeps DataInv.
LEMMA OpenTruncKeeps ==
    ASSUME DataInv, NEW w \in Workers, OpenTrunc(w)
    PROVE  DataInv'
<1>. USE NpFileDataAssumption DEF DataInv, OpenTrunc, Receive, Gentle, DataLocked, Resting, Closed, Modes, Places, Race
<1>1. DataTypeOK'
  <2>1. data' \in Contents
    BY DEF DataTypeOK, Contents, AtFile
  <2>2. df' \in [FFids -> FidOpen]
    BY DEF DataTypeOK, FidOpen, AtFile
  <2>3. dw' \in [Workers -> AtFile]
    <3>1. Race(w) \in [Workers -> AtFile]
      BY RaceTyped
    <3>. HIDE DEF Race
    <3>. QED  BY <3>1 DEF DataTypeOK, AtFile
  <2>. QED  BY <2>1, <2>2, <2>3 DEF DataTypeOK
<1>2. EndInv'
  BY DEF DataTypeOK, AtFile, EndInv
<1>3. ASSUME gentle', ~data'.shrunk
      PROVE  AloneInv' /\ LenInv' /\ UseInv'
  <2>1. gentle /\ ~data.shrunk
    BY <1>3 DEF DataTypeOK, Contents
  <2>2. AloneInv'
    BY <2>1, SMTT(30) DEF DataTypeOK, AtFile, Contents, AloneInv
  <2>3. LenInv'
    BY <2>1 DEF DataTypeOK, AtFile, Contents, AloneInv, LenInv, UseInv, EndInv
  <2>4. UseInv'
    BY <2>1 DEF DataTypeOK, AtFile, Contents, AloneInv, LenInv, UseInv, EndInv
  <2>. QED  BY <2>2, <2>3, <2>4
<1>. QED  BY <1>1, <1>2, <1>3

\* The length of a truncating open keeps DataInv.
LEMMA OpenTrunc2Keeps ==
    ASSUME DataInv, NEW w \in Workers, OpenTrunc2(w)
    PROVE  DataInv'
<1>. USE NpFileDataAssumption DEF DataInv, OpenTrunc2, Receive, Gentle, DataLocked, Resting, Closed, Modes, Places
<1>1. DataTypeOK'
  <2>1. data' \in Contents
    BY DEF DataTypeOK, Contents, AtFile
  <2>2. df' \in [FFids -> FidOpen]
    BY DEF DataTypeOK, FidOpen, AtFile
  <2>3. dw' \in [Workers -> AtFile]
    BY DEF DataTypeOK, AtFile, Contents
  <2>. QED  BY <2>1, <2>2, <2>3 DEF DataTypeOK
<1>2. EndInv'
  BY DEF DataTypeOK, AtFile, EndInv
<1>3. ASSUME gentle', ~data'.shrunk
      PROVE  AloneInv' /\ LenInv' /\ UseInv'
  <2>1. gentle /\ ~data.shrunk
    BY <1>3 DEF DataTypeOK, Contents
  <2>2. AloneInv'
    BY <2>1 DEF DataTypeOK, AtFile, Contents, AloneInv
  <2>3. LenInv'
    BY <2>1 DEF DataTypeOK, AtFile, Contents, AloneInv, LenInv, UseInv, EndInv
  <2>4. UseInv'
    BY <2>1 DEF DataTypeOK, AtFile, Contents, AloneInv, LenInv, UseInv, EndInv
  <2>. QED  BY <2>2, <2>3, <2>4
<1>. QED  BY <1>1, <1>2, <1>3

\* The end of npfile_open keeps DataInv.
LEMMA OpenDoneKeeps ==
    ASSUME DataInv, NEW w \in Workers, OpenDone(w)
    PROVE  DataInv'
<1>. USE NpFileDataAssumption DEF DataInv, OpenDone, Receive, Gentle, DataLocked, Resting, Closed, Modes, Places
<1>1. DataTypeOK'
  <2>1. data' \in Contents
    BY DEF DataTypeOK, Contents, AtFile
  <2>2. df' \in [FFids -> FidOpen]
    BY DEF DataTypeOK, FidOpen, AtFile
  <2>3. dw' \in [Workers -> AtFile]
    BY DEF DataTypeOK, AtFile, Contents
  <2>. QED  BY <2>1, <2>2, <2>3 DEF DataTypeOK
<1>2. EndInv'
  BY DEF DataTypeOK, AtFile, EndInv
<1>3. ASSUME gentle', ~data'.shrunk
      PROVE  AloneInv' /\ LenInv' /\ UseInv'
  <2>1. gentle /\ ~data.shrunk
    BY <1>3 DEF DataTypeOK, Contents
  <2>2. AloneInv'
    BY <2>1 DEF DataTypeOK, AtFile, Contents, AloneInv
  <2>3. LenInv'
    BY <2>1 DEF DataTypeOK, AtFile, Contents, AloneInv, LenInv, UseInv, EndInv
  <2>4. UseInv'
    BY <2>1 DEF DataTypeOK, AtFile, Contents, AloneInv, LenInv, UseInv, EndInv
  <2>. QED  BY <2>2, <2>3, <2>4
<1>. QED  BY <1>1, <1>2, <1>3

\* The end of npfile_create keeps DataInv.
LEMMA CreateOpenKeeps ==
    ASSUME DataInv, NEW w \in Workers, NEW mode \in Modes, CreateOpen(w, mode)
    PROVE  DataInv'
<1>. USE NpFileDataAssumption DEF DataInv, CreateOpen, Receive, Gentle, DataLocked, Resting, Closed, Modes, Places
<1>1. DataTypeOK'
  <2>1. data' \in Contents
    BY DEF DataTypeOK, Contents, AtFile
  <2>2. df' \in [FFids -> FidOpen]
    BY ZenonT(40) DEF DataTypeOK, FidOpen, AtFile
  <2>3. dw' \in [Workers -> AtFile]
    BY DEF DataTypeOK, AtFile, Contents
  <2>. QED  BY <2>1, <2>2, <2>3 DEF DataTypeOK
<1>2. EndInv'
  BY DEF DataTypeOK, AtFile, EndInv
<1>3. ASSUME gentle', ~data'.shrunk
      PROVE  AloneInv' /\ LenInv' /\ UseInv'
  <2>1. gentle /\ ~data.shrunk
    BY <1>3 DEF DataTypeOK, Contents
  <2>2. AloneInv'
    BY <2>1 DEF DataTypeOK, AtFile, Contents, AloneInv
  <2>3. LenInv'
    BY <2>1 DEF DataTypeOK, AtFile, Contents, AloneInv, LenInv, UseInv, EndInv
  <2>4. UseInv'
    BY <2>1 DEF DataTypeOK, AtFile, Contents, AloneInv, LenInv, UseInv, EndInv
  <2>. QED  BY <2>2, <2>3, <2>4
<1>. QED  BY <1>1, <1>2, <1>3

\* The making of room in rfs_write keeps DataInv.
LEMMA WriteGrowKeeps ==
    ASSUME DataInv, NEW w \in Workers, WriteGrow(w)
    PROVE  DataInv'
<1>. USE NpFileDataAssumption DEF DataInv, WriteGrow, DataLocked, Places
<1>1. CASE dw' = [dw EXCEPT ![w] = Resting] /\ UNCHANGED data
  <2>1. Resting \in AtFile /\ Resting.pc = "idle"
    BY DEF Resting, AtFile, Modes
  <2>2. DataTypeOK'
    BY <1>1, <2>1 DEF DataTypeOK
  <2>3. /\ dw'[w].pc = "idle"
        /\ \A v \in Workers \ {w} : dw'[v] = dw[v]
    BY <1>1, <2>1 DEF DataTypeOK
  <2>4. EndInv'
    BY <2>3 DEF EndInv
  <2>5. ASSUME gentle', ~data'.shrunk
        PROVE  AloneInv' /\ LenInv' /\ UseInv'
    <3>1. AloneInv /\ LenInv /\ UseInv
      BY <1>1, <2>5
    <3>2. AloneInv'
      BY <2>3, <3>1 DEF AloneInv
    <3>3. LenInv'
      BY <1>1, <2>3, <3>1 DEF LenInv
    <3>4. UseInv'
      BY <1>1, <2>3, <3>1 DEF UseInv
    <3>. QED  BY <3>2, <3>3, <3>4
  <2>. QED  BY <2>2, <2>4, <2>5
<1>2. CASE /\ data' = [data EXCEPT !.cap = dw[w].end, !.shrunk = @ \/ dw[w].end < data.cap]
           /\ dw' = [Race(w) EXCEPT ![w].pc = "grown"]
  <2>1. data' \in Contents
    BY <1>2 DEF DataTypeOK, Contents, AtFile
  <2>2. dw' \in [Workers -> AtFile]
    <3>1. [Race(w)[w] EXCEPT !.pc = "grown"] \in AtFile
      <4>1. Race(w)[w] \in AtFile
        BY RaceTyped
      <4>. QED  BY <4>1 DEF AtFile
    <3>. QED  BY <1>2, <3>1, RaceTyped
  <2>3. /\ dw'[w].pc = "grown" /\ dw'[w].end = dw[w].end
        /\ \A v \in Workers \ {w} :
              /\ dw'[v].pc = dw[v].pc /\ dw'[v].end = dw[v].end
              /\ dw[v].pc \in {"grow", "grown", "copy"} => dw'[v].raced
    BY <1>2, RaceTyped DEF AtFile
  <2>4. DataTypeOK'
    BY <2>1, <2>2 DEF DataTypeOK
  <2>5. EndInv'
    BY <2>3 DEF EndInv
  <2>6. ASSUME gentle', ~data'.shrunk
        PROVE  AloneInv' /\ LenInv' /\ UseInv'
    <3>1. AloneInv /\ LenInv /\ UseInv /\ data.cap <= dw[w].end
      <4>1. data'.shrunk = (data.shrunk \/ dw[w].end < data.cap)
        BY <1>2 DEF DataTypeOK, Contents
      <4>2. ~data.shrunk /\ ~(dw[w].end < data.cap)
        BY <4>1, <2>6
      <4>3. AloneInv /\ LenInv /\ UseInv
        BY <4>2, <2>6
      <4>4. dw[w].end \in Nat /\ data.cap \in Nat
        BY DEF DataTypeOK, Contents, AtFile
      <4>. QED  BY <4>2, <4>3, <4>4
    <3>2. data'.cap = dw[w].end /\ data'.len = data.len /\ data'.kept = data.kept
      BY <1>2 DEF DataTypeOK, Contents
    <3>3. AloneInv'
      BY <2>3, <3>1 DEF AloneInv
    <3>4. LenInv'
      <4>1. ~\E v \in Workers : dw[v].pc \in {"trunc", "trunc2", "wstat"}
        BY <3>1 DEF AloneInv
      <4>. QED
        BY <2>3, <3>1, <3>2, <4>1 DEF LenInv, DataTypeOK, Contents, AtFile
    <3>5. UseInv'
      BY <2>3, <3>1, <3>2 DEF UseInv, DataTypeOK, Contents, AtFile
    <3>. QED  BY <3>3, <3>4, <3>5
  <2>. QED  BY <2>4, <2>5, <2>6
<1>. QED  BY <1>1, <1>2

\* The new length of rfs_write keeps DataInv.
LEMMA WriteGrownKeeps ==
    ASSUME DataInv, NEW w \in Workers, WriteGrown(w)
    PROVE  DataInv'
<1>. USE NpFileDataAssumption DEF DataInv, WriteGrown, Receive, Gentle, DataLocked, Resting, Closed, Modes, Places, WriteLen
<1>1. DataTypeOK'
  <2>1. data' \in Contents
    BY DEF DataTypeOK, Contents, AtFile
  <2>2. df' \in [FFids -> FidOpen]
    BY DEF DataTypeOK, FidOpen, AtFile
  <2>3. dw' \in [Workers -> AtFile]
    BY DEF DataTypeOK, AtFile, Contents
  <2>. QED  BY <2>1, <2>2, <2>3 DEF DataTypeOK
<1>2. EndInv'
  BY DEF DataTypeOK, AtFile, EndInv
<1>3. ASSUME gentle', ~data'.shrunk
      PROVE  AloneInv' /\ LenInv' /\ UseInv'
  <2>1. gentle /\ ~data.shrunk
    BY <1>3 DEF DataTypeOK, Contents
  <2>2. AloneInv'
    BY <2>1 DEF DataTypeOK, AtFile, Contents, AloneInv
  <2>3. LenInv'
    BY <2>1 DEF DataTypeOK, AtFile, Contents, AloneInv, LenInv, UseInv, EndInv
  <2>4. UseInv'
    BY <2>1 DEF DataTypeOK, AtFile, Contents, AloneInv, LenInv, UseInv, EndInv
  <2>. QED  BY <2>2, <2>3, <2>4
<1>. QED  BY <1>1, <1>2, <1>3

\* The copy of rfs_read keeps DataInv.
LEMMA ReadDoneKeeps ==
    ASSUME DataInv, NEW w \in Workers, ReadDone(w)
    PROVE  DataInv'
<1>. USE NpFileDataAssumption DEF DataInv, ReadDone, Receive, Gentle, DataLocked, Resting, Closed, Modes, Places
<1>1. DataTypeOK'
  <2>1. data' \in Contents
    BY DEF DataTypeOK, Contents, AtFile
  <2>2. df' \in [FFids -> FidOpen]
    BY DEF DataTypeOK, FidOpen, AtFile
  <2>3. dw' \in [Workers -> AtFile]
    BY DEF DataTypeOK, AtFile, Contents
  <2>. QED  BY <2>1, <2>2, <2>3 DEF DataTypeOK
<1>2. EndInv'
  BY DEF DataTypeOK, AtFile, EndInv
<1>3. ASSUME gentle', ~data'.shrunk
      PROVE  AloneInv' /\ LenInv' /\ UseInv'
  <2>1. gentle /\ ~data.shrunk
    BY <1>3 DEF DataTypeOK, Contents
  <2>2. AloneInv'
    BY <2>1 DEF DataTypeOK, AtFile, Contents, AloneInv
  <2>3. LenInv'
    BY <2>1 DEF DataTypeOK, AtFile, Contents, AloneInv, LenInv, UseInv, EndInv
  <2>4. UseInv'
    BY <2>1 DEF DataTypeOK, AtFile, Contents, AloneInv, LenInv, UseInv, EndInv
  <2>. QED  BY <2>2, <2>3, <2>4
<1>. QED  BY <1>1, <1>2, <1>3

\* The copy of rfs_write keeps DataInv.
LEMMA WriteDoneKeeps ==
    ASSUME DataInv, NEW w \in Workers, WriteDone(w)
    PROVE  DataInv'
<1>. USE NpFileDataAssumption DEF DataInv, WriteDone, Receive, Gentle, DataLocked, Resting, Closed, Modes, Places
<1>1. DataTypeOK'
  <2>1. data' \in Contents
    <3>1. dw[w].end - 1 \in Nat
      BY DEF DataTypeOK, AtFile, EndInv
    <3>. QED  BY <3>1 DEF DataTypeOK, Contents
  <2>2. df' \in [FFids -> FidOpen]
    BY DEF DataTypeOK, FidOpen, AtFile
  <2>3. dw' \in [Workers -> AtFile]
    BY DEF DataTypeOK, AtFile, Contents
  <2>. QED  BY <2>1, <2>2, <2>3 DEF DataTypeOK
<1>2. EndInv'
  BY DEF DataTypeOK, AtFile, EndInv
<1>3. ASSUME gentle', ~data'.shrunk
      PROVE  AloneInv' /\ LenInv' /\ UseInv'
  <2>1. gentle /\ ~data.shrunk
    BY <1>3 DEF DataTypeOK, Contents
  <2>2. AloneInv'
    BY <2>1 DEF DataTypeOK, AtFile, Contents, AloneInv
  <2>3. LenInv'
    BY <2>1 DEF DataTypeOK, AtFile, Contents, AloneInv, LenInv, UseInv, EndInv
  <2>4. UseInv'
    BY <2>1 DEF DataTypeOK, AtFile, Contents, AloneInv, LenInv, UseInv, EndInv
  <2>. QED  BY <2>2, <2>3, <2>4
<1>. QED  BY <1>1, <1>2, <1>3

\* The length of rfs_wstat keeps DataInv.
LEMMA WstatDoneKeeps ==
    ASSUME DataInv, NEW w \in Workers, WstatDone(w)
    PROVE  DataInv'
<1>. USE NpFileDataAssumption DEF DataInv, WstatDone, Receive, Gentle, DataLocked, Resting, Closed, Modes, Places, WstatLen
<1>1. DataTypeOK'
  <2>1. data' \in Contents
    BY DEF DataTypeOK, Contents, AtFile
  <2>2. df' \in [FFids -> FidOpen]
    BY DEF DataTypeOK, FidOpen, AtFile
  <2>3. dw' \in [Workers -> AtFile]
    BY DEF DataTypeOK, AtFile, Contents
  <2>. QED  BY <2>1, <2>2, <2>3 DEF DataTypeOK
<1>2. EndInv'
  BY DEF DataTypeOK, AtFile, EndInv
<1>3. ASSUME gentle', ~data'.shrunk
      PROVE  AloneInv' /\ LenInv' /\ UseInv'
  <2>1. gentle /\ ~data.shrunk
    BY <1>3 DEF DataTypeOK, Contents
  <2>2. AloneInv'
    BY <2>1 DEF DataTypeOK, AtFile, Contents, AloneInv
  <2>3. LenInv'
    BY <2>1 DEF DataTypeOK, AtFile, Contents, AloneInv, LenInv, UseInv, EndInv
  <2>4. UseInv'
    BY <2>1 DEF DataTypeOK, AtFile, Contents, AloneInv, LenInv, UseInv, EndInv
  <2>. QED  BY <2>2, <2>3, <2>4
<1>. QED  BY <1>1, <1>2, <1>3

\* Every step keeps DataInv.
LEMMA DataNextKeeps ==
    ASSUME DataInv, [DataNext]_dvars
    PROVE  DataInv'
<1>1. CASE UNCHANGED dvars
  BY <1>1 DEF dvars, DataInv, DataTypeOK, EndInv, AloneInv, LenInv, UseInv
<1>2. CASE DataNext
  <2>1. PICK w \in Workers :
         \/ \E x \in FFids :
              \/ \E mode \in Modes : OpenCheck(w, x, mode)
              \/ CloseFile(w, x) \/ WstatFails(w, x)
              \/ \E off \in 0..(MaxLen - 1) : rfs_read(w, x, off) \/ rfs_write(w, x, off)
              \/ \E len \in 0..MaxLen : rfs_wstat(w, x, len)
         \/ OpenTrunc(w) \/ OpenTrunc2(w) \/ OpenDone(w)
         \/ \E mode \in Modes \ {"trunc"} : CreateOpen(w, mode)
         \/ WriteGrow(w) \/ WriteGrown(w) \/ ReadDone(w) \/ WriteDone(w) \/ WstatDone(w)
    BY <1>2 DEF DataNext
  <2>2. ASSUME NEW x \in FFids, NEW mode \in Modes, OpenCheck(w, x, mode)
        PROVE  DataInv'
    BY <2>2, OpenCheckKeeps
  <2>3. ASSUME NEW x \in FFids, CloseFile(w, x)
        PROVE  DataInv'
    BY <2>3, CloseFileKeeps
  <2>4. ASSUME NEW x \in FFids, NEW off \in 0..(MaxLen - 1), rfs_read(w, x, off)
        PROVE  DataInv'
    BY <2>4, rfs_readKeeps
  <2>5. ASSUME NEW x \in FFids, NEW off \in 0..(MaxLen - 1), rfs_write(w, x, off)
        PROVE  DataInv'
    BY <2>5, rfs_writeKeeps
  <2>6. ASSUME NEW x \in FFids, NEW len \in 0..MaxLen, rfs_wstat(w, x, len)
        PROVE  DataInv'
    BY <2>6, rfs_wstatKeeps
  <2>7. ASSUME NEW mode \in Modes, CreateOpen(w, mode)
        PROVE  DataInv'
    BY <2>7, CreateOpenKeeps
  <2>8. ASSUME NEW x \in FFids, WstatFails(w, x)
        PROVE  DataInv'
    BY <2>8, WstatFailsKeeps
  <2>. QED
    BY <2>1, <2>2, <2>3, <2>4, <2>5, <2>6, <2>7, <2>8, OpenTruncKeeps, OpenTrunc2Keeps, OpenDoneKeeps,
       WriteGrowKeeps, WriteGrownKeeps, ReadDoneKeeps, WriteDoneKeeps, WstatDoneKeeps
<1>. QED  BY <1>1, <1>2

\* It holds at first.
LEMMA DataInitKeeps ==
    ASSUME DataInit
    PROVE  DataInv
<1>1. PICK w \in Workers, x \in FFids :
        dw = [v \in Workers |-> IF v = w THEN [Resting EXCEPT !.pc = "made", !.fid = x] ELSE Resting]
  BY DEF DataInit
<1>2. Resting \in AtFile /\ [Resting EXCEPT !.pc = "made", !.fid = x] \in AtFile
  BY DEF Resting, AtFile, Modes, Places
<1>3. Closed \in FidOpen /\ EmptyFile \in Contents
  BY DEF Closed, FidOpen, EmptyFile, Contents
<1>4. DataTypeOK
  BY <1>1, <1>2, <1>3 DEF DataInit, DataTypeOK
<1>5. \A v \in Workers : dw[v].pc \in {"idle", "made"}
  BY <1>1 DEF Resting
<1>6. EndInv /\ AloneInv /\ UseInv
  BY <1>5 DEF EndInv, AloneInv, UseInv
<1>7. LenInv
  BY <1>5 DEF LenInv, DataInit, EmptyFile
<1>. QED  BY <1>4, <1>6, <1>7 DEF DataInv

\* DataInv always holds.
LEMMA DataInvAlways == DataSpec => []DataInv
BY DataInitKeeps, DataNextKeeps, PTL DEF DataSpec

(***************************************************************************)
(* What was written and not truncated since is part of the file (rfs_write,*)
(* rfs_wstat, file_truncate), whatever the number of workers and fids.     *)
(***************************************************************************)
THEOREM WriteKeptAlways == DataSpec => []WriteKept
<1>1. DataInv => WriteKept
  BY DEF DataInv, LenInv, WriteKept
<1>. QED  BY <1>1, DataInvAlways, PTL

(***************************************************************************)
(* rfs_read and rfs_write copy only bytes that are there, whatever the     *)
(* number of workers and fids, with the exceptions CopyInside states.      *)
(***************************************************************************)
THEOREM CopyInsideAlways == DataSpec => []CopyInside
<1>1. DataInv => CopyInside
  BY DEF DataInv, UseInv, CopyInside
<1>. QED  BY <1>1, DataInvAlways, PTL

----------------------------------------------------------------------------
(* ExclInv *)

\* What a step leaves of every worker but w.
RestSame(w) ==
    \A v \in Workers \ {w} : dw'[v].pc = dw[v].pc /\ dw'[v].mode = dw[v].mode

\* A step that opens nothing keeps ExclInv.
LEMMA ExclSame ==
    ASSUME ExclInv, NEW w \in Workers, RestSame(w), df' = df, data'.excl = data.excl,
           dw'[w].pc = "open" => dw[w].pc \in {"open", "trunc2"} /\ dw'[w].mode = dw[w].mode,
           dw'[w].pc \in {"trunc", "trunc2"} => dw'[w].mode = "trunc"
    PROVE  ExclInv'
BY DEF ExclInv, RestSame

\* Every step keeps ExclInv.
LEMMA ExclNextKeeps ==
    ASSUME DataInv, ExclInv, DataNext
    PROVE  ExclInv'
<1>. USE DEF DataInv, DataTypeOK, Contents, FidOpen, AtFile
<1>1. ASSUME NEW w \in Workers, NEW x \in FFids, NEW mode \in Modes, OpenCheck(w, x, mode)
      PROVE  ExclInv'
  <2>1. /\ dw'[w].pc \in {"trunc", "open"} /\ dw'[w].mode = mode
        /\ dw'[w].pc = "trunc" => mode = "trunc"
        /\ \A v \in Workers \ {w} : dw'[v] = dw[v]
        /\ df' = df /\ (data'.excl <=> data.excl \/ mode = "excl")
        /\ mode = "excl" => ~data.excl
    BY <1>1 DEF OpenCheck, ExclFree, Resting
  <2>2. CASE mode = "excl"
    <3>1. ~data.excl /\ (\A y \in FFids : ~df[y].excl)
      BY <2>1, <2>2 DEF ExclInv
    <3>2. \A v \in Workers : ~(dw[v].pc = "open" /\ dw[v].mode = "excl")
      BY <3>1 DEF ExclInv
    <3>. QED  BY <2>1, <2>2, <3>1, <3>2 DEF ExclInv
  <2>3. CASE mode # "excl"
    BY <2>1, <2>3, SMTT(30) DEF ExclInv
  <2>. QED  BY <2>2, <2>3
<1>2. ASSUME NEW w \in Workers, NEW x \in FFids, CloseFile(w, x)
      PROVE  ExclInv'
  BY <1>2 DEF CloseFile, ExclInv, Closed, Receive
<1>3. ASSUME NEW w \in Workers, OpenDone(w)
      PROVE  ExclInv'
  BY <1>3 DEF OpenDone, ExclInv, Resting
<1>4. ASSUME NEW w \in Workers, NEW mode \in Modes, CreateOpen(w, mode)
      PROVE  ExclInv'
  BY <1>4 DEF CreateOpen, ExclInv, Resting
<1>5. ASSUME NEW w \in Workers, NEW x \in FFids, NEW off \in 0..(MaxLen - 1),
             rfs_read(w, x, off) \/ rfs_write(w, x, off)
      PROVE  ExclInv'
  <2>1. dw'[w].pc \in {"grow", "copy"} /\ RestSame(w)
    <3>1. CASE rfs_read(w, x, off)
      BY <3>1 DEF rfs_read, Resting, RestSame
    <3>2. CASE rfs_write(w, x, off)
      BY <3>2 DEF rfs_write, Resting, RestSame
    <3>. QED  BY <1>5, <3>1, <3>2
  <2>2. df' = df /\ data' = data
    BY <1>5 DEF rfs_read, rfs_write
  <2>. QED  BY <2>1, <2>2, ExclSame
<1>6. ASSUME NEW w \in Workers, NEW x \in FFids, NEW len \in 0..MaxLen, rfs_wstat(w, x, len)
      PROVE  ExclInv'
  <2>1. dw'[w].pc = "wstat" /\ RestSame(w)
    BY <1>6, RaceTyped DEF rfs_wstat, Resting, RestSame
  <2>2. df' = df /\ data'.excl = data.excl
    BY <1>6 DEF rfs_wstat
  <2>. QED  BY <2>1, <2>2, ExclSame
<1>7. ASSUME NEW w \in Workers, OpenTrunc(w)
      PROVE  ExclInv'
  <2>1. dw'[w].pc = "trunc2" /\ dw'[w].mode = dw[w].mode /\ RestSame(w)
    BY <1>7, RaceTyped DEF OpenTrunc, RestSame
  <2>2. df' = df /\ data'.excl = data.excl /\ dw[w].mode = "trunc"
    BY <1>7 DEF OpenTrunc, ExclInv
  <2>. QED  BY <2>1, <2>2, ExclSame
<1>8. ASSUME NEW w \in Workers, OpenTrunc2(w)
      PROVE  ExclInv'
  <2>1. dw'[w].pc = "open" /\ dw'[w].mode = dw[w].mode /\ RestSame(w)
    BY <1>8 DEF OpenTrunc2, RestSame
  <2>2. df' = df /\ data'.excl = data.excl /\ dw[w].pc = "trunc2"
    BY <1>8 DEF OpenTrunc2
  <2>. QED  BY <2>1, <2>2, ExclSame
<1>9. ASSUME NEW w \in Workers, WriteGrow(w)
      PROVE  ExclInv'
  <2>1. dw'[w].pc \in {"idle", "grown"} /\ RestSame(w)
    <3>1. CASE dw' = [dw EXCEPT ![w] = Resting]
      BY <3>1 DEF Resting, RestSame
    <3>2. CASE dw' = [Race(w) EXCEPT ![w].pc = "grown"]
      BY <3>2, RaceTyped DEF RestSame
    <3>. QED  BY <1>9, <3>1, <3>2 DEF WriteGrow
  <2>2. df' = df /\ data'.excl = data.excl
    BY <1>9 DEF WriteGrow
  <2>. QED  BY <2>1, <2>2, ExclSame
<1>10. ASSUME NEW w \in Workers, WriteGrown(w)
       PROVE  ExclInv'
  <2>1. dw'[w].pc \in {"idle", "copy"} /\ RestSame(w)
    BY <1>10 DEF WriteGrown, Resting, RestSame
  <2>2. df' = df /\ data'.excl = data.excl
    BY <1>10 DEF WriteGrown
  <2>. QED  BY <2>1, <2>2, ExclSame
<1>11. ASSUME NEW w \in Workers, ReadDone(w) \/ WriteDone(w) \/ WstatDone(w)
       PROVE  ExclInv'
  <2>1. dw'[w].pc = "idle" /\ RestSame(w)
    BY <1>11 DEF ReadDone, WriteDone, WstatDone, Resting, RestSame
  <2>2. df' = df /\ data'.excl = data.excl
    BY <1>11 DEF ReadDone, WriteDone, WstatDone
  <2>. QED  BY <2>1, <2>2, ExclSame
<1>12. ASSUME NEW w \in Workers, NEW x \in FFids, WstatFails(w, x)
       PROVE  ExclInv'
  <2>1. dw'[w].pc = "idle" /\ RestSame(w)
    BY <1>12, RaceTyped DEF WstatFails, Receive, RestSame
  <2>2. df' = df /\ data'.excl = data.excl
    BY <1>12 DEF WstatFails
  <2>. QED  BY <2>1, <2>2, ExclSame
<1>. HIDE DEF DataInv, DataTypeOK, Contents, FidOpen, AtFile
<1>. QED
  BY <1>1, <1>2, <1>3, <1>4, <1>5, <1>6, <1>7, <1>8, <1>9, <1>10, <1>11, <1>12 DEF DataNext

\* ExclInv always holds.
LEMMA ExclInvAlways == DataSpec => []ExclInv
<1>1. DataInit => ExclInv
  <2>. SUFFICES ASSUME DataInit PROVE ExclInv
    OBVIOUS
  <2>1. \A v \in Workers : dw[v].pc \in {"idle", "made"}
    BY DEF DataInit, Resting
  <2>2. \A x \in FFids : ~df[x].excl
    BY DEF DataInit, Closed
  <2>. QED  BY <2>1, <2>2 DEF ExclInv
<1>2. DataInv /\ ExclInv /\ [DataNext]_dvars => ExclInv'
  <2>1. ASSUME ExclInv, UNCHANGED dvars PROVE ExclInv'
    BY <2>1 DEF ExclInv, dvars
  <2>2. ASSUME DataInv, ExclInv, DataNext PROVE ExclInv'
    BY <2>2, ExclNextKeeps
  <2>. QED  BY <2>1, <2>2
<1>. QED  BY <1>1, <1>2, DataInvAlways, PTL DEF DataSpec

(***************************************************************************)
(* Of the fids that opened the file with Oexcl there is one at most: the   *)
(* look at excl and the setting of it are one section of npfile_open.      *)
(***************************************************************************)
THEOREM ExclOnceAlways == DataSpec => []ExclOnce
<1>1. ExclInv => ExclOnce
  <2>. SUFFICES ASSUME ExclInv PROVE Cardinality({x \in FFids : df[x].excl}) <= 1
    BY DEF ExclOnce
  <2>1. CASE {x \in FFids : df[x].excl} = {}
    BY <2>1, FS_EmptySet
  <2>2. CASE {x \in FFids : df[x].excl} # {}
    <3>1. PICK x \in FFids : df[x].excl
      BY <2>2
    <3>2. {y \in FFids : df[y].excl} = {x}
      BY <3>1 DEF ExclInv
    <3>3. Cardinality({x}) = 1
      BY FS_Singleton
    <3>. QED  BY <3>2, <3>3
  <2>. QED  BY <2>1, <2>2
<1>. QED  BY <1>1, ExclInvAlways, PTL
============================================================================
